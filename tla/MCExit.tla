-------------------------------- MODULE MCExit --------------------------------
(***************************************************************************)
(* ExitHooks on one connection, for the two statements of its comments     *)
(* that the code does not keep.                                            *)
(***************************************************************************)
EXTENDS ExitHooks
=============================================================================
