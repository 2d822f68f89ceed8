------------------------------ MODULE MCSession ------------------------------
(* Session on small instances: a window of two segments, a channel of two  *)
(* packets that flush() finds full as soon as one is in it.                *)
EXTENDS Session
=============================================================================
