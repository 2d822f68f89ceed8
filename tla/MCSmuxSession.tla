---------------------------- MODULE MCSmuxSession ----------------------------
(* SmuxSession on small instances: one stream with every kind of end, or   *)
(* two that share the bucket.                                              *)
EXTENDS SmuxSession, TLC

(* The properties treat streams alike. *)
Symmetry == Permutations(Streams)
=============================================================================
