----------------------------- MODULE MCListener -----------------------------
(* Listener on small instances: two addresses, two conversations, and   *)
(* sessions closed by resets and by the application.                       *)
EXTENDS Listener, TLC

(* The properties treat addresses, conversations and acceptors alike. *)
Symmetry == Permutations(Addrs) \cup Permutations(Convs) \cup Permutations(Acceptors)
=============================================================================
