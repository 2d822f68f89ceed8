------------------------------ MODULE MCKcpSend ------------------------------
(* KcpSend on a small instance.                                            *)
EXTENDS KcpSend

(* -mode manual with every mechanism on: nodelay, fast resend after one     *)
(* duplicate ack, and congestion control.                                  *)
ManualMode == {[nodelay |-> TRUE, interval |-> 1, fastresend |-> 1, nocwnd |-> FALSE]}
=============================================================================
