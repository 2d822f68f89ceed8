---------------------------- MODULE ReliableStream ----------------------------
(***************************************************************************)
(* What a KCP connection promises its two applications, in one direction:  *)
(* what is read is what was written, in order, nothing lost and nothing    *)
(* twice, and everything written is read in the end.                       *)
(***************************************************************************)
EXTENDS Naturals, Sequences

CONSTANT Data   \* what may be written

VARIABLES
    input,      \* everything written so far
    output      \* everything read so far

vars == <<input, output>>

Init == input = <<>> /\ output = <<>>

Write == \E x \in Data : input' = Append(input, x) /\ UNCHANGED output

Read ==
    /\ Len(output) < Len(input)
    /\ \E n \in (Len(output) + 1)..Len(input) : output' = SubSeq(input, 1, n)
    /\ UNCHANGED input

Next == Write \/ Read

SafeSpec == Init /\ [][Next]_vars

Spec == SafeSpec /\ WF_vars(Read)
=============================================================================
