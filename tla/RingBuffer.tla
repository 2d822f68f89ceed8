----------------------------- MODULE RingBuffer -----------------------------
(***************************************************************************)
(* The growable ring under snd_queue, snd_buf and rcv_queue                *)
(* (crates/kcp/src/ringbuffer.rs): a vector of which the slots from head   *)
(* up to tail, around its end, are in use, and one slot always free.       *)
(***************************************************************************)
EXTENDS Naturals, Sequences, FiniteSets

CONSTANTS
    Values,
    Default,            \* T::default(), not an element
    RINGBUFFER_MIN, RINGBUFFER_EXP,
    MaxSize             \* bound: no push() grows the vector beyond it

VARIABLES head, tail, elements

vars == <<head, tail, elements>>

size == Len(elements)
Slot(i) == elements[i + 1]      \* slots are numbered from 0

TypeOK ==
    /\ elements \in Seq(Values \cup {Default}) /\ size \in RINGBUFFER_MIN..MaxSize
    /\ {head, tail} \subseteq 0..size - 1

Init == head = 0 /\ tail = 0 /\ elements = [i \in 1..RINGBUFFER_MIN |-> Default]

-----------------------------------------------------------------------------
len == IF head <= tail THEN tail - head ELSE size - head + tail
is_empty == head = tail
is_full == (tail + 1) % size = head

(* The slots in use, in order: up to the end of the vector, and from its   *)
(* beginning.                                                              *)
as_slices ==
    IF head <= tail THEN <<SubSeq(elements, head + 1, tail), <<>>>>
                    ELSE <<SubSeq(elements, head + 1, size), SubSeq(elements, 1, tail)>>

iter == as_slices[1] \o as_slices[2]

get(i) == Slot(IF head + i >= size THEN head + i - size ELSE head + i)

iter_mut_to(n) ==
    LET a == as_slices[1] b == as_slices[2]
    IN  IF n <= Len(a) THEN SubSeq(a, 1, n) ELSE a \o SubSeq(b, 1, n - Len(a))

(* Mutant: what is skipped of the first part is skipped of the second again. *)
iter_mut_from_twice(skip) ==
    LET a == as_slices[1] b == as_slices[2]
    IN  IF skip <= Len(a) THEN SubSeq(a, skip + 1, Len(a)) \o b
                          ELSE SubSeq(b, skip + 1, Len(b))

iter_mut_from(skip) ==
    LET a == as_slices[1] b == as_slices[2]
    IN  IF skip <= Len(a) THEN SubSeq(a, skip + 1, Len(a)) \o b
                          ELSE SubSeq(b, skip - Len(a) + 1, Len(b))

(* Mutant: the two parts are copied as they lie in the vector. *)
Rebuilt_as_lies(n) == as_slices[2] \o as_slices[1] \o [i \in 1..n - len |-> Default]

(* The elements in the first slots of a vector of n. *)
Rebuilt(n) == iter \o [i \in 1..n - len |-> Default]

GrownSize ==
    IF size < RINGBUFFER_EXP THEN size * 2 ELSE size + (size + 9) \div 10

(* The vector with the slots from i on, n of them around the end, emptied. *)
Emptied(i, n) ==
    [k \in 1..size |-> IF (k - 1 - i + size) % size < n THEN Default ELSE elements[k]]

-----------------------------------------------------------------------------
(* push(), and grow() before it when only the free slot is left.           *)
push(v) ==
    IF is_full
    THEN /\ GrownSize <= MaxSize
         /\ elements' = [Rebuilt(GrownSize) EXCEPT ![len + 1] = v]
         /\ head' = 0 /\ tail' = len + 1
    ELSE /\ elements' = [elements EXCEPT ![tail + 1] = v]
         /\ tail' = (tail + 1) % size
         /\ UNCHANGED head

(* Mutant: the value stays in its slot. *)
pop_leaves ==
    /\ ~is_empty
    /\ head' = (head + 1) % size
    /\ UNCHANGED <<tail, elements>>

pop ==
    /\ ~is_empty
    /\ elements' = [elements EXCEPT ![head + 1] = Default]
    /\ head' = (head + 1) % size
    /\ UNCHANGED tail

(* discard(), which clears the ring when nothing is left.                  *)
discard(n) ==
    IF n >= len
    THEN elements' = Emptied(head, len) /\ head' = 0 /\ tail' = 0
    ELSE /\ elements' = Emptied(head, n)
         /\ head' = IF head + n < size THEN head + n ELSE head + n - size
         /\ UNCHANGED tail

shrink_to(n) ==
    LET new_size == IF n >= len + 1 THEN n ELSE len + 1
    IN  /\ n >= RINGBUFFER_MIN /\ size > new_size
        /\ elements' = Rebuilt(new_size) /\ head' = 0 /\ tail' = len

(* An element changed through get_mut(), peek_mut() or an iterator.        *)
change(i, v) ==
    /\ i < len
    /\ elements' = [elements EXCEPT ![(IF head + i >= size THEN head + i - size ELSE head + i) + 1] = v]
    /\ UNCHANGED <<head, tail>>

Next ==
    \/ \E v \in Values : push(v)
    \/ pop
    \/ \E n \in 0..MaxSize : discard(n) \/ shrink_to(n)
    \/ \E i \in 0..MaxSize - 1, v \in Values : change(i, v)

Spec == Init /\ [][Next]_vars

-----------------------------------------------------------------------------
(* Nothing that was taken out is kept alive by a free slot.                *)
FreeSlotsEmpty ==
    Cardinality({k \in 1..size : elements[k] # Default}) = len

(* Every way to look at the elements shows the same ones: by index, from   *)
(* the front up to a number (the acknowledgement index) and from a number  *)
(* on (the segments flush() does not skip).                                *)
ViewsAgree ==
    /\ len = Len(iter)
    /\ \A i \in 0..len - 1 : get(i) = iter[i + 1]
    /\ \A n \in 0..len : iter_mut_to(n) = SubSeq(iter, 1, n) /\ iter_mut_from(n) = SubSeq(iter, n + 1, len)

(* The ring is a queue, however it grows, shrinks and wraps around.        *)
F == INSTANCE Fifo WITH queue <- iter
IsFifo == F!Spec
=============================================================================
