-------------------------------- MODULE Heap --------------------------------
(***************************************************************************)
(* The binary heaps of the program: rcv_buf of a KCP instance (heap.rs)    *)
(* and the requests of one stream in the smux shaper (ShaperHeap of        *)
(* shaper.rs).  Both are Go's container/heap: an array, push at its end    *)
(* and sift up, pop by exchanging the root with the last and sifting it    *)
(* down.  Items are ordered by class (rcv_buf has one) and, within one, by *)
(* a number modulo 2 * Half compared by signed difference, which is an     *)
(* order only among numbers less than Half apart: the receive window, and  *)
(* the bound on queued requests, see to that.                              *)
(***************************************************************************)
EXTENDS Integers, Sequences, FiniteSets, SequencesExt

CONSTANTS
    Half,        \* half of the number space (2^31 in the code)
    Classes,     \* the priority classes
    HeapMax      \* bound: items in the heap

VARIABLES
    items,       \* segments / items: the array, its root first
    marks        \* the numbers that are in it (rcv_buf only)

vars == <<items, marks>>

Mod == 2 * Half
Item == [class: Classes, sn: 0..Mod - 1]

TypeOK == items \in Seq(Item) /\ Len(items) <= HeapMax /\ marks \subseteq 0..Mod - 1

Init == items = <<>> /\ marks = {}

itimediff(later, earlier) ==
    LET d == (later - earlier) % Mod IN IF d >= Half THEN d - Mod ELSE d

(* Mutant: the numbers are compared as they are. *)
less_plain(a, b) == IF a.class # b.class THEN a.class < b.class ELSE a.sn < b.sn

less(a, b) == IF a.class # b.class THEN a.class < b.class ELSE itimediff(b.sn, a.sn) > 0

Swapped(h, i, j) == [h EXCEPT ![i] = h[j], ![j] = h[i]]

(* The array after the item at j has risen to its place: the parent of j   *)
(* (counted from 1) is j \div 2.                                           *)
up[h \in Seq(Item), j \in Nat] ==
    IF j = 1 \/ ~less(h[j], h[j \div 2]) THEN h
    ELSE up[Swapped(h, j, j \div 2), j \div 2]

(* Mutant: the left child, also when there are two. *)
SmallerChild_left(h, i) == 2 * i

SmallerChild(h, i) ==
    IF 2 * i + 1 <= Len(h) /\ less(h[2 * i + 1], h[2 * i]) THEN 2 * i + 1 ELSE 2 * i

(* The array after the item at i has sunk to its place. *)
down[h \in Seq(Item), i \in Nat] ==
    IF 2 * i > Len(h) THEN h
    ELSE LET j == SmallerChild(h, i)
         IN IF less(h[j], h[i]) THEN down[Swapped(h, i, j), j] ELSE h

(* What keeps the order one: the numbers in the heap are close together. *)
Near(sn) == \A i \in 1..Len(items) : itimediff(sn, items[i].sn) \in (-Half \div 2)..(Half \div 2)

push(x) ==
    /\ Len(items) < HeapMax /\ x.sn \notin marks /\ Near(x.sn)      \* has()
    /\ items' = up[Append(items, x), Len(items) + 1]
    /\ marks' = marks \cup {x.sn}

pop ==
    /\ items # <<>>
    /\ LET n == Len(items)
           rest == Front(Swapped(items, 1, n))
       IN items' = IF rest = <<>> THEN <<>> ELSE down[rest, 1]
    /\ marks' = marks \ {items[1].sn}

Next == pop \/ \E x \in Item : push(x)

Spec == Init /\ [][Next]_vars

-----------------------------------------------------------------------------
(* The root, which peek() shows and pop() takes, comes before every other  *)
(* item, also across the wrap of the numbers; and has() knows exactly the  *)
(* numbers that are in the heap, each once.                                *)
LeastFirst ==
    /\ \A i \in 2..Len(items) :
          \/ items[1].class < items[i].class
          \/ items[1].class = items[i].class /\ itimediff(items[i].sn, items[1].sn) > 0
    /\ marks = {items[i].sn : i \in 1..Len(items)} /\ Len(items) = Cardinality(marks)
=============================================================================
