------------------------------- MODULE GoSort -------------------------------
(***************************************************************************)
(* gosort.rs: Go's pattern-defeating quicksort, with which the auto-tuner  *)
(* sorts its samples by sequence number.  The numbers are compared by      *)
(* signed difference, which is an order only while they lie within half of *)
(* the number space; nothing keeps a peer's numbers there, and the sort    *)
(* has to survive that.  A step is one turn of pdqsort_func's loop, or a   *)
(* whole call of the sort it falls back to; `calls' is its stack.  The     *)
(* lengths at which the code changes its method are constants, so that     *)
(* short slices take every path.                                           *)
(***************************************************************************)
EXTENDS Integers, Sequences, FiniteSets, FiniteSetsExt, SequencesExt

CONSTANTS
    SortSize, SortKeys,           \* the slices: so many numbers of this set
    SortHalf,             \* half of the number space (2^31 in the code)
    Spared,               \* of the unbalanced turns allowed, those taken away (0 in the code)
    MAX_INSERTION,        \* 12 in the code
    SHORTEST_MEDIAN,      \* 8 in the code, for choose_pivot and break_patterns
    SHORTEST_NINTHER,     \* 50 in the code
    SHORTEST_SHIFTING,    \* 50 in the code
    MAX_STEPS,            \* 5 in the code
    BalanceShare          \* a side of less than 1/8 is unbalanced in the code

VARIABLES
    slice,        \* the numbers, from index 0
    calls,        \* the ranges still to sort, the current one last
    given         \* how often each number was in the input

vars == <<slice, calls, given>>

Index == 0..SortSize - 1
Call == [a: 0..SortSize, b: 0..SortSize, limit: Nat,
         was_balanced: BOOLEAN, was_partitioned: BOOLEAN]
CountOf(d) == [x \in SortKeys |-> Cardinality({i \in Index : d[i] = x})]

TypeOK ==
    /\ slice \in [Index -> SortKeys] /\ calls \in Seq(Call)
    /\ \A c \in Range(calls) : c.a <= c.b

(* A word of 64 bits, as the set of the bits that are 1. *)
Word(n) == {k \in 0..30 : (n \div 2 ^ k) % 2 = 1}
Left(x, k) == {i + k : i \in {j \in x : j + k < 64}}
Right(x, k) == {i - k : i \in {j \in x : j >= k}}
bits_len(n) == Max({0} \cup {k + 1 : k \in Word(n)})

Init ==
    /\ slice \in [Index -> SortKeys] /\ given = CountOf(slice)
    /\ calls = <<[a |-> 0, b |-> SortSize, limit |-> bits_len(SortSize) - Spared,
                  was_balanced |-> TRUE, was_partitioned |-> TRUE]>>

-----------------------------------------------------------------------------
less(x, y) == (x - y) % (2 * SortHalf) >= SortHalf
swap(d, i, j) == [d EXCEPT ![i] = d[j], ![j] = d[i]]
Upward(lo, hi) == [k \in 1..(hi - lo) |-> lo + k - 1]        \* lo..hi-1 in order

(* The element at j moves left, no further than `stop', past greater ones. *)
RECURSIVE ShiftLeft(_, _, _)
ShiftLeft(d, j, stop) ==
    IF j > stop /\ less(d[j], d[j - 1]) THEN ShiftLeft(swap(d, j, j - 1), j - 1, stop) ELSE d

(* The element at j - 1 moves right past smaller ones. *)
RECURSIVE ShiftRight(_, _, _)
ShiftRight(d, j, b) ==
    IF j < b /\ less(d[j], d[j - 1]) THEN ShiftRight(swap(d, j, j - 1), j + 1, b) ELSE d

insertion_sort(d, a, b) == FoldLeft(LAMBDA e, i : ShiftLeft(e, i, a), d, Upward(a + 1, b))

(* Mutant: the left child, also when the right one is greater. *)
GreaterChild_left(d, root, hi, first) == 2 * root + 1

GreaterChild(d, root, hi, first) ==
    LET child == 2 * root + 1
    IN IF child + 1 < hi /\ less(d[first + child], d[first + child + 1])
       THEN child + 1 ELSE child

RECURSIVE sift_down(_, _, _, _)
sift_down(d, root, hi, first) ==
    LET child == GreaterChild(d, root, hi, first)
    IN IF 2 * root + 1 >= hi \/ ~less(d[first + root], d[first + child]) THEN d
       ELSE sift_down(swap(d, first + root, first + child), child, hi, first)

heap_sort(d, a, b) ==
    LET heap == FoldLeft(LAMBDA e, i : sift_down(e, i, b - a, a), d,
                         Reverse(Upward(0, (b - a - 1) \div 2 + 1)))
    IN FoldLeft(LAMBDA e, i : sift_down(swap(e, a, a + i), 0, i, a), heap,
                Reverse(Upward(0, b - a)))

(* Xorshift *)
Xorshift(x) ==
    LET y == SymDiff(x, Left(x, 13))
        z == SymDiff(y, Right(y, 7))
    IN SymDiff(z, Left(z, 17))

(* Three elements of the middle are exchanged with some others. *)
break_patterns(d, a, b) ==
    LET length == b - a
        mid == a + (length \div 4) * 2
        word[n \in 0..3] == IF n = 0 THEN Word(length) ELSE Xorshift(word[n - 1])
        low(x) == MapThenSumSet(LAMBDA i : 2 ^ i, {i \in x : i < bits_len(length)})
        other(x) == IF low(x) >= length THEN low(x) - length ELSE low(x)
    IN FoldLeft(LAMBDA e, k : swap(e, mid - 2 + k, a + other(word[k])), d, <<1, 2, 3>>)

(* order2 and median: indices with the number of exchanges so far. *)
order2(d, a, b, n) == IF less(d[b], d[a]) THEN <<b, a, n + 1>> ELSE <<a, b, n>>

median(d, a, b, c, n) ==
    LET ab == order2(d, a, b, n)
        bc == order2(d, ab[2], c, ab[3])
        m  == order2(d, ab[1], bc[1], bc[3])
    IN [at |-> m[2], swaps |-> m[3]]

choose_pivot(d, a, b) ==
    LET l == b - a
        q == l \div 4
        Adjacent(x, n) == IF l >= SHORTEST_NINTHER THEN median(d, x - 1, x, x + 1, n)
                                                   ELSE [at |-> x, swaps |-> n]
        i == Adjacent(a + q, 0)
        j == Adjacent(a + q * 2, i.swaps)
        k == Adjacent(a + q * 3, j.swaps)
    IN IF l >= SHORTEST_MEDIAN THEN median(d, i.at, j.at, k.at, k.swaps)
                               ELSE [at |-> a + q * 2, swaps |-> 0]

reverse_range(d, a, b) == [i \in Index |-> IF i \in a..b - 1 THEN d[b - 1 - (i - a)] ELSE d[i]]

(* partial_insertion_sort: the slice and whether it is known to be sorted. *)
RECURSIVE PartialFrom(_, _, _, _, _)
PartialFrom(d, a, b, from, steps) ==
    LET i == Min({k \in from..b : k = b \/ less(d[k], d[k - 1])})
        once  == swap(d, i, i - 1)
        left  == IF i - a >= 2 THEN ShiftLeft(once, i - 1, 0) ELSE once
        right == IF b - i >= 2 THEN ShiftRight(left, i + 1, b) ELSE left
    IN CASE steps = MAX_STEPS -> [d |-> d, sorted |-> FALSE]
         [] steps < MAX_STEPS /\ i = b -> [d |-> d, sorted |-> TRUE]
         [] steps < MAX_STEPS /\ i < b /\ b - a < SHORTEST_SHIFTING -> [d |-> d, sorted |-> FALSE]
         [] OTHER -> PartialFrom(right, a, b, i, steps + 1)

partial_insertion_sort(d, a, b) == PartialFrom(d, a, b, a + 1, 0)

(* The two scans towards each other, with the pivot at a. *)
FirstNot(d, a, i, j) == Min({k \in i..j + 1 : k = j + 1 \/ ~less(d[k], d[a])})
LastLess(d, a, i, j) == Max({k \in i - 1..j : k = i - 1 \/ less(d[k], d[a])})

Partitioned(d, a, j) == [d |-> swap(d, j, a), mid |-> j]

RECURSIVE Partition(_, _, _, _)
Partition(d, a, from, to) ==
    LET i == FirstNot(d, a, from, to)
        j == LastLess(d, a, i, to)
    IN IF i > j THEN Partitioned(d, a, j) ELSE Partition(swap(d, i, j), a, i + 1, j - 1)

partition(d, a, b, pivot) ==
    LET e == swap(d, a, pivot)
        i == FirstNot(e, a, a + 1, b - 1)
        j == LastLess(e, a, i, b - 1)
    IN [to |-> Partition(e, a, a + 1, b - 1), already |-> i > j]

RECURSIVE PartitionEqual(_, _, _, _)
PartitionEqual(d, a, from, to) ==
    LET i == Min({k \in from..to + 1 : k = to + 1 \/ less(d[a], d[k])})
        j == Max({k \in i - 1..to : k = i - 1 \/ ~less(d[a], d[k])})
    IN IF i > j THEN [d |-> d, mid |-> i]
       ELSE PartitionEqual(swap(d, i, j), a, i + 1, j - 1)

partition_equal(d, a, b, pivot) == PartitionEqual(swap(d, a, pivot), a, a + 1, b - 1)

-----------------------------------------------------------------------------
Top == Last(calls)
Return(d) == slice' = d /\ calls' = Front(calls)
Go(d, call) == slice' = d /\ calls' = Append(Front(calls), call)

Insertion ==
    /\ Top.b - Top.a <= MAX_INSERTION
    /\ Return(insertion_sort(slice, Top.a, Top.b))

Fallback ==
    /\ Top.b - Top.a > MAX_INSERTION /\ Top.limit = 0
    /\ Return(heap_sort(slice, Top.a, Top.b))

(* The shorter side is sorted by a call, the longer one by the next turn. *)
Split(c, d, mid, already) ==
    LET left  == mid - c.a
        right == c.b - mid
        least == (c.b - c.a) \div BalanceShare
        side(a, b) == [a |-> a, b |-> b, limit |-> c.limit, was_balanced |-> TRUE,
                       was_partitioned |-> TRUE]
    IN  /\ slice' = d
        /\ calls' = Front(calls) \o
              IF left < right
              THEN <<[c EXCEPT !.a = mid + 1, !.was_balanced = left >= least,
                               !.was_partitioned = already], side(c.a, mid)>>
              ELSE <<[c EXCEPT !.b = mid, !.was_balanced = right >= least,
                               !.was_partitioned = already], side(mid + 1, c.b)>>

Mirrored(a, b, pivot) == (b - 1) - (pivot - a)

(* Mutant: a run of equal numbers is believed without looking. *)
AllFromPivot_any(d, a, pivot) == a > 0

(* Nothing in the range is smaller than the pivot, which the element       *)
(* before the range equals.                                                *)
AllFromPivot(d, a, pivot) == a > 0 /\ ~less(d[a - 1], d[pivot])

MAX_SWAPS == 12

(* The last split was unbalanced, and there are elements to exchange. *)
Shaking == ~Top.was_balanced /\ Top.b - Top.a >= SHORTEST_MEDIAN

(* What looks sorted is tried as if it nearly were. *)
Tried(d, likely) ==
    IF likely THEN partial_insertion_sort(d, Top.a, Top.b) ELSE [d |-> d, sorted |-> FALSE]

(* A turn of the loop with more than few elements; the one-element sets    *)
(* name the slice after each of its steps.                                 *)
Turn ==
    LET a == Top.a
        b == Top.b
        c == IF Top.was_balanced THEN Top ELSE [Top EXCEPT !.limit = @ - 1]
    IN  /\ b - a > MAX_INSERTION /\ Top.limit > 0
        /\ \E shaken \in {IF Shaking THEN break_patterns(slice, a, b) ELSE slice} :
           \E p \in {choose_pivot(shaken, a, b)} :
           \E pivot \in {IF p.swaps = MAX_SWAPS THEN Mirrored(a, b, p.at) ELSE p.at} :
           \E tried \in {Tried(IF p.swaps = MAX_SWAPS THEN reverse_range(shaken, a, b) ELSE shaken,
                               Top.was_balanced /\ Top.was_partitioned
                               /\ p.swaps \in {0, MAX_SWAPS})} :
              \/ tried.sorted /\ Return(tried.d)
              \/ /\ ~tried.sorted /\ AllFromPivot(tried.d, a, pivot)
                 /\ \E equals \in {partition_equal(tried.d, a, b, pivot)} :
                       Go(equals.d, [c EXCEPT !.a = equals.mid])
              \/ /\ ~tried.sorted /\ ~AllFromPivot(tried.d, a, pivot)
                 /\ \E parts \in {partition(tried.d, a, b, pivot)} :
                       Split(c, parts.to.d, parts.to.mid, parts.already)

(* slice() has returned. *)
Returned == calls = <<>> /\ UNCHANGED vars

Next ==
    \/ calls # <<>> /\ UNCHANGED given /\ (Insertion \/ Fallback \/ Turn)
    \/ Returned

Spec == Init /\ [][Next]_vars

-----------------------------------------------------------------------------
(* All numbers lie within half of the number space from one of them. *)
Ordered == \E x \in {slice[i] : i \in Index} : \A i \in Index : ~less(slice[i], x)

(* slice() always leaves a permutation of its input ("never panics", also  *)
(* when the comparison is cyclic), and a sorted one when the comparison is *)
(* an order.  Before it ends, what lies between the ranges still to sort   *)
(* is in its place.                                                        *)
Sorts ==
    /\ CountOf(slice) = given
    /\ Ordered => \A i \in Index : \A j \in Index :
          i < j /\ (\A c \in Range(calls) : ~({i, j} \subseteq c.a..c.b - 1))
          => ~less(slice[j], slice[i])
=============================================================================
