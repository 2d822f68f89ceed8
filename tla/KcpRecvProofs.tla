---------------------------- MODULE KcpRecvProofs ----------------------------
(***************************************************************************)
(* Proofs about KcpRecv, for every window, every 32-bit wrap position and  *)
(* every peer: what arrives, and in which order, is arbitrary.             *)
(*                                                                         *)
(*   TypeCorrect      TypeOK is an invariant;                              *)
(*   DeliveryInOrder  InOrder is one: rcv_queue is the peer's stream, and  *)
(*                    rcv_buf never holds what rcv_nxt has passed;         *)
(*   NeverStalls      NoStall is one: nothing readable is stranded, and a  *)
(*                    closed window does not reopen silently.              *)
(***************************************************************************)
EXTENDS KcpRecv, Facts

(* BufAhead and QueueInOrder of the arguments of MoveReady.                *)
Ahead(buf, nxt) ==
    \A a \in buf :
        /\ itimediff(a.sn, nxt) \in 0..(WndMod - 2)
        /\ \A b \in buf : a.sn = b.sn => a = b

Ordered(queue, nxt) ==
    \A i \in 1..Len(queue) : queue[i].sn = WrappingSub(nxt, Len(queue) + 1 - i)

(* The move loop took k segments: the queue goes on with the numbers from  *)
(* rcv_nxt, and rcv_buf keeps exactly what is further ahead.               *)
Moved(buf, queue, k) ==
    /\ k > 0 => Len(queue) + k <= rcv_wnd
    /\ k = 0 /\ Len(queue) < rcv_wnd => ~has(buf, rcv_nxt)
    /\ \A j \in 1..k : has(buf, WrappingAdd(rcv_nxt, j - 1))
    /\ rcv_nxt' = WrappingAdd(rcv_nxt, k)
    /\ rcv_buf' = {a \in buf : itimediff(a.sn, rcv_nxt) >= k}
    /\ rcv_queue' \in Seq(Segment)
    /\ Len(rcv_queue') = Len(queue) + k
    /\ \A i \in 1..Len(queue) : rcv_queue'[i] = queue[i]
    /\ \A j \in 1..k : rcv_queue'[Len(queue) + j].sn = WrappingAdd(rcv_nxt, j - 1)

-----------------------------------------------------------------------------
(* Sequence arithmetic.                                                    *)

(* Wrapping sums and differences are u32, and _itimediff is an i32.        *)
LEMMA WrapType ==
    /\ \A a \in Seq32, n \in 0..M : WrappingAdd(a, n) \in Seq32
    /\ \A a, b \in Seq32 : WrappingSub(a, b) \in Seq32
    /\ \A a, b \in Seq32 : itimediff(a, b) \in (-Half)..(Half - 1)
BY HalfAssumption DEF Seq32, M, WrappingAdd, WrappingSub, itimediff

(* The difference of two sequence numbers counted from the same origin is  *)
(* the difference of the counts, as long as those are below 2^31.          *)
LEMMA WrapDiff ==
    ASSUME NEW a \in Seq32, NEW i \in 0..(Half - 1), NEW j \in 0..(Half - 1)
    PROVE  /\ itimediff(WrappingAdd(a, i), WrappingAdd(a, j)) = i - j
           /\ WrappingAdd(a, i) = WrappingAdd(a, j) => i = j
BY HalfAssumption DEF Seq32, M, WrappingAdd, WrappingSub, itimediff

-----------------------------------------------------------------------------
(* Sequence arithmetic of the receive window.                              *)

(* A number whose distance ahead is known is that far ahead.               *)
LEMMA AheadOf ==
    ASSUME NEW a \in Seq32, NEW sn \in Seq32, itimediff(sn, a) >= 0
    PROVE  /\ itimediff(sn, a) \in 0..(Half - 1)
           /\ sn = WrappingAdd(a, itimediff(sn, a))
BY HalfAssumption DEF Seq32, M, WrappingAdd, WrappingSub, itimediff

(* A number at or after a and before a + w is less than w ahead.           *)
LEMMA WithinWindow ==
    ASSUME NEW a \in Seq32, NEW sn \in Seq32, NEW w \in 0..(Half - 1),
           itimediff(sn, a) >= 0, itimediff(sn, WrappingAdd(a, w)) < 0
    PROVE  itimediff(sn, a) \in 0..(w - 1)
<1> DEFINE d == itimediff(sn, a)
<1>1. d \in 0..(Half - 1) /\ sn = WrappingAdd(a, d)
  BY AheadOf
<1> HIDE DEF d
<1>2. itimediff(WrappingAdd(a, d), WrappingAdd(a, w)) = d - w
  BY <1>1, WrapDiff
<1>3. d \in 0..(w - 1)
  BY <1>1, <1>2, HalfAssumption
<1> QED
  BY <1>3 DEF d

(* Distances from a number further on are that much shorter.               *)
LEMMA CloserBy ==
    ASSUME NEW a \in Seq32, NEW d \in 0..(Half - 1), NEW k \in 0..d
    PROVE  itimediff(WrappingAdd(a, d), WrappingAdd(a, k)) = d - k
BY HalfAssumption DEF Seq32, M, WrappingAdd, WrappingSub, itimediff

(* Counting back from a number further on.                                 *)
LEMMA BackFrom ==
    ASSUME NEW a \in Seq32, NEW k \in Nat, NEW n \in Nat, k + n < M
    PROVE  /\ WrappingSub(WrappingAdd(a, k), k + n) = WrappingSub(a, n)
           /\ n > 0 /\ k >= n => WrappingSub(WrappingAdd(a, k), n) = WrappingAdd(a, k - n)
BY HalfAssumption DEF Seq32, M, WrappingAdd, WrappingSub

(* The window's end is never more than 2^16 - 1 numbers away.              *)
LEMMA WindowFits ==
    ASSUME TypeOK
    PROVE  rcv_wnd \in 1..(WndMod - 1) /\ WndMod \in Nat /\ WndMod <= Half /\ Half \in Nat
BY RcvWndsAssumption, HalfAssumption DEF TypeOK

-----------------------------------------------------------------------------
(* The move loop.                                                          *)

(* How many segments move: as many as are in order and fit.                *)
LEMMA MovableCount ==
    ASSUME TypeOK, NEW buf, buf \subseteq Segment, IsFiniteSet(buf), NEW len \in Nat,
           Ahead(buf, rcv_nxt)
    PROVE  LET k == Movable(buf, rcv_nxt, len)
           IN  /\ k \in Nat
               /\ k > 0 => len + k <= rcv_wnd
               /\ \A j \in 1..k : \E seg \in buf : seg.sn = WrappingAdd(rcv_nxt, j - 1)
               /\ k = 0 /\ len < rcv_wnd => ~has(buf, rcv_nxt)
<1> DEFINE ks == {k \in 1..Cardinality(buf) : len + k <= rcv_wnd /\ Ready(buf, rcv_nxt, k)}
           T == {0} \cup ks
           k == Movable(buf, rcv_nxt, len)
<1>1. Cardinality(buf) \in Nat
  BY FS_CardinalityType
<1>2. T \subseteq Nat /\ T # {} /\ \A x \in T : x <= Cardinality(buf)
  BY <1>1
<1>3. k \in T /\ \A x \in T : k >= x
  <2> HIDE DEF T
  <2>1. Max(T) \in T /\ \A x \in T : Max(T) >= x
    BY <1>1, <1>2, MaxGreatest
  <2> QED
    BY <2>1 DEF Movable, T
<1> HIDE DEF k
<1>4. k \in Nat /\ (k > 0 => len + k <= rcv_wnd /\ Ready(buf, rcv_nxt, k))
  BY <1>1, <1>3
<1>5. ASSUME NEW j \in 1..k PROVE \E seg \in buf : seg.sn = WrappingAdd(rcv_nxt, j - 1)
  <2>1. k > 0 /\ j - 1 \in 0..(k - 1)
    BY <1>4
  <2> QED
    BY <1>4, <2>1 DEF Ready
<1>6. ASSUME k = 0, len < rcv_wnd, has(buf, rcv_nxt) PROVE FALSE
  <2>1. PICK seg \in buf : seg.sn = rcv_nxt
    BY <1>6 DEF has
  <2>2. rcv_nxt \in Seq32 /\ WrappingAdd(rcv_nxt, 0) = rcv_nxt
    BY HalfAssumption DEF TypeOK, WrappingAdd, Seq32, M
  <2>3. ASSUME NEW low \in buf PROVE ~less(low, seg)
    <3>1. low.sn \in Seq32
      BY DEF Segment
    <3>2. itimediff(low.sn, rcv_nxt) >= 0
      <4>1. WndMod \in Nat /\ itimediff(low.sn, rcv_nxt) \in 0..(WndMod - 2)
        BY WindowFits DEF Ahead
      <4> QED
        BY <4>1
    <3> QED
      BY <2>1, <2>2, <3>1, <3>2, HalfAssumption
         DEF less, itimediff, WrappingSub, Seq32, M
  <2>4. Ready(buf, rcv_nxt, 1)
    BY <2>1, <2>2, <2>3 DEF Ready
  <2>5. Cardinality(buf) # 0
    BY <2>1, FS_EmptySet
  <2>6. 1 \in 1..Cardinality(buf) /\ len + 1 <= rcv_wnd
    BY <1>1, <1>6, <2>5, WindowFits
  <2>7. 1 \in T
    BY <2>4, <2>6
  <2> QED
    BY <1>3, <1>6, <2>7
<1> QED
  BY <1>4, <1>5, <1>6 DEF k

(* The move loop takes some number of segments, and all it can.            *)
LEMMA MoveEffect ==
    ASSUME TypeOK, NEW buf, buf \subseteq Segment, IsFiniteSet(buf), Ahead(buf, rcv_nxt),
           NEW queue \in Seq(Segment), MoveReady(buf, queue)
    PROVE  \E k \in Nat : Moved(buf, queue, k)
<1> DEFINE k == Movable(buf, rcv_nxt, Len(queue))
           at(j) == CHOOSE seg \in buf : seg.sn = WrappingAdd(rcv_nxt, j - 1)
           new == [j \in 1..k |-> at(j)]
<1>1. /\ k \in Nat
      /\ k > 0 => Len(queue) + k <= rcv_wnd
      /\ \A j \in 1..k : \E seg \in buf : seg.sn = WrappingAdd(rcv_nxt, j - 1)
      /\ k = 0 /\ Len(queue) < rcv_wnd => ~has(buf, rcv_nxt)
  BY MovableCount
<1>2. /\ rcv_queue' = queue \o new
      /\ rcv_buf' = buf \ {at(j) : j \in 1..k}
      /\ rcv_nxt' = WrappingAdd(rcv_nxt, k)
  BY DEF MoveReady
<1>3. rcv_nxt \in Seq32 /\ WndMod \in Nat /\ WndMod <= Half /\ rcv_wnd \in 1..(WndMod - 1)
  BY WindowFits DEF TypeOK
<1>4. k \in 0..(Half - 1)
  BY <1>1, <1>3, HalfAssumption
<1> HIDE DEF k
<1>5. \A j \in 1..k : at(j) \in buf /\ at(j).sn = WrappingAdd(rcv_nxt, j - 1)
  BY <1>1
<1>6. new \in [1..k -> Segment] /\ \A j \in 1..k : new[j] = at(j)
  BY <1>5
<1> HIDE DEF new, at
<1>7. /\ rcv_queue' \in Seq(Segment) /\ Len(rcv_queue') = Len(queue) + k
      /\ \A i \in 1..(Len(queue) + k) :
            rcv_queue'[i] = IF i <= Len(queue) THEN queue[i] ELSE new[i - Len(queue)]
  BY <1>1, <1>2, <1>6, ConcatFunction
<1>8. \A i \in 1..Len(queue) : rcv_queue'[i] = queue[i]
  BY <1>1, <1>7
<1>9. ASSUME NEW j \in 1..k
      PROVE  rcv_queue'[Len(queue) + j].sn = WrappingAdd(rcv_nxt, j - 1)
  <2>1. /\ Len(queue) \in Nat /\ Len(queue) + j \in 1..(Len(queue) + k)
        /\ ~(Len(queue) + j <= Len(queue)) /\ (Len(queue) + j) - Len(queue) = j
    BY <1>1
  <2>2. rcv_queue'[Len(queue) + j] = new[j]
    BY <1>7, <2>1
  <2> QED
    BY <1>5, <1>6, <2>2
(* A segment moved exactly when it is less than k ahead: none has a twin.  *)
<1>10. ASSUME NEW a \in buf
       PROVE  a \in {at(j) : j \in 1..k} <=> ~(itimediff(a.sn, rcv_nxt) >= k)
  <2> DEFINE d == itimediff(a.sn, rcv_nxt)
  <2>1. a.sn \in Seq32 /\ d \in 0..(WndMod - 2)
    BY DEF Segment, Ahead
  <2>2. d \in 0..(Half - 1) /\ a.sn = WrappingAdd(rcv_nxt, d)
    <3>1. d >= 0
      BY <1>3, <2>1
    <3> QED
      BY <1>3, <2>1, <3>1, AheadOf
  <2> HIDE DEF d
  <2>3. ASSUME NEW j \in 1..k, a = at(j) PROVE ~(d >= k)
    <3>1. j - 1 \in 0..(Half - 1) /\ WrappingAdd(rcv_nxt, d) = WrappingAdd(rcv_nxt, j - 1)
      BY <1>4, <1>5, <2>2, <2>3, HalfAssumption
    <3>2. d = j - 1
      BY <1>3, <2>2, <3>1, WrapDiff
    <3> QED
      BY <1>1, <3>2
  <2>4. ASSUME ~(d >= k) PROVE a \in {at(j) : j \in 1..k}
    <3>1. d + 1 \in 1..k /\ (d + 1) - 1 = d
      BY <1>1, <2>2, <2>4, HalfAssumption
    <3>2. at(d + 1) \in buf /\ at(d + 1).sn = a.sn
      BY <1>5, <2>2, <3>1
    <3>3. a = at(d + 1)
      BY <3>2 DEF Ahead
    <3> QED
      BY <3>1, <3>3
  <2> QED
    BY <2>3, <2>4 DEF d
<1>11. rcv_buf' = {a \in buf : itimediff(a.sn, rcv_nxt) >= k}
  BY <1>2, <1>10
<1>12. \A j \in 1..k : has(buf, WrappingAdd(rcv_nxt, j - 1))
  BY <1>1 DEF has
<1> QED
  BY <1>1, <1>2, <1>7, <1>8, <1>9, <1>11, <1>12 DEF Moved

(* The move loop keeps the order and the bounds of both collections, and   *)
(* leaves nothing readable behind an empty queue.                          *)
LEMMA MoveKeeps ==
    ASSUME TypeOK, NEW buf, buf \subseteq Segment, IsFiniteSet(buf), Ahead(buf, rcv_nxt),
           NEW queue \in Seq(Segment), Len(queue) < WndMod, Ordered(queue, rcv_nxt),
           MoveReady(buf, queue)
    PROVE  /\ rcv_nxt' \in Seq32 /\ rcv_queue' \in Seq(Segment) /\ rcv_buf' \subseteq Segment
           /\ IsFiniteSet(rcv_buf') /\ QueueBounded' /\ InOrder' /\ NoStranded'
           /\ Len(rcv_queue') >= Len(queue)
<1> DEFINE n == Len(queue)
<1>0. PICK k \in Nat : Moved(buf, queue, k)
  BY MoveEffect
<1>1. /\ k > 0 => n + k <= rcv_wnd
      /\ k = 0 /\ n < rcv_wnd => ~has(buf, rcv_nxt)
      /\ rcv_nxt' = WrappingAdd(rcv_nxt, k)
      /\ rcv_buf' = {a \in buf : itimediff(a.sn, rcv_nxt) >= k}
      /\ rcv_queue' \in Seq(Segment)
      /\ Len(rcv_queue') = n + k
      /\ \A i \in 1..n : rcv_queue'[i] = queue[i]
      /\ \A j \in 1..k : rcv_queue'[n + j].sn = WrappingAdd(rcv_nxt, j - 1)
  BY <1>0, Zenon DEF Moved
<1>2. /\ rcv_nxt \in Seq32 /\ WndMod \in Nat /\ WndMod <= Half /\ rcv_wnd \in 1..(WndMod - 1)
      /\ n \in Nat /\ Half \in Nat /\ Half > 1
  BY WindowFits, HalfAssumption DEF TypeOK
<1> HIDE DEF n
<1>3. k \in 0..(Half - 1) /\ k <= WndMod - 1 /\ n + k < WndMod /\ n + k < M /\ k \in 0..M /\ M \in Nat
  BY <1>1, <1>2 DEF n, M
<1>4. rcv_nxt' \in Seq32
  BY <1>1, <1>2, <1>3, WrapType
<1>5. rcv_buf' \subseteq Segment /\ rcv_buf' \subseteq buf /\ IsFiniteSet(rcv_buf')
  BY <1>1, FS_Subset
<1>6. QueueBounded'
  BY <1>1, <1>3 DEF QueueBounded
<1>7. QueueInOrder'
  <2> SUFFICES ASSUME NEW i \in 1..(n + k)
               PROVE  rcv_queue'[i].sn = WrappingSub(rcv_nxt', (n + k) + 1 - i)
    BY <1>1 DEF QueueInOrder
  <2>1. CASE i <= n
    <3>1. /\ i \in 1..n /\ n + 1 - i \in Nat /\ k + (n + 1 - i) < M
          /\ (n + k) + 1 - i = k + (n + 1 - i)
      BY <1>2, <1>3, <2>1
    <3>2. rcv_queue'[i].sn = WrappingSub(rcv_nxt, n + 1 - i)
      BY <1>1, <3>1 DEF Ordered, n
    <3>3. WrappingSub(WrappingAdd(rcv_nxt, k), k + (n + 1 - i)) = WrappingSub(rcv_nxt, n + 1 - i)
      BY <1>2, <3>1, BackFrom
    <3> QED
      BY <1>1, <3>1, <3>2, <3>3
  <2>2. CASE ~(i <= n)
    <3>1. /\ i - n \in 1..k /\ n + (i - n) = i
          /\ (n + k) + 1 - i = k + 1 - (i - n) /\ k + 1 - (i - n) \in Nat
          /\ k + 1 - (i - n) > 0 /\ k >= k + 1 - (i - n)
          /\ k - (k + 1 - (i - n)) = (i - n) - 1 /\ k + (k + 1 - (i - n)) < M
      BY <1>2, <1>3, <2>2 DEF M
    <3>2. rcv_queue'[i].sn = WrappingAdd(rcv_nxt, (i - n) - 1)
      BY <1>1, <3>1
    <3>3. WrappingSub(WrappingAdd(rcv_nxt, k), k + 1 - (i - n))
            = WrappingAdd(rcv_nxt, k - (k + 1 - (i - n)))
      BY <1>2, <3>1, BackFrom
    <3> QED
      BY <1>1, <3>1, <3>2, <3>3
  <2> QED
    BY <2>1, <2>2
<1>8. BufAhead'
  <2> SUFFICES ASSUME NEW a \in rcv_buf'
               PROVE  /\ itimediff(a.sn, rcv_nxt') \in 0..(WndMod - 2)
                      /\ \A b \in rcv_buf' : a.sn = b.sn => a = b
    BY DEF BufAhead
  <2> DEFINE d == itimediff(a.sn, rcv_nxt)
  <2>1. a \in buf /\ d >= k /\ a.sn \in Seq32 /\ d \in 0..(WndMod - 2)
    BY <1>1, <1>5 DEF Ahead, Segment
  <2>2. d >= 0
    BY <1>2, <2>1
  <2>3. d \in 0..(Half - 1) /\ a.sn = WrappingAdd(rcv_nxt, d)
    BY <1>2, <2>1, <2>2, AheadOf
  <2> HIDE DEF d
  <2>4. itimediff(WrappingAdd(rcv_nxt, d), WrappingAdd(rcv_nxt, k)) = d - k
    <3>1. k \in 0..d
      BY <1>3, <2>1, <2>3, HalfAssumption
    <3> QED
      BY <1>2, <2>3, <3>1, CloserBy
  <2>5. itimediff(a.sn, rcv_nxt') \in 0..(WndMod - 2)
    BY <1>1, <1>2, <1>3, <2>1, <2>3, <2>4
  <2> QED
    BY <1>5, <2>1, <2>5 DEF Ahead
<1>9. NoStranded'
  <2> SUFFICES ASSUME rcv_queue' = <<>> PROVE ~has(rcv_buf', rcv_nxt')
    BY DEF NoStranded, has
  <2>1. n + k = 0
    BY <1>1
  <2>2. k = 0 /\ n < rcv_wnd
    BY <1>2, <2>1
  <2>3. rcv_nxt' = rcv_nxt
    BY <1>1, <1>2, <2>2 DEF WrappingAdd, Seq32, M
  <2> QED
    BY <1>1, <1>5, <2>2, <2>3 DEF has
<1> QED
  BY <1>1, <1>2, <1>4, <1>5, <1>6, <1>7, <1>8, <1>9 DEF InOrder, n

-----------------------------------------------------------------------------
(* Windows.                                                                *)

(* The u16 of wnd_unused() is what the arithmetic says: no window is       *)
(* truncated.                                                              *)
LEMMA UnusedCount ==
    ASSUME NEW w \in 1..(WndMod - 1), NEW q \in Nat
    PROVE  /\ (IF q < w THEN (w - q) % WndMod ELSE 0) \in 0..(WndMod - 1)
           /\ (IF q < w THEN (w - q) % WndMod ELSE 0) > 0 <=> q < w
<1>1. WndMod \in Nat
  BY RcvWndsAssumption
<1>2. CASE q < w
  <2>1. w - q \in Nat /\ w - q < WndMod /\ w - q > 0
    BY <1>1, <1>2
  <2>2. (w - q) % WndMod = w - q
    BY <1>1, <2>1, ModSmall
  <2> QED
    BY <1>1, <1>2, <2>1, <2>2
<1>3. CASE ~(q < w)
  BY <1>1, <1>3
<1> QED
  BY <1>2, <1>3

(* wnd_unused() is a field of a packet, and positive when the queue has room. *)
LEMMA WindowUnused ==
    /\ TypeOK => /\ wnd_unused \in 0..(WndMod - 1)
                 /\ wnd_unused > 0 <=> Len(rcv_queue) < rcv_wnd
    /\ TypeOK' => wnd_unused' > 0 <=> Len(rcv_queue') < rcv_wnd'
<1>1. TypeOK => Len(rcv_queue) \in Nat /\ rcv_wnd \in 1..(WndMod - 1)
  BY RcvWndsAssumption DEF TypeOK
<1>2. TypeOK' => Len(rcv_queue') \in Nat /\ rcv_wnd' \in 1..(WndMod - 1)
  BY RcvWndsAssumption DEF TypeOK
<1> QED
  BY <1>1, <1>2, UnusedCount DEF wnd_unused

(* A message that is complete has at least one segment of rcv_queue.       *)
LEMMA MessageType ==
    ASSUME TypeOK, Complete
    PROVE  MessageLen \in 1..Len(rcv_queue)
<1> DEFINE ends == {i \in 1..Len(rcv_queue) : rcv_queue[i].frg = 0}
<1>1. rcv_queue \in Seq(Segment) /\ rcv_queue # <<>>
  BY DEF TypeOK, Complete
<1>2. Len(rcv_queue) \in 1..Len(rcv_queue)
  BY <1>1
<1>3. ends \subseteq Nat /\ ends \subseteq 1..Len(rcv_queue)
  OBVIOUS
<1>4. ends # {} => Min(ends) \in ends
  <2> HIDE DEF ends
  <2> QED
    BY <1>3, MinLeast
<1> QED
  BY <1>2, <1>3, <1>4 DEF MessageLen

-----------------------------------------------------------------------------
(* The inductive invariant.                                                *)

(* It holds at the beginning. *)
LEMMA InitInvariant == Init => IInv
<1> SUFFICES ASSUME Init PROVE IInv
  OBVIOUS
<1>1. rcv_wnd \in 1..(WndMod - 1) /\ WndMod \in Nat
  BY RcvWndsAssumption DEF Init
<1>2. rcv_queue = <<>> /\ Len(rcv_queue) = 0 /\ rcv_buf = {} /\ advertised = rcv_wnd
  BY DEF Init
<1>3. TypeOK
  <2>1. advertised \in 0..(WndMod - 1)
    BY <1>1, <1>2
  <2>2. rcv_queue \in Seq(Segment) /\ acklist \in Seq(Seq32) /\ rcv_buf \subseteq Segment
    BY <1>2 DEF Init
  <2> QED
    BY <2>1, <2>2, InitSnAssumption DEF Init, TypeOK
<1>4. IsFiniteSet(rcv_buf)
  BY <1>2, FS_EmptySet
<1>5. QueueBounded
  BY <1>1, <1>2 DEF QueueBounded
<1>6. InOrder
  BY <1>2 DEF InOrder, QueueInOrder, BufAhead
<1>7. NoStall
  <2>1. advertised # 0
    BY <1>1, <1>2
  <2> QED
    BY <1>2, <2>1 DEF NoStall, NoStranded, WindowUpdatePending, has
<1> QED
  BY <1>3, <1>4, <1>5, <1>6, <1>7 DEF IInv

(* What a PUSH does: it is ignored, or acknowledged as one that was        *)
(* delivered before, or acknowledged and kept, with what it puts in order. *)
LEMMA PushEffect ==
    ASSUME IInv, NEW seg \in Segment, InputPush(seg)
    PROVE  LET buf == IF has(rcv_buf, seg.sn) THEN rcv_buf ELSE rcv_buf \cup {seg}
           IN  \/ UNCHANGED <<acklist, rcv_queue, rcv_buf, rcv_nxt>>
               \/ /\ acklist' = Append(acklist, seg.sn)
                  /\ itimediff(seg.sn, rcv_nxt) < 0
                  /\ UNCHANGED <<rcv_queue, rcv_buf, rcv_nxt>>
               \/ /\ acklist' = Append(acklist, seg.sn)
                  /\ buf \subseteq Segment /\ IsFiniteSet(buf) /\ Ahead(buf, rcv_nxt)
                  /\ has(buf, seg.sn)
                  /\ MoveReady(buf, rcv_queue)
                  /\ \E k \in Nat : Moved(buf, rcv_queue, k)
<1> DEFINE buf == IF has(rcv_buf, seg.sn) THEN rcv_buf ELSE rcv_buf \cup {seg}
<1>1. /\ TypeOK /\ IsFiniteSet(rcv_buf) /\ InOrder
      /\ rcv_nxt \in Seq32 /\ rcv_queue \in Seq(Segment) /\ rcv_buf \subseteq Segment
  BY DEF IInv, TypeOK
<1>2. seg.sn \in Seq32
  BY DEF Segment
<1>3. itimediff(seg.sn, rcv_nxt) \in Int /\ itimediff(seg.sn, WrappingAdd(rcv_nxt, rcv_wnd)) \in Int
  <2>1. rcv_wnd \in 0..M
    BY <1>1, WindowFits DEF M
  <2>2. WrappingAdd(rcv_nxt, rcv_wnd) \in Seq32
    BY <1>1, <2>1, WrapType
  <2> QED
    BY <1>1, <1>2, <2>2, WrapType, HalfAssumption
<1>4. ASSUME itimediff(seg.sn, WrappingAdd(rcv_nxt, rcv_wnd)) < 0,
             itimediff(seg.sn, rcv_nxt) >= 0,
             MoveReady(buf, rcv_queue)
      PROVE  /\ buf \subseteq Segment /\ IsFiniteSet(buf) /\ Ahead(buf, rcv_nxt)
             /\ has(buf, seg.sn)
             /\ \E k \in Nat : Moved(buf, rcv_queue, k)
  <2>1. buf \subseteq Segment /\ IsFiniteSet(buf) /\ has(buf, seg.sn)
    BY <1>1, FS_AddElement DEF has
  <2>2. itimediff(seg.sn, rcv_nxt) \in 0..(WndMod - 2)
    <3>1. rcv_wnd \in 1..(WndMod - 1) /\ WndMod \in Nat /\ WndMod <= Half /\ Half \in Nat
      BY <1>1, WindowFits
    <3>2. rcv_wnd \in 0..(Half - 1)
      BY <3>1
    <3>3. itimediff(seg.sn, rcv_nxt) \in 0..(rcv_wnd - 1)
      BY <1>1, <1>2, <1>4, <3>2, WithinWindow
    <3> QED
      BY <3>1, <3>3
  <2>3. Ahead(buf, rcv_nxt)
    BY <1>1, <2>2 DEF Ahead, InOrder, BufAhead, has
  <2> HIDE DEF buf
  <2> QED
    BY <1>1, <1>4, <2>1, <2>3, MoveEffect
<1>5. \/ UNCHANGED <<acklist, rcv_queue, rcv_buf, rcv_nxt>>
      \/ /\ acklist' = Append(acklist, seg.sn)
         /\ itimediff(seg.sn, rcv_nxt) < 0
         /\ UNCHANGED <<rcv_queue, rcv_buf, rcv_nxt>>
      \/ /\ acklist' = Append(acklist, seg.sn)
         /\ itimediff(seg.sn, WrappingAdd(rcv_nxt, rcv_wnd)) < 0
         /\ itimediff(seg.sn, rcv_nxt) >= 0
         /\ MoveReady(buf, rcv_queue)
  <2> DEFINE d == itimediff(seg.sn, rcv_nxt)
             e == itimediff(seg.sn, WrappingAdd(rcv_nxt, rcv_wnd))
  <2>1. \/ UNCHANGED <<acklist, rcv_queue, rcv_buf, rcv_nxt>>
        \/ /\ acklist' = Append(acklist, seg.sn) /\ e < 0
           /\ \/ ~(d >= 0) /\ UNCHANGED <<rcv_queue, rcv_buf, rcv_nxt>>
              \/ d >= 0 /\ (e >= 0 \/ d < 0)
              \/ d >= 0 /\ MoveReady(buf, rcv_queue)
    BY DEF InputPush, parse_data
  <2>2. d \in Int /\ e \in Int
    BY <1>3
  <2> HIDE DEF d, e, buf
  <2>3. (~(d >= 0) => d < 0) /\ ~(e < 0 /\ e >= 0) /\ ~(d >= 0 /\ d < 0)
    BY <2>2
  <2>4. \/ UNCHANGED <<acklist, rcv_queue, rcv_buf, rcv_nxt>>
        \/ acklist' = Append(acklist, seg.sn) /\ d < 0 /\ UNCHANGED <<rcv_queue, rcv_buf, rcv_nxt>>
        \/ acklist' = Append(acklist, seg.sn) /\ e < 0 /\ d >= 0 /\ MoveReady(buf, rcv_queue)
    BY <2>1, <2>3, Zenon
  <2> QED
    BY <2>4 DEF d, e
<1> HIDE DEF buf
<1>6. \/ UNCHANGED <<acklist, rcv_queue, rcv_buf, rcv_nxt>>
      \/ /\ acklist' = Append(acklist, seg.sn)
         /\ itimediff(seg.sn, rcv_nxt) < 0
         /\ UNCHANGED <<rcv_queue, rcv_buf, rcv_nxt>>
      \/ /\ acklist' = Append(acklist, seg.sn)
         /\ buf \subseteq Segment /\ IsFiniteSet(buf) /\ Ahead(buf, rcv_nxt)
         /\ has(buf, seg.sn)
         /\ MoveReady(buf, rcv_queue)
         /\ \E k \in Nat : Moved(buf, rcv_queue, k)
  BY <1>4, <1>5, Zenon
<1> QED
  BY <1>6, Zenon DEF buf

(* Every PUSH, in or out of the window, new or repeated, in or out of      *)
(* order, preserves it.                                                    *)
LEMMA PushStep ==
    ASSUME IInv, NEW seg \in Segment, InputPush(seg)
    PROVE  IInv'
<1> DEFINE buf == IF has(rcv_buf, seg.sn) THEN rcv_buf ELSE rcv_buf \cup {seg}
<1>1. /\ TypeOK /\ IsFiniteSet(rcv_buf) /\ QueueBounded /\ InOrder /\ NoStall
      /\ rcv_nxt \in Seq32 /\ rcv_queue \in Seq(Segment) /\ rcv_buf \subseteq Segment
      /\ acklist \in Seq(Seq32)
  BY DEF IInv, TypeOK
<1>2. seg.sn \in Seq32
  BY DEF Segment
<1>3. pc' = "input" /\ UNCHANGED <<rcv_wnd, tell, advertised>>
  BY DEF InputPush
<1>4. acklist' \in Seq(Seq32)
  BY <1>1, <1>2 DEF InputPush
<1>5. CASE UNCHANGED <<rcv_queue, rcv_buf, rcv_nxt>>
  BY <1>1, <1>3, <1>4, <1>5
     DEF IInv, TypeOK, QueueBounded, InOrder, QueueInOrder, BufAhead, NoStall, NoStranded,
         WindowUpdatePending, wnd_unused, has
<1>6. ASSUME buf \subseteq Segment, IsFiniteSet(buf), Ahead(buf, rcv_nxt),
             MoveReady(buf, rcv_queue)
      PROVE  IInv'
  <2> HIDE DEF buf
  <2>4. Len(rcv_queue) < WndMod /\ Ordered(rcv_queue, rcv_nxt)
    BY <1>1 DEF QueueBounded, InOrder, QueueInOrder, Ordered
  <2>5. /\ rcv_nxt' \in Seq32 /\ rcv_queue' \in Seq(Segment) /\ rcv_buf' \subseteq Segment
        /\ IsFiniteSet(rcv_buf') /\ QueueBounded' /\ InOrder' /\ NoStranded'
        /\ Len(rcv_queue') >= Len(rcv_queue)
    BY <1>1, <1>6, <2>4, MoveKeeps
  <2>6. TypeOK'
    BY <1>1, <1>3, <1>4, <2>5 DEF TypeOK
  <2>7. WindowUpdatePending'
    <3>1. wnd_unused' > 0 => Len(rcv_queue') < rcv_wnd'
      BY <2>6, WindowUnused
    <3>2. wnd_unused' > 0 => wnd_unused > 0
      <4>1. Len(rcv_queue) \in Nat /\ Len(rcv_queue') \in Nat /\ rcv_wnd \in Nat
        BY <1>1, <2>5, WindowFits
      <4> QED
        BY <1>1, <1>3, <2>5, <3>1, <4>1, WindowUnused
    <3> QED
      BY <1>1, <1>3, <3>2 DEF NoStall, WindowUpdatePending
  <2> QED
    BY <2>5, <2>6, <2>7 DEF IInv, NoStall
<1> QED
  BY <1>5, <1>6, PushEffect

(* What a read does: it takes a message off rcv_queue and moves on.        *)
LEMMA RecvEffect ==
    ASSUME IInv, Recv
    PROVE  /\ MessageLen \in 1..Len(rcv_queue)
           /\ \E queue \in Seq(Segment), k \in Nat :
                /\ Len(queue) = Len(rcv_queue) - MessageLen
                /\ Moved(rcv_buf, queue, k)
<1> DEFINE rest == SubSeq(rcv_queue, MessageLen + 1, Len(rcv_queue))
<1>1. /\ TypeOK /\ IsFiniteSet(rcv_buf) /\ InOrder
      /\ rcv_queue \in Seq(Segment) /\ rcv_buf \subseteq Segment
  BY DEF IInv, TypeOK
<1>2. Complete /\ MoveReady(rcv_buf, rest)
  BY DEF Recv
<1>3. MessageLen \in 1..Len(rcv_queue) /\ MessageLen \in 0..Len(rcv_queue)
  BY <1>1, <1>2, MessageType
<1>4. rest \in Seq(Segment) /\ Len(rest) = Len(rcv_queue) - MessageLen
  BY <1>1, <1>3, Suffix
<1>5. Ahead(rcv_buf, rcv_nxt)
  BY <1>1 DEF Ahead, InOrder, BufAhead
<1> HIDE DEF rest
<1>6. \E k \in Nat : Moved(rcv_buf, rest, k)
  BY <1>1, <1>2, <1>4, <1>5, MoveEffect
<1> QED
  BY <1>3, <1>4, <1>6

(* So does every read: the rest of rcv_queue goes on to be the stream, and *)
(* a window that was closed is announced.                                  *)
LEMMA RecvStep ==
    ASSUME IInv, Recv
    PROVE  IInv'
<1> DEFINE n == Len(rcv_queue)
           rest == SubSeq(rcv_queue, MessageLen + 1, n)
<1>1. /\ TypeOK /\ IsFiniteSet(rcv_buf) /\ QueueBounded /\ InOrder /\ NoStall
      /\ rcv_nxt \in Seq32 /\ rcv_queue \in Seq(Segment) /\ rcv_buf \subseteq Segment
  BY DEF IInv, TypeOK
<1>2. /\ UNCHANGED <<pc, rcv_wnd, acklist, advertised>> /\ Complete
      /\ MoveReady(rcv_buf, rest)
      /\ tell' = (tell \/ (n >= rcv_wnd /\ Len(rcv_queue') < rcv_wnd))
  BY DEF Recv
<1>3. MessageLen \in 1..n /\ MessageLen \in 0..n /\ n \in Nat
  BY <1>1, <1>2, MessageType
<1>4. /\ rest \in Seq(Segment) /\ Len(rest) = n - MessageLen
      /\ \A i \in 1..(n - MessageLen) : rest[i] = rcv_queue[MessageLen + i]
  BY <1>1, <1>3, Suffix
<1> HIDE DEF n, rest
<1>5. Len(rest) < WndMod
  BY <1>1, <1>3, <1>4, RcvWndsAssumption DEF QueueBounded, n
<1>6. Ordered(rest, rcv_nxt)
  <2> SUFFICES ASSUME NEW i \in 1..(n - MessageLen)
               PROVE  rest[i].sn = WrappingSub(rcv_nxt, (n - MessageLen) + 1 - i)
    BY <1>4 DEF Ordered
  <2>1. MessageLen + i \in 1..n /\ n + 1 - (MessageLen + i) = (n - MessageLen) + 1 - i
    BY <1>3
  <2>2. rcv_queue[MessageLen + i].sn = WrappingSub(rcv_nxt, n + 1 - (MessageLen + i))
    BY <1>1, <2>1 DEF InOrder, QueueInOrder, n
  <2> QED
    BY <1>4, <2>1, <2>2
<1>7. Ahead(rcv_buf, rcv_nxt)
  BY <1>1 DEF Ahead, InOrder, BufAhead
<1>8. /\ rcv_nxt' \in Seq32 /\ rcv_queue' \in Seq(Segment) /\ rcv_buf' \subseteq Segment
      /\ IsFiniteSet(rcv_buf') /\ QueueBounded' /\ InOrder' /\ NoStranded'
  BY <1>1, <1>2, <1>4, <1>5, <1>6, <1>7, MoveKeeps
<1>9. tell' \in BOOLEAN
  BY <1>2
<1>10. TypeOK'
  BY <1>1, <1>2, <1>8, <1>9 DEF TypeOK
<1>11. WindowUpdatePending'
  <2>1. wnd_unused' > 0 => Len(rcv_queue') < rcv_wnd
    BY <1>2, <1>10, WindowUnused
  <2>2. n < rcv_wnd => wnd_unused > 0
    BY <1>1, WindowUnused DEF n
  <2>3. n >= rcv_wnd \/ n < rcv_wnd
    BY <1>1, <1>3, WindowFits
  <2> QED
    BY <1>1, <1>2, <2>1, <2>2, <2>3 DEF NoStall, WindowUpdatePending
<1> QED
  BY <1>8, <1>10, <1>11 DEF IInv, NoStall

(* Acknowledgements and window updates: what is sent carries the window of *)
(* the moment, and a pending update that finds no room stays pending.      *)
LEMMA FlushStep ==
    ASSUME IInv, AnyFlushAcks, pc' \in {"idle", "input"},
           UNCHANGED <<rcv_nxt, rcv_wnd, rcv_queue, rcv_buf>>
    PROVE  IInv'
<1>1. TypeOK /\ acklist \in Seq(Seq32) /\ NoStall
  BY DEF IInv, TypeOK
<1>2. PICK done \in 0..Len(acklist), room \in BOOLEAN : FlushAcks(done, room)
  BY DEF AnyFlushAcks
<1>3. acklist' \in Seq(Seq32)
  BY <1>1, <1>2, Suffix DEF FlushAcks
<1>4. wnd_unused' = wnd_unused /\ wnd_unused \in 0..(WndMod - 1)
  BY <1>1, WindowUnused DEF wnd_unused
<1>5. TypeOK'
  BY <1>1, <1>2, <1>3, <1>4 DEF TypeOK, FlushAcks
<1>6. WindowUpdatePending'
  <2> SUFFICES ASSUME advertised' = 0, wnd_unused > 0 PROVE tell'
    BY <1>4 DEF WindowUpdatePending
  <2>1. 0 \in Int /\ wnd_unused # 0
    BY <1>4, RcvWndsAssumption
  <2>2. advertised' = advertised /\ ~(tell /\ room)
    BY <1>2, <2>1 DEF FlushAcks
  <2>3. tell
    BY <1>1, <2>2 DEF NoStall, WindowUpdatePending
  <2> QED
    BY <1>2, <2>2, <2>3 DEF FlushAcks
<1> QED
  BY <1>1, <1>5, <1>6
     DEF IInv, QueueBounded, InOrder, QueueInOrder, BufAhead, NoStall, NoStranded, has

(* Every handler preserves the invariant.                                  *)
LEMMA NextInvariant == IInv /\ [Next]_vars => IInv'
<1> SUFFICES ASSUME IInv, [Next]_vars PROVE IInv'
  OBVIOUS
<1> USE DEF IInv, QueueBounded, InOrder, QueueInOrder, BufAhead, NoStall, NoStranded, has,
            WindowUpdatePending, wnd_unused
<1>1. ASSUME NEW sn \in Seq32, NEW frg \in Frgs, InputPush([sn |-> sn, frg |-> frg])
      PROVE  IInv'
  <2>1. [sn |-> sn, frg |-> frg] \in Segment
    BY DEF Segment
  <2> QED
    BY <1>1, <2>1, PushStep
<1>2. CASE InputWask
  BY <1>2 DEF InputWask, TypeOK
<1>3. CASE InputEnd
  <2>1. pc' = "idle" /\ UNCHANGED <<rcv_nxt, rcv_wnd, rcv_queue, rcv_buf>>
    BY <1>3 DEF InputEnd
  <2>2. CASE AnyFlushAcks
    BY <2>1, <2>2, FlushStep
  <2>3. CASE UNCHANGED <<acklist, tell, advertised>>
    BY <2>1, <2>3 DEF TypeOK
  <2> QED
    BY <1>3, <2>2, <2>3 DEF InputEnd
<1>4. CASE InputReject
  BY <1>4 DEF InputReject, TypeOK
<1>5. CASE Flush
  BY <1>5, FlushStep DEF Flush, TypeOK
<1>6. CASE Recv
  BY <1>6, RecvStep
<1>7. CASE WndSize
  <2>1. rcv_wnd' \in RcvWnds /\ advertised' = rcv_wnd'
    BY <1>7 DEF WndSize
  <2>2. advertised' \in 0..(WndMod - 1) /\ advertised' # 0
    BY <2>1, RcvWndsAssumption
  <2> QED
    BY <1>7, <2>1, <2>2 DEF WndSize, TypeOK
<1>8. CASE UNCHANGED vars
  BY <1>8 DEF vars, TypeOK
<1> QED
  BY <1>1, <1>2, <1>3, <1>4, <1>5, <1>6, <1>7, <1>8 DEF Next

(* IInv is an invariant of every execution.                                *)
THEOREM Invariance == Spec => []IInv
BY InitInvariant, NextInvariant, PTL DEF Spec

-----------------------------------------------------------------------------
(* What the invariant says about the code.                                 *)

(* Every variable keeps its type: in particular rcv_nxt stays a u32 and no *)
(* window that flush() sends was truncated to 16 bits.                     *)
THEOREM TypeCorrect == Spec => []TypeOK
BY Invariance, PTL DEF IInv

(* Whatever arrives, lost, repeated or out of order, and wherever the      *)
(* 32-bit numbers wrap: recv() hands out the segments of the peer's stream *)
(* in order and once, and parse_data() never keeps what was delivered.     *)
THEOREM DeliveryInOrder == Spec => []InOrder
BY Invariance, PTL DEF IInv

(* A segment that could be read is never stranded in rcv_buf behind an     *)
(* empty rcv_queue, and a window that was closed never reopens without an  *)
(* update pending (recv()'s fast recover), whatever flush() finds room     *)
(* for.                                                                    *)
THEOREM NeverStalls == Spec => []NoStall
BY Invariance, PTL DEF IInv
=============================================================================
