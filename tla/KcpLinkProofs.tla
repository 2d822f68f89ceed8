---------------------------- MODULE KcpLinkProofs ----------------------------
(***************************************************************************)
(* Proofs about KcpLink: any number of segments below 2^31, any windows,   *)
(* any first sequence number, and a network that loses, repeats and        *)
(* reorders packets as it likes.                                           *)
(*                                                                         *)
(*   NothingForgotten  AckSound is an invariant: no segment is             *)
(*                     acknowledged that the receiver could still lose;    *)
(*   StreamCorrect     the link implements the safety part of              *)
(*                     ReliableStream.                                     *)
(*                                                                         *)
(* What the receiver does is not proved again: the lemmas of KcpRecvProofs *)
(* are instantiated.                                                       *)
(***************************************************************************)
EXTENDS KcpLink, Facts

(* The results about the receiving half, for the receiver of KcpLink.      *)
RP == INSTANCE KcpRecvProofs WITH Frgs <- {0}

-----------------------------------------------------------------------------
(* Sequence arithmetic.                                                    *)

(* Wrapping sums and differences are u32, and _itimediff is an i32.        *)
LEMMA WrapType ==
    /\ \A a \in Seq32, n \in 0..M : WrappingAdd(a, n) \in Seq32
    /\ \A a, b \in Seq32 : WrappingSub(a, b) \in Seq32
    /\ \A a, b \in Seq32 : itimediff(a, b) \in (-Half)..(Half - 1)
BY HalfAssumption DEF Seq32, M, WrappingAdd, WrappingSub, itimediff

-----------------------------------------------------------------------------
(* RP is about the same receiver as R: the two instances of KcpRecv define *)
(* the same operators, and its assumptions hold here.                      *)

(* The assumptions of KcpRecv hold.                                        *)
LEMMA ReceiverHypotheses ==
    /\ Half \in Nat /\ Half > 1
    /\ InitSn \in RP!Seq32
    /\ WndMod \in Nat /\ WndMod <= Half
    /\ RcvWnds \subseteq 1..(WndMod - 1) /\ RcvWnds # {}
    /\ FrgMod \in Nat \ {0} /\ {0} \subseteq 0..(FrgMod - 1)
    /\ AckBatch \in Nat \ {0} /\ AckMax \in Nat
BY HalfAssumption, ReceiverAssumption DEF Seq32, M, RP!Seq32, RP!M

(* Sequence arithmetic is the same in every instance.                      *)
LEMMA SameNumbers ==
    /\ Seq32 = R!Seq32 /\ Seq32 = RP!Seq32
    /\ \A a, b : /\ R!WrappingAdd(a, b) = WrappingAdd(a, b)
                 /\ RP!WrappingAdd(a, b) = WrappingAdd(a, b)
                 /\ R!WrappingSub(a, b) = WrappingSub(a, b)
                 /\ RP!WrappingSub(a, b) = WrappingSub(a, b)
                 /\ R!itimediff(a, b) = itimediff(a, b)
                 /\ RP!itimediff(a, b) = itimediff(a, b)
                 /\ S!WrappingAdd(a, b) = WrappingAdd(a, b)
                 /\ S!WrappingSub(a, b) = WrappingSub(a, b)
                 /\ S!itimediff(a, b) = itimediff(a, b)
    /\ Seq32 = S!Seq32
BY DEF Seq32, WrappingAdd, WrappingSub, itimediff, M,
       R!Seq32, R!WrappingAdd, R!WrappingSub, R!itimediff, R!M,
       S!Seq32, S!WrappingAdd, S!WrappingSub, S!itimediff, S!M,
       RP!Seq32, RP!WrappingAdd, RP!WrappingSub, RP!itimediff, RP!M

(* So are the operators on sets,                                           *)
LEMMA SameSets ==
    \A T : /\ R!Cardinality(T) = RP!Cardinality(T)
           /\ R!IsFiniteSet(T) = RP!IsFiniteSet(T)
           /\ R!Max(T) = RP!Max(T)
           /\ R!Min(T) = RP!Min(T)
BY Zenon DEF R!Cardinality, RP!Cardinality, R!IsFiniteSet, RP!IsFiniteSet, R!Max, RP!Max, R!Min, RP!Min

(* what is ready to move,                                                  *)
LEMMA SameReady == \A buf, nxt, k : R!Ready(buf, nxt, k) <=> RP!Ready(buf, nxt, k)
BY SameNumbers DEF R!Ready, RP!Ready, R!less, RP!less

(* how much of it,                                                         *)
LEMMA SameMovable == \A buf, nxt, len : R!Movable(buf, nxt, len) = RP!Movable(buf, nxt, len)
<1> TAKE buf, nxt, len
<1> DEFINE X == {0} \cup {j \in 1..R!Cardinality(buf) : len + j <= rcv_wnd /\ R!Ready(buf, nxt, j)}
           Y == {0} \cup {j \in 1..RP!Cardinality(buf) : len + j <= rcv_wnd /\ RP!Ready(buf, nxt, j)}
<1>1. X = Y
  BY SameReady, SameSets
<1>2. R!Movable(buf, nxt, len) = R!Max(X) /\ RP!Movable(buf, nxt, len) = RP!Max(Y)
  BY DEF R!Movable, RP!Movable
<1> HIDE DEF X, Y
<1> QED
  BY <1>1, <1>2, SameSets

(* the move loop,                                                          *)
LEMMA SameMove == \A buf, queue : R!MoveReady(buf, queue) <=> RP!MoveReady(buf, queue)
<1> TAKE buf, queue
<1> DEFINE k == R!Movable(buf, rcv_nxt, Len(queue))
           at(j) == CHOOSE seg \in buf : seg.sn = R!WrappingAdd(rcv_nxt, j - 1)
           kk == RP!Movable(buf, rcv_nxt, Len(queue))
           aatt(j) == CHOOSE seg \in buf : seg.sn = RP!WrappingAdd(rcv_nxt, j - 1)
<1>1. k = kk /\ \A j : at(j) = aatt(j)
  BY SameNumbers, SameMovable
<1>2. R!MoveReady(buf, queue) <=>
        /\ rcv_queue' = queue \o [j \in 1..k |-> at(j)]
        /\ rcv_buf' = buf \ {at(j) : j \in 1..k}
        /\ rcv_nxt' = R!WrappingAdd(rcv_nxt, k)
  BY DEF R!MoveReady
<1>3. RP!MoveReady(buf, queue) <=>
        /\ rcv_queue' = queue \o [j \in 1..kk |-> aatt(j)]
        /\ rcv_buf' = buf \ {aatt(j) : j \in 1..kk}
        /\ rcv_nxt' = RP!WrappingAdd(rcv_nxt, kk)
  BY DEF RP!MoveReady
<1> HIDE DEF k, at, kk, aatt
<1> QED
  BY <1>1, <1>2, <1>3, SameNumbers

(* the handler of a PUSH,                                                  *)
LEMMA SamePush == \A seg : R!InputPush(seg) => RP!InputPush(seg)
<1>1. \A buf, sn : R!has(buf, sn) <=> RP!has(buf, sn)
  BY DEF R!has, RP!has
<1> QED
BY <1>1, SameNumbers, SameMove DEF R!InputPush, RP!InputPush, R!parse_data, RP!parse_data

(* recv(),                                                                 *)
LEMMA SameRecv == (R!Recv => RP!Recv) /\ R!MessageLen = RP!MessageLen
<1>1. R!MessageLen = RP!MessageLen
  BY SameSets DEF R!MessageLen, RP!MessageLen
<1>2. R!Complete <=> RP!Complete
  BY DEF R!Complete, RP!Complete
<1> QED
BY <1>1, <1>2, SameMove DEF R!Recv, RP!Recv

(* the acknowledgements of flush(),                                        *)
LEMMA SameFlush == \A done, room : R!FlushAcks(done, room) => RP!FlushAcks(done, room)
BY SameNumbers DEF R!FlushAcks, RP!FlushAcks, R!AcksSent, RP!AcksSent, R!wnd_unused, RP!wnd_unused

(* the inductive invariant,                                                *)
LEMMA SameIInv == (R!IInv <=> RP!IInv) /\ (R!IInv' <=> RP!IInv')
BY SameNumbers, SameSets DEF R!IInv, RP!IInv, R!TypeOK, RP!TypeOK, R!QueueBounded, RP!QueueBounded,
  R!InOrder, RP!InOrder, R!NoStall, RP!NoStall, R!QueueInOrder, RP!QueueInOrder, R!BufAhead, RP!BufAhead,
  R!NoStranded, RP!NoStranded, R!WindowUpdatePending, RP!WindowUpdatePending, R!wnd_unused, RP!wnd_unused,
  R!has, RP!has, R!Segment, RP!Segment

(* and the initial states.                                                 *)
LEMMA SameInit == R!Init => RP!Init
BY DEF R!Init, RP!Init

-----------------------------------------------------------------------------
(* Positions in the stream.                                                *)

(* Positions are below 2^32 and name one number each.                      *)
LEMMA PosType == \A sn \in Seq32 : Pos(sn) \in 0..(M - 1) /\ sn = WrappingAdd(InitSn, Pos(sn))
BY HalfAssumption, ReceiverAssumption DEF Pos, Seq32, M, WrappingAdd, WrappingSub

(* Counting on from a number.                                              *)
LEMMA PosAdd ==
    ASSUME NEW sn \in Seq32, NEW k \in Nat, Pos(sn) + k < M
    PROVE  WrappingAdd(sn, k) \in Seq32 /\ Pos(WrappingAdd(sn, k)) = Pos(sn) + k
BY HalfAssumption, ReceiverAssumption DEF Pos, Seq32, M, WrappingAdd, WrappingSub

(* Counting back from one.                                                 *)
LEMMA PosBack ==
    ASSUME NEW sn \in Seq32, NEW k \in Nat, k <= Pos(sn)
    PROVE  WrappingSub(sn, k) = WrappingAdd(InitSn, Pos(sn) - k)
BY HalfAssumption, ReceiverAssumption DEF Pos, Seq32, M, WrappingAdd, WrappingSub

(* _itimediff orders numbers as their positions are ordered.               *)
LEMMA PosDiff ==
    ASSUME NEW a \in Seq32, NEW b \in Seq32, Pos(a) < Half, Pos(b) < Half
    PROVE  itimediff(a, b) = Pos(a) - Pos(b)
BY HalfAssumption, ReceiverAssumption DEF Pos, Seq32, M, WrappingSub, itimediff

(* What is in flight comes before snd_nxt.                                 *)
LEMMA PosFlight ==
    ASSUME NEW una \in Seq32, NEW nxt \in Seq32, NEW sn \in Seq32,
           Pos(una) <= Pos(nxt), WrappingSub(sn, una) < WrappingSub(nxt, una)
    PROVE  Pos(sn) < Pos(nxt)
BY HalfAssumption, ReceiverAssumption DEF Pos, Seq32, M, WrappingSub

-----------------------------------------------------------------------------
(* The receiver's steps, seen from the link.                               *)

(* The move loop took k segments of buf. *)
Advance(buf, k) ==
    /\ rcv_nxt' = WrappingAdd(rcv_nxt, k)
    /\ rcv_buf' = {a \in buf : itimediff(a.sn, rcv_nxt) >= k}
    /\ \A j \in 1..k : R!has(buf, WrappingAdd(rcv_nxt, j - 1))
    /\ k < Half

(* Held in the next state, for a number of either state. *)
HeldAfter(sn) == sn \in Seq32 /\ (Pos(sn) < Pos(rcv_nxt') \/ R!has(rcv_buf', sn))

(* What the invariant says of the numbers. *)
LEMMA InvTypes ==
    ASSUME LinkInv
    PROVE  /\ rcv_nxt \in Seq32 /\ snd_una \in Seq32 /\ snd_nxt \in Seq32
           /\ rcv_queue \in Seq(R!Segment) /\ acklist \in Seq(Seq32)
           /\ \A seg \in rcv_buf : seg.sn \in Seq32
           /\ Pos(snd_nxt) \in Nat /\ Pos(snd_nxt) < Half
           /\ Pos(rcv_nxt) \in Nat /\ Pos(rcv_nxt) < Half /\ Pos(rcv_nxt) <= Pos(snd_nxt)
           /\ Pos(snd_una) \in Nat /\ Pos(snd_una) <= Pos(rcv_nxt)
           /\ Half \in Nat /\ M = 2 * Half
           /\ \A seg \in R!Segment : seg.sn \in Seq32
<1>1. R!TypeOK /\ EndsInOrder
  BY DEF LinkInv, R!IInv
<1>2. /\ rcv_nxt \in Seq32 /\ snd_una \in Seq32 /\ snd_nxt \in Seq32
      /\ rcv_queue \in Seq(R!Segment) /\ acklist \in Seq(Seq32)
      /\ \A seg \in rcv_buf : seg.sn \in Seq32
      /\ \A seg \in R!Segment : seg.sn \in Seq32
  BY <1>1, SameNumbers DEF R!TypeOK, EndsInOrder, R!Segment
<1>3. /\ Pos(snd_nxt) + snd_queue = written /\ snd_queue \in Nat /\ written \in 0..Total
      /\ Pos(snd_una) <= Pos(rcv_nxt) /\ Pos(rcv_nxt) <= Pos(snd_nxt)
  BY <1>1 DEF EndsInOrder
<1>4. Pos(snd_nxt) \in 0..(M-1) /\ Pos(rcv_nxt) \in 0..(M-1) /\ Pos(snd_una) \in 0..(M-1) /\ Half \in Nat /\ M = 2 * Half
  BY <1>2, PosType, HalfAssumption DEF M
<1>5. Total \in Nat /\ Total < Half
  BY LinkAssumption
<1> QED
  BY <1>2, <1>3, <1>4, <1>5

(* The move loop never passes what was sent, and forgets nothing it holds. *)
LEMMA AdvanceSound ==
    ASSUME LinkInv, NEW buf, NEW k \in Nat, Advance(buf, k),
           \A seg \in buf : seg.sn \in Seq32 /\ Pos(seg.sn) < Pos(snd_nxt)
    PROVE  /\ rcv_nxt' \in Seq32
           /\ WrappingSub(rcv_nxt', InitSn) = Pos(rcv_nxt) + k
           /\ Pos(rcv_nxt) + k <= Pos(snd_nxt)
           /\ \A seg \in rcv_buf' : Pos(seg.sn) < Pos(snd_nxt)
           /\ \A sn \in Seq32 : Pos(sn) < Pos(rcv_nxt) \/ R!has(buf, sn) => HeldAfter(sn)
<1>1. /\ rcv_nxt \in Seq32 /\ snd_nxt \in Seq32 /\ Half \in Nat /\ M = 2 * Half
      /\ Pos(rcv_nxt) \in Nat /\ Pos(rcv_nxt) < Half
      /\ Pos(snd_nxt) \in Nat /\ Pos(snd_nxt) < Half /\ Pos(rcv_nxt) <= Pos(snd_nxt)
  BY InvTypes
<1>2. Pos(rcv_nxt) + k < M /\ k < Half
  BY <1>1 DEF Advance
<1>3. rcv_nxt' \in Seq32 /\ Pos(rcv_nxt') = Pos(rcv_nxt) + k
  BY <1>1, <1>2, PosAdd DEF Advance
<1>4. Pos(rcv_nxt) + k <= Pos(snd_nxt)
  <2>1. CASE k = 0
    BY <1>1, <2>1
  <2>2. CASE k > 0
    <3>1. k \in 1..k /\ k - 1 \in Nat /\ Pos(rcv_nxt) + (k - 1) < M
      BY <1>1, <1>2, <2>2
    <3>2. R!has(buf, WrappingAdd(rcv_nxt, k - 1))
      BY <3>1 DEF Advance
    <3>3. PICK seg \in buf : seg.sn = WrappingAdd(rcv_nxt, k - 1)
      BY <3>2 DEF R!has
    <3>4. Pos(WrappingAdd(rcv_nxt, k - 1)) = Pos(rcv_nxt) + (k - 1)
      BY <1>1, <3>1, PosAdd
    <3>5. Pos(rcv_nxt) + (k - 1) < Pos(snd_nxt)
      BY <3>3, <3>4
    <3> QED
      BY <1>1, <3>5
  <2> QED
    BY <2>1, <2>2
<1>5. \A seg \in rcv_buf' : Pos(seg.sn) < Pos(snd_nxt)
  BY DEF Advance
<1>6. ASSUME NEW sn \in Seq32, Pos(sn) < Pos(rcv_nxt) \/ R!has(buf, sn)
      PROVE  Pos(sn) < Pos(rcv_nxt) + k \/ R!has(rcv_buf', sn)
  <2>1. Pos(sn) \in Nat
    BY PosType
  <2>2. CASE Pos(sn) < Pos(rcv_nxt)
    BY <1>1, <2>1, <2>2
  <2>3. CASE R!has(buf, sn)
    <3>1. PICK seg \in buf : seg.sn = sn
      BY <2>3 DEF R!has
    <3>2. Pos(sn) < Half
      BY <1>1, <2>1, <3>1
    <3>3. itimediff(sn, rcv_nxt) = Pos(sn) - Pos(rcv_nxt)
      BY <1>1, <3>2, PosDiff
    <3>4. CASE itimediff(sn, rcv_nxt) >= k
      BY <3>1, <3>4 DEF Advance, R!has
    <3>5. CASE ~(itimediff(sn, rcv_nxt) >= k)
      BY <1>1, <2>1, <3>3, <3>5
    <3> QED
      BY <3>4, <3>5
  <2> QED
    BY <1>6, <2>2, <2>3
<1>7. ASSUME NEW sn \in Seq32, Pos(sn) < Pos(rcv_nxt) \/ R!has(buf, sn)
      PROVE  HeldAfter(sn)
  BY <1>3, <1>6, <1>7 DEF HeldAfter
<1> QED
  BY <1>3, <1>4, <1>5, <1>7 DEF Pos

(* What a PUSH of the link does to its receiver. *)
LEMMA PushAdvances ==
    ASSUME LinkInv, NEW sn \in Seq32, R!InputPush([sn |-> sn, frg |-> 0])
    PROVE  /\ R!IInv'
           /\ \/ UNCHANGED <<acklist, rcv_queue, rcv_buf, rcv_nxt>>
              \/ /\ acklist' = Append(acklist, sn)
                 /\ itimediff(sn, rcv_nxt) < 0
                 /\ UNCHANGED <<rcv_queue, rcv_buf, rcv_nxt>>
              \/ /\ acklist' = Append(acklist, sn)
                 /\ \E buf \in {rcv_buf, rcv_buf \cup {[sn |-> sn, frg |-> 0]}}, k \in Nat :
                      /\ R!has(buf, sn)
                      /\ Advance(buf, k)
                      /\ Len(rcv_queue') = Len(rcv_queue) + k
<1> DEFINE seg == [sn |-> sn, frg |-> 0]
           buf == IF RP!has(rcv_buf, seg.sn) THEN rcv_buf ELSE rcv_buf \cup {seg}
<1>1. seg \in RP!Segment /\ seg.sn = sn
  BY SameNumbers DEF RP!Segment
<1>2. RP!IInv /\ RP!InputPush(seg)
  BY SameIInv, SamePush DEF LinkInv
<1> HIDE DEF seg
<1>3. R!IInv'
  BY <1>1, <1>2, ReceiverHypotheses, RP!PushStep, SameIInv
<1>4. \/ UNCHANGED <<acklist, rcv_queue, rcv_buf, rcv_nxt>>
      \/ /\ acklist' = Append(acklist, seg.sn)
         /\ RP!itimediff(seg.sn, rcv_nxt) < 0
         /\ UNCHANGED <<rcv_queue, rcv_buf, rcv_nxt>>
      \/ /\ acklist' = Append(acklist, seg.sn)
         /\ RP!has(buf, seg.sn)
         /\ \E k \in Nat : RP!Moved(buf, rcv_queue, k)
  BY <1>1, <1>2, ReceiverHypotheses, RP!PushEffect
<1>5. buf \in {rcv_buf, rcv_buf \cup {seg}}
  OBVIOUS
<1> HIDE DEF buf
<1>6. ASSUME NEW k \in Nat, RP!Moved(buf, rcv_queue, k)
      PROVE  Advance(buf, k) /\ Len(rcv_queue') = Len(rcv_queue) + k
  <2>1. k > 0 => Len(rcv_queue) + k <= rcv_wnd
    BY <1>6 DEF RP!Moved
  <2>2. rcv_wnd \in 1..(WndMod - 1) /\ Len(rcv_queue) \in Nat /\ WndMod \in Nat /\ WndMod <= Half /\ Half \in Nat /\ Half > 1
    BY ReceiverHypotheses DEF LinkInv, R!IInv, R!TypeOK
  <2>3. k < Half
    BY <2>1, <2>2
  <2> QED
    BY <1>6, <2>3, SameNumbers DEF RP!Moved, Advance, RP!has, R!has
<1>7. RP!has(buf, seg.sn) => R!has(buf, sn)
  BY <1>1 DEF RP!has, R!has
<1>8. RP!itimediff(seg.sn, rcv_nxt) = itimediff(sn, rcv_nxt)
  BY <1>1, SameNumbers
<1>9. \/ UNCHANGED <<acklist, rcv_queue, rcv_buf, rcv_nxt>>
      \/ /\ acklist' = Append(acklist, sn)
         /\ itimediff(sn, rcv_nxt) < 0
         /\ UNCHANGED <<rcv_queue, rcv_buf, rcv_nxt>>
      \/ /\ acklist' = Append(acklist, sn)
         /\ R!has(buf, sn)
         /\ \E k \in Nat : Advance(buf, k) /\ Len(rcv_queue') = Len(rcv_queue) + k
  BY <1>1, <1>4, <1>6, <1>7, <1>8
<1>10. buf \in {rcv_buf, rcv_buf \cup {[sn |-> sn, frg |-> 0]}}
  BY <1>5 DEF seg
<1> QED
  BY <1>3, <1>9, <1>10

(* What a read of the link does to its receiver. *)
LEMMA ReadAdvances ==
    ASSUME LinkInv, R!Recv
    PROVE  /\ R!IInv'
           /\ R!MessageLen \in 1..Len(rcv_queue)
           /\ acklist' = acklist
           /\ \E k \in Nat : /\ Advance(rcv_buf, k)
                             /\ Len(rcv_queue') = Len(rcv_queue) - R!MessageLen + k
<1>1. RP!IInv /\ RP!Recv /\ R!MessageLen = RP!MessageLen
  BY SameIInv, SameRecv DEF LinkInv
<1>2. R!IInv'
  BY <1>1, ReceiverHypotheses, RP!RecvStep, SameIInv
<1>3. PICK queue \in Seq(RP!Segment), k \in Nat :
        Len(queue) = Len(rcv_queue) - RP!MessageLen /\ RP!Moved(rcv_buf, queue, k)
  BY <1>1, ReceiverHypotheses, RP!RecvEffect
<1>4. RP!MessageLen \in 1..Len(rcv_queue)
  BY <1>1, ReceiverHypotheses, RP!RecvEffect
<1>5. k < Half
  <2>1. k > 0 => Len(queue) + k <= rcv_wnd
    BY <1>3 DEF RP!Moved
  <2>2. rcv_wnd \in 1..(WndMod - 1) /\ Len(queue) \in Nat /\ WndMod \in Nat /\ WndMod <= Half /\ Half \in Nat /\ Half > 1
    BY ReceiverHypotheses DEF LinkInv, R!IInv, R!TypeOK
  <2> QED
    BY <2>1, <2>2
<1>6. Advance(rcv_buf, k) /\ Len(rcv_queue') = Len(queue) + k
  BY <1>3, <1>5, SameNumbers DEF RP!Moved, Advance, RP!has, R!has
<1>7. acklist' = acklist
  BY DEF R!Recv
<1> QED
  BY <1>1, <1>2, <1>3, <1>4, <1>6, <1>7

-----------------------------------------------------------------------------
(* Every step preserves the invariant.                                     *)

(* Initially.                                                              *)
LEMMA LinkInit == Init => LinkInv
<1> SUFFICES ASSUME Init PROVE LinkInv
  OBVIOUS
<1>1. R!IInv
  BY ReceiverHypotheses, RP!InitInvariant, SameInit, SameIInv DEF Init
<1>2. /\ snd_una = InitSn /\ snd_nxt = InitSn /\ rcv_nxt = InitSn /\ InitSn \in Seq32
      /\ Pos(InitSn) = 0 /\ snd_queue = 0 /\ written = 0 /\ acked = {}
      /\ rcv_queue = <<>> /\ read = <<>> /\ rcv_buf = {} /\ acklist = <<>> /\ fwd = {} /\ bwd = {}
  BY ReceiverAssumption DEF Init, S!Init, R!Init, Pos, WrappingSub, Seq32
<1>3. EndsInOrder
  BY <1>2, LinkAssumption DEF EndsInOrder
<1>4. ReadInOrder
  BY <1>2 DEF ReadInOrder
<1>5. SentBefore /\ AcksHeld
  BY <1>2 DEF SentBefore, AcksHeld
<1> QED
  BY <1>1, <1>3, <1>4, <1>5 DEF LinkInv

(* Steps that leave the receiver alone. *)
LEMMA ReceiverKept ==
    ASSUME UNCHANGED rcvVars
    PROVE  /\ R!IInv => R!IInv'
           /\ \A sn : Held(sn) => Held(sn)'
BY DEF rcvVars, Held, Pos, R!IInv, R!TypeOK, R!QueueBounded, R!InOrder, R!NoStall, R!QueueInOrder,
       R!BufAhead, R!NoStranded, R!WindowUpdatePending, R!wnd_unused, R!has

(* One lemma for each action.                                              *)
LEMMA WriteStep == LinkInv /\ Write => LinkInv'
<1> SUFFICES ASSUME LinkInv, Write PROVE LinkInv'
  OBVIOUS
<1>1. /\ UNCHANGED rcvVars /\ UNCHANGED <<fwd, bwd, read, snd_una, snd_nxt, acked>>
      /\ snd_queue' = snd_queue + 1 /\ written' = written + 1 /\ written < Total
  BY DEF Write, S!Send
<1>2. UNCHANGED <<rcv_nxt, rcv_queue, rcv_buf, acklist>>
  BY <1>1 DEF rcvVars
<1>3. EndsInOrder'
  <2>1. EndsInOrder /\ Pos(snd_nxt) \in Nat /\ Total \in Nat
    BY InvTypes, LinkAssumption DEF LinkInv
  <2> QED
    BY <1>1, <1>2, <2>1 DEF EndsInOrder, Pos
<1>4. ReadInOrder' /\ SentBefore' /\ AcksHeld'
  BY <1>1, <1>2 DEF LinkInv, ReadInOrder, SentBefore, AcksHeld, Pos, Held, R!has
<1> QED
  BY <1>1, <1>3, <1>4, ReceiverKept DEF LinkInv

(* flush() at the sender: only what is in the window is sent.              *)
LEMMA FlushStep ==
    ASSUME LinkInv, NEW k \in 0..Total, NEW sent, NEW ask, SndFlush(k, sent, ask)
    PROVE  LinkInv'
<1>1. /\ UNCHANGED rcvVars /\ UNCHANGED <<bwd, written, read, snd_una, acked>>
      /\ k <= snd_queue /\ snd_queue' = snd_queue - k /\ snd_nxt' = WrappingAdd(snd_nxt, k)
      /\ sent \subseteq Sendable(k)
      /\ fwd' = fwd \cup {Push(sn) : sn \in sent} \cup (IF ask THEN {Wask} ELSE {})
  BY SameNumbers DEF SndFlush, S!Flush
<1>2. UNCHANGED <<rcv_nxt, rcv_queue, rcv_buf, acklist>>
  BY <1>1 DEF rcvVars
<1>3. /\ EndsInOrder /\ snd_nxt \in Seq32 /\ snd_una \in Seq32
      /\ Pos(snd_nxt) \in Nat /\ Pos(rcv_nxt) \in Nat /\ Pos(snd_una) \in Nat
      /\ Total \in Nat /\ Total < Half /\ Half \in Nat /\ M = 2 * Half
  BY InvTypes, LinkAssumption DEF LinkInv
<1>4. /\ snd_queue \in Nat /\ written \in 0..Total /\ Pos(snd_nxt) + snd_queue = written
      /\ Pos(snd_una) <= Pos(rcv_nxt) /\ Pos(rcv_nxt) <= Pos(snd_nxt)
  BY <1>3 DEF EndsInOrder
<1>5. k \in Nat /\ Pos(snd_nxt) + k < M
  BY <1>1, <1>3, <1>4
<1>6. snd_nxt' \in Seq32 /\ Pos(snd_nxt') = Pos(snd_nxt) + k
  BY <1>1, <1>3, <1>5, PosAdd
<1>7. EndsInOrder'
  <2>1. /\ snd_queue' \in Nat /\ Pos(snd_nxt') + snd_queue' = written
        /\ Pos(rcv_nxt) <= Pos(snd_nxt')
    BY <1>1, <1>3, <1>4, <1>5, <1>6
  <2> QED
    BY <1>1, <1>2, <1>3, <1>4, <1>6, <2>1 DEF EndsInOrder, Pos
<1>8. SentBefore'
  <2>1. ASSUME NEW sn, sn \in Seq32, Pos(sn) < Pos(snd_nxt) PROVE Pos(sn) < Pos(snd_nxt')
    <3>1. Pos(sn) \in Nat
      BY <2>1, PosType
    <3> QED
      BY <1>3, <1>5, <1>6, <2>1, <3>1
  <2>2. ASSUME NEW sn \in sent PROVE sn \in Seq32 /\ Pos(sn) < Pos(snd_nxt')
    <3>1. sn \in Seq32 /\ WrappingSub(sn, snd_una) < WrappingSub(snd_nxt', snd_una)
      BY <1>1, SameNumbers DEF Sendable, S!Flight
    <3>2. Pos(snd_una) <= Pos(snd_nxt')
      BY <1>3, <1>4, <1>5, <1>6
    <3> QED
      BY <1>3, <1>6, <3>1, <3>2, PosFlight
  <2>3. \A p \in fwd' : p.cmd = "push" => p.sn \in Seq32 /\ Pos(p.sn) < Pos(snd_nxt')
    <3> SUFFICES ASSUME NEW p \in fwd', p.cmd = "push"
                 PROVE  p.sn \in Seq32 /\ Pos(p.sn) < Pos(snd_nxt')
      OBVIOUS
    <3>1. CASE p \in fwd
      BY <2>1, <3>1 DEF LinkInv, SentBefore
    <3>2. CASE p \in {Push(sn) : sn \in sent}
      BY <2>2, <3>2 DEF Push
    <3>3. p # Wask
      BY DEF Wask
    <3> QED
      BY <1>1, <3>1, <3>2, <3>3
  <2>4. \A seg \in rcv_buf : Pos(seg.sn) < Pos(snd_nxt')
    BY <2>1, InvTypes DEF LinkInv, SentBefore
  <2> QED
    BY <1>2, <2>3, <2>4 DEF SentBefore, Pos
<1>9. ReadInOrder' /\ AcksHeld'
  BY <1>1, <1>2 DEF LinkInv, ReadInOrder, AcksHeld, Pos, Held, R!has
<1> QED
  BY <1>1, <1>7, <1>8, <1>9, ReceiverKept DEF LinkInv

(* A reply, however old, moves snd_una no further than rcv_nxt.            *)
LEMMA ReplyStep ==
    ASSUME LinkInv, NEW p \in bwd, NEW copy \in BOOLEAN, DeliverBwd(p, copy)
    PROVE  LinkInv'
<1>1. /\ UNCHANGED rcvVars /\ UNCHANGED <<fwd, written, read, snd_nxt, snd_queue>>
      /\ snd_una' = S!Advanced(p.una) /\ acked' \subseteq acked \cup p.sns
      /\ bwd' \subseteq bwd
  BY DEF DeliverBwd, S!Input
<1>2. UNCHANGED <<rcv_nxt, rcv_queue, rcv_buf, acklist>>
  BY <1>1 DEF rcvVars
<1>3. /\ EndsInOrder /\ snd_nxt \in Seq32 /\ snd_una \in Seq32
      /\ Pos(snd_nxt) \in Nat /\ Pos(rcv_nxt) \in Nat /\ Pos(snd_una) \in Nat
      /\ Pos(rcv_nxt) <= Pos(snd_nxt) /\ Pos(snd_una) <= Pos(rcv_nxt)
      /\ Pos(snd_nxt) < Half /\ Half \in Nat
  BY InvTypes DEF LinkInv
<1>4. p.una \in Seq32 /\ Pos(p.una) <= Pos(rcv_nxt) /\ Pos(p.una) \in Nat
  BY PosType DEF LinkInv, AcksHeld
<1>5. snd_una' \in Seq32 /\ Pos(snd_una') <= Pos(rcv_nxt)
  <2>1. itimediff(p.una, snd_nxt) = Pos(p.una) - Pos(snd_nxt)
    BY <1>3, <1>4, PosDiff
  <2>2. ~(itimediff(p.una, snd_nxt) > 0)
    BY <1>3, <1>4, <2>1
  <2>3. snd_una' \in {snd_una, p.una}
    BY <1>1, <2>2, SameNumbers DEF S!Advanced
  <2> QED
    BY <1>3, <1>4, <2>3
<1>6. EndsInOrder'
  BY <1>1, <1>2, <1>3, <1>5 DEF EndsInOrder, Pos
<1>7. ReadInOrder' /\ SentBefore'
  BY <1>1, <1>2 DEF LinkInv, ReadInOrder, SentBefore, Pos
<1>8. AcksHeld'
  <2>1. AcksHeld /\ \A sn : Held(sn) => Held(sn)'
    BY <1>1, ReceiverKept DEF LinkInv
  <2>2. \A sn \in acked' : Held(sn)
    BY <1>1, <2>1 DEF AcksHeld
  <2> QED
    BY <1>1, <1>2, <2>1, <2>2 DEF AcksHeld, Pos
<1> QED
  BY <1>1, <1>6, <1>7, <1>8, ReceiverKept DEF LinkInv

(* flush() at the receiver: what it acknowledges is held. *)
LEMMA RepliesStep ==
    ASSUME LinkInv, UNCHANGED <<sndVars, fwd, written, read>>,
           UNCHANGED <<rcv_nxt, rcv_wnd, rcv_queue, rcv_buf>>, pc' \in {"idle", "input"},
           RcvReplies \/ UNCHANGED <<acklist, tell, advertised, bwd>>
    PROVE  LinkInv'
<1>1. /\ UNCHANGED <<snd_queue, snd_una, snd_nxt, acked>>
      /\ acklist \in Seq(Seq32) /\ rcv_nxt \in Seq32
  BY InvTypes DEF sndVars
<1>2. EndsInOrder' /\ ReadInOrder' /\ SentBefore'
  BY <1>1 DEF LinkInv, EndsInOrder, ReadInOrder, SentBefore, Pos
<1>3. AcksHeld /\ \A sn : Held(sn) => Held(sn)'
  BY DEF LinkInv, Held, Pos, R!has
<1>4. CASE UNCHANGED <<acklist, tell, advertised, bwd>>
  <2>1. AcksHeld'
    BY <1>1, <1>3, <1>4 DEF AcksHeld, Pos
  <2>2. R!IInv'
    BY <1>4 DEF LinkInv, R!IInv, R!TypeOK, R!QueueBounded, R!InOrder, R!NoStall, R!QueueInOrder,
         R!BufAhead, R!NoStranded, R!WindowUpdatePending, R!wnd_unused, R!has
  <2> QED
    BY <1>2, <2>1, <2>2 DEF LinkInv
<1>5. CASE RcvReplies
  <2>1. PICK done \in 0..Len(acklist), room \in BOOLEAN :
            /\ R!FlushAcks(done, room)
            /\ bwd' \in {bwd, bwd \cup Replies(done, room)}
    BY <1>5 DEF RcvReplies
  <2>2. R!IInv'
    <3>1. RP!IInv /\ RP!AnyFlushAcks
      BY <2>1, SameIInv, SameFlush DEF LinkInv, RP!AnyFlushAcks
    <3> QED
      BY <3>1, ReceiverHypotheses, RP!FlushStep, SameIInv
  <2>3. /\ Len(acklist') = Len(acklist) - done
        /\ \A i \in 1..(Len(acklist) - done) : acklist'[i] = acklist[done + i]
    BY <1>1, <2>1, Suffix DEF R!FlushAcks
  <2>4. \A i \in 1..Len(acklist') : Held(acklist'[i])
    <3> TAKE i \in 1..Len(acklist')
    <3>1. done + i \in 1..Len(acklist) /\ i \in 1..(Len(acklist) - done)
      BY <1>1, <2>3
    <3> QED
      BY <1>3, <2>3, <3>1 DEF AcksHeld
  <2>5. ASSUME NEW p \in Replies(done, room)
        PROVE  p.una = rcv_nxt /\ \A sn \in p.sns : Held(sn)
    <3>1. p = Reply({acklist[i] : i \in R!AcksSent(done)})
      BY <2>5 DEF Replies
    <3>2. R!AcksSent(done) \subseteq 1..Len(acklist)
      BY <1>1 DEF R!AcksSent
    <3>3. p.una = rcv_nxt /\ p.sns = {acklist[i] : i \in R!AcksSent(done)}
      BY <3>1 DEF Reply
    <3> QED
      BY <1>3, <3>2, <3>3 DEF AcksHeld
  <2>6. \A p \in bwd' : /\ p.una \in Seq32 /\ Pos(p.una) <= Pos(rcv_nxt)
                        /\ \A sn \in p.sns : Held(sn)
    <3>1. Pos(rcv_nxt) <= Pos(rcv_nxt)
      BY InvTypes
    <3> QED
      BY <1>1, <1>3, <2>1, <2>5, <3>1 DEF AcksHeld
  <2>7. AcksHeld'
    BY <1>1, <1>3, <2>4, <2>6 DEF AcksHeld, Pos
  <2> QED
    BY <1>2, <2>2, <2>7 DEF LinkInv
<1> QED
  BY <1>4, <1>5

(* A packet arrives at the receiver: late, repeated or in order. *)
LEMMA DeliverStep ==
    ASSUME LinkInv, NEW p \in fwd, NEW copy \in BOOLEAN, DeliverFwd(p, copy)
    PROVE  LinkInv'
<1>1. /\ UNCHANGED <<snd_queue, snd_una, snd_nxt, acked, bwd, written, read>>
      /\ fwd' \subseteq fwd
  BY DEF DeliverFwd, sndVars
<1>2. /\ rcv_nxt \in Seq32 /\ snd_nxt \in Seq32 /\ acklist \in Seq(Seq32)
      /\ Pos(rcv_nxt) \in Nat /\ Pos(snd_nxt) \in Nat /\ Pos(rcv_nxt) < Half /\ Pos(snd_nxt) < Half
      /\ Pos(snd_una) \in Nat /\ Pos(rcv_nxt) <= Pos(snd_nxt) /\ Pos(snd_una) <= Pos(rcv_nxt)
      /\ \A seg \in rcv_buf : seg.sn \in Seq32
      /\ Half \in Nat /\ rcv_queue \in Seq(R!Segment)
  BY InvTypes
<1>3. R!IInv /\ EndsInOrder /\ ReadInOrder /\ SentBefore /\ AcksHeld
  BY DEF LinkInv
<1>4. CASE p.cmd # "push"
  <2>1. R!InputWask
    BY <1>4 DEF DeliverFwd
  <2>2. UNCHANGED <<rcv_nxt, rcv_wnd, rcv_queue, rcv_buf, acklist, advertised>> /\ pc' = "input" /\ tell' = TRUE
    BY <2>1 DEF R!InputWask
  <2>3. R!IInv'
    BY <1>3, <2>2 DEF R!IInv, R!TypeOK, R!QueueBounded, R!InOrder, R!NoStall, R!QueueInOrder,
         R!BufAhead, R!NoStranded, R!WindowUpdatePending, R!wnd_unused, R!has
  <2>4. EndsInOrder' /\ ReadInOrder' /\ SentBefore' /\ AcksHeld'
    BY <1>1, <1>3, <2>2 DEF EndsInOrder, ReadInOrder, SentBefore, AcksHeld, Pos, Held, R!has
  <2> QED
    BY <2>3, <2>4 DEF LinkInv
<1>5. CASE p.cmd = "push"
  <2> DEFINE sn == p.sn
  <2>1. sn \in Seq32 /\ Pos(sn) < Pos(snd_nxt) /\ Pos(sn) \in Nat
    BY <1>3, <1>5, PosType DEF SentBefore
  <2>2. R!InputPush([sn |-> sn, frg |-> 0])
    BY <1>5 DEF DeliverFwd
  <2> HIDE DEF sn
  <2>3. R!IInv'
    BY <2>1, <2>2, PushAdvances
  <2>4. CASE UNCHANGED <<acklist, rcv_queue, rcv_buf, rcv_nxt>>
    <3>1. EndsInOrder' /\ ReadInOrder' /\ SentBefore' /\ AcksHeld'
      BY <1>1, <1>3, <2>4 DEF EndsInOrder, ReadInOrder, SentBefore, AcksHeld, Pos, Held, R!has
    <3> QED
      BY <2>3, <3>1 DEF LinkInv
  <2>5. CASE /\ acklist' = Append(acklist, sn)
             /\ itimediff(sn, rcv_nxt) < 0
             /\ UNCHANGED <<rcv_queue, rcv_buf, rcv_nxt>>
    <3>1. itimediff(sn, rcv_nxt) = Pos(sn) - Pos(rcv_nxt)
      BY <1>2, <2>1, PosDiff
    <3>2. Held(sn)
      BY <1>2, <2>1, <2>5, <3>1 DEF Held
    <3>3. \A i \in 1..Len(acklist') : acklist'[i] = sn \/ (i \in 1..Len(acklist) /\ acklist'[i] = acklist[i])
      BY <1>2, <2>1, <2>5
    <3>4. \A i \in 1..Len(acklist') : Held(acklist'[i])
      BY <1>3, <3>2, <3>3 DEF AcksHeld
    <3>5. EndsInOrder' /\ ReadInOrder' /\ SentBefore' /\ AcksHeld'
      BY <1>1, <1>3, <2>5, <3>4 DEF EndsInOrder, ReadInOrder, SentBefore, AcksHeld, Pos, Held, R!has
    <3> QED
      BY <2>3, <3>5 DEF LinkInv
  <2>6. ASSUME acklist' = Append(acklist, sn),
               NEW buf \in {rcv_buf, rcv_buf \cup {[sn |-> sn, frg |-> 0]}}, NEW k \in Nat,
               R!has(buf, sn), Advance(buf, k), Len(rcv_queue') = Len(rcv_queue) + k
        PROVE  LinkInv'
    <3>1. \A seg \in buf : seg.sn \in Seq32 /\ Pos(seg.sn) < Pos(snd_nxt)
      BY <1>2, <1>3, <2>1 DEF SentBefore
    <3>2. /\ rcv_nxt' \in Seq32 /\ Pos(rcv_nxt') = Pos(rcv_nxt) + k
          /\ Pos(rcv_nxt) + k <= Pos(snd_nxt)
          /\ \A seg \in rcv_buf' : Pos(seg.sn) < Pos(snd_nxt)
          /\ \A n \in Seq32 : Pos(n) < Pos(rcv_nxt) \/ R!has(buf, n) => HeldAfter(n)
      BY <2>6, <3>1, AdvanceSound DEF Pos
    <3>3. \A n : Held(n) => HeldAfter(n)
      BY <2>6, <3>2 DEF Held, R!has
    <3>4. HeldAfter(sn)
      BY <2>1, <2>6, <3>2
    <3>5. EndsInOrder'
      <4>1. Pos(snd_una) <= Pos(rcv_nxt')
        BY <1>2, <3>2
      <4> QED
        BY <1>1, <1>3, <3>2, <4>1 DEF EndsInOrder, Pos
    <3>6. ReadInOrder'
      <4>1. Pos(rcv_nxt) = Len(read) + Len(rcv_queue) /\ Len(read) \in Nat
        BY <1>3 DEF ReadInOrder
      <4>2. Pos(rcv_nxt') = Len(read) + Len(rcv_queue')
        BY <1>2, <2>6, <3>2, <4>1
      <4> QED
        BY <1>1, <1>3, <4>2 DEF ReadInOrder, Pos
    <3>7. SentBefore'
      BY <1>1, <1>3, <3>2 DEF SentBefore, Pos
    <3>8. AcksHeld'
      <4>1. \A i \in 1..Len(acklist') : acklist'[i] = sn \/ (i \in 1..Len(acklist) /\ acklist'[i] = acklist[i])
        BY <1>2, <2>1, <2>6
      <4>2. \A i \in 1..Len(acklist') : HeldAfter(acklist'[i])
        BY <1>3, <3>3, <3>4, <4>1 DEF AcksHeld
      <4>3. \A q \in bwd : Pos(q.una) <= Pos(rcv_nxt')
        <5> TAKE q \in bwd
        <5>1. Pos(q.una) <= Pos(rcv_nxt) /\ Pos(q.una) \in Nat
          BY <1>3, PosType DEF AcksHeld
        <5> QED
          BY <1>2, <3>2, <5>1
      <4> QED
        BY <1>1, <1>3, <3>3, <4>2, <4>3 DEF AcksHeld, Pos, Held, HeldAfter, R!has
    <3> QED
      BY <2>3, <3>5, <3>6, <3>7, <3>8 DEF LinkInv
  <2> QED
    BY <2>1, <2>2, <2>4, <2>5, <2>6, PushAdvances
<1> QED
  BY <1>4, <1>5

(* A read takes the next segments of the stream off rcv_queue.             *)
LEMMA ReadTakes ==
    ASSUME LinkInv, Read
    PROVE  /\ read' \in Seq(Seq32)
           /\ R!MessageLen \in 1..Len(rcv_queue)
           /\ Len(read') = Len(read) + R!MessageLen
           /\ \A i \in 1..Len(read') : read'[i] = WrappingAdd(InitSn, i - 1)
<1> DEFINE n == R!MessageLen
           new == [i \in 1..n |-> rcv_queue[i].sn]
<1>1. n \in 1..Len(rcv_queue) /\ read' = read \o new
  BY ReadAdvances DEF Read
<1>2. /\ rcv_nxt \in Seq32 /\ rcv_queue \in Seq(R!Segment) /\ Pos(rcv_nxt) \in Nat
      /\ \A seg \in R!Segment : seg.sn \in Seq32
  BY InvTypes
<1>3. /\ Pos(rcv_nxt) = Len(read) + Len(rcv_queue) /\ read \in Seq(Seq32) /\ Len(read) \in Nat
      /\ \A i \in 1..Len(read) : read[i] = WrappingAdd(InitSn, i - 1)
  BY DEF LinkInv, ReadInOrder
<1>4. \A i \in 1..Len(rcv_queue) : rcv_queue[i].sn = WrappingSub(rcv_nxt, Len(rcv_queue) + 1 - i)
  BY SameNumbers DEF LinkInv, R!IInv, R!InOrder, R!QueueInOrder
<1> HIDE DEF n
<1>5. n \in Nat /\ new \in [1..n -> Seq32] /\ \A i \in 1..n : new[i] = rcv_queue[i].sn
  BY <1>1, <1>2
<1> HIDE DEF new
<1>6. /\ read' \in Seq(Seq32) /\ Len(read') = Len(read) + n
      /\ \A i \in 1..(Len(read) + n) : read'[i] = IF i <= Len(read) THEN read[i] ELSE new[i - Len(read)]
  BY <1>1, <1>3, <1>5, ConcatFunction
<1>7. ASSUME NEW i \in 1..(Len(read) + n) PROVE read'[i] = WrappingAdd(InitSn, i - 1)
  <2>1. CASE i <= Len(read)
    BY <1>3, <1>5, <1>6, <2>1
  <2>2. CASE ~(i <= Len(read))
    <3> DEFINE j == i - Len(read)
               b == Len(rcv_queue) + 1 - j
    <3>1. j \in 1..n /\ j \in 1..Len(rcv_queue) /\ b \in Nat /\ b <= Pos(rcv_nxt) /\ Pos(rcv_nxt) - b = i - 1
      BY <1>1, <1>2, <1>3, <1>5, <2>2
    <3>2. read'[i] = WrappingSub(rcv_nxt, b)
      BY <1>4, <1>5, <1>6, <2>2, <3>1
    <3> HIDE DEF b
    <3> QED
      BY <1>2, <3>1, <3>2, PosBack
  <2> QED
    BY <2>1, <2>2
<1> QED
  BY <1>1, <1>6, <1>7 DEF n

(* It keeps the invariant.                                                 *)
LEMMA ReadStep == LinkInv /\ Read => LinkInv'
<1> SUFFICES ASSUME LinkInv, Read PROVE LinkInv'
  OBVIOUS
<1>1. UNCHANGED <<snd_queue, snd_una, snd_nxt, acked, fwd, bwd, written>>
  BY DEF Read, sndVars
<1>2. R!IInv' /\ acklist' = acklist /\ R!MessageLen \in 1..Len(rcv_queue)
  BY ReadAdvances DEF Read
<1>3. PICK k \in Nat : Advance(rcv_buf, k) /\ Len(rcv_queue') = Len(rcv_queue) - R!MessageLen + k
  BY ReadAdvances DEF Read
<1>4. /\ rcv_queue \in Seq(R!Segment) /\ \A seg \in rcv_buf : seg.sn \in Seq32
      /\ Pos(rcv_nxt) \in Nat /\ Pos(snd_una) \in Nat /\ Pos(snd_una) <= Pos(rcv_nxt)
  BY InvTypes
<1>5. EndsInOrder /\ ReadInOrder /\ SentBefore /\ AcksHeld
  BY DEF LinkInv
<1>6. /\ rcv_nxt' \in Seq32 /\ Pos(rcv_nxt') = Pos(rcv_nxt) + k
      /\ Pos(rcv_nxt) + k <= Pos(snd_nxt)
      /\ \A seg \in rcv_buf' : Pos(seg.sn) < Pos(snd_nxt)
      /\ \A n \in Seq32 : Pos(n) < Pos(rcv_nxt) \/ R!has(rcv_buf, n) => HeldAfter(n)
  BY <1>3, <1>4, <1>5, AdvanceSound DEF SentBefore, Pos
<1>7. EndsInOrder'
  <2>1. Pos(snd_una) <= Pos(rcv_nxt')
    BY <1>4, <1>6
  <2> QED
    BY <1>1, <1>5, <1>6, <2>1 DEF EndsInOrder, Pos
<1>8. ReadInOrder'
  <2>1. Pos(rcv_nxt) = Len(read) + Len(rcv_queue) /\ Len(read) \in Nat
    BY <1>5 DEF ReadInOrder
  <2>2. /\ read' \in Seq(Seq32) /\ Len(read') = Len(read) + R!MessageLen
        /\ \A i \in 1..Len(read') : read'[i] = WrappingAdd(InitSn, i - 1)
    BY ReadTakes
  <2>3. Pos(rcv_nxt') = Len(read') + Len(rcv_queue')
    BY <1>2, <1>3, <1>4, <1>6, <2>1, <2>2
  <2> QED
    BY <2>2, <2>3 DEF ReadInOrder, Pos
<1>9. SentBefore'
  BY <1>1, <1>5, <1>6 DEF SentBefore, Pos
<1>10. AcksHeld'
  <2>1. \A n : Held(n) => HeldAfter(n)
    BY <1>6 DEF Held
  <2>2. \A q \in bwd : Pos(q.una) <= Pos(rcv_nxt')
    <3> TAKE q \in bwd
    <3>1. Pos(q.una) <= Pos(rcv_nxt) /\ Pos(q.una) \in Nat
      BY <1>5, PosType DEF AcksHeld
    <3> QED
      BY <1>4, <1>6, <3>1
  <2> QED
    BY <1>1, <1>2, <1>5, <2>1, <2>2 DEF AcksHeld, Pos, Held, HeldAfter, R!has
<1> QED
  BY <1>2, <1>7, <1>8, <1>9, <1>10 DEF LinkInv

(* Every action.                                                           *)
LEMMA LinkNext == LinkInv /\ [Next]_vars => LinkInv'
<1> SUFFICES ASSUME LinkInv, [Next]_vars PROVE LinkInv'
  OBVIOUS
<1>1. CASE Write
  BY <1>1, WriteStep
<1>2. ASSUME NEW k \in 0..Total, NEW sent, NEW ask, SndFlush(k, sent, ask) PROVE LinkInv'
  BY <1>2, FlushStep
<1>3. ASSUME NEW p \in fwd, NEW copy \in BOOLEAN, DeliverFwd(p, copy) PROVE LinkInv'
  BY <1>3, DeliverStep
<1>4. CASE RcvInputEnd
  BY <1>4, RepliesStep DEF RcvInputEnd, R!InputEnd
<1>5. CASE RcvFlush
  BY <1>5, RepliesStep DEF RcvFlush
<1>6. ASSUME NEW p \in bwd, NEW copy \in BOOLEAN, DeliverBwd(p, copy) PROVE LinkInv'
  BY <1>6, ReplyStep
<1>7. CASE Read
  BY <1>7, ReadStep
<1>8. CASE UNCHANGED vars
  <2>1. UNCHANGED <<sndVars, fwd, written, read>> /\ UNCHANGED <<acklist, tell, advertised, bwd>>
        /\ UNCHANGED <<rcv_nxt, rcv_wnd, rcv_queue, rcv_buf>> /\ pc' = pc
    BY <1>8 DEF vars, sndVars
  <2>2. pc \in {"idle", "input"}
    BY DEF LinkInv, R!IInv, R!TypeOK
  <2> QED
    BY <2>1, <2>2, RepliesStep
<1> QED
  BY <1>1, <1>2, <1>3, <1>4, <1>5, <1>6, <1>7, <1>8 DEF Next

(* LinkInv is an invariant of every execution.                             *)
THEOREM LinkInvariance == Spec => []LinkInv
BY LinkInit, LinkNext, PTL DEF Spec

(* A segment that parse_una() or parse_ack() lets the sender forget is in  *)
(* order at the receiver or in its rcv_buf: acknowledgements that are late,*)
(* repeated or reordered never cover a segment the receiver might lose.    *)
THEOREM NothingForgotten == Spec => []AckSound
<1>1. LinkInv => AckSound
  BY DEF LinkInv, EndsInOrder, ReadInOrder, AcksHeld, Held, AckSound, Covered
<1> QED
  BY <1>1, LinkInvariance, PTL

-----------------------------------------------------------------------------
(* The stream.                                                             *)

(* An initial state of the link is one of the stream.                      *)
LEMMA StreamInit == Init => Stream!Init
<1> SUFFICES ASSUME Init PROVE Stream!Init
  OBVIOUS
<1>1. written = 0 /\ read = <<>>
  BY DEF Init
<1>2. [i \in 1..written |-> WrappingAdd(InitSn, i - 1)] = <<>>
  BY <1>1
<1> QED
  BY <1>1, <1>2 DEF Stream!Init

(* Every step writes, reads a part of what was written, or does neither.   *)
LEMMA StreamStep == LinkInv /\ LinkInv' /\ [Next]_vars => [Stream!Next]_(Stream!vars)
<1> SUFFICES ASSUME LinkInv, LinkInv', [Next]_vars PROVE [Stream!Next]_(Stream!vars)
  OBVIOUS
<1> DEFINE inp(n) == [i \in 1..n |-> WrappingAdd(InitSn, i - 1)]
<1>1. CASE Write
  <2>1. written' = written + 1 /\ read' = read /\ written \in Nat /\ written < Total
    BY <1>1 DEF Write, LinkInv, EndsInOrder
  <2>2. InitSn \in Seq32 /\ Total < Half /\ Total \in Nat /\ Half \in Nat /\ M = 2 * Half
    BY LinkAssumption, ReceiverAssumption, HalfAssumption DEF M
  <2>3. \A i \in 1..(written + 1) : WrappingAdd(InitSn, i - 1) \in Seq32
    <3> TAKE i \in 1..(written + 1)
    <3>1. i - 1 \in 0..M
      BY <2>1, <2>2
    <3> QED
      BY <2>2, <3>1, WrapType
  <2>4. inp(written + 1) = Append(inp(written), WrappingAdd(InitSn, written)) /\ WrappingAdd(InitSn, written) \in Seq32
    BY <2>1, <2>3
  <2> QED
    BY <2>1, <2>4 DEF Stream!Next, Stream!Write
<1>2. CASE Read
  <2>1. /\ read' \in Seq(Seq32) /\ Len(read') = Len(read) + R!MessageLen
        /\ R!MessageLen \in 1..Len(rcv_queue) /\ written' = written
        /\ \A i \in 1..Len(read') : read'[i] = WrappingAdd(InitSn, i - 1)
    BY <1>2, ReadTakes DEF Read
  <2>2. /\ Pos(rcv_nxt) = Len(read) + Len(rcv_queue) /\ Pos(rcv_nxt) <= Pos(snd_nxt)
        /\ Pos(snd_nxt) + snd_queue = written /\ snd_queue \in Nat /\ Pos(snd_nxt) \in Nat
        /\ Len(read) \in Nat /\ Len(rcv_queue) \in Nat /\ written \in Nat
    BY InvTypes, SMTT(60) DEF LinkInv, ReadInOrder, EndsInOrder
  <2>3. Len(read') \in (Len(read) + 1)..written /\ Len(read) < written
    BY <2>1, <2>2
  <2>4. Len(inp(written)) = written
    BY <2>2
  <2>5. read' = SubSeq(inp(written), 1, Len(read'))
    BY <2>1, <2>2, <2>3, <2>4
  <2> QED
    BY <2>1, <2>3, <2>4, <2>5 DEF Stream!Next, Stream!Read
<1>3. CASE written' = written /\ read' = read
  BY <1>3 DEF Stream!vars
<1> QED
  BY <1>1, <1>2, <1>3 DEF Next, SndFlush, DeliverFwd, RcvInputEnd, RcvFlush, DeliverBwd, vars

(* The segments recv() hands to the peer's application are the ones        *)
(* send() was given, in order and once: the safety part of ReliableStream. *)
THEOREM StreamCorrect == Spec => StreamIntact
<1>1. Init => Stream!Init
  BY StreamInit
<1> QED
  BY <1>1, StreamStep, LinkInvariance, PTL DEF Spec, StreamIntact, Stream!SafeSpec
=============================================================================
