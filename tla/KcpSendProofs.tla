---------------------------- MODULE KcpSendProofs ----------------------------
(***************************************************************************)
(* Proofs about KcpSend, for every window, every 32-bit wrap position,     *)
(* every peer and every schedule of handlers:                              *)
(*                                                                         *)
(*   TypeCorrect       TypeOK is an invariant;                             *)
(*   Contiguity        SndBufContiguous is one, and the flight stays below *)
(*                     2^31 segments;                                      *)
(*   AckIndexCorrect   the D31 ring offset never misses;                   *)
(*   SkipCorrect       the D29 skip never leaves out a segment that        *)
(*                     flush() would have touched;                         *)
(*   AckMonotone       snd_una never moves back;                           *)
(*   CongestionOpen    with congestion control on, the congestion window   *)
(*                     is never closed on segments in flight;              *)
(*   ImplementsArq     it implements ArqSender.                            *)
(***************************************************************************)
EXTENDS KcpSend, Facts

CongType == [cwnd: Nat, ssthresh: Nat, incr: Nat]

-----------------------------------------------------------------------------
(* Sequence arithmetic.                                                    *)

(* Wrapping sums and differences are u32, and _itimediff is an i32.        *)
LEMMA WrapType ==
    /\ \A a \in Seq32, n \in 0..M : WrappingAdd(a, n) \in Seq32
    /\ \A a, b \in Seq32 : WrappingSub(a, b) \in Seq32
    /\ \A a, b \in Seq32 : itimediff(a, b) \in (-Half)..(Half - 1)
BY HalfAssumption DEF Seq32, M, WrappingAdd, WrappingSub, itimediff

(* The difference of two sequence numbers counted from the same origin is  *)
(* the difference of the counts, as long as those are below 2^31.          *)
LEMMA WrapDiff ==
    ASSUME NEW a \in Seq32, NEW i \in 0..(Half - 1), NEW j \in 0..(Half - 1)
    PROVE  /\ itimediff(WrappingAdd(a, i), WrappingAdd(a, j)) = i - j
           /\ WrappingAdd(a, i) = WrappingAdd(a, j) => i = j
BY HalfAssumption DEF Seq32, M, WrappingAdd, WrappingSub, itimediff

(* Counting back what was counted forward.                                 *)
LEMMA WrapCount ==
    ASSUME NEW a \in Seq32, NEW i \in 0..(Half - 1)
    PROVE  WrappingSub(WrappingAdd(a, i), a) = i
BY HalfAssumption DEF Seq32, M, WrappingAdd, WrappingSub

(* A number less than 2^31 ahead compares as not before.                   *)
LEMMA WrapForward ==
    ASSUME NEW a \in Seq32, NEW i \in 0..(Half - 1)
    PROVE  itimediff(WrappingAdd(a, i), a) >= 0 /\ itimediff(a, a) >= 0
BY HalfAssumption DEF Seq32, M, WrappingAdd, WrappingSub, itimediff

(* Wrapping additions combine.                                             *)
LEMMA WrapAssoc ==
    ASSUME NEW a \in Seq32, NEW i \in Nat, NEW j \in Nat, i + j < M
    PROVE  WrappingAdd(WrappingAdd(a, i), j) = WrappingAdd(a, i + j)
BY HalfAssumption DEF Seq32, M, WrappingAdd

-----------------------------------------------------------------------------
(* Types of the operators.                                                 *)

(* parse_ack() sets `acked' and nothing the summary speaks of.             *)
LEMMA MarkedProperties ==
    ASSUME NEW seg \in Segment
    PROVE  /\ Marked(seg) \in Segment
           /\ Marked(seg).sn = seg.sn
           /\ Marked(seg).acked
           /\ Marked(seg).xmit = seg.xmit
           /\ Marked(seg).resendts = seg.resendts
           /\ Marked(seg).fastack = seg.fastack
BY DEF Marked, Segment

(* bump_fastack() changes only the counter of duplicate acks.              *)
LEMMA BumpProperties ==
    ASSUME NEW seg \in Segment, seg.fastack # FastackMax
    PROVE  /\ bump_fastack(seg) \in Segment
           /\ bump_fastack(seg).sn = seg.sn
           /\ bump_fastack(seg).acked = seg.acked
           /\ bump_fastack(seg).xmit = seg.xmit
           /\ bump_fastack(seg).resendts = seg.resendts
<1>1. seg.fastack + 1 \in 0..FastackMax
  BY BoundsAssumption DEF Segment
<1> QED
  BY <1>1 DEF bump_fastack, Segment

(* parse_ack() marks at most one segment and touches nothing else. *)
LEMMA AckEffect ==
    ASSUME NEW buf \in Seq(Segment), NEW una \in Seq32, NEW sn \in Seq32
    PROVE  /\ parse_ack(buf, una, sn) \in Seq(Segment)
           /\ Len(parse_ack(buf, una, sn)) = Len(buf)
           /\ \A i \in 1..Len(buf) : parse_ack(buf, una, sn)[i] \in {buf[i], Marked(buf[i])}
<1>1. \A i \in 1..Len(buf) : buf[i] \in Segment /\ Marked(buf[i]) \in Segment
  BY MarkedProperties
<1>2. /\ parse_ack(buf, una, sn) \in [1..Len(buf) -> Segment] \/ parse_ack(buf, una, sn) = buf
      /\ \A i \in 1..Len(buf) : parse_ack(buf, una, sn)[i] \in {buf[i], Marked(buf[i])}
  BY <1>1 DEF parse_ack
<1> QED
  BY <1>2, FunctionIsSeq

(* parse_fastack() raises fastack of the segments in Bumps. *)
LEMMA FastackEffect ==
    ASSUME NEW buf \in Seq(Segment), NEW una \in Seq32, NEW sn \in Seq32, NEW ts \in Int
    PROVE  /\ parse_fastack(buf, una, sn, ts) \in Seq(Segment)
           /\ Len(parse_fastack(buf, una, sn, ts)) = Len(buf)
           /\ \A i \in 1..Len(buf) :
                parse_fastack(buf, una, sn, ts)[i] =
                    IF i \in Bumps(buf, una, sn, ts) THEN bump_fastack(buf[i]) ELSE buf[i]
<1>1. \A i \in Bumps(buf, una, sn, ts) :
        i \in 1..Len(buf) => bump_fastack(buf[i]) \in Segment
  BY BumpProperties DEF Bumps
<1>2. /\ parse_fastack(buf, una, sn, ts) \in [1..Len(buf) -> Segment]
      /\ \A i \in 1..Len(buf) :
            parse_fastack(buf, una, sn, ts)[i] =
                IF i \in Bumps(buf, una, sn, ts) THEN bump_fastack(buf[i]) ELSE buf[i]
  BY <1>1 DEF parse_fastack
<1> QED
  BY <1>2, FunctionIsSeq

(* A transmitted segment keeps its number and is a segment.                *)
LEMMA TransmitType ==
    ASSUME TypeOK, NEW seg \in Segment, NEW k \in Nat, NEW c \in Int, NEW d \in Int
    PROVE  Transmit(seg, k, c, d) \in Segment
<1>1. rx_rto \in Int /\ rx_rto \div 2 \in Int
  BY RtoAssumption DEF TypeOK
<1>2. FastackMax \in 0..FastackMax /\ 0 \in 0..FastackMax
  BY BoundsAssumption
<1> QED
  BY <1>1, <1>2 DEF Transmit, Segment

(* The congestion window after a flush is a natural number.                *)
LEMMA CongestionType ==
    ASSUME TypeOK, NEW c0 \in CongType, NEW buf, NEW sent, NEW k, NEW cw \in Nat,
           NEW inflight \in Nat
    PROVE  Congestion(c0, buf, sent, k, cw, inflight) \in CongType
<1> DEFINE half(n) == IF n \div 2 >= ThreshMin THEN n \div 2 ELSE ThreshMin
<1>1. half(inflight) \in Nat /\ half(inflight) >= 2 /\ half(cw) \in Nat
  BY CongestionAssumption
<1>2. opt.fastresend \in Nat
  BY OptionsAssumption DEF TypeOK, OptionType
<1> DEFINE cut == IF opt.fastresend = 0 THEN half(inflight) - 1
                  ELSE half(inflight) + opt.fastresend
<1>3. cut \in Nat
  BY <1>1, <1>2
<1>4. cut * Mss \in Nat /\ Mss \in Nat
  BY <1>3, CongestionAssumption
<1> HIDE DEF half, cut
<1> QED
  BY <1>1, <1>3, <1>4 DEF Congestion, CongType, half, cut

(* So it is after the growth at the end of input().                        *)
LEMMA GrowType ==
    ASSUME TypeOK, NEW c \in CongType
    PROVE  Grow(c) \in CongType
<1>1. Mss \in Nat /\ Mss > 0 /\ wnd.rmt \in Nat /\ wnd.rmt * Mss \in Nat
  BY CongestionAssumption, HalfAssumption DEF TypeOK
<1> DEFINE base == IF c.incr < Mss THEN Mss ELSE c.incr
           incr == base + (Mss * Mss) \div base + Mss \div 16
<1>2. base \in Nat /\ base > 0
  BY <1>1 DEF CongType
<1>3. (Mss * Mss) \div base \in Nat /\ Mss \div 16 \in Nat
  BY <1>1, <1>2
<1>4. incr \in Nat
  BY <1>2, <1>3
<1>5. (incr + Mss - 1) \div Mss \in Nat
  BY <1>1, <1>4
<1>6. Avoidance(c) \in CongType
  <2> HIDE DEF incr
  <2> QED
    BY <1>4, <1>5 DEF Avoidance, CongType, incr
<1>7. SlowStart(c) \in CongType
  BY <1>1 DEF SlowStart, CongType
<1> QED
  BY <1>1, <1>6, <1>7 DEF Grow, CongType

-----------------------------------------------------------------------------
(* The admission loop.                                                     *)

(* The effective window of flush() is below 2^31: rmt_wnd is a u16.        *)
LEMMA WindowType ==
    ASSUME TypeOK, NEW c0 \in CongType
    PROVE  Window(wnd, opt.nocwnd, c0.cwnd) \in 0..(Half - 1)
<1>1. wnd.snd \in Nat /\ wnd.rmt \in 0..(Half - 1) /\ c0.cwnd \in Nat
  BY WndAssumption DEF TypeOK, CongType
<1> QED
  BY <1>1, HalfAssumption DEF Window

(* An admitted segment is well formed and not yet transmitted.             *)
LEMMA NewSegmentType ==
    ASSUME NEW sn \in Seq32
    PROVE  /\ NewSegment(sn) \in Segment /\ NewSegment(sn).sn = sn
           /\ NewSegment(sn).xmit = 0 /\ ~NewSegment(sn).acked
BY BoundsAssumption DEF NewSegment, Segment

(* The window never lets more than 2^31 - 1 segments in. *)
LEMMA AdmissionBound ==
    ASSUME IInv, NEW cw \in 0..(Half - 1), NEW k \in Nat, Admits(cw, k)
    PROVE  Len(snd_buf) + k < Half
<1> DEFINE n == Len(snd_buf)
<1>1. n \in 0..(Half - 1) /\ snd_una \in Seq32 /\ snd_nxt = WrappingAdd(snd_una, n)
  BY HalfAssumption DEF IInv, TypeOK, FlightBounded, SndBufContiguous
<1> SUFFICES ASSUME n + k >= Half PROVE FALSE
  BY <1>1, HalfAssumption
<1> DEFINE j == IF cw >= n THEN cw - n ELSE 0
<1>2. j \in 0..(k - 1) /\ n + j \in 0..(Half - 1) /\ n + j >= cw
  BY <1>1, HalfAssumption
<1>3. WrappingAdd(snd_nxt, j) = WrappingAdd(snd_una, n + j)
  BY <1>1, <1>2, WrapAssoc, HalfAssumption DEF M
<1>4. itimediff(WrappingAdd(snd_una, n + j), WrappingAdd(snd_una, cw)) = n + j - cw
  BY <1>1, <1>2, WrapDiff
<1>5. itimediff(WrappingAdd(snd_nxt, j), WrappingAdd(snd_una, cw)) < 0
  BY <1>2 DEF Admits
<1> QED
  BY <1>1, <1>2, <1>3, <1>4, <1>5

(* Segments enter at the tail, numbered on from snd_nxt. *)
LEMMA AdmissionContiguous ==
    ASSUME IInv, NEW k \in Nat, Len(snd_buf) + k < Half
    PROVE  /\ Admitted(k) \in Seq(Segment)
           /\ Len(Admitted(k)) = Len(snd_buf) + k
           /\ \A i \in 1..Len(snd_buf) : Admitted(k)[i] = snd_buf[i]
           /\ \A i \in 1..(Len(snd_buf) + k) :
                Admitted(k)[i].sn = WrappingAdd(snd_una, i - 1)
           /\ \A i \in (Len(snd_buf) + 1)..(Len(snd_buf) + k) : ~Admitted(k)[i].acked
           /\ WrappingAdd(snd_nxt, k) = WrappingAdd(snd_una, Len(snd_buf) + k)
           /\ WrappingAdd(snd_nxt, k) \in Seq32
<1> DEFINE n == Len(snd_buf)
           new == [j \in 1..k |-> NewSegment(WrappingAdd(snd_nxt, j - 1))]
<1>1. /\ n \in 0..(Half - 1) /\ snd_una \in Seq32 /\ snd_nxt = WrappingAdd(snd_una, n)
      /\ snd_buf \in Seq(Segment) /\ snd_nxt \in Seq32
  BY HalfAssumption DEF IInv, TypeOK, FlightBounded, SndBufContiguous
<1>2. \A j \in 0..k : /\ WrappingAdd(snd_nxt, j) = WrappingAdd(snd_una, n + j)
                      /\ WrappingAdd(snd_nxt, j) \in Seq32
  <2> TAKE j \in 0..k
  <2>1. n \in Nat /\ j \in Nat /\ n + j < M /\ j \in 0..M
    BY <1>1, HalfAssumption DEF M
  <2> QED
    BY <1>1, <2>1, WrapAssoc, WrapType
<1>3. \A j \in 1..k : /\ NewSegment(WrappingAdd(snd_nxt, j - 1)) \in Segment
                      /\ ~NewSegment(WrappingAdd(snd_nxt, j - 1)).acked
                      /\ NewSegment(WrappingAdd(snd_nxt, j - 1)).sn =
                            WrappingAdd(snd_una, n + j - 1)
  <2> TAKE j \in 1..k
  <2>1. j - 1 \in 0..k /\ n + (j - 1) = n + j - 1
    BY <1>1
  <2> QED
    BY <1>2, <2>1, NewSegmentType
<1>4. new \in [1..k -> Segment]
  BY <1>3
<1> HIDE DEF new
<1>5. /\ Admitted(k) \in Seq(Segment) /\ Len(Admitted(k)) = n + k
      /\ \A i \in 1..(n + k) : Admitted(k)[i] = IF i <= n THEN snd_buf[i] ELSE new[i - n]
  BY <1>1, <1>4, ConcatFunction DEF Admitted, new
<1>6. \A i \in 1..n : snd_buf[i].sn = WrappingAdd(snd_una, i - 1)
  BY DEF IInv, SndBufContiguous
<1>7. ASSUME NEW i \in 1..(n + k), ~(i <= n)
      PROVE  Admitted(k)[i].sn = WrappingAdd(snd_una, i - 1) /\ ~Admitted(k)[i].acked
  <2>1. i - n \in 1..k /\ n + (i - n) - 1 = i - 1
    BY <1>1, <1>7
  <2>2. Admitted(k)[i] = NewSegment(WrappingAdd(snd_nxt, (i - n) - 1))
    BY <1>5, <1>7, <2>1 DEF new
  <2> QED
    BY <1>3, <2>1, <2>2
<1>8. ASSUME NEW i \in (n + 1)..(n + k)
      PROVE  ~Admitted(k)[i].acked
  <2>1. i \in 1..(n + k) /\ ~(i <= n)
    BY <1>1
  <2> QED
    BY <1>7, <2>1
<1> QED
  BY <1>1, <1>2, <1>5, <1>6, <1>7, <1>8

-----------------------------------------------------------------------------
(* The scan of snd_buf.                                                    *)

(* A scan of `buf', the buffer after k segments were admitted: what it     *)
(* leaves in snd_buf and what it says about it are sound.                  *)
LEMMA ScanStep ==
    ASSUME IInv, NEW k \in Nat, Len(snd_buf) + k < Half,
           NEW cur \in Readings(Len(snd_buf) + k), NEW stop \in Nat,
           NEW sent, sent = SendSet(Admitted(k), Skipped(Admitted(k), k), k, cur, stop),
           NEW new, new = Scanned(Admitted(k), sent, k, cur),
           NEW learnt \in Summary(new, Skipped(Admitted(k), k), cur, stop)
    PROVE  /\ new \in Seq(Segment)
           /\ Len(new) = Len(snd_buf) + k
           /\ \A i \in 1..(Len(snd_buf) + k) : new[i].sn = Admitted(k)[i].sn
           /\ learnt \in Scan
           /\ \A i \in 1..(Len(new) - learnt.unsent) :
                \/ new[i].acked
                \/ /\ learnt.due # "unknown" =>
                        /\ new[i].xmit # 0
                        /\ learnt.due = "notbefore" /\ new[i].resendts >= learnt.at
                   /\ learnt.no_fastack => new[i].fastack \in {0, FastackMax}
<1> DEFINE n == Len(snd_buf) + k
           buf == Admitted(k)
           skipped == Skipped(buf, k)
<1>1. /\ TypeOK /\ Len(snd_buf) \in Nat /\ snd_buf \in Seq(Segment) /\ now \in Nat
      /\ scan \in Scan
  BY DEF IInv, TypeOK
<1>2. /\ buf \in Seq(Segment) /\ Len(buf) = n
      /\ \A i \in 1..Len(snd_buf) : buf[i] = snd_buf[i]
  BY AdmissionContiguous
<1>3. /\ \A i \in 1..(n + 1) : cur[i] \in Int /\ cur[i] >= now
  BY <1>1, BoundsAssumption DEF Readings
<1>4. \A i \in 1..n : buf[i] \in Segment /\ Transmit(buf[i], k, cur[i], cur[i + 1]) \in Segment
  BY <1>1, <1>2, <1>3, TransmitType
<1>5. /\ new \in [1..n -> Segment]
      /\ \A i \in 1..n : new[i] = IF i \in sent THEN Transmit(buf[i], k, cur[i], cur[i + 1])
                                  ELSE buf[i]
  BY <1>2, <1>4 DEF Scanned
<1>6. new \in Seq(Segment) /\ Len(new) = n
  BY <1>1, <1>5, FunctionIsSeq
<1>7. \A i \in 1..n : new[i].sn = buf[i].sn
  BY <1>4, <1>5 DEF Transmit
<1>8. skipped \in 0..n /\ \A i \in 1..skipped : i \notin sent
  BY <1>1, <1>2 DEF Skipped, SendSet, Scan
<1>9. skipped > 0 => can_skip /\ skipped = Len(snd_buf) - scan.unsent
  BY <1>1, <1>2 DEF Skipped, Scan
<1> HIDE DEF n, buf, skipped
<1>10. PICK last \in LastSent(new),
            bound \in MergeDue(skipped, Waiting(new, skipped, cur, stop)) :
         learnt = Learnt(new, skipped, last, bound)
  BY DEF Summary, skipped, buf
<1> DEFINE waiting == Waiting(new, skipped, cur, stop)
           head == IF skipped > 0 /\ scan.due = "notbefore" THEN {scan.at} ELSE {}
<1>11. /\ last \in 0..n
       /\ bound \in MergeDue(skipped, waiting)
  BY <1>6, <1>10 DEF LastSent
<1>12. waiting \subseteq Int
  <2> SUFFICES ASSUME NEW i \in 1..n
               PROVE  now + (new[i].resendts - (IF i >= stop THEN cur[i] ELSE cur[i + 1])) \in Int
    BY <1>6, <1>8 DEF Waiting
  <2>1. new[i].resendts \in Int /\ cur[i] \in Int /\ cur[i + 1] \in Int
    BY <1>1, <1>3, <1>5, SMTT(60) DEF Segment, n
  <2> QED
    BY <1>1, <2>1, SMTT(60)
<1>13. ASSUME NEW i \in (skipped + 1)..n, ~new[i].acked, new[i].xmit # 0
       PROVE  \E t \in waiting : t <= new[i].resendts
  <2> DEFINE t == now + (new[i].resendts - (IF i >= stop THEN cur[i] ELSE cur[i + 1]))
  <2>1. t \in waiting
    BY <1>6, <1>13 DEF Waiting
  <2>2. i \in 1..n /\ i \in 1..(n + 1) /\ i + 1 \in 1..(n + 1)
    BY <1>1, <1>8 DEF n
  <2>3. /\ new[i].resendts \in Int
        /\ cur[i] \in Int /\ cur[i] >= now /\ cur[i + 1] \in Int /\ cur[i + 1] >= now
    BY <1>3, <1>5, <2>2 DEF Segment
  <2>4. t <= new[i].resendts
    BY <1>1, <2>3
  <2> QED
    BY <2>1, <2>4
<1> HIDE DEF waiting
<1>14. /\ bound.due \in {"nothing", "notbefore"}
       /\ bound.at \in Int
       /\ bound.due = "nothing" => waiting = {} /\ head = {}
       /\ bound.due = "notbefore" => \A t \in waiting \cup head : bound.at <= t
  <2>1. waiting \cup head \subseteq Int
    BY <1>1, <1>12 DEF Scan
  <2>2. CASE waiting \cup head = {}
    BY <1>11, <2>2 DEF MergeDue
  <2>3. CASE waiting \cup head # {}
    <3>1. PICK t \in Earliest(waiting \cup head) : bound = [due |-> "notbefore", at |-> t]
      BY <1>11, <2>3 DEF MergeDue
    <3> QED
      BY <2>1, <3>1 DEF Earliest
  <2> QED
    BY <2>2, <2>3
<1>15. ASSUME NEW i \in 1..skipped
       PROVE  /\ new[i].acked \/ new[i].fastack \in {0, FastackMax}
              /\ \/ new[i].acked
                 \/ new[i].xmit # 0 /\ head # {} /\ \A t \in head : t <= new[i].resendts
  <2>1. i \in 1..n /\ i \in 1..Len(snd_buf) /\ skipped > 0 /\ i \notin sent
    BY <1>1, <1>8, <1>9 DEF Scan, n
  <2>2. new[i] = snd_buf[i]
    BY <1>2, <1>5, <2>1
  <2>3. i \in 1..(Len(snd_buf) - scan.unsent) /\ scan.no_fastack /\ scan.due # "unknown"
    BY <1>9, <2>1 DEF can_skip
  <2> QED
    BY <2>1, <2>2, <2>3 DEF IInv, ScanSound
<1>16. /\ learnt.no_fastack \in BOOLEAN
       /\ learnt.no_fastack =>
            \A i \in (skipped + 1)..n : new[i].acked \/ new[i].fastack \in {0, FastackMax}
  BY <1>6, <1>10 DEF Learnt
<1> DEFINE suffix == skipped <= last /\ \A i \in (skipped + 1)..last : new[i].xmit # 0
<1>17. /\ learnt.due = IF suffix THEN bound.due ELSE "unknown"
       /\ learnt.at = IF suffix THEN bound.at ELSE 0
       /\ learnt.unsent = IF suffix THEN n - last ELSE 0
  BY <1>6, <1>10 DEF Learnt
<1>18. learnt \in Scan
  <2>1. learnt.due \in {"unknown", "nothing", "notbefore"} /\ learnt.at \in Int
        /\ learnt.unsent \in Nat
    BY <1>1, <1>11, <1>14, <1>17 DEF n
  <2> QED
    BY <1>10, <1>16, <2>1 DEF Learnt, Scan
<1>19. ASSUME NEW i \in 1..n
       PROVE  learnt.no_fastack => new[i].acked \/ new[i].fastack \in {0, FastackMax}
  <2>1. i \in 1..skipped \/ i \in (skipped + 1)..n
    BY <1>8
  <2> QED
    BY <1>15, <1>16, <2>1
<1>20. ASSUME NEW i \in 1..(n - learnt.unsent), ~new[i].acked, learnt.due # "unknown"
       PROVE  /\ new[i].xmit # 0
              /\ learnt.due = "notbefore" /\ new[i].resendts >= learnt.at
  <2>1. suffix /\ i \in 1..last /\ i \in 1..n
    BY <1>1, <1>11, <1>17, <1>20 DEF n
  <2>2. i \in 1..skipped \/ i \in (skipped + 1)..last
    BY <1>8, <1>11, <2>1
  <2>3. new[i].xmit # 0
    BY <1>15, <1>20, <2>1, <2>2
  <2>4. \E t \in waiting \cup head : t <= new[i].resendts
    <3>1. CASE i \in 1..skipped
      BY <1>15, <1>20, <3>1
    <3>2. CASE i \in (skipped + 1)..last
      <4>1. i \in (skipped + 1)..n
        BY <1>1, <1>8, <1>11, <3>2 DEF n
      <4> QED
        BY <1>13, <1>20, <2>3, <4>1
    <3> QED
      BY <2>2, <3>1, <3>2
  <2>5. PICK t \in waiting \cup head : t <= new[i].resendts
    BY <2>4
  <2>6. bound.due = "notbefore" /\ bound.at <= t
    BY <1>14, <2>5
  <2>7. t \in Int /\ new[i].resendts \in Int
    BY <1>1, <1>5, <1>12, <2>1 DEF Scan, Segment
  <2> QED
    BY <1>14, <1>17, <2>1, <2>3, <2>5, <2>6, <2>7
<1>21. \A i \in 1..(n - learnt.unsent) : i \in 1..n
  BY <1>1, <1>18 DEF Scan, n
<1> QED
  BY <1>6, <1>7, <1>18, <1>19, <1>20, <1>21 DEF n, buf

-----------------------------------------------------------------------------
(* flush() and input().                                                    *)

ProbeType == [wait: Nat, ts: Nat, ask: BOOLEAN]

(* The probe timer of flush() keeps its type.                              *)
LEMMA ProbeTimerType ==
    ASSUME TypeOK, NEW room \in BOOLEAN
    PROVE  [ProbeTimer EXCEPT !.ask = @ /\ ~room] \in ProbeType
<1>1. /\ prb \in ProbeType /\ now \in Nat /\ ProbeInit \in Nat /\ ProbeLimit \in Nat
  BY CongestionAssumption DEF TypeOK, ProbeType
<1> DEFINE base == IF prb.wait < ProbeInit THEN ProbeInit ELSE prb.wait
           grown == base + base \div 2
           wait == IF grown > ProbeLimit THEN ProbeLimit ELSE grown
<1>2. base \in Nat
  BY <1>1 DEF ProbeType
<1>3. wait \in Nat
  BY <1>1, <1>2
<1>4. [wait |-> wait, ts |-> now + wait, ask |-> TRUE] \in ProbeType
  BY <1>1, <1>3 DEF ProbeType
<1>5. \A w \in Nat, t \in Nat : [prb EXCEPT !.wait = w, !.ts = t] \in ProbeType
  BY <1>1 DEF ProbeType
<1>6. /\ [prb EXCEPT !.wait = 0, !.ts = 0] \in ProbeType
      /\ [prb EXCEPT !.wait = ProbeInit, !.ts = now + ProbeInit] \in ProbeType
  <2>1. now + ProbeInit \in Nat
    BY <1>1
  <2> QED
    BY <1>1, <1>5, <2>1
<1>7. ProbeTimer \in ProbeType
  <2> HIDE DEF wait
  <2> QED
    BY <1>1, <1>4, <1>6 DEF ProbeTimer, wait
<1>8. \A p \in ProbeType : [p EXCEPT !.ask = @ /\ ~room] \in ProbeType
  BY DEF ProbeType
<1> QED
  BY <1>7, <1>8

(* A flush, of whatever kind, preserves the invariant.                     *)
LEMMA FlushStep ==
    ASSUME IInv, NEW full \in BOOLEAN, NEW c0 \in CongType, FlushWith(full, c0),
           snd_una' = snd_una
    PROVE  /\ now' \in Nat /\ snd_queue' \in Nat /\ snd_nxt' \in Seq32
           /\ snd_buf' \in Seq(Segment) /\ scan' \in Scan
           /\ cong' \in CongType /\ prb' \in ProbeType
           /\ SndBufContiguous' /\ FlightBounded' /\ ScanSound'
<1> DEFINE cw == Window(wnd, opt.nocwnd, c0.cwnd)
<1>1. /\ TypeOK /\ snd_queue \in Nat /\ cw \in 0..(Half - 1)
      /\ Len(snd_buf) \in Nat /\ now \in Nat /\ scan \in Scan /\ snd_una \in Seq32
      /\ snd_buf \in Seq(Segment)
  BY WindowType DEF IInv, TypeOK
<1> HIDE DEF cw
<1>2. PICK k \in 0..snd_queue, room \in BOOLEAN :
        /\ Admits(cw, k)
        /\ prb' = [ProbeTimer EXCEPT !.ask = @ /\ ~room]
        /\ snd_queue' = snd_queue - k
        /\ snd_nxt' = WrappingAdd(snd_nxt, k)
        /\ LET buf == Admitted(k)
               n   == Len(snd_buf) + k
               skipped == Skipped(buf, k)
           IN  IF full
               THEN \E cur \in Readings(n), stop \in 1..(n + 1) :
                      LET sent == SendSet(buf, skipped, k, cur, stop)
                          new  == Scanned(buf, sent, k, cur)
                      IN  /\ Plausible(buf, skipped, k, cur, stop)
                          /\ cur[n + 1] <= MaxTime
                          /\ snd_buf' = new
                          /\ scan' \in Summary(new, skipped, cur, stop)
                          /\ now' = cur[n + 1]
                          /\ cong' = Congestion(c0, buf, sent, k, cw,
                                        WrappingSub(WrappingAdd(snd_nxt, k), snd_una))
               ELSE /\ snd_buf' = buf
                    /\ scan' = [scan EXCEPT !.unsent = @ + k]
                    /\ now' = now
                    /\ cong' = Congestion(c0, buf, {}, k, cw, 0)
  BY DEF FlushWith, cw
<1>3. k \in Nat /\ snd_queue' \in Nat
  BY <1>1, <1>2
<1>4. Len(snd_buf) + k < Half
  BY <1>1, <1>2, <1>3, AdmissionBound
<1>5. prb' \in ProbeType
  BY <1>1, <1>2, ProbeTimerType
<1> DEFINE n == Len(snd_buf) + k
           buf == Admitted(k)
<1>6. /\ buf \in Seq(Segment) /\ Len(buf) = n
      /\ \A i \in 1..Len(snd_buf) : buf[i] = snd_buf[i]
      /\ \A i \in 1..n : buf[i].sn = WrappingAdd(snd_una, i - 1)
      /\ snd_nxt' = WrappingAdd(snd_una, n) /\ snd_nxt' \in Seq32
  BY <1>2, <1>3, <1>4, AdmissionContiguous
<1>7. WrappingSub(WrappingAdd(snd_nxt, k), snd_una) \in Nat /\ cw \in Nat /\ 0 \in Nat
  <2>1. WrappingSub(WrappingAdd(snd_nxt, k), snd_una) \in Seq32
    BY <1>1, <1>2, <1>6, WrapType
  <2> QED
    BY <1>1, <2>1, HalfAssumption DEF Seq32, M
<1>8. CASE full
  <2>1. PICK cur \in Readings(n), stop \in 1..(n + 1) :
          LET sent == SendSet(buf, Skipped(buf, k), k, cur, stop)
              new  == Scanned(buf, sent, k, cur)
          IN  /\ snd_buf' = new
              /\ scan' \in Summary(new, Skipped(buf, k), cur, stop)
              /\ now' = cur[n + 1]
              /\ cong' = Congestion(c0, buf, sent, k, cw,
                            WrappingSub(WrappingAdd(snd_nxt, k), snd_una))
    BY <1>2, <1>8
  <2>2. stop \in Nat
    BY <1>1, <1>3
  <2>3. /\ snd_buf' \in Seq(Segment) /\ Len(snd_buf') = n
        /\ \A i \in 1..n : snd_buf'[i].sn = buf[i].sn
        /\ scan' \in Scan
        /\ \A i \in 1..(Len(snd_buf') - scan'.unsent) :
             \/ snd_buf'[i].acked
             \/ /\ scan'.due # "unknown" =>
                     /\ snd_buf'[i].xmit # 0
                     /\ scan'.due = "notbefore" /\ snd_buf'[i].resendts >= scan'.at
                /\ scan'.no_fastack => snd_buf'[i].fastack \in {0, FastackMax}
    BY <1>3, <1>4, <2>1, <2>2, ScanStep
  <2>4. now' \in Nat
    BY <1>1, <1>3, <2>1, BoundsAssumption, SMTT(60) DEF Readings
  <2>5. cong' \in CongType
    BY <1>1, <1>7, <2>1, CongestionType
  <2>6. SndBufContiguous' /\ FlightBounded'
    BY <1>4, <1>6, <2>3 DEF SndBufContiguous, FlightBounded
  <2>7. ScanSound'
    BY <2>3 DEF ScanSound
  <2> QED
    BY <1>3, <1>5, <1>6, <2>3, <2>4, <2>5, <2>6, <2>7
<1>9. CASE ~full
  <2>1. /\ snd_buf' = buf /\ scan' = [scan EXCEPT !.unsent = @ + k] /\ now' = now
        /\ cong' = Congestion(c0, buf, {}, k, cw, 0)
    BY <1>2, <1>9
  <2>2. cong' \in CongType
    BY <1>1, <1>7, <2>1, CongestionType
  <2>3. /\ scan' \in Scan /\ scan'.unsent = scan.unsent + k
        /\ scan'.due = scan.due /\ scan'.at = scan.at /\ scan'.no_fastack = scan.no_fastack
    BY <1>1, <1>3, <2>1 DEF Scan
  <2>4. SndBufContiguous' /\ FlightBounded'
    BY <1>4, <1>6, <2>1 DEF SndBufContiguous, FlightBounded
  <2>5. \A i \in 1..(n - (scan.unsent + k)) :
          i \in 1..Len(snd_buf) /\ i \in 1..(Len(snd_buf) - scan.unsent)
    BY <1>1, <1>3 DEF Scan
  <2>6. ScanSound'
    BY <1>6, <2>1, <2>3, <2>5 DEF ScanSound, IInv
  <2> QED
    BY <1>1, <1>3, <1>5, <1>6, <2>1, <2>2, <2>3, <2>4, <2>6
<1> QED
  BY <1>8, <1>9

(* Dropping the first c segments of snd_buf moves snd_una c numbers on. *)
LEMMA ShrinkStep ==
    ASSUME IInv, NEW c \in 0..Len(snd_buf)
    PROVE  LET una1 == shrink_buf(SubSeq(snd_buf, c + 1, Len(snd_buf)))
           IN  una1 = WrappingAdd(snd_una, c) /\ una1 \in Seq32
<1> DEFINE n == Len(snd_buf)
           rest == SubSeq(snd_buf, c + 1, Len(snd_buf))
           una1 == shrink_buf(rest)
<1>1. /\ n \in 0..(Half - 1) /\ snd_una \in Seq32 /\ snd_nxt \in Seq32
      /\ snd_buf \in Seq(Segment) /\ c \in 0..n
  BY HalfAssumption DEF IInv, TypeOK, FlightBounded
<1>2. /\ rest \in Seq(Segment) /\ Len(rest) = n - c
      /\ \A i \in 1..(n - c) : rest[i] = snd_buf[c + i] /\ rest[i] \in Segment
  BY <1>1, Suffix
<1>3. CASE rest = <<>>
  <2>1. una1 = snd_nxt
    BY <1>3 DEF shrink_buf
  <2>2. c = n
    <3> HIDE DEF rest
    <3>1. rest \in Seq(Segment) /\ rest = <<>> => Len(rest) = 0
      OBVIOUS
    <3> QED
      BY <1>1, <1>2, <1>3, <3>1
  <2> QED
    BY <1>1, <2>1, <2>2 DEF IInv, SndBufContiguous
<1>4. CASE rest # <<>>
  <2>1. 1 \in 1..(n - c) /\ c + 1 \in 1..n /\ (c + 1) - 1 = c
    BY <1>1, <1>2, <1>4
  <2>2. una1 = snd_buf[c + 1].sn /\ snd_buf[c + 1] \in Segment
    BY <1>1, <1>2, <1>4, <2>1 DEF shrink_buf
  <2> QED
    BY <2>1, <2>2 DEF IInv, SndBufContiguous, Segment
<1> QED
  BY <1>3, <1>4

(* The una a peer claims moves snd_una only over what snd_buf holds.       *)
LEMMA UnaStep ==
    ASSUME IInv, Input
    PROVE  \E c \in 0..(Half - 1) : snd_una' = WrappingAdd(snd_una, c)
<1>1. \E c \in 0..Len(snd_buf) :
        snd_una' = shrink_buf(SubSeq(snd_buf, c + 1, Len(snd_buf)))
  <2>1. PICK cmd, regular, w, una, sn, ts : InputSegment(cmd, regular, w, una, sn, ts)
    BY DEF Input
  <2> QED
    BY <2>1 DEF InputSegment
<1>2. 0..Len(snd_buf) \subseteq 0..(Half - 1)
  BY HalfAssumption DEF IInv, TypeOK, FlightBounded
<1> QED
  BY <1>1, <1>2, ShrinkStep

(* One segment of a packet preserves the invariant, whatever it says. *)
LEMMA InputStep ==
    ASSUME IInv, NEW cmd, NEW regular \in BOOLEAN, NEW w \in 0..(Half - 1),
           NEW una \in Seq32, NEW sn \in Seq32, NEW ts \in Int,
           InputSegment(cmd, regular, w, una, sn, ts)
    PROVE  IInv'
<1>1. PICK c \in 0..Len(snd_buf) :
         LET rest == SubSeq(snd_buf, c + 1, Len(snd_buf))
             una1 == shrink_buf(rest)
             marked == parse_ack(rest, una1, sn)
             bumps == IF cmd = "ack" THEN Bumps(marked, una1, sn, ts) ELSE {}
             buf1 == IF cmd = "ack" THEN parse_fastack(marked, una1, sn, ts) ELSE rest
         IN  /\ snd_buf' = buf1
             /\ snd_una' = una1
             /\ scan' = [scan EXCEPT
                   !.unsent = IF @ <= Len(rest) THEN @ ELSE Len(rest),
                   !.no_fastack = @ /\ \A i \in bumps : marked[i].acked]
             /\ inp' = [regular |-> regular,
                        moved |-> inp.moved \/ itimediff(una1, snd_una) > 0,
                        rtt |-> inp.rtt \/ (cmd = "ack" /\ regular),
                        flush |-> inp.flush \/ c > 0
                                    \/ \E i \in bumps : buf1[i].fastack >= opt.fastresend]
  BY DEF InputSegment
<1> DEFINE n == Len(snd_buf)
           rest == SubSeq(snd_buf, c + 1, Len(snd_buf))
           una1 == shrink_buf(rest)
           marked == parse_ack(rest, una1, sn)
           bumps == IF cmd = "ack" THEN Bumps(marked, una1, sn, ts) ELSE {}
<1>2. /\ TypeOK /\ n \in 0..(Half - 1) /\ snd_una \in Seq32 /\ snd_nxt \in Seq32
      /\ snd_buf \in Seq(Segment) /\ scan \in Scan /\ c \in 0..n
  BY HalfAssumption DEF IInv, TypeOK, FlightBounded
<1>3. /\ rest \in Seq(Segment) /\ Len(rest) = n - c
      /\ \A i \in 1..(n - c) : rest[i] = snd_buf[c + i] /\ rest[i] \in Segment
  BY <1>2, Suffix
<1>4. una1 = WrappingAdd(snd_una, c) /\ una1 \in Seq32
  BY ShrinkStep
<1> HIDE DEF rest, una1
<1>5. /\ marked \in Seq(Segment) /\ Len(marked) = n - c
      /\ \A i \in 1..(n - c) : marked[i] \in {rest[i], Marked(rest[i])}
  BY <1>3, <1>4, AckEffect
<1> HIDE DEF marked
<1>6. /\ parse_fastack(marked, una1, sn, ts) \in Seq(Segment)
      /\ Len(parse_fastack(marked, una1, sn, ts)) = n - c
      /\ \A i \in 1..(n - c) : parse_fastack(marked, una1, sn, ts)[i] =
            IF i \in Bumps(marked, una1, sn, ts) THEN bump_fastack(marked[i]) ELSE marked[i]
      /\ \A i \in bumps : i \in 1..(n - c) /\ marked[i].fastack # FastackMax
  <2>1. \A i \in bumps : i \in 1..(n - c) /\ marked[i].fastack # FastackMax
    BY <1>5 DEF Bumps, Before
  <2> QED
    BY <1>4, <1>5, <2>1, FastackEffect, SMTT(60)
<1>7. /\ snd_buf' \in Seq(Segment) /\ Len(snd_buf') = n - c /\ snd_una' = una1
  BY <1>1, <1>3, <1>6 DEF rest, una1, marked
<1>8. ASSUME NEW i \in 1..(n - c)
      PROVE  /\ snd_buf'[i].sn = rest[i].sn
             /\ snd_buf'[i].xmit = rest[i].xmit
             /\ snd_buf'[i].resendts = rest[i].resendts
             /\ rest[i].acked => snd_buf'[i].acked
             /\ i \notin bumps => snd_buf'[i].fastack = rest[i].fastack
             /\ i \in bumps /\ marked[i].acked => snd_buf'[i].acked
  <2>1. /\ marked[i] \in Segment /\ rest[i] \in Segment
        /\ marked[i].sn = rest[i].sn /\ marked[i].xmit = rest[i].xmit
        /\ marked[i].resendts = rest[i].resendts /\ marked[i].fastack = rest[i].fastack
        /\ rest[i].acked => marked[i].acked
    BY <1>3, <1>5, MarkedProperties
  <2>2. CASE cmd = "ack"
    <3>1. snd_buf'[i] = IF i \in bumps THEN bump_fastack(marked[i]) ELSE marked[i]
      BY <1>1, <1>6, <2>2 DEF rest, una1, marked
    <3> QED
      BY <1>6, <2>1, <3>1, BumpProperties
  <2>3. CASE cmd # "ack"
    <3>1. snd_buf'[i] = rest[i] /\ i \notin bumps
      BY <1>1, <2>3 DEF rest
    <3> QED
      BY <3>1
  <2> QED
    BY <2>2, <2>3
<1>9. SndBufContiguous' /\ FlightBounded'
  <2>1. ASSUME NEW i \in 1..(n - c)
        PROVE  snd_buf'[i].sn = WrappingAdd(una1, i - 1)
    <3>1. /\ c + i \in 1..n /\ (c + i) - 1 = c + (i - 1)
          /\ c \in Nat /\ i - 1 \in Nat /\ c + (i - 1) < M
      BY <1>2, HalfAssumption DEF M
    <3>2. snd_buf'[i].sn = WrappingAdd(snd_una, c + (i - 1))
      BY <1>3, <1>8, <3>1 DEF IInv, SndBufContiguous
    <3> QED
      BY <1>2, <1>4, <3>1, <3>2, WrapAssoc
  <2>2. snd_nxt' = WrappingAdd(una1, n - c)
    <3>1. c \in Nat /\ n - c \in Nat /\ c + (n - c) < M /\ c + (n - c) = n
      BY <1>2, HalfAssumption DEF M
    <3>2. snd_nxt' = WrappingAdd(snd_una, n)
      BY DEF IInv, SndBufContiguous, InputSegment
    <3> QED
      BY <1>2, <1>4, <3>1, <3>2, WrapAssoc
  <2> QED
    BY <1>2, <1>7, <2>1, <2>2, HalfAssumption DEF SndBufContiguous, FlightBounded
<1>10. /\ scan' \in Scan
       /\ scan'.due = scan.due /\ scan'.at = scan.at
       /\ scan'.unsent = IF scan.unsent <= n - c THEN scan.unsent ELSE n - c
       /\ scan'.no_fastack => scan.no_fastack /\ \A i \in bumps : marked[i].acked
  <2> DEFINE u == IF scan.unsent <= n - c THEN scan.unsent ELSE n - c
             f == scan.no_fastack /\ \A i \in bumps : marked[i].acked
  <2>1. u \in Nat /\ f \in BOOLEAN
    BY <1>2 DEF Scan
  <2>2. scan' = [scan EXCEPT !.unsent = u, !.no_fastack = f]
    BY <1>1, <1>3 DEF rest, una1, marked
  <2> HIDE DEF u, f
  <2>3. /\ scan' \in Scan /\ scan'.due = scan.due /\ scan'.at = scan.at
        /\ scan'.unsent = u /\ scan'.no_fastack = f
    BY <1>2, <2>1, <2>2 DEF Scan
  <2> QED
    BY <2>3 DEF u, f
<1>11. ScanSound'
  <2> SUFFICES ASSUME NEW i \in 1..(n - c - scan'.unsent)
               PROVE  \/ snd_buf'[i].acked
                      \/ /\ scan'.due # "unknown" =>
                              /\ snd_buf'[i].xmit # 0
                              /\ scan'.due = "notbefore" /\ snd_buf'[i].resendts >= scan'.at
                         /\ scan'.no_fastack => snd_buf'[i].fastack \in {0, FastackMax}
    BY <1>7 DEF ScanSound
  <2>1. i \in 1..(n - c) /\ c + i \in 1..(n - scan.unsent)
    BY <1>2, <1>10 DEF Scan
  <2>2. \/ rest[i].acked
        \/ /\ scan.due # "unknown" =>
                /\ rest[i].xmit # 0
                /\ scan.due = "notbefore" /\ rest[i].resendts >= scan.at
           /\ scan.no_fastack => rest[i].fastack \in {0, FastackMax}
    BY <1>3, <2>1 DEF IInv, ScanSound
  <2> QED
    BY <1>8, <1>10, <2>1, <2>2
<1>12. TypeOK'
  <2>1. inp' \in [moved: BOOLEAN, flush: BOOLEAN, rtt: BOOLEAN, regular: BOOLEAN]
    BY <1>1, <1>2 DEF TypeOK
  <2>2. wnd' \in [snd: SndWnds, rmt: 0..(Half - 1)]
    BY <1>2 DEF TypeOK, InputSegment
  <2> QED
    BY <1>2, <1>4, <1>7, <1>10, <2>1, <2>2 DEF TypeOK, InputSegment
<1> QED
  BY <1>9, <1>11, <1>12 DEF IInv

-----------------------------------------------------------------------------
(* The inductive invariant.                                                *)

(* A new endpoint satisfies the invariant.                                 *)
LEMMA InitInvariant == Init => IInv
<1> SUFFICES ASSUME Init PROVE IInv
  OBVIOUS
<1>1. TypeOK
  <2>1. wnd \in [snd: SndWnds, rmt: 0..(Half - 1)]
    BY WndAssumption DEF Init
  <2>2. /\ cong \in [cwnd: Nat, ssthresh: Nat, incr: Nat] /\ prb \in [wait: Nat, ts: Nat, ask: BOOLEAN]
        /\ scan \in Scan
        /\ inp \in [moved: BOOLEAN, flush: BOOLEAN, rtt: BOOLEAN, regular: BOOLEAN]
    BY CongestionAssumption DEF Init, Scan, NoInput
  <2>3. snd_buf \in Seq(Segment)
    BY DEF Init
  <2> QED
    BY <2>1, <2>2, <2>3, InitSnAssumption DEF Init, TypeOK
<1>2. snd_buf = <<>> /\ Len(snd_buf) = 0 /\ scan.unsent = 0
  BY DEF Init
<1>3. SndBufContiguous
  BY <1>2, InitSnAssumption, HalfAssumption DEF Init, SndBufContiguous, WrappingAdd, Seq32, M
<1>4. FlightBounded
  BY <1>2, HalfAssumption DEF FlightBounded
<1>5. ScanSound
  BY <1>2 DEF ScanSound
<1> QED
  BY <1>1, <1>3, <1>4, <1>5 DEF IInv

(* Every handler preserves it.                                             *)
LEMMA NextInvariant == IInv /\ [Next]_vars => IInv'
<1> SUFFICES ASSUME IInv, [Next]_vars PROVE IInv'
  OBVIOUS
<1>1. TypeOK /\ cong \in CongType /\ inp.flush \in BOOLEAN
  BY DEF IInv, TypeOK, CongType
<1> USE DEF CongType, ProbeType
<1>2. CASE Input
  <2>1. PICK regular \in Regular, w \in RmtWnds, una \in Seq32 :
          \/ InputSegment("other", regular, w, una, una, now)
          \/ \E sn \in Seq32, ts \in {-1} \cup {snd_buf[i].ts : i \in 1..Len(snd_buf)} :
                InputSegment("ack", regular, w, una, sn, ts)
    BY <1>2 DEF Input
  <2>2. regular \in BOOLEAN /\ w \in 0..(Half - 1) /\ now \in Int
    BY <1>1, RegularAssumption, WndAssumption DEF TypeOK
  <2>3. \A ts \in {-1} \cup {snd_buf[i].ts : i \in 1..Len(snd_buf)} : ts \in Int
    BY <1>1 DEF TypeOK, Segment
  <2> QED
    BY <2>1, <2>2, <2>3, InputStep
<1>3. CASE InputEnd
  <2>1. Grow(cong) \in CongType
    BY <1>1, GrowType
  <2>2. rx_rto' \in RtoValues /\ inp' = NoInput /\ pc' = "idle"
    BY <1>1, <1>3 DEF InputEnd, TypeOK
  <2>3. CASE FlushWith(inp.flush, Grow(cong))
    <3>1. snd_una' = snd_una /\ wnd' = wnd /\ opt' = opt
      BY <1>3 DEF InputEnd
    <3>2. /\ now' \in Nat /\ snd_queue' \in Nat /\ snd_nxt' \in Seq32
          /\ snd_buf' \in Seq(Segment) /\ scan' \in Scan
          /\ cong' \in CongType /\ prb' \in ProbeType
          /\ SndBufContiguous' /\ FlightBounded' /\ ScanSound'
      BY <1>1, <2>1, <2>3, <3>1, FlushStep
    <3>3. TypeOK'
      BY <1>1, <2>2, <3>1, <3>2 DEF TypeOK, NoInput
    <3> QED
      BY <3>2, <3>3 DEF IInv
  <2>4. CASE /\ cong' = Grow(cong)
             /\ UNCHANGED <<now, snd_queue, snd_buf, snd_nxt, prb, scan>>
    <3>1. UNCHANGED <<snd_una, wnd, opt>>
      BY <1>3 DEF InputEnd
    <3>2. TypeOK'
      BY <1>1, <2>1, <2>2, <2>4, <3>1 DEF TypeOK, NoInput
    <3> QED
      BY <2>4, <3>1, <3>2 DEF IInv, SndBufContiguous, FlightBounded, ScanSound
  <2> QED
    BY <1>3, <2>3, <2>4 DEF InputEnd
<1>4. CASE Flush
  <2>1. snd_una' = snd_una /\ UNCHANGED <<pc, wnd, opt, rx_rto, inp>>
    BY <1>4 DEF Flush
  <2>2. /\ now' \in Nat /\ snd_queue' \in Nat /\ snd_nxt' \in Seq32
        /\ snd_buf' \in Seq(Segment) /\ scan' \in Scan
        /\ cong' \in CongType /\ prb' \in ProbeType
        /\ SndBufContiguous' /\ FlightBounded' /\ ScanSound'
    BY <1>1, <1>4, <2>1, FlushStep DEF Flush
  <2>3. TypeOK'
    BY <1>1, <2>1, <2>2 DEF TypeOK
  <2> QED
    BY <2>2, <2>3 DEF IInv
<1>5. CASE InputReject
  BY <1>5 DEF InputReject, IInv, TypeOK, NoInput, SndBufContiguous, FlightBounded, ScanSound
<1>6. CASE Send
  BY <1>6, BoundsAssumption
     DEF Send, IInv, TypeOK, SndBufContiguous, FlightBounded, ScanSound
<1>7. CASE WndSize
  <2>1. PICK w \in SndWnds : wnd' = [wnd EXCEPT !.snd = w]
    BY <1>7 DEF WndSize
  <2>2. wnd' \in [snd: SndWnds, rmt: 0..(Half - 1)]
    BY <1>1, <2>1 DEF TypeOK
  <2> QED
    BY <1>7, <2>2 DEF WndSize, IInv, TypeOK, SndBufContiguous, FlightBounded, ScanSound
<1>8. CASE Nodelay
  BY <1>8 DEF Nodelay, IInv, TypeOK, SndBufContiguous, FlightBounded, ScanSound
<1>9. CASE Tick
  BY <1>9 DEF Tick, IInv, TypeOK, SndBufContiguous, FlightBounded, ScanSound
<1>10. CASE UNCHANGED vars
  BY <1>10 DEF vars, IInv, TypeOK, SndBufContiguous, FlightBounded, ScanSound
<1> QED
  BY <1>2, <1>3, <1>4, <1>5, <1>6, <1>7, <1>8, <1>9, <1>10 DEF Next

(* IInv is an invariant of every execution. *)
THEOREM Invariance == Spec => []IInv
BY InitInvariant, NextInvariant, PTL DEF Spec

-----------------------------------------------------------------------------
(* What the invariant says about the code.                                 *)

(* Every variable keeps its type: in particular every sequence number is a *)
(* u32 and the congestion window arithmetic never goes below zero.         *)
THEOREM TypeCorrect == Spec => []TypeOK
BY Invariance, PTL DEF IInv

(* snd_buf is contiguous from snd_una to snd_nxt, and the flight stays     *)
(* below 2^31 segments, so that the comparisons of _itimediff are exact.   *)
THEOREM Contiguity == Spec => [](SndBufContiguous /\ FlightBounded)
BY Invariance, PTL DEF IInv

(* In a contiguous buffer the ring offset and the linear scan both find the *)
(* segment, at its distance from una.                                      *)
LEMMA ContiguousIndex ==
    ASSUME NEW buf \in Seq(Segment), Len(buf) < Half, NEW una \in Seq32, NEW sn \in Seq32,
           \A i \in 1..Len(buf) : buf[i].sn = WrappingAdd(una, i - 1),
           snd_nxt = WrappingAdd(una, Len(buf)), InFlight(una, sn)
    PROVE  \E p \in 1..Len(buf) : /\ snd_buf_offset(buf, una, sn) = {p}
                                  /\ scan_for_sn(buf, sn) = {p}
                                  /\ sn = WrappingAdd(una, p - 1)
<1> DEFINE n == Len(buf)
           d == WrappingSub(sn, una)
<1>1. n \in 0..(Half - 1)
  BY HalfAssumption
<1>2. d \in 0..(n - 1) /\ sn = WrappingAdd(una, d)
  <2>1. d \in 0..(Half - 1) /\ sn = WrappingAdd(una, d)
    BY <1>1, HalfAssumption DEF InFlight, itimediff, WrappingSub, WrappingAdd, Seq32, M
  <2>2. itimediff(sn, snd_nxt) = d - n
    BY <1>1, <2>1, WrapDiff
  <2> QED
    BY <1>1, <2>1, <2>2 DEF InFlight
<1> HIDE DEF d
<1>3. d + 1 \in 1..n /\ (d + 1) - 1 = d /\ d \in 0..(Half - 1)
  BY <1>1, <1>2, HalfAssumption
<1>4. ASSUME NEW i \in 1..n
      PROVE  /\ buf[i].sn = sn <=> i = d + 1
             /\ i < d + 1 => itimediff(sn, buf[i].sn) >= 0
  <2>1. i - 1 \in 0..(Half - 1) /\ buf[i].sn = WrappingAdd(una, i - 1)
    BY <1>1, HalfAssumption
  <2>2. /\ itimediff(sn, buf[i].sn) = d - (i - 1)
        /\ sn = buf[i].sn => d = i - 1
    BY <1>1, <1>2, <1>3, <2>1, WrapDiff
  <2> QED
    BY <1>2, <1>3, <2>1, <2>2
<1>5. snd_buf_offset(buf, una, sn) = {d + 1}
  BY <1>1, <1>3, <1>4 DEF snd_buf_offset, d
<1>6. scan_for_sn(buf, sn) = {d + 1}
  <2>1. \A j \in 1..((d + 1) - 1) : j \in 1..n /\ j < d + 1 /\ j # d + 1
    BY <1>1, <1>2
  <2>2. \A i \in 1..n : i \in scan_for_sn(buf, sn) <=> i = d + 1
    BY <1>3, <1>4, <2>1 DEF scan_for_sn
  <2> QED
    BY <1>3, <2>2 DEF scan_for_sn
<1> QED
  BY <1>2, <1>3, <1>5, <1>6

(* The invariant says that snd_buf is such a buffer.                       *)
LEMMA IndexFromInvariant == IInv => AckIndexNeverMisses
<1> SUFFICES ASSUME IInv, NEW sn \in Seq32, InFlight(snd_una, sn)
             PROVE  /\ snd_buf_offset(snd_buf, snd_una, sn) # {}
                    /\ snd_buf_offset(snd_buf, snd_una, sn) = scan_for_sn(snd_buf, sn)
  BY DEF AckIndexNeverMisses
<1>1. /\ snd_una \in Seq32 /\ snd_buf \in Seq(Segment) /\ Len(snd_buf) < Half
      /\ snd_nxt = WrappingAdd(snd_una, Len(snd_buf))
      /\ \A i \in 1..Len(snd_buf) : snd_buf[i].sn = WrappingAdd(snd_una, i - 1)
  BY DEF IInv, TypeOK, FlightBounded, SndBufContiguous
<1>2. \E p \in 1..Len(snd_buf) : /\ snd_buf_offset(snd_buf, snd_una, sn) = {p}
                                 /\ scan_for_sn(snd_buf, sn) = {p}
                                 /\ sn = WrappingAdd(snd_una, p - 1)
  BY <1>1, ContiguousIndex, Zenon
<1> QED
  BY <1>2

(* D31: the ring offset always finds the acknowledged segment, where the   *)
(* linear scan would: the fallback and the debug_assert of parse_ack() and *)
(* parse_fastack() are never reached by anything a peer can send.          *)
THEOREM AckIndexCorrect == Spec => []AckIndexNeverMisses
BY Invariance, IndexFromInvariant, PTL

(* What a sound summary lets flush() skip needs no scan.                   *)
LEMMA SkipFromInvariant == IInv => SkipIsNoOp
<1> SUFFICES ASSUME IInv, can_skip, NEW i \in 1..(Len(snd_buf) - scan.unsent),
                    ~snd_buf[i].acked
             PROVE  /\ ~WouldSend(snd_buf[i], 0, now)
                    /\ snd_buf[i].resendts - now >= opt.interval
  BY DEF SkipIsNoOp
<1>1. /\ scan \in Scan /\ now \in Nat /\ opt.interval \in Nat /\ opt.fastresend \in Nat
      /\ snd_buf[i] \in Segment
  BY OptionsAssumption DEF IInv, TypeOK, OptionType, Scan
<1>2. /\ snd_buf[i].xmit # 0 /\ snd_buf[i].fastack \in {0, FastackMax}
      /\ scan.due = "notbefore" /\ snd_buf[i].resendts >= scan.at
  BY DEF IInv, ScanSound, can_skip
<1>3. scan.at - now > 0 /\ scan.at - now >= opt.interval
  BY <1>2 DEF can_skip
<1>4. snd_buf[i].resendts \in Int /\ scan.at \in Int
  BY <1>1 DEF Segment, Scan
<1> QED
  BY <1>1, <1>2, <1>3, <1>4 DEF WouldSend, Fast, Early

(* D29: a full flush that skips the head of snd_buf does what one that     *)
(* scans it would do, for any clock drift during a scan, any point where   *)
(* the transmit queue runs full, any options and any acknowledgements.     *)
THEOREM SkipCorrect == Spec => []SkipIsNoOp
BY Invariance, SkipFromInvariant, PTL

(* What the peer claims in una never moves snd_una back, nor past snd_nxt. *)
THEOREM AckMonotone == Spec => UnaAdvances
<1>1. ASSUME IInv, IInv', [Next]_vars
      PROVE  [/\ itimediff(snd_una', snd_una) >= 0
              /\ itimediff(snd_nxt', snd_una') >= 0]_vars
  <2>1. /\ snd_una \in Seq32 /\ snd_una' \in Seq32 /\ Len(snd_buf) \in 0..(Half - 1)
        /\ Len(snd_buf') \in 0..(Half - 1)
        /\ snd_nxt' = WrappingAdd(snd_una', Len(snd_buf'))
    BY <1>1, HalfAssumption, SMTT(60) DEF IInv, TypeOK, FlightBounded, SndBufContiguous
  <2>2. itimediff(snd_nxt', snd_una') >= 0
    BY <2>1, WrapForward
  <2>3. snd_una' = snd_una \/ \E c \in 0..(Half - 1) : snd_una' = WrappingAdd(snd_una, c)
    <3>1. CASE Input
      BY <1>1, <3>1, UnaStep
    <3>2. CASE ~Input
      BY <1>1, <3>2 DEF Next, InputEnd, InputReject, Send, Flush, WndSize, Nodelay, Tick, vars
    <3> QED
      BY <3>1, <3>2
  <2>4. itimediff(snd_una', snd_una) >= 0
    BY <2>1, <2>3, WrapForward
  <2> QED
    BY <2>2, <2>4
<1> QED
  BY <1>1, Invariance, PTL DEF Spec, UnaAdvances

-----------------------------------------------------------------------------
(* The congestion window.                                                  *)

(* Every flush() leaves a congestion window of at least one segment.       *)
LEMMA CongestionFloor ==
    ASSUME TypeOK, ~opt.nocwnd, NEW c0 \in CongType, NEW buf, NEW sent, NEW k,
           NEW cw \in Nat, NEW inflight \in Nat
    PROVE  Congestion(c0, buf, sent, k, cw, inflight).cwnd >= 1
<1> DEFINE c == Congestion(c0, buf, sent, k, cw, inflight)
<1>1. c \in CongType
  BY CongestionType
<1>2. c.cwnd = 1 \/ ~(c.cwnd < 1)
  BY DEF Congestion, CongType
<1> SUFFICES c.cwnd >= 1
  OBVIOUS
<1> HIDE DEF c
<1> QED
  BY <1>1, <1>2 DEF CongType

(* So it is in the successor state of a flush, full or ack-only.           *)
LEMMA FlushFloor ==
    ASSUME IInv, ~opt.nocwnd, NEW full, NEW c0 \in CongType, FlushWith(full, c0)
    PROVE  cong'.cwnd >= 1
<1>1. Window(wnd, opt.nocwnd, c0.cwnd) \in Nat
  BY WindowType, HalfAssumption DEF IInv
<1>2. \E buf, sent, k, inflight :
        /\ inflight \in Nat
        /\ cong' = Congestion(c0, buf, sent, k, Window(wnd, opt.nocwnd, c0.cwnd), inflight)
  <2>1. \A k \in Nat : WrappingSub(WrappingAdd(snd_nxt, k), snd_una) \in Nat
    BY HalfAssumption DEF IInv, TypeOK, Seq32, M, WrappingAdd, WrappingSub
  <2>2. snd_queue \in Nat
    BY DEF IInv, TypeOK
  <2> QED
    BY <2>1, <2>2 DEF FlushWith
<1> QED
  BY <1>1, <1>2, CongestionFloor DEF IInv

(* Growth does not close an open window, whatever the peer advertises.     *)
LEMMA GrowFloor ==
    ASSUME TypeOK, NEW c \in CongType, c.cwnd >= 1
    PROVE  Grow(c).cwnd >= 1
<1>1. Grow(c) \in CongType /\ c.cwnd \in Nat /\ wnd.rmt \in Nat
  BY GrowType, HalfAssumption DEF TypeOK, CongType
<1>2. SlowStart(c).cwnd >= 1
  BY <1>1 DEF SlowStart
<1>3. Avoidance(c).cwnd >= 1
  <2> DEFINE base == IF c.incr < Mss THEN Mss ELSE c.incr
             incr == base + (Mss * Mss) \div base + Mss \div 16
  <2>1. Mss \in Nat /\ Mss > 0 /\ base \in Nat /\ base >= Mss
    BY CongestionAssumption DEF CongType
  <2>2. (Mss * Mss) \div base \in Nat /\ Mss \div 16 \in Nat
    BY <2>1
  <2>3. incr \in Nat /\ incr >= Mss
    BY <2>1, <2>2
  <2> HIDE DEF base, incr
  <2>4. (incr + Mss - 1) \div Mss >= 1
    BY <2>1, <2>3
  <2>5. Avoidance(c).cwnd \in {(incr + Mss - 1) \div Mss, c.cwnd}
    BY DEF Avoidance, incr, base
  <2> QED
    BY <1>1, <2>4, <2>5
<1> QED
  BY <1>1, <1>2, <1>3 DEF Grow, CongType

(* A segment of a packet assigns no number and leaves congestion alone.    *)
LEMMA InputKeeps ==
    ASSUME Input
    PROVE  snd_nxt' = snd_nxt /\ cong' = cong
<1>1. PICK cmd, regular, w, una, sn, ts : InputSegment(cmd, regular, w, una, sn, ts)
  BY Zenon DEF Input
<1> QED
  BY <1>1, Zenon DEF InputSegment

(* A packet brings no segment into snd_buf.                                *)
LEMMA InputBringsNone ==
    ASSUME IInv, Input, snd_buf = <<>>
    PROVE  snd_buf' = <<>>
<1>1. IInv'
  BY NextInvariant DEF Next
<1>2. PICK c \in 0..(Half - 1) : snd_una' = WrappingAdd(snd_una, c) /\ c = 0
  <2>1. PICK cmd, regular, w, una, sn, ts : InputSegment(cmd, regular, w, una, sn, ts)
    BY DEF Input
  <2>2. PICK c \in 0..Len(snd_buf) :
          snd_una' = shrink_buf(SubSeq(snd_buf, c + 1, Len(snd_buf)))
    BY <2>1 DEF InputSegment
  <2>3. c = 0
    BY <2>2
  <2> QED
    BY <2>2, <2>3, ShrinkStep, HalfAssumption
<1>3. snd_nxt' = snd_nxt
  BY InputKeeps
<1>4. snd_nxt = WrappingAdd(snd_una, 0) /\ snd_una \in Seq32
  BY DEF IInv, SndBufContiguous, TypeOK
<1>5. snd_una' = snd_nxt /\ snd_una' \in Seq32 /\ snd_una' = WrappingAdd(snd_una', 0)
  BY <1>2, <1>4, HalfAssumption DEF WrappingAdd, Seq32, M
<1>6. /\ snd_buf' \in Seq(Segment) /\ Len(snd_buf') \in 0..(Half - 1)
      /\ snd_nxt' = WrappingAdd(snd_una', Len(snd_buf'))
  BY <1>1, HalfAssumption, SMTT(60) DEF IInv, TypeOK, SndBufContiguous, FlightBounded
<1>7. Len(snd_buf') = 0
  <2>1. \A a \in Seq32, i \in 0..(Half - 1) : WrappingAdd(a, i) = WrappingAdd(a, 0) => i = 0
    BY WrapDiff, HalfAssumption
  <2>2. WrappingAdd(snd_una', Len(snd_buf')) = WrappingAdd(snd_una', 0)
    BY <1>3, <1>5, <1>6, Zenon
  <2> QED
    BY <1>5, <1>6, <2>1, <2>2, Zenon
<1> QED
  BY <1>6, <1>7

(* With congestion control on, segments in flight never meet a closed      *)
(* congestion window, whatever windows the peer advertises, whether or not *)
(* FEC recovered the packets, and also where ssthresh + resent wraps       *)
(* (fastresend = 0).  With nodelay() allowed to switch congestion control  *)
(* on during a session this is false until the next flush.                 *)
THEOREM CongestionOpen ==
    ASSUME \A o \in Options : ~o.nocwnd
    PROVE  Spec => []CwndOpen
<1>1. IInv => ~opt.nocwnd /\ cong \in CongType
  BY DEF IInv, TypeOK, CongType
<1>2. Init => CwndOpen
  BY DEF Init, CwndOpen
<1>3. IInv /\ CwndOpen /\ [Next]_vars => CwndOpen'
  <2> SUFFICES ASSUME IInv, CwndOpen, [Next]_vars PROVE CwndOpen'
    OBVIOUS
  <2>1. CASE Input
    <3>1. cong' = cong
      BY <2>1, InputKeeps
    <3> QED
      BY <1>1, <2>1, <3>1, InputBringsNone DEF CwndOpen
  <2>2. CASE InputEnd
    <3>1. CASE FlushWith(inp.flush, Grow(cong))
      <4>1. Grow(cong) \in CongType
        BY <1>1, GrowType DEF IInv
      <4> QED
        BY <1>1, <3>1, <4>1, FlushFloor DEF CwndOpen
    <3>2. CASE cong' = Grow(cong) /\ snd_buf' = snd_buf
      BY <1>1, <3>2, GrowFloor DEF CwndOpen, IInv
    <3> QED
      BY <2>2, <3>1, <3>2 DEF InputEnd
  <2>3. CASE Flush
    BY <1>1, <2>3, FlushFloor DEF Flush, CwndOpen
  <2>4. CASE UNCHANGED <<snd_buf, cong>>
    BY <1>1, <2>4 DEF CwndOpen
  <2> QED
    BY <2>1, <2>2, <2>3, <2>4 DEF Next, InputReject, Send, WndSize, Nodelay, Tick, vars
<1> QED
  BY <1>2, <1>3, Invariance, PTL DEF Spec

-----------------------------------------------------------------------------
(* KcpSend implements ArqSender.                                           *)

(* The sequence arithmetic of the two modules is the same.                 *)
LEMMA SameArithmetic ==
    /\ \A a, n : Arq!WrappingAdd(a, n) = WrappingAdd(a, n)
    /\ \A a, b : Arq!WrappingSub(a, b) = WrappingSub(a, b)
    /\ \A a, b : Arq!itimediff(a, b) = itimediff(a, b)
    /\ Arq!Seq32 = Seq32
BY DEF Arq!WrappingAdd, Arq!WrappingSub, Arq!itimediff, Arq!Seq32, Arq!M,
       WrappingAdd, WrappingSub, itimediff, Seq32, M

(* The numbers of a window of m segments.                                  *)
LEMMA FlightNumbers ==
    ASSUME NEW a \in Seq32, NEW m \in 0..(Half - 1)
    PROVE  Arq!Flight(a, WrappingAdd(a, m)) = {WrappingAdd(a, j - 1) : j \in 1..m}
<1>1. WrappingSub(WrappingAdd(a, m), a) = m
  BY WrapCount
<1>2. ASSUME NEW sn \in Seq32
      PROVE  WrappingSub(sn, a) < m <=> \E j \in 1..m : sn = WrappingAdd(a, j - 1)
  <2>1. /\ WrappingSub(sn, a) \in Nat /\ sn = WrappingAdd(a, WrappingSub(sn, a))
    BY HalfAssumption DEF Seq32, M, WrappingAdd, WrappingSub
  <2>2. ASSUME WrappingSub(sn, a) < m
        PROVE  \E j \in 1..m : sn = WrappingAdd(a, j - 1)
    <3>1. WrappingSub(sn, a) + 1 \in 1..m /\ (WrappingSub(sn, a) + 1) - 1 = WrappingSub(sn, a)
      BY <2>1, <2>2
    <3> QED
      BY <2>1, <3>1
  <2>3. ASSUME NEW j \in 1..m, sn = WrappingAdd(a, j - 1)
        PROVE  WrappingSub(sn, a) < m
    BY <2>3, HalfAssumption DEF Seq32, M, WrappingAdd, WrappingSub
  <2> QED
    BY <2>2, <2>3
<1>3. \A j \in 1..m : WrappingAdd(a, j - 1) \in Seq32
  BY HalfAssumption DEF Seq32, M, WrappingAdd
<1>4. Arq!Flight(a, WrappingAdd(a, m)) = {sn \in Seq32 : WrappingSub(sn, a) < m}
  BY <1>1, SameArithmetic DEF Arq!Flight
<1> QED
  BY <1>2, <1>3, <1>4

(* In a contiguous buffer parse_ack() marks the segment that was named, if *)
(* it is in flight, and no other.                                          *)
LEMMA AckMarks ==
    ASSUME NEW buf \in Seq(Segment), Len(buf) < Half, NEW una \in Seq32, NEW sn \in Seq32,
           \A i \in 1..Len(buf) : buf[i].sn = WrappingAdd(una, i - 1),
           snd_nxt = WrappingAdd(una, Len(buf))
    PROVE  \A i \in 1..Len(buf) :
             /\ parse_ack(buf, una, sn)[i].sn = buf[i].sn
             /\ parse_ack(buf, una, sn)[i].acked <=>
                    buf[i].acked \/ (InFlight(una, sn) /\ buf[i].sn = sn)
<1> SUFFICES ASSUME NEW i \in 1..Len(buf)
             PROVE  /\ parse_ack(buf, una, sn)[i].sn = buf[i].sn
                    /\ parse_ack(buf, una, sn)[i].acked <=>
                         buf[i].acked \/ (InFlight(una, sn) /\ buf[i].sn = sn)
  OBVIOUS
<1>1. buf[i] \in Segment /\ Marked(buf[i]).sn = buf[i].sn /\ Marked(buf[i]).acked
  BY MarkedProperties
<1>2. CASE ~InFlight(una, sn)
  BY <1>2 DEF parse_ack
<1>3. CASE InFlight(una, sn)
  <2>1. PICK p \in 1..Len(buf) :
          snd_buf_offset(buf, una, sn) = {p} /\ sn = WrappingAdd(una, p - 1)
    BY <1>3, ContiguousIndex
  <2>2. buf[i].sn = sn <=> i = p
    <3>1. i - 1 \in 0..(Half - 1) /\ p - 1 \in 0..(Half - 1)
      BY HalfAssumption
    <3>2. buf[i].sn = sn => i - 1 = p - 1
      BY <2>1, <3>1, WrapDiff
    <3> QED
      BY <2>1, <3>1, <3>2
  <2>3. parse_ack(buf, una, sn)[i] = IF i = p THEN Marked(buf[i]) ELSE buf[i]
    BY <1>3, <2>1 DEF parse_ack
  <2> QED
    BY <1>1, <1>3, <2>2, <2>3
<1> QED
  BY <1>2, <1>3

(* The segments parse_una() drops are those ArqSender's window leaves      *)
(* behind.                                                                 *)
LEMMA UnaMoves ==
    ASSUME IInv, NEW una \in Seq32, NEW c, UnaPasses(una, c)
    PROVE  Arq!Advanced(una) = WrappingAdd(snd_una, c)
<1> DEFINE n == Len(snd_buf)
           d == WrappingSub(una, snd_una)
<1>1. /\ n \in 0..(Half - 1) /\ snd_una \in Seq32 /\ snd_nxt = WrappingAdd(snd_una, n)
      /\ \A i \in 1..n : snd_buf[i].sn = WrappingAdd(snd_una, i - 1)
  BY HalfAssumption DEF IInv, TypeOK, FlightBounded, SndBufContiguous
<1>2. c \in 0..n
  BY DEF UnaPasses
<1>3. c > 0 => itimediff(una, WrappingAdd(snd_una, 0)) > 0
  BY <1>1, <1>2 DEF UnaPasses
<1>4. WrappingAdd(snd_una, 0) = snd_una
  BY <1>1, HalfAssumption DEF WrappingAdd, Seq32, M
<1>5. CASE itimediff(una, snd_una) <= 0
  <2>1. c = 0
    <3>1. itimediff(una, snd_una) \in Int
      BY <1>1, WrapType
    <3> QED
      BY <1>2, <1>3, <1>4, <1>5, <3>1
  <2> QED
    BY <1>4, <1>5, <2>1, SameArithmetic DEF Arq!Advanced
<1>6. CASE ~(itimediff(una, snd_una) <= 0)
  <2>1. d \in 0..(Half - 1) /\ una = WrappingAdd(snd_una, d)
    BY <1>1, <1>6, HalfAssumption DEF Seq32, M, WrappingAdd, WrappingSub, itimediff
  <2> HIDE DEF d
  <2>2. \A j \in 0..(Half - 1) : itimediff(una, WrappingAdd(snd_una, j)) = d - j
    BY <1>1, <2>1, WrapDiff
  <2>3. c > 0 => d >= c
    <3>1. ASSUME c > 0 PROVE d - (c - 1) > 0
      <4>1. c \in 1..c /\ c \in 1..n /\ c - 1 \in 0..(Half - 1)
        BY <1>1, <1>2, <3>1, HalfAssumption
      <4> QED
        BY <1>1, <2>2, <4>1 DEF UnaPasses
    <3> QED
      BY <1>1, <1>2, <2>1, <3>1
  <2>4. c < n => d <= c
    <3>1. ASSUME c < n PROVE ~(d - c > 0)
      <4>1. c + 1 \in 1..n /\ (c + 1) - 1 = c /\ c \in 0..(Half - 1)
        BY <1>1, <1>2, <3>1, HalfAssumption
      <4> QED
        BY <1>1, <2>2, <3>1, <4>1 DEF UnaPasses
    <3> QED
      BY <1>1, <1>2, <2>1, <3>1
  <2>5. itimediff(una, snd_nxt) = d - n
    BY <1>1, <2>2
  <2>6. CASE d - n > 0
    <3>1. c = n
      BY <1>1, <1>2, <2>1, <2>4, <2>6
    <3> QED
      BY <1>1, <1>6, <2>5, <2>6, <3>1, SameArithmetic DEF Arq!Advanced
  <2>7. CASE ~(d - n > 0)
    <3>1. c = d
      BY <1>1, <1>2, <2>1, <2>3, <2>4, <2>7
    <3> QED
      BY <1>6, <2>1, <2>5, <2>7, <3>1, SameArithmetic DEF Arq!Advanced
  <2> QED
    BY <2>6, <2>7
<1> QED
  BY <1>5, <1>6

(* flush() takes segments into the window the peer advertised, or none;    *)
(* what was acknowledged stays acknowledged.                               *)
LEMMA FlushRefines ==
    ASSUME IInv, NEW full \in BOOLEAN, NEW c0 \in CongType, FlushWith(full, c0),
           snd_una' = snd_una, wnd' = wnd
    PROVE  \E k \in 0..snd_queue : Arq!Flush(k)
<1> DEFINE cw == Window(wnd, opt.nocwnd, c0.cwnd)
           n  == Len(snd_buf)
<1>1. PICK k \in 0..snd_queue :
        /\ Admits(cw, k)
        /\ snd_queue' = snd_queue - k
        /\ snd_nxt' = WrappingAdd(snd_nxt, k)
        /\ \/ snd_buf' = Admitted(k)
           \/ \E sent, cur : snd_buf' = Scanned(Admitted(k), sent, k, cur)
  BY DEF FlushWith
<1>2. /\ snd_queue \in Nat /\ k \in Nat /\ snd_buf \in Seq(Segment) /\ n \in 0..(Half - 1)
      /\ snd_una \in Seq32 /\ snd_nxt = WrappingAdd(snd_una, n)
      /\ wnd.rmt \in Nat /\ wnd.snd \in Nat
  <2>1. snd_queue \in Nat /\ wnd \in [snd: SndWnds, rmt: 0..(Half - 1)]
    BY DEF IInv, TypeOK
  <2>2. k \in Nat
    BY <2>1
  <2>3. wnd.rmt \in 0..(Half - 1) /\ wnd.snd \in Nat
    BY WndAssumption DEF IInv, TypeOK
  <2>4. wnd.rmt \in Nat
    BY <2>3, HalfAssumption
  <2> QED
    BY <2>1, <2>2, <2>3, <2>4, HalfAssumption DEF IInv, TypeOK, FlightBounded, SndBufContiguous
<1>3. cw \in 0..(Half - 1) /\ cw <= wnd.rmt
  <2>1. cw \in 0..(Half - 1)
    BY WindowType DEF IInv
  <2>2. c0.cwnd \in Nat
    BY DEF CongType
  <2> QED
    BY <1>2, <2>1, <2>2 DEF Window
<1>4. n + k < Half
  BY <1>1, <1>2, <1>3, AdmissionBound
<1>5. /\ Admitted(k) \in Seq(Segment) /\ Len(Admitted(k)) = n + k
      /\ \A i \in 1..n : Admitted(k)[i] = snd_buf[i]
      /\ \A i \in (n + 1)..(n + k) : ~Admitted(k)[i].acked
  BY <1>2, <1>4, AdmissionContiguous
<1>6. k > 0 => Arq!WrappingSub(snd_nxt, snd_una) + k <= wnd.rmt
  <2>1. WrappingSub(snd_nxt, snd_una) = n
    BY <1>2, WrapCount
  <2>2. ASSUME k > 0 PROVE n + k <= cw
    <3>1. k - 1 \in 0..(k - 1) /\ n + (k - 1) \in 0..(Half - 1) /\ n + (k - 1) < M
      BY <1>2, <1>4, <2>2, HalfAssumption DEF M
    <3>2. WrappingAdd(snd_nxt, k - 1) = WrappingAdd(snd_una, n + (k - 1))
      BY <1>2, <3>1, WrapAssoc
    <3>3. itimediff(WrappingAdd(snd_nxt, k - 1), WrappingAdd(snd_una, cw)) = n + (k - 1) - cw
      BY <1>2, <1>3, <3>1, <3>2, WrapDiff
    <3>4. itimediff(WrappingAdd(snd_nxt, k - 1), WrappingAdd(snd_una, cw)) < 0
      BY <1>1, <3>1 DEF Admits
    <3> QED
      BY <1>2, <1>3, <3>3, <3>4, HalfAssumption
  <2> QED
    BY <1>2, <1>3, <2>1, <2>2, SameArithmetic, HalfAssumption
<1>7. AckedNumbers' = AckedNumbers
  <2>1. /\ Len(snd_buf') = n + k
        /\ \A i \in 1..(n + k) : /\ snd_buf'[i].sn = Admitted(k)[i].sn
                                 /\ snd_buf'[i].acked = Admitted(k)[i].acked
    <3>1. CASE snd_buf' = Admitted(k)
      BY <1>5, <3>1
    <3>2. ASSUME NEW sent, NEW cur, snd_buf' = Scanned(Admitted(k), sent, k, cur)
          PROVE  <2>1!1 /\ <2>1!2
      <4>1. snd_buf' = [i \in 1..(n + k) |->
                IF i \in sent THEN Transmit(Admitted(k)[i], k, cur[i], cur[i + 1])
                ELSE Admitted(k)[i]]
        BY <1>5, <3>2 DEF Scanned
      <4>2. Len(snd_buf') = n + k
        BY <1>2, <4>1
      <4>3. \A c, d : \A i \in 1..(n + k) :
              /\ Transmit(Admitted(k)[i], k, c, d).sn = Admitted(k)[i].sn
              /\ Transmit(Admitted(k)[i], k, c, d).acked = Admitted(k)[i].acked
        BY DEF Transmit
      <4> QED
        BY <4>1, <4>2, <4>3
    <3> QED
      BY <1>1, <3>1, <3>2
  <2>2. /\ \A i \in 1..n : i \in 1..(n + k) /\ snd_buf'[i].sn = snd_buf[i].sn
                                          /\ snd_buf'[i].acked = snd_buf[i].acked
        /\ \A i \in 1..(n + k) : snd_buf'[i].acked => i \in 1..n
    BY <1>2, <1>5, <2>1, SMTT(60)
  <2> QED
    BY <2>1, <2>2, SMTT(60) DEF AckedNumbers
<1> QED
  BY <1>1, <1>2, <1>6, <1>7, SameArithmetic DEF Arq!Flush

(* A segment of the peer's packet does what ArqSender's Input does: an ACK *)
(* of a number still in flight after una was applied acknowledges it, any  *)
(* other acknowledges nothing.                                             *)
LEMMA InputRefines ==
    ASSUME IInv, NEW cmd, NEW regular, NEW w \in RmtWnds, NEW una \in Seq32,
           NEW sn \in Seq32, NEW ts \in Int, InputSegment(cmd, regular, w, una, sn, ts)
    PROVE  \E v \in RmtWnds \cup {wnd.rmt} :
             \/ Arq!Input(una, {}, v)
             \/ \E x \in Arq!Flight(snd_una, snd_nxt) : Arq!Input(una, {x}, v)
<1> DEFINE n == Len(snd_buf)
           v == IF regular THEN w ELSE wnd.rmt
<1>1. PICK c \in 0..n :
         LET rest == SubSeq(snd_buf, c + 1, n)
             una1 == shrink_buf(rest)
             marked == parse_ack(rest, una1, sn)
         IN  /\ UnaPasses(una, c)
             /\ snd_una' = una1
             /\ snd_buf' = IF cmd = "ack" THEN parse_fastack(marked, una1, sn, ts) ELSE rest
  BY DEF InputSegment
<1> DEFINE rest == SubSeq(snd_buf, c + 1, n)
           una1 == WrappingAdd(snd_una, c)
           m == n - c
<1>2. /\ snd_buf \in Seq(Segment) /\ n \in 0..(Half - 1) /\ c \in 0..n
      /\ snd_una \in Seq32 /\ snd_nxt = WrappingAdd(snd_una, n) /\ wnd.rmt \in Nat
      /\ \A i \in 1..n : snd_buf[i].sn = WrappingAdd(snd_una, i - 1)
  BY HalfAssumption DEF IInv, TypeOK, FlightBounded, SndBufContiguous
<1>3. snd_una' = una1 /\ shrink_buf(rest) = una1 /\ una1 \in Seq32
  BY <1>1, ShrinkStep
<1>4. /\ rest \in Seq(Segment) /\ Len(rest) = m /\ m \in 0..(Half - 1)
      /\ \A i \in 1..m : rest[i] = snd_buf[c + i]
  BY <1>2, Suffix, HalfAssumption
<1>5. /\ snd_nxt = WrappingAdd(una1, m)
      /\ \A i \in 1..m : c + i \in 1..n /\ rest[i].sn = WrappingAdd(una1, i - 1)
  <2>1. WrappingAdd(una1, m) = WrappingAdd(snd_una, c + m) /\ c + m = n
    BY <1>2, <1>4, WrapAssoc, HalfAssumption DEF M
  <2>2. ASSUME NEW i \in 1..m
        PROVE  c + i \in 1..n /\ rest[i].sn = WrappingAdd(una1, i - 1)
    <3>1. c + i \in 1..n /\ (c + i) - 1 = c + (i - 1) /\ i - 1 \in Nat /\ c + (i - 1) < M
      <4>1. n \in Nat /\ n < Half /\ c \in Nat /\ c <= n /\ i \in Nat /\ i >= 1 /\ i <= n - c
        BY <1>2, <1>4, HalfAssumption
      <4> HIDE DEF n
      <4> QED
        BY <4>1, HalfAssumption DEF M
    <3>2. WrappingAdd(una1, i - 1) = WrappingAdd(snd_una, c + (i - 1))
      BY <1>2, <3>1, WrapAssoc
    <3> QED
      BY <1>2, <1>4, <3>1, <3>2
  <2> QED
    BY <1>2, <2>1, <2>2
<1>6. Arq!Advanced(una) = una1
  BY <1>1, UnaMoves
<1>7. Arq!Flight(una1, snd_nxt) = {WrappingAdd(una1, j - 1) : j \in 1..m}
  BY <1>3, <1>4, <1>5, FlightNumbers
<1>8. Arq!Flight(snd_una, snd_nxt) = {WrappingAdd(snd_una, j - 1) : j \in 1..n}
  BY <1>2, FlightNumbers
<1>9. wnd'.rmt = v /\ v \in RmtWnds \cup {wnd.rmt} /\ UNCHANGED <<snd_queue, snd_nxt>>
  BY DEF InputSegment, IInv, TypeOK
<1> HIDE DEF rest, una1, m, v
(* What is marked is exactly what was marked, and sn if it is in flight.   *)
<1>10. LET named == cmd = "ack" /\ InFlight(una1, sn)
       IN  /\ Len(snd_buf') = m
           /\ \A i \in 1..m :
                /\ snd_buf'[i].sn = rest[i].sn
                /\ snd_buf'[i].acked <=> rest[i].acked \/ (named /\ rest[i].sn = sn)
  <2>1. CASE cmd # "ack"
    BY <1>1, <1>4, <2>1 DEF rest
  <2>2. CASE cmd = "ack"
    <3> DEFINE marked == parse_ack(rest, una1, sn)
    <3>1. /\ marked \in Seq(Segment) /\ Len(marked) = m
          /\ \A i \in 1..m : /\ marked[i].sn = rest[i].sn
                             /\ marked[i].acked <=>
                                    rest[i].acked \/ (InFlight(una1, sn) /\ rest[i].sn = sn)
      <4>1. marked \in Seq(Segment) /\ Len(marked) = m
        BY <1>3, <1>4, AckEffect
      <4>2. /\ Len(rest) < Half /\ snd_nxt = WrappingAdd(una1, Len(rest))
            /\ \A i \in 1..Len(rest) : rest[i].sn = WrappingAdd(una1, i - 1)
        BY <1>4, <1>5, HalfAssumption
      <4>3. \A i \in 1..Len(rest) :
              /\ parse_ack(rest, una1, sn)[i].sn = rest[i].sn
              /\ parse_ack(rest, una1, sn)[i].acked <=>
                    rest[i].acked \/ (InFlight(una1, sn) /\ rest[i].sn = sn)
        BY <1>3, <1>4, <4>2, AckMarks, Zenon
      <4> QED
        BY <1>4, <4>1, <4>3
    <3> HIDE DEF marked
    <3>2. snd_buf' = parse_fastack(marked, una1, sn, ts)
      BY <1>1, <1>3, <2>2 DEF rest, marked
    <3>3. /\ Len(snd_buf') = m
          /\ \A i \in 1..m : snd_buf'[i] = IF i \in Bumps(marked, una1, sn, ts)
                                           THEN bump_fastack(marked[i]) ELSE marked[i]
      BY <1>3, <3>1, <3>2, FastackEffect
    <3>4. \A i \in 1..m : i \in Bumps(marked, una1, sn, ts) =>
              /\ bump_fastack(marked[i]).sn = marked[i].sn
              /\ bump_fastack(marked[i]).acked = marked[i].acked
      BY <3>1, BumpProperties DEF Bumps
    <3> QED
      BY <2>2, <3>1, <3>3, <3>4
  <2> QED
    BY <2>1, <2>2
<1> DEFINE sns == IF cmd = "ack" /\ InFlight(una1, sn) THEN {sn} ELSE {}
<1>11. AckedNumbers' = (AckedNumbers \cup sns) \cap Arq!Flight(una1, snd_nxt)
  <2>1. ASSUME NEW x \in AckedNumbers'
        PROVE  x \in (AckedNumbers \cup sns) \cap Arq!Flight(una1, snd_nxt)
    <3>1. PICK i \in 1..m : x = snd_buf'[i].sn /\ snd_buf'[i].acked
      BY <1>10, <2>1 DEF AckedNumbers
    <3>2. x = rest[i].sn /\ x \in Arq!Flight(una1, snd_nxt)
      BY <1>5, <1>7, <1>10, <3>1
    <3>3. CASE rest[i].acked
      <4>1. c + i \in 1..n /\ snd_buf[c + i].acked /\ snd_buf[c + i].sn = x
        BY <1>4, <1>5, <3>2, <3>3
      <4> QED
        BY <3>2, <4>1 DEF AckedNumbers
    <3>4. CASE ~rest[i].acked
      BY <1>10, <3>1, <3>2, <3>4
    <3> QED
      BY <3>3, <3>4
  <2>2. ASSUME NEW x \in AckedNumbers \cup sns, x \in Arq!Flight(una1, snd_nxt)
        PROVE  x \in AckedNumbers'
    <3>1. PICK j \in 1..m : x = WrappingAdd(una1, j - 1)
      BY <1>7, <2>2
    <3>2. x = rest[j].sn /\ rest[j] = snd_buf[c + j] /\ c + j \in 1..n
      BY <1>4, <1>5, <3>1
    <3>3. snd_buf'[j].acked
      <4>1. CASE x \in sns
        BY <1>10, <3>2, <4>1
      <4>2. CASE x \in AckedNumbers
        <5>1. PICK i \in 1..n : x = snd_buf[i].sn /\ snd_buf[i].acked
          BY <4>2 DEF AckedNumbers
        <5>2. i = c + j
          <6>1. i - 1 \in 0..(Half - 1) /\ (c + j) - 1 \in 0..(Half - 1)
            BY <1>2, <3>2, HalfAssumption
          <6>2. WrappingAdd(snd_una, i - 1) = WrappingAdd(snd_una, (c + j) - 1)
            BY <1>2, <3>2, <5>1
          <6>3. i - 1 = (c + j) - 1
            BY <1>2, <6>1, <6>2, WrapDiff
          <6> QED
            BY <1>2, <1>4, <6>3
        <5> QED
          BY <1>10, <3>2, <5>1, <5>2
      <4> QED
        BY <2>2, <4>1, <4>2
    <3> QED
      BY <1>10, <3>2, <3>3 DEF AckedNumbers
  <2> QED
    BY <2>1, <2>2
<1>12. Arq!Input(una, sns, v)
  BY <1>3, <1>6, <1>9, <1>11 DEF Arq!Input
<1>13. CASE cmd = "ack" /\ InFlight(una1, sn)
  <2>1. sn \in Arq!Flight(snd_una, snd_nxt)
    <3>1. PICK p \in 1..m : sn = WrappingAdd(una1, p - 1)
      <4>1. Len(rest) < Half
        BY <1>4, HalfAssumption
      <4>2. \E p \in 1..Len(rest) : /\ snd_buf_offset(rest, una1, sn) = {p}
                                    /\ scan_for_sn(rest, sn) = {p}
                                    /\ sn = WrappingAdd(una1, p - 1)
        BY <1>3, <1>4, <1>5, <1>13, <4>1, ContiguousIndex, ZenonT(60)
      <4> QED
        BY <1>4, <4>2
    <3>2. sn = WrappingAdd(snd_una, (c + p) - 1) /\ c + p \in 1..n
      BY <1>2, <1>4, <1>5, <3>1
    <3> QED
      BY <1>8, <3>2
  <2>2. sns = {sn}
    BY <1>13
  <2> QED
    BY <1>9, <1>12, <2>1, <2>2
<1>14. CASE ~(cmd = "ack" /\ InFlight(una1, sn))
  <2>1. sns = {}
    BY <1>14
  <2> QED
    BY <1>9, <1>12, <2>1
<1> QED
  BY <1>13, <1>14

(* The bound on snd_queue is one of the model, not of the code; flush()    *)
(* takes no more than snd_queue holds.                                     *)
LEMMA QueueBounded == Spec => [](snd_queue <= QueueMax)
<1>1. Init => snd_queue <= QueueMax
  BY BoundsAssumption DEF Init
<1>2. IInv /\ snd_queue <= QueueMax /\ [Next]_vars => (snd_queue <= QueueMax)'
  <2> SUFFICES ASSUME IInv, snd_queue <= QueueMax, [Next]_vars
               PROVE  snd_queue' <= QueueMax
    OBVIOUS
  <2>1. snd_queue \in Nat /\ QueueMax \in Nat
    BY BoundsAssumption DEF IInv, TypeOK
  <2>2. ASSUME NEW full, NEW c0, FlushWith(full, c0) PROVE snd_queue' <= QueueMax
    <3>1. PICK k \in 0..snd_queue : snd_queue' = snd_queue - k
      BY <2>2 DEF FlushWith
    <3> QED
      BY <2>1, <3>1
  <2>3. CASE UNCHANGED snd_queue
    BY <2>3
  <2>4. CASE Input
    <3>1. PICK cmd, regular, w, una, sn, ts : InputSegment(cmd, regular, w, una, sn, ts)
      BY <2>4, Zenon DEF Input
    <3> QED
      BY <3>1, Zenon DEF InputSegment
  <2>5. CASE InputEnd
    BY <2>2, <2>3, <2>5 DEF InputEnd
  <2>6. CASE Flush
    BY <2>2, <2>6 DEF Flush
  <2>7. CASE Send
    BY <2>7 DEF Send
  <2> QED
    BY <2>3, <2>4, <2>5, <2>6, <2>7 DEF Next, InputReject, WndSize, Nodelay, Tick, vars
<1> QED
  BY <1>1, <1>2, Invariance, PTL DEF Spec

(* Every step of KcpSend is a step of ArqSender or leaves its window alone. *)
LEMMA StepRefines ==
    ASSUME IInv, IInv', snd_queue <= QueueMax, [Next]_vars
    PROVE  [Arq!Next]_(Arq!vars)
<1>1. /\ snd_queue \in Nat /\ QueueMax \in Nat /\ cong \in CongType /\ TypeOK
      /\ inp.flush \in BOOLEAN /\ snd_una \in Seq32 /\ snd_nxt \in Seq32
  BY BoundsAssumption DEF IInv, TypeOK, CongType
<1>2. ASSUME NEW k \in 0..snd_queue, Arq!Flush(k)
      PROVE  [Arq!Next]_(Arq!vars)
  <2>1. CASE k = 0
    <3>1. snd_queue' = snd_queue /\ snd_nxt' = snd_nxt
      BY <1>1, <1>2, <2>1, SameArithmetic, HalfAssumption DEF Arq!Flush, WrappingAdd, Seq32, M
    <3> QED
      BY <1>2, <3>1 DEF Arq!Flush, Arq!vars
  <2>2. CASE k # 0
    <3>1. k \in 1..QueueMax
      BY <1>1, <2>2
    <3> QED
      BY <1>2, <3>1 DEF Arq!Next
  <2> QED
    BY <2>1, <2>2
<1>3. CASE Input
  <2>1. ASSUME NEW cmd, NEW regular, NEW w \in RmtWnds, NEW una \in Seq32, NEW sn \in Seq32,
               NEW ts \in Int, InputSegment(cmd, regular, w, una, sn, ts)
        PROVE  Arq!Next
    <3>1. \E v \in RmtWnds \cup {wnd.rmt} :
            \/ Arq!Input(una, {}, v)
            \/ \E x \in Arq!Flight(snd_una, snd_nxt) : Arq!Input(una, {x}, v)
      BY <2>1, InputRefines
    <3> QED
      BY <3>1, SameArithmetic DEF Arq!Next
  <2>2. \A ts \in {-1} \cup {snd_buf[i].ts : i \in 1..Len(snd_buf)} : ts \in Int
    BY <1>1 DEF TypeOK, Segment
  <2>3. now \in Int
    BY <1>1 DEF TypeOK
  <2>4. PICK regular \in Regular, w \in RmtWnds, una \in Seq32 :
          \/ InputSegment("other", regular, w, una, una, now)
          \/ \E sn \in Seq32, ts \in {-1} \cup {snd_buf[i].ts : i \in 1..Len(snd_buf)} :
                InputSegment("ack", regular, w, una, sn, ts)
    BY <1>3 DEF Input
  <2> QED
    BY <2>1, <2>2, <2>3, <2>4
<1>4. CASE InputEnd
  <2>1. CASE FlushWith(inp.flush, Grow(cong))
    <3>1. Grow(cong) \in CongType /\ snd_una' = snd_una /\ wnd' = wnd
      BY <1>1, <1>4, GrowType DEF InputEnd
    <3> QED
      BY <1>1, <1>2, <2>1, <3>1, FlushRefines
  <2>2. CASE UNCHANGED <<now, snd_queue, snd_buf, snd_nxt, prb, scan>>
    BY <1>4, <2>2 DEF InputEnd, Arq!vars, AckedNumbers
  <2> QED
    BY <1>4, <2>1, <2>2 DEF InputEnd
<1>5. CASE Flush
  BY <1>1, <1>2, <1>5, FlushRefines DEF Flush
<1>6. CASE Send
  BY <1>6 DEF Send, Arq!Next, Arq!Send, AckedNumbers
<1>7. CASE WndSize
  <2>1. wnd'.rmt = wnd.rmt
    BY <1>1, <1>7 DEF WndSize, TypeOK
  <2> QED
    BY <1>7, <2>1 DEF WndSize, Arq!vars, AckedNumbers
<1>8. CASE InputReject \/ Nodelay \/ Tick \/ UNCHANGED vars
  BY <1>8 DEF InputReject, Nodelay, Tick, vars, Arq!vars, AckedNumbers
<1> QED
  BY <1>3, <1>4, <1>5, <1>6, <1>7, <1>8 DEF Next

(* KcpSend implements ArqSender: whatever the timers, the congestion       *)
(* window, the clock, the transmit queue and the D29 and D31 shortcuts do, *)
(* input(), flush() and send() move the window as a plain selective-repeat *)
(* sender would, within the window the peer advertised last.               *)
THEOREM ImplementsArq == Spec => ArqSpec
<1>1. Init => Arq!Init
  BY DEF Init, Arq!Init, AckedNumbers
<1>2. IInv /\ IInv' /\ snd_queue <= QueueMax /\ [Next]_vars => [Arq!Next]_(Arq!vars)
  BY StepRefines
<1> QED
  BY <1>1, <1>2, Invariance, QueueBounded, PTL DEF Spec, ArqSpec, Arq!Spec
=============================================================================
