------------------------------- MODULE KcpRecv -------------------------------
(***************************************************************************)
(* The receiving half of one KCP endpoint (crates/kcp/src/kcp.rs): what    *)
(* input() does with PUSH and WASK segments, recv(), the acknowledgement   *)
(* and window-update part of flush(), and wnd_size().                      *)
(*                                                                         *)
(* The peer is arbitrary: any PUSH may arrive at any time, with any        *)
(* sequence number and fragment count.  Every handler runs under the       *)
(* session mutex, so input(), which loops over the segments of a packet,   *)
(* is split into its loop iterations (InputPush, InputWask) and its end    *)
(* (InputEnd or InputReject) with nothing in between.                      *)
(*                                                                         *)
(* The payload of a segment is abstracted away; ts, echoed by an ack, too. *)
(***************************************************************************)
EXTENDS KcpSeq, Sequences, FiniteSets, FiniteSetsExt

CONSTANTS
    InitSn,     \* segments an idle session has carried before Init (modulo 2^32)
    RcvWnds,    \* the receive windows set_window_size may choose
    Frgs,       \* the fragment counters a PUSH may carry
    FrgMod,     \* 2^8, the range of the u8 fragment counter
    WndMod,     \* 2^16, the range of the u16 window field on the wire
    AckBatch,   \* mtu / IKCP_OVERHEAD: an acklist this long forces a flush
    AckMax      \* bound on acklist: no PUSH is offered beyond it

ASSUME InitSnAssumption == InitSn \in Seq32
(* A window of 2^16 or more would be truncated by wnd_unused(). *)
ASSUME RcvWndsAssumption ==
    /\ WndMod \in Nat /\ WndMod <= Half
    /\ RcvWnds \subseteq 1..(WndMod - 1) /\ RcvWnds # {}
ASSUME FrgsAssumption == FrgMod \in Nat \ {0} /\ Frgs \subseteq 0..(FrgMod - 1)
ASSUME AckMaxAssumption == AckBatch \in Nat \ {0} /\ AckMax \in Nat

VARIABLES
    pc,         \* "idle", or "input" while input() walks a packet
    rcv_nxt,    \* next in-order sequence number expected
    rcv_wnd,    \* receive window, in segments
    rcv_queue,  \* in-order segments not yet read
    rcv_buf,    \* out-of-order segments (the SegmentHeap), keyed by sn
    acklist,    \* sequence numbers to acknowledge
    tell,       \* probe & IKCP_ASK_TELL
    advertised  \* history: the window in the last packet flush() sent, or
                \* rcv_wnd when that has changed since

vars == <<pc, rcv_nxt, rcv_wnd, rcv_queue, rcv_buf, acklist, tell, advertised>>

Segment == [sn: Seq32, frg: Frgs]

TypeOK ==
    /\ pc \in {"idle", "input"}
    /\ rcv_nxt \in Seq32
    /\ rcv_wnd \in RcvWnds
    /\ rcv_queue \in Seq(Segment)
    /\ rcv_buf \subseteq Segment
    /\ acklist \in Seq(Seq32)
    /\ tell \in BOOLEAN
    /\ advertised \in 0..(WndMod - 1)

Init ==
    /\ pc = "idle"
    /\ rcv_nxt = InitSn
    /\ rcv_wnd \in RcvWnds
    /\ rcv_queue = <<>>
    /\ rcv_buf = {}
    /\ acklist = <<>>
    /\ tell = FALSE
    /\ advertised = rcv_wnd

-----------------------------------------------------------------------------
(* Mutant: a duplicate is not recognised. *)
has_never(buf, sn) == FALSE

(* SegmentHeap::has. *)
has(buf, sn) == \E seg \in buf : seg.sn = sn

(* SegmentHeap::less. *)
less(a, b) == itimediff(b.sn, a.sn) > 0

(* wnd_unused(): free slots in rcv_queue, as a u16. *)
wnd_unused ==
    IF Len(rcv_queue) < rcv_wnd THEN (rcv_wnd - Len(rcv_queue)) % WndMod ELSE 0

(* The k smallest segments of the heap carry nxt, nxt+1, ...: the loop     *)
(* `while let Some(seg) = rcv_buf.pop()` takes all of them.                *)
Ready(buf, nxt, k) ==
    \A j \in 0..(k - 1) :
        \E seg \in buf :
            /\ seg.sn = WrappingAdd(nxt, j)
            /\ \A low \in buf :
                 less(low, seg) => \E i \in 0..(j - 1) : low.sn = WrappingAdd(nxt, i)

(* How many segments move from rcv_buf to a rcv_queue of length len. *)
Movable(buf, nxt, len) ==
    Max({0} \cup {k \in 1..Cardinality(buf) : len + k <= rcv_wnd /\ Ready(buf, nxt, k)})

(* Mutants: rcv_nxt is not wrapped; rcv_nxt moves once for several segments. *)
MoveReady_unwrapped(buf, queue) ==
    LET k == Movable(buf, rcv_nxt, Len(queue))
        at(j) == CHOOSE seg \in buf : seg.sn = WrappingAdd(rcv_nxt, j - 1)
    IN  /\ rcv_queue' = queue \o [j \in 1..k |-> at(j)]
        /\ rcv_buf' = buf \ {at(j) : j \in 1..k}
        /\ rcv_nxt' = rcv_nxt + k

MoveReady_once(buf, queue) ==
    LET k == Movable(buf, rcv_nxt, Len(queue))
        at(j) == CHOOSE seg \in buf : seg.sn = WrappingAdd(rcv_nxt, j - 1)
    IN  /\ rcv_queue' = queue \o [j \in 1..k |-> at(j)]
        /\ rcv_buf' = buf \ {at(j) : j \in 1..k}
        /\ rcv_nxt' = WrappingAdd(rcv_nxt, IF k > 0 THEN 1 ELSE 0)

(* The loop parse_data() and recv() share: move what is in order and fits. *)
MoveReady(buf, queue) ==
    LET k == Movable(buf, rcv_nxt, Len(queue))
        at(j) == CHOOSE seg \in buf : seg.sn = WrappingAdd(rcv_nxt, j - 1)
    IN  /\ rcv_queue' = queue \o [j \in 1..k |-> at(j)]
        /\ rcv_buf' = buf \ {at(j) : j \in 1..k}
        /\ rcv_nxt' = WrappingAdd(rcv_nxt, k)

(* parse_data(): store a segment of the window once, then move what is     *)
(* ready.  The two bounds are parse_data's own re-check of the window.     *)
parse_data(seg) ==
    IF itimediff(seg.sn, WrappingAdd(rcv_nxt, rcv_wnd)) >= 0
         \/ itimediff(seg.sn, rcv_nxt) < 0
    THEN UNCHANGED <<rcv_queue, rcv_buf, rcv_nxt>>
    ELSE MoveReady(IF has(rcv_buf, seg.sn) THEN rcv_buf ELSE rcv_buf \cup {seg},
                   rcv_queue)

(* Mutant: a segment beyond the window is acknowledged all the same. *)
InputPush_acks_all(seg) ==
    /\ pc' = "input"
    /\ Len(acklist) < AckMax
    /\ acklist' = Append(acklist, seg.sn)
    /\ parse_data(seg)
    /\ UNCHANGED <<rcv_wnd, tell, advertised>>

(* One PUSH of a packet: acknowledged when it is below the window's end,   *)
(* parsed when it is not below rcv_nxt either.                             *)
InputPush(seg) ==
    /\ pc' = "input"
    /\ IF itimediff(seg.sn, WrappingAdd(rcv_nxt, rcv_wnd)) < 0
       THEN /\ Len(acklist) < AckMax
            /\ acklist' = Append(acklist, seg.sn)
            /\ IF itimediff(seg.sn, rcv_nxt) >= 0
               THEN parse_data(seg)
               ELSE UNCHANGED <<rcv_queue, rcv_buf, rcv_nxt>>
       ELSE UNCHANGED <<acklist, rcv_queue, rcv_buf, rcv_nxt>>
    /\ UNCHANGED <<rcv_wnd, tell, advertised>>

(* Mutant: a window probe goes unanswered. *)
InputWask_ignored ==
    /\ pc' = "input"
    /\ UNCHANGED <<tell, rcv_nxt, rcv_wnd, rcv_queue, rcv_buf, acklist, advertised>>

(* One WASK of a packet: the peer asks for the window. *)
InputWask ==
    /\ pc' = "input"
    /\ tell' = TRUE
    /\ UNCHANGED <<rcv_nxt, rcv_wnd, rcv_queue, rcv_buf, acklist, advertised>>

(* The acks flush() sends when it works off the first `done' entries: one  *)
(* below rcv_nxt is left out, unless it is the last.                       *)
AcksSent(done) ==
    {i \in 1..done : itimediff(acklist[i], rcv_nxt) >= 0 \/ i = Len(acklist)}

(* The acknowledgement and window part of flush(): as many acks as the     *)
(* transmit queue has room for, then the window update if there is room    *)
(* for it (the transmit task drains the queue meanwhile, so room may come  *)
(* back).  Anything sent carries rcv_nxt and wnd_unused.                   *)
FlushAcks(done, room) ==
    /\ acklist' = SubSeq(acklist, done + 1, Len(acklist))
    /\ tell' = (tell /\ ~room)
    /\ advertised' = IF AcksSent(done) # {} \/ (tell /\ room) THEN wnd_unused ELSE advertised

AnyFlushAcks == \E done \in 0..Len(acklist), room \in BOOLEAN : FlushAcks(done, room)

(* The end of input(): a full flush when the sending half asks for one, an *)
(* ack-only flush on ack_no_delay or a full acklist, otherwise none.       *)
InputEnd ==
    /\ pc = "input"
    /\ pc' = "idle"
    /\ \/ AnyFlushAcks
       \/ Len(acklist) < AckBatch /\ UNCHANGED <<acklist, tell, advertised>>
    /\ UNCHANGED <<rcv_nxt, rcv_wnd, rcv_queue, rcv_buf>>

(* input() returns early on a foreign conv, a truncated payload or an      *)
(* unknown command: what came before stays, nothing is flushed.            *)
InputReject ==
    /\ pc = "input"
    /\ pc' = "idle"
    /\ UNCHANGED <<rcv_nxt, rcv_wnd, rcv_queue, rcv_buf, acklist, tell, advertised>>

(* update() and write(): flush() with nothing to parse before it. *)
Flush ==
    /\ pc = "idle"
    /\ AnyFlushAcks
    /\ UNCHANGED <<pc, rcv_nxt, rcv_wnd, rcv_queue, rcv_buf>>

(* peek_size() >= 0: the first message is complete.  The u8 sum wraps. *)
Complete ==
    /\ rcv_queue # <<>>
    /\ \/ Head(rcv_queue).frg = 0
       \/ Len(rcv_queue) >= (Head(rcv_queue).frg + 1) % FrgMod

(* The number of segments recv() pops: up to the first frg = 0. *)
MessageLen ==
    LET ends == {i \in 1..Len(rcv_queue) : rcv_queue[i].frg = 0}
    IN  IF ends = {} THEN Len(rcv_queue) ELSE Min(ends)

(* Mutants: recv() does not refill rcv_queue; it forgets the fast recover. *)
Recv_no_refill ==
    /\ pc = "idle"
    /\ Complete
    /\ rcv_queue' = SubSeq(rcv_queue, MessageLen + 1, Len(rcv_queue))
    /\ tell' = (tell \/ (Len(rcv_queue) >= rcv_wnd /\ Len(rcv_queue') < rcv_wnd))
    /\ UNCHANGED <<pc, rcv_nxt, rcv_wnd, rcv_buf, acklist, advertised>>

Recv_no_tell ==
    /\ pc = "idle"
    /\ Complete
    /\ MoveReady(rcv_buf, SubSeq(rcv_queue, MessageLen + 1, Len(rcv_queue)))
    /\ UNCHANGED <<pc, rcv_wnd, acklist, tell, advertised>>

(* recv(): pop one message, refill rcv_queue, and ask for a window update  *)
(* if a full rcv_queue has room again (fast recover).                      *)
Recv ==
    /\ pc = "idle"
    /\ Complete
    /\ MoveReady(rcv_buf, SubSeq(rcv_queue, MessageLen + 1, Len(rcv_queue)))
    /\ tell' = (tell \/ (Len(rcv_queue) >= rcv_wnd /\ Len(rcv_queue') < rcv_wnd))
    /\ UNCHANGED <<pc, rcv_wnd, acklist, advertised>>

(* wnd_size(): the window changes, nothing else happens. *)
WndSize ==
    /\ pc = "idle"
    /\ rcv_wnd' \in RcvWnds \ {rcv_wnd}
    /\ advertised' = rcv_wnd'
    /\ UNCHANGED <<pc, rcv_nxt, rcv_queue, rcv_buf, acklist, tell>>

Next ==
    \/ \E sn \in Seq32, frg \in Frgs : InputPush([sn |-> sn, frg |-> frg])
    \/ InputWask
    \/ InputEnd
    \/ InputReject
    \/ Flush
    \/ Recv
    \/ WndSize

Spec == Init /\ [][Next]_vars

-----------------------------------------------------------------------------
(* What the application reads is the peer's stream: rcv_queue holds the    *)
(* consecutive sequence numbers that end just below rcv_nxt, whatever      *)
(* order, duplicates or gaps the segments arrived in.                      *)
QueueInOrder ==
    \A i \in 1..Len(rcv_queue) :
        rcv_queue[i].sn = WrappingSub(rcv_nxt, Len(rcv_queue) + 1 - i)

(* rcv_buf never holds a segment rcv_nxt has passed: such a segment would  *)
(* be the heap's minimum forever, and the `seg.sn == rcv_nxt` test of the  *)
(* move loop would never succeed again.  Nor does it hold one sequence     *)
(* number twice (SegmentHeap's marks).                                     *)
BufAhead ==
    \A a \in rcv_buf :
        /\ itimediff(a.sn, rcv_nxt) \in 0..(WndMod - 2)
        /\ \A b \in rcv_buf : a.sn = b.sn => a = b

(* A segment that could be read is never stranded in rcv_buf: recv()       *)
(* returns -1 on an empty rcv_queue without looking at rcv_buf, so the     *)
(* next segment in order must not be there alone.                          *)
NoStranded == rcv_queue = <<>> => ~has(rcv_buf, rcv_nxt)

(* A peer that was told the window is closed is not left waiting: once     *)
(* rcv_queue has room again, a window update is pending (recv()'s fast     *)
(* recover).  Only wnd_size() may open the window silently; it starts the  *)
(* history anew.                                                           *)
WindowUpdatePending ==
    advertised = 0 /\ wnd_unused > 0 => tell

(* Whatever arrives in whatever order: rcv_queue holds the segments before *)
(* rcv_nxt, each once and in order, and rcv_buf those of the window after  *)
(* it (parse_data() and the move loop), also where the numbers wrap.       *)
InOrder == QueueInOrder /\ BufAhead

(* A receiver never stalls its peer: what can be read is moved out of the  *)
(* buffer as soon as there is room, and when a read reopens a full window  *)
(* the peer is going to be told (recv()).                                  *)
NoStall == NoStranded /\ WindowUpdatePending

-----------------------------------------------------------------------------
(* The inductive invariant of KcpRecvProofs.                               *)

(* rcv_queue is never longer than the largest window there may be: the     *)
(* move loop stops at rcv_wnd, and wnd_size() leaves rcv_queue alone.      *)
QueueBounded == Len(rcv_queue) < WndMod

IInv == TypeOK /\ IsFiniteSet(rcv_buf) /\ QueueBounded /\ InOrder /\ NoStall
=============================================================================
