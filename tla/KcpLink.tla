------------------------------- MODULE KcpLink -------------------------------
(***************************************************************************)
(* One direction of a KCP connection: the sender of ArqSender, the         *)
(* receiver of KcpRecv, and between them UDP, which loses, duplicates and  *)
(* reorders packets.  Acknowledgements, window updates and window probes   *)
(* travel as the code sends them; retransmission happens at any time and   *)
(* of any unacknowledged segment, which covers the timeout, fast and early *)
(* retransmissions of flush().                                             *)
(*                                                                         *)
(* A segment is identified by its sequence number: within the life of a    *)
(* packet (here: of a run) no number is used twice.                        *)
(***************************************************************************)
EXTENDS KcpSeq, Sequences, FiniteSets

CONSTANTS
    InitSn, RcvWnds, FrgMod, WndMod, AckBatch, AckMax,  \* as in KcpRecv
    InitRmtWnd, \* IKCP_WND_RCV, assumed of a peer that has not spoken
    Total,      \* bound on the segments the application writes
    FwdMax,     \* bound on the packets on their way to the receiver
    BwdMax      \* and on those on their way back

ASSUME LinkAssumption == Total \in Nat /\ Total < Half /\ {FwdMax, BwdMax} \subseteq Nat \ {0}
(* As in KcpRecv. *)
ASSUME ReceiverAssumption ==
    /\ InitSn \in Seq32
    /\ WndMod \in Nat /\ WndMod <= Half
    /\ RcvWnds \subseteq 1..(WndMod - 1) /\ RcvWnds # {}
    /\ FrgMod \in Nat \ {0}
    /\ AckBatch \in Nat \ {0} /\ AckMax \in Nat

VARIABLES
    snd_queue, snd_una, snd_nxt, acked, rmt_wnd,            \* ArqSender
    pc, rcv_nxt, rcv_wnd, rcv_queue, rcv_buf, acklist, tell, advertised,  \* KcpRecv
    fwd,        \* packets on their way to the receiver
    bwd,        \* packets on their way to the sender
    written,    \* number of segments the application has written
    read        \* sequence numbers the peer's application has read

sndVars == <<snd_queue, snd_una, snd_nxt, acked, rmt_wnd>>
rcvVars == <<pc, rcv_nxt, rcv_wnd, rcv_queue, rcv_buf, acklist, tell, advertised>>
vars == <<snd_queue, snd_una, snd_nxt, acked, rmt_wnd,
          pc, rcv_nxt, rcv_wnd, rcv_queue, rcv_buf, acklist, tell, advertised,
          fwd, bwd, written, read>>

S == INSTANCE ArqSender WITH
        RmtWnds <- 0..(WndMod - 1), QueueMax <- Total
R == INSTANCE KcpRecv WITH Frgs <- {0}

(* Forward packets: one PUSH, or a WASK.  Backward packets carry una and   *)
(* the window with the ACKs of sns and, perhaps, a WINS.                   *)
Push(sn) == [cmd |-> "push", sn |-> sn]
Wask == [cmd |-> "wask", sn |-> 0]
Reply(sns) == [sns |-> sns, una |-> rcv_nxt, wnd |-> R!wnd_unused]

(* What flush() may transmit once k segments have entered the window. *)
Sendable(k) == S!Flight(snd_una, WrappingAdd(snd_nxt, k)) \ acked

Init ==
    /\ S!Init
    /\ R!Init
    /\ fwd = {}
    /\ bwd = {}
    /\ written = 0
    /\ read = <<>>

(* The application writes one segment. *)
Write ==
    /\ written < Total
    /\ written' = written + 1
    /\ S!Send(1)
    /\ UNCHANGED <<rcvVars, fwd, bwd, read>>

(* flush() at the sender: k segments enter the window; of the segments it  *)
(* (re)transmits, those in `sent' are not lost, and a window probe gets    *)
(* through if `ask'.  A packet that has_room! holds back is one that is    *)
(* lost: either way a later flush() sends it again.                        *)
SndFlush(k, sent, ask) ==
    /\ S!Flush(k)
    /\ sent \subseteq Sendable(k)
    /\ fwd' = fwd \cup {Push(sn) : sn \in sent} \cup (IF ask THEN {Wask} ELSE {})
    /\ Cardinality(fwd') <= FwdMax
    /\ UNCHANGED <<rcvVars, bwd, written, read>>

(* A packet arrives; the network may keep a copy. *)
DeliverFwd(p, copy) ==
    /\ p \in fwd
    /\ fwd' = IF copy THEN fwd ELSE fwd \ {p}
    /\ pc = "idle"
    /\ IF p.cmd = "push" THEN R!InputPush([sn |-> p.sn, frg |-> 0]) ELSE R!InputWask
    /\ UNCHANGED <<sndVars, bwd, written, read>>

(* What a flush() of the receiver sends, if anything: one packet with the  *)
(* acks it works off and the window update.  The network may lose it.      *)
Replies(done, room) ==
    LET acks == R!AcksSent(done)
    IN  IF acks = {} /\ ~(tell /\ room) THEN {} ELSE {Reply({acklist[i] : i \in acks})}

RcvReplies ==
    \E done \in 0..Len(acklist), room \in BOOLEAN :
        /\ R!FlushAcks(done, room)
        /\ bwd' \in {bwd, bwd \cup Replies(done, room)}
        /\ Cardinality(bwd') <= BwdMax

(* The end of the receiver's input(), with the flush its KcpRecv makes. *)
RcvInputEnd ==
    /\ R!InputEnd
    /\ RcvReplies \/ UNCHANGED <<acklist, tell, advertised, bwd>>
    /\ UNCHANGED <<sndVars, fwd, written, read>>

(* A periodic flush() at the receiver. *)
RcvFlush ==
    /\ pc = "idle"
    /\ RcvReplies
    /\ UNCHANGED <<pc, rcv_nxt, rcv_wnd, rcv_queue, rcv_buf>>
    /\ UNCHANGED <<sndVars, fwd, written, read>>

(* A reply arrives at the sender. *)
DeliverBwd(p, copy) ==
    /\ p \in bwd
    /\ bwd' = IF copy THEN bwd ELSE bwd \ {p}
    /\ S!Input(p.una, p.sns, p.wnd)
    /\ UNCHANGED <<rcvVars, fwd, written, read>>

(* The receiving application reads a message. *)
Read ==
    /\ R!Recv
    /\ read' = read \o [i \in 1..R!MessageLen |-> rcv_queue[i].sn]
    /\ UNCHANGED <<sndVars, fwd, bwd, written>>

Next ==
    \/ Write
    \/ \E k \in 0..Total : \E sent \in SUBSET Sendable(k), ask \in BOOLEAN :
         SndFlush(k, sent, ask)
    \/ \E p \in fwd, copy \in BOOLEAN : DeliverFwd(p, copy)
    \/ RcvInputEnd
    \/ RcvFlush
    \/ \E p \in bwd, copy \in BOOLEAN : DeliverBwd(p, copy)
    \/ Read

(* Segments that fit the window enter it.  The oldest unacknowledged one   *)
(* is retransmitted whenever its timer expires and a closed window is      *)
(* probed whenever the probe timer does, and neither is lost for ever.     *)
SenderFairness ==
    /\ WF_vars(\E k \in 1..Total : SndFlush(k, {}, FALSE))
    /\ SF_vars(SndFlush(0, {snd_una}, FALSE))
    /\ SF_vars(rmt_wnd = 0 /\ SndFlush(0, {}, TRUE))

(* input() ends, the updater flushes again and again, and the application  *)
(* reads: none of them is kept from the session mutex for ever.  A         *)
(* receiver that answers again and again is heard in the end.              *)
ReceiverFairness ==
    /\ WF_vars(RcvInputEnd)
    /\ SF_vars(RcvFlush /\ acklist' = <<>>)
    /\ SF_vars((RcvInputEnd \/ RcvFlush) /\ bwd' # bwd)
    /\ SF_vars(Read)

(* A packet the network has not lost arrives. *)
NetworkFairness ==
    /\ \A p \in {Push(WrappingAdd(InitSn, i)) : i \in 0..(Total - 1)} \cup {Wask} :
         SF_vars(DeliverFwd(p, FALSE))
    /\ SF_vars(\E p \in bwd : DeliverBwd(p, FALSE))

Spec == Init /\ [][Next]_vars
FairSpec == Spec /\ SenderFairness /\ ReceiverFairness /\ NetworkFairness

-----------------------------------------------------------------------------
(* How many segments of the stream come before sn. *)
Pos(sn) == WrappingSub(sn, InitSn)

(* The receiver has put sn in order. *)
Covered(sn) == Pos(sn) < Len(read) + Len(rcv_queue)

(* The sender forgets a segment (una passed it, or an ACK marked it) only  *)
(* when the receiver holds it for good: it is in order there, or in        *)
(* rcv_buf.  Otherwise a segment neither side would send again is lost.    *)
AckSound ==
    /\ Pos(snd_una) <= Len(read) + Len(rcv_queue)
    /\ \A sn \in acked : Covered(sn) \/ R!has(rcv_buf, sn)

Stream == INSTANCE ReliableStream WITH
    Data <- Seq32,
    input <- [i \in 1..written |-> WrappingAdd(InitSn, i - 1)],
    output <- read

(* What the applications see is a reliable stream: the segments read are   *)
(* the segments written, in order and once.  Under a network that delivers *)
(* what is sent again and again, everything written is read: no lost       *)
(* acknowledgement, stale window, closed window or full transmit queue     *)
(* stalls the connection for good.                                         *)
StreamDelivers == Stream!Spec

(* The safety part of it: nothing is lost, repeated or out of order. *)
StreamIntact == Stream!SafeSpec

-----------------------------------------------------------------------------
(* The inductive invariant of KcpLinkProofs.                               *)

(* The receiver keeps sn for good. *)
Held(sn) == sn \in Seq32 /\ (Pos(sn) < Pos(rcv_nxt) \/ R!has(rcv_buf, sn))

(* What was written is what was sent and what waits; the receiver is       *)
(* between the sender's two ends.                                          *)
EndsInOrder ==
    /\ {snd_una, snd_nxt} \subseteq Seq32 /\ snd_queue \in Nat /\ written \in 0..Total
    /\ Pos(snd_nxt) + snd_queue = written
    /\ Pos(snd_una) <= Pos(rcv_nxt)
    /\ Pos(rcv_nxt) <= Pos(snd_nxt)

(* What was read, and then rcv_queue, are the stream up to rcv_nxt. *)
ReadInOrder ==
    /\ Pos(rcv_nxt) = Len(read) + Len(rcv_queue)
    /\ read \in Seq(Seq32)
    /\ \A i \in 1..Len(read) : read[i] = WrappingAdd(InitSn, i - 1)

(* Nothing arrives that was not sent, however late. *)
SentBefore ==
    /\ \A seg \in rcv_buf : Pos(seg.sn) < Pos(snd_nxt)
    /\ \A p \in fwd : p.cmd = "push" => p.sn \in Seq32 /\ Pos(p.sn) < Pos(snd_nxt)

(* Every acknowledgement, pending, on its way or received, is for good. *)
AcksHeld ==
    /\ \A i \in 1..Len(acklist) : Held(acklist[i])
    /\ \A p \in bwd : /\ p.una \in Seq32 /\ Pos(p.una) <= Pos(rcv_nxt)
                      /\ \A sn \in p.sns : Held(sn)
    /\ \A sn \in acked : Held(sn)

LinkInv == R!IInv /\ EndsInOrder /\ ReadInOrder /\ SentBefore /\ AcksHeld
=============================================================================
