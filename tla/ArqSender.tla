------------------------------ MODULE ArqSender ------------------------------
(***************************************************************************)
(* What the sending half of a KCP endpoint promises its peer, without      *)
(* clocks, timers, congestion control or the bookkeeping of flush(): a     *)
(* sliding window of sequence numbers that opens by acknowledgement and    *)
(* grows within the window the peer advertised.  KcpSend implements it     *)
(* (ArqSpec, proved in KcpSendProofs); KcpLink uses it as its sender.      *)
(***************************************************************************)
EXTENDS KcpSeq

CONSTANTS
    InitSn,       \* the first sequence number
    InitRmtWnd,   \* IKCP_WND_RCV, assumed of a peer that has not spoken
    RmtWnds,      \* the windows a peer may advertise
    QueueMax      \* bound on snd_queue

VARIABLES
    snd_queue,    \* number of segments waiting to enter the window
    snd_una,      \* first unacknowledged sequence number
    snd_nxt,      \* next sequence number to assign
    acked,        \* acknowledged sequence numbers of the window
    rmt_wnd       \* the window the peer advertised last

vars == <<snd_queue, snd_una, snd_nxt, acked, rmt_wnd>>

(* The sequence numbers from una up to nxt. *)
Flight(una, nxt) == {sn \in Seq32 : WrappingSub(sn, una) < WrappingSub(nxt, una)}

Init ==
    /\ snd_queue = 0
    /\ snd_una = InitSn
    /\ snd_nxt = InitSn
    /\ acked = {}
    /\ rmt_wnd = InitRmtWnd

(* The application hands over n segments. *)
Send(n) ==
    /\ snd_queue + n <= QueueMax
    /\ snd_queue' = snd_queue + n
    /\ UNCHANGED <<snd_una, snd_nxt, acked, rmt_wnd>>

(* k segments enter the window, which stays within the peer's. *)
Flush(k) ==
    /\ k <= snd_queue
    /\ k > 0 => WrappingSub(snd_nxt, snd_una) + k <= rmt_wnd
    /\ snd_queue' = snd_queue - k
    /\ snd_nxt' = WrappingAdd(snd_nxt, k)
    /\ UNCHANGED <<snd_una, acked, rmt_wnd>>

(* Where a peer's una moves snd_una: forward, and no further than snd_nxt. *)
Advanced(una) ==
    IF itimediff(una, snd_una) <= 0 THEN snd_una
    ELSE IF itimediff(una, snd_nxt) > 0 THEN snd_nxt
    ELSE una

(* A segment of the peer: una, the numbers it acknowledges, its window. *)
Input(una, sns, w) ==
    /\ rmt_wnd' = w
    /\ snd_una' = Advanced(una)
    /\ acked' = (acked \cup sns) \cap Flight(snd_una', snd_nxt)
    /\ UNCHANGED <<snd_queue, snd_nxt>>

Next ==
    \/ \E n \in 1..QueueMax : Send(n)
    \/ \E k \in 1..QueueMax : Flush(k)
    \/ \E una \in Seq32, w \in RmtWnds \cup {rmt_wnd} :
         Input(una, {}, w) \/ \E sn \in Flight(snd_una, snd_nxt) : Input(una, {sn}, w)

Spec == Init /\ [][Next]_vars
=============================================================================
