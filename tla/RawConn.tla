------------------------------- MODULE RawConn -------------------------------
(***************************************************************************)
(* A fake-TCP packet connection (crates/tcpraw/src/conn.rs, flow.rs and    *)
(* packet_conn.rs): datagrams travel in crafted TCP segments beside a real *)
(* kernel connection, whose own segments are kept from leaving the host by *)
(* a TTL of one.                                                           *)
(*                                                                         *)
(* A time step is CLEANER_INTERVAL.  The sequence number and the timestamp *)
(* a crafted segment carries are left out; so are sockets' options, and    *)
(* discard(), which reads and throws away what the real connection gets.   *)
(* A TTL that cannot be pinned aborts the process (module ExitHooks).      *)
(***************************************************************************)
EXTENDS Integers, Sequences, FiniteSets

CONSTANTS
    Peers,              \* the remote addresses
    Connecting,         \* the ones that connect; the others only send segments
    Reals,              \* real TCP connections, numbered as they are made
    Handles,            \* the raw sockets
    SeqMod,             \* sequence numbers are taken modulo SeqMod
    EXPIRE,             \* in steps
    ORPHAN_EXPIRE,
    MESSAGE_BACKLOG

VARIABLES
    mode,               \* "dial" or "listen"
    flows,              \* the flow table
    real,               \* of each real connection, its peer and its state
    capture,            \* the capture_flow() tasks
    channel,            \* the messages captured and not yet received
    accept,             \* the accept_loop() task
    cleaner,            \* the cleaner() task and the connections it is closing
    closer              \* begin_close(), and the connections it is closing

vars == <<mode, flows, real, capture, channel, accept, cleaner, closer>>

None == 0
NoFlow == [conn |-> None, handle |-> None, ack |-> -1, age |-> 0]
NewFlow == [NoFlow EXCEPT !.ack = 0]
Nobody == "nobody"

Present(p) == flows[p] # NoFlow
Flow(p) == IF Present(p) THEN flows[p] ELSE NewFlow
closed == closer.pc # "open"
Free == {r \in Reals : real[r].state = "free"}
Queued == {r \in Reals : real[r].state = "queued"}

FlowRecord == [conn: Reals \cup {None}, handle: Handles \cup {None}, ack: -1..SeqMod - 1, age: 0..EXPIRE + 1]
RealRecord == [peer: Peers \cup {Nobody}, state: {"free", "queued", "new", "pinned", "closed"}]

TypeOK ==
    /\ mode \in {"dial", "listen"}
    /\ flows \in [Peers -> FlowRecord] /\ real \in [Reals -> RealRecord]
    /\ capture \in [Handles -> [pc: {"read", "push", "end"}, from: Peers \cup {Nobody}]]
    /\ channel \in Seq(Peers) /\ Len(channel) <= MESSAGE_BACKLOG
    /\ accept \in [pc: {"accept", "pin", "insert", "end"}, r: Reals \cup {None}]
    /\ cleaner \in [pc: {"wait", "due", "close", "end"}, closing: SUBSET Reals]
    /\ closer \in [pc: {"open", "drain", "close", "done"}, closing: SUBSET Reals]

(* listen(): the table is empty. *)
ListenInit ==
    /\ mode = "listen" /\ flows = [p \in Peers |-> NoFlow]
    /\ real = [r \in Reals |-> [peer |-> Nobody, state |-> "free"]]
    /\ accept = [pc |-> "accept", r |-> None]

(* dial() has connected, entered and pinned the real connection. *)
DialInit(p) ==
    /\ mode = "dial"
    /\ flows = [q \in Peers |-> IF q = p THEN [NewFlow EXCEPT !.conn = 1] ELSE NoFlow]
    /\ real = [r \in Reals |-> IF r = 1 THEN [peer |-> p, state |-> "pinned"]
                               ELSE [peer |-> Nobody, state |-> "free"]]
    /\ accept = [pc |-> "end", r |-> None]

(* The capture and cleaner tasks run. *)
Init ==
    /\ capture = [h \in Handles |-> [pc |-> "read", from |-> Nobody]]
    /\ channel = <<>>
    /\ cleaner = [pc |-> "wait", closing |-> {}]
    /\ closer = [pc |-> "open", closing |-> {}]
    /\ ListenInit \/ \E p \in Connecting : DialInit(p)

-----------------------------------------------------------------------------
(* The peers and time.                                                     *)

(* A peer's kernel completes a handshake with the listening socket, which  *)
(* is there for as long as the accept loop holds it.                       *)
Connect(p) ==
    /\ mode = "listen" /\ accept.pc # "end" /\ Free # {}
    /\ LET r == CHOOSE f \in Free : \A g \in Free : f <= g
       IN  real' = [real EXCEPT ![r] = [peer |-> p, state |-> "queued"]]
    /\ UNCHANGED <<mode, flows, capture, channel, accept, cleaner, closer>>

(* Once the connection is closed no further tick is waited for. *)
Tick ==
    /\ ~closed /\ cleaner.pc = "wait"
    /\ flows' = [p \in Peers |-> IF Present(p) /\ flows[p].age <= EXPIRE
                                 THEN [flows[p] EXCEPT !.age = @ + 1] ELSE flows[p]]
    /\ cleaner' = [cleaner EXCEPT !.pc = "due"]
    /\ UNCHANGED <<mode, real, capture, channel, accept, closer>>

-----------------------------------------------------------------------------
(* capture_flow().                                                         *)

(* The acknowledgement moves from a fresh flow or by the segment in order. *)
NextAck(flow, seq, len) ==
    IF len > 0 /\ flow.ack \in {0, seq} THEN (seq + len) % SeqMod ELSE flow.ack

(* Mutant: a flow is an orphan only until a raw socket has seen it. *)
CaptureUpdate_known(flow, h, seq, len) ==
    [flow  |-> [flow EXCEPT !.age = 0, !.ack = NextAck(flow, seq, len), !.handle = h],
     orphan |-> flow.handle = None]

(* capture_update(). *)
CaptureUpdate(flow, h, seq, len) ==
    [flow  |-> [flow EXCEPT !.age = 0, !.ack = NextAck(flow, seq, len), !.handle = h],
     orphan |-> flow.conn = None]

(* A segment to our port is captured, in order, late or again: a bare      *)
(* acknowledgement, a SYN or FIN, or data; what has PSH is delivered.      *)
Capture(h, p, seq, len, psh) ==
    LET up == CaptureUpdate(Flow(p), h, seq, len)
    IN  /\ capture[h].pc = "read"
        /\ flows' = [flows EXCEPT ![p] = up.flow]
        /\ capture' = IF ~up.orphan /\ psh
                      THEN [capture EXCEPT ![h] = [pc |-> "push", from |-> p]] ELSE capture
        /\ UNCHANGED <<mode, real, channel, accept, cleaner, closer>>

(* The send waits for room while the raw socket drops what comes. *)
Push(h) ==
    /\ capture[h].pc = "push" /\ Len(channel) < MESSAGE_BACKLOG
    /\ channel' = Append(channel, capture[h].from)
    /\ capture' = [capture EXCEPT ![h] = [pc |-> "read", from |-> Nobody]]
    /\ UNCHANGED <<mode, flows, real, accept, cleaner, closer>>

CaptureEnds(h) ==
    /\ closed /\ capture[h].pc # "end"
    /\ capture' = [capture EXCEPT ![h] = [pc |-> "end", from |-> Nobody]]
    /\ UNCHANGED <<mode, flows, real, channel, accept, cleaner, closer>>

-----------------------------------------------------------------------------
(* recv_from() and send_to().                                              *)

RecvFrom ==
    /\ channel # <<>> /\ channel' = Tail(channel)
    /\ UNCHANGED <<mode, flows, real, capture, accept, cleaner, closer>>

(* A flow is made for an address not seen; without a handle the datagram   *)
(* is lost and reported as sent.  Sending does not keep a flow alive.      *)
SendTo(p) ==
    /\ ~closed /\ ~Present(p)
    /\ flows' = [flows EXCEPT ![p] = NewFlow]
    /\ UNCHANGED <<mode, real, capture, channel, accept, cleaner, closer>>

-----------------------------------------------------------------------------
(* accept_loop().                                                          *)

Accept(r) ==
    /\ accept.pc = "accept" /\ r \in Queued /\ \A q \in Queued : r <= q
    /\ real' = [real EXCEPT ![r].state = "new"] /\ accept' = [pc |-> "pin", r |-> r]
    /\ UNCHANGED <<mode, flows, capture, channel, cleaner, closer>>

PinTtl ==
    /\ accept.pc = "pin"
    /\ real' = [real EXCEPT ![accept.r].state = "pinned"]
    /\ accept' = [accept EXCEPT !.pc = "insert"]
    /\ UNCHANGED <<mode, flows, capture, channel, cleaner, closer>>

(* Mutant: the connection is not entered in a flow captured before it. *)
Insert_vacant ==
    LET p == real[accept.r].peer
    IN  /\ accept.pc = "insert"
        /\ flows' = IF Present(p) THEN flows ELSE [flows EXCEPT ![p] = [NewFlow EXCEPT !.conn = accept.r]]
        /\ accept' = [pc |-> "accept", r |-> None]
        /\ UNCHANGED <<mode, real, capture, channel, cleaner, closer>>

Insert ==
    LET p == real[accept.r].peer
    IN  /\ accept.pc = "insert"
        /\ flows' = [flows EXCEPT ![p] = [Flow(p) EXCEPT !.conn = accept.r]]
        /\ accept' = [pc |-> "accept", r |-> None]
        /\ UNCHANGED <<mode, real, capture, channel, cleaner, closer>>

(* On die, or on an error of accept(2) for good.                           *)
AcceptEnds ==
    /\ accept.pc = "accept" /\ accept' = [pc |-> "end", r |-> None]
    /\ UNCHANGED <<mode, flows, real, capture, channel, cleaner, closer>>

-----------------------------------------------------------------------------
(* cleaner().                                                              *)

Expired(p) ==
    Present(p) /\ flows[p].age > (IF flows[p].conn = None THEN ORPHAN_EXPIRE ELSE EXPIRE)

(* sweep(), under the lock of the flow table. *)
Sweep ==
    LET gone == {p \in Peers : Expired(p)}
    IN  /\ cleaner.pc = "due"
        /\ flows' = [p \in Peers |-> IF p \in gone THEN NoFlow ELSE flows[p]]
        /\ cleaner' = [pc |-> "close", closing |-> {flows[p].conn : p \in gone} \ {None}]
        /\ UNCHANGED <<mode, real, capture, channel, accept, closer>>

(* RealConn::close(): TTL 64, then both directions are shut down. *)
CloseSwept ==
    /\ cleaner.pc = "close"
    /\ real' = [r \in Reals |-> IF r \in cleaner.closing THEN [real[r] EXCEPT !.state = "closed"] ELSE real[r]]
    /\ cleaner' = [pc |-> "wait", closing |-> {}]
    /\ UNCHANGED <<mode, flows, capture, channel, accept, closer>>

CleanerEnds ==
    /\ closed /\ cleaner.pc \in {"wait", "due"} /\ cleaner' = [cleaner EXCEPT !.pc = "end"]
    /\ UNCHANGED <<mode, flows, real, capture, channel, accept, closer>>

-----------------------------------------------------------------------------
(* begin_close(), by its first caller.                                     *)

BeginClose ==
    /\ closer.pc = "open" /\ closer' = [closer EXCEPT !.pc = "drain"]
    /\ UNCHANGED <<mode, flows, real, capture, channel, accept, cleaner>>

(* Mutant: the accepted connections are dropped with the table. *)
Drain_forgets ==
    /\ closer.pc = "drain"
    /\ IF mode = "dial"
       THEN closer' = [pc |-> "close", closing |-> {1}] /\ UNCHANGED flows
       ELSE closer' = [pc |-> "close", closing |-> {}] /\ flows' = [p \in Peers |-> NoFlow]
    /\ UNCHANGED <<mode, real, capture, channel, accept, cleaner>>

(* The dialled connection; or the listener, with all that is in the table. *)
Drain ==
    /\ closer.pc = "drain"
    /\ IF mode = "dial"
       THEN closer' = [pc |-> "close", closing |-> {1}] /\ UNCHANGED flows
       ELSE /\ closer' = [pc |-> "close", closing |-> {flows[p].conn : p \in Peers} \ {None}]
            /\ flows' = [p \in Peers |-> NoFlow]
    /\ UNCHANGED <<mode, real, capture, channel, accept, cleaner>>

CloseReals ==
    /\ closer.pc = "close"
    /\ real' = [r \in Reals |-> IF r \in closer.closing THEN [real[r] EXCEPT !.state = "closed"] ELSE real[r]]
    /\ closer' = [pc |-> "done", closing |-> {}]
    /\ UNCHANGED <<mode, flows, capture, channel, accept, cleaner>>

Next ==
    \/ \E p \in Connecting : Connect(p)
    \/ \E p \in Peers : SendTo(p)
    \/ \E h \in Handles : \/ \E p \in Peers, seq \in 0..SeqMod - 1, len \in 0..1, psh \in BOOLEAN :
                              Capture(h, p, seq, len, psh)
                          \/ Push(h) \/ CaptureEnds(h)
    \/ \E r \in Reals : Accept(r)
    \/ Tick \/ RecvFrom \/ PinTtl \/ Insert \/ AcceptEnds
    \/ Sweep \/ CloseSwept \/ CleanerEnds \/ BeginClose \/ Drain \/ CloseReals

Spec == Init /\ [][Next]_vars

Ending == (\E h \in Handles : CaptureEnds(h)) \/ (closed /\ AcceptEnds) \/ CleanerEnds
Accepting == PinTtl \/ Insert
Closing == Drain \/ CloseReals

(* A task that can end, and a close that has begun, go on.                 *)
FairSpec ==
    /\ Spec
    /\ WF_vars(Ending) /\ WF_vars(Accepting) /\ WF_vars(CloseSwept) /\ WF_vars(Closing)

-----------------------------------------------------------------------------
(* A handshake that accept(2) has returned. *)
Established(r) == real[r].state \notin {"free", "queued"}

(* The addresses that messages are delivered from. *)
Heard == {channel[i] : i \in 1..Len(channel)} \cup ({capture[h].from : h \in Handles} \ {Nobody})

(* Nothing is delivered from an address that never completed a real TCP    *)
(* connection: "nothing may be delivered from" an orphan (flow.rs).        *)
OnlyEstablished == \A p \in Heard : \E r \in Reals : real[r].peer = p /\ Established(r)

(* A real connection whose segments are kept on the host is where a sweep  *)
(* or a close will find it, unless a later one took its place or it came   *)
(* while the listener was being closed; and one in the table is pinned.    *)
TableOwns ==
    /\ \A r \in Reals : (real[r].state = "pinned" /\ ~closed) =>
        \/ accept.r = r \/ r \in cleaner.closing
        \/ flows[real[r].peer].conn = r
        \/ \E s \in Reals : s > r /\ real[s].peer = real[r].peer
    /\ \A p \in Peers : flows[p].conn # None =>
        real[flows[p].conn].peer = p /\ real[flows[p].conn].state \in {"pinned", "closed"}

(* After a close every task has ended, and the TTL of every connection has *)
(* been given back but of one superseded, or accepted too late to be found. *)
AllEnded ==
    closed =>
        /\ closer.pc = "done" /\ cleaner.pc = "end" /\ accept.pc = "end"
        /\ \A h \in Handles : capture[h].pc = "end"
        /\ \A r \in Reals : real[r].state = "pinned" =>
            flows[real[r].peer].conn = r \/ \E s \in Reals : s > r /\ real[s].peer = real[r].peer
-----------------------------------------------------------------------------
(* The inductive invariant of ProcessProofs.                               *)

(* Connections are made and accepted in the order of their numbers.        *)
Numbered ==
    /\ \A r \in Reals : real[r].state = "free" <=> real[r].peer = Nobody
    /\ \A r, s \in Reals : real[r].state # "free" /\ real[s].state = "free" => r < s
    /\ \A r, s \in Reals : Established(r) /\ ~Established(s) => r < s

(* The accept loop holds the latest one, and none between two. *)
AcceptSound ==
    /\ accept.pc \in {"accept", "end"} => accept.r = None
    /\ accept.pc \in {"pin", "insert"} =>
        accept.r \in Reals /\ Established(accept.r) /\ \A s \in Reals : Established(s) => s <= accept.r
    /\ accept.pc = "insert" => real[accept.r].state \in {"pinned", "closed"}

(* What the cleaner took out of the table it is still to close, and it is  *)
(* a connection, as what the closer took is; a capture task that waits for *)
(* room has a message.                                                     *)
TasksSound ==
    /\ cleaner.pc # "close" => cleaner.closing = {}
    /\ \A r \in cleaner.closing \cup closer.closing : Established(r)
    /\ mode = "dial" => Established(1)
    /\ \A h \in Handles : capture[h].pc = "push" => capture[h].from # Nobody

RawInv == TypeOK /\ Numbered /\ AcceptSound /\ TasksSound /\ OnlyEstablished /\ TableOwns
=============================================================================
