------------------------------- MODULE Session -------------------------------
(***************************************************************************)
(* One KCP session as its tasks see it (crates/kcp/src/session.rs and      *)
(* tx.rs): writers and a reader that block, the input path, the updater,   *)
(* the transmit task behind its bounded channel, and close().              *)
(*                                                                         *)
(* The KCP state machine behind the session mutex is reduced to what these *)
(* tasks tell apart: the writes not yet handed to the channel, the writes  *)
(* in flight, whether the peer's window is open, and the messages ready to *)
(* be read.  A write is one segment and one packet.  What is done under    *)
(* the mutex is one step; checks of `die', notifications and the polls of  *)
(* the transmit task's select! are steps of their own.                     *)
(***************************************************************************)
EXTENDS Naturals, Sequences, FiniteSets, SequencesExt, TokioNotify

CONSTANTS
    Writers,        \* tasks that call write()
    Readers,        \* tasks that call read(): one at most in kcptun
    MaxWrites,      \* bound on the writes of a run
    MaxMsgs,        \* bound on the messages the peer sends in a run
    SndWnd,         \* snd_wnd
    DEV_BACKLOG,    \* capacity of the channel
    OUTPUT_ROOM,    \* flush() emits only while this many slots are free
    MAX_BATCH_SIZE, \* packets of one send_batch()
    write_delay,    \* writes wait for the next update
    own_conn,       \* close() closes the socket
    SocketFails,    \* the socket may report write errors
    AtomicSelect    \* the two polls of the transmit task's select! are one
                    \* step, as on a runtime of one thread

VARIABLES
    snd_queue,      \* writes accepted and not yet in the channel
    in_flight,      \* writes emitted and not yet acknowledged
    open,           \* the congestion and the peer's window let flush() emit
    chan,           \* the packet channel
    tx,             \* the transmit task: "recv", "die", "parked", "send", "exited"
    txqueue,        \* its batch
    wire,           \* the writes the socket has taken
    conn_open,      \* the socket is not closed
    write_error,    \* the socket's write error is recorded
    write_notify, read_notify,
    writing,        \* of each writer: its write, or 0
    count,          \* writes begun so far
    accepted,       \* writes that returned Ok
    readable,       \* messages ready to be read
    arrived,        \* messages the peer has sent
    owed,           \* notifications the input path and the updater still owe
    die_once, die,
    closer,         \* close(): "away", "flush", "cancel", "conn", "done"
    final           \* history: packets the final flush put into the channel

kcpVars == <<snd_queue, in_flight, open>>
txVars == <<tx, txqueue, wire, write_error>>
writeVars == <<write_notify, writing, count, accepted>>
readVars == <<read_notify, readable, arrived>>
closeVars == <<die_once, die, closer, final, conn_open>>
vars == <<snd_queue, in_flight, open, chan, tx, txqueue, wire, write_error,
          write_notify, writing, count, accepted,
          read_notify, readable, arrived, owed,
          die_once, die, closer, final, conn_open>>

Writes == 1..MaxWrites

TypeOK ==
    /\ snd_queue \in Seq(Writes) /\ chan \in Seq(Writes) /\ txqueue \in Seq(Writes)
    /\ Len(snd_queue) + Cardinality(in_flight) <= SndWnd
    /\ Len(chan) <= DEV_BACKLOG /\ Len(txqueue) <= MAX_BATCH_SIZE
    /\ in_flight \subseteq Writes /\ wire \subseteq Writes
    /\ accepted \subseteq Writes /\ final \subseteq Writes
    /\ {open, write_error, die_once, die, conn_open} \subseteq BOOLEAN
    /\ tx \in {"recv", "die", "parked", "send", "exited"}
    /\ write_notify \in NotifyType(Writers) /\ read_notify \in NotifyType(Readers)
    /\ writing \in [Writers -> 0..MaxWrites] /\ count \in 0..MaxWrites
    /\ readable \in 0..MaxMsgs /\ arrived \in 0..MaxMsgs
    /\ owed \subseteq {"read", "write", "update"}
    /\ closer \in {"away", "flush", "cancel", "conn", "done"}

Init ==
    /\ snd_queue = <<>> /\ in_flight = {} /\ open = TRUE
    /\ chan = <<>> /\ tx = "recv" /\ txqueue = <<>> /\ wire = {}
    /\ conn_open = TRUE /\ write_error = FALSE
    /\ write_notify = Fresh(Writers) /\ read_notify = Fresh(Readers)
    /\ writing = [w \in Writers |-> 0] /\ count = 0 /\ accepted = {}
    /\ readable = 0 /\ arrived = 0 /\ owed = {}
    /\ die_once = FALSE /\ die = FALSE /\ closer = "away" /\ final = {}

-----------------------------------------------------------------------------
wait_snd(queue, flight) == Len(queue) + Cardinality(flight)

(* TxHandle::capacity(): a channel whose receiver is gone has room for     *)
(* everything, and loses it.                                               *)
capacity == IF tx = "exited" THEN MaxWrites + OUTPUT_ROOM ELSE DEV_BACKLOG - Len(chan)

(* Mutant: room for the packet in the buffer only, not for the one after.  *)
Emits_one_slot(queue, isopen) ==
    IF ~isopen \/ capacity < OUTPUT_ROOM - 1 THEN 0
    ELSE IF Len(queue) <= capacity THEN Len(queue) ELSE capacity + 1

(* How many of `queue' flush() emits: none without room for OUTPUT_ROOM    *)
(* packets (Deviation V18) or while the windows are closed.  The room is   *)
(* asked for before each segment, when the packet of the one before is     *)
(* still in the buffer: `capacity' segments pass.                          *)
Emits(queue, isopen) ==
    IF ~isopen \/ capacity < OUTPUT_ROOM THEN 0
    ELSE IF Len(queue) < capacity THEN Len(queue) ELSE capacity

(* TxHandle::send: a full channel drops what it is given.                  *)
send(out) ==
    LET all == chan \o out
    IN  SubSeq(all, 1, IF Len(all) < DEV_BACKLOG THEN Len(all) ELSE DEV_BACKLOG)

(* flush() with what is queued then; `isopen' is the state of the windows. *)
flush(queue, flight, isopen) ==
    LET k == Emits(queue, isopen)
        out == SubSeq(queue, 1, k)
    IN  /\ snd_queue' = SubSeq(queue, k + 1, Len(queue))
        /\ in_flight' = flight \cup ToSet(out)
        /\ chan' = IF tx = "exited" THEN chan ELSE send(out)

-----------------------------------------------------------------------------
(* write() starts a write, or goes round its loop: it registers, then      *)
(* gives up if an error is recorded or die is cancelled.                   *)
WriteEnter(w) ==
    /\ Starting(write_notify, w)
    /\ writing[w] = 0 => count < MaxWrites
    /\ count' = IF writing[w] = 0 THEN count + 1 ELSE count
    /\ IF write_error \/ die
       THEN /\ writing' = [writing EXCEPT ![w] = 0]
            /\ write_notify' = [Enable(write_notify, w) EXCEPT !.at[w] = "away"]
       ELSE /\ writing' = [writing EXCEPT ![w] = IF @ = 0 THEN count' ELSE @]
            /\ write_notify' = Enable(write_notify, w)
    /\ UNCHANGED <<kcpVars, chan, txVars, readVars, closeVars, owed, accepted>>

(* try_write(): the send window has room, and the write is accepted; it is *)
(* flushed at once unless writes are delayed.  die may have been cancelled *)
(* since the check.                                                        *)
WriteTry(w) ==
    /\ Looking(write_notify, w)
    /\ IF wait_snd(snd_queue, in_flight) >= SndWnd
       THEN /\ write_notify' = Await(write_notify, w)
            /\ UNCHANGED <<snd_queue, in_flight, chan, writing, accepted>>
       ELSE LET queue == Append(snd_queue, writing[w])
            IN  /\ IF wait_snd(queue, in_flight) >= SndWnd \/ ~write_delay
                   THEN flush(queue, in_flight, open)
                   ELSE snd_queue' = queue /\ UNCHANGED <<in_flight, chan>>
                /\ accepted' = accepted \cup {writing[w]}
                /\ writing' = [writing EXCEPT ![w] = 0]
                /\ write_notify' \in Drop(write_notify, w)
    /\ UNCHANGED <<open, txVars, readVars, closeVars, owed, count>>

(* Mutant: a blocked write() does not watch die. *)
WriteGiveUp_deaf(w) ==
    /\ Waiting(write_notify, w)
    /\ ~die
    /\ write_notify' \in Drop(write_notify, w)
    /\ writing' = [writing EXCEPT ![w] = 0]
    /\ UNCHANGED <<kcpVars, chan, txVars, readVars, closeVars, owed, count, accepted>>

(* A blocked write() ends: its deadline passes, or an error or die is      *)
(* signalled.                                                              *)
WriteGiveUp(w) ==
    /\ Waiting(write_notify, w)
    /\ write_notify' \in Drop(write_notify, w)
    /\ writing' = [writing EXCEPT ![w] = 0]
    /\ UNCHANGED <<kcpVars, chan, txVars, readVars, closeVars, owed, count, accepted>>

-----------------------------------------------------------------------------
ReadEnter(r) ==
    /\ Starting(read_notify, r)
    /\ read_notify' = Enable(read_notify, r)
    /\ UNCHANGED <<kcpVars, chan, txVars, writeVars, closeVars, owed, readable, arrived>>

(* try_read(): a message, also of a closed session, or nothing. *)
ReadLook(r) ==
    /\ Looking(read_notify, r)
    /\ IF readable > 0
       THEN /\ readable' = readable - 1
            /\ read_notify' \in Drop(read_notify, r)
       ELSE /\ read_notify' = Await(read_notify, r)
            /\ UNCHANGED readable
    /\ UNCHANGED <<kcpVars, chan, txVars, writeVars, closeVars, owed, arrived>>

(* A blocked read() ends: deadline, read error or die. *)
ReadGiveUp(r) ==
    /\ Waiting(read_notify, r)
    /\ read_notify' \in Drop(read_notify, r)
    /\ UNCHANGED <<kcpVars, chan, txVars, writeVars, closeVars, owed, readable, arrived>>

-----------------------------------------------------------------------------
(* Mutant: decided before the packet is parsed. *)
Wakeups_stale(new, queue, flight) ==
    (IF readable > 0 THEN {"read"} ELSE {})
        \cup (IF wait_snd(snd_queue, in_flight) < SndWnd THEN {"write"} ELSE {})

(* Wakeups::of, decided under the lock. *)
Wakeups(new, queue, flight) ==
    (IF readable + new > 0 THEN {"read"} ELSE {})
        \cup (IF wait_snd(queue, flight) < SndWnd THEN {"write"} ELSE {})

(* kcp_input(): writes on the wire are acknowledged, messages arrive, the  *)
(* windows change; input() may flush.                                      *)
Input(acks, new, isopen) ==
    /\ owed \cap {"read", "write"} = {}
    /\ arrived + new <= MaxMsgs
    /\ open' = isopen
    /\ readable' = readable + new
    /\ arrived' = arrived + new
    /\ \/ flush(snd_queue, in_flight \ acks, isopen)
       \/ UNCHANGED <<snd_queue, chan>> /\ in_flight' = in_flight \ acks
    /\ owed' = owed \cup Wakeups(new, snd_queue', in_flight')
    /\ UNCHANGED <<txVars, writeVars, closeVars, read_notify>>

(* The notifications, after the lock. *)
WakeReader ==
    /\ "read" \in owed
    /\ owed' = owed \ {"read"}
    /\ read_notify' \in NotifyOne(read_notify)
    /\ UNCHANGED <<kcpVars, chan, txVars, writeVars, closeVars, readable, arrived>>

WakeWriter(from) ==
    /\ from \in owed \cap {"write", "update"}
    /\ owed' = owed \ {from}
    /\ write_notify' \in NotifyOne(write_notify)
    /\ UNCHANGED <<kcpVars, chan, txVars, readVars, closeVars, writing, count, accepted>>

(* One pass of Updater::run, which stops on die; the notification of the   *)
(* pass before comes first if it is still owed.                            *)
Update ==
    /\ ~die
    /\ flush(snd_queue, in_flight, open)
    /\ write_notify' \in IF "update" \in owed THEN NotifyOne(write_notify) ELSE {write_notify}
    /\ owed' = (owed \ {"update"}) \cup
                 IF wait_snd(snd_queue', in_flight') < SndWnd THEN {"update"} ELSE {}
    /\ UNCHANGED <<open, txVars, readVars, closeVars, writing, count, accepted>>

-----------------------------------------------------------------------------
(* Mutant: a batch is sent only when it is full. *)
TxRecv_full_only ==
    /\ tx = "recv"
    /\ IF chan # <<>>
       THEN LET batch == Append(txqueue, Head(chan))
            IN  /\ chan' = Tail(chan)
                /\ txqueue' = batch
                /\ tx' = IF Len(batch) >= MAX_BATCH_SIZE THEN "send" ELSE "recv"
       ELSE /\ tx' = IF AtomicSelect THEN (IF die THEN "exited" ELSE "parked") ELSE "die"
            /\ UNCHANGED <<chan, txqueue>>
    /\ UNCHANGED <<kcpVars, wire, write_error, writeVars, readVars, closeVars, owed>>

(* TxPipeline::run: the select! polls the channel first. *)
TxRecv ==
    /\ tx = "recv"
    /\ IF chan # <<>>
       THEN LET batch == Append(txqueue, Head(chan))
            IN  /\ chan' = Tail(chan)
                /\ txqueue' = batch
                /\ tx' = IF chan' = <<>> \/ Len(batch) >= MAX_BATCH_SIZE THEN "send" ELSE "recv"
       ELSE /\ tx' = IF AtomicSelect THEN (IF die THEN "exited" ELSE "parked") ELSE "die"
            /\ UNCHANGED <<chan, txqueue>>
    /\ UNCHANGED <<kcpVars, wire, write_error, writeVars, readVars, closeVars, owed>>

(* Mutant: a closed session's transmit task goes on waiting. *)
TxDie_ignored ==
    /\ tx = "die"
    /\ tx' = "parked"
    /\ UNCHANGED <<chan, kcpVars, txqueue, wire, write_error, writeVars, readVars, closeVars, owed>>

(* It then polls die: cancelled, the task ends and the channel with all    *)
(* that is in it by now is dropped; otherwise it waits for either.         *)
TxDie ==
    /\ tx = "die"
    /\ IF die THEN tx' = "exited" /\ chan' = <<>>
              ELSE tx' = "parked" /\ UNCHANGED chan
    /\ UNCHANGED <<kcpVars, txqueue, wire, write_error, writeVars, readVars, closeVars, owed>>

TxWake ==
    /\ tx = "parked"
    /\ chan # <<>> \/ die
    /\ tx' = "recv"
    /\ UNCHANGED <<kcpVars, chan, txqueue, wire, write_error, writeVars, readVars, closeVars, owed>>

(* transmit(): the socket takes the batch, or fails after some of it; a    *)
(* closed socket takes nothing.  The batch is gone either way.             *)
TxSend(taken) ==
    /\ tx = "send"
    /\ tx' = "recv"
    /\ txqueue' = <<>>
    /\ taken <= Len(txqueue)
    /\ ~conn_open => taken = 0
    /\ conn_open /\ ~SocketFails => taken = Len(txqueue)
    /\ wire' = wire \cup ToSet(SubSeq(txqueue, 1, taken))
    /\ write_error' = (write_error \/ taken < Len(txqueue))
    /\ UNCHANGED <<kcpVars, chan, writeVars, readVars, closeVars, owed>>

-----------------------------------------------------------------------------
(* close(): the first call goes on, *)
CloseOnce ==
    /\ closer = "away"
    /\ closer' = "flush"
    /\ die_once' = TRUE
    /\ UNCHANGED <<kcpVars, chan, txVars, writeVars, readVars, owed, die, final, conn_open>>

(* flushes (Deviation V05: before die), *)
CloseFlush ==
    /\ closer = "flush"
    /\ closer' = "cancel"
    /\ flush(snd_queue, in_flight, open)
    /\ final' = in_flight' \ in_flight
    /\ UNCHANGED <<open, txVars, writeVars, readVars, owed, die_once, die, conn_open>>

(* cancels die, *)
CloseDie ==
    /\ closer = "cancel"
    /\ closer' = "conn"
    /\ die' = TRUE
    /\ UNCHANGED <<kcpVars, chan, txVars, writeVars, readVars, owed, die_once, final, conn_open>>

(* and closes a socket of its own (the listener's part is in Listener). *)
CloseConn ==
    /\ closer = "conn"
    /\ closer' = "done"
    /\ conn_open' = ~own_conn
    /\ UNCHANGED <<kcpVars, chan, txVars, writeVars, readVars, owed, die_once, die, final>>

Next ==
    \/ \E w \in Writers : WriteEnter(w) \/ WriteTry(w) \/ WriteGiveUp(w)
    \/ \E r \in Readers : ReadEnter(r) \/ ReadLook(r) \/ ReadGiveUp(r)
    \/ \E acks \in SUBSET (in_flight \cap wire), new \in 0..1, isopen \in BOOLEAN :
         Input(acks, new, isopen)
    \/ WakeReader \/ \E from \in owed : WakeWriter(from)
    \/ Update
    \/ TxRecv \/ TxDie \/ TxWake \/ \E taken \in 0..Len(txqueue) : TxSend(taken)
    \/ CloseOnce \/ CloseFlush \/ CloseDie \/ CloseConn

(* Tasks that can run do run, and the mutex is free again and again.  The  *)
(* updater's timer fires until die, out of step with the windows: if they  *)
(* are open again and again, some pass finds them open.  A peer            *)
(* acknowledges what it gets and opens its window in the end (KcpLink      *)
(* shows that it does).  A deadline need not be set, close() need not be   *)
(* called, nobody has to write.                                            *)
WriterRuns(w) ==
    \/ writing[w] # 0 /\ WriteEnter(w)
    \/ WriteTry(w)
    \/ (die \/ write_error) /\ WriteGiveUp(w)
Wakes == WakeReader \/ \E from \in owed : WakeWriter(from)
Flushes == open /\ Update
Transmits == TxRecv \/ TxDie \/ TxWake \/ \E taken \in 0..Len(txqueue) : TxSend(taken)
Closes == CloseFlush \/ CloseDie \/ CloseConn
Acknowledges == ~die /\ Input(in_flight \cap wire, 0, TRUE)

TaskFairness ==
    /\ \A w \in Writers : WF_vars(WriterRuns(w))
    /\ WF_vars(Wakes) /\ WF_vars(Transmits) /\ WF_vars(Closes)
    /\ SF_vars(Flushes) /\ SF_vars(Acknowledges)

Spec == Init /\ [][Next]_vars
FairSpec == Spec /\ TaskFairness

-----------------------------------------------------------------------------
(* The reader never sleeps on a message: when it waits and there is one,   *)
(* a wake-up is on its way.  read() is called by one task at a time in     *)
(* kcptun; with two, the second could sleep.                               *)
NoSleepingReader ==
    \A r \in Readers : read_notify.at[r] = "parked" /\ readable > 0 => "read" \in owed

(* No packet that flush() has committed to is dropped (Deviation V18): a   *)
(* write that is in flight has been sent, or is in the channel or in the   *)
(* batch, until an error of the socket is recorded or the transmit task    *)
(* has ended.                                                              *)
NothingDropped ==
    tx # "exited" /\ ~write_error =>
        in_flight \subseteq wire \cup ToSet(chan) \cup ToSet(txqueue)

(* Every write() has returned. *)
NoneWriting == \A w \in Writers : writing[w] = 0

(* What write() accepted has gone out, unless the session is done for. *)
AllSent == accepted \subseteq wire \/ die \/ write_error

(* close() has retired the transmit task. *)
Retired == closer # "away" => tx = "exited"

(* What the doc comment of close() says of Deviation V05: the transmit     *)
(* task drains what the final flush queued, "so the last packets are       *)
(* always sent".                                                           *)
FinalFlushSent == tx = "exited" => final \subseteq wire
=============================================================================
