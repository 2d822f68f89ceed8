----------------------------- MODULE SmuxWindow ------------------------------
(***************************************************************************)
(* The sliding window of a smux version 2 stream, one direction of it      *)
(* (crates/smux/src/stream.rs): write_v2() on one side, read_chunk() and   *)
(* the task that sends window updates (D35) on the other, the two          *)
(* connected by sessions that keep frames in order.                        *)
(*                                                                         *)
(* Data is counted in units; the counters wrap at M, as the u32 ones do at *)
(* 2^32.  The token bucket and the end of a stream are in SmuxSession.     *)
(***************************************************************************)
EXTENDS KcpSeq, Sequences, SequencesExt

CONSTANTS
    Writers,                \* tasks that call write(): one in kcptun
    Lengths,                \* lengths of their writes
    Total,                  \* bound on what they write altogether
    frame_size,             \* max_frame_size of the writing side
    max_stream_buffer,      \* of the reading side
    INITIAL_PEER_WINDOW,
    Begins                  \* where the counters may stand at first: 0 for a new stream

VARIABLES
    num_written, peer_consumed, peer_window,
    update_event,       \* holds a permit
    writer,             \* of each writer: where it is, what is left to write, what the
                        \* window has granted, and the size of the frame at hand
    written,            \* what the writers have begun to write
    data,               \* data frames under way
    updates,            \* window updates under way
    chunks,             \* received and unread
    num_read, incr,
    pending,            \* pending_update.consumed
    sender              \* the update task: "none", "take", or the update it sends

writeVars == <<num_written, peer_consumed, peer_window, update_event, writer, written>>
readVars == <<num_read, incr, pending>>
vars == <<num_written, peer_consumed, peer_window, update_event, writer, written, data, updates,
          chunks, num_read, incr, pending, sender>>

Sum(sizes) ==
    LET upto[i \in 0..Len(sizes)] == IF i = 0 THEN 0 ELSE upto[i - 1] + sizes[i]
    IN  upto[Len(sizes)]

TypeOK ==
    /\ {num_written, peer_consumed, num_read, incr, pending} \subseteq Seq32
    /\ peer_window \in {INITIAL_PEER_WINDOW, max_stream_buffer}
    /\ update_event \in BOOLEAN
    /\ writer \in [Writers -> [pc: {"idle", "window", "frame", "count", "wait", "failed"},
                               left: 0..Total, quota: 0..Total, size: 0..frame_size]]
    /\ written \in 0..Total
    /\ data \in Seq(1..frame_size) /\ chunks \in Seq(1..frame_size) /\ updates \in Seq(Seq32)
    /\ sender \in {"none", "take", "send"} \X Seq32

Idle == [pc |-> "idle", left |-> 0, quota |-> 0, size |-> 0]

(* A new stream, or one that has carried as much as the counters can count *)
(* at a moment when all is read and told.                                  *)
Init ==
    /\ num_read \in Begins /\ num_written = num_read /\ peer_consumed = num_read
    /\ peer_window = IF num_read = 0 THEN INITIAL_PEER_WINDOW ELSE max_stream_buffer
    /\ update_event = FALSE
    /\ writer = [w \in Writers |-> Idle] /\ written = 0
    /\ data = <<>> /\ updates = <<>> /\ chunks = <<>>
    /\ incr = 0 /\ pending = 0 /\ sender = <<"none", 0>>

-----------------------------------------------------------------------------
Write(w, len) ==
    /\ writer[w].pc = "idle"
    /\ written + len <= Total
    /\ written' = written + len
    /\ writer' = [writer EXCEPT ![w] = [Idle EXCEPT !.pc = "window", !.left = len]]
    /\ UNCHANGED <<num_written, peer_consumed, peer_window, update_event, data, updates,
                   chunks, readVars, sender>>

(* Mutant: the operands swapped. *)
inflight_swapped == itimediff(peer_consumed, num_written)

inflight == itimediff(num_written, peer_consumed)

(* Mutant: the window counts from what was written last. *)
win_ignores_inflight == peer_window

win == peer_window - inflight

(* write_v2() looks at the window: it fails, has leave to send, or waits. *)
WriteWindow(w) ==
    /\ writer[w].pc = "window"
    /\ writer' = [writer EXCEPT ![w] =
         IF inflight < 0 THEN [Idle EXCEPT !.pc = "failed"]
         ELSE IF win <= 0 THEN [@ EXCEPT !.pc = "wait"]
         ELSE [@ EXCEPT !.pc = "frame", !.quota = Min({win, writer[w].left})]]
    /\ UNCHANGED <<num_written, peer_consumed, peer_window, update_event, written, data,
                   updates, chunks, readVars, sender>>

(* write_frame(): the frame is handed to the connection,                   *)
WriteFrame(w) ==
    LET size == Min({writer[w].quota, frame_size})
    IN  /\ writer[w].pc = "frame"
        /\ data' = Append(data, size)
        /\ writer' = [writer EXCEPT ![w].pc = "count", ![w].size = size]
        /\ UNCHANGED <<num_written, peer_consumed, peer_window, update_event, written, updates,
                       chunks, readVars, sender>>

(* Mutant: the count does not wrap. *)
WriteCount_unwrapped(w) ==
    LET left == writer[w].left - writer[w].size
        quota == writer[w].quota - writer[w].size
    IN  /\ writer[w].pc = "count"
        /\ num_written' = num_written + writer[w].size
        /\ writer' = [writer EXCEPT ![w] =
             IF left = 0 THEN Idle
             ELSE [pc |-> IF quota > 0 THEN "frame" ELSE "wait",
                   left |-> left, quota |-> quota, size |-> 0]]
        /\ UNCHANGED <<peer_consumed, peer_window, update_event, written, data, updates,
                       chunks, readVars, sender>>

(* and then counted.                                                       *)
WriteCount(w) ==
    LET left == writer[w].left - writer[w].size
        quota == writer[w].quota - writer[w].size
    IN  /\ writer[w].pc = "count"
        /\ num_written' = WrappingAdd(num_written, writer[w].size)
        /\ writer' = [writer EXCEPT ![w] =
             IF left = 0 THEN Idle
             ELSE [pc |-> IF quota > 0 THEN "frame" ELSE "wait",
                   left |-> left, quota |-> quota, size |-> 0]]
        /\ UNCHANGED <<peer_consumed, peer_window, update_event, written, data, updates,
                       chunks, readVars, sender>>

WriteWake(w) ==
    /\ writer[w].pc = "wait" /\ update_event
    /\ update_event' = FALSE
    /\ writer' = [writer EXCEPT ![w].pc = "window"]
    /\ UNCHANGED <<num_written, peer_consumed, peer_window, written, data, updates, chunks,
                   readVars, sender>>

(* cmdUPD arrives: update(). *)
Update ==
    /\ updates # <<>>
    /\ updates' = Tail(updates)
    /\ peer_consumed' = Head(updates)
    /\ peer_window' = max_stream_buffer
    /\ update_event' = TRUE
    /\ UNCHANGED <<num_written, writer, written, data, chunks, readVars, sender>>

-----------------------------------------------------------------------------
(* cmdPSH arrives: push_bytes(). *)
PushBytes ==
    /\ data # <<>>
    /\ data' = Tail(data)
    /\ chunks' = Append(chunks, Head(data))
    /\ UNCHANGED <<writeVars, updates, readVars, sender>>

(* Mutant: the first read of a stream is like any other. *)
due_not_first(n, read, more) == more >= max_stream_buffer \div 2

(* account_read(): an update is due after half a window, and on the first  *)
(* read.  It is told by its count, 0 if none is due.                       *)
due(n, read, more) == more >= max_stream_buffer \div 2 \/ read = n

(* pop_chunk() with n units, none if there is nothing, and its             *)
(* account_read(); read_chunk() queues the update.                         *)
ReadChunk ==
    LET n == IF chunks = <<>> THEN 0 ELSE Head(chunks)
        read == WrappingAdd(num_read, n)
        more == WrappingAdd(incr, n)
        consumed == IF due(n, read, more) THEN read ELSE 0
    IN  /\ chunks' = IF chunks = <<>> THEN chunks ELSE Tail(chunks)
        /\ num_read' = read
        /\ incr' = IF due(n, read, more) THEN 0 ELSE more
        /\ IF n > 0 /\ consumed > 0
           THEN /\ pending' = consumed
                /\ sender' = IF sender[1] = "none" THEN <<"take", 0>> ELSE sender
           ELSE UNCHANGED <<pending, sender>>
        /\ UNCHANGED <<writeVars, data, updates>>

(* The update task takes what is due, until nothing is,                    *)
SenderTake ==
    /\ sender[1] = "take"
    /\ pending' = 0
    /\ sender' = IF pending = 0 THEN <<"none", 0>> ELSE <<"send", pending>>
    /\ UNCHANGED <<writeVars, data, updates, chunks, num_read, incr>>

(* and sends it.                                                           *)
SenderSend ==
    /\ sender[1] = "send"
    /\ updates' = Append(updates, sender[2])
    /\ sender' = <<"take", 0>>
    /\ UNCHANGED <<writeVars, data, chunks, readVars>>

Next ==
    \/ \E w \in Writers :
         \/ \E len \in Lengths : Write(w, len)
         \/ WriteWindow(w) \/ WriteFrame(w) \/ WriteCount(w) \/ WriteWake(w)
    \/ Update \/ PushBytes \/ ReadChunk \/ SenderTake \/ SenderSend

(* The tasks run, the connection delivers, and somebody reads; nobody has  *)
(* to write.                                                               *)
WriterRuns(w) == WriteWindow(w) \/ WriteFrame(w) \/ WriteCount(w) \/ WriteWake(w)
Reads == chunks # <<>> /\ ReadChunk
Sends == SenderTake \/ SenderSend

Fairness ==
    /\ \A w \in Writers : WF_vars(WriterRuns(w))
    /\ WF_vars(Update) /\ WF_vars(PushBytes) /\ WF_vars(Reads) /\ WF_vars(Sends)

Spec == Init /\ [][Next]_vars
FairSpec == Spec /\ Fairness

-----------------------------------------------------------------------------
(* The most that a writer may be ahead of the reader. *)
Reach == Max({INITIAL_PEER_WINDOW, max_stream_buffer})

(* What is under way and unread fits the window the reader gives, or the   *)
(* one every stream begins with: write_v2() never sends more.              *)
WindowRespected == Sum(data) + Sum(chunks) <= Reach

(* The "security check for malformed data" of write_v2() does not fail on  *)
(* a peer that reports what it has read.                                   *)
HonestPeer == \A w \in Writers : writer[w].pc # "failed"

(* Every write() has returned. *)
NoneWriting == \A w \in Writers : writer[w].pc = "idle"

-----------------------------------------------------------------------------
(* What the window rests on with one writer: an inductive invariant, in    *)
(* parts.                                                                  *)

(* How far a count is behind what the writer has handed over, the frame    *)
(* that it has still to count included.                                    *)
Uncounted(w) == IF writer[w].pc = "count" THEN writer[w].size ELSE 0
Handed(w) == WrappingAdd(num_written, Uncounted(w))
Behind(w, count) == WrappingSub(Handed(w), count)

WriterSound(w) ==
    LET p == writer[w]
    IN  /\ p.pc \in {"window", "wait"} => p.left > 0
        /\ p.pc \in {"frame", "count"} => p.quota > 0 /\ p.quota <= p.left /\ p.quota <= Reach
        /\ p.pc = "count" => p.size > 0 /\ p.size <= p.quota
        /\ p.pc # "failed"

(* What the writer has leave to hand over, with what it has. *)
Granted(w) ==
    LET p == writer[w]
    IN  /\ p.pc = "frame" => Behind(w, peer_consumed) + p.quota <= Reach
        /\ p.pc = "count" => Behind(w, peer_consumed) + p.quota - p.size <= Reach
        /\ Behind(w, peer_consumed) <= Reach

(* What the reader tells arrives in the order of its reading. *)
NoEarlier(w, x, y) == Behind(w, x) <= Behind(w, y)
Newest(w, x) ==
    NoEarlier(w, x, peer_consumed) /\ \A i \in DOMAIN updates : NoEarlier(w, x, updates[i])
Sending == sender[1] = "send"

ToldInOrder(w) ==
    /\ \A i \in DOMAIN updates :
         /\ NoEarlier(w, updates[i], peer_consumed)
         /\ \A j \in i..Len(updates) : NoEarlier(w, updates[j], updates[i])
    /\ Sending => Newest(w, sender[2]) /\ NoEarlier(w, num_read, sender[2])
    /\ pending # 0 => Newest(w, pending) /\ NoEarlier(w, num_read, pending)
    /\ pending # 0 /\ Sending => NoEarlier(w, pending, sender[2])
    /\ Newest(w, num_read)

(* Nothing is lost between the two counters. *)
AllUnderWay(w) == Sum(data) + Sum(chunks) = Behind(w, num_read)

WindowInv ==
    TypeOK /\ \A w \in Writers : WriterSound(w) /\ Granted(w) /\ ToldInOrder(w) /\ AllUnderWay(w)
=============================================================================
