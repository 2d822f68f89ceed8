------------------------------- MODULE MCProxy -------------------------------
(***************************************************************************)
(* A proxied connection from the socket to the smux session, on small      *)
(* instances and with the fairness of the code's tasks.  Its five models   *)
(* share no state and are checked side by side: `part' says which of them  *)
(* a behaviour is about, and the others are absent.                        *)
(*   "pipe"   - Pipe, the task that copies both ways;                      *)
(*   "window" - SmuxWindow, the flow control of version 2, with counters   *)
(*              of four bits;                                              *)
(*   "send"   - SmuxSend, the way of a write through the shaper;           *)
(*   "qpp"    - Qpp, the masking of a stream's bytes;                      *)
(*   "comp"   - Comp, the framing below the session.                       *)
(***************************************************************************)
EXTENDS Integers

CONSTANTS
    close_wait, socket_stall, watch, Cap, OutCap, Quarter, MaxSent, first_polled,   \* Pipe
    Writers, Lengths, Total, frame_size, max_stream_buffer, INITIAL_PEER_WINDOW, Begins,
    Half,                                                         \* SmuxWindow and SmuxSend
    Sids, Ctrl, LastId, MAX_SHAPER_SIZE,                          \* SmuxSend
    QppSlices, QppBytes, MaxFlush, PAD_SWITCH,                    \* Qpp
    Slices, MaxBytes, MAX_BLOCK_SIZE                              \* Comp

(* The clocks of Timing, of which the watch is the shorter and not zero    *)
(* (MIN_WATCH), -closewait, zero for none, and the buffers.                *)
ASSUME PipeAssumption ==
    /\ {close_wait, socket_stall, Cap, OutCap, MaxSent} \subseteq Nat
    /\ watch \in 1..socket_stall
    /\ first_polled \in {"up", "down"}

(* One task writes to a stream, and never nothing; the windows are an i32  *)
(* (verify_config: MAX_BUFFER_LIMIT), half of what a counter counts.       *)
ASSUME WindowAssumption ==
    /\ Half \in Nat /\ Half > 1 /\ Begins \subseteq 0..2 * Half - 1
    /\ INITIAL_PEER_WINDOW \in 0..Half - 1 /\ max_stream_buffer \in 0..Half - 1
    /\ Lengths \subseteq Nat \ {0} /\ Total \in Nat /\ frame_size \in Nat \ {0}
    /\ \E w \in Writers : Writers = {w}

(* A word is not empty, and neither is what is written. *)
ASSUME QppAssumption ==
    /\ PAD_SWITCH \in Nat \ {0} /\ QppSlices \subseteq Nat \ {0} /\ {QppBytes, MaxFlush} \subseteq Nat

ASSUME CompAssumption ==
    /\ MAX_BLOCK_SIZE \in Nat \ {0} /\ Slices \subseteq Nat \ {0} /\ MaxBytes \in Nat

VARIABLES
    part,
    far, inq, outq, copy, write_fut, life, grace, tick, watching, unsent, moved,
    drained, signalled, task, armed, why, aborted, took, fresh, over,   \* Pipe
    num_written, peer_consumed, peer_window, update_event, writer, written,
    data, updates, chunks, num_read, incr, pending, sender,   \* SmuxWindow
    writes, request_id, shaper_slots, waiters, shaper, rr_list, next, shaper_pending, send,
    answered, finned, bypassed, die, socket_write_error,          \* SmuxSend
    slice, acked, obuf, staged, wprng, wire, rprng, plain, end, flushes,   \* Qpp
    given, wrote_stream_header, werr, framed, conn, read_header, expect, cut, decoded, got,
    rerr   \* Comp

P == INSTANCE Pipe
W == INSTANCE SmuxWindow

(* The data of one stream may be given up. *)
Impatient == {[sid |-> "s1", class |-> "data"]}
S == INSTANCE SmuxSend WITH task <- writes, streams <- shaper, SessionEnds <- TRUE
Q == INSTANCE Qpp WITH Slices <- QppSlices, MaxBytes <- QppBytes
C == INSTANCE Comp WITH Writes <- Slices, wire <- framed

pipeVars == <<far, inq, outq, copy, write_fut, life, grace, tick, watching, unsent, moved,
              drained, signalled, task, armed, why, aborted, took, fresh, over>>
windowVars == <<num_written, peer_consumed, peer_window, update_event, writer, written,
                data, updates, chunks, num_read, incr, pending, sender>>
sendVars == <<writes, request_id, shaper_slots, waiters, shaper, rr_list, next,
              shaper_pending, send, answered, finned, bypassed, die, socket_write_error>>
qppVars == <<slice, acked, obuf, staged, wprng, wire, rprng, plain, end, flushes>>
compVars == <<given, wrote_stream_header, werr, framed, conn, read_header, expect, cut,
              decoded, got, rerr>>

(* The parts that a behaviour is not about. *)
NoPipe ==
    /\ far = 0 /\ inq = 0 /\ outq = 0 /\ copy = 0 /\ write_fut = 0 /\ life = 0 /\ grace = 0
    /\ tick = 0 /\ watching = 0 /\ unsent = 0 /\ moved = 0 /\ drained = 0 /\ signalled = 0
    /\ task = 0 /\ armed = 0 /\ why = 0 /\ aborted = 0 /\ took = 0 /\ fresh = 0
    /\ over = 0
NoWindow ==
    /\ num_written = 0 /\ peer_consumed = 0 /\ peer_window = 0 /\ update_event = 0 /\ writer = 0
    /\ written = 0 /\ data = 0 /\ updates = 0 /\ chunks = 0 /\ num_read = 0 /\ incr = 0
    /\ pending = 0 /\ sender = 0
NoSend ==
    /\ writes = 0 /\ request_id = 0 /\ shaper_slots = 0 /\ waiters = 0 /\ shaper = 0
    /\ rr_list = 0 /\ next = 0 /\ shaper_pending = 0 /\ send = 0 /\ answered = 0 /\ finned = 0
    /\ bypassed = 0 /\ die = 0 /\ socket_write_error = 0
NoQpp ==
    /\ slice = 0 /\ acked = 0 /\ obuf = 0 /\ staged = 0 /\ wprng = 0 /\ wire = 0 /\ rprng = 0
    /\ plain = 0 /\ end = 0 /\ flushes = 0
NoComp ==
    /\ given = 0 /\ wrote_stream_header = 0 /\ werr = 0 /\ framed = 0 /\ conn = 0
    /\ read_header = 0 /\ expect = 0 /\ cut = 0 /\ decoded = 0 /\ got = 0 /\ rerr = 0

Init ==
    /\ part \in {"pipe", "window", "send", "qpp", "comp"}
    /\ IF part = "pipe" THEN P!Init ELSE NoPipe
    /\ IF part = "window" THEN W!Init ELSE NoWindow
    /\ IF part = "send" THEN S!Init ELSE NoSend
    /\ IF part = "qpp" THEN Q!Init ELSE NoQpp
    /\ IF part = "comp" THEN C!Init ELSE NoComp

Next ==
    /\ UNCHANGED part
    /\ \/ part = "pipe" /\ P!Next /\ UNCHANGED <<windowVars, sendVars, qppVars, compVars>>
       \/ part = "window" /\ W!Next /\ UNCHANGED <<pipeVars, sendVars, qppVars, compVars>>
       \/ part = "send" /\ S!Next /\ UNCHANGED <<pipeVars, windowVars, qppVars, compVars>>
       \/ part = "qpp" /\ Q!Next /\ UNCHANGED <<pipeVars, windowVars, sendVars, compVars>>
       \/ part = "comp" /\ C!Next /\ UNCHANGED <<pipeVars, windowVars, sendVars, qppVars>>

(* The fairness of the part at hand: what its FairSpec says. *)
Fairness ==
    /\ WF_pipeVars(part = "pipe" /\ P!Poll) /\ WF_pipeVars(part = "pipe" /\ P!Tick)
    /\ \A w \in Writers : WF_windowVars(part = "window" /\ W!WriterRuns(w))
    /\ WF_windowVars(part = "window" /\ W!Update) /\ WF_windowVars(part = "window" /\ W!PushBytes)
    /\ WF_windowVars(part = "window" /\ W!Reads) /\ WF_windowVars(part = "window" /\ W!Sends)
    /\ WF_sendVars(part = "send" /\ S!Sender)
    /\ \A t \in S!Tasks : WF_sendVars(part = "send" /\ S!Writer(t))

vars == <<part, pipeVars, windowVars, sendVars, qppVars, compVars>>

Spec == Init /\ [][Next]_vars

FairSpec == Spec /\ Fairness

-----------------------------------------------------------------------------
(* The state of the part at hand has its type, and a direction that waits  *)
(* for its source holds no copy buffer (D17).                              *)
Typed ==
    CASE part = "pipe" -> P!TypeOK /\ P!IdleHoldsNoBuffer
      [] part = "window" -> W!TypeOK
      [] part = "send" -> S!TypeOK
      [] part = "qpp" -> Q!TypeOK
      [] part = "comp" -> C!TypeOK

(* A socket closed in order, not reset, has been given everything the      *)
(* stream received, up to the stream's own end ("so the truncation reaches *)
(* the application as ECONNRESET", pipe_with and undelivered).             *)
CleanEndComplete == part = "pipe" => P!CleanEndComplete

(* Nobody is cut off early.  Rule 2: the direction that goes on is given   *)
(* the whole grace.  Rule 6: when it ends the pipe, the socket's far side  *)
(* has taken nothing for the stall limit less one probe period, except     *)
(* what it took after the watch had lapsed with the end signal on record   *)
(* and before the next probe.  That the signal itself has lasted for the   *)
(* limit is not said here: it need not have (MCPause).                     *)
Patience == part = "pipe" => P!GraceGiven /\ P!StallPatience

(* Every byte arrives once and in order.  A retried write hands over every *)
(* unit once: what was read and not written is what the direction holds    *)
(* (poll_write of SmuxStream).  A byte is masked and unmasked with the     *)
(* same byte of the same random word, however writes are cut up, retried   *)
(* and flushed and reads cut up otherwise (QppStream, "successive calls    *)
(* stay byte-aligned however the caller chops the stream up").             *)
(* Chunks are taken apart where they were put together, and their stream   *)
(* is found corrupt only when it ends inside one (CompStream).             *)
BytesIntact ==
    CASE part = "pipe" -> P!NoneTwice
      [] part = "qpp" -> Q!BytesRight
      [] part = "comp" -> C!FramesRight
      [] OTHER -> TRUE

(* What is under way and unread fits the window the reader gives, or the   *)
(* one every stream begins with; and the "security check for malformed     *)
(* data" of write_v2() does not fail on a peer that reports what it has    *)
(* read, also when the counters wrap.                                      *)
WindowKept == part = "window" => W!WindowRespected /\ W!HonestPeer

(* A pipe ends once its stream's far side has finished or gone, or its     *)
(* socket has failed, whatever the readers do (V24).                       *)
PipeEnds == <>[](part = "pipe" => P!Over)

(* A write() ends: no window update that is needed is missing "as long as  *)
(* the consumer continues reading data" (account_read), and the shaper     *)
(* answers every writer, with the frame written, the session closed or the *)
(* connection failed.                                                      *)
WritesEnd == <>[](/\ part = "window" => W!NoneWriting
                  /\ part = "send" => S!Returned)
=============================================================================
