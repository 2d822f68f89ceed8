----------------------------- MODULE SmuxSession -----------------------------
(***************************************************************************)
(* The receiving side of a smux session and the life of its streams        *)
(* (crates/smux/src/session.rs and stream.rs): recv_loop and the token     *)
(* bucket it reads under, the readers of the streams, close_write(),       *)
(* close() and Drop of a stream, keepalive and close() of the session.     *)
(*                                                                         *)
(* A payload is its length.  A step is what is done under one lock or with *)
(* one atomic operation; on a runtime of one thread (AtomicPoll) a task    *)
(* that is between two awaits is not interrupted.  Window updates are in   *)
(* SmuxWindow.                                                             *)
(***************************************************************************)
EXTENDS Integers, Sequences, FiniteSets, FiniteSetsExt, SequencesExt, TokioNotify

CONSTANTS
    Streams,            \* stream ids; either side opens them, each in its half of the ids
    MaxFrames,          \* bound on the data frames of a stream
    Sizes,              \* lengths of data frames
    MaxReceiveBuffer,   \* max_receive_buffer
    ACCEPT_BACKLOG,     \* DEFAULT_ACCEPT_BACKLOG
    SessionEnds,        \* the session may fail, or be closed by its owner
    KeepAlive,          \* keepalive is on
    AtomicPoll          \* the runtime has one thread

VARIABLES
    bucket, bucket_notify,
    recv,           \* recv_loop: where it is, and the frame it handles
    read_error,     \* socket_read_error or proto_error is set
    session_is_active,
    streams,        \* the session's map
    accepts,        \* streams waiting for accept_stream()
    session,        \* "open", "dying" (die cancelled), "closed" (streams released)
    peer,           \* of each stream, what the peer has sent: "none", "syn", "fin"
    frames,         \* and how many data frames
    opener,         \* of each stream, open_stream(): "idle", "syn", "done"
    handle,         \* "none", "held", "closed" (by close()), "dropped", "freed" (StreamInner too)
    buf,            \* the received payloads
    reader_wakeup,  \* streams whose reader_wakeup holds a permit
    fin_event, write_closed, die,   \* streams whose token is cancelled
    rd,             \* the reader of each stream: see Reading
    cl,             \* the task that closes it: "idle", "half", "recycle", "return", "notify", "remove"
    inhand          \* tokens the reader and the closer of a stream are about to return

recvVars == <<recv, read_error, session_is_active, peer, frames>>
mapVars == <<streams, accepts, session, opener, handle>>
tokenVars == <<fin_event, write_closed, die>>
bucketVars == <<bucket, bucket_notify>>
vars == <<bucket, bucket_notify, recv, read_error, session_is_active, streams, accepts,
          session, peer, frames, opener, handle, buf, reader_wakeup, fin_event,
          write_closed, die, rd, cl, inhand>>

Reading == {"away", "pop", "return", "notify", "die", "buffer", "fin", "rest", "select"}
Ended == {"eof", "failed", "gone"}

Total(payloads) ==
    LET upto[i \in 0..Len(payloads)] == IF i = 0 THEN 0 ELSE upto[i - 1] + payloads[i]
    IN  upto[Len(payloads)]

(* The types, of everything but the bucket. *)
StateTypes ==
    /\ recv \in [pc: {"check", "read", "syn", "accept", "push", "deduct", "fin", "clean", "exited"},
                 sid: Streams \cup {0}, len: Sizes \cup {0}]
    /\ {read_error, session_is_active} \subseteq BOOLEAN
    /\ streams \subseteq Streams /\ accepts \in Seq(Streams)
    /\ Len(accepts) <= ACCEPT_BACKLOG
    /\ session \in {"open", "dying", "closed"}
    /\ peer \in [Streams -> {"none", "syn", "fin"}] /\ frames \in [Streams -> 0..MaxFrames]
    /\ opener \in [Streams -> {"idle", "syn", "done"}]
    /\ handle \in [Streams -> {"none", "held", "closed", "dropped", "freed"}]
    /\ buf \in [Streams -> Seq(Sizes)]
    /\ UNION {reader_wakeup, fin_event, write_closed, die} \subseteq Streams
    /\ rd \in [Streams -> Reading \cup Ended]
    /\ cl \in [Streams -> {"idle", "half", "recycle", "return", "notify", "remove"}]

TypeOK ==
    /\ StateTypes /\ bucket_notify \in NotifyType({"recv"})
    /\ bucket \in Int /\ inhand \in [Streams \X {"rd", "cl"} -> Nat]

At(pc) == [pc |-> pc, sid |-> 0, len |-> 0]

Init ==
    /\ bucket = MaxReceiveBuffer /\ bucket_notify = Fresh({"recv"})
    /\ recv = At("check") /\ read_error = FALSE /\ session_is_active = FALSE
    /\ streams = {} /\ accepts = <<>> /\ session = "open"
    /\ peer = [s \in Streams |-> "none"] /\ frames = [s \in Streams |-> 0]
    /\ opener = [s \in Streams |-> "idle"] /\ handle = [s \in Streams |-> "none"]
    /\ buf = [s \in Streams |-> <<>>]
    /\ reader_wakeup = {} /\ fin_event = {} /\ write_closed = {} /\ die = {}
    /\ rd = [s \in Streams |-> "away"] /\ cl = [s \in Streams |-> "idle"]
    /\ inhand = [x \in Streams \X {"rd", "cl"} |-> 0]

(* Tasks between two awaits, and who may run. *)
Busy ==
    (IF recv.pc \in {"syn", "push", "deduct", "fin", "clean"} THEN {<<"recv", 0>>} ELSE {})
        \cup {<<"rd", s>> : s \in {x \in Streams : rd[x] \in Reading \ {"away", "pop", "select"}}}
        \cup {<<"cl", s>> : s \in {x \in Streams : cl[x] \in {"return", "notify", "remove"}}}
        \cup (IF session = "dying" THEN {<<"session", 0>>} ELSE {})

Turn(task) == AtomicPoll => Busy \subseteq {task}

(* The lock of the map: held by recv_loop while it pushes a payload. *)
MapFree == recv.pc # "deduct"

closed == session # "open"

-----------------------------------------------------------------------------
(* recv_loop.  With tokens, or on a closed session, it goes on to read; if *)
(* not it registers, and                                                   *)
RecvCheck ==
    /\ recv.pc = "check" /\ Starting(bucket_notify, "recv")
    /\ IF bucket > 0 \/ closed
       THEN /\ recv' = At("read")
            /\ bucket_notify' = [bucket_notify EXCEPT !.at["recv"] = "away"]
       ELSE /\ bucket_notify' = Enable(bucket_notify, "recv")
            /\ UNCHANGED recv
    /\ UNCHANGED <<bucket, read_error, session_is_active, peer, frames, mapVars, buf,
                   reader_wakeup, tokenVars, rd, cl, inhand>>

(* looks again before it waits.                                            *)
RecvWait ==
    /\ recv.pc = "check" /\ Looking(bucket_notify, "recv")
    /\ IF bucket > 0 \/ closed
       THEN /\ recv' = At("read")
            /\ bucket_notify' \in Drop(bucket_notify, "recv")
       ELSE /\ bucket_notify' = Await(bucket_notify, "recv")
            /\ UNCHANGED recv
    /\ UNCHANGED <<bucket, read_error, session_is_active, peer, frames, mapVars, buf,
                   reader_wakeup, tokenVars, rd, cl, inhand>>

(* Where it awaits, die ends it. *)
RecvDie ==
    /\ closed
    /\ recv.pc \in {"read", "accept"} \/ (recv.pc = "check" /\ Waiting(bucket_notify, "recv"))
    /\ recv' = At("exited")
    /\ bucket_notify' \in Drop(bucket_notify, "recv")
    /\ UNCHANGED <<bucket, read_error, session_is_active, peer, frames, mapVars, buf,
                   reader_wakeup, tokenVars, rd, cl, inhand>>

(* The connection fails, or the frame is not of this protocol. *)
RecvError ==
    /\ recv.pc = "read" /\ SessionEnds
    /\ recv' = At("exited")
    /\ read_error' = TRUE
    /\ UNCHANGED <<bucketVars, session_is_active, peer, frames, mapVars, buf,
                   reader_wakeup, tokenVars, rd, cl, inhand>>

(* A frame without effect here: cmdNOP, cmdUPD, an empty cmdPSH. *)
RecvNop ==
    /\ recv.pc = "read"
    /\ session_is_active' = TRUE
    /\ recv' = At("check")
    /\ UNCHANGED <<bucketVars, read_error, peer, frames, mapVars, buf, reader_wakeup,
                   tokenVars, rd, cl, inhand>>

(* A stream nobody has opened yet, and one the peer may send frames of. *)
Unused(s) == opener[s] = "idle" /\ peer[s] = "none"
Live(s) == ~Unused(s) /\ peer[s] # "fin"

(* A frame of stream s has been read from the connection. *)
RecvFrame(s, pc, len) ==
    /\ recv.pc = "read"
    /\ CASE pc = "syn"  -> Unused(s)
         [] pc = "push" -> Live(s) /\ frames[s] < MaxFrames
         [] pc = "fin"  -> Live(s)
    /\ recv' = [pc |-> pc, sid |-> s, len |-> IF pc = "push" THEN len ELSE 0]
    /\ session_is_active' = TRUE
    /\ peer' = [peer EXCEPT ![s] = IF pc = "push" THEN @ ELSE pc]
    /\ frames' = [frames EXCEPT ![s] = IF pc = "push" THEN @ + 1 ELSE @]
    /\ UNCHANGED <<bucketVars, read_error, mapVars, buf, reader_wakeup, tokenVars, rd, cl, inhand>>

(* cmdSYN: the stream is registered, whether or not the session is closed  *)
(* by now,                                                                 *)
RecvSyn ==
    /\ recv.pc = "syn"
    /\ recv' = [recv EXCEPT !.pc = "accept"]
    /\ streams' = streams \cup {recv.sid}
    /\ UNCHANGED <<bucketVars, read_error, session_is_active, peer, frames, accepts, session,
                   opener, handle, buf, reader_wakeup, tokenVars, rd, cl, inhand>>

(* Mutant: the backlog has no limit. *)
RecvAccept_unbounded ==
    /\ recv.pc = "accept"
    /\ accepts' = Append(accepts, recv.sid)
    /\ recv' = At("check")
    /\ UNCHANGED <<bucketVars, read_error, session_is_active, peer, frames, streams, session,
                   opener, handle, buf, reader_wakeup, tokenVars, rd, cl, inhand>>

(* and queued for accept_stream(), when there is room.                     *)
RecvAccept ==
    /\ recv.pc = "accept"
    /\ Len(accepts) < ACCEPT_BACKLOG
    /\ accepts' = Append(accepts, recv.sid)
    /\ recv' = At("check")
    /\ UNCHANGED <<bucketVars, read_error, session_is_active, peer, frames, streams, session,
                   opener, handle, buf, reader_wakeup, tokenVars, rd, cl, inhand>>

(* cmdPSH, under the lock of the map: the payload goes into the buffer of  *)
(* a known stream, one of an unknown stream is dropped;                    *)
RecvPush ==
    /\ recv.pc = "push"
    /\ IF recv.sid \in streams
       THEN /\ buf' = [buf EXCEPT ![recv.sid] = Append(@, recv.len)]
            /\ recv' = [recv EXCEPT !.pc = "deduct"]
       ELSE recv' = At("check") /\ UNCHANGED buf
    /\ UNCHANGED <<bucketVars, read_error, session_is_active, peer, frames, mapVars,
                   reader_wakeup, tokenVars, rd, cl, inhand>>

(* Mutant: notify_waiters(), which wakes only a reader that waits already. *)
RecvDeduct_waiters ==
    /\ recv.pc = "deduct"
    /\ bucket' = bucket - recv.len
    /\ reader_wakeup' = IF rd[recv.sid] = "select" THEN reader_wakeup \cup {recv.sid}
                                                   ELSE reader_wakeup
    /\ recv' = At("check")
    /\ UNCHANGED <<bucket_notify, read_error, session_is_active, peer, frames, mapVars, buf,
                   tokenVars, rd, cl, inhand>>

(* then the tokens are taken and the reader is woken.                      *)
RecvDeduct ==
    /\ recv.pc = "deduct"
    /\ bucket' = bucket - recv.len
    /\ reader_wakeup' = reader_wakeup \cup {recv.sid}
    /\ recv' = At("check")
    /\ UNCHANGED <<bucket_notify, read_error, session_is_active, peer, frames, mapVars, buf,
                   tokenVars, rd, cl, inhand>>

(* try_half_close_cleanup() of stream s. *)
Cleanup(s) ==
    IF s \in fin_event \cap write_closed
    THEN die' = die \cup {s} /\ streams' = streams \ {s}
    ELSE UNCHANGED <<die, streams>>

(* cmdFIN: fin() of a known stream cancels fin_event,                      *)
RecvFin ==
    /\ recv.pc = "fin"
    /\ IF recv.sid \in streams
       THEN /\ fin_event' = fin_event \cup {recv.sid}
            /\ recv' = [recv EXCEPT !.pc = "clean"]
       ELSE recv' = At("check") /\ UNCHANGED fin_event
    /\ UNCHANGED <<bucketVars, read_error, session_is_active, peer, frames, mapVars, buf,
                   reader_wakeup, write_closed, die, rd, cl, inhand>>

(* and ends the stream if this side has sent its FIN.                      *)
RecvClean ==
    /\ recv.pc = "clean"
    /\ Cleanup(recv.sid)
    /\ recv' = At("check")
    /\ UNCHANGED <<bucketVars, read_error, session_is_active, peer, frames, accepts, session,
                   opener, handle, buf, reader_wakeup, fin_event, write_closed, rd, cl, inhand>>

RecvLoop ==
    \/ RecvCheck \/ RecvWait \/ RecvDie \/ RecvError \/ RecvNop
    \/ \E s \in Streams : \/ RecvFrame(s, "syn", 0)
                          \/ \E len \in Sizes : RecvFrame(s, "push", len)
                          \/ RecvFrame(s, "fin", 0)
    \/ RecvSyn \/ RecvAccept \/ RecvPush \/ RecvDeduct \/ RecvFin \/ RecvClean

-----------------------------------------------------------------------------
(* Mutant: recv_loop is notified before the tokens are there. *)
ReturnTokens_notifies_first(s, who, at, then) ==
    \/ /\ at = "return"
       /\ bucket_notify' \in NotifyOne(bucket_notify)
       /\ then = "notify"
       /\ UNCHANGED <<bucket, inhand>>
    \/ /\ at = "notify"
       /\ bucket' = bucket + inhand[<<s, who>>]
       /\ inhand' = [inhand EXCEPT ![<<s, who>>] = 0]
       /\ then = "next"
       /\ UNCHANGED bucket_notify

(* return_tokens() by `who', the reader or the closer of stream s: the     *)
(* tokens are added, then recv_loop is notified if there are any.          *)
ReturnTokens(s, who, at, then) ==
    \/ /\ at = "return"
       /\ bucket' = bucket + inhand[<<s, who>>]
       /\ inhand' = [inhand EXCEPT ![<<s, who>>] = 0]
       /\ then = IF bucket' > 0 THEN "notify" ELSE "next"
       /\ UNCHANGED bucket_notify
    \/ /\ at = "notify"
       /\ bucket_notify' \in NotifyOne(bucket_notify)
       /\ then = "next"
       /\ UNCHANGED <<bucket, inhand>>

(* The reader: read_chunk(), the path kcptun takes, called again and again *)
(* until it ends.  pop_chunk() takes the front payload,                    *)
ReadPop(s) ==
    /\ rd[s] = "pop"
    /\ IF buf[s] # <<>>
       THEN /\ buf' = [buf EXCEPT ![s] = Tail(@)]
            /\ inhand' = [inhand EXCEPT ![<<s, "rd">>] = Head(buf[s])]
            /\ rd' = [rd EXCEPT ![s] = "return"]
       ELSE rd' = [rd EXCEPT ![s] = "die"] /\ UNCHANGED <<buf, inhand>>
    /\ UNCHANGED <<bucketVars, recvVars, mapVars, reader_wakeup, tokenVars, cl>>

(* whose tokens go back;                                                   *)
ReadReturn(s, then) ==
    /\ rd[s] \in {"return", "notify"}
    /\ ReturnTokens(s, "rd", rd[s], then)
    /\ rd' = [rd EXCEPT ![s] = IF then = "next" THEN "pop" ELSE then]
    /\ UNCHANGED <<recvVars, mapVars, buf, reader_wakeup, tokenVars, cl>>

(* with no payload, a dead stream has ended;                               *)
ReadDie(s) ==
    /\ rd[s] = "die"
    /\ rd' = [rd EXCEPT ![s] = IF s \in die THEN "eof" ELSE "buffer"]
    /\ UNCHANGED <<bucketVars, recvVars, mapVars, buf, reader_wakeup, tokenVars, cl, inhand>>

(* wait_read() looks at the buffer again, then                             *)
ReadBuffer(s) ==
    /\ rd[s] = "buffer"
    /\ rd' = [rd EXCEPT ![s] = IF buf[s] # <<>> THEN "pop" ELSE "fin"]
    /\ UNCHANGED <<bucketVars, recvVars, mapVars, buf, reader_wakeup, tokenVars, cl, inhand>>

(* at the peer's FIN,                                                      *)
ReadFin(s) ==
    /\ rd[s] = "fin"
    /\ rd' = [rd EXCEPT ![s] = IF s \in fin_event THEN "eof" ELSE "rest"]
    /\ UNCHANGED <<bucketVars, recvVars, mapVars, buf, reader_wakeup, tokenVars, cl, inhand>>

(* at the errors and die,                                                  *)
ReadRest(s) ==
    /\ rd[s] = "rest"
    /\ rd' = [rd EXCEPT ![s] = IF read_error \/ s \in die THEN "failed" ELSE "select"]
    /\ UNCHANGED <<bucketVars, recvVars, mapVars, buf, reader_wakeup, tokenVars, cl, inhand>>

(* Mutant: as in Go, die ends the read at once. *)
ReadSelect_die_first(s) ==
    /\ rd[s] = "select"
    /\ \/ /\ s \in reader_wakeup
          /\ reader_wakeup' = reader_wakeup \ {s}
          /\ rd' = [rd EXCEPT ![s] = "pop"]
       \/ /\ s \in fin_event \cup die
          /\ rd' = [rd EXCEPT ![s] = IF s \in fin_event THEN "eof" ELSE "failed"]
          /\ UNCHANGED reader_wakeup
       \/ /\ read_error
          /\ rd' = [rd EXCEPT ![s] = "failed"]
          /\ UNCHANGED reader_wakeup
    /\ UNCHANGED <<bucketVars, recvVars, mapVars, buf, tokenVars, cl, inhand>>

(* and waits, in a select!, for what is ready first.  An end is the end    *)
(* only of an empty buffer.                                                *)
ReadSelect(s) ==
    /\ rd[s] = "select"
    /\ \/ /\ s \in reader_wakeup
          /\ reader_wakeup' = reader_wakeup \ {s}
          /\ rd' = [rd EXCEPT ![s] = "pop"]
       \/ /\ s \in fin_event \cup die
          /\ rd' = [rd EXCEPT ![s] = IF buf[s] # <<>> THEN "pop"
                                     ELSE IF s \in fin_event THEN "eof" ELSE "failed"]
          /\ UNCHANGED reader_wakeup
       \/ /\ read_error
          /\ rd' = [rd EXCEPT ![s] = "failed"]
          /\ UNCHANGED reader_wakeup
    /\ UNCHANGED <<bucketVars, recvVars, mapVars, buf, tokenVars, cl, inhand>>

Reader(s) ==
    \/ ReadPop(s) \/ (\E then \in {"notify", "next"} : ReadReturn(s, then)) \/ ReadDie(s)
    \/ ReadBuffer(s) \/ ReadFin(s) \/ ReadRest(s) \/ ReadSelect(s)

-----------------------------------------------------------------------------
(* open_stream(): the SYN is sent,                                         *)
OpenSyn(s) ==
    /\ Unused(s) /\ ~closed
    /\ opener' = [opener EXCEPT ![s] = "syn"]
    /\ UNCHANGED <<bucketVars, recvVars, streams, accepts, session, handle, buf, reader_wakeup,
                   tokenVars, rd, cl, inhand>>

(* and only then the stream is registered, unless the session has failed.  *)
OpenRegister(s) ==
    /\ opener[s] = "syn" /\ MapFree
    /\ opener' = [opener EXCEPT ![s] = "done"]
    /\ IF read_error \/ closed
       THEN UNCHANGED <<streams, handle, rd>>
       ELSE /\ streams' = streams \cup {s}
            /\ handle' = [handle EXCEPT ![s] = "held"]
            /\ rd' = [rd EXCEPT ![s] = "pop"]
    /\ UNCHANGED <<bucketVars, recvVars, accepts, session, buf, reader_wakeup, tokenVars, cl, inhand>>

(* accept_stream(): its select! may take a stream of a closed session. *)
Accept ==
    /\ accepts # <<>>
    /\ accepts' = Tail(accepts)
    /\ handle' = [handle EXCEPT ![Head(accepts)] = "held"]
    /\ rd' = [rd EXCEPT ![Head(accepts)] = "pop"]
    /\ UNCHANGED <<bucketVars, recvVars, streams, session, opener, buf, reader_wakeup,
                   tokenVars, cl, inhand>>

-----------------------------------------------------------------------------
(* close_write(): the write side is closed, the FIN is sent, and           *)
CloseWrite(s) ==
    /\ handle[s] \in {"held", "closed"} /\ cl[s] = "idle" /\ s \notin write_closed
    /\ write_closed' = write_closed \cup {s}
    /\ cl' = [cl EXCEPT ![s] = "half"]
    /\ UNCHANGED <<bucketVars, recvVars, mapVars, buf, reader_wakeup, fin_event, die, rd, inhand>>

(* Mutant: only fin() cleans up. *)
CloseWriteEnd_no_cleanup(s) ==
    /\ cl[s] = "half" /\ MapFree
    /\ cl' = [cl EXCEPT ![s] = "idle"]
    /\ UNCHANGED <<die, streams, bucketVars, recvVars, accepts, session, opener, handle, buf,
                   reader_wakeup, fin_event, write_closed, rd, inhand>>

(* the stream ends if the peer has sent its own.                           *)
CloseWriteEnd(s) ==
    /\ cl[s] = "half" /\ MapFree
    /\ Cleanup(s)
    /\ cl' = [cl EXCEPT ![s] = "idle"]
    /\ UNCHANGED <<bucketVars, recvVars, accepts, session, opener, handle, buf, reader_wakeup,
                   fin_event, write_closed, rd, inhand>>

(* close(), or the drop of the last handle (between two reads, or of a     *)
(* read that waits): of a stream that is dead already it does nothing.     *)
Close(s, drops) ==
    /\ handle[s] \in {"held", "closed"} /\ cl[s] = "idle"
    /\ s \in die => drops
    /\ drops => rd[s] \in {"pop", "select"} \cup Ended
    /\ handle' = [handle EXCEPT ![s] = IF drops THEN "dropped" ELSE "closed"]
    /\ rd' = [rd EXCEPT ![s] = IF drops THEN "gone" ELSE @]
    /\ cl' = [cl EXCEPT ![s] = IF s \in die THEN "idle" ELSE "recycle"]
    /\ die' = die \cup {s}
    /\ write_closed' = IF s \in die THEN write_closed ELSE write_closed \cup {s}
    /\ UNCHANGED <<bucketVars, recvVars, streams, accepts, session, opener, buf, reader_wakeup,
                   fin_event, inhand>>

(* recycle_tokens() empties the buffer, *)
CloseRecycle(s) ==
    /\ cl[s] = "recycle"
    /\ inhand' = [inhand EXCEPT ![<<s, "cl">>] = Total(buf[s])]
    /\ buf' = [buf EXCEPT ![s] = <<>>]
    /\ cl' = [cl EXCEPT ![s] = IF buf[s] = <<>> THEN "remove" ELSE "return"]
    /\ UNCHANGED <<bucketVars, recvVars, mapVars, reader_wakeup, tokenVars, rd>>

(* the tokens go back,                                                     *)
CloseReturn(s, then) ==
    /\ cl[s] \in {"return", "notify"}
    /\ ReturnTokens(s, "cl", cl[s], then)
    /\ cl' = [cl EXCEPT ![s] = IF then = "next" THEN "remove" ELSE then]
    /\ UNCHANGED <<recvVars, mapVars, buf, reader_wakeup, tokenVars, rd>>

(* and the stream leaves the map.                                          *)
CloseRemove(s) ==
    /\ cl[s] = "remove" /\ MapFree
    /\ streams' = streams \ {s}
    /\ cl' = [cl EXCEPT ![s] = "idle"]
    /\ UNCHANGED <<bucketVars, recvVars, accepts, session, opener, handle, buf, reader_wakeup,
                   tokenVars, rd, inhand>>

(* Nobody holds the StreamInner any more. *)
Unreferenced(s) ==
    /\ handle[s] = "dropped" /\ cl[s] = "idle" /\ s \notin streams
    /\ recv.sid # s

(* Mutant: Drop for StreamInner returns nothing. *)
Free_leaks(s) ==
    /\ Unreferenced(s)
    /\ handle' = [handle EXCEPT ![s] = "freed"]
    /\ buf' = [buf EXCEPT ![s] = <<>>]
    /\ UNCHANGED <<inhand, cl, bucketVars, recvVars, streams, accepts, session, opener,
                   reader_wakeup, tokenVars, rd>>

(* Drop for StreamInner returns the tokens of what came after the buffer   *)
(* was emptied, or was never read.                                         *)
Free(s) ==
    /\ Unreferenced(s)
    /\ handle' = [handle EXCEPT ![s] = "freed"]
    /\ inhand' = [inhand EXCEPT ![<<s, "cl">>] = Total(buf[s])]
    /\ cl' = [cl EXCEPT ![s] = IF buf[s] = <<>> THEN "idle" ELSE "return"]
    /\ buf' = [buf EXCEPT ![s] = <<>>]
    /\ UNCHANGED <<bucketVars, recvVars, streams, accepts, session, opener, reader_wakeup,
                   tokenVars, rd>>

Closer(s) ==
    \/ CloseWrite(s) \/ CloseWriteEnd(s) \/ (\E drops \in BOOLEAN : Close(s, drops))
    \/ CloseRecycle(s) \/ (\E then \in {"notify", "next"} : CloseReturn(s, then))
    \/ CloseRemove(s) \/ Free(s)

-----------------------------------------------------------------------------
(* close() of the session, by its owner: die is cancelled,                 *)
SessionClose ==
    /\ session = "open" /\ SessionEnds
    /\ session' = "dying"
    /\ UNCHANGED <<bucketVars, recvVars, streams, accepts, opener, handle, buf, reader_wakeup,
                   tokenVars, rd, cl, inhand>>

(* and the streams in the map are taken out and closed.                    *)
SessionRelease ==
    /\ session = "dying" /\ MapFree
    /\ session' = "closed"
    /\ streams' = {}
    /\ die' = die \cup streams
    /\ UNCHANGED <<bucketVars, recvVars, accepts, opener, handle, buf, reader_wakeup,
                   fin_event, write_closed, rd, cl, inhand>>

(* keepalive: after a ping recv_loop is notified,                          *)
KeepalivePing ==
    /\ KeepAlive /\ ~closed
    /\ bucket_notify' \in NotifyOne(bucket_notify)
    /\ UNCHANGED <<bucket, recvVars, mapVars, buf, reader_wakeup, tokenVars, rd, cl, inhand>>

(* and when the timeout expires, a session on which nothing was read since *)
(* the last time is closed, unless the bucket is empty.                    *)
KeepaliveExpiry ==
    /\ KeepAlive /\ ~closed
    /\ session_is_active' = FALSE
    /\ session' = IF ~session_is_active /\ bucket > 0 THEN "dying" ELSE session
    /\ UNCHANGED <<bucketVars, recv, read_error, peer, frames, streams, accepts, opener, handle,
                   buf, reader_wakeup, tokenVars, rd, cl, inhand>>

Next ==
    \/ Turn(<<"recv", 0>>) /\ RecvLoop
    \/ \E s \in Streams : Turn(<<"rd", s>>) /\ Reader(s)
    \/ \E s \in Streams : Turn(<<"open", s>>) /\ (OpenSyn(s) \/ OpenRegister(s))
    \/ Turn(<<"accept", 0>>) /\ Accept
    \/ \E s \in Streams : Turn(<<"cl", s>>) /\ Closer(s)
    \/ Turn(<<"session", 0>>) /\ (SessionClose \/ SessionRelease)
    \/ Turn(<<"keepalive", 0>>) /\ (KeepalivePing \/ KeepaliveExpiry)

Spec == Init /\ [][Next]_vars

-----------------------------------------------------------------------------
(* The tokens a stream holds: those of buffered payloads and those on      *)
(* their way back.                                                         *)
Holds(s) == Total(buf[s]) + inhand[<<s, "rd">>] + inhand[<<s, "cl">>]

(* No token is lost or made up: those in the bucket and those the streams  *)
(* hold are all there are, whatever arrives while a stream is being closed *)
(* (Deviation V11).                                                        *)
TokensConserved ==
    bucket + SumFunction([s \in Streams |-> Holds(s)])
        = MaxReceiveBuffer + (IF recv.pc = "deduct" THEN recv.len ELSE 0)

(* recv_loop never sleeps on tokens: when it waits and there are some, a   *)
(* notification is on its way.                                             *)
RecvNotStranded ==
    bucket_notify.at["recv"] = "parked" /\ bucket > 0
        => \E s \in Streams : rd[s] = "notify" \/ cl[s] = "notify"

(* A reader never sleeps on a payload: the wake-up is stored, or recv_loop *)
(* is about to give it.                                                    *)
ReaderNotStranded ==
    \A s \in Streams :
        rd[s] = "select" /\ buf[s] # <<>>
            => s \in reader_wakeup \cup fin_event \cup die \/ recv.pc = "deduct"

(* A stream with both FINs leaves the map, in whatever order they cross:   *)
(* somebody is still going to remove it.                                   *)
HalfCloseEnds ==
    \A s \in streams \cap fin_event \cap write_closed :
        \/ recv = [pc |-> "clean", sid |-> s, len |-> 0]
        \/ cl[s] # "idle"

(* "Only when there's no data left in buffer, we return EOF to reader"     *)
(* (try_read), also of a stream with both FINs (Deviation V11), as long as *)
(* nobody closes it here.                                                  *)
EofMeansDrained ==
    \A s \in Streams : rd[s] = "eof" /\ handle[s] = "held" => buf[s] = <<>>

-----------------------------------------------------------------------------
(* What these properties rest on: inductive invariants, in parts.          *)

(* The frame at hand is of a stream, and what its peer has sent says what  *)
(* can be at hand: nothing follows a FIN.                                  *)
FrameSound ==
    LET s == recv.sid
    IN  /\ recv.pc \in {"syn", "accept", "push", "deduct", "fin", "clean"} => s \in Streams
        /\ recv.pc \in {"syn", "accept"} => peer[s] = "syn" /\ opener[s] = "idle"
        /\ recv.pc \in {"push", "deduct"} => peer[s] # "fin" /\ recv.len \in Sizes
        /\ recv.pc \in {"fin", "clean"} => peer[s] = "fin" /\ recv.len = 0

FinsSent == \A s \in fin_event : peer[s] = "fin"

(* A stream that is not registered yet has not ended either. *)
Unregistered ==
    \A s \in Streams : Unused(s) \/ opener[s] = "syn" => s \notin streams \cup fin_event

(* A stream has no handle, and no reader, before open_stream() returns it  *)
(* or accept_stream(), which hands it out once.                            *)
Backlogged ==
    /\ \A s \in Streams : Unused(s) \/ opener[s] = "syn" => handle[s] = "none"
    /\ \A s \in Streams : handle[s] = "none" => rd[s] = "away"
    /\ \A i \in DOMAIN accepts :
         /\ handle[accepts[i]] = "none" /\ opener[accepts[i]] = "idle" /\ peer[accepts[i]] # "none"
         /\ \A j \in DOMAIN accepts : i # j => accepts[i] # accepts[j]
    /\ recv.pc \in {"syn", "accept"} =>
         handle[recv.sid] = "none" /\ \A i \in DOMAIN accepts : accepts[i] # recv.sid

(* recv_loop does what it does elsewhere with no future of the Notify. *)
NotAwaited == bucket_notify.at["recv"] # "away" => recv.pc = "check"

(* A reader that found no payload: whatever came since will wake it. *)
WillWake ==
    \A s \in Streams :
        rd[s] \in {"die", "buffer", "fin", "rest", "select"} /\ buf[s] # <<>>
            => s \in reader_wakeup \cup fin_event \cup die \/ (recv.pc = "deduct" /\ recv.sid = s)

StreamInv ==
    /\ StateTypes /\ FrameSound /\ FinsSent /\ Unregistered /\ Backlogged /\ HalfCloseEnds
    /\ bucket_notify \in NotifyType({"recv"}) /\ NotAwaited /\ RecvNotStranded /\ WillWake

(* A stream that nobody has closed here dies of both FINs only. *)
DiesOfFins == \A s \in die : handle[s] \in {"none", "held"} => s \in fin_event

(* On one thread nothing arrives between a reader's look at the buffer and *)
(* its look at the end; and nothing arrives after the end.                 *)
Drained ==
    \A s \in Streams :
        /\ rd[s] \in {"die", "buffer", "fin", "rest"} => buf[s] = <<>>
        /\ rd[s] = "eof" /\ handle[s] = "held" => buf[s] = <<>> /\ s \in fin_event

(* Of a session that does not end, on one thread. *)
EofInv ==
    /\ StateTypes /\ FrameSound /\ FinsSent /\ Unregistered
    /\ session = "open" /\ Backlogged /\ DiesOfFins /\ Drained

(* Tokens are in hand only while they are about to be returned.  TokenInv  *)
(* is inductive together with StreamInv, and with EofInv.                  *)
InHand ==
    \A s \in Streams :
        /\ inhand[<<s, "rd">>] # 0 => rd[s] = "return"
        /\ inhand[<<s, "cl">>] # 0 => cl[s] = "return"

TokenInv == TypeOK /\ InHand /\ TokensConserved
=============================================================================
