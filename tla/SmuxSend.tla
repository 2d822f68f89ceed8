------------------------------- MODULE SmuxSend ------------------------------
(***************************************************************************)
(* The sending side of a smux session (crates/smux/src/shaper.rs, and      *)
(* write_frame_internal(), send_loop() and the ping of keepalive() in      *)
(* session.rs): tasks put frames into the shaper, a heap of requests per   *)
(* stream and the streams in a list served round-robin, and the send task  *)
(* takes them out and writes them.                                         *)
(*                                                                         *)
(* A heap is the set of its requests: pop() takes the first by less().     *)
(***************************************************************************)
EXTENDS Integers, Sequences, FiniteSets, SequencesExt, TokioNotify

CONSTANTS
    Sids,               \* the streams, each with a task that writes data, then a FIN
    Ctrl,               \* the streams with a task that sends one control frame
    Half,               \* request numbers are taken modulo 2 * Half
    LastId,             \* bound on the requests: the last number given, if any
    MAX_SHAPER_SIZE,
    Impatient,          \* writers that may give up (a deadline, or a dropped future)
    SessionEnds         \* the session may be closed and the connection may fail

Tasks == {[sid |-> s, class |-> "data"] : s \in Sids} \cup {[sid |-> s, class |-> "ctrl"] : s \in Ctrl}
NoSid == "none"
Mod == 2 * Half

VARIABLES
    task,               \* of each task, where it is and the request it makes
    request_id,
    shaper_slots,       \* permits of the semaphore
    waiters,            \* the tasks that wait for one, in order
    streams,            \* the shaper: of each stream, its requests
    rr_list, next,      \* the list of streams and the cursor
    shaper_pending,     \* the Notify
    send,               \* send_loop(): where it is and the request it writes
    answered,           \* the requests whose result was sent
    finned,             \* the streams whose FIN was written
    bypassed,           \* of each stream with requests, the pops of others since it had its turn
    die, socket_write_error

shaperVars == <<streams, rr_list, next>>
vars == <<task, request_id, shaper_slots, waiters, streams, rr_list, next, shaper_pending,
          send, answered, finned, bypassed, die, socket_write_error>>

Request == [sid: Sids, class: {"ctrl", "data"}, cmd: {"psh", "fin", "upd"}, seq: 0..Mod - 1]
NoRequest == [sid |-> NoSid, class |-> "ctrl", cmd |-> "none", seq |-> 0]
Idle == [pc |-> "idle", req |-> NoRequest]

TypeOK ==
    /\ task \in [Tasks -> [pc: {"idle", "admit", "push", "wait", "done"}, req: Request \cup {NoRequest}]]
    /\ request_id \in 0..Mod - 1 /\ shaper_slots \in 0..MAX_SHAPER_SIZE
    /\ waiters \in Seq(Tasks) /\ streams \in [Sids -> SUBSET Request]
    /\ rr_list \in Seq(Sids) /\ next \in Sids \cup {NoSid}
    /\ shaper_pending \in NotifyType({"send"})
    /\ send \in [pc: {"check", "pop", "write", "end"}, req: Request \cup {NoRequest}]
    /\ answered \subseteq Tasks /\ finned \subseteq Sids /\ bypassed \in [Sids -> 0..Cardinality(Sids)]
    /\ {die, socket_write_error} \subseteq BOOLEAN

Init ==
    /\ task = [t \in Tasks |-> Idle] /\ request_id = Mod - 2
    /\ shaper_slots = MAX_SHAPER_SIZE /\ waiters = <<>>
    /\ streams = [s \in Sids |-> {}] /\ rr_list = <<>> /\ next = NoSid
    /\ shaper_pending = Fresh({"send"})
    /\ send = [pc |-> "check", req |-> NoRequest]
    /\ answered = {} /\ finned = {} /\ bypassed = [s \in Sids |-> 0]
    /\ die = FALSE /\ socket_write_error = FALSE

count == Cardinality(UNION {streams[s] : s \in Sids})

-----------------------------------------------------------------------------
(* write_frame_internal().                                                 *)

(* write_frame() and write_fin() use the data class, the others do not. *)
ClassOf(cmd) == IF cmd \in {"psh", "fin"} THEN "data" ELSE "ctrl"

(* The requests that are numbered and not yet popped. *)
Outstanding == {task[t].req : t \in {u \in Tasks : task[u].pc \in {"admit", "push"}}}
                    \cup UNION {streams[s] : s \in Sids}

(* The request is numbered, then queues for a permit.  Fewer than Half     *)
(* numbers are given while a request waits.                                *)
Begin(t, cmd) ==
    /\ task[t].pc = "idle" /\ (cmd = "upd") = (t.class = "ctrl")
    /\ request_id # LastId /\ \A r \in Outstanding : (request_id + 1 - r.seq) % Mod < Half
    /\ request_id' = (request_id + 1) % Mod
    /\ task' = [task EXCEPT ![t] =
            [pc |-> "admit", req |-> [sid |-> t.sid, class |-> ClassOf(cmd), cmd |-> cmd, seq |-> request_id']]]
    /\ waiters' = Append(waiters, t)
    /\ UNCHANGED <<shaper_slots, shaperVars, shaper_pending, send, answered, finned, bypassed, die, socket_write_error>>

Admit(t) ==
    /\ shaper_slots > 0 /\ waiters # <<>> /\ t = Head(waiters)
    /\ shaper_slots' = shaper_slots - 1 /\ waiters' = Tail(waiters)
    /\ task' = [task EXCEPT ![t].pc = "push"]
    /\ UNCHANGED <<request_id, shaperVars, shaper_pending, send, answered, finned, bypassed, die, socket_write_error>>

(* RrList::push_back(). *)
Appended(sid) == Append(rr_list, sid)

(* Mutant: nobody tells the send task. *)
Push_silent(t) ==
    LET new == streams[t.sid] = {}
    IN  /\ task[t].pc = "push"
        /\ streams' = [streams EXCEPT ![t.sid] = @ \cup {task[t].req}]
        /\ rr_list' = IF new THEN Appended(t.sid) ELSE rr_list
        /\ next' = IF new /\ next = NoSid THEN t.sid ELSE next
        /\ task' = [task EXCEPT ![t].pc = "wait"] /\ answered' = answered \ {t}
        /\ UNCHANGED <<request_id, shaper_slots, waiters, shaper_pending, send, finned, bypassed, die, socket_write_error>>

(* ShaperQueue::push(), and notify_one().                                  *)
Push(t) ==
    LET req == task[t].req
        new == streams[t.sid] = {}
    IN  /\ task[t].pc = "push"
        /\ streams' = [streams EXCEPT ![t.sid] = @ \cup {req}]
        /\ rr_list' = IF new THEN Appended(t.sid) ELSE rr_list
        /\ next' = IF new /\ next = NoSid THEN t.sid ELSE next
        /\ shaper_pending' \in NotifyOne(shaper_pending)
        /\ task' = [task EXCEPT ![t].pc = "wait"] /\ answered' = answered \ {t}
        /\ UNCHANGED <<request_id, shaper_slots, waiters, send, finned, bypassed, die, socket_write_error>>

(* After a FIN, a control frame or a failure the task makes no more of     *)
(* them; a pipe ends, and closes its stream, when a write gives up.        *)
After(t) == IF task[t].req.cmd = "psh" THEN Idle ELSE [task[t] EXCEPT !.pc = "done"]

Result(t) ==
    /\ task[t].pc = "wait" /\ t \in answered
    /\ task' = [task EXCEPT ![t] = After(t)] /\ answered' = answered \ {t}
    /\ UNCHANGED <<request_id, shaper_slots, waiters, shaperVars, shaper_pending, send, finned, bypassed,
                   die, socket_write_error>>

(* Mutant: a caller that gives up takes its permit back. *)
GiveUp_takes(t) ==
    /\ t \in Impatient /\ task[t].pc \in {"admit", "wait"}
    /\ task' = [task EXCEPT ![t] = After(t)]
    /\ waiters' = RemoveFirst(waiters, t)
    /\ shaper_slots' = IF task[t].req \in streams[t.sid] THEN shaper_slots + 1 ELSE shaper_slots
    /\ UNCHANGED <<request_id, shaperVars, shaper_pending, send, answered, finned, bypassed,
                   die, socket_write_error>>

(* A caller that gives up leaves a request behind if it is queued.         *)
GiveUp(t) ==
    /\ t \in Impatient /\ task[t].pc \in {"admit", "wait"}
    /\ task' = [task EXCEPT ![t] = After(t)]
    /\ waiters' = RemoveFirst(waiters, t)
    /\ UNCHANGED <<request_id, shaper_slots, shaperVars, shaper_pending, send, answered, finned, bypassed,
                   die, socket_write_error>>

(* Mutant: the wait for the result is not ended by a write error. *)
Abort_waits(t) ==
    /\ \/ die /\ task[t].pc \in {"admit", "wait"}
       \/ socket_write_error /\ task[t].pc = "admit"
    /\ task' = [task EXCEPT ![t].pc = "done"]
    /\ waiters' = RemoveFirst(waiters, t)
    /\ UNCHANGED <<request_id, shaper_slots, shaperVars, shaper_pending, send, answered, finned, bypassed,
                   die, socket_write_error>>

(* die, or the error the send task left, ends both waits.                  *)
Abort(t) ==
    /\ die \/ socket_write_error
    /\ task[t].pc \in {"admit", "wait"}
    /\ task' = [task EXCEPT ![t].pc = "done"]
    /\ waiters' = RemoveFirst(waiters, t)
    /\ UNCHANGED <<request_id, shaper_slots, shaperVars, shaper_pending, send, answered, finned, bypassed,
                   die, socket_write_error>>

-----------------------------------------------------------------------------
(* send_loop().                                                            *)

(* It registers, *)
SendCheck ==
    /\ send.pc = "check" /\ Starting(shaper_pending, "send")
    /\ shaper_pending' = Enable(shaper_pending, "send")
    /\ UNCHANGED <<task, request_id, shaper_slots, waiters, shaperVars, send, answered, finned, bypassed,
                   die, socket_write_error>>

(* and waits only if the queue is empty then; a wake-up empties it.        *)
SendWait ==
    /\ send.pc = "check" /\ Looking(shaper_pending, "send")
    /\ IF count > 0
       THEN send' = [send EXCEPT !.pc = "pop"] /\ shaper_pending' \in Drop(shaper_pending, "send")
       ELSE shaper_pending' = Await(shaper_pending, "send") /\ UNCHANGED send
    /\ UNCHANGED <<task, request_id, shaper_slots, waiters, shaperVars, answered, finned, bypassed,
                   die, socket_write_error>>

(* Mutant: numbers are compared as they are. *)
less_plain(a, b) ==
    IF a.class # b.class THEN a.class = "ctrl" ELSE a.seq < b.seq

less(a, b) ==
    IF a.class # b.class THEN a.class = "ctrl"
    ELSE (b.seq - a.seq) % Mod \in 1..Half - 1

(* ShaperHeap::pop() gives the least; the sift steps are left out. *)
Least(heap) == CHOOSE r \in heap : \A s \in heap \ {r} : less(r, s)

(* RrList::remove(). *)
Removed(sid) == RemoveFirst(rr_list, sid)

(* The element after the cursor's, or the first. *)
NextOf(sid) ==
    LET i == CHOOSE k \in DOMAIN rr_list : rr_list[k] = sid
    IN  IF i < Len(rr_list) THEN rr_list[i + 1] ELSE rr_list[1]

(* The bypassed streams after a pop of sid, counted up to one too many. *)
Bypassed(sid) ==
    [s \in Sids |-> IF s = sid \/ streams[s] = {} THEN 0
                   ELSE IF bypassed[s] < Cardinality(Sids) THEN bypassed[s] + 1 ELSE bypassed[s]]

(* Mutant: the cursor stays with a stream that leaves the list. *)
CursorAfter_stale(sid, last, rest) == IF last /\ rest = <<>> THEN NoSid ELSE sid

CursorAfter(sid, last, rest) == IF last /\ rest = <<>> THEN NoSid ELSE NextOf(sid)

(* ShaperQueue::pop() of the stream at the cursor; the permit goes back.   *)
Pop ==
    LET sid  == next
        req  == Least(streams[sid])
        last == Cardinality(streams[sid]) = 1
        rest == Removed(sid)
    IN  /\ send.pc = "pop" /\ count > 0
        /\ streams' = [streams EXCEPT ![sid] = @ \ {req}]
        /\ rr_list' = IF last THEN rest ELSE rr_list
        /\ next' = CursorAfter(sid, last, rest)
        /\ bypassed' = Bypassed(sid)
        /\ shaper_slots' = shaper_slots + 1
        /\ send' = [pc |-> "write", req |-> req]
        /\ UNCHANGED <<task, request_id, waiters, shaper_pending, answered, finned, die, socket_write_error>>

Emptied ==
    /\ send.pc = "pop" /\ count = 0
    /\ send' = [send EXCEPT !.pc = "check"]
    /\ UNCHANGED <<task, request_id, shaper_slots, waiters, shaperVars, shaper_pending, answered,
                   finned, bypassed, die, socket_write_error>>

(* Whose request is written: its result is sent if the caller still waits. *)
Caller(req) == {t \in Tasks : task[t].pc = "wait" /\ task[t].req = req}

Written ==
    /\ send.pc = "write"
    /\ answered' = answered \cup Caller(send.req)
    /\ finned' = IF send.req.cmd = "fin" THEN finned \cup {send.req.sid} ELSE finned
    /\ send' = [pc |-> "pop", req |-> NoRequest]
    /\ UNCHANGED <<task, request_id, shaper_slots, waiters, shaperVars, shaper_pending, bypassed, die, socket_write_error>>

WriteFails ==
    /\ SessionEnds /\ send.pc = "write"
    /\ answered' = answered \cup Caller(send.req)
    /\ socket_write_error' = TRUE /\ send' = [pc |-> "end", req |-> NoRequest]
    /\ UNCHANGED <<task, request_id, shaper_slots, waiters, shaperVars, shaper_pending, finned, bypassed, die>>

(* die is seen where the task waits: for a request, and for the write. *)
SendDies ==
    /\ die /\ (send.pc = "write" \/ (send.pc = "check" /\ Waiting(shaper_pending, "send")))
    /\ send' = [pc |-> "end", req |-> NoRequest]
    /\ UNCHANGED <<task, request_id, shaper_slots, waiters, shaperVars, shaper_pending, answered,
                   finned, bypassed, die, socket_write_error>>

CloseSession ==
    /\ SessionEnds /\ ~die /\ die' = TRUE
    /\ UNCHANGED <<task, request_id, shaper_slots, waiters, shaperVars, shaper_pending, send,
                   answered, finned, bypassed, socket_write_error>>

Sender == SendCheck \/ SendWait \/ Pop \/ Emptied \/ Written \/ SendDies
Writer(t) == Admit(t) \/ Push(t) \/ Result(t) \/ Abort(t)

Next ==
    \/ \E t \in Tasks : Writer(t) \/ GiveUp(t) \/ \E cmd \in {"psh", "fin", "upd"} : Begin(t, cmd)
    \/ Sender \/ WriteFails \/ CloseSession

Spec == Init /\ [][Next]_vars

(* The tasks run and the connection takes what is written to it.           *)
FairSpec ==
    /\ Spec /\ WF_vars(Sender)
    /\ \A t \in Tasks : WF_vars(Writer(t))

-----------------------------------------------------------------------------
(* The list holds the streams that have requests, each once, and the       *)
(* cursor is one of them: what the expect()s of RrList rely on.            *)
CursorInList ==
    /\ ToSet(rr_list) = {s \in Sids : streams[s] # {}}
    /\ \A i, j \in DOMAIN rr_list : i # j => rr_list[i] # rr_list[j]
    /\ IF rr_list = <<>> THEN next = NoSid ELSE next \in ToSet(rr_list)

(* The shaper holds no more than MAX_SHAPER_SIZE requests and no permit is *)
(* lost, whoever gives up when.                                            *)
SlotsConserved ==
    shaper_slots + count + Cardinality({t \in Tasks : task[t].pc = "push"}) = MAX_SHAPER_SIZE

(* No data follows the stream's FIN: "a cmdFIN never overtakes the         *)
(* stream's data" (shaper.rs), also of a write given up and left queued.   *)
FinLast ==
    \A s \in finned : \A r \in streams[s] \cup {send.req} : r.sid = s => r.cmd # "psh"

(* The send task sleeps only while there is nothing to send.               *)
SenderAwake == (shaper_pending.at["send"] = "parked" /\ send.pc = "check" /\ ~die) => count = 0

(* Every writer has returned: its frame is written, or the session was     *)
(* closed, or the connection failed.                                       *)
Returned == \A t \in Tasks : task[t].pc \in {"idle", "done"}

(* A stream with a pending frame has its turn before another has a second  *)
(* one: "round-robin over the stream ids that have pending frames"         *)
(* (shaper.rs).                                                            *)
RoundRobin == \A s \in Sids : bypassed[s] < Cardinality(Sids)

-----------------------------------------------------------------------------
(* What SenderAwake rests on: an inductive invariant.                      *)
AwakeInv ==
    /\ shaper_pending \in NotifyType({"send"})
    /\ streams = [s \in Sids |-> streams[s]] /\ IsFiniteSet(UNION {streams[s] : s \in Sids})
    /\ send.pc \in {"pop", "write"} => shaper_pending.at["send"] = "away"
    /\ shaper_pending.at["send"] = "parked" /\ send.pc = "check" => count = 0

-----------------------------------------------------------------------------
(* What the other invariants rest on, with them: ShaperInv is inductive.   *)

(* A request is of the stream and the class of the task that makes it.     *)
Sound(r, sid) == r \in Request /\ r.sid = sid /\ r.class = ClassOf(r.cmd)
RequestsSound ==
    /\ \A t \in Tasks : task[t].pc \in {"admit", "push", "wait"} =>
         Sound(task[t].req, t.sid) /\ task[t].req.class = t.class
    /\ \A s \in Sids : \A r \in streams[s] : Sound(r, s)
    /\ send.req # NoRequest => Sound(send.req, send.req.sid)
    /\ send.pc = "write" <=> send.req # NoRequest

(* The requests that are not popped have numbers of their own, of which    *)
(* fewer than Half have been given since.                                  *)
Asks(t) == task[t].pc \in {"admit", "push"}
Numbered ==
    /\ \A r \in Outstanding : (request_id - r.seq) % Mod < Half
    /\ \A t, u \in Tasks : Asks(t) /\ Asks(u) /\ task[t].req.seq = task[u].req.seq => t = u
    /\ \A t \in Tasks, s \in Sids : Asks(t) => \A r \in streams[s] : r.seq # task[t].req.seq
    /\ \A s, u \in Sids : \A r \in streams[s], q \in streams[u] : r.seq = q.seq => r = q

(* The semaphore's queue. *)
WaitersAdmit ==
    /\ \A i, j \in DOMAIN waiters : i # j => waiters[i] # waiters[j]
    /\ \A i \in DOMAIN waiters : task[waiters[i]].pc = "admit"

(* The FIN comes from the task that wrote the data and is numbered last,   *)
(* so that it is the last to leave the heap.                               *)
DataTask(s) == task[[sid |-> s, class |-> "data"]]
Ended(s) == DataTask(s).pc \in {"wait", "done"} /\ DataTask(s).req.cmd = "fin"
Sends(s, cmd) == send.req.sid = s /\ send.req.cmd = cmd
FinOrder ==
    \A s \in Sids :
        /\ s \in finned \/ Sends(s, "fin") \/ (\E r \in streams[s] : r.cmd = "fin") => Ended(s)
        /\ DataTask(s).pc \in {"admit", "push"} =>
             \A q \in streams[s] : q.class = "data" => less(q, DataTask(s).req)
        /\ \A r, q \in streams[s] : r.cmd = "fin" /\ q.cmd = "psh" => less(q, r)
        /\ s \in finned \/ Sends(s, "fin") => \A q \in streams[s] : q.cmd # "psh"
        /\ s \in finned => ~Sends(s, "psh")

ShaperInv ==
    /\ TypeOK /\ AwakeInv
    /\ RequestsSound /\ Numbered /\ WaitersAdmit /\ CursorInList /\ SlotsConserved /\ FinOrder
=============================================================================
