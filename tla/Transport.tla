------------------------------ MODULE Transport ------------------------------
(***************************************************************************)
(* Four parts of the KCP crate that share no state, side by side: `part'   *)
(* says which of them a behaviour is about.  MCTransport checks them with  *)
(* others on small instances, TransportProofs proves what they promise for *)
(* every instance.                                                         *)
(*   "ring"     - RingBuffer, the queues of an instance;                   *)
(*   "rate"     - Limiter, which paces the transmit task;                  *)
(*   "listener" - Listener, the sessions of one socket, where a close() of *)
(*                the application and a reset of the peer do not collide;  *)
(*   "session"  - Session, the tasks around one instance, on a runtime of  *)
(*                many threads and a socket of its own that may fail.      *)
(***************************************************************************)
EXTENDS Integers, Sequences, FiniteSets

CONSTANTS
    Values, Default, RINGBUFFER_MIN, RINGBUFFER_EXP, MaxSize,                   \* RingBuffer
    BURST, Limits, Batches, MaxTime,                                            \* Limiter
    Addrs, Convs, Acceptors, None, ACCEPT_BACKLOG, MaxSessions,                 \* Listener
    Writers, Readers, MaxWrites, MaxMsgs, SndWnd, DEV_BACKLOG, OUTPUT_ROOM,
    MAX_BATCH_SIZE, write_delay                                                 \* Session

VARIABLES
    part,
    head, tail, elements,                                                       \* RingBuffer
    limit, tokens, last, now, wait, since, sent,                                \* Limiter
    made, life, victim, sessions, by_conv, accepts, handed_out, accept_notify, mon, failed,
    told,                                                                       \* Listener
    snd_queue, in_flight, open, chan, tx, txqueue, wire, conn_open, write_error, write_notify,
    read_notify, writing, count, accepted, readable, arrived, owed, die_once, die, closer,
    final                                                                       \* Session

Ring == INSTANCE RingBuffer
Rate == INSTANCE Limiter
L    == INSTANCE Listener WITH accepted <- handed_out, Collisions <- FALSE, strict_source <- FALSE
S    == INSTANCE Session WITH own_conn <- TRUE, SocketFails <- TRUE, AtomicSelect <- FALSE

ASSUME RingAssumption ==
    /\ RINGBUFFER_MIN \in Nat \ {0, 1} /\ RINGBUFFER_EXP \in Nat /\ MaxSize \in Nat
    /\ RINGBUFFER_MIN <= MaxSize

ASSUME RateAssumption ==
    BURST \in Nat /\ Limits \subseteq Nat /\ Batches \subseteq Nat \ {0} /\ MaxTime \in Nat

ASSUME ListenerAssumption ==
    /\ MaxSessions \in Nat /\ ACCEPT_BACKLOG \in Nat
    /\ None \notin Nat \cup Convs \cup Addrs
    /\ IsFiniteSet(Acceptors)

(* read() is called by one task at a time in kcptun.                       *)
ASSUME SessionAssumption ==
    /\ {MaxWrites, MaxMsgs, SndWnd, DEV_BACKLOG, OUTPUT_ROOM, MAX_BATCH_SIZE} \subseteq Nat
    /\ 0 \notin {OUTPUT_ROOM, MAX_BATCH_SIZE}
    /\ write_delay \in BOOLEAN
    /\ \A r1, r2 \in Readers : r1 = r2

ringVars == <<head, tail, elements>>
rateVars == <<limit, tokens, last, now, wait, since, sent>>
listenerVars == <<made, life, victim, sessions, by_conv, accepts, handed_out, accept_notify, mon,
                  failed, told>>
sessionVars == <<snd_queue, in_flight, open, chan, tx, txqueue, wire, conn_open, write_error,
                 write_notify, read_notify, writing, count, accepted, readable, arrived, owed,
                 die_once, die, closer, final>>
transportVars == <<part, ringVars, rateVars, listenerVars, sessionVars>>

(* A part that a behaviour is not about is absent. *)
NoRing ==
    /\ head = 0 /\ tail = 0 /\ elements = 0
NoRate ==
    /\ limit = 0 /\ tokens = 0 /\ last = 0 /\ now = 0 /\ wait = 0 /\ since = 0 /\ sent = 0
NoListener ==
    /\ made = 0 /\ life = 0 /\ victim = 0 /\ sessions = 0 /\ by_conv = 0 /\ accepts = 0
    /\ handed_out = 0 /\ accept_notify = 0 /\ mon = 0 /\ failed = 0 /\ told = 0
NoSession ==
    /\ snd_queue = 0 /\ in_flight = 0 /\ open = 0 /\ chan = 0 /\ tx = 0 /\ txqueue = 0
    /\ wire = 0 /\ conn_open = 0 /\ write_error = 0 /\ write_notify = 0 /\ read_notify = 0
    /\ writing = 0 /\ count = 0 /\ accepted = 0 /\ readable = 0 /\ arrived = 0 /\ owed = 0
    /\ die_once = 0 /\ die = 0 /\ closer = 0 /\ final = 0

TransportInit ==
    /\ IF part = "ring" THEN Ring!Init ELSE NoRing
    /\ IF part = "rate" THEN Rate!Init ELSE NoRate
    /\ IF part = "listener" THEN L!Init ELSE NoListener
    /\ IF part = "session" THEN S!Init ELSE NoSession

TransportNext ==
    /\ UNCHANGED part
    /\ \/ /\ part = "ring" /\ Ring!Next
          /\ UNCHANGED <<rateVars, listenerVars, sessionVars>>
       \/ /\ part = "rate" /\ Rate!Next
          /\ UNCHANGED <<ringVars, listenerVars, sessionVars>>
       \/ /\ part = "listener" /\ L!Next
          /\ UNCHANGED <<ringVars, rateVars, sessionVars>>
       \/ /\ part = "session" /\ S!Next
          /\ UNCHANGED <<ringVars, rateVars, listenerVars>>

TransportSpec == TransportInit /\ [][TransportNext]_transportVars

-----------------------------------------------------------------------------
(* The ring is a queue, however it grows, shrinks and wraps around.        *)
IsFifo == [][part = "ring" => Ring!F!Next]_Ring!iter

(* The rate is kept whatever the size of the batches: "the tokens go       *)
(* negative, the caller waits for the whole debt, and the long-run rate    *)
(* stays correct" (V02); and no batch pays for another's debt twice.       *)
Paced == part = "rate" => Rate!Paced

(* The two maps of packet_input() and close(), as long as no peer resets a *)
(* session that the application is closing (Collisions = FALSE: there it   *)
(* is false, see MCListener): a session that nobody has closed gets its    *)
(* peer's packets, and the error of the socket, also while it is in the    *)
(* accept queue; once close() has returned neither map leads to the        *)
(* session; no two live ones have the same conversation.                   *)
Routing ==
    part = "listener" => /\ L!LiveReachable /\ L!ClosedForgotten /\ L!OneSessionPerConv
                         /\ L!ErrorReachesAll

(* No task sleeps in accept() while a session is queued for it, nor in     *)
(* read() on a message: somebody is on the way to look, or a wake-up is,   *)
(* however wake-ups, permits and deadlines interleave.                     *)
NoLostWakeup ==
    CASE part = "listener" -> L!AcceptorWoken
      [] part = "session" -> S!NoSleepingReader
      [] OTHER -> TRUE

(* No packet that flush() has committed to is dropped, which would cost a  *)
(* retransmission timeout (Deviation V18, OUTPUT_ROOM): what is in flight  *)
(* has been sent, or is in the channel or in the transmit task's batch,    *)
(* while that task runs and the socket has not failed; whatever writers,   *)
(* the updater, the input path and close() flush between its steps.        *)
NothingDropped == part = "session" => S!NothingDropped
=============================================================================
