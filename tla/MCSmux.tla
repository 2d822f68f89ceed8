------------------------------- MODULE MCSmux -------------------------------
(***************************************************************************)
(* The two halves of a smux session on small instances.  They share no     *)
(* state and are checked side by side: `part' says which of them a         *)
(* behaviour is about, and the other is absent.                            *)
(*   "two"  - SmuxSession: two streams that share the bucket, on a runtime *)
(*            of one thread;                                               *)
(*   "one"  - SmuxSession: one stream with every kind of end, keepalive,   *)
(*            and a session that may end, on a runtime of many threads;    *)
(*   "send" - SmuxSend: the writers, the shaper and the send task.         *)
(***************************************************************************)
EXTENDS Integers, FiniteSets, TLC

CONSTANTS
    MaxReceiveBuffer, ACCEPT_BACKLOG,           \* SmuxSession
    Streams, Frames, Sizes,                     \* of "two"
    Lone, LoneFrames, LoneSizes,                \* of "one"
    Sids, Ctrl, Half, LastId, MAX_SHAPER_SIZE   \* SmuxSend

ASSUME SmuxAssumption ==
    /\ {ACCEPT_BACKLOG, Frames, LoneFrames, MaxReceiveBuffer} \subseteq Nat
    /\ Sizes \cup LoneSizes \subseteq Nat /\ IsFiniteSet(Streams) /\ IsFiniteSet(Lone)

ASSUME ShaperAssumption ==
    /\ Half \in Nat \ {0} /\ MAX_SHAPER_SIZE \in Nat
    /\ IsFiniteSet(Sids) /\ Ctrl \subseteq Sids /\ "none" \notin Sids

VARIABLES
    part,
    bucket, bucket_notify, recv, read_error, session_is_active, streams, accepts, session, peer,
    frames, opener, handle, buf, reader_wakeup, fin_event, write_closed, die, rd, cl,
    inhand,                                                         \* SmuxSession
    task, request_id, shaper_slots, waiters, shaper, rr_list, next, shaper_pending, send,
    answered, finned, bypassed, send_die, socket_write_error        \* SmuxSend

Two == INSTANCE SmuxSession WITH
          MaxFrames <- Frames,
          SessionEnds <- FALSE, KeepAlive <- FALSE, AtomicPoll <- TRUE

One == INSTANCE SmuxSession WITH
          Streams <- Lone, MaxFrames <- LoneFrames, Sizes <- LoneSizes,
          SessionEnds <- TRUE, KeepAlive <- TRUE, AtomicPoll <- FALSE

(* The data of one stream may be given up. *)
Impatient == {[sid |-> "s1", class |-> "data"]}
Out == INSTANCE SmuxSend WITH streams <- shaper, die <- send_die, SessionEnds <- TRUE

smuxVars == <<bucket, bucket_notify, recv, read_error, session_is_active, streams, accepts,
              session, peer, frames, opener, handle, buf, reader_wakeup, fin_event,
              write_closed, die, rd, cl, inhand>>
sendVars == <<task, request_id, shaper_slots, waiters, shaper, rr_list, next,
              shaper_pending, send, answered, finned, bypassed, send_die,
              socket_write_error>>

(* The part that a behaviour is not about. *)
NoSmux ==
    /\ bucket = 0 /\ bucket_notify = 0 /\ recv = 0 /\ read_error = 0 /\ session_is_active = 0
    /\ streams = 0 /\ accepts = 0 /\ session = 0 /\ peer = 0 /\ frames = 0 /\ opener = 0
    /\ handle = 0 /\ buf = 0 /\ reader_wakeup = 0 /\ fin_event = 0 /\ write_closed = 0
    /\ die = 0 /\ rd = 0 /\ cl = 0 /\ inhand = 0
NoSend ==
    /\ task = 0 /\ request_id = 0 /\ shaper_slots = 0 /\ waiters = 0 /\ shaper = 0
    /\ rr_list = 0 /\ next = 0 /\ shaper_pending = 0 /\ send = 0 /\ answered = 0 /\ finned = 0
    /\ bypassed = 0 /\ send_die = 0 /\ socket_write_error = 0

Init ==
    \/ part = "two" /\ Two!Init /\ NoSend
    \/ part = "one" /\ One!Init /\ NoSend
    \/ part = "send" /\ NoSmux /\ Out!Init

Next ==
    /\ UNCHANGED part
    /\ \/ part = "two" /\ Two!Next /\ UNCHANGED sendVars
       \/ part = "one" /\ One!Next /\ UNCHANGED sendVars
       \/ part = "send" /\ Out!Next /\ UNCHANGED smuxVars

Spec == Init /\ [][Next]_<<part, smuxVars, sendVars>>

(* The properties treat streams alike. *)
Symmetry == Permutations(Streams)

-----------------------------------------------------------------------------
(* The state of the part at hand has its type; the shaper's list holds the *)
(* streams that have requests, each once, and the cursor is one of them:   *)
(* what the expect()s of RrList rely on.                                   *)
Typed ==
    CASE part = "two" -> Two!TypeOK
      [] part = "one" -> One!TypeOK
      [] part = "send" -> Out!TypeOK /\ Out!CursorInList

(* What is shared is neither lost nor made up: the tokens of the bucket,   *)
(* whatever arrives while a stream is being closed (Deviation V11), and    *)
(* the permits of the shaper, whoever gives up when.                       *)
Conserved ==
    CASE part = "two" -> Two!TokensConserved
      [] part = "one" -> One!TokensConserved
      [] part = "send" -> Out!SlotsConserved

(* "Only when there's no data left in buffer, we return EOF to reader"     *)
(* (try_read), also of a stream with both FINs (Deviation V11), as long as *)
(* nobody closes it here.                                                  *)
EofMeansDrained == part = "two" => Two!EofMeansDrained

(* recv_loop never sleeps on tokens, a reader on a payload, or send_loop   *)
(* on a request: a notification is stored, or on its way.                  *)
NoLostWakeup ==
    CASE part = "one" -> One!RecvNotStranded /\ One!ReaderNotStranded
      [] part = "send" -> Out!SenderAwake
      [] OTHER -> TRUE

(* A stream with both FINs leaves the map, in whatever order they cross:   *)
(* somebody is still going to remove it.                                   *)
HalfCloseEnds == part = "one" => One!HalfCloseEnds

(* No data follows the stream's FIN: "a cmdFIN never overtakes the         *)
(* stream's data" (shaper.rs), also of a write given up and left queued.   *)
FinLast == part = "send" => Out!FinLast

=============================================================================
