------------------------------- MODULE Tunnel --------------------------------
(***************************************************************************)
(* The client's pool of smux sessions and what the server makes of them    *)
(* (crates/client/src/main.rs, listen.rs, crates/server/src/main.rs): the  *)
(* accept loop with its round-robin slots, the scavenger, one task per     *)
(* accepted connection, and at the other end a task per session and per    *)
(* stream.                                                                 *)
(*                                                                         *)
(* A session is held through Arcs: by a slot, by the channel to the        *)
(* scavenger, by its list, by a task that has not opened its stream yet.   *)
(* The last one to go closes it (Drop for Session).  A pipe is one state   *)
(* here; module Pipe has its inside.                                       *)
(***************************************************************************)
EXTENDS Integers, Sequences, FiniteSets, FiniteSetsExt, SequencesExt

CONSTANTS
    Conns,              \* the connections the client's listener is offered: numbers, in order
    MaxDials,           \* bound on the sessions dialled
    RrWrap,             \* where the round-robin counter wraps (2^16 in the code)
    Configs,            \* the settings of -conn, -autoexpire and -scavengettl looked at
    Backlog,            \* SCAVENGER_BACKLOG
    GivenUp             \* bound: the connections whose SYN may wait for too long

VARIABLES
    config,             \* the settings of this process: one of Configs, for good
    muxes,              \* the session in each slot, or None
    rr,
    loop,               \* what the accept loop does, and for which connection
    chan,               \* sent to the scavenger
    session_list,
    sweep,              \* of the list: not looked at yet in this tick
    up,                 \* the client's end of each session
    left,               \* until its expiry date; it goes below zero
    dropped,            \* ghost: the ones closed because nobody held them any more
    conn,               \* each local connection, and the session it was given; "given_up" is
                        \* one that ended with its SYN still queued
    srv,                \* the server's end of each session
    stream              \* the server's end of each connection's stream

clientVars == <<config, muxes, rr, loop, chan, session_list, sweep>>
serverVars == <<srv, stream>>
vars == <<config, muxes, rr, loop, chan, session_list, sweep, up, left, dropped, conn, srv, stream>>

Sessions == 1..MaxDials
Slots == 0..(config.numconn - 1)
None == 0
Idle == [at |-> "accept", conn |-> None]
Overdue == -(IF config.scavenge_ttl > 0 THEN config.scavenge_ttl ELSE 0) - 1

TypeOK ==
    /\ config \in Configs
    /\ muxes \in [Slots -> Sessions \cup {None}] /\ rr \in 0..(RrWrap - 1)
    /\ loop \in [at: {"accept", "dial", "send", "dead"}, conn: Conns \cup {None}]
    /\ chan \in Seq(Sessions) /\ Len(chan) <= Backlog
    /\ session_list \subseteq Sessions /\ sweep \subseteq Sessions
    /\ up \in [Sessions -> {"none", "open", "closed"}]
    /\ left \in [Sessions -> Overdue..Max({config.auto_expire, 0})]
    /\ dropped \subseteq Sessions
    /\ conn \in [Conns -> [st: {"backlog", "held", "opening", "piped", "ended", "given_up"},
                           sess: Sessions \cup {None}]]
    /\ srv \in [Sessions -> {"none", "open", "closed"}]
    /\ stream \in [Conns -> {"none", "syn", "dialing", "piped", "closed"}]

Init ==
    /\ config \in Configs
    /\ muxes = [i \in Slots |-> None] /\ rr = 0 /\ loop = Idle
    /\ chan = <<>> /\ session_list = {} /\ sweep = {}
    /\ up = [s \in Sessions |-> "none"] /\ left = [s \in Sessions |-> 0]
    /\ dropped = {}
    /\ conn = [c \in Conns |-> [st |-> "backlog", sess |-> None]]
    /\ srv = [s \in Sessions |-> "none"] /\ stream = [c \in Conns |-> "none"]

-----------------------------------------------------------------------------
(* Who holds a session, after this step. *)
HeldNext(s) ==
    \/ s \in Range(muxes') \/ s \in Range(chan') \/ s \in session_list' \/ s \in sweep'
    \/ \E c \in Conns : conn'[c] = [st |-> "opening", sess |-> s]

(* Drop for Session: what this step leaves without a holder closes.        *)
DropUnheld ==
    LET gone == {s \in Sessions : up[s] = "open" /\ ~HeldNext(s)}
    IN  /\ up' = [s \in Sessions |-> IF s \in gone THEN "closed" ELSE up[s]]
        /\ dropped' = dropped \cup gone

CloseSession(s) == up' = [up EXCEPT ![s] = "closed"] /\ UNCHANGED dropped

-----------------------------------------------------------------------------
(* serve(): the accept loop.                                               *)

(* Starts the task of a connection, which takes a handle of its session. *)
Hand(c, s) ==
    /\ conn' = [conn EXCEPT ![c] = [st |-> "opening", sess |-> s]]
    /\ rr' = (rr + 1) % RrWrap
    /\ loop' = Idle

Released == [i \in Slots |-> IF muxes[i] # None /\ up[muxes[i]] = "closed" THEN None ELSE muxes[i]]

Refresh(i) == Released[i] = None \/ (config.auto_expire > 0 /\ left[Released[i]] < 0)

(* A connection is accepted and every dead slot released; its own slot     *)
(* serves it, or has to be dialled first.                                  *)
Accept(c) ==
    /\ loop = Idle /\ conn[c].st = "backlog"
    /\ \A d \in Conns : conn[d].st = "backlog" => c <= d
    /\ muxes' = Released
    /\ LET i == rr % config.numconn
       IN  IF Refresh(i)
           THEN /\ loop' = [at |-> "dial", conn |-> c]
                /\ conn' = [conn EXCEPT ![c].st = "held"]
                /\ UNCHANGED rr
           ELSE Hand(c, Released[i])
    /\ UNCHANGED <<config, chan, session_list, sweep, left, serverVars>>
    /\ DropUnheld

(* A failed accept that is not retried is fatal: the process exits.        *)
AcceptFails ==
    /\ loop = Idle
    /\ loop' = [Idle EXCEPT !.at = "dead"]
    /\ up' = [s \in Sessions |-> IF up[s] = "open" THEN "closed" ELSE up[s]]
    /\ conn' = [c \in Conns |-> [conn[c] EXCEPT !.st = "ended"]]
    /\ muxes' = [i \in Slots |-> None] /\ chan' = <<>> /\ session_list' = {} /\ sweep' = {}
    /\ UNCHANGED <<config, rr, left, dropped, serverVars>>

(* wait_conn() that succeeds; one that fails sleeps and dials again, which *)
(* changes nothing.                                                        *)
Dial ==
    /\ loop.at = "dial"
    /\ \E s \in Sessions :
        /\ up[s] = "none" /\ \A t \in Sessions : up[t] = "none" => s <= t
        /\ muxes' = [muxes EXCEPT ![rr % config.numconn] = s]
        /\ IF config.auto_expire > 0
           THEN loop' = [loop EXCEPT !.at = "send"] /\ UNCHANGED <<rr, conn>>
           ELSE Hand(loop.conn, s)
        /\ left' = [left EXCEPT ![s] = Max({config.auto_expire, 0})]
        /\ UNCHANGED <<config, chan, session_list, sweep, serverVars>>
        /\ LET gone == {t \in Sessions : up[t] = "open" /\ ~HeldNext(t)}
           IN  /\ up' = [t \in Sessions |-> IF t = s THEN "open"
                                            ELSE IF t \in gone THEN "closed" ELSE up[t]]
               /\ dropped' = dropped \cup gone

(* Mutant: the scavenger is told only while it has nothing queued. *)
Send_if_room ==
    /\ loop.at = "send"
    /\ LET s == muxes[rr % config.numconn]
       IN  /\ chan' = IF chan = <<>> THEN Append(chan, s) ELSE chan
           /\ Hand(loop.conn, s)
    /\ UNCHANGED <<config, muxes, session_list, sweep, up, left, dropped, serverVars>>

(* Mutant: a channel without a limit. *)
Send_unbounded ==
    /\ loop.at = "send"
    /\ LET s == muxes[rr % config.numconn]
       IN  /\ chan' = Append(chan, s)
           /\ Hand(loop.conn, s)
    /\ UNCHANGED <<config, muxes, session_list, sweep, up, left, dropped, serverVars>>

(* The new session goes to the scavenger, once there is room.              *)
Send ==
    /\ loop.at = "send" /\ Len(chan) < Backlog
    /\ LET s == muxes[rr % config.numconn]
       IN  /\ chan' = Append(chan, s)
           /\ Hand(loop.conn, s)
    /\ UNCHANGED <<config, muxes, session_list, sweep, up, left, dropped, serverVars>>

-----------------------------------------------------------------------------
(* scavenger().                                                            *)

Receive ==
    /\ sweep = {} /\ chan # <<>>
    /\ session_list' = session_list \cup {Head(chan)} /\ chan' = Tail(chan)
    /\ UNCHANGED <<config, muxes, rr, loop, sweep, up, left, dropped, conn, serverVars>>

ScavengeTick ==
    /\ sweep = {} /\ session_list # {}
    /\ sweep' = session_list /\ session_list' = {}
    /\ UNCHANGED <<config, muxes, rr, loop, chan, up, left, dropped, conn, serverVars>>

(* Mutant: what is looked at and kept is not put back. *)
Look_forgets(s) ==
    /\ s \in sweep /\ sweep' = sweep \ {s}
    /\ UNCHANGED <<config, muxes, rr, loop, chan, session_list, left, conn, serverVars>>
    /\ IF up[s] = "open" /\ left[s] < -config.scavenge_ttl THEN CloseSession(s) ELSE DropUnheld

(* One session of the list: forgotten when it is closed, closed when its   *)
(* expiry date plus the ttl has passed, kept otherwise.                    *)
Look(s) ==
    LET expired == left[s] < -config.scavenge_ttl
    IN  /\ s \in sweep /\ sweep' = sweep \ {s}
        /\ session_list' = IF up[s] = "open" /\ ~expired THEN session_list \cup {s} ELSE session_list
        /\ UNCHANGED <<config, muxes, rr, loop, chan, left, conn, serverVars>>
        /\ IF up[s] = "open" /\ expired THEN CloseSession(s) ELSE DropUnheld

-----------------------------------------------------------------------------
(* handle_client() of the client: the stream, then the pipe.               *)

(* What an attempt to open a stream makes of its connection; the task lets *)
(* go of the session.                                                      *)
Opened(c, st) ==
    /\ conn[c].st = "opening"
    /\ conn' = [conn EXCEPT ![c].st = st]
    /\ UNCHANGED <<clientVars, left, srv>>
    /\ DropUnheld

(* open_stream(): the SYN is written and the stream registered. *)
OpenStream(c) ==
    /\ Opened(c, "piped") /\ up[conn[c].sess] = "open"
    /\ stream' = [stream EXCEPT ![c] = "syn"]

(* Mutant: a closed session is waited for. *)
OpenFails_waits(c) == Opened(c, "ended") /\ up[conn[c].sess] = "open" /\ UNCHANGED stream

(* It fails: the session is closed, or has no stream ids left (GoAway), or *)
(* the SYN is not admitted to the send queue within 30 seconds.            *)
OpenFails(c) == Opened(c, "ended") /\ UNCHANGED stream

(* The SYN is queued but not written within 30 seconds: the connection is  *)
(* closed, and the SYN stays queued for a stream that is not registered.   *)
OpenTimesOut(c) ==
    /\ c \in GivenUp
    /\ Opened(c, "given_up") /\ up[conn[c].sess] = "open"
    /\ stream' = [stream EXCEPT ![c] = "syn"]

(* A pipe of the client ends when its user wants it to, and has to when    *)
(* its session is closed or the stream's FIN arrives.                      *)
ClientPipeEnds(c) ==
    /\ conn[c].st = "piped"
    /\ conn' = [conn EXCEPT ![c].st = "ended"]
    /\ UNCHANGED <<clientVars, up, left, dropped, serverVars>>

MustEnd(c) ==
    /\ conn[c].st = "piped"
    /\ up[conn[c].sess] = "closed" \/ (stream[c] = "closed" /\ srv[conn[c].sess] = "open")

(* The keepalive, or a loop whose link failed, closes a session. *)
SessionDies(s) ==
    /\ up[s] = "open"
    /\ CloseSession(s)
    /\ UNCHANGED <<clientVars, left, conn, serverVars>>

Tick ==
    /\ left' = [s \in Sessions |-> IF up[s] = "open" THEN Max({left[s] - 1, Overdue}) ELSE left[s]]
    /\ UNCHANGED <<clientVars, up, dropped, conn, serverVars>>

-----------------------------------------------------------------------------
(* The server: serve_listener(), handle_mux(), serve_stream().             *)

(* The SYN arrives, and with a session's first one the session itself.     *)
AcceptStream(c) ==
    LET s == conn[c].sess
    IN  /\ stream[c] = "syn" /\ srv[s] # "closed"
        /\ srv' = [srv EXCEPT ![s] = "open"]
        /\ stream' = [stream EXCEPT ![c] = "dialing"]
        /\ UNCHANGED <<clientVars, up, left, dropped, conn>>

(* It never does: one of the two ends is gone. *)
SynLost(c) ==
    LET s == conn[c].sess
    IN  /\ stream[c] = "syn" /\ (up[s] = "closed" \/ srv[s] = "closed")
        /\ stream' = [stream EXCEPT ![c] = "closed"]
        /\ UNCHANGED <<clientVars, up, left, dropped, conn, srv>>

TargetDialled(c) ==
    /\ stream[c] = "dialing"
    /\ stream' = [stream EXCEPT ![c] = "piped"]
    /\ UNCHANGED <<clientVars, up, left, dropped, conn, srv>>

(* fail_stream(): the dial fails or times out and the stream is closed.    *)
TargetFails(c) ==
    /\ stream[c] = "dialing"
    /\ stream' = [stream EXCEPT ![c] = "closed"]
    /\ UNCHANGED <<clientVars, up, left, dropped, conn, srv>>

ServerPipeEnds(c) ==
    /\ stream[c] = "piped"
    /\ stream' = [stream EXCEPT ![c] = "closed"]
    /\ UNCHANGED <<clientVars, up, left, dropped, conn, srv>>

(* The FIN of the client's end arrives; an end that was never registered   *)
(* sends none.                                                             *)
ServerMustEnd(c) ==
    /\ stream[c] = "piped"
    /\ srv[conn[c].sess] = "closed" \/ (conn[c].st = "ended" /\ up[conn[c].sess] = "open")

(* The server's keepalive or link: accept_stream() fails, the loop ends    *)
(* and closes the session.                                                 *)
ServerSessionDies(s) ==
    /\ srv[s] = "open"
    /\ srv' = [srv EXCEPT ![s] = "closed"]
    /\ UNCHANGED <<clientVars, up, left, dropped, conn, stream>>

ClientNext ==
    \/ \E c \in Conns : \/ Accept(c) \/ OpenStream(c) \/ OpenFails(c) \/ OpenTimesOut(c)
                        \/ ClientPipeEnds(c)
    \/ AcceptFails \/ Dial \/ Send \/ Receive \/ ScavengeTick \/ Tick
    \/ \E s \in Sessions : Look(s) \/ SessionDies(s)

ServerNext ==
    \/ \E c \in Conns : \/ AcceptStream(c) \/ SynLost(c) \/ TargetDialled(c) \/ TargetFails(c)
                        \/ ServerPipeEnds(c)
    \/ \E s \in Sessions : ServerSessionDies(s)

Next == ClientNext \/ ServerNext

Spec == Init /\ [][Next]_vars

(* Tasks run and time passes.  A dial is answered in the end (it resolves  *)
(* a name and opens a socket); select! takes its arms in random order, so  *)
(* the scavenger's ticks do not shut out its channel; a pipe ends once one *)
(* of its ends is gone (PipeEnds, module MCProxy); a session whose peer is  *)
(* gone is closed by its keepalive.                                        *)
AcceptLoop == Dial \/ Send \/ \E c \in Conns : Accept(c)
Scavenge == \E s \in Sessions : Look(s)
Tasks ==
    \/ \E c \in Conns : \/ OpenStream(c) \/ OpenFails(c) \/ OpenTimesOut(c)
                        \/ (MustEnd(c) /\ ClientPipeEnds(c))
                        \/ AcceptStream(c) \/ SynLost(c) \/ TargetDialled(c) \/ TargetFails(c)
                        \/ (ServerMustEnd(c) /\ ServerPipeEnds(c))
    \/ \E s \in Sessions : \/ srv[s] = "closed" /\ SessionDies(s)
                           \/ up[s] = "closed" /\ ServerSessionDies(s)

Fairness ==
    /\ WF_vars(Tick) /\ WF_vars(AcceptLoop) /\ WF_vars(Tasks)
    /\ SF_vars(Receive) /\ WF_vars(ScavengeTick) /\ WF_vars(Scavenge)

FairSpec == Spec /\ Fairness

-----------------------------------------------------------------------------
(* A live session is closed by its link, by the scavenger or with the      *)
(* process, never by letting go of it: whoever replaces a session in its   *)
(* slot has given it to the scavenger, so its streams live until the ttl   *)
(* (serve and scavenger).                                                  *)
NoneDropped == dropped = {}

(* With -autoexpire every session has been closed by the scavenger. *)
SessionsClosed == config.auto_expire > 0 => \A s \in Sessions : up[s] # "open"

(* Every accepted connection has its stream or is closed; one that has     *)
(* ended at the client has ended at the server, and the other way round;   *)
(* but one that was given up with its SYN queued is sure to end at the     *)
(* server only with its session.                                           *)
Settled ==
    \A c \in Conns :
        /\ conn[c].st \in {"piped", "ended", "given_up"}
        /\ conn[c].st = "ended" => stream[c] \in {"none", "closed"}
        /\ conn[c].st = "given_up" => stream[c] = "closed" \/ up[conn[c].sess] = "open"
        /\ stream[c] = "closed" => conn[c].st \in {"ended", "given_up"}

-----------------------------------------------------------------------------
(* The inductive invariant of ProcessProofs.                               *)

(* The slot the accept loop is at. *)
Slot == rr % config.numconn

(* A slot is dialled for a connection, when it is empty or its session has *)
(* expired; only one that can expire is sent to the scavenger.             *)
LoopSound ==
    /\ loop.at \in {"dial", "send"} => loop.conn \in Conns
    /\ loop.at = "dial" => config.auto_expire > 0 \/ muxes[Slot] = None
    /\ loop.at = "send" => config.auto_expire > 0 /\ muxes[Slot] # None

(* A live session that can expire is the scavenger's, or about to be; one  *)
(* that cannot keeps its slot.                                             *)
Kept ==
    \A s \in Sessions : up[s] = "open" =>
        IF config.auto_expire > 0
        THEN s \in Range(chan) \cup session_list \cup sweep \/ (loop.at = "send" /\ muxes[Slot] = s)
        ELSE s \in Range(muxes)

TunnelInv == TypeOK /\ LoopSound /\ Kept /\ NoneDropped
=============================================================================
