------------------------------ MODULE Listener ------------------------------
(***************************************************************************)
(* The server side of the KCP transport (crates/kcp/src/listener.rs): one  *)
(* monitor task that demultiplexes the datagrams of a shared socket, the   *)
(* map of sessions by peer address, the index by conversation (Deviation   *)
(* V23), the accept queue, and the part of UdpSession::close() that takes  *)
(* a session out of the listener again.                                    *)
(*                                                                         *)
(* The two maps have a lock each, taken for one operation at a time, so    *)
(* packet_input() and close_session() are split where a lock is released.  *)
(* The contents of a packet is reduced to what the demux reads: whether it *)
(* names a conversation, which, and whether its sn is 0.                   *)
(***************************************************************************)
EXTENDS Naturals, Sequences, FiniteSets, TokioNotify

CONSTANTS
    Addrs,          \* canonical peer addresses
    Convs,          \* conversation ids
    Acceptors,      \* tasks that call accept()
    None,           \* no session, no conversation
    ACCEPT_BACKLOG, \* bound of the accept queue
    strict_source,  \* Go's rule: the conversation index is not consulted
    MaxSessions,    \* bound on the sessions created in a run
    Collisions      \* a reset may meet a close() that somebody else has begun,
                    \* or bring a conversation that another session has

VARIABLES
    made,       \* the sessions created so far: their conversation and address
    life,       \* of each: "live", then the steps of close()
    victim,     \* what close_session() took out of `sessions' for each
    sessions,   \* the session of each address, or None
    by_conv,    \* the session that holds each conversation, or None
    accepts,    \* the accept queue
    accepted,   \* sessions accept() has handed out
    accept_notify, \* wakes the tasks in accept()
    mon,        \* the monitor: its step and the packet it works on
    failed,     \* the listener recorded a socket read error
    told        \* the sessions that error was passed on to

vars == <<made, life, victim, sessions, by_conv, accepts, accepted, accept_notify, mon, failed, told>>

maps == <<sessions, by_conv>>
queue == <<accepts, accepted, accept_notify>>
closing == <<life, victim>>
errors == <<failed, told>>

Ids == 1..MaxSessions
Existing == 1..Len(made)

TypeOK ==
    /\ made \in Seq([conv: Convs, addr: Addrs]) /\ Len(made) <= MaxSessions
    /\ life \in [Ids -> {"none", "live", "closing", "unlisted", "closed"}]
    /\ victim \in [Ids -> Ids \cup {None}]
    /\ sessions \in [Addrs -> Ids \cup {None}]
    /\ by_conv \in [Convs -> Ids \cup {None}]
    /\ accepts \in Seq(Ids) /\ Len(accepts) <= ACCEPT_BACKLOG
    /\ accepted \subseteq Ids
    /\ accept_notify \in NotifyType(Acceptors)
    /\ mon \in [step: {"idle", "find", "route", "wait", "create", "register", "push", "stopped"},
                addr: Addrs \cup {None}, conv: Convs \cup {None}, zero: BOOLEAN,
                sess: Ids \cup {None}]
    /\ failed \in BOOLEAN
    /\ told \subseteq Ids

Idle == [step |-> "idle", addr |-> None, conv |-> None, zero |-> FALSE, sess |-> None]

Init ==
    /\ made = <<>>
    /\ life = [s \in Ids |-> "none"]
    /\ victim = [s \in Ids |-> None]
    /\ sessions = [a \in Addrs |-> None]
    /\ by_conv = [c \in Convs |-> None]
    /\ accepts = <<>>
    /\ accepted = {}
    /\ accept_notify = Fresh(Acceptors)
    /\ mon = Idle
    /\ failed = FALSE
    /\ told = {}

-----------------------------------------------------------------------------
(* A datagram arrives: packet_input() decrypts it, reads what it can of    *)
(* its conversation and looks its address up.  `zero' is sn == 0, which an *)
(* OOB packet always has: with a conversation of its own it resets the     *)
(* session of the address.                                                 *)
MonRecv(a, c, zero) ==
    /\ mon.step = "idle"
    /\ LET s == sessions[a]
       IN  zero /\ s # None /\ c # None => Collisions \/ (life[s] = "live" /\ by_conv[c] \in {None, s})
    /\ mon' = [step |-> "find", addr |-> a, conv |-> c, zero |-> zero, sess |-> sessions[a]]
    /\ UNCHANGED <<made, closing, maps, queue, errors>>

(* Mutant: the conversation index is not consulted. *)
MonFind_by_address ==
    /\ mon.step = "find"
    /\ mon' = [mon EXCEPT !.step = "route"]
    /\ UNCHANGED <<made, closing, maps, queue, errors>>

(* Deviation V23: an unknown address may still carry a known conversation. *)
MonFind ==
    /\ mon.step = "find"
    /\ mon' = [mon EXCEPT
                 !.step = "route",
                 !.sess = IF @ = None /\ mon.conv # None /\ ~strict_source
                          THEN by_conv[mon.conv] ELSE @]
    /\ UNCHANGED <<made, closing, maps, queue, errors>>

(* An existing session is fed, or the packet is dropped, or (a mismatched  *)
(* conversation with sn == 0) the session is closed to make room.  Without *)
(* a session, a packet that names a conversation creates one.  close()     *)
(* returns at once when somebody else has begun to close the session.      *)
MonRoute ==
    /\ mon.step = "route"
    /\ LET s == mon.sess
           reset == s # None /\ mon.conv \notin {None, made[s].conv} /\ mon.zero
       IN  \/ /\ reset /\ life[s] = "live"
              /\ life' = [life EXCEPT ![s] = "closing"]
              /\ mon' = [mon EXCEPT !.step = "wait"]
           \/ /\ IF s = None THEN mon.conv # None ELSE reset /\ life[s] # "live"
              /\ mon' = [mon EXCEPT !.step = "create"]
              /\ UNCHANGED life
           \/ /\ ~reset /\ (s # None \/ mon.conv = None)
              /\ mon' = Idle
              /\ UNCHANGED life
    /\ UNCHANGED <<made, victim, maps, queue, errors>>

(* The close() the monitor called itself returns. *)
MonWait ==
    /\ mon.step = "wait"
    /\ life[mon.sess] = "closed"
    /\ mon' = [mon EXCEPT !.step = "create"]
    /\ UNCHANGED <<made, closing, maps, queue, errors>>

(* A new session, unless the backlog is full: created, fed and inserted.   *)
MonCreate ==
    /\ mon.step = "create"
    /\ IF Len(accepts) >= ACCEPT_BACKLOG
       THEN /\ mon' = Idle
            /\ UNCHANGED <<made, closing, sessions>>
       ELSE LET s == Len(made) + 1
            IN  /\ s <= MaxSessions
                /\ made' = Append(made, [conv |-> mon.conv, addr |-> mon.addr])
                /\ life' = [life EXCEPT ![s] = "live"]
                /\ sessions' = [sessions EXCEPT ![mon.addr] = s]
                /\ mon' = [mon EXCEPT !.step = "register", !.sess = s]
                /\ UNCHANGED victim
    /\ UNCHANGED <<by_conv, queue, errors>>

(* register_conv(): the first session keeps a conversation. *)
MonRegister ==
    /\ mon.step = "register"
    /\ by_conv' = [by_conv EXCEPT ![mon.conv] = IF @ = None THEN mon.sess ELSE @]
    /\ mon' = [mon EXCEPT !.step = "push"]
    /\ UNCHANGED <<made, closing, sessions, queue, errors>>

(* Mutant: the acceptor is woken only when the queue was empty. *)
MonPush_edge ==
    /\ mon.step = "push"
    /\ accepts' = Append(accepts, mon.sess)
    /\ IF accepts = <<>> THEN accept_notify' \in NotifyOne(accept_notify) ELSE UNCHANGED accept_notify
    /\ mon' = Idle
    /\ UNCHANGED <<made, closing, maps, accepted, errors>>

(* push_accept(). *)
MonPush ==
    /\ mon.step = "push"
    /\ accepts' = Append(accepts, mon.sess)
    /\ accept_notify' \in NotifyOne(accept_notify)
    /\ mon' = Idle
    /\ UNCHANGED <<made, closing, maps, accepted, errors>>

(* Mutant: the sessions still in the accept queue are not told. *)
MonStop_accepted(error) ==
    /\ mon.step = "idle"
    /\ mon' = [mon EXCEPT !.step = "stopped"]
    /\ failed' = error
    /\ told' = IF error THEN {sessions[a] : a \in Addrs} \cap accepted ELSE told
    /\ UNCHANGED <<made, closing, maps, queue>>

(* The monitor ends: the socket failed, or the listener was closed.  The   *)
(* error, if there is one (a listener that does not own its socket reports *)
(* none on close), goes to every session of the map.                       *)
MonStop(error) ==
    /\ mon.step = "idle"
    /\ mon' = [mon EXCEPT !.step = "stopped"]
    /\ failed' = error
    /\ told' = IF error THEN {sessions[a] : a \in Addrs} \ {None} ELSE told
    /\ UNCHANGED <<made, closing, maps, queue>>

-----------------------------------------------------------------------------
(* Mutant: close() may run again on a closed session (no die_once). *)
CloseBegin_again(s) ==
    /\ s \in accepted
    /\ Collisions \/ mon.sess # s
    /\ life[s] \in {"live", "closed"}
    /\ life' = [life EXCEPT ![s] = "closing"]
    /\ UNCHANGED <<made, victim, maps, queue, mon, errors>>

(* The application closes a session; only the first close() goes on. *)
CloseBegin(s) ==
    /\ s \in accepted
    /\ Collisions \/ mon.sess # s
    /\ life[s] = "live"
    /\ life' = [life EXCEPT ![s] = "closing"]
    /\ UNCHANGED <<made, victim, maps, queue, mon, errors>>

(* remove_session(): whatever session the address has is taken out, *)
CloseRemove(s) ==
    /\ life[s] = "closing"
    /\ life' = [life EXCEPT ![s] = "unlisted"]
    /\ victim' = [victim EXCEPT ![s] = sessions[made[s].addr]]
    /\ sessions' = [sessions EXCEPT ![made[s].addr] = None]
    /\ UNCHANGED <<made, by_conv, queue, mon, errors>>

(* Mutant: the conversation stays in the index. *)
CloseAlias_leak(s) ==
    /\ life[s] = "unlisted"
    /\ life' = [life EXCEPT ![s] = "closed"]
    /\ victim' = [victim EXCEPT ![s] = None]
    /\ UNCHANGED <<made, maps, queue, mon, errors>>

(* and its conversation with it, if it holds that. *)
CloseAlias(s) ==
    /\ life[s] = "unlisted"
    /\ life' = [life EXCEPT ![s] = "closed"]
    /\ victim' = [victim EXCEPT ![s] = None]
    /\ by_conv' = IF victim[s] = None THEN by_conv
                  ELSE [by_conv EXCEPT ![made[victim[s]].conv] =
                                          IF @ = victim[s] THEN None ELSE @]
    /\ UNCHANGED <<made, sessions, queue, mon, errors>>

-----------------------------------------------------------------------------
(* accept() starts, or goes round its loop when it is woken. *)
AcceptEnter(t) ==
    /\ Starting(accept_notify, t)
    /\ accept_notify' = Enable(accept_notify, t)
    /\ UNCHANGED <<made, closing, maps, accepts, accepted, mon, errors>>

(* It takes a session, or waits. *)
AcceptLook(t) ==
    /\ Looking(accept_notify, t)
    /\ IF accepts # <<>>
       THEN /\ accepted' = accepted \cup {Head(accepts)}
            /\ accepts' = Tail(accepts)
            /\ accept_notify' \in Drop(accept_notify, t)
       ELSE /\ accept_notify' = Await(accept_notify, t)
            /\ UNCHANGED <<accepts, accepted>>
    /\ UNCHANGED <<made, closing, maps, mon, errors>>

(* The deadline passes, the socket failed or the listener is closed. *)
AcceptGiveUp(t) ==
    /\ Waiting(accept_notify, t)
    /\ accept_notify' \in Drop(accept_notify, t)
    /\ UNCHANGED <<made, closing, maps, accepts, accepted, mon, errors>>

Next ==
    \/ \E a \in Addrs, c \in Convs \cup {None}, zero \in BOOLEAN : MonRecv(a, c, zero)
    \/ MonFind
    \/ MonRoute
    \/ MonWait
    \/ MonCreate
    \/ MonRegister
    \/ MonPush
    \/ \E error \in BOOLEAN : MonStop(error)
    \/ \E s \in Ids : CloseBegin(s) \/ CloseRemove(s) \/ CloseAlias(s)
    \/ \E t \in Acceptors : AcceptEnter(t) \/ AcceptLook(t) \/ AcceptGiveUp(t)

Spec == Init /\ [][Next]_vars

-----------------------------------------------------------------------------
(* A session that nobody has closed gets its peer's packets: the address   *)
(* it was made for leads to it.  The comment on the reset path of          *)
(* packet_input() relies on it: close() takes out the old session, not one *)
(* that has followed it.                                                   *)
LiveReachable ==
    \A s \in Existing : life[s] = "live" => sessions[made[s].addr] = s

(* Once close() has returned, neither map leads to the session: a stale    *)
(* entry would swallow the packets of a peer that comes back, and keep the *)
(* session's memory for good.                                              *)
ClosedForgotten ==
    \A s \in Existing :
        life[s] = "closed" =>
            /\ \A a \in Addrs : sessions[a] # s
            /\ \A c \in Convs : by_conv[c] # s

(* A peer whose datagrams come from several addresses keeps one session:   *)
(* no two live ones have the same conversation, whatever close() is half   *)
(* done with.                                                              *)
OneSessionPerConv ==
    \A s, t \in Existing :
        life[s] = "live" /\ life[t] = "live" /\ made[s].conv = made[t].conv => s = t

(* The tasks in accept() that are in some places. *)
Tasks(states) == Cardinality({t \in Acceptors : accept_notify.at[t] \in states})

(* No task sleeps in accept() while a session waits for it: for every one  *)
(* in the queue a task is on its way to look, or will hand a wake-up on,   *)
(* however wake-ups, permits and deadlines of several tasks interleave.    *)
AcceptorWoken ==
    Tasks({"parked"}) > 0 =>
        Len(accepts) <= Tasks({"look", "hit", "sure", "woken"}) + Tasks({"hit"})

(* A socket error reaches every live session, also one still in the accept *)
(* queue: otherwise its reader waits for packets that cannot come.         *)
ErrorReachesAll ==
    failed => \A s \in Existing : life[s] = "live" => s \in told
=============================================================================
