------------------------------ MODULE MCProcess ------------------------------
(***************************************************************************)
(* The tasks of the client and server processes on small instances, with   *)
(* the fairness of the code's tasks.  Five models that share no state are  *)
(* checked side by side: `part' says which of them a behaviour is about,   *)
(* and the others are absent.                                              *)
(*   "tunnel" - Tunnel, the sessions and connections of both processes;    *)
(*   "exit"   - ExitHooks, the iptables rules and the ways out;            *)
(*   "raw"    - RawConn, the packets of the fake-TCP transport;            *)
(*   "live"   - Session, two writers and the tasks of one KCP session;     *)
(*   "tune"   - AutoTune, the decoder that follows its peer's parameters.  *)
(***************************************************************************)
EXTENDS Integers

CONSTANTS
    Conns, MaxDials, RrWrap, Backlog, GivenUp,                                          \* Tunnel
    RawConns, Exits, LockTaken,                                                    \* ExitHooks
    Peers, Connecting, Reals, Handles, SeqMod, EXPIRE, ORPHAN_EXPIRE, MESSAGE_BACKLOG,
    Writers, MaxWrites, SndWnd, DEV_BACKLOG, OUTPUT_ROOM, MAX_BATCH_SIZE,          \* Session
    PeerData, PeerParity, OwnData, OwnParity, SeqLimit, MAX_AUTO_TUNE_SAMPLES,
    TuneLimit, InFlight, MaxFaults                                                 \* AutoTune

VARIABLES
    part,
    config, muxes, rr, loop, chan, session_list, sweep, up, left, dropped, conn,
    srv, stream,   \* Tunnel
    chain, foreign, stuck, xlock, hooks, conn_list, closed, rules, setup, held,
    thread, fallback, process,   \* ExitHooks
    mode, flows, real, capture, channel, accept, cleaner, closer,   \* RawConn
    snd_queue, in_flight, open, packets, tx, txqueue, wire, write_error,
    write_notify, writing, count, accepted, read_notify, readable, arrived,
    owed, die_once, die, close_task, final, conn_open,   \* Session
    next, net, ring, data_shards, parity_shards, should_tune, faults   \* AutoTune

ASSUME TunnelAssumption ==
    /\ Conns \subseteq Nat \ {0} /\ MaxDials \in Nat /\ RrWrap \in Nat \ {0} /\ Backlog \in Nat

(* Exit paths and connections are different threads. *)
ASSUME ExitAssumption == RawConns \cap (Exits \cup {"none"}) = {}

(* Real connections are numbered from 1, and a peer is somebody. *)
ASSUME RawAssumption ==
    /\ Reals \subseteq Nat \ {0} /\ 1 \in Reals
    /\ Connecting \subseteq Peers /\ "nobody" \notin Peers
    /\ SeqMod \in Nat \ {0} /\ EXPIRE \in Nat /\ MESSAGE_BACKLOG \in Nat

(* One connection slot that expires at once or never, and two of which the *)
(* expired session is closed with the first look (-scavengettl -1).        *)
Configs == {[numconn |-> 1, auto_expire |-> 1, scavenge_ttl |-> 0],
            [numconn |-> 1, auto_expire |-> 0, scavenge_ttl |-> 0],
            [numconn |-> 2, auto_expire |-> 1, scavenge_ttl |-> -1]}

T == INSTANCE Tunnel
X == INSTANCE ExitHooks WITH Conns <- RawConns
R == INSTANCE RawConn
L == INSTANCE Session WITH
        chan <- packets, closer <- close_task, Readers <- {}, MaxMsgs <- 0,
        write_delay <- TRUE, own_conn <- TRUE, SocketFails <- TRUE, AtomicSelect <- FALSE
A == INSTANCE AutoTune

tunnelVars == <<config, muxes, rr, loop, chan, session_list, sweep, up, left, dropped, conn,
                srv, stream>>
exitVars == <<chain, foreign, stuck, xlock, hooks, conn_list, closed, rules, setup, held,
              thread, fallback, process>>
rawVars == <<mode, flows, real, capture, channel, accept, cleaner, closer>>
liveVars == <<snd_queue, in_flight, open, packets, tx, txqueue, wire, write_error,
              write_notify, writing, count, accepted, read_notify, readable, arrived, owed,
              die_once, die, close_task, final, conn_open>>
tuneVars == <<next, net, ring, data_shards, parity_shards, should_tune, faults>>

(* The parts that a behaviour is not about. *)
NoTunnel ==
    /\ config = 0 /\ muxes = 0 /\ rr = 0 /\ loop = 0 /\ chan = 0 /\ session_list = 0
    /\ sweep = 0 /\ up = 0 /\ left = 0 /\ dropped = 0 /\ conn = 0 /\ srv = 0 /\ stream = 0
NoExit ==
    /\ chain = 0 /\ foreign = 0 /\ stuck = 0 /\ xlock = 0 /\ hooks = 0 /\ conn_list = 0
    /\ closed = 0 /\ rules = 0 /\ setup = 0 /\ held = 0 /\ thread = 0 /\ fallback = 0
    /\ process = 0
NoRaw ==
    /\ mode = 0 /\ flows = 0 /\ real = 0 /\ capture = 0 /\ channel = 0 /\ accept = 0
    /\ cleaner = 0 /\ closer = 0
NoLive ==
    /\ snd_queue = 0 /\ in_flight = 0 /\ open = 0 /\ packets = 0 /\ tx = 0 /\ txqueue = 0
    /\ wire = 0 /\ write_error = 0 /\ write_notify = 0 /\ writing = 0 /\ count = 0
    /\ accepted = 0 /\ read_notify = 0 /\ readable = 0 /\ arrived = 0 /\ owed = 0
    /\ die_once = 0 /\ die = 0 /\ close_task = 0 /\ final = 0 /\ conn_open = 0
NoTune ==
    /\ next = 0 /\ net = 0 /\ ring = 0 /\ data_shards = 0 /\ parity_shards = 0
    /\ should_tune = 0 /\ faults = 0

Init ==
    \/ part = "tunnel" /\ T!Init /\ NoExit /\ NoRaw /\ NoLive /\ NoTune
    \/ part = "exit" /\ X!Init /\ NoTunnel /\ NoRaw /\ NoLive /\ NoTune
    \/ part = "raw" /\ R!Init /\ NoTunnel /\ NoExit /\ NoLive /\ NoTune
    \/ part = "live" /\ L!Init /\ NoTunnel /\ NoExit /\ NoRaw /\ NoTune
    \/ part = "tune" /\ A!Init /\ NoTunnel /\ NoExit /\ NoRaw /\ NoLive

Next ==
    /\ UNCHANGED part
    /\ \/ part = "tunnel" /\ T!Next /\ UNCHANGED <<exitVars, rawVars, liveVars, tuneVars>>
       \/ part = "exit" /\ X!Next /\ UNCHANGED <<tunnelVars, rawVars, liveVars, tuneVars>>
       \/ part = "raw" /\ R!Next /\ UNCHANGED <<tunnelVars, exitVars, liveVars, tuneVars>>
       \/ part = "live" /\ L!Next /\ UNCHANGED <<tunnelVars, exitVars, rawVars, tuneVars>>
       \/ part = "tune" /\ A!Next /\ UNCHANGED <<tunnelVars, exitVars, rawVars, liveVars>>

(* The fairness of the part at hand: its FairSpec, FairLockSpec of ExitHooks. *)
Fairness ==
    /\ WF_tunnelVars(part = "tunnel" /\ T!Tick)
    /\ WF_tunnelVars(part = "tunnel" /\ T!AcceptLoop)
    /\ WF_tunnelVars(part = "tunnel" /\ T!Tasks)
    /\ SF_tunnelVars(part = "tunnel" /\ T!Receive)
    /\ WF_tunnelVars(part = "tunnel" /\ T!ScavengeTick)
    /\ WF_tunnelVars(part = "tunnel" /\ T!Scavenge)
    /\ WF_exitVars(part = "exit" /\ X!FallbackExit)
    /\ WF_exitVars(part = "exit" /\ X!Installers) /\ WF_exitVars(part = "exit" /\ X!Closers)
    /\ WF_exitVars(part = "exit" /\ X!ReleaseLock)
    /\ WF_rawVars(part = "raw" /\ R!Ending) /\ WF_rawVars(part = "raw" /\ R!Accepting)
    /\ WF_rawVars(part = "raw" /\ R!CloseSwept) /\ WF_rawVars(part = "raw" /\ R!Closing)
    /\ \A w \in Writers : WF_liveVars(part = "live" /\ L!WriterRuns(w))
    /\ WF_liveVars(part = "live" /\ L!Wakes) /\ WF_liveVars(part = "live" /\ L!Transmits)
    /\ WF_liveVars(part = "live" /\ L!Closes) /\ SF_liveVars(part = "live" /\ L!Flushes)
    /\ SF_liveVars(part = "live" /\ L!Acknowledges)
    /\ WF_tuneVars(part = "tune" /\ A!Sends) /\ WF_tuneVars(part = "tune" /\ A!Delivers)

vars == <<part, tunnelVars, exitVars, rawVars, liveVars, tuneVars>>

Spec == Init /\ [][Next]_vars
FairSpec == Spec /\ Fairness

-----------------------------------------------------------------------------
(* The state of the part at hand has its type; channels and queues keep to *)
(* their limits.                                                           *)
Typed ==
    CASE part = "tunnel" -> T!TypeOK
      [] part = "exit" -> X!TypeOK
      [] part = "raw" -> R!TypeOK
      [] part = "live" -> L!TypeOK
      [] part = "tune" -> A!TypeOK

(* A live session is closed by its link, by the scavenger or with the      *)
(* process, never by letting go of it: whoever replaces a session in its   *)
(* slot has given it to the scavenger, so its streams live until the ttl   *)
(* (serve and scavenger).                                                  *)
NoneDropped == part = "tunnel" => T!NoneDropped

(* While the process lives, a rule it added is recorded for its            *)
(* connection's close, or in the hands of the one thread that will delete  *)
(* it: "one of the two always sees the rules" (store_rules).  A rule that  *)
(* was there before is never deleted (InstalledRule).                      *)
RulesOwned == part = "exit" => X!RuleOwned /\ X!ForeignKept

(* Nothing is delivered from an address that never completed a real TCP    *)
(* connection: "nothing may be delivered from" an orphan (flow.rs).  A     *)
(* real connection whose segments are kept on the host is where a sweep or *)
(* a close will find it, unless a later one took its place or it came      *)
(* while the listener was being closed.                                    *)
FlowsSound == part = "raw" => R!OnlyEstablished /\ R!TableOwns

(* In the end every accepted connection has its stream or is closed; one   *)
(* that has ended at one end has ended at the other, and the target        *)
(* connection with it (handle_client and serve_stream), unless the client  *)
(* gave it up with its SYN queued (open_stream), when only the end of the  *)
(* session is sure to end it; and with -autoexpire every session is closed *)
(* (scavenger).                                                            *)
Settles == <>[](part = "tunnel" => T!Settled /\ T!SessionsClosed)

(* SIGTERM ends the process: "the 5 s fallback `exit(0)` task is already   *)
(* armed before the hooks run" (iptables_reset).                           *)
TerminationEnds == <>[](part = "exit" => X!Terminated)

(* A close is carried through.  The iptables rule of a connection that was *)
(* closed or given up goes, if the process is left the time; closing a raw *)
(* connection ends its tasks and gives back the TTL of every real one but  *)
(* one superseded or accepted too late; close() of a session retires its   *)
(* transmit task.                                                          *)
ClosesEnd == <>[](/\ part = "exit" => X!Cleaned
                  /\ part = "raw" => R!AllEnded
                  /\ part = "live" => L!Retired)

(* Every write() returns: a window update, the updater, a socket error or  *)
(* close() releases it, whatever wake-ups other writers use up; and what   *)
(* it was told is accepted goes out, however full the channel is, unless   *)
(* the session is closed or broken.                                        *)
WritesEnd == <>[](part = "live" => L!NoneWriting /\ L!AllSent)

(* Whatever is lost, repeated or overtaken, and when the numbers begin     *)
(* anew: tuning finds the peer's parameters or none, never a third pair    *)
(* with which recovered packets would be garbage; and once the network     *)
(* behaves the decoder follows its peer, and does not lose it again.       *)
FollowsPeer == [](part = "tune" => A!PeriodRight) /\ <>[](part = "tune" => A!Following)
=============================================================================
