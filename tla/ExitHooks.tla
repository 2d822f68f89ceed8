------------------------------ MODULE ExitHooks ------------------------------
(***************************************************************************)
(* The iptables rules of --tcp connections and the ways the process ends   *)
(* (crates/tcpraw/src/conn.rs and iptables.rs, crates/std/src/signal.rs    *)
(* and log.rs).  Dialling installs a rule from a blocking thread, closing  *)
(* removes it, and every exit path the process controls runs the exit      *)
(* hook, which closes what is in CONN_LIST.                                *)
(*                                                                         *)
(* The IPv4 and the IPv6 rule of a connection are one rule here.           *)
(***************************************************************************)
EXTENDS Integers, FiniteSets

CONSTANTS
    Conns,              \* the fake-TCP connections
    Exits,              \* the exit paths taken: of "signal", "fatal" and "abort"
    LockTaken           \* another process may take the xtables lock, once

VARIABLES
    chain,              \* the connections whose rule is in filter/OUTPUT
    foreign,            \* the ones whose rule was there before
    stuck,              \* the ones whose rule iptables failed to delete
    xlock,              \* the xtables lock of the other process: "free", "held" or "past"
    hooks,              \* the exit hook is registered and not taken
    conn_list,          \* CONN_LIST
    closed,             \* TcpConnInner::closed
    rules,              \* a rule is recorded as this connection's
    setup,              \* of each connection, its blocking task
    held,               \* who closes it: nobody yet, the dial future, its owner, or done
    thread,             \* the threads that close connections
    fallback,           \* the fallback exit is armed
    process             \* "running", "exited" or "killed"

vars == <<chain, foreign, stuck, xlock, hooks, conn_list, closed, rules, setup, held, thread,
          fallback, process>>

(* An exit path, or the thread a connection's owner closes it from. *)
Threads == Exits \cup Conns
None == "none"
Asleep == [pc |-> "idle", todo |-> {}, cur |-> None]

TypeOK ==
    /\ {chain, foreign, stuck, conn_list} \subseteq SUBSET Conns
    /\ xlock \in {"free", "held", "past"} /\ {hooks, fallback} \subseteq BOOLEAN
    /\ closed \in [Conns -> BOOLEAN] /\ rules \in [Conns -> BOOLEAN]
    /\ setup \in [Conns -> {"none", "exists", "append", "installed", "nothing", "undo", "done"}]
    /\ held \in [Conns -> {"none", "future", "owner", "gone"}]
    /\ thread \in [Threads -> [pc: {"idle", "hooks", "snapshot", "begin", "drain", "delete", "end", "raised"},
                               todo: SUBSET Conns, cur: Conns \cup {None}]]
    /\ process \in {"running", "exited", "killed"}

Init ==
    /\ foreign \in SUBSET Conns /\ chain = foreign /\ stuck = {} /\ xlock = "free"
    /\ hooks = TRUE /\ conn_list = {} /\ closed = [c \in Conns |-> FALSE]
    /\ rules = [c \in Conns |-> FALSE] /\ setup = [c \in Conns |-> "none"]
    /\ held = [c \in Conns |-> "none"]
    /\ thread = [t \in Threads |-> Asleep] /\ fallback = FALSE /\ process = "running"

Running == process = "running"

-----------------------------------------------------------------------------
(* dial() and listen(): the connection is listed and guarded, then a       *)
(* blocking task installs its rule.                                        *)

Dial(c) ==
    /\ Running /\ setup[c] = "none"
    /\ conn_list' = conn_list \cup {c}
    /\ setup' = [setup EXCEPT ![c] = "exists"] /\ held' = [held EXCEPT ![c] = "future"]
    /\ UNCHANGED <<chain, foreign, stuck, xlock, hooks, closed, rules, thread, fallback, process>>

(* iptables waits for the xtables lock, for as long as it takes.  (One too *)
(* old for --wait is run without the lock if another process has it: that  *)
(* is a process to which LockTaken does not apply.)                        *)
Iptables == Running /\ xlock # "held"

(* A rule that is there already, or cannot be looked up, is not installed. *)
Exists(c) ==
    /\ Iptables /\ setup[c] = "exists"
    /\ \E next \in {"append", "nothing"} :
        /\ c \in chain => next = "nothing"
        /\ setup' = [setup EXCEPT ![c] = next]
    /\ UNCHANGED <<chain, foreign, stuck, xlock, hooks, conn_list, closed, rules, held, thread, fallback, process>>

Append(c) ==
    /\ Iptables /\ setup[c] = "append"
    /\ \/ chain' = chain \cup {c} /\ setup' = [setup EXCEPT ![c] = "installed"]
       \/ UNCHANGED chain /\ setup' = [setup EXCEPT ![c] = "nothing"]
    /\ UNCHANGED <<foreign, stuck, xlock, hooks, conn_list, closed, rules, held, thread, fallback, process>>

(* A rule is deleted; a failure is ignored, and the rule stays for good.   *)
Deleted(c) ==
    \/ chain' = chain \ {c} /\ UNCHANGED stuck
    \/ stuck' = stuck \cup {c} /\ UNCHANGED chain

(* Mutant: the rule is recorded whether or not the connection is closed. *)
StoreRules_always(c) ==
    /\ Running /\ setup[c] \in {"installed", "nothing"}
    /\ rules' = [rules EXCEPT ![c] = setup[c] = "installed"]
    /\ setup' = [setup EXCEPT ![c] = "done"]
    /\ UNCHANGED <<chain, foreign, stuck, xlock, hooks, conn_list, closed, held, thread, fallback, process>>

(* store_rules(): under the lock of the rules, recorded or to be undone.   *)
StoreRules(c) ==
    /\ Running /\ setup[c] \in {"installed", "nothing"}
    /\ IF closed[c]
       THEN /\ setup' = [setup EXCEPT ![c] = IF @ = "installed" THEN "undo" ELSE "done"]
            /\ UNCHANGED rules
       ELSE /\ rules' = [rules EXCEPT ![c] = setup[c] = "installed"]
            /\ setup' = [setup EXCEPT ![c] = "done"]
    /\ UNCHANGED <<chain, foreign, stuck, xlock, hooks, conn_list, closed, held, thread, fallback, process>>

UndoRules(c) ==
    /\ Iptables /\ setup[c] = "undo"
    /\ Deleted(c) /\ setup' = [setup EXCEPT ![c] = "done"]
    /\ UNCHANGED <<foreign, xlock, hooks, conn_list, closed, rules, held, thread, fallback, process>>

DialReturns(c) ==
    /\ Running /\ held[c] = "future" /\ setup[c] = "done"
    /\ held' = [held EXCEPT ![c] = "owner"]
    /\ UNCHANGED <<chain, foreign, stuck, xlock, hooks, conn_list, closed, rules, setup, thread, fallback, process>>

(* Mutant: nothing guards the dial future. *)
CloseConn_unguarded(c) ==
    /\ Running /\ held[c] \in {"future", "owner"}
    /\ held' = [held EXCEPT ![c] = "gone"]
    /\ thread' = IF held[c] = "future" THEN thread
                 ELSE [thread EXCEPT ![c] = [pc |-> "begin", todo |-> {}, cur |-> c]]
    /\ UNCHANGED <<chain, foreign, stuck, xlock, hooks, conn_list, closed, rules, setup, fallback, process>>

(* The dial future is dropped (CloseOnCancel), or the session that owns    *)
(* the connection closes or drops it.                                      *)
CloseConn(c) ==
    /\ Running /\ held[c] \in {"future", "owner"}
    /\ held' = [held EXCEPT ![c] = "gone"]
    /\ thread' = [thread EXCEPT ![c] = [pc |-> "begin", todo |-> {}, cur |-> c]]
    /\ UNCHANGED <<chain, foreign, stuck, xlock, hooks, conn_list, closed, rules, setup, fallback, process>>

-----------------------------------------------------------------------------
(* TcpConnInner::close(), from any thread.                                 *)

(* What a thread does once it is through with a connection. *)
Onward(th) ==
    IF th.todo = {} THEN {[th EXCEPT !.pc = "end", !.cur = None]}
    ELSE {[pc |-> "begin", todo |-> th.todo \ {c}, cur |-> c] : c \in th.todo}

(* begin_close(): the first caller goes on, any other one is done.         *)
BeginClose(t) ==
    LET c == thread[t].cur
    IN  /\ Running /\ thread[t].pc = "begin"
        /\ closed' = [closed EXCEPT ![c] = TRUE]
        /\ conn_list' = conn_list \ {c}
        /\ \E th \in IF closed[c] THEN Onward(thread[t]) ELSE {[thread[t] EXCEPT !.pc = "drain"]} :
               thread' = [thread EXCEPT ![t] = th]
        /\ UNCHANGED <<chain, foreign, stuck, xlock, hooks, rules, setup, held, fallback, process>>

(* Mutant: whatever rule the connection has is deleted. *)
DrainRules_all(t) ==
    LET c == thread[t].cur
    IN  /\ Running /\ thread[t].pc = "drain"
        /\ rules' = [rules EXCEPT ![c] = FALSE]
        /\ \E th \in IF c \in chain THEN {[thread[t] EXCEPT !.pc = "delete"]} ELSE Onward(thread[t]) :
               thread' = [thread EXCEPT ![t] = th]
        /\ UNCHANGED <<chain, foreign, stuck, xlock, hooks, conn_list, closed, setup, held, fallback, process>>

(* delete_rules(): the recorded rule is taken, then deleted.               *)
DrainRules(t) ==
    LET c == thread[t].cur
    IN  /\ Running /\ thread[t].pc = "drain"
        /\ rules' = [rules EXCEPT ![c] = FALSE]
        /\ \E th \in IF rules[c] THEN {[thread[t] EXCEPT !.pc = "delete"]} ELSE Onward(thread[t]) :
               thread' = [thread EXCEPT ![t] = th]
        /\ UNCHANGED <<chain, foreign, stuck, xlock, hooks, conn_list, closed, setup, held, fallback, process>>

DeleteRule(t) ==
    /\ Iptables /\ thread[t].pc = "delete"
    /\ Deleted(thread[t].cur)
    /\ \E th \in Onward(thread[t]) : thread' = [thread EXCEPT ![t] = th]
    /\ UNCHANGED <<foreign, xlock, hooks, conn_list, closed, rules, setup, held, fallback, process>>

-----------------------------------------------------------------------------
(* The exit paths: on_terminate(); log::fatal(), check_error(), a panic    *)
(* and a main that returns; and the accept loop that cannot pin a TTL,     *)
(* which resets by hand before it aborts.                                  *)

Start(t) ==
    /\ Running /\ t \in Exits /\ thread[t].pc \in {"idle", "raised"}
    /\ thread' = [thread EXCEPT ![t].pc = IF t = "abort" THEN "snapshot" ELSE "hooks"]
    /\ UNCHANGED <<chain, foreign, stuck, xlock, hooks, conn_list, closed, rules, setup, held, fallback, process>>

(* post_process(): the hooks are taken, and run by whoever took them.      *)
PostProcess(t) ==
    /\ Running /\ thread[t].pc = "hooks"
    /\ hooks' = FALSE
    /\ thread' = [thread EXCEPT ![t].pc = IF hooks THEN "snapshot" ELSE "end"]
    /\ UNCHANGED <<chain, foreign, stuck, xlock, conn_list, closed, rules, setup, held, fallback, process>>

(* iptables_reset(). *)
IptablesReset(t) ==
    /\ Running /\ thread[t].pc = "snapshot"
    /\ \E th \in Onward([thread[t] EXCEPT !.todo = conn_list]) : thread' = [thread EXCEPT ![t] = th]
    /\ UNCHANGED <<chain, foreign, stuck, xlock, hooks, conn_list, closed, rules, setup, held, fallback, process>>

(* Mutant: no fallback is armed. *)
Exit_no_fallback(t) ==
    /\ Running /\ t \in Exits /\ thread[t].pc = "end"
    /\ \/ process' = "exited" /\ UNCHANGED thread
       \/ /\ t = "signal" /\ process' = process
          /\ thread' = [thread EXCEPT ![t].pc = "raised"]
    /\ UNCHANGED <<chain, foreign, stuck, xlock, hooks, conn_list, closed, rules, setup, held, fallback>>

(* The process ends; a re-raised SIGTERM may fail to end it, and the       *)
(* fallback armed before it does.                                          *)
Exit(t) ==
    /\ Running /\ t \in Exits /\ thread[t].pc = "end"
    /\ fallback' = (fallback \/ t = "signal")
    /\ \/ process' = "exited" /\ UNCHANGED thread
       \/ /\ t = "signal" /\ process' = process
          /\ thread' = [thread EXCEPT ![t].pc = "raised"]
    /\ UNCHANGED <<chain, foreign, stuck, xlock, hooks, conn_list, closed, rules, setup, held>>

FallbackExit ==
    /\ Running /\ fallback
    /\ process' = "exited"
    /\ UNCHANGED <<chain, foreign, stuck, xlock, hooks, conn_list, closed, rules, setup, held, thread, fallback>>

Kill ==
    /\ Running /\ process' = "killed"
    /\ UNCHANGED <<chain, foreign, stuck, xlock, hooks, conn_list, closed, rules, setup, held, thread, fallback>>

(* Another process and the xtables lock. *)
TakeLock ==
    /\ Running /\ LockTaken /\ xlock = "free" /\ xlock' = "held"
    /\ UNCHANGED <<chain, foreign, stuck, hooks, conn_list, closed, rules, setup, held, thread, fallback, process>>

ReleaseLock ==
    /\ Running /\ xlock = "held" /\ xlock' = "past"
    /\ UNCHANGED <<chain, foreign, stuck, hooks, conn_list, closed, rules, setup, held, thread, fallback, process>>

Installer(c) == Exists(c) \/ Append(c) \/ StoreRules(c) \/ UndoRules(c)
Closer(t) == BeginClose(t) \/ DrainRules(t) \/ DeleteRule(t) \/ PostProcess(t) \/ IptablesReset(t) \/ Exit(t)

Next ==
    \/ \E c \in Conns : Dial(c) \/ Installer(c) \/ DialReturns(c) \/ CloseConn(c)
    \/ \E t \in Threads : Closer(t) \/ Start(t)
    \/ FallbackExit \/ Kill \/ TakeLock \/ ReleaseLock

Spec == Init /\ [][Next]_vars

Installers == \E c \in Conns : Installer(c)
Closers == \E t \in Threads : Closer(t)

(* Threads run and the fallback timer fires.                               *)
FairSpec == Spec /\ WF_vars(FallbackExit) /\ WF_vars(Installers) /\ WF_vars(Closers)

(* And the other process gives the lock back. *)
FairLockSpec == FairSpec /\ WF_vars(ReleaseLock)

-----------------------------------------------------------------------------
(* A thread is at a step of a connection's close. *)
At(step, c) == \E t \in Threads : thread[t].pc = step /\ thread[t].cur = c

(* A rule is recorded, or in the hands of its installer or its deleter. *)
Owned(c) ==
    \/ rules[c] /\ (~closed[c] \/ At("drain", c))
    \/ setup[c] \in {"installed", "undo"}
    \/ At("delete", c)

(* While the process lives, a rule it added is recorded for its            *)
(* connection's close, or in the hands of the one thread that will delete  *)
(* it: "one of the two always sees the rules" (store_rules).               *)
RuleOwned == Running => \A c \in chain \ (foreign \cup stuck) : Owned(c)

(* A rule that was there before is never deleted (InstalledRule).          *)
ForeignKept == foreign \subseteq chain

(* The rule of a connection that was closed, or given up with its dial     *)
(* future, is gone.                                                        *)
Cleaned ==
    Running => \A c \in Conns : held[c] = "gone" \/ closed[c] => c \notin chain \ (foreign \cup stuck)

(* A process that got SIGTERM has ended. *)
Terminated == thread["signal"].pc # "idle" => ~Running

(* SIGTERM ends the process: "the 5 s fallback `exit(0)` task is already   *)
(* armed before the hooks run" (iptables_reset).                           *)
TerminationEnds == <>[]Terminated

(* An exit the process controls leaves no rule of its own behind: "the     *)
(* rules gone by the time the process re-raises SIGTERM"                   *)
(* (register_iptables_reset).                                              *)
RulesGone == process = "exited" => chain = foreign \cup stuck

-----------------------------------------------------------------------------
(* The inductive invariant of ProcessProofs.                               *)

(* A thread closes a connection only; the thread of an owner is asleep     *)
(* until the owner lets go, which it can once it has dialled.              *)
ThreadsSound ==
    /\ \A t \in Threads : thread[t].pc \in {"begin", "drain", "delete"} => thread[t].cur \in Conns
    /\ \A c \in Conns : held[c] # "gone" => thread[c] = Asleep
    /\ \A c \in Conns : setup[c] = "none" => held[c] = "none"

(* A rule is recorded by store_rules() only, when the installer is done. *)
RecordedLast == \A c \in Conns : rules[c] => setup[c] = "done"

(* A rule that was there before is nobody's to delete. *)
ForeignLeft ==
    \A c \in foreign : /\ c \in chain /\ ~rules[c] /\ ~At("delete", c)
                       /\ setup[c] \notin {"append", "installed", "undo"}

RuleInv ==
    /\ TypeOK /\ ThreadsSound /\ RecordedLast /\ ForeignLeft
    /\ \A c \in chain \ (foreign \cup stuck) : Owned(c)
=============================================================================
