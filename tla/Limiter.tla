------------------------------ MODULE Limiter ------------------------------
(***************************************************************************)
(* The token bucket that paces the transmit task of a session (rate.rs).   *)
(* Time is counted in the unit of the code's durations and the limit in    *)
(* bytes per unit, so the truncation of a wait to whole units is that of   *)
(* the code.                                                               *)
(***************************************************************************)
EXTENDS Integers

CONSTANTS
    BURST,
    Limits,      \* the rates set_rate() is given; 0 is unlimited
    Batches,     \* bytes of a batch, more than BURST too (V02)
    MaxTime      \* bound: the clock

VARIABLES
    limit, tokens,
    last,        \* when tokens was computed, or Never
    now,
    wait,        \* the batch in wait_n(): its bytes and when it may go, or Free
    since,       \* an instant of this rate, and
    sent         \* the bytes reserved since then and sent

vars == <<limit, tokens, last, now, wait, since, sent>>

Never == -1
Free == [n |-> 0, until |-> 0, fresh |-> TRUE]

TypeOK ==
    /\ limit \in Limits /\ tokens \in Int /\ tokens <= BURST
    /\ last \in {Never} \cup 0..MaxTime /\ now \in 0..MaxTime /\ since \in 0..now /\ sent \in Nat
    /\ wait.n \in {0} \cup Batches /\ wait.until \in Nat /\ wait.fresh \in BOOLEAN

(* A batch that was reserved before is not counted. *)
Older == IF wait = Free THEN Free ELSE [wait EXCEPT !.fresh = FALSE]

(* State::new(): the bucket is full. *)
New(bytes_per_second) ==
    /\ limit' = bytes_per_second /\ tokens' = BURST /\ last' = Never
    /\ since' = now /\ sent' = 0

Init ==
    /\ limit \in Limits /\ tokens = BURST /\ last = Never /\ now = 0 /\ wait = Free
    /\ since = 0 /\ sent = 0

(* Mutant: not capped. *)
cap_at_burst_none(t) == t

cap_at_burst(t) == IF t > BURST THEN BURST ELSE t

advance == IF last = Never THEN cap_at_burst(tokens)
           ELSE cap_at_burst(tokens + limit * (now - last))

(* set_rate(), also while a batch waits: that one has its delay already. *)
set_rate(r) ==
    /\ New(r) /\ wait' = Older
    /\ UNCHANGED now

(* Mutant: a batch of more than the bucket holds is let through (V02). *)
Owed_refused(n) == IF n > BURST THEN advance ELSE advance - n

Owed(n) == advance - n

(* reserve_n() and the sleep of wait_n(). *)
reserve_n(n) ==
    /\ wait = Free
    /\ IF limit = 0 THEN wait' = [n |-> n, until |-> now, fresh |-> TRUE] /\ UNCHANGED <<tokens, last>>
       ELSE /\ tokens' = Owed(n) /\ last' = now
            /\ wait' = [n |-> n, fresh |-> TRUE,
                        until |-> now + (IF Owed(n) < 0 THEN (-Owed(n)) \div limit ELSE 0)]
    /\ UNCHANGED <<limit, now, since, sent>>

(* The sleep is over and the batch goes out. *)
Send ==
    /\ wait # Free /\ now >= wait.until
    /\ wait' = Free /\ sent' = IF wait.fresh /\ limit # 0 THEN sent + wait.n ELSE sent
    /\ UNCHANGED <<limit, tokens, last, now, since>>

Tick == now < MaxTime /\ now' = now + 1 /\ UNCHANGED <<limit, tokens, last, wait, since, sent>>

(* Another instant to measure from. *)
Observe ==
    /\ since' = now /\ sent' = 0 /\ wait' = Older
    /\ UNCHANGED <<limit, tokens, last, now>>

Next == Tick \/ Send \/ Observe \/ (\E r \in Limits : set_rate(r)) \/ \E n \in Batches : reserve_n(n)

Spec == Init /\ [][Next]_vars

-----------------------------------------------------------------------------
(* Whenever one begins to measure, no more goes out than a burst and what  *)
(* the rate allows, whatever the size of the batches ("the long-run rate   *)
(* stays correct", V02); and no batch waits longer than its own bytes take *)
(* at that rate, but for one unit of truncation: no debt is paid twice.    *)
Paced ==
    limit # 0 => /\ sent <= BURST + limit * (now - since + 1)
                 /\ wait # Free /\ wait.fresh => wait.until - last <= wait.n \div limit + 1
=============================================================================
