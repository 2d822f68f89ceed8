---------------------------- MODULE ProcessProofs ----------------------------
(***************************************************************************)
(* Proofs about the processes (module MCProcess): the three safety         *)
(* invariants of its run, for every value of the constants.  Each follows  *)
(* from an inductive invariant of the component's own module, and holds of *)
(* the sum because the steps of the other parts leave a part alone.        *)
(*   SessionsKept   - Spec => []NoneDropped, from TunnelInv of Tunnel;     *)
(*   RulesKept      - Spec => []RulesOwned, from RuleInv of ExitHooks;     *)
(*   FlowsStaySound - Spec => []FlowsSound, from RawInv of RawConn.        *)
(***************************************************************************)
EXTENDS MCProcess, Facts

-----------------------------------------------------------------------------
(* Tunnel.                                                                 *)

(* The settings of every configuration. *)
LEMMA ConfigFacts ==
    \A g \in Configs : g.numconn \in Nat \ {0} /\ g.auto_expire \in Int /\ g.scavenge_ttl \in Int
BY DEF Configs

(* The round-robin counter selects a slot. *)
LEMMA SlotFacts ==
    ASSUME config \in Configs, rr \in 0..RrWrap - 1
    PROVE  T!Slot \in T!Slots /\ T!Slots = 0..config.numconn - 1
BY ConfigFacts, TunnelAssumption DEF T!Slot, T!Slots

(* The greater of two numbers. *)
LEMMA MaxOfTwo ==
    ASSUME NEW a \in Int, NEW b \in Int
    PROVE  T!Max({a, b}) = IF a >= b THEN a ELSE b
<1>1. \E x \in {a, b} : \A y \in {a, b} : x >= y
  OBVIOUS
<1>2. T!Max({a, b}) \in {a, b} /\ \A y \in {a, b} : T!Max({a, b}) >= y
  BY <1>1 DEF T!Max
<1> QED
  BY <1>2

(* The bounds of the time left. *)
LEMMA LeftBounds ==
    ASSUME config \in Configs
    PROVE  /\ T!Overdue \in Int /\ T!Overdue < 0
           /\ T!Max({config.auto_expire, 0}) \in Nat
           /\ \A x \in T!Overdue..T!Max({config.auto_expire, 0}) :
                T!Max({x - 1, T!Overdue}) \in T!Overdue..T!Max({config.auto_expire, 0})
<1>1. config.auto_expire \in Int /\ config.scavenge_ttl \in Int
  BY ConfigFacts
<1>2. T!Overdue \in Int /\ T!Overdue < 0
  BY <1>1 DEF T!Overdue
<1>3. T!Max({config.auto_expire, 0}) \in Nat
  BY <1>1, MaxOfTwo
<1> DEFINE M == T!Max({config.auto_expire, 0})
<1> HIDE DEF M
<1>4. ASSUME NEW x \in T!Overdue..M PROVE T!Max({x - 1, T!Overdue}) \in T!Overdue..M
  <2>1. x - 1 \in Int /\ T!Max({x - 1, T!Overdue}) = IF x - 1 >= T!Overdue THEN x - 1 ELSE T!Overdue
    BY <1>2, MaxOfTwo
  <2> QED
    BY <1>2, <1>3, <2>1 DEF M
<1> QED
  BY <1>2, <1>3, <1>4 DEF M

(* Drop for Session closes nothing while every live session is held. *)
LEMMA NothingDropped ==
    ASSUME T!TypeOK, T!DropUnheld, \A s \in T!Sessions : up[s] = "open" => T!HeldNext(s)
    PROVE  up' = up /\ dropped' = dropped
<1>1. {s \in T!Sessions : up[s] = "open" /\ ~T!HeldNext(s)} = {}
  OBVIOUS
<1>2. up' = [s \in T!Sessions |-> up[s]] /\ dropped' = dropped \cup {}
  BY <1>1 DEF T!DropUnheld
<1> QED
  BY <1>2 DEF T!TypeOK

(* A client that just started. *)
LEMMA TunnelInit == T!Init => T!TunnelInv
<1> SUFFICES ASSUME T!Init PROVE T!TunnelInv
  OBVIOUS
<1>1. config \in Configs /\ rr = 0
  BY DEF T!Init
<1>2. left \in [T!Sessions -> T!Overdue..T!Max({config.auto_expire, 0})]
  BY <1>1, LeftBounds DEF T!Init
<1>3. chan \in Seq(T!Sessions) /\ Len(chan) <= Backlog /\ rr \in 0..RrWrap - 1
  BY <1>1, TunnelAssumption DEF T!Init
<1>5. T!TypeOK
  BY <1>1, <1>2, <1>3 DEF T!Init, T!TypeOK, T!Idle
<1>4. T!LoopSound /\ T!Kept /\ T!NoneDropped
  BY DEF T!Init, T!LoopSound, T!Kept, T!NoneDropped, T!Idle
<1> QED
  BY <1>4, <1>5 DEF T!TunnelInv

(* A connection gets its task. *)
LEMMA Handed ==
    ASSUME T!TypeOK, NEW c \in Conns, NEW s \in T!Sessions, T!Hand(c, s)
    PROVE  /\ conn' \in [Conns -> [st: {"backlog", "held", "opening", "piped", "ended", "given_up"}, sess: T!Sessions \cup {T!None}]]
           /\ rr' \in 0..RrWrap - 1 /\ loop' = T!Idle
           /\ loop'.at = "accept" /\ loop' \in [at: {"accept", "dial", "send", "dead"}, conn: Conns \cup {T!None}]
<1>1. rr' \in 0..RrWrap - 1
  BY TunnelAssumption DEF T!Hand, T!TypeOK
<1> QED
  BY <1>1 DEF T!Hand, T!TypeOK, T!Idle

(* A connection is accepted: only slots of closed sessions are released. *)
LEMMA TunnelAccept == ASSUME T!TunnelInv, NEW c \in Conns, T!Accept(c) PROVE T!TunnelInv'
<1>0. T!TypeOK /\ T!Kept
  BY DEF T!TunnelInv
<1>1. /\ loop = T!Idle /\ muxes' = T!Released
      /\ UNCHANGED <<config, chan, session_list, sweep, left, srv, stream>>
  BY DEF T!Accept, T!serverVars
<1>2. T!Slot \in T!Slots /\ T!Slots' = T!Slots
  BY <1>0, <1>1, SlotFacts DEF T!TypeOK, T!Slots
<1>3. T!Released \in [T!Slots -> T!Sessions \cup {T!None}]
  BY <1>0 DEF T!Released, T!TypeOK
<1>4. \A s \in T!Sessions : up[s] = "open" /\ s \in T!Range(muxes) => s \in T!Range(muxes')
  <2>1. \A i \in T!Slots : up[muxes[i]] = "open" => muxes'[i] = muxes[i]
    BY <1>1 DEF T!Released
  <2> QED
    BY <1>0, <1>1, <1>3, <2>1 DEF T!Range, T!TypeOK
<1>5. \A s \in T!Sessions : up[s] = "open" => T!HeldNext(s)
  BY <1>0, <1>1, <1>4 DEF T!Kept, T!HeldNext, T!Idle
<1>6. up' = up /\ dropped' = dropped
  BY <1>0, <1>5, NothingDropped DEF T!Accept
<1>7. CASE T!Refresh(T!Slot) /\ loop' = [at |-> "dial", conn |-> c] /\ conn' = [conn EXCEPT ![c].st = "held"] /\ rr' = rr
  <2>1. conn' \in [Conns -> [st: {"backlog", "held", "opening", "piped", "ended", "given_up"}, sess: T!Sessions \cup {T!None}]]
    BY <1>0, <1>7, ZenonT(60) DEF T!TypeOK
  <2>2. T!TypeOK'
    BY <1>0, <1>1, <1>2, <1>3, <1>6, <1>7, <2>1 DEF T!TypeOK, T!Overdue
  <2>3. T!LoopSound'
    BY <1>1, <1>7 DEF T!LoopSound, T!Refresh, T!Slot
  <2>4. T!Kept'
    BY <1>0, <1>1, <1>4, <1>6, <1>7 DEF T!Kept, T!Idle
  <2> QED
    BY <1>6, <2>2, <2>3, <2>4 DEF T!TunnelInv, T!NoneDropped
<1>8. CASE ~T!Refresh(T!Slot) /\ T!Hand(c, T!Released[T!Slot])
  <2>1. T!Released[T!Slot] \in T!Sessions
    BY <1>2, <1>3, <1>8 DEF T!Refresh
  <2>2. /\ conn' \in [Conns -> [st: {"backlog", "held", "opening", "piped", "ended", "given_up"}, sess: T!Sessions \cup {T!None}]]
        /\ rr' \in 0..RrWrap - 1 /\ loop'.at = "accept"
        /\ loop' \in [at: {"accept", "dial", "send", "dead"}, conn: Conns \cup {T!None}]
    BY <1>0, <1>8, <2>1, Handed
  <2>3. T!TypeOK'
    BY <1>0, <1>1, <1>2, <1>3, <1>6, <2>2 DEF T!TypeOK, T!Overdue
  <2>4. T!LoopSound'
    BY <2>2 DEF T!LoopSound
  <2>5. T!Kept'
    BY <1>0, <1>1, <1>4, <1>6 DEF T!Kept, T!Idle
  <2> QED
    BY <1>6, <2>3, <2>4, <2>5 DEF T!TunnelInv, T!NoneDropped
<1> QED
  BY <1>7, <1>8 DEF T!Accept, T!Slot

(* The process exits, and every session with it. *)
LEMMA TunnelFails == ASSUME T!TunnelInv, T!AcceptFails PROVE T!TunnelInv'
<1>0. T!TypeOK
  BY DEF T!TunnelInv
<1>1. UNCHANGED <<config, rr, left, srv, stream>> /\ T!Slots' = T!Slots
  BY DEF T!AcceptFails, T!serverVars, T!Slots
<1>2. loop'.at = "dead" /\ loop' \in [at: {"accept", "dial", "send", "dead"}, conn: Conns \cup {T!None}]
  BY DEF T!AcceptFails, T!Idle
<1>3. up' \in [T!Sessions -> {"none", "open", "closed"}] /\ \A s \in T!Sessions : up'[s] # "open"
  BY <1>0 DEF T!AcceptFails, T!TypeOK
<1>4. dropped' \subseteq T!Sessions /\ T!NoneDropped'
  BY <1>0 DEF T!AcceptFails, T!TypeOK, T!NoneDropped, T!TunnelInv
<1>5. conn' \in [Conns -> [st: {"backlog", "held", "opening", "piped", "ended", "given_up"}, sess: T!Sessions \cup {T!None}]]
  BY <1>0, ZenonT(60) DEF T!AcceptFails, T!TypeOK
<1>6. muxes' \in [T!Slots -> T!Sessions \cup {T!None}] /\ chan' = <<>> /\ session_list' = {} /\ sweep' = {}
  BY DEF T!AcceptFails
<1>8. chan' \in Seq(T!Sessions) /\ Len(chan') <= Backlog
  BY <1>6, TunnelAssumption
<1>7. T!TypeOK'
  BY <1>0, <1>1, <1>2, <1>3, <1>4, <1>5, <1>6, <1>8 DEF T!TypeOK, T!Overdue
<1> QED
  BY <1>2, <1>3, <1>4, <1>7 DEF T!TunnelInv, T!LoopSound, T!Kept

(* A slot is dialled: what it held is the scavenger's, or nothing. *)
LEMMA TunnelDial == ASSUME T!TunnelInv, T!Dial PROVE T!TunnelInv'
<1>0. T!TypeOK /\ T!Kept /\ T!LoopSound /\ loop.at = "dial" /\ loop.conn \in Conns
  BY DEF T!TunnelInv, T!Dial, T!LoopSound
<1>1. UNCHANGED <<config, chan, session_list, sweep, srv, stream>> /\ T!Slots' = T!Slots
  BY DEF T!Dial, T!serverVars, T!Slots
<1>2. T!Slot \in T!Slots
  BY <1>0, SlotFacts DEF T!TypeOK
<1>3. PICK s \in T!Sessions :
        /\ up[s] = "none" /\ muxes' = [muxes EXCEPT ![T!Slot] = s]
        /\ IF config.auto_expire > 0
           THEN loop' = [loop EXCEPT !.at = "send"] /\ UNCHANGED <<rr, conn>>
           ELSE T!Hand(loop.conn, s)
        /\ left' = [left EXCEPT ![s] = T!Max({config.auto_expire, 0})]
        /\ LET gone == {t \in T!Sessions : up[t] = "open" /\ ~T!HeldNext(t)}
           IN  /\ up' = [t \in T!Sessions |-> IF t = s THEN "open"
                                            ELSE IF t \in gone THEN "closed" ELSE up[t]]
               /\ dropped' = dropped \cup gone
  BY DEF T!Dial, T!Slot
<1>4. \A i \in T!Slots : muxes'[i] = IF i = T!Slot THEN s ELSE muxes[i]
  BY <1>0, <1>3 DEF T!TypeOK
<1>5. muxes' \in [T!Slots -> T!Sessions \cup {T!None}]
  BY <1>0, <1>3 DEF T!TypeOK
<1>6. ASSUME NEW t \in T!Sessions, up[t] = "open"
      PROVE  IF config.auto_expire > 0 THEN t \in T!Range(chan) \cup session_list \cup sweep
             ELSE t \in T!Range(muxes')
  <2>1. CASE config.auto_expire > 0
    BY <1>0, <1>6, <2>1 DEF T!Kept
  <2>2. CASE ~(config.auto_expire > 0)
    <3>1. t \in T!Range(muxes) /\ muxes[T!Slot] = T!None
      BY <1>0, <1>6, <2>2 DEF T!Kept, T!LoopSound
    <3>2. PICK i \in T!Slots : muxes[i] = t
      BY <1>0, <3>1 DEF T!Range, T!TypeOK
    <3>3. t # T!None
      BY TunnelAssumption DEF T!Sessions, T!None
    <3>4. muxes'[i] = t
      BY <1>4, <3>1, <3>2, <3>3
    <3> QED
      BY <1>5, <2>2, <3>4 DEF T!Range
  <2> QED
    BY <2>1, <2>2
<1>7. {t \in T!Sessions : up[t] = "open" /\ ~T!HeldNext(t)} = {}
  BY <1>1, <1>6 DEF T!HeldNext
<1>8. up' = [t \in T!Sessions |-> IF t = s THEN "open" ELSE up[t]] /\ dropped' = dropped \cup {}
  BY <1>3, <1>7
<1>9. dropped' = dropped
  BY <1>8
<1>10. left' \in [T!Sessions -> T!Overdue..T!Max({config.auto_expire, 0})]
  <2>1. T!Max({config.auto_expire, 0}) \in T!Overdue..T!Max({config.auto_expire, 0})
    BY <1>0, LeftBounds DEF T!TypeOK
  <2> QED
    BY <1>0, <1>3, <2>1 DEF T!TypeOK
<1>11. up' \in [T!Sessions -> {"none", "open", "closed"}]
  BY <1>0, <1>8 DEF T!TypeOK
<1>12. CASE config.auto_expire > 0
  <2>1. loop'.at = "send" /\ loop'.conn = loop.conn /\ UNCHANGED <<rr, conn>>
        /\ loop' \in [at: {"accept", "dial", "send", "dead"}, conn: Conns \cup {T!None}]
    BY <1>0, <1>3, <1>12 DEF T!TypeOK
  <2>2. T!TypeOK'
    BY <1>0, <1>1, <1>5, <1>9, <1>10, <1>11, <2>1 DEF T!TypeOK, T!Overdue
  <2>3. muxes'[T!Slot] = s /\ s # T!None /\ T!Slot' = T!Slot
    BY <1>1, <1>2, <1>4, <2>1, TunnelAssumption DEF T!Sessions, T!None, T!Slot
  <2>4. T!LoopSound'
    BY <1>0, <1>1, <1>12, <2>1, <2>3 DEF T!LoopSound
  <2>5. T!Kept'
    BY <1>1, <1>6, <1>8, <1>12, <2>1, <2>3 DEF T!Kept
  <2> QED
    BY <1>9, <2>2, <2>4, <2>5 DEF T!TunnelInv, T!NoneDropped
<1>13. CASE ~(config.auto_expire > 0)
  <2>1. /\ conn' \in [Conns -> [st: {"backlog", "held", "opening", "piped", "ended", "given_up"}, sess: T!Sessions \cup {T!None}]]
        /\ rr' \in 0..RrWrap - 1 /\ loop'.at = "accept"
        /\ loop' \in [at: {"accept", "dial", "send", "dead"}, conn: Conns \cup {T!None}]
    BY <1>0, <1>3, <1>13, Handed
  <2>2. T!TypeOK'
    BY <1>0, <1>1, <1>5, <1>9, <1>10, <1>11, <2>1 DEF T!TypeOK, T!Overdue
  <2>3. T!LoopSound'
    BY <2>1 DEF T!LoopSound
  <2>4. s \in T!Range(muxes')
    BY <1>2, <1>4, <1>5 DEF T!Range
  <2>5. T!Kept'
    BY <1>1, <1>6, <1>8, <1>13, <2>4 DEF T!Kept
  <2> QED
    BY <1>9, <2>2, <2>3, <2>5 DEF T!TunnelInv, T!NoneDropped
<1> QED
  BY <1>12, <1>13

(* The new session goes to the scavenger. *)
LEMMA TunnelSend == ASSUME T!TunnelInv, T!Send PROVE T!TunnelInv'
<1>0. T!TypeOK /\ T!Kept /\ T!LoopSound /\ loop.at = "send" /\ loop.conn \in Conns
  BY DEF T!TunnelInv, T!Send, T!LoopSound
<1> DEFINE s == muxes[T!Slot]
<1>1. /\ chan' = Append(chan, s) /\ Len(chan) < Backlog /\ T!Hand(loop.conn, s)
      /\ UNCHANGED <<config, muxes, session_list, sweep, up, left, dropped, srv, stream>> /\ T!Slots' = T!Slots
  BY DEF T!Send, T!Slot, T!serverVars, T!Slots
<1>2. s \in T!Sessions /\ config.auto_expire > 0
  BY <1>0, SlotFacts DEF T!TypeOK, T!LoopSound
<1> HIDE DEF s
<1>3. /\ conn' \in [Conns -> [st: {"backlog", "held", "opening", "piped", "ended", "given_up"}, sess: T!Sessions \cup {T!None}]]
      /\ rr' \in 0..RrWrap - 1 /\ loop'.at = "accept"
      /\ loop' \in [at: {"accept", "dial", "send", "dead"}, conn: Conns \cup {T!None}]
  BY <1>0, <1>1, <1>2, Handed
<1>4. chan \in Seq(T!Sessions) /\ Backlog \in Nat
  BY <1>0, TunnelAssumption DEF T!TypeOK
<1>5. chan' \in Seq(T!Sessions) /\ Len(chan') <= Backlog
  BY <1>1, <1>2, <1>4
<1>6. s \in T!Range(chan') /\ T!Range(chan) \subseteq T!Range(chan')
  <2>1. chan'[Len(chan) + 1] = s /\ \A i \in 1..Len(chan) : chan'[i] = chan[i]
    BY <1>1, <1>2, <1>4
  <2>2. DOMAIN chan = 1..Len(chan) /\ DOMAIN chan' = 1..Len(chan) + 1
    BY <1>1, <1>2, <1>4
  <2> QED
    BY <1>4, <2>1, <2>2 DEF T!Range
<1>7. T!TypeOK'
  BY <1>0, <1>1, <1>3, <1>5 DEF T!TypeOK, T!Overdue
<1>8. T!LoopSound'
  BY <1>3 DEF T!LoopSound
<1>9. T!Kept'
  BY <1>0, <1>1, <1>2, <1>6 DEF T!Kept, s
<1> QED
  BY <1>1, <1>7, <1>8, <1>9 DEF T!TunnelInv, T!NoneDropped

(* The scavenger takes it from the channel. *)
LEMMA TunnelReceive == ASSUME T!TunnelInv, T!Receive PROVE T!TunnelInv'
<1>0. T!TypeOK /\ T!Kept /\ T!LoopSound
  BY DEF T!TunnelInv
<1>1. /\ session_list' = session_list \cup {Head(chan)} /\ chan' = Tail(chan) /\ chan # <<>>
      /\ UNCHANGED <<config, muxes, rr, loop, sweep, up, left, dropped, conn, srv, stream>>
  BY DEF T!Receive, T!serverVars
<1>2. chan \in Seq(T!Sessions) /\ Len(chan) <= Backlog /\ Backlog \in Nat
  BY <1>0, TunnelAssumption DEF T!TypeOK
<1>3. chan' \in Seq(T!Sessions) /\ Len(chan') <= Backlog /\ Head(chan) \in T!Sessions
  BY <1>1, <1>2
<1>4. \A s \in T!Range(chan) : s = Head(chan) \/ s \in T!Range(chan')
  <2> SUFFICES ASSUME NEW i \in 1..Len(chan), i # 1 PROVE \E j \in DOMAIN chan' : chan'[j] = chan[i]
    BY <1>1, <1>2 DEF T!Range
  <2>1. i - 1 \in DOMAIN chan' /\ chan'[i - 1] = chan[i]
    BY <1>1, <1>2
  <2> QED
    BY <2>1
<1>5. T!TypeOK'
  BY <1>0, <1>1, <1>3 DEF T!TypeOK, T!Overdue, T!Slots
<1>6. T!LoopSound'
  BY <1>0, <1>1 DEF T!LoopSound, T!Slot
<1>7. T!Kept'
  BY <1>0, <1>1, <1>4 DEF T!Kept, T!Slot
<1> QED
  BY <1>1, <1>5, <1>6, <1>7 DEF T!TunnelInv, T!NoneDropped

(* A step that leaves the loop, the slots and the channel alone, and takes *)
(* no live session from the scavenger.                                     *)
LEMMA TunnelKeeps ==
    ASSUME T!TunnelInv, UNCHANGED <<config, muxes, rr, loop, chan>>,
           session_list' \subseteq T!Sessions, sweep' \subseteq T!Sessions,
           left' \in [T!Sessions -> T!Overdue..T!Max({config.auto_expire, 0})],
           up' \in [T!Sessions -> {"none", "open", "closed"}],
           conn' \in [Conns -> [st: {"backlog", "held", "opening", "piped", "ended", "given_up"}, sess: T!Sessions \cup {T!None}]],
           srv' \in [T!Sessions -> {"none", "open", "closed"}],
           stream' \in [Conns -> {"none", "syn", "dialing", "piped", "closed"}],
           dropped' = {},
           \A s \in T!Sessions : up'[s] = "open" =>
               up[s] = "open" /\ (s \in session_list \cup sweep => s \in session_list' \cup sweep')
    PROVE  T!TunnelInv'
<1>1. T!TypeOK'
  BY DEF T!TunnelInv, T!TypeOK, T!Overdue, T!Slots
<1>2. T!LoopSound'
  BY DEF T!TunnelInv, T!LoopSound, T!Slot
<1>3. T!Kept'
  BY DEF T!TunnelInv, T!Kept, T!Slot
<1> QED
  BY <1>1, <1>2, <1>3 DEF T!TunnelInv, T!NoneDropped

(* The loop and the scavenger hold on: so every live session is held. *)
LEMMA StillHeld ==
    ASSUME T!TypeOK, T!Kept, UNCHANGED <<muxes, chan>>,
           \A s \in T!Sessions : up[s] = "open" /\ s \in session_list \cup sweep => s \in session_list' \cup sweep'
    PROVE  \A s \in T!Sessions : up[s] = "open" => T!HeldNext(s)
<1> SUFFICES ASSUME NEW s \in T!Sessions, up[s] = "open" PROVE T!HeldNext(s)
  OBVIOUS
<1>1. CASE config.auto_expire > 0 /\ loop.at = "send" /\ muxes[T!Slot] = s
  <2>1. T!Slot \in T!Slots
    BY SlotFacts DEF T!TypeOK
  <2>2. s \in T!Range(muxes)
    BY <1>1, <2>1 DEF T!Range, T!TypeOK
  <2> QED
    BY <2>2 DEF T!HeldNext
<1>2. CASE ~(config.auto_expire > 0 /\ loop.at = "send" /\ muxes[T!Slot] = s)
  BY <1>2 DEF T!HeldNext, T!Kept
<1> QED
  BY <1>1, <1>2

(* The scavenger closes a session, forgets a closed one or keeps it. *)
LEMMA TunnelLook == ASSUME T!TunnelInv, NEW s \in T!Sessions, T!Look(s) PROVE T!TunnelInv'
<1> DEFINE expired == left[s] < -config.scavenge_ttl
<1>0. T!TypeOK /\ T!Kept /\ T!NoneDropped
  BY DEF T!TunnelInv
<1>1. /\ s \in sweep /\ sweep' = sweep \ {s}
      /\ session_list' = IF up[s] = "open" /\ ~expired THEN session_list \cup {s} ELSE session_list
      /\ UNCHANGED <<config, muxes, rr, loop, chan, left, conn, srv, stream>>
      /\ IF up[s] = "open" /\ expired THEN T!CloseSession(s) ELSE T!DropUnheld
  BY DEF T!Look, T!serverVars
<1> HIDE DEF expired
<1>2. CASE up[s] = "open" /\ expired
  <2>1. up' = [up EXCEPT ![s] = "closed"] /\ dropped' = dropped
    BY <1>1, <1>2 DEF T!CloseSession
  <2> QED
    BY <1>0, <1>1, <1>2, <2>1, TunnelKeeps DEF T!TypeOK, T!NoneDropped
<1>3. CASE ~(up[s] = "open" /\ expired)
  <2>1. \A t \in T!Sessions : up[t] = "open" /\ t \in session_list \cup sweep => t \in session_list' \cup sweep'
    BY <1>1, <1>3
  <2>2. \A t \in T!Sessions : up[t] = "open" => T!HeldNext(t)
    BY <1>0, <1>1, <2>1, StillHeld
  <2>3. up' = up /\ dropped' = dropped
    BY <1>0, <1>1, <1>3, <2>2, NothingDropped
  <2> QED
    BY <1>0, <1>1, <2>1, <2>3, TunnelKeeps DEF T!TypeOK, T!NoneDropped
<1> QED
  BY <1>2, <1>3

(* A task that has opened its stream, or failed to, lets go of the session. *)
LEMMA TunnelOpens ==
    ASSUME T!TunnelInv, NEW c \in Conns, T!OpenStream(c) \/ T!OpenFails(c) \/ T!OpenTimesOut(c)
    PROVE  T!TunnelInv'
<1>0. T!TypeOK /\ T!Kept /\ T!NoneDropped
  BY DEF T!TunnelInv
<1>1. UNCHANGED <<config, muxes, rr, loop, chan, session_list, sweep, left, srv>> /\ T!DropUnheld
  BY DEF T!OpenStream, T!OpenFails, T!OpenTimesOut, T!Opened, T!clientVars
<1>2. conn' \in [Conns -> [st: {"backlog", "held", "opening", "piped", "ended", "given_up"}, sess: T!Sessions \cup {T!None}]]
  <2>1. PICK st \in {"piped", "ended", "given_up"} : T!Opened(c, st)
    BY DEF T!OpenStream, T!OpenFails, T!OpenTimesOut
  <2> QED
    BY <1>0, <2>1, ZenonT(60) DEF T!Opened, T!TypeOK
<1>3. stream' \in [Conns -> {"none", "syn", "dialing", "piped", "closed"}]
  BY <1>0 DEF T!OpenStream, T!OpenFails, T!OpenTimesOut, T!TypeOK
<1>4. \A t \in T!Sessions : up[t] = "open" => T!HeldNext(t)
  BY <1>0, <1>1, StillHeld
<1>5. up' = up /\ dropped' = dropped
  BY <1>0, <1>1, <1>4, NothingDropped
<1> QED
  BY <1>0, <1>1, <1>2, <1>3, <1>5, TunnelKeeps DEF T!TypeOK, T!NoneDropped

(* Every step of Tunnel keeps TunnelInv. *)
LEMMA TunnelNext == ASSUME T!TunnelInv, T!Next PROVE T!TunnelInv'
<1>0. T!TypeOK /\ T!NoneDropped
  BY DEF T!TunnelInv
<1> USE <1>0 DEF T!clientVars, T!serverVars
<1>1. ASSUME NEW c \in Conns, T!Accept(c) \/ T!OpenStream(c) \/ T!OpenFails(c) \/ T!OpenTimesOut(c) PROVE T!TunnelInv'
  BY <1>1, TunnelAccept, TunnelOpens
<1>2. ASSUME NEW c \in Conns, T!ClientPipeEnds(c) PROVE T!TunnelInv'
  <2>1. conn' \in [Conns -> [st: {"backlog", "held", "opening", "piped", "ended", "given_up"}, sess: T!Sessions \cup {T!None}]]
    <3>1. conn' = [conn EXCEPT ![c].st = "ended"]
      BY <1>2 DEF T!ClientPipeEnds
    <3>2. conn \in [Conns -> [st: {"backlog", "held", "opening", "piped", "ended", "given_up"}, sess: T!Sessions \cup {T!None}]]
      BY DEF T!TypeOK
    <3> QED
      BY <3>1, <3>2, SMTT(60)
  <2> QED
    BY <1>2, <2>1, TunnelKeeps DEF T!ClientPipeEnds, T!TypeOK, T!NoneDropped
<1>3. CASE T!AcceptFails \/ T!Dial \/ T!Send \/ T!Receive
  BY <1>3, TunnelFails, TunnelDial, TunnelSend, TunnelReceive
<1>4. CASE T!ScavengeTick
  BY <1>4, TunnelKeeps DEF T!ScavengeTick, T!TypeOK, T!NoneDropped
<1>5. CASE T!Tick
  <2>1. left' \in [T!Sessions -> T!Overdue..T!Max({config.auto_expire, 0})]
    <3>1. \A s \in T!Sessions : left[s] \in T!Overdue..T!Max({config.auto_expire, 0})
      BY DEF T!TypeOK
    <3>2. \A s \in T!Sessions : T!Max({left[s] - 1, T!Overdue}) \in T!Overdue..T!Max({config.auto_expire, 0})
      BY <3>1, LeftBounds DEF T!TypeOK
    <3> QED
      BY <1>5, <3>1, <3>2 DEF T!Tick
  <2> QED
    BY <1>5, <2>1, TunnelKeeps DEF T!Tick, T!TypeOK, T!NoneDropped
<1>6. ASSUME NEW s \in T!Sessions, T!Look(s) PROVE T!TunnelInv'
  BY <1>6, TunnelLook
<1>7. ASSUME NEW s \in T!Sessions, T!SessionDies(s) PROVE T!TunnelInv'
  BY <1>7, TunnelKeeps DEF T!SessionDies, T!CloseSession, T!TypeOK, T!NoneDropped
<1>8. CASE T!ServerNext
  <2>1. /\ UNCHANGED <<config, muxes, rr, loop, chan, session_list, sweep, up, left, dropped, conn>>
    BY <1>8 DEF T!ServerNext, T!AcceptStream, T!SynLost, T!TargetDialled, T!TargetFails, T!ServerPipeEnds,
       T!ServerSessionDies
  <2>2. srv' \in [T!Sessions -> {"none", "open", "closed"}]
    <3>1. srv' = srv \/ (\E s : srv' = [srv EXCEPT ![s] = "open"]) \/ (\E s : srv' = [srv EXCEPT ![s] = "closed"])
      BY <1>8, ZenonT(60) DEF T!ServerNext, T!AcceptStream, T!SynLost, T!TargetDialled, T!TargetFails, T!ServerPipeEnds,
         T!ServerSessionDies
    <3> QED
      BY <3>1 DEF T!TypeOK
  <2>3. stream' \in [Conns -> {"none", "syn", "dialing", "piped", "closed"}]
    BY <1>8, ZenonT(60) DEF T!ServerNext, T!AcceptStream, T!SynLost, T!TargetDialled, T!TargetFails, T!ServerPipeEnds,
       T!ServerSessionDies, T!TypeOK
  <2> QED
    BY <2>1, <2>2, <2>3, TunnelKeeps DEF T!TypeOK, T!NoneDropped
<1> QED
  BY <1>1, <1>2, <1>3, <1>4, <1>5, <1>6, <1>7, <1>8 DEF T!Next, T!ClientNext

(* The invariant of the part. *)
TunnelPart == part = "tunnel" => T!TunnelInv

(* NoneDropped of the "tunnel" part: no live session is ever closed        *)
(* because the accept loop, the scavenger or a task let go of it (serve,   *)
(* scavenger).  For any number of connections and dials, any size of the   *)
(* scavenger's channel and any wrap of the round-robin counter.            *)
THEOREM SessionsKept == Spec => []NoneDropped
<1>1. Init => TunnelPart
  BY TunnelInit DEF Init, TunnelPart
<1>2. TunnelPart /\ [Next]_vars => TunnelPart'
  <2> SUFFICES ASSUME TunnelPart, [Next]_vars, part' = "tunnel" PROVE T!TunnelInv'
    BY DEF TunnelPart
  <2>1. part = "tunnel" /\ T!TunnelInv
    BY DEF TunnelPart, Next, vars
  <2>2. CASE T!Next
    BY <2>1, <2>2, TunnelNext
  <2>3. CASE UNCHANGED vars
    <3>1. UNCHANGED <<config, muxes, rr, loop, chan, session_list, sweep, up, left, dropped, conn, srv, stream>>
      BY <2>3 DEF vars, tunnelVars
    <3> QED
      BY <2>1, <3>1, TunnelKeeps DEF T!TunnelInv, T!TypeOK, T!NoneDropped
  <2> QED
    BY <2>1, <2>2, <2>3 DEF Next
<1>3. TunnelPart => NoneDropped
  BY DEF TunnelPart, NoneDropped, T!TunnelInv
<1> QED
  BY <1>1, <1>2, <1>3, PTL DEF Spec

-----------------------------------------------------------------------------
(* ExitHooks.                                                               *)

(* The rules before anything was dialled. *)
LEMMA ExitInit == X!Init => X!RuleInv
<1> SUFFICES ASSUME X!Init PROVE X!RuleInv
  OBVIOUS
<1>1. X!TypeOK
  <2>1. /\ {chain, foreign, stuck, conn_list} \subseteq SUBSET RawConns
    BY DEF X!Init
  <2>2. {hooks, fallback} \subseteq BOOLEAN
    BY DEF X!Init
  <2>3. thread \in [X!Threads -> [pc: {"idle", "hooks", "snapshot", "begin", "drain", "delete", "end", "raised"},
                               todo: SUBSET RawConns, cur: RawConns \cup {X!None}]]
    BY DEF X!Init, X!Asleep
  <2> QED
   BY <2>1, <2>2, <2>3 DEF X!Init, X!TypeOK
<1>2. X!ThreadsSound
  BY DEF X!Init, X!ThreadsSound, X!Threads, X!Asleep
<1>3. X!RecordedLast /\ X!ForeignLeft /\ \A c \in chain \ (foreign \cup stuck) : X!Owned(c)
  BY DEF X!Init, X!RecordedLast, X!ForeignLeft, X!At, X!Asleep
<1> QED
  BY <1>1, <1>2, <1>3 DEF X!RuleInv


(* What a thread is at. *)
ThreadRecord == [pc: {"idle", "hooks", "snapshot", "begin", "drain", "delete", "end", "raised"},
                 todo: SUBSET RawConns, cur: RawConns \cup {X!None}]

(* One thread moves: what the others are at stays. *)
LEMMA ThreadMoves ==
    ASSUME X!TypeOK, NEW t \in X!Threads, NEW th \in ThreadRecord,
           thread' = [thread EXCEPT ![t] = th]
    PROVE  /\ thread' \in [X!Threads -> ThreadRecord]
           /\ \A u \in X!Threads : thread'[u] = IF u = t THEN th ELSE thread[u]
           /\ \A step, c : X!At(step, c) /\ ~(thread[t].pc = step /\ thread[t].cur = c) => X!At(step, c)'
           /\ \A step, c : X!At(step, c)' => X!At(step, c) \/ (th.pc = step /\ th.cur = c)
           /\ \A step, c : th.pc = step /\ th.cur = c => X!At(step, c)'
<1>1. thread \in [X!Threads -> ThreadRecord]
  BY DEF X!TypeOK, ThreadRecord
<1>2. \A u \in X!Threads : thread'[u] = IF u = t THEN th ELSE thread[u]
  BY <1>1
<1> QED
  BY <1>1, <1>2 DEF X!At


(* dial() lists the connection and starts its installer. *)
LEMMA DialStep == ASSUME X!RuleInv, NEW c \in RawConns, X!Dial(c) PROVE X!RuleInv'
<1>1. X!TypeOK'
  BY DEF X!RuleInv, X!TypeOK, X!Dial
<1>2. X!ThreadsSound'
  BY DEF X!RuleInv, X!TypeOK, X!Dial, X!ThreadsSound
<1> QED
  BY <1>1, <1>2 DEF X!RuleInv, X!TypeOK, X!RecordedLast, X!ForeignLeft, X!At, X!Owned, X!Dial

(* A rule found in the chain is left to whoever added it. *)
LEMMA ExistsStep == ASSUME X!RuleInv, NEW c \in RawConns, X!Exists(c) PROVE X!RuleInv'
BY DEF X!RuleInv, X!TypeOK, X!ThreadsSound, X!RecordedLast, X!ForeignLeft, X!At, X!Owned, X!Exists

(* An appended rule is in the hands of its installer. *)
LEMMA AppendStep == ASSUME X!RuleInv, NEW c \in RawConns, X!Append(c) PROVE X!RuleInv'
BY DEF X!RuleInv, X!TypeOK, X!ThreadsSound, X!RecordedLast, X!ForeignLeft, X!At, X!Owned, X!Append

(* store_rules(): recorded for the close, or to be undone. *)
LEMMA StoreStep == ASSUME X!RuleInv, NEW c \in RawConns, X!StoreRules(c) PROVE X!RuleInv'
<1>1. X!TypeOK'
  BY DEF X!RuleInv, X!TypeOK, X!StoreRules
<1>2. X!ThreadsSound'
  BY DEF X!RuleInv, X!TypeOK, X!StoreRules, X!ThreadsSound
<1>3. X!RecordedLast' /\ X!ForeignLeft'
  BY DEF X!RuleInv, X!TypeOK, X!RecordedLast, X!ForeignLeft, X!At, X!StoreRules
<1>4. ASSUME NEW d \in chain' \ (foreign' \cup stuck') PROVE X!Owned(d)'
  <2>1. X!Owned(d) /\ \A step : X!At(step, d)' <=> X!At(step, d)
    BY DEF X!RuleInv, X!StoreRules, X!At
  <2>2. ~rules[c]
    BY DEF X!RuleInv, X!RecordedLast, X!StoreRules
  <2>3. d \in RawConns
    BY DEF X!RuleInv, X!TypeOK, X!StoreRules
  <2>4. CASE d = c
    BY <2>1, <2>2, <2>4 DEF X!RuleInv, X!TypeOK, X!Owned, X!StoreRules
  <2>5. CASE d # c
    <3>1. rules'[d] = rules[d] /\ setup'[d] = setup[d] /\ closed' = closed
      BY <2>3, <2>5 DEF X!RuleInv, X!TypeOK, X!StoreRules
    <3> QED
      BY <2>1, <3>1 DEF X!Owned
  <2> QED
    BY <2>4, <2>5
<1> QED
  BY <1>1, <1>2, <1>3, <1>4 DEF X!RuleInv

(* The installer deletes what it may not record. *)
LEMMA UndoStep == ASSUME X!RuleInv, NEW c \in RawConns, X!UndoRules(c) PROVE X!RuleInv'
BY DEF X!RuleInv, X!TypeOK, X!ThreadsSound, X!RecordedLast, X!ForeignLeft, X!At, X!Owned, X!UndoRules, X!Deleted

(* dial() returns the connection to its owner. *)
LEMMA ReturnsStep == ASSUME X!RuleInv, NEW c \in RawConns, X!DialReturns(c) PROVE X!RuleInv'
BY DEF X!RuleInv, X!TypeOK, X!ThreadsSound, X!RecordedLast, X!ForeignLeft, X!At, X!Owned, X!DialReturns

(* A thread that is not an owner's, or whose owner has let go, moves: the  *)
(* threads stay sound.                                                     *)
LEMMA ThreadSoundness ==
    ASSUME X!TypeOK, X!ThreadsSound, NEW t \in X!Threads, NEW th \in ThreadRecord,
           thread' = [thread EXCEPT ![t] = th],
           th.pc \in {"begin", "drain", "delete"} => th.cur \in RawConns,
           t \in RawConns => thread[t].pc # "idle",
           UNCHANGED <<setup, held>>
    PROVE  X!ThreadsSound'
<1>1. \A u \in X!Threads : thread'[u] = IF u = t THEN th ELSE thread[u]
  BY ThreadMoves
<1>2. t \in RawConns => held[t] = "gone"
  BY DEF X!ThreadsSound, X!Asleep
<1> QED
  BY <1>1, <1>2 DEF X!ThreadsSound, X!Threads

(* A thread moves and takes or returns no rule. *)
LEMMA ThreadStep ==
    ASSUME X!RuleInv, NEW t \in X!Threads, NEW th \in ThreadRecord,
           thread' = [thread EXCEPT ![t] = th],
           th.pc \in {"begin", "drain", "delete"} => th.cur \in RawConns,
           t \in RawConns => thread[t].pc # "idle",
           UNCHANGED <<chain, foreign, stuck, xlock, conn_list, closed, rules, setup, held>>,
           th.pc # "delete", thread[t].pc \notin {"drain", "delete"},
           {hooks', fallback'} \subseteq BOOLEAN, process' \in {"running", "exited", "killed"}
    PROVE  X!RuleInv'
<1>1. /\ thread' \in [X!Threads -> ThreadRecord]
      /\ \A u \in X!Threads : thread'[u] = IF u = t THEN th ELSE thread[u]
      /\ \A step, c : X!At(step, c) /\ ~(thread[t].pc = step /\ thread[t].cur = c) => X!At(step, c)'
      /\ \A step, c : X!At(step, c)' => X!At(step, c) \/ (th.pc = step /\ th.cur = c)
  BY ThreadMoves DEF X!RuleInv
<1>2. X!TypeOK'
  BY <1>1 DEF X!RuleInv, X!TypeOK, ThreadRecord
<1>3. X!ThreadsSound'
  BY ThreadSoundness DEF X!RuleInv
<1>4. X!RecordedLast'
  BY DEF X!RuleInv, X!RecordedLast
<1>5. X!ForeignLeft'
  BY <1>1 DEF X!RuleInv, X!ForeignLeft
<1>6. \A c \in chain' \ (foreign' \cup stuck') : X!Owned(c)'
  BY <1>1 DEF X!RuleInv, X!Owned
<1> QED
  BY <1>2, <1>3, <1>4, <1>5, <1>6 DEF X!RuleInv

(* The owner's thread wakes. *)
LEMMA CloseStep == ASSUME X!RuleInv, NEW c \in RawConns, X!CloseConn(c) PROVE X!RuleInv'
<1> DEFINE th == [pc |-> "begin", todo |-> {}, cur |-> c]
<1>1. c \in X!Threads /\ th \in ThreadRecord /\ th.pc = "begin" /\ th.cur = c
  BY DEF X!Threads, ThreadRecord
<1>2. thread[c].pc = "idle" /\ setup[c] # "none"
  BY DEF X!RuleInv, X!ThreadsSound, X!CloseConn, X!Asleep
<1>3. /\ thread' = [thread EXCEPT ![c] = th] /\ held' = [held EXCEPT ![c] = "gone"]
      /\ UNCHANGED <<chain, foreign, stuck, xlock, hooks, conn_list, closed, rules, setup, fallback, process>>
  BY DEF X!CloseConn
<1> HIDE DEF th
<1>4. /\ thread' \in [X!Threads -> ThreadRecord]
      /\ \A u \in X!Threads : thread'[u] = IF u = c THEN th ELSE thread[u]
      /\ \A step, d : X!At(step, d) /\ ~(thread[c].pc = step /\ thread[c].cur = d) => X!At(step, d)'
      /\ \A step, d : X!At(step, d)' => X!At(step, d) \/ (th.pc = step /\ th.cur = d)
  BY <1>1, <1>3, ThreadMoves DEF X!RuleInv
<1>5. X!TypeOK'
  BY <1>3, <1>4 DEF X!RuleInv, X!TypeOK, ThreadRecord
<1>6. X!ThreadsSound'
  BY <1>1, <1>2, <1>3, <1>4 DEF X!RuleInv, X!TypeOK, X!ThreadsSound, X!Threads
<1>7. X!RecordedLast' /\ X!ForeignLeft'
  BY <1>1, <1>3, <1>4 DEF X!RuleInv, X!RecordedLast, X!ForeignLeft
<1>8. \A d \in chain' \ (foreign' \cup stuck') : X!Owned(d)'
  BY <1>2, <1>3, <1>4 DEF X!RuleInv, X!Owned
<1> QED
  BY <1>5, <1>6, <1>7, <1>8 DEF X!RuleInv

(* What Onward() can say: the thread is through, or at another connection. *)
LEMMA OnwardRecord ==
    ASSUME NEW r \in ThreadRecord, NEW th \in X!Onward(r)
    PROVE  th \in ThreadRecord /\ th.pc \in {"begin", "end"} /\ (th.pc = "begin" => th.cur \in RawConns)
<1>1. CASE r.todo = {}
  BY <1>1 DEF X!Onward, ThreadRecord
<1>2. CASE r.todo # {}
  BY <1>2 DEF X!Onward, ThreadRecord
<1> QED
  BY <1>1, <1>2

(* begin_close(): the first caller goes on to take the recorded rule. *)
LEMMA BeginStep == ASSUME X!RuleInv, NEW t \in X!Threads, X!BeginClose(t) PROVE X!RuleInv'
<1> DEFINE c == thread[t].cur
<1>1. thread[t] \in ThreadRecord /\ thread[t].pc = "begin" /\ c \in RawConns
  BY DEF X!RuleInv, X!TypeOK, X!ThreadsSound, ThreadRecord, X!BeginClose
<1>2. PICK th \in IF closed[c] THEN X!Onward(thread[t]) ELSE {[thread[t] EXCEPT !.pc = "drain"]} :
         thread' = [thread EXCEPT ![t] = th]
  BY DEF X!BeginClose
<1>3. /\ th \in ThreadRecord /\ th.pc \in {"begin", "drain", "end"}
      /\ th.pc \in {"begin", "drain"} => th.cur \in RawConns
      /\ ~closed[c] => th.pc = "drain" /\ th.cur = c
  <2>1. CASE closed[c]
    BY <1>1, <1>2, <2>1, OnwardRecord
  <2>2. CASE ~closed[c]
    BY <1>1, <1>2, <2>2 DEF ThreadRecord
  <2> QED
    BY <2>1, <2>2
<1>4. /\ closed' = [closed EXCEPT ![c] = TRUE] /\ conn_list' = conn_list \ {c}
      /\ UNCHANGED <<chain, foreign, stuck, xlock, hooks, rules, setup, held, fallback, process>>
  BY DEF X!BeginClose
<1> HIDE DEF c
<1>5. /\ thread' \in [X!Threads -> ThreadRecord]
      /\ \A step, d : X!At(step, d) /\ step # "begin" => X!At(step, d)'
      /\ \A step, d : X!At(step, d)' => X!At(step, d) \/ (th.pc = step /\ th.cur = d)
      /\ \A step, d : th.pc = step /\ th.cur = d => X!At(step, d)'
  BY <1>1, <1>2, <1>3, ThreadMoves DEF X!RuleInv
<1>6. X!TypeOK'
  BY <1>1, <1>4, <1>5 DEF X!RuleInv, X!TypeOK, ThreadRecord
<1>7. X!ThreadsSound'
  BY <1>1, <1>2, <1>3, <1>4, ThreadSoundness DEF X!RuleInv
<1>8. X!RecordedLast' /\ X!ForeignLeft'
  BY <1>3, <1>4, <1>5 DEF X!RuleInv, X!RecordedLast, X!ForeignLeft
<1>9. ASSUME NEW d \in chain' \ (foreign' \cup stuck') PROVE X!Owned(d)'
  <2>1. X!Owned(d) /\ d \in RawConns
    BY <1>4 DEF X!RuleInv, X!TypeOK
  <2>2. CASE d = c
    BY <1>3, <1>4, <1>5, <2>1, <2>2 DEF X!Owned
  <2>3. CASE d # c
    <3>1. closed'[d] = closed[d]
      BY <1>4, <2>1, <2>3 DEF X!RuleInv, X!TypeOK
    <3> QED
      BY <1>4, <1>5, <2>1, <3>1 DEF X!Owned
  <2> QED
    BY <2>2, <2>3
<1> QED
  BY <1>6, <1>7, <1>8, <1>9 DEF X!RuleInv

(* delete_rules() takes the rule: the record passes to the deleter. *)
LEMMA DrainStep == ASSUME X!RuleInv, NEW t \in X!Threads, X!DrainRules(t) PROVE X!RuleInv'
<1> DEFINE c == thread[t].cur
<1>1. thread[t] \in ThreadRecord /\ thread[t].pc = "drain" /\ c \in RawConns
  BY DEF X!RuleInv, X!TypeOK, X!ThreadsSound, ThreadRecord, X!DrainRules
<1>2. PICK th \in IF rules[c] THEN {[thread[t] EXCEPT !.pc = "delete"]} ELSE X!Onward(thread[t]) :
         thread' = [thread EXCEPT ![t] = th]
  BY DEF X!DrainRules
<1>3. /\ th \in ThreadRecord /\ th.pc \in {"begin", "delete", "end"}
      /\ th.pc \in {"begin", "delete"} => th.cur \in RawConns
      /\ rules[c] => th.pc = "delete" /\ th.cur = c
      /\ ~rules[c] => th.pc # "delete"
  <2>1. CASE ~rules[c]
    BY <1>1, <1>2, <2>1, OnwardRecord
  <2>2. CASE rules[c]
    BY <1>1, <1>2, <2>2 DEF ThreadRecord
  <2> QED
    BY <2>1, <2>2
<1>4. /\ rules' = [rules EXCEPT ![c] = FALSE]
      /\ UNCHANGED <<chain, foreign, stuck, xlock, hooks, conn_list, closed, setup, held, fallback, process>>
  BY DEF X!DrainRules
<1>a. thread[t].cur = c
  OBVIOUS
<1> HIDE DEF c
<1>5. /\ thread' \in [X!Threads -> ThreadRecord]
      /\ \A step, d : X!At(step, d) /\ (step # "drain" \/ d # c) => X!At(step, d)'
      /\ \A step, d : X!At(step, d)' => X!At(step, d) \/ (th.pc = step /\ th.cur = d)
      /\ \A step, d : th.pc = step /\ th.cur = d => X!At(step, d)'
  BY <1>1, <1>a, <1>2, <1>3, ThreadMoves DEF X!RuleInv
<1>b. \A d \in RawConns : rules'[d] = IF d = c THEN FALSE ELSE rules[d]
  BY <1>4 DEF X!RuleInv, X!TypeOK
<1>6. X!TypeOK'
  BY <1>1, <1>4, <1>5 DEF X!RuleInv, X!TypeOK, ThreadRecord
<1>7. X!ThreadsSound'
  BY <1>1, <1>2, <1>3, <1>4, ThreadSoundness DEF X!RuleInv
<1>8. X!RecordedLast' /\ X!ForeignLeft'
  <2>1. foreign \subseteq RawConns
    BY DEF X!RuleInv, X!TypeOK
  <2> QED
    BY <1>3, <1>4, <1>5, <1>b, <2>1 DEF X!RuleInv, X!RecordedLast, X!ForeignLeft
<1>9. ASSUME NEW d \in chain' \ (foreign' \cup stuck') PROVE X!Owned(d)'
  <2>1. X!Owned(d) /\ d \in RawConns
    BY <1>4 DEF X!RuleInv, X!TypeOK
  <2>2. CASE d = c
    BY <1>3, <1>4, <1>5, <2>1, <2>2 DEF X!Owned
  <2>3. CASE d # c
    BY <1>4, <1>5, <1>b, <2>1, <2>3 DEF X!Owned
  <2> QED
    BY <2>2, <2>3
<1> QED
  BY <1>6, <1>7, <1>8, <1>9 DEF X!RuleInv

(* The deleter deletes the rule it took, which is not a foreign one. *)
LEMMA DeleteStep == ASSUME X!RuleInv, NEW t \in X!Threads, X!DeleteRule(t) PROVE X!RuleInv'
<1> DEFINE c == thread[t].cur
<1>1. thread[t] \in ThreadRecord /\ thread[t].pc = "delete" /\ c \in RawConns
  BY DEF X!RuleInv, X!TypeOK, X!ThreadsSound, ThreadRecord, X!DeleteRule
<1>2. PICK th \in X!Onward(thread[t]) : thread' = [thread EXCEPT ![t] = th]
  BY DEF X!DeleteRule
<1>3. th \in ThreadRecord /\ th.pc \in {"begin", "end"} /\ (th.pc = "begin" => th.cur \in RawConns)
  BY <1>1, <1>2, OnwardRecord
<1>4. /\ \/ chain' = chain \ {c} /\ UNCHANGED stuck
         \/ stuck' = stuck \cup {c} /\ UNCHANGED chain
      /\ UNCHANGED <<foreign, xlock, hooks, conn_list, closed, rules, setup, held, fallback, process>>
  BY DEF X!DeleteRule, X!Deleted
<1>a. thread[t].cur = c /\ X!At("delete", c)
  BY <1>1 DEF X!At
<1> HIDE DEF c
<1>5. /\ thread' \in [X!Threads -> ThreadRecord]
      /\ \A step, d : X!At(step, d) /\ (step # "delete" \/ d # c) => X!At(step, d)'
      /\ \A step, d : X!At(step, d)' => X!At(step, d) \/ (th.pc = step /\ th.cur = d)
  BY <1>1, <1>a, <1>2, <1>3, ThreadMoves DEF X!RuleInv
<1>6. X!TypeOK'
  BY <1>1, <1>4, <1>5 DEF X!RuleInv, X!TypeOK, ThreadRecord
<1>7. X!ThreadsSound'
  BY <1>1, <1>2, <1>3, <1>4, ThreadSoundness DEF X!RuleInv
<1>8. X!RecordedLast' /\ X!ForeignLeft'
  BY <1>3, <1>4, <1>5, <1>a DEF X!RuleInv, X!RecordedLast, X!ForeignLeft
<1>9. ASSUME NEW d \in chain' \ (foreign' \cup stuck') PROVE X!Owned(d)'
  <2>1. X!Owned(d) /\ d # c
    BY <1>4 DEF X!RuleInv
  <2> QED
    BY <1>4, <1>5, <2>1 DEF X!Owned
<1> QED
  BY <1>6, <1>7, <1>8, <1>9 DEF X!RuleInv

(* An exit path starts. *)
LEMMA StartStep == ASSUME X!RuleInv, NEW t \in X!Threads, X!Start(t) PROVE X!RuleInv'
<1> DEFINE th == [thread[t] EXCEPT !.pc = IF t = "abort" THEN "snapshot" ELSE "hooks"]
<1>1. thread[t] \in ThreadRecord /\ thread[t].pc \in {"idle", "raised"} /\ t \notin RawConns
  BY ExitAssumption DEF X!RuleInv, X!TypeOK, ThreadRecord, X!Start
<1>2. thread' = [thread EXCEPT ![t] = th] /\ th \in ThreadRecord /\ th.pc \in {"snapshot", "hooks"}
  BY <1>1 DEF X!Start, ThreadRecord
<1> HIDE DEF th
<1> QED
  BY <1>1, <1>2, ThreadStep DEF X!Start, X!RuleInv, X!TypeOK

(* It takes the exit hooks, or finds them taken. *)
LEMMA PostStep == ASSUME X!RuleInv, NEW t \in X!Threads, X!PostProcess(t) PROVE X!RuleInv'
<1> DEFINE th == [thread[t] EXCEPT !.pc = IF hooks THEN "snapshot" ELSE "end"]
<1>1. thread[t] \in ThreadRecord /\ thread[t].pc = "hooks"
  BY DEF X!RuleInv, X!TypeOK, ThreadRecord, X!PostProcess
<1>2. thread' = [thread EXCEPT ![t] = th] /\ th \in ThreadRecord /\ th.pc \in {"snapshot", "end"}
  BY <1>1 DEF X!PostProcess, ThreadRecord
<1> HIDE DEF th
<1>3. {hooks', fallback'} \subseteq BOOLEAN
  BY DEF X!PostProcess, X!RuleInv, X!TypeOK
<1> QED
  BY <1>1, <1>2, <1>3, ThreadStep DEF X!PostProcess, X!RuleInv, X!TypeOK

(* iptables_reset() goes through CONN_LIST. *)
LEMMA ResetStep == ASSUME X!RuleInv, NEW t \in X!Threads, X!IptablesReset(t) PROVE X!RuleInv'
<1> DEFINE r == [thread[t] EXCEPT !.todo = conn_list]
<1>1. thread[t].pc = "snapshot" /\ r \in ThreadRecord
  BY DEF X!RuleInv, X!TypeOK, ThreadRecord, X!IptablesReset
<1>2. PICK th \in X!Onward(r) : thread' = [thread EXCEPT ![t] = th]
  BY DEF X!IptablesReset
<1> HIDE DEF r
<1>3. th \in ThreadRecord /\ th.pc \in {"begin", "end"} /\ (th.pc = "begin" => th.cur \in RawConns)
  BY <1>1, <1>2, OnwardRecord
<1> QED
  BY <1>1, <1>2, <1>3, ThreadStep DEF X!IptablesReset, X!RuleInv, X!TypeOK

(* A step that leaves rules, connections and threads alone. *)
LEMMA IdleStep ==
    ASSUME X!RuleInv,
           UNCHANGED <<chain, foreign, stuck, hooks, conn_list, closed, rules, setup, held, thread>>,
           fallback' \in BOOLEAN, xlock' \in {"free", "held", "past"},
           process' \in {"running", "exited", "killed"}
    PROVE  X!RuleInv'
BY DEF X!RuleInv, X!TypeOK, X!ThreadsSound, X!RecordedLast, X!ForeignLeft, X!At, X!Owned

(* The process exits, or the re-raised signal fails to end it. *)
LEMMA ExitStep == ASSUME X!RuleInv, NEW t \in X!Threads, X!Exit(t) PROVE X!RuleInv'
<1> DEFINE th == [thread[t] EXCEPT !.pc = "raised"]
<1>1. /\ thread[t] \in ThreadRecord /\ thread[t].pc = "end"
      /\ fallback \in BOOLEAN /\ hooks \in BOOLEAN /\ xlock \in {"free", "held", "past"}
      /\ process \in {"running", "exited", "killed"}
  BY DEF X!RuleInv, X!TypeOK, ThreadRecord, X!Exit
<1>2. fallback' \in BOOLEAN
  BY DEF X!Exit
<1>3. UNCHANGED <<chain, foreign, stuck, xlock, hooks, conn_list, closed, rules, setup, held>>
  BY DEF X!Exit
<1>4. CASE process' = "exited" /\ UNCHANGED thread
  BY <1>1, <1>2, <1>3, <1>4, IdleStep
<1>5. CASE process' = process /\ thread' = [thread EXCEPT ![t].pc = "raised"]
  <2>1. thread' = [thread EXCEPT ![t] = th] /\ th \in ThreadRecord /\ th.pc = "raised"
    BY <1>1, <1>5 DEF ThreadRecord
  <2> HIDE DEF th
  <2> QED
    BY <1>1, <1>2, <1>3, <1>5, <2>1, ThreadStep
<1> QED
  BY <1>4, <1>5 DEF X!Exit

(* Every step of ExitHooks keeps RuleInv. *)
LEMMA ExitNext == ASSUME X!RuleInv, X!Next PROVE X!RuleInv'
<1>1. ASSUME NEW c \in RawConns, X!Dial(c) \/ X!Installer(c) \/ X!DialReturns(c) \/ X!CloseConn(c)
      PROVE  X!RuleInv'
  BY <1>1, DialStep, ExistsStep, AppendStep, StoreStep, UndoStep, ReturnsStep, CloseStep DEF X!Installer
<1>2. ASSUME NEW t \in X!Threads, X!Closer(t) \/ X!Start(t) PROVE X!RuleInv'
  BY <1>2, BeginStep, DrainStep, DeleteStep, StartStep, PostStep, ResetStep, ExitStep DEF X!Closer
<1>3. CASE X!FallbackExit \/ X!Kill \/ X!TakeLock \/ X!ReleaseLock
  BY <1>3, IdleStep DEF X!RuleInv, X!TypeOK, X!FallbackExit, X!Kill, X!TakeLock, X!ReleaseLock
<1> QED
  BY <1>1, <1>2, <1>3 DEF X!Next

(* The invariant of the part: the steps of other parts leave it alone. *)
ExitInv == part = "exit" => X!RuleInv

(* RulesOwned of the "exit" part: whatever the order in which a dial, a    *)
(* close, the exit hooks and iptables come, a rule this process added is   *)
(* recorded for its close or with the thread that will delete it, and a    *)
(* rule that was there before is never deleted (store_rules,               *)
(* delete_rules).  For any number of connections and exit paths.           *)
THEOREM RulesKept == Spec => []RulesOwned
<1>1. Init => ExitInv
  BY ExitInit DEF Init, ExitInv
<1>2. ExitInv /\ [Next]_vars => ExitInv'
  <2> SUFFICES ASSUME ExitInv, [Next]_vars, part' = "exit" PROVE X!RuleInv'
    BY DEF ExitInv
  <2>1. part = "exit" /\ X!RuleInv
    BY DEF ExitInv, Next, vars
  <2>2. CASE X!Next
    BY <2>1, <2>2, ExitNext
  <2>3. CASE UNCHANGED vars
    BY <2>1, <2>3, IdleStep DEF vars, exitVars, X!RuleInv, X!TypeOK
  <2> QED
    BY <2>1, <2>2, <2>3 DEF Next
<1>3. ExitInv => RulesOwned
  BY DEF ExitInv, RulesOwned, X!RuleInv, X!RuleOwned, X!ForeignLeft, X!ForeignKept
<1> QED
  BY <1>1, <1>2, <1>3, PTL DEF Spec

-----------------------------------------------------------------------------
(* RawConn.                                                                 *)

(* Flows and real connections as they are made and changed. *)
LEMMA FlowRecords ==
    /\ R!NoFlow \in R!FlowRecord /\ R!NewFlow \in R!FlowRecord
    /\ R!NoFlow.conn = R!None /\ R!NewFlow.conn = R!None
    /\ \A r \in Reals : [R!NewFlow EXCEPT !.conn = r] \in R!FlowRecord
<1>1. -1 \in -1..SeqMod - 1 /\ 0 \in -1..SeqMod - 1 /\ 0 \in 0..EXPIRE + 1
  BY RawAssumption
<1> QED
  BY <1>1 DEF R!FlowRecord, R!NoFlow, R!NewFlow, R!None

(* What accept_loop() and the clock do to a flow. *)
LEMMA FlowUpdates ==
    ASSUME NEW f \in R!FlowRecord
    PROVE  /\ f.conn \in Reals \cup {R!None}
           /\ \A r \in Reals : [f EXCEPT !.conn = r] \in R!FlowRecord /\ [f EXCEPT !.conn = r].conn = r
           /\ f.age <= EXPIRE => [f EXCEPT !.age = f.age + 1] \in R!FlowRecord
           /\ [f EXCEPT !.age = f.age + 1].conn = f.conn
BY RawAssumption DEF R!FlowRecord, R!None

(* capture_update() leaves the connection of a flow alone. *)
LEMMA CaptureUpdates ==
    ASSUME NEW f \in R!FlowRecord, NEW h \in Handles, NEW seq \in 0..SeqMod - 1, NEW len \in 0..1
    PROVE  LET upd == R!CaptureUpdate(f, h, seq, len)
           IN  upd.flow \in R!FlowRecord /\ upd.flow.conn = f.conn /\ (upd.orphan <=> f.conn = R!None)
<1>1. R!NextAck(f, seq, len) \in -1..SeqMod - 1
  BY RawAssumption DEF R!NextAck, R!FlowRecord
<1>2. 0 \in 0..EXPIRE + 1
  BY RawAssumption
<1>3. [f EXCEPT !.age = 0, !.ack = R!NextAck(f, seq, len), !.handle = h] \in R!FlowRecord
  BY <1>1, <1>2 DEF R!FlowRecord
<1> QED
  BY <1>3 DEF R!CaptureUpdate, R!FlowRecord

(* A real connection changes its state and keeps its peer. *)
LEMMA RealUpdates ==
    ASSUME NEW x \in R!RealRecord
    PROVE  /\ x.peer \in Peers \cup {R!Nobody}
           /\ \A s \in {"queued", "new", "pinned", "closed"} :
                /\ [x EXCEPT !.state = s] \in R!RealRecord
                /\ [x EXCEPT !.state = s].state = s /\ [x EXCEPT !.state = s].peer = x.peer
           /\ \A p \in Peers : [peer |-> p, state |-> "queued"] \in R!RealRecord
BY DEF R!RealRecord

(* Connect() picks the least number that is free. *)
LEMMA ConnectPicks ==
    ASSUME R!TypeOK, NEW p \in Connecting, R!Connect(p)
    PROVE  \E r \in Reals : /\ real[r].state = "free" /\ \A s \in Reals : real[s].state = "free" => r <= s
                            /\ real' = [real EXCEPT ![r] = [peer |-> p, state |-> "queued"]]
<1>1. R!Free \subseteq Nat /\ R!Free # {} /\ R!Free \subseteq Reals
  BY RawAssumption DEF R!Free, R!Connect
<1>2. \E f \in R!Free : \A g \in R!Free : f <= g
  BY <1>1, LeastNatural
<1>3. PICK r \in R!Free : /\ \A g \in R!Free : r <= g
                          /\ real' = [real EXCEPT ![r] = [peer |-> p, state |-> "queued"]]
  BY <1>2 DEF R!Connect
<1> QED
  BY <1>1, <1>3 DEF R!Free

(* A listener that was just opened, and a connection just dialled. *)
LEMMA RawInit == R!Init => R!RawInv
<1> SUFFICES ASSUME R!Init PROVE R!RawInv
  OBVIOUS
<1>1. /\ capture = [h \in Handles |-> [pc |-> "read", from |-> R!Nobody]] /\ channel = <<>>
      /\ cleaner = [pc |-> "wait", closing |-> {}] /\ closer = [pc |-> "open", closing |-> {}]
  BY DEF R!Init
<1>2. R!Heard = {}
  BY <1>1 DEF R!Heard
<1>3. CASE R!ListenInit
  <2>1. \A r \in Reals : real[r].state = "free" /\ real[r].peer = R!Nobody
    BY <1>3 DEF R!ListenInit
  <2>2. \A p \in Peers : flows[p].conn = R!None
    BY <1>3, FlowRecords DEF R!ListenInit
  <2>3. real \in [Reals -> R!RealRecord]
    BY <1>3 DEF R!ListenInit, R!RealRecord
  <2>4. R!TypeOK
    BY <1>1, <1>3, <2>3, RawAssumption, FlowRecords DEF R!ListenInit, R!TypeOK
  <2> QED
    BY <1>1, <1>2, <1>3, <2>1, <2>2, <2>4 DEF R!ListenInit, R!RawInv, R!Numbered, R!Established, R!AcceptSound,
       R!TasksSound, R!OnlyEstablished, R!TableOwns
<1>4. ASSUME NEW p \in Connecting, R!DialInit(p) PROVE R!RawInv
  <2>1. p \in Peers /\ p # R!Nobody /\ 1 \in Reals /\ 1 # R!None
    BY RawAssumption DEF R!Nobody, R!None
  <2>2. \A r \in Reals : IF r = 1 THEN real[r].peer = p /\ real[r].state = "pinned"
                         ELSE real[r].peer = R!Nobody /\ real[r].state = "free"
    BY <1>4 DEF R!DialInit
  <2>3. [R!NewFlow EXCEPT !.conn = 1].conn = 1
    BY DEF R!NewFlow, R!NoFlow
  <2>4. \A q \in Peers : flows[q].conn = IF q = p THEN 1 ELSE R!None
    BY <1>4, <2>3, FlowRecords DEF R!DialInit
  <2>5. real \in [Reals -> R!RealRecord]
    BY <1>4, <2>1 DEF R!DialInit, R!RealRecord
  <2>6. R!TypeOK
    BY <1>1, <1>4, <2>1, <2>5, RawAssumption, FlowRecords DEF R!DialInit, R!TypeOK
  <2>7. R!Numbered
    <3>1. \A r \in Reals : r # 1 => 1 < r
      BY RawAssumption
    <3> QED
      BY <2>1, <2>2, <3>1 DEF R!Numbered, R!Established
  <2>8. R!AcceptSound /\ R!TasksSound /\ R!OnlyEstablished
    BY <1>1, <1>2, <1>4, <2>1, <2>2 DEF R!DialInit, R!AcceptSound, R!TasksSound, R!OnlyEstablished, R!Established
  <2>9. R!TableOwns
    BY <2>1, <2>2, <2>4 DEF R!TableOwns
  <2> QED
    BY <2>6, <2>7, <2>8, <2>9 DEF R!RawInv
<1> QED
  BY <1>3, <1>4 DEF R!Init

(* Every step keeps the types. *)
LEMMA RawTyped == ASSUME R!RawInv, R!Next PROVE R!TypeOK'
<1>0. R!TypeOK
  BY DEF R!RawInv
<1> USE <1>0 DEF R!TypeOK
<1>1. ASSUME NEW p \in Connecting, R!Connect(p) PROVE R!TypeOK'
  <2>1. PICK r \in Reals : real' = [real EXCEPT ![r] = [peer |-> p, state |-> "queued"]]
    BY <1>1, ConnectPicks
  <2>2. [peer |-> p, state |-> "queued"] \in R!RealRecord
    BY RawAssumption DEF R!RealRecord
  <2>3. real' \in [Reals -> R!RealRecord]
    BY <2>1, <2>2
  <2> QED
    BY <1>1, <2>3 DEF R!Connect
<1>2. ASSUME NEW p \in Peers, R!SendTo(p) PROVE R!TypeOK'
  BY <1>2, FlowRecords DEF R!SendTo
<1>3. ASSUME NEW h \in Handles, NEW p \in Peers, NEW seq \in 0..SeqMod - 1, NEW len \in 0..1, NEW psh \in BOOLEAN,
             R!Capture(h, p, seq, len, psh)
      PROVE  R!TypeOK'
  <2>1. R!Flow(p) \in R!FlowRecord
    BY FlowRecords DEF R!Flow
  <2>2. R!CaptureUpdate(R!Flow(p), h, seq, len).flow \in R!FlowRecord
    BY <2>1, CaptureUpdates
  <2>3. flows' \in [Peers -> R!FlowRecord]
    BY <1>3, <2>2 DEF R!Capture
  <2> QED
    BY <1>3, <2>3 DEF R!Capture
<1>4. ASSUME NEW h \in Handles, R!Push(h) PROVE R!TypeOK'
  <2>1. capture[h].from \in Peers
    BY <1>4 DEF R!Push, R!RawInv, R!TasksSound
  <2>2. channel' \in Seq(Peers) /\ Len(channel') <= MESSAGE_BACKLOG
    BY <1>4, <2>1, RawAssumption DEF R!Push
  <2> QED
    BY <1>4, <2>2 DEF R!Push
<1>5. ASSUME NEW h \in Handles, R!CaptureEnds(h) PROVE R!TypeOK'
  BY <1>5 DEF R!CaptureEnds
<1>6. ASSUME NEW r \in Reals, R!Accept(r) PROVE R!TypeOK'
  <2>1. real' = [real EXCEPT ![r] = [real[r] EXCEPT !.state = "new"]] /\ [real[r] EXCEPT !.state = "new"] \in R!RealRecord
    BY <1>6, RealUpdates DEF R!Accept
  <2> QED
    BY <1>6, <2>1 DEF R!Accept
<1>7. CASE R!Tick
  <2>1. \A p \in Peers : flows'[p] \in R!FlowRecord
    BY <1>7, FlowUpdates DEF R!Tick
  <2>2. flows' \in [Peers -> R!FlowRecord]
    BY <1>7, <2>1 DEF R!Tick
  <2> QED
    BY <1>7, <2>2 DEF R!Tick
<1>8. CASE R!RecvFrom
  BY <1>8, RawAssumption DEF R!RecvFrom
<1>9. CASE R!PinTtl
  <2>1. accept.r \in Reals
    BY <1>9 DEF R!PinTtl, R!RawInv, R!AcceptSound
  <2>2. /\ real' = [real EXCEPT ![accept.r] = [real[accept.r] EXCEPT !.state = "pinned"]]
        /\ [real[accept.r] EXCEPT !.state = "pinned"] \in R!RealRecord
    BY <1>9, <2>1, RealUpdates DEF R!PinTtl
  <2>3. real' \in [Reals -> R!RealRecord]
    BY <2>1, <2>2
  <2>4. accept' \in [pc: {"accept", "pin", "insert", "end"}, r: Reals \cup {R!None}]
    BY <1>9 DEF R!PinTtl
  <2> QED
    BY <1>9, <2>3, <2>4 DEF R!PinTtl
<1>10. CASE R!AcceptEnds
  BY <1>10 DEF R!AcceptEnds
<1>11. CASE R!Insert
  <2> DEFINE p == real[accept.r].peer
  <2>1. accept.r \in Reals
    BY <1>11 DEF R!Insert, R!RawInv, R!AcceptSound
  <2>2. p \in Peers => [R!Flow(p) EXCEPT !.conn = accept.r] \in R!FlowRecord
    <3>1. p \in Peers => R!Flow(p) \in R!FlowRecord
      BY FlowRecords DEF R!Flow
    <3> QED
      BY <2>1, <3>1, FlowUpdates
  <2>3. flows' = [flows EXCEPT ![p] = [R!Flow(p) EXCEPT !.conn = accept.r]]
    BY <1>11 DEF R!Insert
  <2>4. flows' \in [Peers -> R!FlowRecord]
    BY <2>2, <2>3
  <2> QED
    BY <1>11, <2>4 DEF R!Insert
<1>12. CASE R!Sweep
  <2>1. \A p \in Peers : flows[p].conn \in Reals \cup {R!None}
    BY FlowUpdates
  <2> QED
    BY <1>12, <2>1, FlowRecords DEF R!Sweep
<1>13. CASE R!CloseSwept
  <2>1. real' \in [Reals -> R!RealRecord]
    BY <1>13, RealUpdates DEF R!CloseSwept
  <2> QED
    BY <1>13, <2>1 DEF R!CloseSwept
<1>14. CASE R!CleanerEnds \/ R!BeginClose
  BY <1>14 DEF R!CleanerEnds, R!BeginClose
<1>15. CASE R!Drain
  <2>1. \A p \in Peers : flows[p].conn \in Reals \cup {R!None}
    BY FlowUpdates
  <2>2. {flows[p].conn : p \in Peers} \ {R!None} \subseteq Reals
    BY <2>1
  <2>3. flows' \in [Peers -> R!FlowRecord]
    BY <1>15, FlowRecords DEF R!Drain
  <2>4. closer' \in [pc: {"open", "drain", "close", "done"}, closing: SUBSET Reals]
    BY <1>15, <2>2, RawAssumption DEF R!Drain
  <2> QED
    BY <1>15, <2>3, <2>4 DEF R!Drain
<1>16. CASE R!CloseReals
  <2>1. real' \in [Reals -> R!RealRecord]
    BY <1>16, RealUpdates DEF R!CloseReals
  <2> QED
    BY <1>16, <2>1 DEF R!CloseReals
<1> QED
  BY <1>1, <1>2, <1>3, <1>4, <1>5, <1>6, <1>7, <1>8, <1>9, <1>10, <1>11, <1>12, <1>13, <1>14, <1>15, <1>16 DEF R!Next

(* A step that moves no real connection, enters and removes no flow's      *)
(* connection, and hears only from flows that have one.                    *)
LEMMA RawKeeps ==
    ASSUME R!RawInv, R!TypeOK', UNCHANGED real, R!AcceptSound', R!TasksSound',
           accept'.r = accept.r, cleaner'.closing = cleaner.closing, R!closed => R!closed',
           \A p \in Peers : flows'[p].conn = flows[p].conn,
           R!Heard' \subseteq R!Heard \cup {p \in Peers : flows[p].conn # R!None}
    PROVE  R!RawInv'
<1>1. R!Numbered'
  BY DEF R!RawInv, R!Numbered, R!Established
<1>2. R!OnlyEstablished'
  <2> SUFFICES ASSUME NEW p \in R!Heard' PROVE \E r \in Reals : real[r].peer = p /\ R!Established(r)
    BY DEF R!OnlyEstablished, R!Established
  <2>1. CASE p \in R!Heard
    BY <2>1 DEF R!RawInv, R!OnlyEstablished
  <2>2. CASE p \in Peers /\ flows[p].conn # R!None
    <3>1. flows[p].conn \in Reals
      BY <2>2, FlowUpdates DEF R!RawInv, R!TypeOK
    <3> QED
      BY <2>2, <3>1 DEF R!RawInv, R!TableOwns, R!Established
  <2> QED
    BY <2>1, <2>2
<1>3. R!TableOwns'
  <2>1. \A r \in Reals : real[r].state = "pinned" => real[r].peer \in Peers
    BY RealUpdates, ZenonT(60) DEF R!RawInv, R!TypeOK, R!Numbered
  <2> QED
    BY <2>1 DEF R!RawInv, R!TableOwns
<1> QED
  BY <1>1, <1>2, <1>3 DEF R!RawInv

(* The established connections stay, with their peers: what was heard was  *)
(* heard from one of them.                                                 *)
LEMMA HeardFrom ==
    ASSUME R!RawInv, R!Heard' = R!Heard,
           \A r \in Reals : R!Established(r) => R!Established(r)' /\ real'[r].peer = real[r].peer
    PROVE  R!OnlyEstablished'
BY DEF R!RawInv, R!OnlyEstablished

(* A step that no task takes part in. *)
LEMMA TasksKept ==
    ASSUME R!RawInv, \A r \in Reals : R!Established(r) => R!Established(r)',
           UNCHANGED <<mode, capture, cleaner, closer>>
    PROVE  R!TasksSound'
<1>1. cleaner.closing \cup closer.closing \cup {1} \subseteq Reals
  BY RawAssumption DEF R!RawInv, R!TypeOK
<1> QED
  BY <1>1 DEF R!RawInv, R!TasksSound

(* A handshake is completed, by the next number. *)
LEMMA RawConnect == ASSUME R!RawInv, R!TypeOK', NEW p \in Connecting, R!Connect(p) PROVE R!RawInv'
<1>1. PICK r \in Reals : /\ real[r].state = "free" /\ \A s \in Reals : real[s].state = "free" => r <= s
                         /\ real' = [real EXCEPT ![r] = [peer |-> p, state |-> "queued"]]
  BY ConnectPicks DEF R!RawInv
<1>2. \A s \in Reals : IF s = r THEN real'[s].peer = p /\ real'[s].state = "queued" ELSE real'[s] = real[s]
  BY <1>1 DEF R!RawInv, R!TypeOK
<1>3. UNCHANGED <<mode, flows, capture, channel, accept, cleaner, closer>>
  BY DEF R!Connect
<1>4. p \in Peers /\ p # R!Nobody /\ Reals \subseteq Nat
  BY RawAssumption DEF R!Nobody
<1>5. R!Numbered'
  BY <1>1, <1>2, <1>4 DEF R!RawInv, R!Numbered, R!Established
<1>6. R!AcceptSound' /\ R!TasksSound'
  <2>1. \A s \in Reals : R!Established(s)' <=> R!Established(s)
    BY <1>1, <1>2 DEF R!Established
  <2>2. accept.pc = "insert" => accept.r # r
    BY <1>1 DEF R!RawInv, R!AcceptSound
  <2> QED
    BY <1>2, <1>3, <2>1, <2>2, TasksKept DEF R!RawInv, R!AcceptSound
<1>7. R!OnlyEstablished'
  BY <1>1, <1>2, <1>3, HeardFrom DEF R!Heard, R!Established
<1>8. R!TableOwns'
  <2>1. \A s \in Reals : real[s].state = "pinned" => real[s].peer # R!Nobody
    BY DEF R!RawInv, R!Numbered
  <2>2. real[r].peer = R!Nobody
    BY <1>1 DEF R!RawInv, R!Numbered
  <2>3. \A q \in Peers : flows[q].conn \in Reals \cup {R!None}
    BY FlowUpdates DEF R!RawInv, R!TypeOK
  <2> QED
    BY <1>1, <1>2, <1>3, <2>1, <2>2, <2>3 DEF R!RawInv, R!TableOwns, R!closed
<1> QED
  BY <1>5, <1>6, <1>7, <1>8 DEF R!RawInv

(* accept(2) returns the oldest one: all before it were accepted. *)
LEMMA RawAccept == ASSUME R!RawInv, R!TypeOK', NEW r \in Reals, R!Accept(r) PROVE R!RawInv'
<1>1. /\ real[r].state = "queued" /\ \A s \in Reals : real[s].state = "queued" => r <= s
      /\ accept.pc = "accept" /\ accept' = [pc |-> "pin", r |-> r]
      /\ UNCHANGED <<mode, flows, capture, channel, cleaner, closer>>
  BY DEF R!Accept, R!Queued
<1>2. \A s \in Reals : IF s = r THEN real'[s].peer = real[s].peer /\ real'[s].state = "new" ELSE real'[s] = real[s]
  <2>1. real' = [real EXCEPT ![r] = [real[r] EXCEPT !.state = "new"]] /\ real[r] \in R!RealRecord
    BY DEF R!Accept, R!RawInv, R!TypeOK
  <2>2. [real[r] EXCEPT !.state = "new"].peer = real[r].peer /\ [real[r] EXCEPT !.state = "new"].state = "new"
    BY <2>1, RealUpdates
  <2> QED
    BY <2>1, <2>2 DEF R!RawInv, R!TypeOK
<1>3. Reals \subseteq Nat
  BY RawAssumption
<1>4. R!Numbered'
  BY <1>1, <1>2, <1>3 DEF R!RawInv, R!Numbered, R!Established
<1>5. R!AcceptSound' /\ R!TasksSound'
  <2>1. \A s \in Reals : R!Established(s) => s < r
    BY <1>1 DEF R!RawInv, R!Numbered, R!Established
  <2>2. \A s \in Reals : R!Established(s)' <=> R!Established(s) \/ s = r
    BY <1>1, <1>2 DEF R!Established
  <2>3. R!AcceptSound'
    BY <1>1, <1>3, <2>1, <2>2 DEF R!AcceptSound
  <2> QED
    BY <1>1, <2>2, <2>3, TasksKept
<1>6. R!OnlyEstablished'
  BY <1>1, <1>2, HeardFrom DEF R!Heard, R!Established
<1>7. R!TableOwns'
  <2>1. \A q \in Peers : flows[q].conn \in Reals \cup {R!None}
    BY FlowUpdates DEF R!RawInv, R!TypeOK
  <2>2. accept.r \notin Reals
    BY <1>1, RawAssumption DEF R!RawInv, R!AcceptSound, R!None
  <2> QED
    BY <1>1, <1>2, <2>1, <2>2 DEF R!RawInv, R!TableOwns, R!closed
<1> QED
  BY <1>4, <1>5, <1>6, <1>7 DEF R!RawInv

(* Its TTL is pinned while the accept loop holds it. *)
LEMMA RawPin == ASSUME R!RawInv, R!TypeOK', R!PinTtl PROVE R!RawInv'
<1> DEFINE r == accept.r
<1>1. /\ accept.pc = "pin" /\ accept' = [accept EXCEPT !.pc = "insert"]
      /\ UNCHANGED <<mode, flows, capture, channel, cleaner, closer>>
  BY DEF R!PinTtl
<1>2. r \in Reals /\ R!Established(r) /\ accept'.pc = "insert" /\ accept'.r = r
  BY <1>1 DEF R!RawInv, R!TypeOK, R!AcceptSound
<1>3. \A s \in Reals : IF s = r THEN real'[s].peer = real[s].peer /\ real'[s].state = "pinned" ELSE real'[s] = real[s]
  <2>1. real' = [real EXCEPT ![r] = [real[r] EXCEPT !.state = "pinned"]] /\ real[r] \in R!RealRecord
    BY <1>2 DEF R!PinTtl, R!RawInv, R!TypeOK
  <2>2. [real[r] EXCEPT !.state = "pinned"].peer = real[r].peer /\ [real[r] EXCEPT !.state = "pinned"].state = "pinned"
    BY <2>1, RealUpdates
  <2> QED
    BY <1>2, <2>1, <2>2 DEF R!RawInv, R!TypeOK
<1> HIDE DEF r
<1>4. R!Numbered'
  BY <1>2, <1>3 DEF R!RawInv, R!Numbered, R!Established
<1>5. R!AcceptSound' /\ R!TasksSound'
  <2>1. \A s \in Reals : R!Established(s)' <=> R!Established(s)
    BY <1>2, <1>3 DEF R!Established
  <2>2. R!AcceptSound'
    BY <1>1, <1>2, <1>3, <2>1 DEF R!RawInv, R!AcceptSound, r
  <2> QED
    BY <1>1, <2>1, <2>2, TasksKept
<1>6. R!OnlyEstablished'
  BY <1>1, <1>2, <1>3, HeardFrom DEF R!Heard, R!Established
<1>7. R!TableOwns'
  <2>1. \A q \in Peers : flows[q].conn \in Reals \cup {R!None}
    BY FlowUpdates DEF R!RawInv, R!TypeOK
  <2> QED
    BY <1>1, <1>2, <1>3, <2>1 DEF R!RawInv, R!TableOwns, R!closed, r
<1> QED
  BY <1>4, <1>5, <1>6, <1>7 DEF R!RawInv

(* It is entered in the table; what it replaces has a lower number. *)
LEMMA RawInsert == ASSUME R!RawInv, R!TypeOK', R!Insert PROVE R!RawInv'
<1> DEFINE r == accept.r
           p == real[r].peer
<1>1. /\ accept.pc = "insert" /\ accept' = [pc |-> "accept", r |-> R!None]
      /\ UNCHANGED <<mode, real, capture, channel, cleaner, closer>>
  BY DEF R!Insert
<1>2. /\ r \in Reals /\ real[r].state \in {"pinned", "closed"}
      /\ \A s \in Reals : R!Established(s) => s <= r
  BY <1>1 DEF R!RawInv, R!AcceptSound
<1>3. p \in Peers
  BY <1>2, RealUpdates, ZenonT(60) DEF R!RawInv, R!TypeOK, R!Numbered
<1>4. \A q \in Peers : flows'[q].conn = IF q = p THEN r ELSE flows[q].conn
  <2>1. R!Flow(p) \in R!FlowRecord
    BY <1>3, FlowRecords DEF R!Flow, R!RawInv, R!TypeOK
  <2>2. flows' = [flows EXCEPT ![p] = [R!Flow(p) EXCEPT !.conn = r]]
    BY DEF R!Insert
  <2>3. [R!Flow(p) EXCEPT !.conn = r].conn = r
    BY <1>2, <2>1, FlowUpdates
  <2> QED
    BY <1>3, <2>2, <2>3 DEF R!RawInv, R!TypeOK
<1>5. R!Numbered' /\ R!AcceptSound' /\ R!TasksSound'
  BY <1>1, TasksKept DEF R!RawInv, R!Numbered, R!AcceptSound, R!Established
<1>6. R!OnlyEstablished'
  BY <1>1, HeardFrom DEF R!Heard, R!Established
<1>7. R!TableOwns'
  <2>1. ASSUME NEW s \in Reals, real'[s].state = "pinned", ~R!closed'
        PROVE  \/ accept'.r = s \/ s \in cleaner'.closing
               \/ flows'[real'[s].peer].conn = s
               \/ \E u \in Reals : u > s /\ real'[u].peer = real'[s].peer
    <3>1. real[s].state = "pinned" /\ ~R!closed /\ real[s].peer \in Peers /\ s <= r
      BY <1>1, <1>2, <2>1, RealUpdates, ZenonT(60) DEF R!RawInv, R!TypeOK, R!Numbered, R!Established, R!closed
    <3>2. CASE s = r
      BY <1>1, <1>3, <1>4, <3>2
    <3>3. CASE s # r /\ real[s].peer = p
      <4>1. s \in Nat /\ r \in Nat
        BY <1>2, RawAssumption
      <4>2. r > s /\ real[r].peer = real[s].peer
        BY <3>1, <3>3, <4>1
      <4> QED
        BY <1>1, <1>2, <4>2
    <3>4. CASE s # r /\ real[s].peer # p
      BY <1>1, <1>4, <3>1, <3>4 DEF R!RawInv, R!TableOwns
    <3> QED
      BY <3>2, <3>3, <3>4
  <2>2. \A q \in Peers : flows'[q].conn # R!None =>
            real'[flows'[q].conn].peer = q /\ real'[flows'[q].conn].state \in {"pinned", "closed"}
    BY <1>1, <1>2, <1>4 DEF R!RawInv, R!TableOwns
  <2> QED
    BY <2>1, <2>2 DEF R!TableOwns
<1> QED
  BY <1>5, <1>6, <1>7 DEF R!RawInv

(* What the sweep takes out is in the hands of the cleaner. *)
LEMMA RawSweep == ASSUME R!RawInv, R!TypeOK', R!Sweep PROVE R!RawInv'
<1> DEFINE gone == {p \in Peers : R!Expired(p)}
<1>1. /\ cleaner.pc = "due" /\ cleaner' = [pc |-> "close", closing |-> {flows[p].conn : p \in gone} \ {R!None}]
      /\ UNCHANGED <<mode, real, capture, channel, accept, closer>>
  BY DEF R!Sweep
<1>2. \A p \in Peers : flows'[p].conn = IF p \in gone THEN R!None ELSE flows[p].conn
  BY FlowRecords DEF R!Sweep
<1> HIDE DEF gone
<1>3. R!Numbered' /\ R!AcceptSound'
  BY <1>1 DEF R!RawInv, R!Numbered, R!AcceptSound, R!Established
<1>6. R!TasksSound'
  <2>1. gone \subseteq Peers
    BY DEF gone
  <2>2. \A r \in cleaner'.closing : R!Established(r)
    BY <1>1, <2>1 DEF R!RawInv, R!TableOwns, R!Established
  <2> QED
    BY <1>1, <2>2 DEF R!RawInv, R!TasksSound, R!Established
<1>4. R!OnlyEstablished'
  BY <1>1, HeardFrom DEF R!Heard, R!Established
<1>5. R!TableOwns'
  <2>1. ASSUME NEW s \in Reals, real'[s].state = "pinned", ~R!closed'
        PROVE  \/ accept'.r = s \/ s \in cleaner'.closing
               \/ flows'[real'[s].peer].conn = s
               \/ \E u \in Reals : u > s /\ real'[u].peer = real'[s].peer
    <3>1. real[s].state = "pinned" /\ ~R!closed /\ real[s].peer \in Peers /\ cleaner.closing = {}
      BY <1>1, <2>1, RealUpdates DEF R!RawInv, R!TypeOK, R!Numbered, R!TasksSound, R!closed
    <3>2. s # R!None
      BY RawAssumption DEF R!None
    <3>3. \/ accept.r = s \/ flows[real[s].peer].conn = s
          \/ \E u \in Reals : u > s /\ real[u].peer = real[s].peer
      BY <3>1 DEF R!RawInv, R!TableOwns
    <3>4. CASE flows[real[s].peer].conn = s /\ real[s].peer \in gone
      BY <1>1, <3>2, <3>4
    <3> QED
      BY <1>1, <1>2, <3>1, <3>3, <3>4
  <2>2. \A q \in Peers : flows'[q].conn # R!None =>
            real'[flows'[q].conn].peer = q /\ real'[flows'[q].conn].state \in {"pinned", "closed"}
    BY <1>1, <1>2 DEF R!RawInv, R!TableOwns
  <2> QED
    BY <2>1, <2>2 DEF R!TableOwns
<1> QED
  BY <1>3, <1>4, <1>5, <1>6 DEF R!RawInv

(* Real connections that are in the table or on their way to be closed are *)
(* closed.                                                                 *)
LEMMA RawCloses ==
    ASSUME R!RawInv, R!TypeOK', NEW C \in SUBSET Reals,
           real' = [r \in Reals |-> IF r \in C THEN [real[r] EXCEPT !.state = "closed"] ELSE real[r]],
           UNCHANGED <<mode, flows, capture, channel, accept>>, R!closed => R!closed',
           cleaner' \in {cleaner, [pc |-> "wait", closing |-> {}]},
           closer'.closing \subseteq closer.closing,
           cleaner.closing \subseteq cleaner'.closing \cup C,
           \A r \in C : R!Established(r)
    PROVE  R!RawInv'
<1>1. \A r \in Reals : IF r \in C THEN real'[r].peer = real[r].peer /\ real'[r].state = "closed" ELSE real'[r] = real[r]
  BY RealUpdates, ZenonT(60) DEF R!RawInv, R!TypeOK
<1>2. R!Numbered'
  BY <1>1 DEF R!RawInv, R!Numbered, R!Established
<1>3. R!AcceptSound' /\ R!TasksSound'
  <2>1. R!AcceptSound'
    BY <1>1 DEF R!RawInv, R!AcceptSound, R!Established
  <2>2. \A r \in Reals : R!Established(r) => R!Established(r)'
    BY <1>1 DEF R!Established
  <2>3. cleaner.closing \subseteq Reals /\ closer.closing \subseteq Reals /\ cleaner'.closing \subseteq cleaner.closing
    BY DEF R!RawInv, R!TypeOK
  <2>4. cleaner'.pc # "close" => cleaner'.closing = {}
    BY DEF R!RawInv, R!TasksSound
  <2> QED
    BY <2>1, <2>2, <2>3, <2>4, RawAssumption DEF R!RawInv, R!TasksSound
<1>4. R!OnlyEstablished'
  BY <1>1, HeardFrom DEF R!Heard, R!Established
<1>5. R!TableOwns'
  <2>1. \A q \in Peers : flows[q].conn \in Reals \cup {R!None}
    BY FlowUpdates DEF R!RawInv, R!TypeOK
  <2> QED
    BY <1>1, <2>1 DEF R!RawInv, R!TableOwns
<1> QED
  BY <1>2, <1>3, <1>4, <1>5 DEF R!RawInv

(* begin_close() empties the table of a connection that is closed. *)
LEMMA RawDrain == ASSUME R!RawInv, R!TypeOK', R!Drain PROVE R!RawInv'
<1>1. R!closed' /\ UNCHANGED <<mode, real, capture, channel, accept, cleaner>>
  BY DEF R!Drain, R!closed
<1>2. \A p \in Peers : flows'[p].conn \in {flows[p].conn, R!None} /\ flows[p].conn \in Reals \cup {R!None}
  <2>1. \A p \in Peers : flows'[p].conn \in {flows[p].conn, R!None}
    BY FlowRecords DEF R!Drain
  <2>2. \A p \in Peers : flows[p].conn \in Reals \cup {R!None}
    BY FlowUpdates DEF R!RawInv, R!TypeOK
  <2> QED
    BY <2>1, <2>2
<1>3. R!Numbered' /\ R!AcceptSound'
  BY <1>1 DEF R!RawInv, R!Numbered, R!AcceptSound, R!Established
<1>4. R!TasksSound'
  <2>1. \A r \in closer'.closing : (r = 1 /\ mode = "dial") \/ (\E p \in Peers : r = flows[p].conn /\ r # R!None)
    BY DEF R!Drain
  <2>2. \A r \in closer'.closing : R!Established(r)
    BY <2>1 DEF R!RawInv, R!TasksSound, R!TableOwns, R!Established
  <2> QED
    BY <1>1, <2>2 DEF R!RawInv, R!TasksSound, R!Established
<1>5. R!OnlyEstablished'
  BY <1>1, HeardFrom DEF R!Heard, R!Established
<1>6. R!TableOwns'
  BY <1>1, <1>2 DEF R!RawInv, R!TableOwns
<1> QED
  BY <1>3, <1>4, <1>5, <1>6 DEF R!RawInv

(* The capture tasks. *)
LEMMA RawCapture ==
    ASSUME R!RawInv, R!TypeOK', NEW h \in Handles, NEW p \in Peers, NEW seq \in 0..SeqMod - 1, NEW len \in 0..1,
           NEW psh \in BOOLEAN, R!Capture(h, p, seq, len, psh)
    PROVE  R!RawInv'
<1> DEFINE upd == R!CaptureUpdate(R!Flow(p), h, seq, len)
<1>1. R!Flow(p) \in R!FlowRecord /\ R!Flow(p).conn = flows[p].conn
  BY FlowRecords DEF R!Flow, R!Present, R!RawInv, R!TypeOK
<1>2. upd.flow.conn = flows[p].conn /\ (upd.orphan <=> flows[p].conn = R!None)
  BY <1>1, CaptureUpdates
<1>3. /\ flows' = [flows EXCEPT ![p] = upd.flow]
      /\ capture' = IF ~upd.orphan /\ psh THEN [capture EXCEPT ![h] = [pc |-> "push", from |-> p]] ELSE capture
      /\ UNCHANGED <<mode, real, channel, accept, cleaner, closer>>
  BY DEF R!Capture
<1> HIDE DEF upd
<1>4. \A q \in Peers : flows'[q].conn = flows[q].conn
  BY <1>2, <1>3 DEF R!RawInv, R!TypeOK
<1>5. \A g \in Handles : capture'[g] = capture[g] \/ (capture'[g].from = p /\ flows[p].conn # R!None)
  BY <1>2, <1>3 DEF R!RawInv, R!TypeOK
<1>6. R!Heard' \subseteq R!Heard \cup {q \in Peers : flows[q].conn # R!None}
  BY <1>3, <1>5 DEF R!Heard
<1>7. R!AcceptSound' /\ R!TasksSound'
  <2>1. p # R!Nobody
    BY RawAssumption DEF R!Nobody
  <2> QED
    BY <1>3, <1>5, <2>1 DEF R!RawInv, R!AcceptSound, R!TasksSound, R!Established
<1> QED
  BY <1>3, <1>4, <1>6, <1>7, RawKeeps DEF R!closed

(* A message enters the channel. *)
LEMMA RawPush == ASSUME R!RawInv, R!TypeOK', NEW h \in Handles, R!Push(h) PROVE R!RawInv'
<1>1. /\ channel' = Append(channel, capture[h].from) /\ capture[h].pc = "push"
      /\ capture' = [capture EXCEPT ![h] = [pc |-> "read", from |-> R!Nobody]]
      /\ UNCHANGED <<mode, flows, real, accept, cleaner, closer>>
  BY DEF R!Push
<1>2. \A g \in Handles : capture'[g] = IF g = h THEN [pc |-> "read", from |-> R!Nobody] ELSE capture[g]
  BY <1>1 DEF R!RawInv, R!TypeOK
<1>3. R!Heard' \subseteq R!Heard
  <2>1. capture[h].from # R!Nobody
    BY <1>1 DEF R!RawInv, R!TasksSound
  <2>2. channel \in Seq(Peers) /\ capture[h].from \in Peers
    BY <2>1 DEF R!RawInv, R!TypeOK
  <2>3. \A i \in 1..Len(channel') : channel'[i] = capture[h].from \/ (i \in 1..Len(channel) /\ channel'[i] = channel[i])
    BY <1>1, <2>2, AppendElements
  <2> QED
    BY <1>2, <2>1, <2>3 DEF R!Heard
<1>4. R!AcceptSound' /\ R!TasksSound'
  BY <1>1, <1>2 DEF R!RawInv, R!AcceptSound, R!TasksSound, R!Established
<1> QED
  BY <1>1, <1>3, <1>4, RawKeeps DEF R!closed

(* A capture task ends with the message it held. *)
LEMMA RawCaptureEnds == ASSUME R!RawInv, R!TypeOK', NEW h \in Handles, R!CaptureEnds(h) PROVE R!RawInv'
<1>1. /\ capture' = [capture EXCEPT ![h] = [pc |-> "end", from |-> R!Nobody]]
      /\ UNCHANGED <<mode, flows, real, channel, accept, cleaner, closer>>
  BY DEF R!CaptureEnds
<1>2. \A g \in Handles : capture'[g] = IF g = h THEN [pc |-> "end", from |-> R!Nobody] ELSE capture[g]
  BY <1>1 DEF R!RawInv, R!TypeOK
<1>3. R!Heard' \subseteq R!Heard
  BY <1>1, <1>2 DEF R!Heard
<1>4. R!AcceptSound' /\ R!TasksSound'
  BY <1>1, <1>2 DEF R!RawInv, R!AcceptSound, R!TasksSound, R!Established
<1> QED
  BY <1>1, <1>3, <1>4, RawKeeps DEF R!closed

(* recv_from() takes the oldest message. *)
LEMMA RawRecv == ASSUME R!RawInv, R!TypeOK', R!RecvFrom PROVE R!RawInv'
<1>1. channel \in Seq(Peers) /\ channel # <<>> /\ channel' = Tail(channel)
  BY DEF R!RawInv, R!TypeOK, R!RecvFrom
<1>2. \A i \in 1..Len(channel') : i + 1 \in 1..Len(channel) /\ channel'[i] = channel[i + 1]
  BY <1>1
<1>3. R!Heard' \subseteq R!Heard
  BY <1>2 DEF R!RecvFrom, R!Heard
<1> QED
  BY <1>3, RawKeeps DEF R!RecvFrom, R!RawInv, R!AcceptSound, R!TasksSound, R!Established, R!closed

(* Every step of RawConn keeps RawInv. *)
LEMMA RawNext == ASSUME R!RawInv, R!Next PROVE R!RawInv'
<1>0. R!TypeOK'
  BY RawTyped
<1>1. ASSUME NEW p \in Connecting, R!Connect(p) PROVE R!RawInv'
  BY <1>0, <1>1, RawConnect
<1>2. ASSUME NEW p \in Peers, R!SendTo(p) PROVE R!RawInv'
  <2>1. \A q \in Peers : flows'[q].conn = flows[q].conn
    BY <1>2, FlowRecords DEF R!SendTo, R!Present, R!RawInv, R!TypeOK
  <2>2. UNCHANGED <<mode, real, capture, channel, accept, cleaner, closer>>
    BY <1>2 DEF R!SendTo
  <2>3. R!AcceptSound' /\ R!TasksSound'
    BY <2>2 DEF R!RawInv, R!AcceptSound, R!TasksSound, R!Established
  <2> QED
    BY <1>0, <2>1, <2>2, <2>3, RawKeeps DEF R!Heard, R!closed
<1>3. ASSUME NEW h \in Handles, NEW p \in Peers, NEW seq \in 0..SeqMod - 1, NEW len \in 0..1, NEW psh \in BOOLEAN,
             R!Capture(h, p, seq, len, psh)
      PROVE  R!RawInv'
  BY <1>0, <1>3, RawCapture
<1>4. ASSUME NEW h \in Handles, R!Push(h) \/ R!CaptureEnds(h) PROVE R!RawInv'
  BY <1>0, <1>4, RawPush, RawCaptureEnds
<1>5. ASSUME NEW r \in Reals, R!Accept(r) PROVE R!RawInv'
  BY <1>0, <1>5, RawAccept
<1>6. CASE R!Tick
  <2>1. \A p \in Peers : flows'[p].conn = flows[p].conn
    BY <1>6, FlowUpdates DEF R!Tick, R!RawInv, R!TypeOK
  <2>2. UNCHANGED <<mode, real, capture, channel, accept, closer>>
    BY <1>6 DEF R!Tick
  <2>3. cleaner.pc = "wait" /\ cleaner'.pc = "due" /\ cleaner'.closing = cleaner.closing
    BY <1>6 DEF R!Tick, R!RawInv, R!TypeOK
  <2>4. R!AcceptSound' /\ R!TasksSound'
    BY <2>2, <2>3 DEF R!RawInv, R!AcceptSound, R!TasksSound, R!Established
  <2> QED
    BY <1>0, <2>1, <2>2, <2>3, <2>4, RawKeeps DEF R!Heard, R!closed
<1>7. CASE R!RecvFrom \/ R!PinTtl \/ R!Insert \/ R!Sweep \/ R!Drain
  BY <1>0, <1>7, RawRecv, RawPin, RawInsert, RawSweep, RawDrain
<1>8. CASE R!AcceptEnds
  <2>1. accept'.pc = "end" /\ accept'.r = R!None /\ accept.r = R!None
    BY <1>8 DEF R!AcceptEnds, R!RawInv, R!AcceptSound
  <2>2. UNCHANGED <<mode, flows, real, capture, channel, cleaner, closer>>
    BY <1>8 DEF R!AcceptEnds
  <2>3. R!AcceptSound' /\ R!TasksSound'
    BY <2>1, <2>2 DEF R!RawInv, R!AcceptSound, R!TasksSound, R!Established
  <2> QED
    BY <1>0, <2>1, <2>2, <2>3, RawKeeps DEF R!Heard, R!closed
<1>9. CASE R!CloseSwept
  <2>1. cleaner.closing \in SUBSET Reals /\ \A r \in cleaner.closing : R!Established(r)
    BY DEF R!RawInv, R!TypeOK, R!TasksSound
  <2> QED
    BY <1>0, <1>9, <2>1, RawCloses DEF R!CloseSwept, R!closed
<1>10. CASE R!CloseReals
  <2>1. closer.closing \in SUBSET Reals /\ \A r \in closer.closing : R!Established(r)
    BY DEF R!RawInv, R!TypeOK, R!TasksSound
  <2> QED
    BY <1>0, <1>10, <2>1, RawCloses DEF R!CloseReals, R!closed
<1>11. CASE R!CleanerEnds
  <2>1. cleaner.pc # "close" /\ cleaner'.pc = "end" /\ cleaner'.closing = cleaner.closing
    BY <1>11 DEF R!CleanerEnds, R!RawInv, R!TypeOK
  <2>2. UNCHANGED <<mode, flows, real, capture, channel, accept, closer>>
    BY <1>11 DEF R!CleanerEnds
  <2>3. R!AcceptSound' /\ R!TasksSound'
    BY <2>1, <2>2 DEF R!RawInv, R!AcceptSound, R!TasksSound, R!Established
  <2> QED
    BY <1>0, <2>1, <2>2, <2>3, RawKeeps DEF R!Heard, R!closed
<1>12. CASE R!BeginClose
  <2>1. R!closed' /\ closer'.closing = closer.closing
    BY <1>12 DEF R!BeginClose, R!closed, R!RawInv, R!TypeOK
  <2>2. UNCHANGED <<mode, flows, real, capture, channel, accept, cleaner>>
    BY <1>12 DEF R!BeginClose
  <2>3. R!AcceptSound' /\ R!TasksSound'
    BY <2>1, <2>2 DEF R!RawInv, R!AcceptSound, R!TasksSound, R!Established
  <2> QED
    BY <1>0, <2>1, <2>2, <2>3, RawKeeps DEF R!Heard
<1> QED
  BY <1>1, <1>2, <1>3, <1>4, <1>5, <1>6, <1>7, <1>8, <1>9, <1>10, <1>11, <1>12 DEF R!Next

(* The invariant of the part. *)
RawPart == part = "raw" => R!RawInv

(* FlowsSound of the "raw" part: nothing is delivered from an address that *)
(* never completed a real TCP connection, and a real connection whose      *)
(* segments are kept on the host is where a sweep or a close will find it  *)
(* (capture_update, accept_loop, sweep).  Not of a connection that a later *)
(* one of its peer replaced, or that came while the listener was being     *)
(* closed: its TTL is not given back.  And the table may hold any address: *)
(* the orphans that write_to() and a captured segment make.  For any       *)
(* number of peers, connections and raw sockets.                           *)
THEOREM FlowsStaySound == Spec => []FlowsSound
<1>1. Init => RawPart
  BY RawInit DEF Init, RawPart
<1>2. RawPart /\ [Next]_vars => RawPart'
  <2> SUFFICES ASSUME RawPart, [Next]_vars, part' = "raw" PROVE R!RawInv'
    BY DEF RawPart
  <2>1. part = "raw" /\ R!RawInv
    BY DEF RawPart, Next, vars
  <2>2. CASE R!Next
    BY <2>1, <2>2, RawNext
  <2>3. CASE UNCHANGED vars
    <3>1. UNCHANGED <<mode, flows, real, capture, channel, accept, cleaner, closer>>
      BY <2>3 DEF vars, rawVars
    <3> QED
      BY <2>1, <3>1 DEF R!RawInv, R!TypeOK, R!Numbered, R!AcceptSound, R!TasksSound, R!OnlyEstablished,
         R!TableOwns, R!Established, R!Heard, R!closed
  <2> QED
    BY <2>1, <2>2, <2>3 DEF Next
<1>3. RawPart => FlowsSound
  BY DEF RawPart, FlowsSound, R!RawInv
<1> QED
  BY <1>1, <1>2, <1>3, PTL DEF Spec
=============================================================================
