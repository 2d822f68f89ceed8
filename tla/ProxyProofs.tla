----------------------------- MODULE ProxyProofs -----------------------------
(***************************************************************************)
(* Proofs about a proxied connection (module MCProxy), for every value of  *)
(* the constants.  The first two rest on PipeInv of Pipe, the third on     *)
(* WindowInv of SmuxWindow, the last on PipeInv, QppInv of Qpp and CompInv *)
(* below; the steps of the other parts leave a part alone.                 *)
(*   EndsComplete - Spec => []CleanEndComplete;                            *)
(*   EndsPatient  - Spec => []Patience;                                    *)
(*   WindowStays  - Spec => []WindowKept;                                  *)
(*   BytesKept    - Spec => []BytesIntact.                                 *)
(***************************************************************************)
EXTENDS MCProxy, Facts

-----------------------------------------------------------------------------
(* Pipe.                                                                   *)

(* The lesser and the greater of two numbers. *)
LEMMA OfTwo ==
    ASSUME NEW a \in Int, NEW b \in Int
    PROVE  /\ P!Min({a, b}) = IF a <= b THEN a ELSE b
           /\ P!Max({a, b}) = IF a >= b THEN a ELSE b
<1>1. (\E x \in {a, b} : \A y \in {a, b} : x <= y) /\ (\E x \in {a, b} : \A y \in {a, b} : x >= y)
  OBVIOUS
<1>2. P!Min({a, b}) \in {a, b} /\ \A y \in {a, b} : P!Min({a, b}) <= y
  BY <1>1 DEF P!Min
<1>3. P!Max({a, b}) \in {a, b} /\ \A y \in {a, b} : P!Max({a, b}) >= y
  BY <1>1 DEF P!Max
<1> QED
  BY <1>2, <1>3

(* The least of three. *)
LEMMA OfThree ==
    ASSUME NEW a \in Int, NEW b \in Int, NEW c \in Int
    PROVE  P!Min({a, b, c}) <= a /\ P!Min({a, b, c}) <= b /\ P!Min({a, b, c}) <= c
           /\ P!Min({a, b, c}) \in {a, b, c}
<1>1. \E x \in {a, b, c} : \A y \in {a, b, c} : x <= y
  OBVIOUS
<1>2. P!Min({a, b, c}) \in {a, b, c} /\ \A y \in {a, b, c} : P!Min({a, b, c}) <= y
  BY <1>1 DEF P!Min
<1> QED
  BY <1>2

(* The stall limit, and where the ages stop. *)
LEMMA Limits ==
    /\ P!stall_limit \in Nat /\ P!AgeMax = P!stall_limit
    /\ P!stall_limit >= socket_stall /\ P!stall_limit >= close_wait
    /\ P!TookMax = P!stall_limit - watch /\ P!TookMax \in Nat /\ watch \in Nat /\ watch > 0
    /\ P!Unset = -1 /\ P!Ages = 0..P!stall_limit
<1>1. P!stall_limit = IF socket_stall >= close_wait THEN socket_stall ELSE close_wait
  <2>1. socket_stall \in Int /\ close_wait \in Int
    BY PipeAssumption
  <2>2. P!Max({socket_stall, close_wait}) = IF socket_stall >= close_wait THEN socket_stall ELSE close_wait
    BY <2>1, OfTwo
  <2> QED
    BY <2>2 DEF P!stall_limit
<1> QED
  BY <1>1, PipeAssumption DEF P!AgeMax, P!TookMax, P!Unset, P!Ages

(* An age goes up by one until it stops; what is left of a timer goes down *)
(* by one until it is none.                                                *)
LEMMA Ageing ==
    ASSUME NEW age \in Nat \cup {-1}, NEW max \in Nat
    PROVE  /\ P!Older(age, max) = IF age = -1 THEN -1 ELSE IF age + 1 <= max THEN age + 1 ELSE max
           /\ P!Less(age) = IF age = -1 THEN -1 ELSE IF age - 1 >= 0 THEN age - 1 ELSE 0
<1>1. age + 1 \in Int /\ age - 1 \in Int /\ max \in Int
  OBVIOUS
<1>2. P!Min({age + 1, max}) = IF age + 1 <= max THEN age + 1 ELSE max
  BY <1>1, OfTwo
<1>3. P!Max({age - 1, 0}) = IF age - 1 >= 0 THEN age - 1 ELSE 0
  BY <1>1, OfTwo
<1> QED
  BY <1>2, <1>3 DEF P!Older, P!Less, P!Unset

(* A pipe that just started. *)
LEMMA PipeInit == P!Init => P!PipeInv
<1> SUFFICES ASSUME P!Init PROVE P!PipeInv
  OBVIOUS
<1>1. P!TypeOK
  <2>1. copy \in [P!Dirs -> P!Transfer]
    BY PipeAssumption DEF P!Init, P!Transfer
  <2>2. 0 \in P!Ages /\ P!AgeMax \in P!Ages /\ P!TookMax \in 0..P!TookMax /\ P!Unset = -1
    BY Limits
  <2>3. task \in P!Dirs
    BY PipeAssumption DEF P!Init, P!Dirs
  <2>4. {watching, aborted, fresh} \subseteq BOOLEAN
    BY Zenon DEF P!Init
  <2>5. inq \in [P!Ends -> 0..Cap] /\ outq \in [P!Ends -> 0..OutCap] /\ far \in [P!Ends -> {"open", "fin", "lost"}]
    BY PipeAssumption DEF P!Init
  <2>6. write_fut \in 0..Cap /\ grace \in 0..close_wait /\ {moved, drained} \subseteq P!Ages /\ took \in 0..P!TookMax
    BY <2>2, PipeAssumption DEF P!Init, P!NoFut
  <2> QED
    BY <2>1, <2>2, <2>3, <2>4, <2>5, <2>6 DEF P!Init, P!TypeOK
<1>2. P!Accounted
  BY PipeAssumption DEF P!Init, P!Accounted, P!NoneTwice, P!Received, P!Left, P!Ends, P!Dirs, P!NoFut
<1>3. P!GraceRuns
  BY Limits, PipeAssumption DEF P!Init, P!GraceRuns, P!OneDone, P!Dirs
<1>4. P!EndReasoned /\ P!ProbesKeepUp /\ P!TakesShow /\ P!CleanEndComplete /\ P!StallPatience /\ P!GraceGiven
  BY PipeAssumption DEF P!Init, P!EndReasoned, P!ProbesKeepUp, P!TakesShow, P!CleanEndComplete, P!StallPatience,
     P!GraceGiven
<1> QED
  BY <1>1, <1>2, <1>3, <1>4 DEF P!PipeInv

-----------------------------------------------------------------------------
(* What a step leaves alone.                                               *)

(* The ends of a pipe that goes on. *)
LEMMA GoesOn ==
    ASSUME P!PipeInv, task \notin {"close", "ended"}, why' = why, task' # "ended"
    PROVE  P!EndReasoned' /\ P!CleanEndComplete' /\ P!StallPatience' /\ P!GraceGiven'
<1>1. why = "none"
  BY DEF P!PipeInv, P!EndReasoned
<1> QED
  BY <1>1 DEF P!EndReasoned, P!CleanEndComplete, P!StallPatience, P!GraceGiven

(* The clocks, when no timer is touched and the socket's queue is as before. *)
LEMMA ClocksKept ==
    ASSUME P!PipeInv, UNCHANGED <<life, grace, tick, watching, unsent, drained, signalled, moved, took, fresh, over>>,
           outq'["sock"] = outq["sock"],
           \A d \in P!Dirs : copy'[d].phase = "done" => copy[d].phase = "done"
    PROVE  P!GraceRuns' /\ P!ProbesKeepUp' /\ P!TakesShow'
<1>1. P!GraceRuns'
  BY DEF P!PipeInv, P!GraceRuns, P!OneDone
<1>2. P!ProbesKeepUp'
  BY DEF P!PipeInv, P!ProbesKeepUp
<1>3. P!TakesShow'
  BY DEF P!PipeInv, P!TakesShow
<1> QED
  BY <1>1, <1>2, <1>3

(* The accounts, when nothing is read or written. *)
LEMMA AccountsKept ==
    ASSUME P!PipeInv, UNCHANGED <<inq, write_fut>>,
           far'["sock"] # "lost" => far["sock"] # "lost",
           \A d \in P!Dirs : /\ copy'[d].phase = "copying" <=> copy[d].phase = "copying"
                             /\ copy'[d].hold = copy[d].hold
                             /\ copy'[d].got = copy[d].got /\ copy'[d].put = copy[d].put
    PROVE  P!Accounted'
BY DEF P!PipeInv, P!Accounted, P!NoneTwice, P!Received, P!Left, P!Dirs, P!Ends

(* A record of one direction, updated. *)
LEMMA CopyUpdates ==
    ASSUME P!TypeOK, NEW d \in P!Dirs, NEW r \in P!Transfer
    PROVE  /\ [copy EXCEPT ![d] = r] \in [P!Dirs -> P!Transfer]
           /\ [copy EXCEPT ![d] = r][d] = r
           /\ \A x \in P!Dirs : x # d => [copy EXCEPT ![d] = r][x] = copy[x]
BY DEF P!TypeOK

-----------------------------------------------------------------------------
(* The far sides and time.                                                 *)

(* Anything a far side does. *)
LEMMA PipeFar ==
    ASSUME P!PipeInv, NEW e \in P!Ends, P!FarSend(e) \/ P!FarTake(e) \/ P!FarFin(e) \/ P!FarLost(e)
    PROVE  P!PipeInv'
<1>0. P!TypeOK /\ task \notin {"close", "ended"} /\ why' = why /\ task' = task /\ copy' = copy /\ write_fut' = write_fut
      /\ UNCHANGED <<life, grace, tick, watching, unsent, drained, signalled, moved, fresh, over, armed, aborted>>
  BY DEF P!PipeInv, P!FarSend, P!FarTake, P!FarFin, P!FarLost, P!Alive, P!lifeVars, P!endVars, P!ghosts
<1>1. P!EndReasoned' /\ P!CleanEndComplete' /\ P!StallPatience' /\ P!GraceGiven'
  BY <1>0, GoesOn
<1>2. CASE P!FarSend(e)
  <2>1. P!TypeOK'
    BY <1>0, <1>2, PipeAssumption DEF P!TypeOK, P!FarSend, P!Transfer
  <2>2. P!Accounted'
    BY <1>0, <1>2, PipeAssumption DEF P!PipeInv, P!TypeOK, P!FarSend, P!Accounted, P!NoneTwice, P!Received, P!Left,
       P!Ends, P!Dirs, P!Transfer
  <2>3. P!GraceRuns' /\ P!ProbesKeepUp' /\ P!TakesShow'
    BY <1>0, <1>2, ClocksKept DEF P!FarSend
  <2> QED
    BY <1>1, <2>1, <2>2, <2>3 DEF P!PipeInv
<1>3. CASE P!FarTake(e)
  <2>1. /\ far' = far /\ inq' = inq /\ outq' = [outq EXCEPT ![e] = @ - 1] /\ outq[e] > 0
        /\ took' = IF e = "sock" /\ fresh THEN 0 ELSE took
    BY <1>3 DEF P!FarTake
  <2>2. P!TypeOK'
    BY <1>0, <2>1, Limits, PipeAssumption DEF P!TypeOK, P!Ages
  <2>3. P!Accounted'
    BY <1>0, <2>1, AccountsKept
  <2>4. P!GraceRuns'
    BY <1>0 DEF P!PipeInv, P!GraceRuns, P!OneDone
  <2>5. outq'["sock"] = (IF e = "sock" THEN outq["sock"] - 1 ELSE outq["sock"]) /\ outq["sock"] \in Nat
    BY <1>0, <2>1, PipeAssumption DEF P!TypeOK, P!Ends
  <2>6. unsent \in Nat \cup {-1} /\ tick \in Nat \cup {-1} /\ moved \in Nat /\ drained \in Nat /\ signalled \in Nat \cup {-1}
        /\ took \in Nat
    BY <1>0, Limits, PipeAssumption DEF P!TypeOK, P!Ages
  <2>7. P!ProbesKeepUp'
    BY <1>0, <2>5, <2>6, Limits DEF P!PipeInv, P!ProbesKeepUp
  <2>8. P!TakesShow'
    <3>1. CASE took' = took
      BY <1>0, <2>5, <2>6, <3>1, Limits DEF P!PipeInv, P!TakesShow
    <3>2. CASE took' # took
      BY <1>0, <2>1, <2>5, <2>6, <3>2, Limits DEF P!PipeInv, P!TakesShow, P!ProbesKeepUp
    <3> QED
      BY <3>1, <3>2
  <2> QED
    BY <1>1, <2>2, <2>3, <2>4, <2>7, <2>8 DEF P!PipeInv
<1>4. CASE P!FarFin(e) \/ P!FarLost(e)
  <2>1. UNCHANGED <<inq, outq, took>>
    BY <1>4 DEF P!FarFin, P!FarLost
  <2>2. P!TypeOK'
    BY <1>0, <1>4 DEF P!TypeOK, P!FarFin, P!FarLost
  <2>3. far'["sock"] # "lost" => far["sock"] # "lost"
    BY <1>0, <1>4 DEF P!TypeOK, P!FarFin, P!FarLost, P!Ends
  <2>4. P!Accounted'
    BY <1>0, <2>1, <2>3, AccountsKept
  <2>5. P!GraceRuns' /\ P!ProbesKeepUp' /\ P!TakesShow'
    BY <1>0, <2>1, ClocksKept
  <2> QED
    BY <1>1, <2>2, <2>4, <2>5 DEF P!PipeInv
<1> QED
  BY <1>2, <1>3, <1>4

(* Time passes. *)
LEMMA PipeTick == ASSUME P!PipeInv, P!Tick PROVE P!PipeInv'
<1>0. P!TypeOK /\ task = "asleep"
      /\ UNCHANGED <<far, inq, outq, copy, write_fut, life, watching, unsent, task, armed, why, aborted>>
      /\ over' = P!Older(over, close_wait) /\ grace' = P!Less(grace) /\ tick' = P!Less(tick)
      /\ fresh' = (fresh /\ (signalled = P!Unset \/ tick # 0))
  BY DEF P!PipeInv, P!Tick, P!endVars
<1>1. P!EndReasoned' /\ P!CleanEndComplete' /\ P!StallPatience' /\ P!GraceGiven'
  BY <1>0, GoesOn
<1>2. P!Accounted'
  BY <1>0, AccountsKept
<1>3. /\ over \in Nat \cup {-1} /\ grace \in Nat /\ tick \in 0..watch \cup {-1} /\ over <= close_wait
      /\ {moved, drained} \subseteq 0..P!stall_limit /\ took \in 0..P!TookMax /\ signalled \in 0..P!stall_limit \cup {-1}
      /\ P!stall_limit \in Nat /\ close_wait \in Nat /\ P!TookMax \in Nat /\ watch \in Nat /\ close_wait <= P!stall_limit
      /\ unsent \in Nat \cup {-1} /\ outq["sock"] \in Nat
      /\ P!TookMax = P!stall_limit - watch
  BY <1>0, Limits, PipeAssumption DEF P!TypeOK, P!PipeInv, P!GraceRuns, P!Ends, P!Ages
<1>4. /\ over' = IF over = -1 THEN -1 ELSE IF over + 1 <= close_wait THEN over + 1 ELSE close_wait
      /\ grace' = (IF grace >= 1 THEN grace - 1 ELSE 0)
      /\ tick' = IF tick = -1 THEN -1 ELSE IF tick >= 1 THEN tick - 1 ELSE 0
  BY <1>0, <1>3, Ageing
<1>5. /\ grace' \in 0..close_wait /\ tick' \in 0..watch \cup {-1} /\ over' \in 0..close_wait \cup {-1}
      /\ fresh' \in BOOLEAN
  BY <1>0, <1>3, <1>4, Limits DEF P!TypeOK
<1>6. P!GraceRuns'
  BY <1>0, <1>3, <1>4, Limits, SMTT(60) DEF P!PipeInv, P!GraceRuns, P!OneDone
<1>7. CASE life = "open"
  <2>1. /\ moved' = IF moved + 1 <= P!stall_limit THEN moved + 1 ELSE P!stall_limit
        /\ drained' = IF drained + 1 <= P!stall_limit THEN drained + 1 ELSE P!stall_limit
        /\ signalled' = IF signalled = -1 THEN -1 ELSE IF signalled + 1 <= P!stall_limit THEN signalled + 1 ELSE P!stall_limit
        /\ took' = IF took + 1 <= P!TookMax THEN took + 1 ELSE P!TookMax
    <3>1. moved' = P!Older(moved, P!stall_limit) /\ drained' = P!Older(drained, P!stall_limit)
          /\ signalled' = P!Older(signalled, P!stall_limit) /\ took' = P!Older(took, P!TookMax)
      BY <1>7, Limits DEF P!Tick
    <3> QED
      BY <1>3, <3>1, Ageing
  <2>2. /\ moved' \in 0..P!stall_limit /\ drained' \in 0..P!stall_limit /\ took' \in 0..P!TookMax
        /\ signalled' \in 0..P!stall_limit \cup {-1} /\ over' \in 0..P!stall_limit \cup {-1} /\ P!Unset = -1
    BY <1>3, <1>5, <2>1, Limits
  <2>3. P!TypeOK'
    BY <1>0, <1>5, <2>2, Limits DEF P!TypeOK
  <2>4. P!ProbesKeepUp'
    <3>1. CASE signalled = -1 \/ ~fresh'
      BY <2>1, <2>2, <3>1 DEF P!ProbesKeepUp
    <3>2. CASE signalled # -1 /\ fresh'
      <4>1. /\ fresh /\ tick # 0 /\ watching /\ tick # -1 /\ unsent # -1
            /\ outq["sock"] <= unsent \/ moved <= watch - tick
        BY <1>0, <1>7, <2>2, <3>2 DEF P!PipeInv, P!ProbesKeepUp
      <4>2. tick \in 1..watch /\ tick' = tick - 1 /\ moved' <= moved + 1
        BY <1>3, <1>4, <2>1, <4>1
      <4>3. moved <= watch - tick => moved' <= watch - tick'
        BY <1>3, <2>2, <4>2
      <4> QED
        BY <1>0, <1>3, <2>2, <4>1, <4>2, <4>3 DEF P!ProbesKeepUp
    <3> QED
      BY <3>1, <3>2
  <2>5. P!TakesShow'
    <3>1. CASE signalled # -1 /\ took' # P!TookMax
      <4>1. took # P!TookMax /\ took' = took + 1
        BY <1>3, <2>1, <3>1
      <4>2. (\E age \in {moved, drained, signalled} : age <= took + watch) \/ (unsent # -1 /\ outq["sock"] < unsent)
        BY <1>7, <2>2, <3>1, <4>1 DEF P!PipeInv, P!TakesShow
      <4>3. moved' <= moved + 1 /\ drained' <= drained + 1 /\ signalled' <= signalled + 1
        BY <1>3, <2>1, <3>1
      <4>4. ASSUME NEW x \in Int, NEW y \in Int, y <= x + 1, x <= took + watch PROVE y <= took' + watch
        BY <1>3, <4>1, <4>4
      <4>5. (\E age \in {moved', drained', signalled'} : age <= took' + watch) \/ (unsent # -1 /\ outq["sock"] < unsent)
        <5>1. moved \in Int /\ drained \in Int /\ signalled \in Int /\ moved' \in Int /\ drained' \in Int /\ signalled' \in Int
          BY <1>3, <2>2
        <5>2. moved <= took + watch => moved' <= took' + watch
          BY <4>3, <4>4, <5>1
        <5>3. drained <= took + watch => drained' <= took' + watch
          BY <4>3, <4>4, <5>1
        <5>4. signalled <= took + watch => signalled' <= took' + watch
          BY <4>3, <4>4, <5>1
        <5> QED
          BY <4>2, <5>2, <5>3, <5>4
      <4> QED
        BY <1>0, <2>2, <4>5 DEF P!TakesShow
    <3>2. CASE ~(signalled # -1 /\ took' # P!TookMax)
      <4>1. signalled' = -1 \/ took' = P!TookMax
        BY <2>1, <3>2
      <4>2. P!TookMax' = P!TookMax
        BY DEF P!TookMax, P!stall_limit
      <4> QED
        BY <2>2, <4>1, <4>2 DEF P!TakesShow
    <3> QED
      BY <3>1, <3>2
  <2> QED
    BY <1>1, <1>2, <1>6, <2>3, <2>4, <2>5 DEF P!PipeInv
<1>8. CASE life # "open"
  <2>1. UNCHANGED <<moved, drained, signalled, took>>
    BY <1>8 DEF P!Tick
  <2>2. P!TypeOK'
    BY <1>0, <1>3, <1>5, <2>1, Limits, SMTT(60) DEF P!TypeOK
  <2>3. P!ProbesKeepUp' /\ P!TakesShow'
    BY <1>0, <1>8 DEF P!ProbesKeepUp, P!TakesShow
  <2> QED
    BY <1>1, <1>2, <1>6, <2>2, <2>3 DEF P!PipeInv
<1> QED
  BY <1>7, <1>8

-----------------------------------------------------------------------------
(* One direction.                                                          *)

(* Whom the task polls next. *)
LEMMA PolledNext ==
    ASSUME NEW d \in P!Dirs
    PROVE  P!Next_polled(d) \in P!Dirs \cup {"life"}
BY PipeAssumption DEF P!Next_polled, P!Other, P!Dirs

(* A direction that failed. *)
LEMMA FailedRecord ==
    ASSUME NEW r \in P!Transfer
    PROVE  /\ P!Failed(r) \in P!Transfer /\ P!Failed(r).phase = "flushing" /\ P!Failed(r).hold = 0
           /\ P!Failed(r).got = r.got /\ P!Failed(r).put = r.put
           /\ \A x \in {"ok", "error", "stalled"} : [P!Failed(r) EXCEPT !.result = x] \in P!Transfer
<1>1. 0 \in 0..Cap
  BY PipeAssumption
<1>2. [r EXCEPT !.phase = "flushing", !.hold = 0, !.buf = FALSE, !.parked = FALSE] \in P!Transfer
  BY <1>1 DEF P!Transfer
<1>3. \A q \in P!Transfer : \A x \in {"ok", "error", "stalled"} : [q EXCEPT !.result = x] \in P!Transfer
  BY DEF P!Transfer
<1>4. r.result \in {"ok", "error", "stalled"}
  BY DEF P!Transfer
<1>5. PICK x \in {"ok", "error", "stalled"} :
        P!Failed(r) = [[r EXCEPT !.phase = "flushing", !.hold = 0, !.buf = FALSE, !.parked = FALSE] EXCEPT !.result = x]
  <2>1. [r EXCEPT !.phase = "flushing", !.hold = 0, !.buf = FALSE, !.parked = FALSE].result = r.result
    BY DEF P!Transfer
  <2> QED
    BY <1>4, <2>1 DEF P!Failed
<1>6. P!Failed(r) \in P!Transfer
  BY <1>2, <1>3, <1>5, ZenonT(60)
<1>7. /\ P!Failed(r).phase = "flushing" /\ P!Failed(r).hold = 0
      /\ P!Failed(r).got = r.got /\ P!Failed(r).put = r.put
  BY DEF P!Failed, P!Transfer
<1> QED
  BY <1>3, <1>6, <1>7

(* The state of the directions, in one place. *)
LEMMA CopyFacts ==
    ASSUME P!PipeInv
    PROVE  /\ P!TypeOK /\ copy["up"] \in P!Transfer /\ copy["down"] \in P!Transfer
           /\ inq["sock"] \in 0..Cap /\ inq["stream"] \in 0..Cap
           /\ outq["sock"] \in 0..OutCap /\ outq["stream"] \in 0..OutCap
           /\ inq["sock"] + copy["up"].got <= MaxSent /\ inq["stream"] + copy["down"].got <= MaxSent
           /\ write_fut \in 0..Cap
           /\ write_fut # 0 => copy["up"].phase = "copying" /\ write_fut <= copy["up"].hold
           /\ P!Left("up") = (IF write_fut # 0 THEN write_fut ELSE copy["up"].hold)
           /\ P!Left("down") = copy["down"].hold
           /\ copy["up"].phase = "copying" => copy["up"].got = copy["up"].put + P!Left("up")
           /\ copy["down"].phase = "copying" => copy["down"].got = copy["down"].put + P!Left("down")
           /\ far["sock"] # "lost" => copy["down"].got = copy["down"].put + copy["down"].hold
BY DEF P!PipeInv, P!TypeOK, P!Accounted, P!NoneTwice, P!Received, P!Left, P!Ends, P!Dirs, P!NoFut

(* And what makes the accounts hold afterwards. *)
LEMMA AccountsFrom ==
    ASSUME inq'["sock"] + copy'["up"].got <= MaxSent, inq'["stream"] + copy'["down"].got <= MaxSent,
           write_fut' # 0 => copy'["up"].phase = "copying" /\ write_fut' <= copy'["up"].hold,
           copy'["up"].phase = "copying"
             => copy'["up"].got = copy'["up"].put + (IF write_fut' # 0 THEN write_fut' ELSE copy'["up"].hold),
           copy'["down"].phase = "copying" => copy'["down"].got = copy'["down"].put + copy'["down"].hold,
           far'["sock"] # "lost" => copy'["down"].got = copy'["down"].put + copy'["down"].hold
    PROVE  P!Accounted'
BY DEF P!Accounted, P!NoneTwice, P!Received, P!Left, P!Ends, P!Dirs, P!NoFut

(* A direction that ends: its destination or its source failed, or its     *)
(* source is at its end.                                                   *)
LEMMA DirectionEnds ==
    ASSUME P!PipeInv, NEW d \in P!Dirs, P!WriteFails(d) \/ P!ReadEnds(d)
    PROVE  P!PipeInv'
<1>1. /\ task = d /\ task' = task /\ copy[d].phase = "copying" /\ why' = why
      /\ UNCHANGED <<far, inq, outq, took, life, grace, tick, watching, unsent, drained, signalled, moved, armed, aborted, fresh, over>>
  BY DEF P!WriteFails, P!ReadEnds, P!Writing, P!Reading, P!envVars, P!lifeVars, P!endVars, P!ghosts
<1>2. PICK r \in P!Transfer :
        /\ copy' = [copy EXCEPT ![d] = r]
        /\ r.phase = "flushing" /\ r.hold = 0 /\ r.got = copy[d].got /\ r.put = copy[d].put
  <2>1. copy[d] \in P!Transfer
    BY DEF P!PipeInv, P!TypeOK
  <2>2. copy[d].result \in {"ok", "error", "stalled"}
    BY <2>1 DEF P!Transfer
  <2>3. copy' = [copy EXCEPT ![d] = P!Failed(copy[d])]
        \/ copy' = [copy EXCEPT ![d] = [P!Failed(copy[d]) EXCEPT !.result = copy[d].result]]
    BY DEF P!WriteFails, P!ReadEnds
  <2>4. /\ P!Failed(copy[d]) \in P!Transfer /\ P!Failed(copy[d]).phase = "flushing" /\ P!Failed(copy[d]).hold = 0
        /\ P!Failed(copy[d]).got = copy[d].got /\ P!Failed(copy[d]).put = copy[d].put
        /\ [P!Failed(copy[d]) EXCEPT !.result = copy[d].result] \in P!Transfer
    BY <2>1, <2>2, FailedRecord
  <2>5. ASSUME NEW x PROVE LET f == [P!Failed(copy[d]) EXCEPT !.result = x]
                           IN  /\ f.phase = "flushing" /\ f.hold = 0 /\ f.got = copy[d].got /\ f.put = copy[d].put
    BY <2>4 DEF P!Failed, P!Transfer
  <2> QED
    BY <2>3, <2>4, <2>5
<1>3. P!TypeOK /\ d \in {"up", "down"}
  BY DEF P!PipeInv, P!Dirs
<1>4. copy' \in [P!Dirs -> P!Transfer] /\ copy'[d] = r /\ \A x \in P!Dirs : x # d => copy'[x] = copy[x]
  BY <1>2, <1>3, CopyUpdates
<1>5. /\ write_fut' \in {0, write_fut} /\ (d = "up" => write_fut' = 0) /\ (d = "down" => write_fut' = write_fut)
      /\ (d = "down" => far["sock"] = "lost" \/ copy["down"].hold = 0)
  BY <1>3, CopyFacts DEF P!WriteFails, P!ReadEnds, P!Reading, P!Dst, P!NoFut
<1>6. P!TypeOK'
  BY <1>1, <1>3, <1>4, <1>5, PipeAssumption DEF P!TypeOK
<1>7. P!Accounted'
  <2>1. CASE d = "up"
    BY <1>1, <1>2, <1>4, <1>5, <2>1, CopyFacts, AccountsFrom DEF P!Dirs
  <2>2. CASE d = "down"
    BY <1>1, <1>2, <1>4, <1>5, <2>2, CopyFacts, AccountsFrom DEF P!Dirs
  <2> QED
    BY <1>3, <2>1, <2>2
<1>8. P!GraceRuns' /\ P!ProbesKeepUp' /\ P!TakesShow'
  <2>1. \A x \in P!Dirs : copy'[x].phase = "done" => copy[x].phase = "done"
    BY <1>2, <1>4
  <2> QED
    BY <1>1, <2>1, ClocksKept
<1>9. P!EndReasoned' /\ P!CleanEndComplete' /\ P!StallPatience' /\ P!GraceGiven'
  BY <1>1, <1>3, GoesOn
<1> QED
  BY <1>6, <1>7, <1>8, <1>9 DEF P!PipeInv

(* What a destination takes at once. *)
LEMMA TakenAtOnce ==
    ASSUME P!PipeInv, NEW d \in P!Dirs
    PROVE  /\ P!Left(d) \in Nat /\ P!Room(d) \in Nat /\ P!Min({P!Left(d), P!Room(d)}) \in Nat
           /\ P!Min({P!Left(d), P!Room(d)}) <= P!Left(d) /\ P!Min({P!Left(d), P!Room(d)}) <= P!Room(d)
           /\ P!Left(d) <= copy[d].hold
           /\ P!Room(d) = OutCap - outq[P!Dst(d)] /\ P!Dst(d) \in P!Ends
           /\ copy[d].phase = "copying" => copy[d].got = copy[d].put + P!Left(d)
           /\ copy[d].got <= MaxSent
<1>1. d \in {"up", "down"} /\ P!Dst(d) \in P!Ends
  BY DEF P!Dirs, P!Dst, P!Ends
<1>2. P!Left(d) \in Nat /\ P!Left(d) <= copy[d].hold /\ copy[d].got <= MaxSent
      /\ (copy[d].phase = "copying" => copy[d].got = copy[d].put + P!Left(d))
  BY <1>1, CopyFacts, PipeAssumption DEF P!Transfer
<1>3. P!Room(d) \in Nat /\ P!Room(d) = OutCap - outq[P!Dst(d)]
  BY <1>1, PipeAssumption DEF P!Room, P!PipeInv, P!TypeOK
<1> DEFINE l == P!Left(d)
           room == P!Room(d)
<1> HIDE DEF l, room
<1>4. P!Min({l, room}) = IF l <= room THEN l ELSE room
  BY <1>2, <1>3, OfTwo DEF l, room
<1> QED
  BY <1>1, <1>2, <1>3, <1>4 DEF l, room

(* Bytes that a destination takes. *)
LEMMA PipeWrites == ASSUME P!PipeInv, NEW d \in P!Dirs, P!WriteSome(d) PROVE P!PipeInv'
<1> DEFINE n == P!Min({P!Left(d), P!Room(d)})
           h == IF d = "up" THEN 0 ELSE copy[d].hold - n
<1>1. /\ task = d /\ task' = task /\ copy[d].phase = "copying" /\ why' = why /\ moved' = 0 /\ n > 0
      /\ (d = "up" => n = P!Left(d))
      /\ outq' = [outq EXCEPT ![P!Dst(d)] = @ + n]
      /\ copy' = [copy EXCEPT ![d].hold = h, ![d].put = @ + n, ![d].parked = FALSE]
      /\ write_fut' = (IF d = "up" THEN 0 ELSE write_fut)
      /\ UNCHANGED <<far, inq, took, life, grace, tick, watching, unsent, drained, signalled, armed, aborted, fresh, over>>
  BY DEF P!WriteSome, P!Writing, P!lifeVars, P!endVars, P!ghosts, P!NoFut
<1>2. P!TypeOK /\ d \in {"up", "down"} /\ copy[d] \in P!Transfer
  BY DEF P!PipeInv, P!Dirs, P!TypeOK
<1>3. /\ n \in Nat /\ n <= P!Left(d) /\ n <= P!Room(d) /\ P!Left(d) <= copy[d].hold /\ P!Left(d) \in Nat
      /\ P!Room(d) = OutCap - outq[P!Dst(d)] /\ P!Dst(d) \in P!Ends
      /\ copy[d].got = copy[d].put + P!Left(d) /\ copy[d].got <= MaxSent
  BY <1>1, TakenAtOnce
<1> HIDE DEF n
<1>4. h \in 0..Cap /\ copy[d].put + n \in 0..MaxSent
  BY <1>2, <1>3, PipeAssumption, CopyFacts DEF P!Transfer
<1> HIDE DEF h
<1>5. /\ copy' \in [P!Dirs -> P!Transfer]
      /\ copy'[d].phase = "copying" /\ copy'[d].hold = h /\ copy'[d].put = copy[d].put + n /\ copy'[d].got = copy[d].got
      /\ \A x \in P!Dirs : x # d => copy'[x] = copy[x]
  BY <1>1, <1>2, <1>4 DEF P!TypeOK, P!Transfer
<1>6. outq' \in [P!Ends -> 0..OutCap]
  BY <1>1, <1>2, <1>3, PipeAssumption DEF P!TypeOK
<1>7. P!TypeOK'
  BY <1>1, <1>2, <1>5, <1>6, PipeAssumption, Limits, SMTT(60) DEF P!TypeOK
<1>8. P!Accounted'
  <2>1. CASE d = "up"
    BY <1>1, <1>3, <1>5, <2>1, CopyFacts, AccountsFrom DEF P!Dirs, h, P!Transfer
  <2>2. CASE d = "down"
    BY <1>1, <1>3, <1>5, <2>2, CopyFacts, AccountsFrom DEF P!Dirs, h, P!Transfer
  <2> QED
    BY <1>2, <2>1, <2>2
<1>9. P!GraceRuns'
  <2>1. \A x \in P!Dirs : copy'[x].phase = "done" => copy[x].phase = "done"
    BY <1>1, <1>5
  <2> QED
    BY <1>1, <2>1 DEF P!PipeInv, P!GraceRuns, P!OneDone
<1>10. P!ProbesKeepUp' /\ P!TakesShow'
  <2>1. took \in Nat /\ watch \in Nat /\ tick \in 0..watch \cup {-1} /\ P!Unset = -1
    BY <1>2, Limits DEF P!TypeOK
  <2>2. 0 <= took + watch /\ (tick # P!Unset => 0 <= watch - tick)
    BY <2>1
  <2> QED
    BY <1>1, <2>2 DEF P!PipeInv, P!ProbesKeepUp, P!TakesShow
<1>11. P!EndReasoned' /\ P!CleanEndComplete' /\ P!StallPatience' /\ P!GraceGiven'
  BY <1>1, <1>2, GoesOn
<1> QED
  BY <1>7, <1>8, <1>9, <1>10, <1>11 DEF P!PipeInv

(* A destination that takes no more for now. *)
LEMMA PipeParks == ASSUME P!PipeInv, NEW d \in P!Dirs, P!WritePark(d) PROVE P!PipeInv'
<1> DEFINE n == P!Min({P!Left(d), P!Room(d)})
<1>1. /\ task = d /\ copy[d].phase = "copying" /\ why' = why
      /\ (d = "up" => n < P!Left(d)) /\ (d # "up" => n = 0)
      /\ outq' = [outq EXCEPT ![P!Dst(d)] = @ + n]
      /\ copy' = [copy EXCEPT ![d].parked = TRUE, ![d].put = @ + n]
      /\ write_fut' = (IF d = "up" THEN P!Left(d) - n ELSE write_fut)
      /\ task' = P!Next_polled(d) /\ armed' = armed \cup {<<"write", d>>}
      /\ UNCHANGED <<far, inq, took, life, grace, tick, watching, unsent, drained, signalled, moved, aborted, fresh, over>>
  BY DEF P!WritePark, P!Writing, P!lifeVars, P!endVars, P!ghosts, P!NoFut
<1>2. P!TypeOK /\ d \in {"up", "down"} /\ copy[d] \in P!Transfer /\ task' \in P!Dirs \cup {"life"}
  BY <1>1, PolledNext DEF P!PipeInv, P!Dirs, P!TypeOK
<1>3. /\ n \in Nat /\ n <= P!Left(d) /\ n <= P!Room(d) /\ P!Left(d) <= copy[d].hold /\ P!Left(d) \in Nat
      /\ P!Room(d) = OutCap - outq[P!Dst(d)] /\ P!Dst(d) \in P!Ends
      /\ copy[d].got = copy[d].put + P!Left(d) /\ copy[d].got <= MaxSent
  BY <1>1, TakenAtOnce
<1> HIDE DEF n
<1>4. copy[d].put + n \in 0..MaxSent /\ write_fut' \in 0..Cap
  BY <1>1, <1>2, <1>3, PipeAssumption, CopyFacts DEF P!Transfer
<1>5. /\ copy' \in [P!Dirs -> P!Transfer]
      /\ copy'[d].phase = "copying" /\ copy'[d].hold = copy[d].hold /\ copy'[d].put = copy[d].put + n
      /\ copy'[d].got = copy[d].got
      /\ \A x \in P!Dirs : x # d => copy'[x] = copy[x]
  BY <1>1, <1>2, <1>4 DEF P!TypeOK, P!Transfer
<1>6. outq' \in [P!Ends -> 0..OutCap] /\ outq'["sock"] = outq["sock"]
  BY <1>1, <1>2, <1>3, PipeAssumption DEF P!TypeOK, P!Dst, P!Ends
<1>7. armed' \subseteq ({"read", "write"} \X P!Dirs) \cup {<<"tick">>, <<"grace">>}
  BY <1>1, <1>2 DEF P!TypeOK
<1>8. P!TypeOK'
  BY <1>1, <1>2, <1>4, <1>5, <1>6, <1>7 DEF P!TypeOK
<1>9. P!Accounted'
  <2>1. CASE d = "up"
    BY <1>1, <1>3, <1>5, <2>1, CopyFacts, AccountsFrom DEF P!Dirs, P!Transfer
  <2>2. CASE d = "down"
    BY <1>1, <1>3, <1>5, <2>2, CopyFacts, AccountsFrom DEF P!Dirs, P!Transfer
  <2> QED
    BY <1>2, <2>1, <2>2
<1>10. P!GraceRuns' /\ P!ProbesKeepUp' /\ P!TakesShow'
  <2>1. \A x \in P!Dirs : copy'[x].phase = "done" => copy[x].phase = "done"
    BY <1>1, <1>5
  <2> QED
    BY <1>1, <1>6, <2>1, ClocksKept
<1>11. P!EndReasoned' /\ P!CleanEndComplete' /\ P!StallPatience' /\ P!GraceGiven'
  BY <1>1, <1>2, GoesOn DEF P!Dirs
<1> QED
  BY <1>8, <1>9, <1>10, <1>11 DEF P!PipeInv

(* Bytes that a source has. *)
LEMMA PipeReads == ASSUME P!PipeInv, NEW d \in P!Dirs, P!ReadSome(d) PROVE P!PipeInv'
<1> DEFINE n == inq[P!Src(d)]
<1>1. /\ task = d /\ task' = task /\ copy[d].phase = "copying" /\ copy[d].hold = 0 /\ why' = why
      /\ inq' = [inq EXCEPT ![P!Src(d)] = 0]
      /\ copy' = [copy EXCEPT ![d].hold = n, ![d].got = @ + n, ![d].buf = (d = "up")]
      /\ UNCHANGED <<far, outq, took, write_fut, life, grace, tick, watching, unsent, drained, signalled, moved, armed,
                     aborted, fresh, over>>
  BY DEF P!ReadSome, P!Reading, P!lifeVars, P!endVars, P!ghosts
<1>2. P!TypeOK /\ d \in {"up", "down"} /\ copy[d] \in P!Transfer /\ P!Src(d) \in P!Ends
  BY DEF P!PipeInv, P!Dirs, P!TypeOK, P!Src, P!Ends
<1>3. n \in 0..Cap /\ n + copy[d].got <= MaxSent
  BY <1>2, CopyFacts DEF P!Src
<1>4. copy[d].got + n \in 0..MaxSent /\ (d = "up") \in BOOLEAN
  BY <1>2, <1>3, PipeAssumption DEF P!Transfer
<1>5. inq' \in [P!Ends -> 0..Cap] /\ inq'[P!Src(d)] = 0 /\ \A e \in P!Ends : e # P!Src(d) => inq'[e] = inq[e]
  BY <1>1, <1>2, PipeAssumption DEF P!TypeOK
<1> HIDE DEF n
<1>6. /\ copy' \in [P!Dirs -> P!Transfer]
      /\ copy'[d].phase = "copying" /\ copy'[d].hold = n /\ copy'[d].put = copy[d].put /\ copy'[d].got = copy[d].got + n
      /\ \A x \in P!Dirs : x # d => copy'[x] = copy[x]
  BY <1>1, <1>2, <1>3, <1>4 DEF P!TypeOK, P!Transfer
<1>7. P!TypeOK'
  BY <1>1, <1>2, <1>5, <1>6 DEF P!TypeOK
<1>8. P!Accounted'
  <2>1. CASE d = "up"
    <3>1. inq'["sock"] = 0 /\ inq'["stream"] = inq["stream"] /\ n = inq["sock"]
      BY <1>5, <2>1 DEF P!Src, P!Ends, n
    <3> QED
      BY <1>1, <1>3, <1>6, <2>1, <3>1, CopyFacts, AccountsFrom DEF P!Dirs, P!Transfer
  <2>2. CASE d = "down"
    <3>1. inq'["stream"] = 0 /\ inq'["sock"] = inq["sock"] /\ n = inq["stream"]
      BY <1>5, <2>2 DEF P!Src, P!Ends, n
    <3> QED
      BY <1>1, <1>3, <1>6, <2>2, <3>1, CopyFacts, AccountsFrom DEF P!Dirs, P!Transfer
  <2> QED
    BY <1>2, <2>1, <2>2
<1>9. P!GraceRuns' /\ P!ProbesKeepUp' /\ P!TakesShow'
  <2>1. \A x \in P!Dirs : copy'[x].phase = "done" => copy[x].phase = "done"
    BY <1>1, <1>6
  <2> QED
    BY <1>1, <2>1, ClocksKept
<1>10. P!EndReasoned' /\ P!CleanEndComplete' /\ P!StallPatience' /\ P!GraceGiven'
  BY <1>1, <1>2, GoesOn
<1> QED
  BY <1>7, <1>8, <1>9, <1>10 DEF P!PipeInv

(* A source that has nothing, a flush, and a direction that is done. *)
LEMMA PipeTurns ==
    ASSUME P!PipeInv, NEW d \in P!Dirs, P!ReadPending(d) \/ P!Flush(d) \/ P!Done(d)
    PROVE  P!PipeInv'
<1>1. /\ task = d /\ why' = why
      /\ UNCHANGED <<far, inq, outq, took, write_fut, life, grace, tick, watching, unsent, drained, signalled, moved,
                     aborted, fresh>>
  BY DEF P!ReadPending, P!Reading, P!Flush, P!Done, P!envVars, P!lifeVars, P!endVars, P!ghosts
<1>2. P!TypeOK /\ d \in {"up", "down"} /\ copy[d] \in P!Transfer /\ P!Next_polled(d) \in P!Dirs \cup {"life"}
  BY PolledNext DEF P!PipeInv, P!Dirs, P!TypeOK
<1>3. task' \in P!Dirs \cup {"life"}
  BY <1>1, <1>2 DEF P!ReadPending, P!Flush, P!Done
<1>4. P!EndReasoned' /\ P!CleanEndComplete' /\ P!StallPatience' /\ P!GraceGiven'
  BY <1>1, <1>2, <1>3, GoesOn DEF P!Dirs
<1>5. CASE P!ReadPending(d)
  <2>1. /\ copy' = [copy EXCEPT ![d].parked = FALSE, ![d].buf = FALSE] /\ over' = over
        /\ armed' = armed \cup {<<"read", d>>}
    BY <1>5 DEF P!ReadPending, P!ghosts
  <2>2. /\ copy' \in [P!Dirs -> P!Transfer]
        /\ \A x \in P!Dirs : /\ copy'[x].phase = copy[x].phase /\ copy'[x].hold = copy[x].hold
                             /\ copy'[x].got = copy[x].got /\ copy'[x].put = copy[x].put
    BY <1>2, <2>1 DEF P!TypeOK, P!Transfer
  <2>3. P!TypeOK'
    BY <1>1, <1>2, <1>3, <2>1, <2>2 DEF P!TypeOK
  <2>4. P!Accounted'
    BY <1>1, <2>2, AccountsKept
  <2>5. P!GraceRuns' /\ P!ProbesKeepUp' /\ P!TakesShow'
    BY <1>1, <2>1, <2>2, ClocksKept
  <2> QED
    BY <1>4, <2>3, <2>4, <2>5 DEF P!PipeInv
<1>6. CASE P!Flush(d)
  <2>1. /\ copy' = [copy EXCEPT ![d].phase = "done", ![d].parked = FALSE] /\ armed' = armed
        /\ over' = (IF over = P!Unset THEN 0 ELSE over) /\ copy[d].phase = "flushing"
    BY <1>6 DEF P!Flush
  <2>2. /\ copy' \in [P!Dirs -> P!Transfer]
        /\ \A x \in P!Dirs : /\ copy'[x].phase = "copying" <=> copy[x].phase = "copying"
                             /\ copy'[x].hold = copy[x].hold
                             /\ copy'[x].got = copy[x].got /\ copy'[x].put = copy[x].put
    BY <1>2, <2>1 DEF P!TypeOK, P!Transfer
  <2>3. over \in P!Ages \cup {P!Unset} /\ over' \in P!Ages /\ over' # P!Unset /\ 0 <= close_wait /\ P!Unset = -1
    BY <1>2, <2>1, Limits, PipeAssumption DEF P!TypeOK
  <2>4. P!TypeOK'
    BY <1>1, <1>2, <1>3, <2>1, <2>2, <2>3 DEF P!TypeOK
  <2>5. P!Accounted'
    BY <1>1, <2>2, AccountsKept
  <2>6. P!GraceRuns'
    BY <1>1, <2>1, <2>3 DEF P!PipeInv, P!GraceRuns
  <2>7. P!ProbesKeepUp' /\ P!TakesShow'
    BY <1>1 DEF P!PipeInv, P!ProbesKeepUp, P!TakesShow
  <2> QED
    BY <1>4, <2>4, <2>5, <2>6, <2>7 DEF P!PipeInv
<1>7. CASE P!Done(d)
  <2>1. copy' = copy /\ armed' = armed /\ over' = over
    BY <1>7 DEF P!Done, P!ghosts
  <2>2. P!TypeOK'
    BY <1>1, <1>2, <1>3, <2>1 DEF P!TypeOK
  <2>3. P!Accounted'
    BY <1>1, <2>1, AccountsKept
  <2>4. P!GraceRuns' /\ P!ProbesKeepUp' /\ P!TakesShow'
    BY <1>1, <2>1, ClocksKept
  <2> QED
    BY <1>4, <2>2, <2>3, <2>4 DEF P!PipeInv
<1> QED
  BY <1>5, <1>6, <1>7

-----------------------------------------------------------------------------
(* Lifetime::poll().                                                       *)

(* Both directions are done, the task is woken, and the end of the pipe. *)
LEMMA PipeEnding == ASSUME P!PipeInv, P!LifeDone \/ P!Wake \/ P!Close PROVE P!PipeInv'
<1>1. UNCHANGED <<far, inq, outq, took, copy, write_fut, life, grace, tick, watching, unsent, drained, signalled, moved,
                  fresh, over>>
  BY DEF P!LifeDone, P!Wake, P!Close, P!envVars, P!lifeVars, P!ghosts
<1>2. P!TypeOK
  BY DEF P!PipeInv
<1>3. P!Accounted'
  BY <1>1, AccountsKept
<1>4. P!GraceRuns' /\ P!ProbesKeepUp' /\ P!TakesShow'
  BY <1>1, ClocksKept
<1>5. CASE P!LifeDone
  <2>1. why' = "done" /\ task' = "close" /\ UNCHANGED <<armed, aborted>>
    BY <1>5 DEF P!LifeDone, P!Finish
  <2>2. P!TypeOK'
    BY <1>1, <1>2, <2>1 DEF P!TypeOK
  <2>3. P!EndReasoned' /\ P!CleanEndComplete' /\ P!StallPatience' /\ P!GraceGiven'
    BY <2>1 DEF P!EndReasoned, P!CleanEndComplete, P!StallPatience, P!GraceGiven
  <2> QED
    BY <1>3, <1>4, <2>2, <2>3 DEF P!PipeInv
<1>6. CASE P!Wake
  <2>1. task = "asleep" /\ task' = first_polled /\ armed' = {} /\ UNCHANGED <<why, aborted>>
    BY <1>6 DEF P!Wake, P!endVars
  <2>2. P!TypeOK'
    BY <1>1, <1>2, <2>1, PipeAssumption DEF P!TypeOK, P!Dirs
  <2>3. P!EndReasoned' /\ P!CleanEndComplete' /\ P!StallPatience' /\ P!GraceGiven'
    BY <2>1, GoesOn, PipeAssumption
  <2> QED
    BY <1>3, <1>4, <2>2, <2>3 DEF P!PipeInv
<1>7. CASE P!Close
  <2>1. /\ task = "close" /\ task' = "ended" /\ armed' = {} /\ why' = why
        /\ aborted' = (copy["down"].hold > 0 \/ P!undelivered)
    BY <1>7 DEF P!Close
  <2>2. aborted' \in BOOLEAN
    <3>1. (copy["down"].hold > 0 \/ P!undelivered) \in BOOLEAN
      BY Zenon
    <3> QED
      BY <2>1, <3>1
  <2>3. {watching', aborted', fresh'} \subseteq BOOLEAN
    BY <1>1, <1>2, <2>2 DEF P!TypeOK
  <2>4. P!TypeOK'
    BY <1>1, <1>2, <2>1, <2>3 DEF P!TypeOK
  <2>5. P!CleanEndComplete'
    <3> SUFFICES ASSUME ~aborted', far["sock"] # "lost"
                 PROVE  copy["down"].put = inq["stream"] + copy["down"].got /\ far["stream"] # "lost"
      BY <1>1 DEF P!CleanEndComplete, P!Received
    <3>1. ~(copy["down"].hold > 0) /\ ~P!undelivered
      BY <2>1, Zenon
    <3> QED
      BY <3>1, CopyFacts, PipeAssumption DEF P!undelivered, P!Transfer
  <2>6. P!EndReasoned' /\ P!StallPatience' /\ P!GraceGiven'
    BY <1>1, <2>1 DEF P!PipeInv, P!EndReasoned, P!StallPatience, P!GraceGiven
  <2> QED
    BY <1>3, <1>4, <2>4, <2>5, <2>6 DEF P!PipeInv
<1> QED
  BY <1>5, <1>6, <1>7

(* The grace, given in full. *)
LEMMA RunsGrace ==
    ASSUME P!PipeInv, task = "life", NEW g \in 0..close_wait, P!RunGrace(g),
           over' # P!Unset, over' <= close_wait, over' \in Int, over' + g >= close_wait
    PROVE  /\ grace' = g /\ task' \in {"close", "asleep"} /\ why' \in {"none", "done", "grace", "stalled"}
           /\ armed' \subseteq ({"read", "write"} \X P!Dirs) \cup {<<"tick">>, <<"grace">>} /\ aborted' = aborted
           /\ P!EndReasoned' /\ P!CleanEndComplete' /\ P!StallPatience' /\ P!GraceGiven'
<1>1. P!TypeOK /\ grace' = g
  BY DEF P!PipeInv, P!RunGrace
<1>2. CASE g = 0
  <2>1. task' = "close" /\ why' = "grace" /\ UNCHANGED <<armed, aborted>>
    BY <1>2 DEF P!RunGrace, P!Finish
  <2>2. over' = close_wait
    BY <1>2, PipeAssumption
  <2> QED
    BY <1>1, <2>1, <2>2 DEF P!TypeOK, P!EndReasoned, P!CleanEndComplete, P!StallPatience, P!GraceGiven
<1>3. CASE g # 0
  <2>1. task' = "asleep" /\ armed' = armed \cup {<<"grace">>} /\ UNCHANGED <<why, aborted>>
    BY <1>3 DEF P!RunGrace, P!Sleep, P!endVars
  <2>2. P!EndReasoned' /\ P!CleanEndComplete' /\ P!StallPatience' /\ P!GraceGiven'
    BY <2>1, GoesOn
  <2> QED
    BY <1>1, <2>1, <2>2 DEF P!TypeOK
<1> QED
  BY <1>2, <1>3

(* A direction has finished, or the grace already runs. *)
LEMMA PipeClosing == ASSUME P!PipeInv, P!LifeClosing PROVE P!PipeInv'
<1> DEFINE g == IF life = "open" THEN close_wait ELSE grace
<1>1. /\ task = "life" /\ life' = "closing" /\ tick' = P!Unset /\ P!RunGrace(g)
      /\ P!OneDone \/ life = "closing"
      /\ UNCHANGED <<far, inq, outq, took, copy, write_fut, watching, unsent, drained, signalled, moved, fresh, over>>
  BY DEF P!LifeClosing, P!envVars, P!ghosts
<1>2. P!TypeOK /\ P!Unset = -1 /\ over \in Nat \cup {-1} /\ close_wait \in Nat /\ grace \in 0..close_wait
  BY Limits, PipeAssumption DEF P!PipeInv, P!TypeOK
<1>3. over # P!Unset /\ over <= close_wait /\ g \in 0..close_wait /\ over + g >= close_wait
  BY <1>1, <1>2 DEF P!PipeInv, P!GraceRuns, P!TypeOK
<1>4. /\ grace' = g /\ task' \in {"close", "asleep"} /\ why' \in {"none", "done", "grace", "stalled"}
      /\ armed' \subseteq ({"read", "write"} \X P!Dirs) \cup {<<"tick">>, <<"grace">>} /\ aborted' = aborted
      /\ P!EndReasoned' /\ P!CleanEndComplete' /\ P!StallPatience' /\ P!GraceGiven'
  <2> HIDE DEF g
  <2> QED
    BY <1>1, <1>2, <1>3, RunsGrace
<1>5. P!TypeOK'
  BY <1>1, <1>2, <1>3, <1>4 DEF P!TypeOK
<1>6. P!Accounted'
  BY <1>1, AccountsKept
<1>7. P!GraceRuns'
  BY <1>1, <1>3, <1>4 DEF P!GraceRuns
<1>8. P!ProbesKeepUp' /\ P!TakesShow'
  BY <1>1 DEF P!ProbesKeepUp, P!TakesShow
<1> QED
  BY <1>4, <1>5, <1>6, <1>7, <1>8 DEF P!PipeInv

(* A probe that finds the socket failed. *)
LEMMA PipeFails == ASSUME P!PipeInv, P!ProbeFailed PROVE P!PipeInv'
<1>1. /\ task = "life" /\ life' = "closing" /\ tick' = P!Unset /\ watching' = TRUE /\ P!RunGrace(close_wait)
      /\ copy' = [copy EXCEPT !["up"].result = IF @ = "ok" THEN "error" ELSE @]
      /\ over' = (IF over = P!Unset THEN 0 ELSE over)
      /\ UNCHANGED <<far, inq, outq, took, write_fut, unsent, drained, signalled, moved, fresh>>
  BY DEF P!ProbeFailed, P!Probing, P!Watchful, P!envVars
<1>2. /\ P!TypeOK /\ P!Unset = -1 /\ over \in P!Ages \cup {-1} /\ close_wait \in Nat /\ close_wait \in 0..close_wait
      /\ over <= close_wait /\ P!Ages \subseteq Nat /\ 0 \in P!Ages
  BY Limits, PipeAssumption DEF P!PipeInv, P!TypeOK, P!GraceRuns
<1>3. over' # P!Unset /\ over' <= close_wait /\ over' \in Int /\ over' + close_wait >= close_wait /\ over' \in P!Ages
  BY <1>1, <1>2
<1>4. /\ grace' = close_wait /\ task' \in {"close", "asleep"} /\ why' \in {"none", "done", "grace", "stalled"}
      /\ armed' \subseteq ({"read", "write"} \X P!Dirs) \cup {<<"tick">>, <<"grace">>} /\ aborted' = aborted
      /\ P!EndReasoned' /\ P!CleanEndComplete' /\ P!StallPatience' /\ P!GraceGiven'
  BY <1>1, <1>2, <1>3, RunsGrace
<1>5. /\ copy' \in [P!Dirs -> P!Transfer]
      /\ \A x \in P!Dirs : /\ copy'[x].phase = copy[x].phase /\ copy'[x].hold = copy[x].hold
                           /\ copy'[x].got = copy[x].got /\ copy'[x].put = copy[x].put
  BY <1>1, <1>2 DEF P!TypeOK, P!Transfer, P!Dirs
<1>6. {watching', aborted', fresh'} \subseteq BOOLEAN
  BY <1>1, <1>2, <1>4 DEF P!TypeOK
<1>7. P!TypeOK'
  BY <1>1, <1>2, <1>3, <1>4, <1>5, <1>6 DEF P!TypeOK
<1>8. P!Accounted'
  BY <1>1, <1>5, AccountsKept
<1>9. P!GraceRuns'
  BY <1>1, <1>3, <1>4 DEF P!GraceRuns
<1>10. P!ProbesKeepUp' /\ P!TakesShow'
  BY <1>1 DEF P!ProbesKeepUp, P!TakesShow
<1> QED
  BY <1>4, <1>7, <1>8, <1>9, <1>10 DEF P!PipeInv

(* Nothing is parked, or the ticker still runs. *)
LEMMA PipeWatches == ASSUME P!PipeInv, P!LifeQuiet \/ P!LifeWatch PROVE P!PipeInv'
<1>1. /\ task = "life" /\ task' = "asleep" /\ UNCHANGED <<why, aborted>>
      /\ UNCHANGED <<far, inq, outq, took, copy, write_fut, life, grace, unsent, drained, signalled, moved, over>>
  BY DEF P!LifeQuiet, P!LifeWatch, P!Watchful, P!Sleep, P!envVars, P!endVars, P!ghosts
<1>2. P!TypeOK
  BY DEF P!PipeInv
<1>3. P!EndReasoned' /\ P!CleanEndComplete' /\ P!StallPatience' /\ P!GraceGiven'
  BY <1>1, GoesOn
<1>4. P!Accounted'
  BY <1>1, AccountsKept
<1>5. P!GraceRuns' /\ P!TakesShow'
  BY <1>1 DEF P!PipeInv, P!GraceRuns, P!OneDone, P!TakesShow
<1>6. CASE P!LifeQuiet
  <2>1. watching' = FALSE /\ fresh' = (fresh /\ signalled = P!Unset) /\ armed' = armed \cup {} /\ tick' = tick
    BY <1>6 DEF P!LifeQuiet, P!Sleep
  <2>2. (fresh /\ signalled = P!Unset) \in BOOLEAN
    BY Zenon
  <2>3. {watching', aborted', fresh'} \subseteq BOOLEAN
    BY <1>1, <1>2, <2>1, <2>2 DEF P!TypeOK
  <2>4. P!TypeOK'
    BY <1>1, <1>2, <2>1, <2>3 DEF P!TypeOK
  <2>5. P!ProbesKeepUp'
    BY <1>1, <2>1, Zenon DEF P!ProbesKeepUp
  <2> QED
    BY <1>3, <1>4, <1>5, <2>4, <2>5 DEF P!PipeInv
<1>7. CASE P!LifeWatch
  <2>1. watching' = TRUE /\ fresh' = fresh /\ armed' = armed \cup {<<"tick">>} /\ tick' = P!Ticker
    BY <1>7 DEF P!LifeWatch, P!Sleep, P!ghosts
  <2>2. P!Ticker \in 0..watch \cup {P!Unset}
    BY <1>2, Limits DEF P!Ticker, P!TypeOK
  <2>3. {watching', aborted', fresh'} \subseteq BOOLEAN
    BY <1>1, <1>2, <2>1 DEF P!TypeOK
  <2>4. P!TypeOK'
    BY <1>1, <1>2, <2>1, <2>2, <2>3 DEF P!TypeOK
  <2>5. watching /\ tick # P!Unset => P!Ticker = tick
    BY DEF P!Ticker
  <2>6. P!ProbesKeepUp'
    BY <1>1, <2>1, <2>5 DEF P!PipeInv, P!ProbesKeepUp
  <2> QED
    BY <1>3, <1>4, <1>5, <2>4, <2>6 DEF P!PipeInv
<1> QED
  BY <1>6, <1>7

(* A probe of a socket that works: the pipe goes on, or has stalled. *)
LEMMA PipeProbes == ASSUME P!PipeInv, NEW spent \in BOOLEAN, P!ProbeStalled(spent) PROVE P!PipeInv'
<1>1. /\ task = "life" /\ life = "open" /\ far["sock"] # "lost"
      /\ unsent' = outq["sock"] /\ drained' = P!Drain /\ signalled' = P!Since(spent)
      /\ watching' = TRUE /\ tick' = watch /\ fresh' = TRUE /\ aborted' = aborted
      /\ UNCHANGED <<far, inq, outq, took, write_fut, life, grace, moved, over>>
  BY DEF P!ProbeStalled, P!Probing, P!Watchful, P!envVars, P!Finish, P!Sleep, P!endVars
<1>2. /\ P!TypeOK /\ P!Unset = -1 /\ outq["sock"] \in 0..OutCap /\ OutCap \in Nat /\ unsent \in 0..OutCap \cup {-1}
      /\ moved \in 0..P!stall_limit /\ drained \in 0..P!stall_limit /\ took \in 0..P!TookMax
      /\ signalled \in 0..P!stall_limit \cup {-1}
      /\ P!stall_limit \in Nat /\ watch \in Nat /\ P!TookMax = P!stall_limit - watch
  BY Limits, PipeAssumption DEF P!PipeInv, P!TypeOK, P!Ends
<1>3. /\ P!Drain \in {0, drained} /\ (unsent # -1 /\ outq["sock"] < unsent => P!Drain = 0)
      /\ P!Since(spent) \in {-1, 0, signalled} /\ (signalled = -1 => P!Since(spent) \in {-1, 0})
  BY <1>2 DEF P!Drain, P!Since
<1>4. /\ copy' \in [P!Dirs -> P!Transfer]
      /\ \A x \in P!Dirs : /\ copy'[x].phase = copy[x].phase /\ copy'[x].hold = copy[x].hold
                           /\ copy'[x].got = copy[x].got /\ copy'[x].put = copy[x].put
  <2>1. CASE copy' = copy
    BY <1>2, <2>1 DEF P!TypeOK
  <2>2. CASE copy' = [copy EXCEPT !["down"].result = IF @ = "ok" THEN "stalled" ELSE @]
    BY <1>2, <2>2 DEF P!TypeOK, P!Transfer, P!Dirs
  <2> QED
    BY <2>1, <2>2 DEF P!ProbeStalled
<1>5. /\ task' \in {"close", "asleep"} /\ why' \in {"none", "done", "grace", "stalled"}
      /\ armed' \subseteq ({"read", "write"} \X P!Dirs) \cup {<<"tick">>, <<"grace">>}
  <2>1. CASE P!Finish("stalled")
    BY <1>2, <2>1 DEF P!Finish, P!TypeOK
  <2>2. CASE P!Sleep({<<"tick">>})
    BY <1>2, <2>2 DEF P!Sleep, P!endVars, P!TypeOK
  <2> QED
    BY <2>1, <2>2 DEF P!ProbeStalled
<1>6. P!TypeOK'
  <2>1. {watching', aborted', fresh'} \subseteq BOOLEAN
    BY <1>1, <1>2 DEF P!TypeOK
  <2>2. drained' \in 0..P!stall_limit /\ signalled' \in 0..P!stall_limit \cup {-1} /\ tick' \in 0..watch
    BY <1>1, <1>2, <1>3
  <2> QED
    BY <1>1, <1>2, <1>4, <1>5, <2>1, <2>2, Limits DEF P!TypeOK
<1>7. P!Accounted'
  BY <1>1, <1>4, AccountsKept
<1>8. P!GraceRuns'
  BY <1>1, <1>4 DEF P!PipeInv, P!GraceRuns, P!OneDone
<1>9. P!ProbesKeepUp'
  BY <1>1, <1>2, Limits DEF P!ProbesKeepUp
<1>10. P!TakesShow'
  <2> SUFFICES ASSUME signalled' # -1, took # P!TookMax
               PROVE  \E age \in {moved', drained', signalled'} : age <= took + watch
    BY <1>1, <1>2 DEF P!TakesShow, P!TookMax, P!stall_limit
  <2>1. CASE signalled' = 0
    BY <1>2, <2>1
  <2>2. CASE signalled' # 0
    <3>1. signalled' = signalled /\ signalled # -1
      BY <1>1, <1>3, <2>2
    <3>2. (\E age \in {moved, drained, signalled} : age <= took + watch) \/ (unsent # -1 /\ outq["sock"] < unsent)
      BY <1>1, <1>2, <3>1 DEF P!PipeInv, P!TakesShow
    <3>3. CASE unsent # -1 /\ outq["sock"] < unsent
      BY <1>1, <1>2, <1>3, <3>3
    <3>4. CASE \E age \in {moved, drained, signalled} : age <= took + watch
      <4>1. 0 <= took + watch
        BY <1>2
      <4> QED
        BY <1>1, <1>3, <3>1, <3>4, <4>1
    <3> QED
      BY <3>2, <3>3, <3>4
  <2> QED
    BY <2>1, <2>2
<1>11. CASE ~P!Expired(spent)
  <2>1. task' = "asleep" /\ why' = why
    BY <1>11 DEF P!ProbeStalled, P!Sleep, P!endVars
  <2>2. P!EndReasoned' /\ P!CleanEndComplete' /\ P!StallPatience' /\ P!GraceGiven'
    BY <1>1, <2>1, GoesOn
  <2> QED
    BY <1>6, <1>7, <1>8, <1>9, <1>10, <2>2 DEF P!PipeInv
<1>12. CASE P!Expired(spent)
  <2>1. task' = "close" /\ why' = "stalled"
    BY <1>12 DEF P!ProbeStalled, P!Finish
  <2> DEFINE least == P!Min({P!Since(spent), moved, P!Drain})
  <2>2. P!Since(spent) # -1 /\ least >= P!stall_limit
    BY <1>2, <1>12 DEF P!Expired
  <2>3. least <= P!Since(spent) /\ least <= moved /\ least <= P!Drain /\ least \in Int
    <3> DEFINE a == P!Since(spent)
               c == P!Drain
    <3>1. a \in Int /\ moved \in Int /\ c \in Int
      BY <1>2, <1>3
    <3> HIDE DEF a, c
    <3>2. P!Min({a, moved, c}) <= a /\ P!Min({a, moved, c}) <= moved /\ P!Min({a, moved, c}) <= c
          /\ P!Min({a, moved, c}) \in Int
      BY <3>1, OfThree
    <3> QED
      BY <3>2 DEF a, c
  <2> HIDE DEF least
  <2>4. P!stall_limit > 0
    BY Limits, PipeAssumption
  <2>5. P!Since(spent) >= P!stall_limit /\ moved >= P!stall_limit /\ P!Drain >= P!stall_limit
    BY <1>2, <1>3, <2>2, <2>3
  <2>6. signalled = P!stall_limit /\ moved = P!stall_limit /\ drained = P!stall_limit
        /\ ~(unsent # -1 /\ outq["sock"] < unsent)
    BY <1>2, <1>3, <2>4, <2>5
  <2>7. took = P!TookMax \/ P!stall_limit <= took + watch
    BY <1>1, <1>2, <2>6 DEF P!PipeInv, P!TakesShow
  <2>8. took <= P!TookMax
    BY <1>2, Limits DEF P!TypeOK
  <2>9. took' = P!TookMax
    BY <1>1, <1>2, <2>7, <2>8
  <2>10. P!EndReasoned' /\ P!CleanEndComplete' /\ P!StallPatience' /\ P!GraceGiven'
    BY <2>1, <2>9 DEF P!EndReasoned, P!CleanEndComplete, P!StallPatience, P!GraceGiven, P!TookMax, P!stall_limit
  <2> QED
    BY <1>6, <1>7, <1>8, <1>9, <1>10, <2>10 DEF P!PipeInv
<1> QED
  BY <1>11, <1>12

(* Every step of the pipe keeps its invariant. *)
LEMMA PipeNext == ASSUME P!PipeInv, P!Next PROVE P!PipeInv'
<1>1. CASE P!Tick
  BY <1>1, PipeTick
<1>2. CASE P!Far
  BY <1>2, PipeFar DEF P!Far
<1>3. CASE P!Poll
  BY <1>3, DirectionEnds, PipeWrites, PipeParks, PipeReads, PipeTurns, PipeEnding, PipeClosing, PipeFails,
     PipeWatches, PipeProbes DEF P!Poll
<1> QED
  BY <1>1, <1>2, <1>3 DEF P!Next

(* The invariant of the part. *)
PipePart == part = "pipe" => P!PipeInv

(* It holds of every behaviour of the proxied connection. *)
LEMMA PipeHolds == Spec => []PipePart
<1>1. Init => PipePart
  BY PipeInit DEF Init, PipePart
<1>2. PipePart /\ [Next]_vars => PipePart'
  <2> SUFFICES ASSUME PipePart, [Next]_vars, part' = "pipe" PROVE P!PipeInv'
    BY DEF PipePart
  <2>1. part = "pipe" /\ P!PipeInv
    BY DEF PipePart, Next, vars
  <2>2. CASE P!Next
    BY <2>1, <2>2, PipeNext
  <2>3. CASE UNCHANGED vars
    <3>1. UNCHANGED <<far, inq, outq, copy, write_fut, life, grace, tick, watching, unsent, moved,
                      drained, signalled, task, armed, why, aborted, took, fresh, over>>
      BY <2>3 DEF vars, pipeVars
    <3> QED
      BY <2>1, <3>1 DEF P!PipeInv, P!TypeOK, P!EndReasoned, P!Accounted, P!NoneTwice, P!Received, P!Left, P!GraceRuns,
         P!OneDone, P!ProbesKeepUp, P!TakesShow, P!CleanEndComplete, P!StallPatience, P!GraceGiven
  <2> QED
    BY <2>1, <2>2, <2>3 DEF Next
<1> QED
  BY <1>1, <1>2, PTL DEF Spec

(* A socket that is closed in order, not reset, has been given everything  *)
(* the stream received up to the stream's own end (pipe_with, undelivered).*)
THEOREM EndsComplete == Spec => []CleanEndComplete
<1>1. PipePart => CleanEndComplete
  BY DEF PipePart, CleanEndComplete, P!PipeInv
<1> QED
  BY <1>1, PipeHolds, PTL

(* Nobody is cut off early: the direction that goes on is given the whole  *)
(* grace, and where the stall rule ends a pipe its socket's far side has   *)
(* taken nothing for the stall limit less one probe period, except after   *)
(* the watch had lapsed (Lifetime::poll, check and stall_expired),         *)
(* whatever the clocks of Timing, -closewait and the sizes of the buffers. *)
THEOREM EndsPatient == Spec => []Patience
<1>1. PipePart => Patience
  BY DEF PipePart, Patience, P!PipeInv
<1> QED
  BY <1>1, PipeHolds, PTL

-----------------------------------------------------------------------------
(* SmuxWindow: the window.                                                 *)

(* What a frame adds to a sum, and takes from it. *)
LEMMA SumFacts ==
    /\ W!Sum(<<>>) = 0
    /\ \A s \in Seq(Nat) : W!Sum(s) \in Nat
    /\ \A s \in Seq(Nat), x \in Nat : W!Sum(Append(s, x)) = W!Sum(s) + x
    /\ \A s \in Seq(Nat) : s # <<>> => W!Sum(s) = Head(s) + W!Sum(Tail(s))
<1>1. \A s : W!Sum(s) = SumOf(s)
  BY DEF W!Sum, SumOf
<1> QED
  BY <1>1, SumOfFacts

(* The counters, and the differences between them. *)
LEMMA WrapFacts ==
    /\ W!M \in Nat /\ W!M = 2 * Half /\ Half \in Nat /\ Half > 1 /\ W!Seq32 = 0..(W!M - 1)
    /\ \A x \in W!Seq32, n \in W!Seq32 : W!WrappingAdd(x, n) \in W!Seq32
    /\ \A x \in W!Seq32 : W!WrappingAdd(x, 0) = x
    /\ \A x \in W!Seq32, y \in W!Seq32 : W!WrappingSub(x, y) \in W!Seq32
    /\ \A x \in W!Seq32, y \in W!Seq32, n \in Nat :
         W!WrappingSub(x, y) + n < W!M => W!WrappingSub(W!WrappingAdd(x, n), y) = W!WrappingSub(x, y) + n
    /\ \A x \in W!Seq32, y \in W!Seq32, n \in Nat :
         n <= W!WrappingSub(x, y) => W!WrappingSub(x, W!WrappingAdd(y, n)) = W!WrappingSub(x, y) - n
    /\ \A x \in W!Seq32, y \in W!Seq32 : W!WrappingSub(x, y) < Half => W!itimediff(x, y) = W!WrappingSub(x, y)
<1>1. W!M \in Nat /\ W!M = 2 * Half /\ Half \in Nat /\ Half > 1 /\ W!Seq32 = 0..(W!M - 1)
  BY WindowAssumption DEF W!M, W!Seq32
<1> QED
  BY <1>1 DEF W!WrappingAdd, W!WrappingSub, W!itimediff

(* How far a writer may be ahead. *)
LEMMA ReachFacts ==
    /\ W!Reach \in Nat /\ W!Reach < Half /\ INITIAL_PEER_WINDOW <= W!Reach /\ max_stream_buffer <= W!Reach
    /\ {INITIAL_PEER_WINDOW, max_stream_buffer} \subseteq Nat
<1>1. (\E x \in {INITIAL_PEER_WINDOW, max_stream_buffer} : \A y \in {INITIAL_PEER_WINDOW, max_stream_buffer} : x >= y)
  BY WindowAssumption
<1>2. /\ W!Reach \in {INITIAL_PEER_WINDOW, max_stream_buffer}
      /\ \A y \in {INITIAL_PEER_WINDOW, max_stream_buffer} : W!Reach >= y
  BY <1>1 DEF W!Reach, W!Max
<1> QED
  BY <1>2, WindowAssumption

(* What a writer is. *)
Phases == [pc: {"idle", "window", "frame", "count", "wait", "failed"},
           left: 0..Total, quota: 0..Total, size: 0..frame_size]

(* The counts that are compared. *)
Counts(w) ==
    /\ W!Handed(w) \in W!Seq32 /\ num_written \in W!Seq32 /\ peer_consumed \in W!Seq32 /\ num_read \in W!Seq32
    /\ pending \in W!Seq32 /\ sender \in {"none", "take", "send"} \X W!Seq32 /\ incr \in W!Seq32
    /\ updates \in Seq(W!Seq32) /\ data \in Seq(Nat) /\ chunks \in Seq(Nat)
    /\ \A i \in DOMAIN updates : updates[i] \in W!Seq32
    /\ sender[2] \in W!Seq32
    /\ writer[w] \in Phases /\ writer \in [Writers -> Phases]
    /\ peer_window \in Nat /\ peer_window <= W!Reach

(* What the invariant says of one stream, counted from what was handed over. *)
LEMMA CountFacts ==
    ASSUME W!WindowInv, NEW w \in Writers
    PROVE  /\ W!TypeOK /\ W!WriterSound(w) /\ W!Granted(w) /\ W!ToldInOrder(w) /\ W!AllUnderWay(w)
           /\ Counts(w)
           /\ \A x \in W!Seq32 : W!Behind(w, x) = W!WrappingSub(W!Handed(w), x) /\ W!Behind(w, x) \in W!Seq32
           /\ W!Behind(w, peer_consumed) <= W!Reach
           /\ writer[w].pc # "count" => W!Handed(w) = num_written
<1>1. W!TypeOK /\ W!WriterSound(w) /\ W!Granted(w) /\ W!ToldInOrder(w) /\ W!AllUnderWay(w)
  BY DEF W!WindowInv
<1>2. writer[w] \in Phases /\ writer \in [Writers -> Phases]
  BY <1>1 DEF W!TypeOK, Phases
<1>3. /\ num_written \in W!Seq32 /\ peer_consumed \in W!Seq32 /\ num_read \in W!Seq32
      /\ pending \in W!Seq32 /\ sender \in {"none", "take", "send"} \X W!Seq32 /\ incr \in W!Seq32
      /\ updates \in Seq(W!Seq32)
  BY <1>1 DEF W!TypeOK
<1>4. data \in Seq(Nat) /\ chunks \in Seq(Nat)
  BY <1>1, WindowAssumption DEF W!TypeOK
<1>5. peer_window \in Nat /\ peer_window <= W!Reach
  BY <1>1, ReachFacts DEF W!TypeOK
<1>6. W!Uncounted(w) \in W!Seq32
  <2>1. CASE writer[w].pc = "count"
    <3>1. writer[w].size > 0 /\ writer[w].size <= writer[w].quota /\ writer[w].quota <= W!Reach
      BY <1>1, <2>1 DEF W!WriterSound
    <3>2. writer[w].size \in Nat /\ writer[w].quota \in Nat
      BY <1>2, WindowAssumption DEF Phases
    <3>3. writer[w].size \in W!Seq32
      <4>1. W!M = 2 * Half /\ Half \in Nat /\ W!Seq32 = 0..(W!M - 1)
        BY WrapFacts
      <4> QED
        BY <3>1, <3>2, <4>1, ReachFacts
    <3> QED
      BY <2>1, <3>3 DEF W!Uncounted
  <2>2. CASE writer[w].pc # "count"
    BY <2>2, WrapFacts DEF W!Uncounted
  <2> QED
    BY <2>1, <2>2
<1>7. W!Handed(w) \in W!Seq32
  BY <1>3, <1>6, WrapFacts DEF W!Handed
<1>8. \A x \in W!Seq32 : W!Behind(w, x) = W!WrappingSub(W!Handed(w), x) /\ W!Behind(w, x) \in W!Seq32
  BY <1>7, WrapFacts DEF W!Behind
<1>9. W!Behind(w, peer_consumed) <= W!Reach
  BY <1>1 DEF W!Granted
<1>10. writer[w].pc # "count" => W!Handed(w) = num_written
  BY <1>3, WrapFacts DEF W!Handed, W!Uncounted
<1>11. sender[2] \in W!Seq32 /\ \A i \in DOMAIN updates : updates[i] \in W!Seq32
  BY <1>3
<1> QED
  BY <1>1, <1>2, <1>3, <1>4, <1>5, <1>7, <1>8, <1>9, <1>10, <1>11 DEF Counts

(* A stream that begins. *)
LEMMA WindowInit == W!Init => W!WindowInv
<1> SUFFICES ASSUME W!Init PROVE W!WindowInv
  OBVIOUS
<1>1. num_read \in W!Seq32 /\ 0 \in W!Seq32
  BY WindowAssumption, WrapFacts DEF W!Init
<1>2. W!TypeOK
  <2>1. W!Idle \in Phases
    BY WindowAssumption DEF W!Idle, Phases
  <2>2. writer \in [Writers -> Phases]
    BY <2>1 DEF W!Init
  <2>3. data \in Seq(1..frame_size) /\ chunks \in Seq(1..frame_size) /\ updates \in Seq(W!Seq32)
    BY DEF W!Init
  <2>4. sender \in {"none", "take", "send"} \X W!Seq32 /\ written \in 0..Total
    BY <1>1, WindowAssumption DEF W!Init
  <2>5. peer_window \in {INITIAL_PEER_WINDOW, max_stream_buffer} /\ update_event \in BOOLEAN
    BY DEF W!Init
  <2>6. {num_written, peer_consumed, num_read, incr, pending} \subseteq W!Seq32
    BY <1>1 DEF W!Init
  <2> QED
    BY <2>2, <2>3, <2>4, <2>5, <2>6 DEF W!TypeOK, Phases
<1>3. ASSUME NEW w \in Writers PROVE W!WriterSound(w) /\ W!Granted(w) /\ W!ToldInOrder(w) /\ W!AllUnderWay(w)
  <2>1. writer[w] = W!Idle
    BY DEF W!Init
  <2>2. W!Handed(w) = num_read /\ W!WrappingSub(num_read, num_read) = 0
    BY <1>1, <2>1, WrapFacts DEF W!Init, W!Handed, W!Uncounted, W!Idle, W!WrappingSub
  <2>3. W!WriterSound(w)
    BY <2>1 DEF W!WriterSound, W!Idle
  <2>4. W!Granted(w)
    BY <2>1, <2>2, ReachFacts DEF W!Granted, W!Idle, W!Behind, W!Init
  <2>5. W!ToldInOrder(w)
    BY <2>2 DEF W!ToldInOrder, W!Newest, W!NoEarlier, W!Behind, W!Sending, W!Init
  <2>6. W!AllUnderWay(w)
    BY <2>2, SumFacts DEF W!AllUnderWay, W!Behind, W!Init
  <2> QED
    BY <2>3, <2>4, <2>5, <2>6
<1> QED
  BY <1>2, <1>3 DEF W!WindowInv

(* A step of the writer that hands nothing over keeps the counts apart as  *)
(* they were.                                                              *)
LEMMA NothingHanded ==
    ASSUME W!WindowInv, NEW w \in Writers, W!Handed(w)' = W!Handed(w),
           UNCHANGED <<peer_consumed, data, updates, chunks, num_read, incr, pending, sender>>
    PROVE  W!ToldInOrder(w)' /\ W!AllUnderWay(w)' /\ W!Behind(w, peer_consumed)' = W!Behind(w, peer_consumed)
<1>1. W!ToldInOrder(w) /\ W!AllUnderWay(w)
  BY DEF W!WindowInv
<1> QED
  BY <1>1 DEF W!ToldInOrder, W!AllUnderWay, W!Newest, W!NoEarlier, W!Behind, W!Sending

(* write() and write_v2() up to the frame. *)
LEMMA WindowWrites ==
    ASSUME W!WindowInv, NEW w \in Writers, Writers = {w},
           (\E len \in Lengths : W!Write(w, len)) \/ W!WriteWindow(w) \/ W!WriteCount(w) \/ W!WriteWake(w)
    PROVE  W!WindowInv'
<1>1. /\ W!TypeOK /\ W!WriterSound(w) /\ W!Granted(w) /\ Counts(w)
      /\ \A x \in W!Seq32 : W!Behind(w, x) = W!WrappingSub(W!Handed(w), x) /\ W!Behind(w, x) \in W!Seq32
      /\ W!Behind(w, peer_consumed) <= W!Reach
      /\ writer[w].pc # "count" => W!Handed(w) = num_written
  BY CountFacts
<1>2. Total \in Nat /\ frame_size \in Nat
  BY WindowAssumption
<1>3. UNCHANGED <<peer_consumed, peer_window, data, updates, chunks, num_read, incr, pending, sender>>
  BY DEF W!Write, W!WriteWindow, W!WriteCount, W!WriteWake, W!readVars
<1>4. ASSUME writer' \in [Writers -> Phases], num_written' \in W!Seq32, update_event' \in BOOLEAN, written' \in 0..Total,
             W!Handed(w)' = W!Handed(w), W!WriterSound(w)', W!Granted(w)'
      PROVE  W!WindowInv'
  <2>1. W!TypeOK'
    BY <1>1, <1>3, <1>4 DEF W!TypeOK, Phases
  <2>2. W!ToldInOrder(w)' /\ W!AllUnderWay(w)'
    BY <1>3, <1>4, NothingHanded
  <2> QED
    BY <1>4, <2>1, <2>2 DEF W!WindowInv
<1>5. ASSUME NEW len \in Lengths, W!Write(w, len) PROVE W!WindowInv'
  <2>0. len \in Nat /\ len > 0
    BY WindowAssumption
  <2>1. /\ writer[w].pc = "idle" /\ writer'[w] = [pc |-> "window", left |-> len, quota |-> 0, size |-> 0]
        /\ written + len <= Total /\ written' = written + len
        /\ num_written' = num_written /\ update_event' = update_event
    BY <1>1, <1>5 DEF W!Write, W!Idle, W!TypeOK, Counts
  <2>2. written \in 0..Total /\ len \in 0..Total /\ update_event \in BOOLEAN
    BY <1>1, <1>2, <2>0, <2>1 DEF W!TypeOK
  <2>3. writer' \in [Writers -> Phases]
    <3>1. writer'[w] \in Phases
      <4>1. 0 \in 0..Total /\ 0 \in 0..frame_size
        BY <1>2
      <4> QED
        BY <2>1, <2>2, <4>1 DEF Phases
    <3>2. writer' = [writer EXCEPT ![w] = writer'[w]]
      BY <1>1, <1>5 DEF W!Write, Counts
    <3> QED
      BY <1>1, <3>1, <3>2 DEF Counts
  <2>4. W!Handed(w)' = W!Handed(w)
    BY <2>1 DEF W!Handed, W!Uncounted
  <2>5. W!WriterSound(w)' /\ W!Granted(w)'
    <3>1. W!Behind(w, peer_consumed)' = W!Behind(w, peer_consumed)
      BY <1>3, <2>4, NothingHanded
    <3> QED
      BY <1>1, <2>0, <2>1, <3>1 DEF W!WriterSound, W!Granted
  <2> QED
    BY <1>1, <1>2, <1>4, <2>0, <2>1, <2>2, <2>3, <2>4, <2>5 DEF Counts
<1>6. CASE W!WriteWindow(w)
  <2>1. /\ writer[w].pc = "window" /\ num_written' = num_written /\ update_event' = update_event /\ written' = written
        /\ writer' = [writer EXCEPT ![w] =
             IF W!inflight < 0 THEN [W!Idle EXCEPT !.pc = "failed"]
             ELSE IF W!win <= 0 THEN [@ EXCEPT !.pc = "wait"]
             ELSE [@ EXCEPT !.pc = "frame", !.quota = W!Min({W!win, writer[w].left})]]
    BY <1>6 DEF W!WriteWindow
  <2>2. W!inflight = W!Behind(w, peer_consumed) /\ W!Behind(w, peer_consumed) \in Nat
    BY <1>1, <2>1, WrapFacts, ReachFacts, SMTT(60) DEF W!inflight, Counts
  <2>3. W!win \in Int /\ W!win = peer_window - W!Behind(w, peer_consumed) /\ W!win <= W!Reach
    BY <1>1, <2>2, ReachFacts DEF W!win, Counts
  <2>4. writer[w].left \in 0..Total /\ writer[w].left > 0
    BY <1>1, <2>1 DEF W!WriterSound, Counts, Phases
  <2>5. ASSUME W!win > 0
        PROVE  /\ W!Min({W!win, writer[w].left}) \in 1..Total /\ W!Min({W!win, writer[w].left}) <= W!win
               /\ W!Min({W!win, writer[w].left}) <= writer[w].left
    <3>1. \E x \in {W!win, writer[w].left} : \A y \in {W!win, writer[w].left} : x <= y
      BY <2>3, <2>4
    <3> HIDE DEF W!win
    <3>2. /\ W!Min({W!win, writer[w].left}) \in {W!win, writer[w].left}
          /\ \A y \in {W!win, writer[w].left} : W!Min({W!win, writer[w].left}) <= y
      BY <3>1 DEF W!Min
    <3> HIDE DEF W!Min
    <3> DEFINE m == W!Min({W!win, writer[w].left})
    <3>3. (m = W!win \/ m = writer[w].left) /\ m <= W!win /\ m <= writer[w].left
      BY <3>2
    <3> HIDE DEF m
    <3>4. m \in 1..Total
      BY <1>2, <2>3, <2>4, <2>5, <3>3
    <3> QED
      BY <3>3, <3>4 DEF m
  <2> DEFINE q == W!Min({W!win, writer[w].left})
  <2>6. \/ W!win <= 0 /\ writer' = [writer EXCEPT ![w] = [@ EXCEPT !.pc = "wait"]]
        \/ /\ W!win > 0 /\ writer' = [writer EXCEPT ![w] = [@ EXCEPT !.pc = "frame", !.quota = q]]
           /\ q \in 1..Total /\ q <= W!win /\ q <= writer[w].left
    <3> HIDE DEF q
    <3>1. ~(W!inflight < 0)
      BY <2>2
    <3>2. CASE W!win <= 0
      BY <2>1, <3>1, <3>2
    <3>3. CASE W!win > 0
      <4>1. q \in 1..Total /\ q <= W!win /\ q <= writer[w].left
        BY <2>5, <3>3 DEF q
      <4>2. ~(W!win <= 0)
        BY <2>3, <3>3
      <4> QED
        BY <2>1, <3>1, <3>3, <4>1, <4>2 DEF q
    <3> QED
      BY <2>3, <3>2, <3>3
  <2> HIDE DEF q
  <2>7. writer' \in [Writers -> Phases]
    <3>1. [writer[w] EXCEPT !.pc = "wait"] \in Phases
      BY <1>1 DEF Counts, Phases
    <3>2. q \in 1..Total => [writer[w] EXCEPT !.pc = "frame", !.quota = q] \in Phases
      <4>1. q \in 1..Total => q \in 0..Total
        BY <1>2
      <4>2. q \in 0..Total => [writer[w] EXCEPT !.pc = "frame", !.quota = q] \in Phases
        BY <1>1 DEF Counts, Phases
      <4> QED
        BY <4>1, <4>2
    <3> QED
      BY <1>1, <2>6, <3>1, <3>2 DEF Counts
  <2>8. \/ writer'[w] = [writer[w] EXCEPT !.pc = "wait"]
        \/ /\ writer'[w] = [writer[w] EXCEPT !.pc = "frame", !.quota = q]
           /\ q \in 1..Total /\ q <= W!win /\ q <= writer[w].left
    BY <1>1, <2>6 DEF Counts
  <2>9. \/ writer'[w].pc = "wait" /\ writer'[w].left = writer[w].left
        \/ /\ writer'[w].pc = "frame" /\ writer'[w].quota = q /\ writer'[w].left = writer[w].left
           /\ q \in 1..Total /\ q <= W!win /\ q <= writer[w].left
    BY <1>1, <2>8 DEF Counts, Phases
  <2>10. W!Handed(w)' = W!Handed(w)
    BY <2>1, <2>9 DEF W!Handed, W!Uncounted
  <2>11. W!Behind(w, peer_consumed)' = W!Behind(w, peer_consumed)
    BY <1>3, <2>10, NothingHanded
  <2>12. W!WriterSound(w)'
    <3>1. W!Reach' = W!Reach
      BY DEF W!Reach
    <3> QED
      BY <2>3, <2>4, <2>9, ReachFacts, <3>1 DEF W!WriterSound
  <2>13. W!Granted(w)'
    <3>1. W!Reach' = W!Reach
      BY DEF W!Reach
    <3>2. peer_window \in Nat /\ peer_window <= W!Reach
      BY <1>1 DEF Counts
    <3> QED
      BY <1>1, <2>2, <2>3, <2>9, <2>11, <3>1, <3>2, ReachFacts DEF W!Granted
  <2>14. num_written \in W!Seq32 /\ update_event \in BOOLEAN /\ written \in 0..Total
    BY <1>1 DEF W!TypeOK
  <2> QED
    BY <1>4, <2>1, <2>7, <2>10, <2>12, <2>13, <2>14
<1>7. CASE W!WriteCount(w)
  <2> DEFINE p == writer[w]
  <2>1. /\ p.pc = "count" /\ update_event' = update_event /\ written' = written
        /\ num_written' = W!WrappingAdd(num_written, p.size)
        /\ writer' = [writer EXCEPT ![w] =
             IF p.left - p.size = 0 THEN W!Idle
             ELSE [pc |-> IF p.quota - p.size > 0 THEN "frame" ELSE "wait",
                   left |-> p.left - p.size, quota |-> p.quota - p.size, size |-> 0]]
    BY <1>7 DEF W!WriteCount
  <2>2. /\ p.quota \in 0..Total /\ p.left \in 0..Total /\ p.size \in 0..frame_size
        /\ p.size > 0 /\ p.size <= p.quota /\ p.quota <= p.left /\ p.quota <= W!Reach
    BY <1>1, <2>1 DEF W!WriterSound, Counts, Phases
  <2>3. writer' \in [Writers -> Phases]
    BY <1>1, <1>2, <2>1, <2>2 DEF Counts, Phases, W!Idle
  <2>4. \/ writer'[w] = W!Idle
        \/ /\ p.left - p.size # 0
           /\ writer'[w] = [pc |-> IF p.quota - p.size > 0 THEN "frame" ELSE "wait",
                            left |-> p.left - p.size, quota |-> p.quota - p.size, size |-> 0]
    BY <1>1, <2>1 DEF Counts
  <2>5. num_written' = W!Handed(w)
    BY <2>1 DEF W!Handed, W!Uncounted
  <2>6. W!Handed(w)' = W!Handed(w)
    <3>1. W!Uncounted(w)' = 0
      BY <2>4 DEF W!Uncounted, W!Idle
    <3> QED
      BY <1>1, <2>5, <3>1, WrapFacts DEF W!Handed, Counts
  <2>7. W!Behind(w, peer_consumed)' = W!Behind(w, peer_consumed)
    BY <1>3, <2>6, NothingHanded
  <2>8. W!WriterSound(w)'
    BY <2>2, <2>4, ReachFacts DEF W!WriterSound, W!Idle, W!Reach
  <2>9. W!Granted(w)'
    <3>1. W!Reach' = W!Reach
      BY DEF W!Reach
    <3>2. W!Behind(w, peer_consumed) + p.quota - p.size <= W!Reach /\ W!Behind(w, peer_consumed) \in Nat
      BY <1>1, <2>1, WrapFacts DEF W!Granted, Counts
    <3> QED
      BY <1>1, <2>2, <2>4, <2>7, <3>1, <3>2, ReachFacts DEF W!Granted, W!Idle
  <2>10. num_written' \in W!Seq32 /\ update_event \in BOOLEAN /\ written \in 0..Total
    BY <1>1, <2>5 DEF W!TypeOK, Counts
  <2> QED
    BY <1>4, <2>1, <2>3, <2>6, <2>8, <2>9, <2>10
<1>8. CASE W!WriteWake(w)
  <2>1. /\ writer[w].pc = "wait" /\ update_event' = FALSE /\ written' = written /\ num_written' = num_written
        /\ writer' = [writer EXCEPT ![w].pc = "window"]
    BY <1>8 DEF W!WriteWake
  <2>2. writer'[w] = [writer[w] EXCEPT !.pc = "window"] /\ writer' \in [Writers -> Phases]
    BY <1>1, <2>1 DEF Counts, Phases
  <2>3. writer'[w].pc = "window" /\ writer'[w].left = writer[w].left
    BY <1>1, <2>2 DEF Counts, Phases
  <2>4. W!Handed(w)' = W!Handed(w)
    BY <2>1, <2>3 DEF W!Handed, W!Uncounted
  <2>5. W!WriterSound(w)' /\ W!Granted(w)'
    <3>1. W!Behind(w, peer_consumed)' = W!Behind(w, peer_consumed)
      BY <1>3, <2>4, NothingHanded
    <3> QED
      BY <1>1, <2>1, <2>3, <3>1 DEF W!WriterSound, W!Granted
  <2>6. num_written \in W!Seq32 /\ written \in 0..Total
    BY <1>1 DEF W!TypeOK
  <2> QED
    BY <1>4, <2>1, <2>2, <2>4, <2>5, <2>6
<1> QED
  BY <1>5, <1>6, <1>7, <1>8

(* write_frame(): a frame moves the end of what is handed over, and every  *)
(* count stays as far behind as it was and the frame's size more.          *)
LEMMA WindowFrame ==
    ASSUME W!WindowInv, NEW w \in Writers, Writers = {w}, W!WriteFrame(w)
    PROVE  W!WindowInv'
<1> DEFINE p == writer[w]
           n == W!Min({p.quota, frame_size})
<1>1. /\ W!TypeOK /\ W!WriterSound(w) /\ W!Granted(w) /\ Counts(w) /\ W!ToldInOrder(w) /\ W!AllUnderWay(w)
      /\ \A x \in W!Seq32 : W!Behind(w, x) = W!WrappingSub(W!Handed(w), x) /\ W!Behind(w, x) \in W!Seq32
      /\ W!Behind(w, peer_consumed) <= W!Reach
      /\ p.pc # "count" => W!Handed(w) = num_written
  BY CountFacts
<1>2. Total \in Nat /\ frame_size \in Nat /\ frame_size > 0
  BY WindowAssumption
<1>3. /\ p.pc = "frame" /\ data' = Append(data, n)
      /\ writer' = [writer EXCEPT ![w].pc = "count", ![w].size = n]
      /\ UNCHANGED <<num_written, peer_consumed, peer_window, update_event, written, updates, chunks, num_read, incr,
                     pending, sender>>
  BY DEF W!WriteFrame, W!readVars
<1>4. /\ p.quota \in 0..Total /\ p.quota > 0 /\ p.quota <= p.left /\ p.quota <= W!Reach
      /\ W!Behind(w, peer_consumed) + p.quota <= W!Reach
  BY <1>1, <1>3 DEF W!WriterSound, W!Granted, Counts, Phases
<1>5. n \in 1..frame_size /\ n <= p.quota /\ n \in Nat
  <2>1. \E x \in {p.quota, frame_size} : \A y \in {p.quota, frame_size} : x <= y
    BY <1>2, <1>4
  <2>2. n \in {p.quota, frame_size} /\ \A y \in {p.quota, frame_size} : n <= y
    BY <2>1 DEF W!Min
  <2> HIDE DEF n
  <2>3. (n = p.quota \/ n = frame_size) /\ n <= p.quota /\ n <= frame_size
    BY <2>2
  <2> QED
    BY <1>2, <1>4, <2>3
<1> HIDE DEF n
<1>6. writer'[w] = [p EXCEPT !.pc = "count", !.size = n] /\ writer' \in [Writers -> Phases]
  <2>1. n \in 0..frame_size
    BY <1>5
  <2>2. [p EXCEPT !.pc = "count", !.size = n] \in Phases
    BY <1>1, <2>1 DEF Counts, Phases
  <2> QED
    BY <1>1, <1>3, <2>2 DEF Counts
<1>7. writer'[w].pc = "count" /\ writer'[w].size = n /\ writer'[w].quota = p.quota /\ writer'[w].left = p.left
  BY <1>1, <1>6 DEF Counts, Phases
<1>8. W!Handed(w)' = W!WrappingAdd(W!Handed(w), n)
  BY <1>1, <1>3, <1>7 DEF W!Handed, W!Uncounted
<1>9. W!M = 2 * Half /\ Half \in Nat /\ W!Seq32 = 0..(W!M - 1)
  BY WrapFacts
<1>10. \A x \in W!Seq32 : W!Behind(w, x) <= W!Behind(w, peer_consumed) => W!WrappingSub(W!Handed(w)', x) = W!Behind(w, x) + n
  <2> SUFFICES ASSUME NEW x \in W!Seq32, W!Behind(w, x) <= W!Behind(w, peer_consumed)
               PROVE  W!WrappingSub(W!Handed(w)', x) = W!Behind(w, x) + n
    OBVIOUS
  <2>1. W!Handed(w) \in W!Seq32 /\ peer_consumed \in W!Seq32
    BY <1>1 DEF Counts
  <2>2. W!Behind(w, x) = W!WrappingSub(W!Handed(w), x) /\ W!Behind(w, x) \in W!Seq32
        /\ W!Behind(w, peer_consumed) \in W!Seq32
    BY <1>1, <2>1
  <2>3. W!WrappingSub(W!Handed(w), x) + n < W!M
    BY <1>4, <1>5, <1>9, <2>2, ReachFacts
  <2>4. \A a \in W!Seq32, y \in W!Seq32, k \in Nat :
           W!WrappingSub(a, y) + k < W!M => W!WrappingSub(W!WrappingAdd(a, k), y) = W!WrappingSub(a, y) + k
    BY WrapFacts
  <2>5. W!WrappingSub(W!WrappingAdd(W!Handed(w), n), x) = W!WrappingSub(W!Handed(w), x) + n
    BY <1>5, <2>1, <2>3, <2>4
  <2> QED
    BY <1>8, <2>2, <2>5
<1>11. W!TypeOK'
  <2>1. data' \in Seq(1..frame_size)
    BY <1>1, <1>3, <1>5 DEF W!TypeOK
  <2> QED
    BY <1>1, <1>3, <1>6, <2>1 DEF W!TypeOK, Phases
<1>12. W!WriterSound(w)'
  BY <1>4, <1>5, <1>7 DEF W!WriterSound, W!Reach
<1>13. W!Behind(w, peer_consumed)' = W!Behind(w, peer_consumed) + n /\ W!Behind(w, peer_consumed) \in Nat
  <2>1. peer_consumed \in W!Seq32 /\ W!Behind(w, peer_consumed) \in W!Seq32
    BY <1>1 DEF Counts
  <2>2. W!Behind(w, peer_consumed) \in Nat
    BY <1>9, <2>1
  <2>3. W!WrappingSub(W!Handed(w)', peer_consumed) = W!Behind(w, peer_consumed) + n
    BY <1>10, <2>1, <2>2
  <2> QED
    BY <1>3, <2>2, <2>3 DEF W!Behind
<1>14. W!Granted(w)'
  <2>1. W!Reach' = W!Reach
    BY DEF W!Reach
  <2> QED
    BY <1>4, <1>5, <1>7, <1>13, <2>1, ReachFacts DEF W!Granted
<1>15. ASSUME NEW x \in W!Seq32, NEW y \in W!Seq32, W!NoEarlier(w, x, y), W!NoEarlier(w, y, peer_consumed)
       PROVE  W!WrappingSub(W!Handed(w)', x) <= W!WrappingSub(W!Handed(w)', y)
  <2>1. W!Behind(w, x) \in Int /\ W!Behind(w, y) \in Int /\ W!Behind(w, peer_consumed) \in Int
    BY <1>1, <1>9, <1>13
  <2>2. W!Behind(w, x) <= W!Behind(w, y) /\ W!Behind(w, y) <= W!Behind(w, peer_consumed)
    BY <1>15 DEF W!NoEarlier
  <2>3. W!Behind(w, x) <= W!Behind(w, peer_consumed)
    BY <2>1, <2>2
  <2>4. W!WrappingSub(W!Handed(w)', x) = W!Behind(w, x) + n /\ W!WrappingSub(W!Handed(w)', y) = W!Behind(w, y) + n
    BY <1>10, <2>2, <2>3
  <2> QED
    BY <1>5, <2>1, <2>2, <2>4
<1>16. W!ToldInOrder(w)'
  <2> DEFINE Le(x, y) == W!WrappingSub(W!Handed(w)', x) <= W!WrappingSub(W!Handed(w)', y)
  <2>1. /\ num_read \in W!Seq32 /\ peer_consumed \in W!Seq32 /\ pending \in W!Seq32 /\ sender[2] \in W!Seq32
        /\ \A i \in DOMAIN updates : updates[i] \in W!Seq32
        /\ Len(updates) \in Nat /\ DOMAIN updates = 1..Len(updates)
    BY <1>1 DEF Counts
  <2>2. W!NoEarlier(w, peer_consumed, peer_consumed)
    BY <1>13 DEF W!NoEarlier
  <2>3. \A i \in DOMAIN updates : Le(updates[i], peer_consumed) /\ \A j \in i..Len(updates) : Le(updates[j], updates[i])
    <3> SUFFICES ASSUME NEW i \in DOMAIN updates
                 PROVE  Le(updates[i], peer_consumed) /\ \A j \in i..Len(updates) : Le(updates[j], updates[i])
      OBVIOUS
    <3>1. W!NoEarlier(w, updates[i], peer_consumed) /\ \A j \in i..Len(updates) : W!NoEarlier(w, updates[j], updates[i])
      BY <1>1 DEF W!ToldInOrder
    <3>2. \A j \in i..Len(updates) : j \in DOMAIN updates
      BY <2>1
    <3> QED
      BY <1>15, <2>1, <2>2, <3>1, <3>2
  <2>4. ASSUME NEW x \in W!Seq32, W!Newest(w, x)
        PROVE  Le(x, peer_consumed) /\ (\A i \in DOMAIN updates : Le(x, updates[i])) /\ W!NoEarlier(w, x, peer_consumed)
    <3>1. W!NoEarlier(w, x, peer_consumed) /\ \A i \in DOMAIN updates : W!NoEarlier(w, x, updates[i])
      BY <2>4 DEF W!Newest
    <3>2. \A i \in DOMAIN updates : W!NoEarlier(w, updates[i], peer_consumed)
      BY <1>1 DEF W!ToldInOrder
    <3> QED
      BY <1>15, <2>1, <2>2, <3>1, <3>2
  <2>5. W!Sending => /\ Le(sender[2], peer_consumed) /\ \A i \in DOMAIN updates : Le(sender[2], updates[i])
                     /\ Le(num_read, sender[2])
    BY <1>1, <1>15, <2>1, <2>4 DEF W!ToldInOrder
  <2>6. pending # 0 => /\ Le(pending, peer_consumed) /\ \A i \in DOMAIN updates : Le(pending, updates[i])
                       /\ Le(num_read, pending)
    BY <1>1, <1>15, <2>1, <2>4 DEF W!ToldInOrder
  <2>7. pending # 0 /\ W!Sending => Le(pending, sender[2])
    BY <1>1, <1>15, <2>1, <2>4 DEF W!ToldInOrder
  <2>8. Le(num_read, peer_consumed) /\ \A i \in DOMAIN updates : Le(num_read, updates[i])
    BY <1>1, <2>1, <2>4 DEF W!ToldInOrder
  <2> QED
    BY <1>3, <2>3, <2>5, <2>6, <2>7, <2>8 DEF W!ToldInOrder, W!Newest, W!NoEarlier, W!Behind, W!Sending
<1>17. W!AllUnderWay(w)'
  <2>1. num_read \in W!Seq32 /\ W!NoEarlier(w, num_read, peer_consumed) /\ W!Behind(w, num_read) \in Int
    BY <1>1, <1>9 DEF Counts, W!ToldInOrder, W!Newest
  <2>2. W!WrappingSub(W!Handed(w)', num_read) = W!Behind(w, num_read) + n
    BY <1>10, <2>1 DEF W!NoEarlier
  <2>3. W!Sum(data') = W!Sum(data) + n /\ W!Sum(data) \in Nat /\ W!Sum(chunks) \in Nat
    BY <1>1, <1>3, <1>5, SumFacts DEF Counts
  <2>4. W!Sum(data) + W!Sum(chunks) = W!Behind(w, num_read)
    BY <1>1 DEF W!AllUnderWay
  <2>5. W!Sum(data') + W!Sum(chunks) = W!WrappingSub(W!Handed(w)', num_read)
    BY <1>5, <2>1, <2>2, <2>3, <2>4
  <2> QED
    BY <1>3, <2>5 DEF W!AllUnderWay, W!Behind, W!Sum
<1> QED
  BY <1>11, <1>12, <1>14, <1>16, <1>17 DEF W!WindowInv

(* Frames that leave a sequence and join one. *)
LEMMA FramesMove ==
    ASSUME NEW T, NEW s \in Seq(T), NEW t \in Seq(T)
    PROVE  /\ s # <<>> => Head(s) \in T /\ Tail(s) \in Seq(T)
           /\ \A x \in T : Append(t, x) \in Seq(T)
OBVIOUS

(* cmdUPD, cmdPSH, the reader and the update task: nothing is handed over. *)
LEMMA WindowReads ==
    ASSUME W!WindowInv, NEW w \in Writers, Writers = {w},
           W!Update \/ W!PushBytes \/ W!ReadChunk \/ W!SenderTake \/ W!SenderSend
    PROVE  W!WindowInv'
<1>1. /\ W!TypeOK /\ W!WriterSound(w) /\ W!Granted(w) /\ Counts(w) /\ W!ToldInOrder(w) /\ W!AllUnderWay(w)
      /\ \A x \in W!Seq32 : W!Behind(w, x) = W!WrappingSub(W!Handed(w), x) /\ W!Behind(w, x) \in W!Seq32
      /\ W!Behind(w, peer_consumed) <= W!Reach
  BY CountFacts
<1>2. UNCHANGED <<num_written, writer, written>>
  BY DEF W!Update, W!PushBytes, W!ReadChunk, W!SenderTake, W!SenderSend, W!writeVars
<1>3. W!Handed(w)' = W!Handed(w) /\ W!WriterSound(w)' /\ W!Reach' = W!Reach
  BY <1>1, <1>2 DEF W!Handed, W!Uncounted, W!WriterSound, W!Reach
<1>4. W!Seq32 = 0..(W!M - 1) /\ W!M \in Nat
  BY WrapFacts
<1> DEFINE B(x) == W!WrappingSub(W!Handed(w), x)
<1>5. \A x \in W!Seq32 : B(x) \in Nat /\ B(x) < W!M
  BY <1>1, <1>4
<1>6. /\ num_read \in W!Seq32 /\ peer_consumed \in W!Seq32 /\ pending \in W!Seq32 /\ sender[2] \in W!Seq32
      /\ \A i \in DOMAIN updates : updates[i] \in W!Seq32
      /\ updates \in Seq(W!Seq32) /\ Len(updates) \in Nat /\ DOMAIN updates = 1..Len(updates)
      /\ data \in Seq(1..frame_size) /\ chunks \in Seq(1..frame_size) /\ data \in Seq(Nat) /\ chunks \in Seq(Nat)
      /\ incr \in W!Seq32 /\ sender \in {"none", "take", "send"} \X W!Seq32
  BY <1>1 DEF Counts, W!TypeOK
<1>7. W!Sum(data) \in Nat /\ W!Sum(chunks) \in Nat /\ W!Sum(data) + W!Sum(chunks) = B(num_read)
  BY <1>1, <1>6, SumFacts DEF W!AllUnderWay, W!Behind
<1>8. /\ \A i \in DOMAIN updates : B(updates[i]) <= B(peer_consumed) /\ \A j \in i..Len(updates) : B(updates[j]) <= B(updates[i])
      /\ sender[1] = "send" => /\ B(sender[2]) <= B(peer_consumed) /\ \A i \in DOMAIN updates : B(sender[2]) <= B(updates[i])
                               /\ B(num_read) <= B(sender[2])
      /\ pending # 0 => /\ B(pending) <= B(peer_consumed) /\ \A i \in DOMAIN updates : B(pending) <= B(updates[i])
                        /\ B(num_read) <= B(pending)
      /\ pending # 0 /\ sender[1] = "send" => B(pending) <= B(sender[2])
      /\ B(num_read) <= B(peer_consumed) /\ \A i \in DOMAIN updates : B(num_read) <= B(updates[i])
  BY <1>1 DEF W!ToldInOrder, W!Newest, W!NoEarlier, W!Behind, W!Sending
<1>9. ASSUME peer_consumed' = peer_consumed PROVE W!Granted(w)'
  BY <1>1, <1>2, <1>3, <1>9 DEF W!Granted, W!Behind
<1> HIDE DEF B
<1>10. CASE W!Update
  <2>1. /\ updates # <<>> /\ updates' = Tail(updates) /\ peer_consumed' = Head(updates) /\ peer_window' = max_stream_buffer
        /\ update_event' = TRUE /\ UNCHANGED <<data, chunks, num_read, incr, pending, sender>>
    BY <1>10 DEF W!Update, W!readVars
  <2>2. /\ 1 \in DOMAIN updates /\ peer_consumed' = updates[1] /\ Len(updates') = Len(updates) - 1
        /\ DOMAIN updates' = 1..Len(updates') /\ Len(updates') \in Nat
        /\ \A i \in DOMAIN updates' : updates'[i] = updates[i + 1] /\ i + 1 \in DOMAIN updates
        /\ updates' \in Seq(W!Seq32) /\ peer_consumed' \in W!Seq32
    BY <1>6, <2>1
  <2>3. W!TypeOK'
    BY <1>1, <1>2, <2>1, <2>2 DEF W!TypeOK
  <2>4. B(updates[1]) <= B(peer_consumed) /\ \A j \in 1..Len(updates) : B(updates[j]) <= B(updates[1])
    BY <1>8, <2>2
  <2>5. /\ \A i \in DOMAIN updates' : /\ B(updates'[i]) <= B(peer_consumed')
                                     /\ \A j \in i..Len(updates') : B(updates'[j]) <= B(updates'[i])
        /\ sender'[1] = "send" => /\ B(sender'[2]) <= B(peer_consumed') /\ \A i \in DOMAIN updates' : B(sender'[2]) <= B(updates'[i])
                                 /\ B(num_read') <= B(sender'[2])
        /\ pending' # 0 => /\ B(pending') <= B(peer_consumed') /\ \A i \in DOMAIN updates' : B(pending') <= B(updates'[i])
                           /\ B(num_read') <= B(pending')
        /\ pending' # 0 /\ sender'[1] = "send" => B(pending') <= B(sender'[2])
        /\ B(num_read') <= B(peer_consumed') /\ \A i \in DOMAIN updates' : B(num_read') <= B(updates'[i])
    <3>1. ASSUME NEW i \in DOMAIN updates', NEW j \in i..Len(updates') PROVE B(updates'[j]) <= B(updates'[i])
      <4>1. i + 1 \in DOMAIN updates /\ j + 1 \in (i + 1)..Len(updates) /\ j \in DOMAIN updates'
        BY <1>6, <2>2, <3>1
      <4>2. B(updates[j + 1]) <= B(updates[i + 1])
        BY <1>8, <4>1
      <4> QED
        BY <2>2, <4>1, <4>2
    <3>2. ASSUME NEW i \in DOMAIN updates' PROVE B(updates'[i]) <= B(peer_consumed')
      BY <1>6, <2>2, <2>4
    <3> QED
      BY <1>8, <2>1, <2>2, <3>1, <3>2
  <2>6. W!ToldInOrder(w)'
    BY <1>3, <2>5 DEF B, W!ToldInOrder, W!Newest, W!NoEarlier, W!Behind, W!Sending
  <2>7. W!AllUnderWay(w)'
    BY <1>3, <1>7, <2>1 DEF B, W!AllUnderWay, W!Behind
  <2>8. W!Granted(w)'
    <3>1. B(peer_consumed') <= B(peer_consumed) /\ B(peer_consumed') \in Nat /\ B(peer_consumed) \in Nat
      BY <1>5, <1>6, <2>2, <2>4
    <3>2. W!Behind(w, peer_consumed)' = B(peer_consumed') /\ W!Behind(w, peer_consumed) = B(peer_consumed)
      BY <1>3 DEF B, W!Behind
    <3>3. writer[w].quota \in Nat /\ writer[w].size \in Nat
      BY <1>1, WindowAssumption DEF Counts, Phases
    <3> QED
      BY <1>1, <1>2, <1>3, <3>1, <3>2, <3>3, ReachFacts DEF W!Granted
  <2> QED
    BY <1>3, <2>3, <2>6, <2>7, <2>8 DEF W!WindowInv
<1>11. CASE W!PushBytes
  <2>1. /\ data # <<>> /\ data' = Tail(data) /\ chunks' = Append(chunks, Head(data))
        /\ UNCHANGED <<peer_consumed, peer_window, update_event, updates, num_read, incr, pending, sender>>
    BY <1>11 DEF W!PushBytes, W!readVars, W!writeVars
  <2>2. data' \in Seq(1..frame_size) /\ chunks' \in Seq(1..frame_size) /\ Head(data) \in Nat
    <3>1. data \in Seq(1..frame_size) /\ chunks \in Seq(1..frame_size)
      BY <1>6
    <3> DEFINE T == 1..frame_size
    <3>2. T \subseteq Nat
      BY WindowAssumption
    <3> HIDE DEF T
    <3>3. Head(data) \in T /\ Tail(data) \in Seq(T) /\ Append(chunks, Head(data)) \in Seq(T)
      BY <2>1, <3>1, FramesMove DEF T
    <3> QED
      BY <2>1, <3>2, <3>3 DEF T
  <2>3. W!TypeOK'
    BY <1>1, <1>2, <2>1, <2>2 DEF W!TypeOK
  <2>4. W!ToldInOrder(w)'
    BY <1>3, <1>8, <2>1 DEF B, W!ToldInOrder, W!Newest, W!NoEarlier, W!Behind, W!Sending
  <2>5. W!Sum(data) = Head(data) + W!Sum(data') /\ W!Sum(chunks') = W!Sum(chunks) + Head(data) /\ W!Sum(data') \in Nat
    <3>1. data' \in Seq(Nat)
      BY <1>6, <2>1
    <3> QED
      BY <1>6, <2>1, <2>2, <3>1, SumFacts
  <2>6. W!Sum(data') + W!Sum(chunks') = B(num_read')
    BY <1>7, <2>1, <2>2, <2>5
  <2>7. W!AllUnderWay(w)'
    BY <1>3, <2>6 DEF B, W!AllUnderWay, W!Behind, W!Sum
  <2> QED
    BY <1>3, <1>9, <2>1, <2>3, <2>4, <2>7 DEF W!WindowInv
<1>12. CASE W!ReadChunk
  <2> DEFINE n == IF chunks = <<>> THEN 0 ELSE Head(chunks)
             read == W!WrappingAdd(num_read, n)
             more == W!WrappingAdd(incr, n)
             consumed == IF W!due(n, read, more) THEN read ELSE 0
  <2>1. /\ chunks' = IF chunks = <<>> THEN chunks ELSE Tail(chunks)
        /\ num_read' = read
        /\ incr' = IF W!due(n, read, more) THEN 0 ELSE more
        /\ \/ /\ pending' = consumed /\ consumed > 0
              /\ sender' = IF sender[1] = "none" THEN <<"take", 0>> ELSE sender
           \/ UNCHANGED <<pending, sender>>
        /\ UNCHANGED <<peer_consumed, peer_window, update_event, updates, data>>
    BY <1>12 DEF W!ReadChunk, W!writeVars
  <2>2. /\ n \in Nat /\ W!Sum(chunks) = n + W!Sum(chunks') /\ W!Sum(chunks') \in Nat
        /\ chunks' \in Seq(1..frame_size)
    <3>1. chunks' \in Seq(1..frame_size) /\ chunks' \in Seq(Nat) /\ n \in Nat
      <4>1. CASE chunks = <<>>
        BY <1>6, <2>1, <4>1
      <4>2. CASE chunks # <<>>
        <5>1. chunks' = Tail(chunks) /\ n = Head(chunks)
          BY <2>1, <4>2
        <5>2. Tail(chunks) \in Seq(1..frame_size)
          BY <1>6, <4>2, FramesMove
        <5>3. Tail(chunks) \in Seq(Nat) /\ Head(chunks) \in Nat
          BY <1>6, <4>2, FramesMove
        <5> QED
          BY <5>1, <5>2, <5>3
      <4> QED
        BY <4>1, <4>2
    <3>2. W!Sum(chunks) = n + W!Sum(chunks')
      <4>1. CASE chunks = <<>>
        BY <2>1, <4>1, SumFacts
      <4>2. CASE chunks # <<>>
        BY <1>6, <2>1, <4>2, SumFacts
      <4> QED
        BY <4>1, <4>2
    <3> QED
      BY <3>1, <3>2, SumFacts
  <2> HIDE DEF n
  <2>3. n <= B(num_read) /\ n \in W!Seq32 /\ B(num_read) \in Nat
    <3>1. B(num_read) \in Nat /\ B(num_read) < W!M
      BY <1>5, <1>6
    <3>2. W!Sum(data) + (n + W!Sum(chunks')) = B(num_read)
      BY <1>7, <2>2
    <3>3. n <= B(num_read) /\ n < W!M
      BY <1>4, <1>7, <2>2, <3>1, <3>2
    <3> QED
      BY <1>4, <2>2, <3>1, <3>3
  <2>4. read \in W!Seq32 /\ more \in W!Seq32 /\ 0 \in W!Seq32
    <3>1. \A x \in W!Seq32, k \in W!Seq32 : W!WrappingAdd(x, k) \in W!Seq32
      BY WrapFacts
    <3>2. read \in W!Seq32 /\ more \in W!Seq32
      BY <1>6, <2>3, <3>1
    <3>3. W!M > 0
      BY WrapFacts
    <3> QED
      BY <1>4, <3>2, <3>3
  <2>5. B(read) = B(num_read) - n
    <3>1. \A x \in W!Seq32, y \in W!Seq32, k \in Nat :
            k <= W!WrappingSub(x, y) => W!WrappingSub(x, W!WrappingAdd(y, k)) = W!WrappingSub(x, y) - k
      BY WrapFacts
    <3>2. W!Handed(w) \in W!Seq32
      BY <1>1 DEF Counts
    <3> QED
      BY <1>6, <2>2, <2>3, <3>1, <3>2 DEF B
  <2> HIDE DEF read, more
  <2>6. /\ incr' \in W!Seq32
        /\ \/ /\ pending' = read
              /\ sender' = sender \/ sender' = <<"take", 0>>
           \/ UNCHANGED <<pending, sender>>
    BY <2>1, <2>4
  <2> HIDE DEF consumed
  <2>7. W!TypeOK'
    <3>1. pending' \in W!Seq32
      BY <1>6, <2>4, <2>6
    <3>2. sender' \in {"none", "take", "send"} \X W!Seq32
      BY <1>6, <2>4, <2>6
    <3> QED
      BY <1>1, <1>2, <2>1, <2>2, <2>4, <2>6, <3>1, <3>2 DEF W!TypeOK
  <2>8. /\ B(read) <= B(num_read) /\ B(read) \in Nat
        /\ \A x \in W!Seq32 : B(num_read) <= B(x) => B(read) <= B(x)
    <3>1. B(read) \in Nat /\ B(num_read) \in Nat /\ \A x \in W!Seq32 : B(x) \in Nat
      BY <1>5, <2>3, <2>4
    <3>2. B(read) <= B(num_read)
      BY <2>2, <2>5, <3>1
    <3>3. ASSUME NEW x \in W!Seq32, B(num_read) <= B(x) PROVE B(read) <= B(x)
      <4>1. B(x) \in Nat
        BY <3>1
      <4> QED
        BY <3>1, <3>2, <3>3, <4>1
    <3> QED
      BY <3>1, <3>2, <3>3
  <2>9. W!ToldInOrder(w)'
    <3>1. sender'[1] = "send" => sender' = sender /\ sender[1] = "send"
      BY <2>6
    <3>2. B(read) <= B(peer_consumed) /\ \A i \in DOMAIN updates : B(read) <= B(updates[i])
      BY <1>6, <1>8, <2>8
    <3>3. sender'[1] = "send" => /\ B(sender'[2]) <= B(peer_consumed) /\ \A i \in DOMAIN updates : B(sender'[2]) <= B(updates[i])
                                 /\ B(read) <= B(sender'[2])
      BY <1>6, <1>8, <2>8, <3>1
    <3>4. CASE pending' = read
      <4>1. B(read) <= B(read)
        BY <2>8
      <4> QED
        BY <1>3, <1>8, <2>1, <3>2, <3>3, <3>4, <4>1 DEF B, W!ToldInOrder, W!Newest, W!NoEarlier, W!Behind, W!Sending
    <3>5. CASE UNCHANGED <<pending, sender>>
      <4>1. pending # 0 => B(read) <= B(pending)
        BY <1>6, <1>8, <2>8
      <4> QED
        BY <1>3, <1>8, <2>1, <3>2, <3>3, <3>5, <4>1 DEF B, W!ToldInOrder, W!Newest, W!NoEarlier, W!Behind, W!Sending
    <3> QED
      BY <2>6, <3>4, <3>5
  <2>10. W!Sum(data) + W!Sum(chunks') = B(read)
    BY <1>7, <2>2, <2>3, <2>5
  <2>11. W!AllUnderWay(w)'
    BY <1>3, <2>1, <2>10 DEF B, W!AllUnderWay, W!Behind, W!Sum
  <2> QED
    BY <1>3, <1>9, <2>1, <2>7, <2>9, <2>11 DEF W!WindowInv
<1>13. CASE W!SenderTake
  <2>1. /\ sender[1] = "take" /\ pending' = 0
        /\ sender' = IF pending = 0 THEN <<"none", 0>> ELSE <<"send", pending>>
        /\ UNCHANGED <<peer_consumed, peer_window, update_event, data, updates, chunks, num_read, incr>>
    BY <1>13 DEF W!SenderTake, W!writeVars
  <2>2. W!TypeOK'
    <3>1. 0 \in W!Seq32 /\ sender' \in {"none", "take", "send"} \X W!Seq32
      BY <1>4, <1>6, <2>1
    <3> QED
      BY <1>1, <1>2, <2>1, <3>1 DEF W!TypeOK
  <2>3. sender'[1] = "send" => pending # 0 /\ sender'[2] = pending
    BY <2>1
  <2>4. W!ToldInOrder(w)'
    BY <1>3, <1>8, <2>1, <2>3 DEF B, W!ToldInOrder, W!Newest, W!NoEarlier, W!Behind, W!Sending
  <2>5. W!AllUnderWay(w)'
    BY <1>3, <1>7, <2>1 DEF B, W!AllUnderWay, W!Behind
  <2> QED
    BY <1>3, <1>9, <2>1, <2>2, <2>4, <2>5 DEF W!WindowInv
<1>14. CASE W!SenderSend
  <2>1. /\ sender[1] = "send" /\ updates' = Append(updates, sender[2]) /\ sender' = <<"take", 0>>
        /\ UNCHANGED <<peer_consumed, peer_window, update_event, data, chunks, num_read, incr, pending>>
    BY <1>14 DEF W!SenderSend, W!writeVars, W!readVars
  <2>2. /\ updates' \in Seq(W!Seq32) /\ Len(updates') = Len(updates) + 1 /\ DOMAIN updates' = 1..Len(updates')
        /\ \A i \in DOMAIN updates' : \/ i \in DOMAIN updates /\ updates'[i] = updates[i]
                                      \/ i = Len(updates) + 1 /\ updates'[i] = sender[2]
    BY <1>6, <2>1
  <2>3. W!TypeOK'
    <3>1. 0 \in W!Seq32 /\ sender' \in {"none", "take", "send"} \X W!Seq32
      <4>1. 0 \in W!Seq32
        BY <1>4, WrapFacts
      <4> QED
        BY <2>1, <4>1
    <3> QED
      BY <1>1, <1>2, <2>1, <2>2, <3>1 DEF W!TypeOK
  <2>4. ASSUME NEW i \in DOMAIN updates' PROVE B(updates'[i]) <= B(peer_consumed) /\ B(num_read) <= B(updates'[i])
                                              /\ (pending # 0 => B(pending) <= B(updates'[i]))
    BY <1>8, <2>1, <2>2
  <2>5. ASSUME NEW i \in DOMAIN updates', NEW j \in i..Len(updates') PROVE B(updates'[j]) <= B(updates'[i])
    <3>1. j \in DOMAIN updates'
      BY <1>6, <2>2
    <3>2. CASE i \in DOMAIN updates /\ j \in DOMAIN updates
      <4>1. updates'[i] = updates[i] /\ updates'[j] = updates[j] /\ j \in i..Len(updates)
        BY <1>6, <2>2, <3>1, <3>2
      <4> QED
        BY <1>8, <3>2, <4>1
    <3>3. CASE i \in DOMAIN updates /\ j \notin DOMAIN updates
      <4>1. updates'[j] = sender[2] /\ updates'[i] = updates[i]
        BY <1>6, <2>2, <3>1, <3>3
      <4> QED
        BY <1>8, <2>1, <3>3, <4>1
    <3>4. CASE i \notin DOMAIN updates
      <4>1. i = Len(updates) + 1 /\ j = i
        BY <1>6, <2>2, <3>1, <3>4
      <4>2. updates'[j] = updates'[i] /\ updates'[i] = sender[2] /\ B(sender[2]) <= B(sender[2])
        <5>1. B(sender[2]) \in Nat
          BY <1>5, <1>6
        <5>2. updates'[i] = sender[2]
          BY <2>2, <3>4
        <5> QED
          BY <4>1, <5>1, <5>2
      <4> QED
        BY <4>2
    <3> QED
      BY <3>2, <3>3, <3>4
  <2>6. W!ToldInOrder(w)'
    BY <1>3, <1>8, <2>1, <2>4, <2>5 DEF B, W!ToldInOrder, W!Newest, W!NoEarlier, W!Behind, W!Sending
  <2>7. W!AllUnderWay(w)'
    BY <1>3, <1>7, <2>1 DEF B, W!AllUnderWay, W!Behind
  <2> QED
    BY <1>3, <1>9, <2>1, <2>3, <2>6, <2>7 DEF W!WindowInv
<1> QED
  BY <1>10, <1>11, <1>12, <1>13, <1>14

(* Every step of the stream keeps its invariant. *)
LEMMA WindowNext == ASSUME W!WindowInv, W!Next PROVE W!WindowInv'
<1>1. PICK w \in Writers : Writers = {w}
  BY WindowAssumption
<1>2. CASE \E len \in Lengths : W!Write(w, len)
  BY <1>1, <1>2, WindowWrites
<1>3. CASE W!WriteWindow(w) \/ W!WriteCount(w) \/ W!WriteWake(w)
  BY <1>1, <1>3, WindowWrites
<1>4. CASE W!WriteFrame(w)
  BY <1>1, <1>4, WindowFrame
<1>5. CASE W!Update \/ W!PushBytes \/ W!ReadChunk \/ W!SenderTake \/ W!SenderSend
  BY <1>1, <1>5, WindowReads
<1> QED
  BY <1>1, <1>2, <1>3, <1>4, <1>5 DEF W!Next

(* The invariant of the part. *)
WindowPart == part = "window" => W!WindowInv

(* It holds of every behaviour of the proxied connection. *)
LEMMA WindowHolds == Spec => []WindowPart
<1>1. Init => WindowPart
  BY WindowInit DEF Init, WindowPart
<1>2. WindowPart /\ [Next]_vars => WindowPart'
  <2> SUFFICES ASSUME WindowPart, [Next]_vars, part' = "window" PROVE W!WindowInv'
    BY DEF WindowPart
  <2>1. part = "window" /\ W!WindowInv
    BY DEF WindowPart, Next, vars
  <2>2. CASE W!Next
    BY <2>1, <2>2, WindowNext
  <2>3. CASE UNCHANGED vars
    <3>1. UNCHANGED <<num_written, peer_consumed, peer_window, update_event, writer, written,
                      data, updates, chunks, num_read, incr, pending, sender>>
      BY <2>3 DEF vars, windowVars
    <3> QED
      BY <2>1, <3>1 DEF W!WindowInv, W!TypeOK, W!WriterSound, W!Granted, W!ToldInOrder, W!AllUnderWay, W!Newest,
         W!NoEarlier, W!Behind, W!Handed, W!Uncounted, W!Sending
  <2> QED
    BY <2>1, <2>2, <2>3 DEF Next
<1> QED
  BY <1>1, <1>2, PTL DEF Spec

(* The writer is never further ahead than the larger of the two windows,   *)
(* and its "security check for malformed data" never fails on a peer that  *)
(* reports what it has read, however often the counters wrap (write_v2,    *)
(* account_read, update), whatever the windows and the sizes of frames.    *)
THEOREM WindowStays == Spec => []WindowKept
<1>1. WindowPart => WindowKept
  <2> SUFFICES ASSUME part = "window", W!WindowInv PROVE W!WindowRespected /\ W!HonestPeer
    BY DEF WindowPart, WindowKept
  <2>1. PICK w \in Writers : Writers = {w}
    BY WindowAssumption
  <2>2. /\ W!WriterSound(w) /\ W!ToldInOrder(w) /\ W!AllUnderWay(w) /\ Counts(w)
        /\ W!Behind(w, peer_consumed) <= W!Reach
        /\ \A x \in W!Seq32 : W!Behind(w, x) \in W!Seq32
    BY <2>1, CountFacts
  <2>3. W!HonestPeer
    BY <2>1, <2>2 DEF W!HonestPeer, W!WriterSound
  <2>4. W!Behind(w, num_read) <= W!Behind(w, peer_consumed)
    BY <2>2 DEF W!ToldInOrder, W!Newest, W!NoEarlier
  <2>5. W!Behind(w, num_read) \in Int /\ W!Behind(w, peer_consumed) \in Int /\ W!Reach \in Int
    BY <2>2, WrapFacts, ReachFacts DEF Counts
  <2> QED
    BY <2>2, <2>3, <2>4, <2>5 DEF W!WindowRespected, W!AllUnderWay
<1> QED
  BY <1>1, WindowHolds, PTL

-----------------------------------------------------------------------------
(* Qpp.                                                                    *)

(* Quotients and remainders, of any modulus. *)
LEMMA Division ==
    ASSUME NEW x \in Nat, NEW m \in Nat, m > 0
    PROVE  /\ x \div m \in Nat /\ x % m \in 0..(m - 1) /\ (x \div m) * m + (x % m) = x
           /\ \A q, r \in Nat : r < m /\ x = q * m + r => x \div m = q /\ x % m = r
<1>1. x \div m \in Nat /\ x % m \in 0..(m - 1)
  OBVIOUS
<1>2. (x \div m) * m + (x % m) = x
  BY Z3
<1>3. ASSUME NEW q \in Nat, NEW r \in Nat, r < m, x = q * m + r PROVE x \div m = q
  BY <1>3, Z3
<1>4. ASSUME NEW q \in Nat, NEW r \in Nat, r < m, x = q * m + r PROVE x % m = r
  BY <1>4, Z3
<1> QED
  BY <1>1, <1>2, <1>3, <1>4

(* The generators, of any number of words. *)
Gen == [word: Nat, count: 0..(PAD_SWITCH - 1)]

(* A place is one of a word, and a word of a place; and a word takes up    *)
(* places.                                                                 *)
LEMMA PlaceIs ==
    ASSUME NEW g \in Gen
    PROVE  /\ Q!Place(g) \in Nat /\ Q!Place(g) = g.word * PAD_SWITCH + g.count
           /\ \A h \in Gen : Q!Place(h) = Q!Place(g) => h = g
           /\ \A n \in Nat : Q!Place(g) <= PAD_SWITCH - 1 + n => g.word <= n
<1>1. PAD_SWITCH \in Nat \ {0} /\ g.word \in Nat /\ g.count \in 0..(PAD_SWITCH - 1)
  BY QppAssumption DEF Gen
<1>2. ASSUME NEW w \in Nat, NEW m \in Nat PROVE w * m \in Nat
  OBVIOUS
<1>3. Q!Place(g) \in Nat /\ Q!Place(g) = g.word * PAD_SWITCH + g.count
  BY <1>1, <1>2 DEF Q!Place
<1>4. ASSUME NEW h \in Gen, Q!Place(h) = Q!Place(g) PROVE h = g
  <2>1. h.word \in Nat /\ h.count \in 0..(PAD_SWITCH - 1)
    BY DEF Gen
  <2> DEFINE a == g.word
             b == h.word
             c == g.count
             d == h.count
  <2>2. a \in Nat /\ b \in Nat /\ c \in 0..(PAD_SWITCH - 1) /\ d \in 0..(PAD_SWITCH - 1) /\ a * PAD_SWITCH + c = b * PAD_SWITCH + d
    BY <1>1, <1>4, <2>1 DEF Q!Place
  <2> HIDE DEF a, b, c, d
  <2>3. a = b /\ c = d
    BY <1>1, <2>2
  <2>4. h.word = g.word /\ h.count = g.count
    BY <2>3 DEF a, b, c, d
  <2>5. h = [word |-> h.word, count |-> h.count] /\ g = [word |-> g.word, count |-> g.count]
    BY DEF Gen
  <2> QED
    BY <2>4, <2>5
<1>5. ASSUME NEW n \in Nat, Q!Place(g) <= PAD_SWITCH - 1 + n PROVE g.word <= n
  <2>1. ASSUME NEW w \in Nat, NEW m \in Nat \ {0}, w >= n + 1 PROVE w * m >= n + m
    <3>1. w * m >= (n + 1) * m
      BY <2>1, Z3
    <3>2. (n + 1) * m = n * m + m /\ n * m >= n
      BY <2>1, Z3
    <3> QED
      BY <3>1, <3>2, Z3
  <2>2. g.word >= n + 1 => g.word * PAD_SWITCH >= n + PAD_SWITCH
    BY <1>1, <2>1
  <2> DEFINE x == g.word * PAD_SWITCH
  <2>3. x \in Nat /\ x + g.count <= PAD_SWITCH - 1 + n
    BY <1>1, <1>2, <1>3, <1>5
  <2> HIDE DEF x
  <2> QED
    BY <1>1, <2>2, <2>3 DEF x
<1> QED
  BY <1>3, <1>4, <1>5

(* What is left of the word in use, *)
LEMMA RestIs ==
    ASSUME NEW g \in Gen, NEW n \in Nat
    PROVE  /\ Q!Rest(g, n) = IF g.count = 0 THEN 0 ELSE IF n <= PAD_SWITCH - g.count THEN n ELSE PAD_SWITCH - g.count
           /\ Q!Rest(g, n) \in 0..n
<1>1. ASSUME NEW a \in Int, NEW b \in Int PROVE Q!Min({a, b}) = IF a <= b THEN a ELSE b
  <2>1. \E x \in {a, b} : \A y \in {a, b} : x <= y
    OBVIOUS
  <2>2. Q!Min({a, b}) \in {a, b} /\ \A y \in {a, b} : Q!Min({a, b}) <= y
    BY <2>1 DEF Q!Min
  <2> QED
    BY <2>2
<1>2. PAD_SWITCH \in Nat \ {0} /\ g.count \in 0..(PAD_SWITCH - 1)
  BY QppAssumption DEF Gen
<1>3. Q!Min({n, PAD_SWITCH - g.count}) = IF n <= PAD_SWITCH - g.count THEN n ELSE PAD_SWITCH - g.count
  BY <1>1, <1>2
<1> QED
  BY <1>2, <1>3 DEF Q!Rest

(* and the generator after it.                                             *)
LEMMA AfterRestIs ==
    ASSUME NEW g \in Gen, NEW n \in Nat
    PROVE  /\ Q!AfterRest(g, n) \in Gen
           /\ Q!Place(Q!AfterRest(g, n)) = Q!Place(g) + Q!Rest(g, n)
           /\ n > Q!Rest(g, n) => /\ Q!AfterRest(g, n).count = 0
                                  /\ g.count + Q!Rest(g, n) \in {0, PAD_SWITCH}
           /\ n = Q!Rest(g, n) => Q!AfterRest(g, n).count = (g.count + n) % PAD_SWITCH
<1> DEFINE r == Q!Rest(g, n)
           a == Q!AfterRest(g, n)
           p == PAD_SWITCH
<1>1. p \in Nat \ {0} /\ g.word \in Nat /\ g.count \in 0..(p - 1) /\ r \in 0..n
  BY QppAssumption, RestIs DEF Gen
<1>2. r = IF g.count = 0 THEN 0 ELSE IF n <= p - g.count THEN n ELSE p - g.count
  BY RestIs
<1>3. CASE g.count # 0 /\ g.count + r = p
  <2>1. a = [word |-> g.word + 1, count |-> 0]
    BY <1>3 DEF Q!AfterRest
  <2>2. a \in Gen /\ a.word = g.word + 1 /\ a.count = 0
    BY <1>1, <2>1 DEF Gen
  <2>3. Q!Place(a) = (g.word + 1) * p + 0 /\ Q!Place(g) = g.word * p + g.count
    BY <2>2, PlaceIs
  <2>4. (g.word + 1) * p = g.word * p + p
    <3>1. ASSUME NEW w \in Nat, NEW m \in Nat PROVE (w + 1) * m = w * m + m /\ w * m \in Nat
      OBVIOUS
    <3> QED
      BY <1>1, <3>1
  <2>5. p % p = 0
    <3>1. ASSUME NEW m \in Nat, m > 0 PROVE m % m = 0
      BY <3>1, Z3
    <3> QED
      BY <1>1, <3>1
  <2>6. g.word * p \in Nat
    <3>1. ASSUME NEW w \in Nat, NEW m \in Nat PROVE w * m \in Nat
      OBVIOUS
    <3> QED
      BY <1>1, <3>1
  <2> DEFINE x == g.word * p
             y == (g.word + 1) * p
  <2>7. x \in Nat /\ y = x + p /\ Q!Place(a) = y + 0 /\ Q!Place(g) = x + g.count
    BY <2>3, <2>4, <2>6
  <2> HIDE DEF x, y
  <2>8. Q!Place(a) = Q!Place(g) + r
    BY <1>1, <1>3, <2>7
  <2> HIDE DEF r, a, p
  <2>9. n = r => (g.count + n) % p = 0
    BY <1>3, <2>5
  <2> QED
    BY <1>3, <2>2, <2>8, <2>9 DEF r, a, p
<1>4. CASE ~(g.count # 0 /\ g.count + r = p)
  <2>1. a = [g EXCEPT !.count = @ + r]
    BY <1>4 DEF Q!AfterRest
  <2>2. g.count + r \in 0..(p - 1)
    BY <1>1, <1>2, <1>4
  <2>3. a \in Gen /\ a.word = g.word /\ a.count = g.count + r
    BY <1>1, <2>1, <2>2 DEF Gen
  <2>4. Q!Place(a) = g.word * p + (g.count + r) /\ Q!Place(g) = g.word * p + g.count
    BY <2>3, PlaceIs
  <2>5. g.word * p \in Nat
    <3>1. ASSUME NEW w \in Nat, NEW m \in Nat PROVE w * m \in Nat
      OBVIOUS
    <3> QED
      BY <1>1, <3>1
  <2>6. Q!Place(a) = Q!Place(g) + r
    BY <1>1, <2>4, <2>5
  <2>7. n > r => g.count = 0 /\ r = 0
    BY <1>1, <1>2, <1>4
  <2>8. n = r => (g.count + n) % p = g.count + r
    BY <1>1, <2>2, ModSmall
  <2> QED
    BY <2>3, <2>6, <2>7, <2>8
<1> QED
  BY <1>3, <1>4

(* So many words on from a generator at the beginning of one. *)
LEMMA WordsOn ==
    ASSUME NEW a \in Gen, a.count = 0, NEW x \in Nat
    PROVE  LET g == [word |-> a.word + (x \div PAD_SWITCH), count |-> x % PAD_SWITCH]
           IN  g \in Gen /\ Q!Place(g) = Q!Place(a) + x
<1> DEFINE p == PAD_SWITCH
           q == x \div p
           m == x % p
           g == [word |-> a.word + q, count |-> m]
<1>1. p \in Nat /\ p > 0 /\ a.word \in Nat
  BY QppAssumption DEF Gen
<1>2. q \in Nat /\ m \in 0..(p - 1) /\ q * p + m = x
  BY <1>1, Division
<1> HIDE DEF q, m
<1>3. g \in Gen /\ g.word = a.word + q /\ g.count = m
  BY <1>1, <1>2 DEF Gen
<1>4. Q!Place(g) = (a.word + q) * p + m /\ Q!Place(a) = a.word * p + 0
  BY <1>3, PlaceIs
<1> DEFINE w == a.word
<1>5. w \in Nat /\ Q!Place(g) = (w + q) * p + m /\ Q!Place(a) = w * p + 0
  BY <1>1, <1>4
<1> HIDE DEF w, p, g
<1>6. (w + q) * p = w * p + q * p /\ w * p \in Nat /\ q * p \in Nat
  BY <1>1, <1>2, <1>5
<1>7. Q!Place(g) = Q!Place(a) + x
  <2> DEFINE u == w * p
             v == q * p
             z == (w + q) * p
  <2>1. u \in Nat /\ v \in Nat /\ z = u + v /\ v + m = x /\ Q!Place(g) = z + m /\ Q!Place(a) = u + 0
    BY <1>2, <1>5, <1>6
  <2> HIDE DEF u, v, z
  <2> QED
    BY <1>2, <2>1
<1> QED
  BY <1>3, <1>7 DEF g, q, m, p

(* The i-th byte meets the one of its place. *)
LEMMA MaskIs ==
    ASSUME NEW g \in Gen, NEW n \in Nat, NEW i \in 1..n
    PROVE  Q!MaskOf(g, n, i) \in Gen /\ Q!Place(Q!MaskOf(g, n, i)) = Q!Place(g) + (i - 1)
<1> DEFINE r == Q!Rest(g, n)
           a == Q!AfterRest(g, n)
           p == PAD_SWITCH
           j == i - r - 1
           G == Q!Groups(g, n)
           k == Q!MaskOf(g, n, i)
<1>1. p \in Nat /\ p > 0 /\ g.word \in Nat /\ g.count \in 0..(p - 1) /\ r \in 0..n
  BY QppAssumption, RestIs DEF Gen
<1>2. r = IF g.count = 0 THEN 0 ELSE IF n <= p - g.count THEN n ELSE p - g.count
  BY RestIs
<1>3. /\ a \in Gen /\ Q!Place(a) = Q!Place(g) + r
      /\ n > r => a.count = 0
  BY AfterRestIs
<1>4. k = CASE j < 0 -> [g EXCEPT !.count = @ + i - 1]
            [] j \in 0..(G * p - 1) -> [word |-> a.word + (j \div p), count |-> j % p]
            [] OTHER -> [word |-> a.word + G, count |-> a.count + (j % p)]
  BY DEF Q!MaskOf
<1>5. Q!Place(g) \in Nat
  BY PlaceIs
<1>6. G = (n - r) \div p
  BY DEF Q!Groups
<1> HIDE DEF r, a, G, k
<1>7. CASE j < 0
  <2>1. k = [g EXCEPT !.count = @ + i - 1]
    BY <1>4, <1>7
  <2>2. g.count + i - 1 \in 0..(p - 1)
    BY <1>1, <1>2, <1>7
  <2>3. k \in Gen /\ k.word = g.word /\ k.count = g.count + i - 1
    BY <1>1, <2>1, <2>2 DEF Gen
  <2>4. Q!Place(k) = g.word * p + (g.count + i - 1) /\ Q!Place(g) = g.word * p + g.count
    BY <2>3, PlaceIs
  <2> DEFINE u == g.word * p
  <2>5. u \in Nat
    <3>1. ASSUME NEW w \in Nat, NEW m \in Nat PROVE w * m \in Nat
      OBVIOUS
    <3> QED
      BY <1>1, <3>1
  <2>6. Q!Place(k) = u + (g.count + i - 1) /\ Q!Place(g) = u + g.count
    BY <2>4
  <2> HIDE DEF u
  <2>7. Q!Place(k) = Q!Place(g) + (i - 1)
    BY <1>1, <2>5, <2>6
  <2> QED
    BY <2>3, <2>7 DEF k
<1>8. CASE j >= 0
  <2>1. a.count = 0 /\ j \in Nat /\ n - r \in Nat /\ j < n - r
    BY <1>1, <1>3, <1>8
  <2>2. k = [word |-> a.word + (j \div p), count |-> j % p]
    <3>1. CASE j \in 0..(G * p - 1)
      BY <1>4, <2>1, <3>1
    <3>2. CASE j \notin 0..(G * p - 1)
      <4>1. k = [word |-> a.word + G, count |-> 0 + (j % p)]
        BY <1>4, <2>1, <3>2
      <4> DEFINE m == (n - r) % p
                 s == G * p
      <4>2. G \in Nat /\ m \in 0..(p - 1) /\ s + m = n - r
        BY <1>1, <1>6, <2>1, Division
      <4>3. s \in Nat
        <5>1. ASSUME NEW w \in Nat, NEW z \in Nat PROVE w * z \in Nat
          OBVIOUS
        <5> QED
          BY <1>1, <4>2, <5>1
      <4>4. j \notin 0..(s - 1)
        BY <3>2
      <4> HIDE DEF m, s
      <4>5. j - s \in Nat /\ j - s < p /\ j = s + (j - s)
        BY <1>1, <2>1, <4>2, <4>3, <4>4
      <4>6. j = G * p + (j - s)
        BY <4>5 DEF s
      <4>7. j \div p = G
        BY <1>1, <2>1, <4>2, <4>5, <4>6, Division
      <4>8. j % p \in Nat
        BY <1>1, <2>1, Division
      <4> QED
        BY <4>1, <4>7, <4>8
    <3> QED
      BY <3>1, <3>2
  <2>3. k \in Gen /\ Q!Place(k) = Q!Place(a) + j
    BY <1>3, <2>1, <2>2, WordsOn
  <2>4. Q!Place(k) = Q!Place(g) + (i - 1)
    BY <1>1, <1>3, <1>5, <2>3
  <2> QED
    BY <2>3, <2>4 DEF k
<1> QED
  BY <1>1, <1>7, <1>8

(* The generator is written back at the place of the next byte. *)
LEMMA WriteBackIs ==
    ASSUME NEW g \in Gen, NEW n \in Nat
    PROVE  Q!WriteBack(g, n) \in Gen /\ Q!Place(Q!WriteBack(g, n)) = Q!Place(g) + n
<1> DEFINE r == Q!Rest(g, n)
           a == Q!AfterRest(g, n)
           p == PAD_SWITCH
           x == n - r
           k == Q!WriteBack(g, n)
<1>1. p \in Nat /\ p > 0 /\ g.count \in 0..(p - 1) /\ r \in 0..n /\ x \in Nat
  <2>1. p \in Nat /\ p > 0 /\ g.count \in 0..(p - 1) /\ r \in 0..n
    BY QppAssumption, RestIs DEF Gen
  <2> QED
    BY <2>1
<1>2. /\ a \in Gen /\ Q!Place(a) = Q!Place(g) + r
      /\ n > r => a.count = 0 /\ g.count + r \in {0, p}
      /\ n = r => a.count = (g.count + n) % p
  BY AfterRestIs
<1>3. k = [word |-> a.word + (x \div p), count |-> (g.count + n) % p]
  BY DEF Q!WriteBack, Q!Groups
<1>4. Q!Place(g) \in Nat
  BY PlaceIs
<1> HIDE DEF r, a, k
<1>5. CASE n = r
  <2>1. x = 0 /\ x \div p = 0
    <3>1. x = 0 /\ 0 = 0 * p + 0
      BY <1>1, <1>5
    <3> QED
      BY <1>1, <3>1, Division
  <2>2. a.word \in Nat /\ a = [word |-> a.word, count |-> a.count]
    BY <1>2 DEF Gen
  <2>3. k = a
    BY <1>2, <1>3, <1>5, <2>1, <2>2
  <2> QED
    BY <1>2, <1>5, <2>3 DEF k
<1>6. CASE n > r
  <2>1. (g.count + n) % p = x % p
    <3>1. CASE g.count + r = 0
      <4>1. g.count + n = x
        BY <1>1, <3>1
      <4> QED
        BY <4>1
    <3>2. CASE g.count + r = p
      <4> DEFINE q == x \div p
                 m == x % p
      <4>1. q \in Nat /\ m \in 0..(p - 1) /\ q * p + m = x
        BY <1>1, Division
      <4>2. g.count + n = p + x /\ g.count + n \in Nat
        BY <1>1, <3>2
      <4> HIDE DEF q, m, p
      <4>3. (q + 1) * p = q * p + p /\ q * p \in Nat
        BY <1>1, <4>1
      <4>4. p + x = (q + 1) * p + m
        BY <1>1, <4>1, <4>3
      <4> DEFINE y == p + x
                 z == q + 1
      <4>5. y \in Nat /\ z \in Nat /\ m \in Nat /\ m < p /\ y = z * p + m
        BY <1>1, <4>1, <4>2, <4>4
      <4> HIDE DEF y, z
      <4>6. y % p = m
        BY <1>1, <4>5, Division
      <4> QED
        BY <4>2, <4>6 DEF m, y
    <3> QED
      BY <1>2, <1>6, <3>1, <3>2
  <2>2. k \in Gen /\ Q!Place(k) = Q!Place(a) + x
    BY <1>1, <1>2, <1>3, <1>6, <2>1, WordsOn
  <2>3. Q!Place(k) = Q!Place(g) + n
    BY <1>1, <1>2, <1>4, <2>2
  <2> QED
    BY <2>2, <2>3 DEF k
<1> QED
  BY <1>1, <1>5, <1>6

-----------------------------------------------------------------------------
(* The place before the first byte of the behaviour, which never changes,  *)
(* and what Follows says, in terms of it.                                  *)
Base == Q!Place(rprng) - Len(plain)
Fol(c, b, n) == \A i \in DOMAIN c : c[i].byte = n + i /\ Q!Place(c[i].mask) = b + n + (i - 1)

Takes(w, out, k, w2, o2) == w2 = w \o SubSeq(out, 1, k) /\ o2 = SubSeq(out, k + 1, Len(out))

(* Ciphertext that a connection takes still follows what it took. *)
LEMMA TakesRight ==
    ASSUME NEW w \in Seq(Q!Masked), NEW out \in Seq(Q!Masked), NEW b \in Int, NEW n \in Nat,
           Fol(w, b, n), Fol(out, b, n + Len(w)), NEW k \in 0..Len(out),
           NEW w2, NEW o2, Takes(w, out, k, w2, o2)
    PROVE  /\ w2 \in Seq(Q!Masked) /\ o2 \in Seq(Q!Masked)
           /\ Len(w2) = Len(w) + k /\ Len(o2) = Len(out) - k
           /\ Fol(w2, b, n) /\ Fol(o2, b, n + Len(w2))
<1> DEFINE h == SubSeq(out, 1, k)
<1>0. w2 = w \o h /\ o2 = SubSeq(out, k + 1, Len(out))
  BY DEF Takes
<1>1. /\ h \in Seq(Q!Masked) /\ Len(h) = k /\ \A i \in 1..k : h[i] = out[i]
  OBVIOUS
<1>2. /\ o2 \in Seq(Q!Masked) /\ Len(o2) = Len(out) - k /\ \A i \in 1..(Len(out) - k) : o2[i] = out[i + k]
  BY <1>0
<1> HIDE DEF h
<1>3. /\ w2 \in Seq(Q!Masked) /\ Len(w2) = Len(w) + k
      /\ \A i \in 1..(Len(w) + k) : w2[i] = IF i <= Len(w) THEN w[i] ELSE h[i - Len(w)]
  <2>1. /\ w \o h \in Seq(Q!Masked) /\ Len(w \o h) = Len(w) + Len(h)
        /\ \A i \in 1..(Len(w) + Len(h)) : (w \o h)[i] = IF i <= Len(w) THEN w[i] ELSE h[i - Len(w)]
    BY <1>1, ConcatElements, Zenon
  <2> QED
    BY <1>0, <1>1, <2>1, Zenon
<1>4. Len(w) \in Nat /\ Len(out) \in Nat /\ DOMAIN w = 1..Len(w) /\ DOMAIN out = 1..Len(out)
      /\ DOMAIN w2 = 1..(Len(w) + k) /\ DOMAIN o2 = 1..(Len(out) - k)
  BY <1>2, <1>3
<1>5. ASSUME NEW i \in 1..(Len(w) + k) PROVE w2[i].byte = n + i /\ Q!Place(w2[i].mask) = b + n + (i - 1)
  <2>1. CASE i <= Len(w)
    <3>1. i \in DOMAIN w /\ w2[i] = w[i]
      BY <1>3, <1>4, <2>1
    <3>2. w[i].byte = n + i /\ Q!Place(w[i].mask) = b + n + (i - 1)
      BY <3>1, Zenon DEF Fol
    <3> QED
      BY <3>1, <3>2, Zenon
  <2>2. CASE i > Len(w)
    <3> DEFINE j == i - Len(w)
    <3>1. j \in 1..k /\ j \in DOMAIN out /\ w2[i] = out[j]
      BY <1>1, <1>3, <1>4, <2>2
    <3>2. (n + Len(w)) + j = n + i /\ b + (n + Len(w)) + (j - 1) = b + n + (i - 1)
      BY <1>4
    <3> HIDE DEF j
    <3>3. out[j].byte = (n + Len(w)) + j /\ Q!Place(out[j].mask) = b + (n + Len(w)) + (j - 1)
      BY <3>1, Zenon DEF Fol
    <3> QED
      BY <3>1, <3>2, <3>3, Zenon
  <2> QED
    BY <1>4, <2>1, <2>2
<1>6. ASSUME NEW i \in 1..(Len(out) - k)
      PROVE  o2[i].byte = (n + Len(w2)) + i /\ Q!Place(o2[i].mask) = b + (n + Len(w2)) + (i - 1)
  <2> DEFINE j == i + k
  <2>1. j \in DOMAIN out /\ o2[i] = out[j]
    <3>1. o2[i] = out[i + k]
      BY <1>2, Zenon
    <3> DEFINE x == Len(out)
    <3>2. x \in Nat /\ k \in 0..x /\ i \in 1..(x - k)
      BY <1>4
    <3> HIDE DEF x
    <3>3. i + k \in 1..x
      BY <3>2
    <3> QED
      BY <1>4, <3>1, <3>3 DEF x
  <2>2. (n + Len(w)) + j = (n + Len(w2)) + i /\ b + (n + Len(w)) + (j - 1) = b + (n + Len(w2)) + (i - 1)
    <3> DEFINE x == Len(w)
               y == Len(w2)
    <3>1. x \in Nat /\ y = x + k /\ k \in Nat /\ i \in Nat
      BY <1>3, <1>4
    <3> HIDE DEF x, y
    <3>2. (n + x) + (i + k) = (n + y) + i /\ b + (n + x) + ((i + k) - 1) = b + (n + y) + (i - 1)
      BY <3>1
    <3> QED
      BY <3>2 DEF x, y
  <2> HIDE DEF j
  <2>3. out[j].byte = (n + Len(w)) + j /\ Q!Place(out[j].mask) = b + (n + Len(w)) + (j - 1)
    BY <2>1, Zenon DEF Fol
  <2> QED
    BY <2>1, <2>2, <2>3, Zenon
<1> QED
  BY <1>2, <1>3, <1>4, <1>5, <1>6 DEF Fol

(* QppInv, taken apart. *)
LEMMA QppIs ==
    ASSUME Q!QppInv
    PROVE  /\ QppBytes \in Nat /\ PAD_SWITCH \in Nat /\ PAD_SWITCH > 0 /\ QppSlices \subseteq Nat \ {0}
           /\ slice \in {0} \cup QppSlices /\ slice \in Nat /\ acked \in 0..QppBytes /\ staged \in {0} \cup QppSlices
           /\ staged \in Nat /\ obuf \in Seq(Q!Masked) /\ wire \in Seq(Q!Masked) /\ plain \in Seq(0..QppBytes)
           /\ wprng \in Q!Generator /\ rprng \in Q!Generator /\ end \in {"open", "shut", "failed"} /\ flushes \in 0..MaxFlush
           /\ wprng \in Gen /\ rprng \in Gen /\ Q!Place(wprng) \in Nat /\ Q!Place(rprng) \in Nat
           /\ Len(plain) \in Nat /\ Len(wire) \in Nat /\ Len(obuf) \in Nat
           /\ Base \in 0..(PAD_SWITCH - 1) /\ Fol(wire, Base, Len(plain)) /\ Fol(obuf, Base, Len(plain) + Len(wire))
           /\ Q!Place(wprng) = Q!Place(rprng) + Len(wire) + Len(obuf)
           /\ Len(obuf) <= staged /\ acked + slice <= QppBytes /\ (staged # 0 => staged = slice)
           /\ acked + staged = Len(plain) + Len(wire) + Len(obuf)
           /\ \A i \in DOMAIN plain : plain[i] = i
<1>1. QppBytes \in Nat /\ PAD_SWITCH \in Nat /\ PAD_SWITCH > 0 /\ QppSlices \subseteq Nat \ {0}
  BY QppAssumption
<1>2. Q!TypeOK /\ Q!Aligned /\ Q!Staged /\ \A i \in DOMAIN plain : plain[i] = i
  BY DEF Q!QppInv
<1>3. \A g \in Q!Generator : g \in Gen
  BY <1>1 DEF Q!Generator, Gen
<1>4. /\ wprng \in Q!Generator /\ rprng \in Q!Generator /\ obuf \in Seq(Q!Masked) /\ wire \in Seq(Q!Masked)
      /\ plain \in Seq(0..QppBytes)
      /\ slice \in {0} \cup QppSlices /\ acked \in 0..QppBytes /\ staged \in {0} \cup QppSlices
      /\ end \in {"open", "shut", "failed"} /\ flushes \in 0..MaxFlush
  BY <1>2 DEF Q!TypeOK
<1>5. slice \in Nat /\ staged \in Nat
  <2>1. \A x \in {0} \cup QppSlices : x \in Nat
    BY <1>1
  <2> QED
    BY <1>4, <2>1, Zenon
<1>6. Q!Place(wprng) \in Nat /\ Q!Place(rprng) \in Nat
  BY <1>3, <1>4, PlaceIs
<1>7. Len(plain) \in Nat /\ Len(wire) \in Nat /\ Len(obuf) \in Nat
  BY <1>4
<1>8. Base \in 0..(PAD_SWITCH - 1)
  BY <1>2 DEF Q!Aligned, Base
<1>9. Fol(wire, Base, Len(plain)) /\ Fol(obuf, Base, Len(plain) + Len(wire))
  <2>1. Q!Follows(wire, Len(plain)) /\ Q!Follows(obuf, Len(plain) + Len(wire))
    BY <1>2 DEF Q!Aligned
  <2>2. ASSUME NEW c, DOMAIN c \subseteq Int, NEW n \in Nat, Q!Follows(c, n) PROVE Fol(c, Base, n)
    <3>1. ASSUME NEW i \in DOMAIN c PROVE c[i].byte = n + i /\ Q!Place(c[i].mask) = Base + n + (i - 1)
      <4>1. c[i].byte = n + i /\ Q!Place(c[i].mask) = Q!Place(rprng) + (n - Len(plain)) + (i - 1)
        BY <2>2 DEF Q!Follows
      <4>2. i \in Int
        BY <2>2
      <4> QED
        BY <1>6, <1>7, <4>1, <4>2 DEF Base
    <3> QED
      BY <3>1 DEF Fol
  <2>3. DOMAIN wire \subseteq Int /\ DOMAIN obuf \subseteq Int /\ Len(plain) + Len(wire) \in Nat
    BY <1>4, <1>7
  <2> QED
    BY <1>7, <2>1, <2>2, <2>3
<1> QED
  BY <1>1, <1>2, <1>3, <1>4, <1>5, <1>6, <1>7, <1>8, <1>9 DEF Q!Aligned, Q!Staged

(* And put together again. *)
LEMMA QppFrom ==
    ASSUME slice' \in {0} \cup QppSlices, acked' \in 0..QppBytes, staged' \in {0} \cup QppSlices,
           obuf' \in Seq(Q!Masked), wire' \in Seq(Q!Masked), plain' \in Seq(0..QppBytes),
           wprng' \in Q!Generator, rprng' \in Q!Generator, end' \in {"open", "shut", "failed"}, flushes' \in 0..MaxFlush,
           Base' \in 0..(PAD_SWITCH - 1), Fol(wire', Base', Len(plain')), Fol(obuf', Base', Len(plain') + Len(wire')),
           Q!Place(wprng') = Q!Place(rprng') + Len(wire') + Len(obuf'),
           Len(obuf') <= staged', acked' + slice' <= QppBytes, staged' # 0 => staged' = slice',
           acked' + staged' = Len(plain') + Len(wire') + Len(obuf'),
           \A i \in DOMAIN plain' : plain'[i] = i
    PROVE  Q!QppInv'
<1>1. Q!TypeOK'
  BY DEF Q!TypeOK, Q!Masked, Q!Generator
<1>2. Q!Staged'
  BY DEF Q!Staged
<1>3. Len(plain') \in Nat /\ Len(wire') \in Nat /\ Q!Place(rprng') \in Nat
  <2>1. rprng' \in Gen
    BY QppAssumption DEF Q!Generator, Gen
  <2>2. Q!Place(rprng') \in Nat
    BY <2>1, PlaceIs
  <2>3. \A T : \A s \in Seq(T) : Len(s) \in Nat
    OBVIOUS
  <2> QED
    BY <2>2, <2>3, Zenon
<1>4. Base' = Q!Place(rprng') - Len(plain')
  BY DEF Base, Q!Place
<1>5. ASSUME NEW c, DOMAIN c \subseteq Int, NEW n \in Nat, Fol(c, Base', n)
      PROVE  \A i \in DOMAIN c : /\ c[i].byte = n + i
                                 /\ Q!Place(c[i].mask) = Q!Place(rprng') + (n - Len(plain')) + (i - 1)
  <2>1. ASSUME NEW i \in DOMAIN c
        PROVE  c[i].byte = n + i /\ Q!Place(c[i].mask) = Q!Place(rprng') + (n - Len(plain')) + (i - 1)
    <3>1. c[i].byte = n + i /\ Q!Place(c[i].mask) = Base' + n + (i - 1)
      BY <1>5, Zenon DEF Fol
    <3>2. i \in Int
      BY <1>5
    <3> DEFINE u == Q!Place(rprng')
               v == Len(plain')
               w == Base'
    <3>3. u \in Nat /\ v \in Nat /\ w = u - v
      BY <1>3, <1>4
    <3>4. Q!Place(c[i].mask) = w + n + (i - 1)
      BY <3>1
    <3> HIDE DEF u, v, w
    <3>5. w + n + (i - 1) = u + (n - v) + (i - 1)
      BY <3>2, <3>3
    <3> QED
      BY <3>1, <3>4, <3>5 DEF u, v
  <2> QED
    BY <2>1
<1>6. DOMAIN wire' \subseteq Int /\ DOMAIN obuf' \subseteq Int /\ Len(plain') + Len(wire') \in Nat
  <2>1. \A c \in Seq(Q!Masked) : DOMAIN c \subseteq Int
    <3>1. ASSUME NEW c \in Seq(Q!Masked) PROVE DOMAIN c \subseteq Int
      <4>1. DOMAIN c = 1..Len(c)
        OBVIOUS
      <4> QED
        BY <4>1
    <3> QED
      BY <3>1
  <2>2. DOMAIN wire' \subseteq Int /\ DOMAIN obuf' \subseteq Int
    BY <2>1, Zenon
  <2>3. Len(plain') + Len(wire') \in Nat
    BY <1>3
  <2> QED
    BY <2>2, <2>3, Zenon
<1>7. \A i \in DOMAIN wire' : /\ wire'[i].byte = Len(plain') + i
                              /\ Q!Place(wire'[i].mask) = Q!Place(rprng') + (Len(plain') - Len(plain')) + (i - 1)
  BY <1>3, <1>5, <1>6
<1>8. \A i \in DOMAIN obuf' : /\ obuf'[i].byte = (Len(plain') + Len(wire')) + i
                              /\ Q!Place(obuf'[i].mask) = Q!Place(rprng') + ((Len(plain') + Len(wire')) - Len(plain')) + (i - 1)
  BY <1>3, <1>5, <1>6
<1>9. Q!Follows(wire, Len(plain))' /\ Q!Follows(obuf, Len(plain) + Len(wire))'
  BY <1>7, <1>8 DEF Q!Follows, Q!Place
<1>10. Q!Aligned'
  BY <1>4, <1>9 DEF Q!Aligned, Q!Place
<1> QED
  BY <1>1, <1>2, <1>10 DEF Q!QppInv

(* A generator as far on as a byte that may be written is one of the type. *)
LEMMA GeneratorIs ==
    ASSUME Q!QppInv, NEW g \in Gen, NEW n \in 0..QppBytes, Q!Place(g) = Base + n
    PROVE  g \in Q!Generator
<1>1. Base \in 0..(PAD_SWITCH - 1) /\ QppBytes \in Nat /\ PAD_SWITCH \in Nat
  BY QppIs
<1>2. Q!Place(g) <= PAD_SWITCH - 1 + QppBytes
  BY <1>1
<1>3. g.word <= QppBytes
  BY <1>1, <1>2, PlaceIs
<1> QED
  BY <1>1, <1>3 DEF Gen, Q!Generator

(* What a call of poll_write() has to drain. *)
LEMMA QppOut ==
    ASSUME Q!QppInv, slice # 0, NEW g, g = IF staged = 0 THEN Q!WriteBack(wprng, slice) ELSE wprng,
           NEW out, out = Q!Encrypted
    PROVE  /\ out \in Seq(Q!Masked) /\ Fol(out, Base, Len(plain) + Len(wire)) /\ Len(out) <= slice
           /\ acked + slice = Len(plain) + Len(wire) + Len(out)
           /\ g \in Q!Generator /\ Q!Place(g) = Q!Place(rprng) + Len(wire) + Len(out)
<1>1. QppBytes \in Nat /\ slice \in Nat /\ acked \in Nat /\ staged \in Nat /\ acked + slice <= QppBytes
  BY QppIs
<1>2. /\ Len(plain) \in Nat /\ Len(wire) \in Nat /\ Len(obuf) \in Nat /\ Base \in Int
      /\ Len(obuf) <= staged /\ (staged # 0 => staged = slice)
      /\ acked + staged = Len(plain) + Len(wire) + Len(obuf)
  BY QppIs
<1>3. /\ Q!Place(wprng) \in Nat /\ Q!Place(rprng) \in Nat /\ wprng \in Gen
      /\ Q!Place(wprng) = Q!Place(rprng) + Len(wire) + Len(obuf)
  BY QppIs
<1>4. Q!Place(rprng) = Base + Len(plain)
  BY <1>2, <1>3 DEF Base
<1>5. CASE staged # 0
  <2>1. out = obuf /\ g = wprng
    BY <1>5 DEF Q!Encrypted
  <2>2. obuf \in Seq(Q!Masked) /\ Fol(obuf, Base, Len(plain) + Len(wire)) /\ wprng \in Q!Generator
    BY QppIs
  <2>3. Len(obuf) <= slice /\ acked + slice = Len(plain) + Len(wire) + Len(obuf)
    <3>1. staged = slice
      BY <1>2, <1>5
    <3> QED
      BY <1>2, <3>1, Zenon
  <2> QED
    <3>1. out \in Seq(Q!Masked) /\ Fol(out, Base, Len(plain) + Len(wire))
      BY <2>1, <2>2, Zenon
    <3>2. Len(out) <= slice /\ acked + slice = Len(plain) + Len(wire) + Len(out)
      BY <2>1, <2>3, Zenon
    <3>3. g \in Q!Generator /\ Q!Place(g) = Q!Place(rprng) + Len(wire) + Len(out)
      BY <1>3, <2>1, <2>2, Zenon
    <3> QED
      BY <3>1, <3>2, <3>3, Zenon
<1>6. CASE staged = 0
  <2>1. Len(obuf) = 0 /\ acked = Len(plain) + Len(wire) /\ Q!Place(wprng) = Base + acked
    BY <1>1, <1>2, <1>3, <1>4, <1>6
  <2>2. g = Q!WriteBack(wprng, slice)
    BY <1>6
  <2>3. g \in Gen /\ Q!Place(g) = Base + (acked + slice)
    BY <1>1, <1>2, <1>3, <2>1, <2>2, WriteBackIs
  <2>4. g \in Q!Generator
    BY <1>1, <2>3, GeneratorIs
  <2> DEFINE b == [i \in 1..slice |-> acked + i]
  <2>5. out = [i \in 1..slice |-> [byte |-> acked + i, mask |-> Q!MaskOf(wprng, slice, i)]]
    <3>1. b \in [1..slice -> Nat] /\ DOMAIN b = 1..slice
      BY <1>1
    <3>2. Len(b) = slice
      BY <1>1, <3>1, FunctionIsSeq
    <3>3. out = Q!encrypt_with_prng(b)
      BY <1>6 DEF Q!Encrypted
    <3> HIDE DEF b
    <3>4. out = [i \in 1..slice |-> [byte |-> b[i], mask |-> Q!MaskOf(wprng, slice, i)]]
      BY <3>1, <3>2, <3>3 DEF Q!encrypt_with_prng
    <3> QED
      BY <3>4 DEF b
  <2>6. ASSUME NEW i \in 1..slice
        PROVE  /\ out[i] \in Q!Masked /\ out[i].byte = acked + i
               /\ Q!Place(out[i].mask) = Base + acked + (i - 1)
    <3> DEFINE m == Q!MaskOf(wprng, slice, i)
    <3>1. m \in Gen /\ Q!Place(m) = Q!Place(wprng) + (i - 1)
      BY <1>1, <1>3, MaskIs
    <3>2. Q!Place(m) = Base + (acked + (i - 1)) /\ acked + (i - 1) \in 0..QppBytes /\ acked + i \in 1..QppBytes
      BY <1>1, <1>2, <2>1, <3>1
    <3>3. m \in Q!Generator
      BY <3>1, <3>2, GeneratorIs
    <3>4. out[i] = [byte |-> acked + i, mask |-> m]
      BY <2>5
    <3> HIDE DEF m
    <3>5. out[i] \in Q!Masked /\ out[i].byte = acked + i /\ out[i].mask = m
      BY <3>2, <3>3, <3>4 DEF Q!Masked
    <3> QED
      BY <1>1, <1>2, <3>2, <3>5
  <2>7. out \in [1..slice -> Q!Masked]
    BY <2>5, <2>6
  <2>8. out \in Seq(Q!Masked) /\ Len(out) = slice /\ DOMAIN out = 1..slice
    BY <1>1, <2>7, FunctionIsSeq
  <2>9. Fol(out, Base, Len(plain) + Len(wire))
    BY <2>1, <2>6, <2>8 DEF Fol
  <2> QED
    <3>1. Base + (acked + slice) = Q!Place(rprng) + Len(wire) + slice
      BY <1>1, <1>2, <1>3, <1>4, <2>1
    <3>2. acked + slice = Len(plain) + Len(wire) + slice
      BY <1>1, <1>2, <2>1
    <3>3. Len(out) <= slice
      BY <1>1, <2>8
    <3> QED
      BY <2>3, <2>4, <2>8, <2>9, <3>1, <3>2, <3>3, Zenon
<1> QED
  BY <1>1, <1>5, <1>6, Zenon

(* What draining keeps. *)
LEMMA QppDrains ==
    ASSUME Q!QppInv, NEW out \in Seq(Q!Masked), Fol(out, Base, Len(plain) + Len(wire)), NEW k \in 0..Len(out),
           Takes(wire, out, k, wire', obuf'), UNCHANGED <<rprng, plain>>
    PROVE  /\ wire' \in Seq(Q!Masked) /\ obuf' \in Seq(Q!Masked)
           /\ Len(wire') = Len(wire) + k /\ Len(obuf') = Len(out) - k
           /\ Base' = Base /\ Fol(wire', Base', Len(plain')) /\ Fol(obuf', Base', Len(plain') + Len(wire'))
<1>1. wire \in Seq(Q!Masked) /\ Base \in Int /\ Len(plain) \in Nat /\ Fol(wire, Base, Len(plain))
  BY QppIs
<1>2. /\ wire' \in Seq(Q!Masked) /\ obuf' \in Seq(Q!Masked)
      /\ Len(wire') = Len(wire) + k /\ Len(obuf') = Len(out) - k
      /\ Fol(wire', Base, Len(plain)) /\ Fol(obuf', Base, Len(plain) + Len(wire'))
  BY <1>1, TakesRight
<1>3. Base' = Base /\ plain' = plain
  BY DEF Base, Q!Place
<1> QED
  BY <1>2, <1>3, Zenon

(* A write is offered, and poll_write() called. *)
LEMMA QppOffer == ASSUME Q!QppInv, NEW n \in QppSlices, Q!Offer(n) PROVE Q!QppInv'
<1>1. /\ slice' = n /\ UNCHANGED <<acked, obuf, staged, wprng, wire, rprng, plain, end, flushes>>
      /\ slice = 0 /\ acked + n <= QppBytes
  BY DEF Q!Offer
<1>2. Base' = Base /\ staged' = staged
  BY <1>1 DEF Base, Q!Place
<1>3. staged = 0
  BY <1>1, QppIs, QppAssumption
<1> QED
  BY <1>1, <1>2, <1>3, QppIs, QppFrom

(* A write, with the drain that ends it, keeps waiting or fails. *)
LEMMA QppWrite == ASSUME Q!QppInv, NEW k \in 0..QppBytes, Q!PollWrite(k) PROVE Q!QppInv'
<1> DEFINE out == Q!Encrypted
           g == wprng'
<1>1. /\ slice # 0 /\ g = (IF staged = 0 THEN Q!WriteBack(wprng, slice) ELSE wprng)
      /\ k \in 0..Len(out) /\ Takes(wire, out, k, wire', obuf')
      /\ end' \in {"open", "failed", end} /\ UNCHANGED <<rprng, plain, flushes>>
      /\ IF Q!Drained THEN acked' = acked + slice /\ staged' = 0 /\ slice' = 0
                      ELSE staged' = slice /\ UNCHANGED <<acked, slice>>
  BY DEF Q!PollWrite, Q!Drain, Takes
<1>2. /\ out \in Seq(Q!Masked) /\ Fol(out, Base, Len(plain) + Len(wire)) /\ Len(out) <= slice
      /\ acked + slice = Len(plain) + Len(wire) + Len(out)
      /\ g \in Q!Generator /\ Q!Place(g) = Q!Place(rprng) + Len(wire) + Len(out)
  <2> HIDE DEF out, g
  <2> QED
    BY <1>1, QppOut DEF out
<1> HIDE DEF out
<1>3. /\ wire' \in Seq(Q!Masked) /\ obuf' \in Seq(Q!Masked)
      /\ Len(wire') = Len(wire) + k /\ Len(obuf') = Len(out) - k
      /\ Base' = Base /\ Fol(wire', Base', Len(plain')) /\ Fol(obuf', Base', Len(plain') + Len(wire'))
  BY <1>1, <1>2, QppDrains
<1>4. /\ QppBytes \in Nat /\ slice \in QppSlices /\ slice \in Nat /\ acked \in 0..QppBytes
      /\ plain \in Seq(0..QppBytes) /\ rprng \in Q!Generator /\ end \in {"open", "shut", "failed"} /\ flushes \in 0..MaxFlush
      /\ Base \in 0..(PAD_SWITCH - 1) /\ acked + slice <= QppBytes /\ \A i \in DOMAIN plain : plain[i] = i
      /\ Len(plain) \in Nat /\ Len(wire) \in Nat /\ Q!Place(rprng) \in Nat
  BY <1>1, QppIs
<1>5. Len(out) \in Nat
  BY <1>2
<1>6. Q!Place(wprng') = Q!Place(rprng') + Len(wire') + Len(obuf')
  <2>1. (Q!Place(rprng) + Len(wire)) + Len(out) = (Q!Place(rprng) + (Len(wire) + k)) + (Len(out) - k)
    BY <1>1, <1>4, <1>5
  <2>2. Q!Place(wprng') = (Q!Place(rprng) + (Len(wire) + k)) + (Len(out) - k)
    BY <1>2, <2>1, Zenon
  <2>3. rprng' = rprng
    BY <1>1
  <2> QED
    BY <1>3, <2>2, <2>3, Zenon
<1>7. plain' = plain /\ rprng' = rprng /\ flushes' = flushes /\ end' \in {"open", "shut", "failed"}
  BY <1>1, <1>4
<1>8. CASE Q!Drained
  <2>1. acked' = acked + slice /\ staged' = 0 /\ slice' = 0 /\ Len(obuf') = 0 /\ obuf' = <<>>
    BY <1>1, <1>8 DEF Q!Drained
  <2>2. Len(out) = k
    BY <1>1, <1>3, <1>5, <2>1
  <2>3. /\ acked' \in 0..QppBytes /\ acked' + slice' <= QppBytes /\ Len(obuf') <= staged'
        /\ acked' + staged' = (Len(plain) + (Len(wire) + k)) + 0
    BY <1>2, <1>4, <1>5, <2>1, <2>2
  <2>4. acked' + staged' = Len(plain') + Len(wire') + Len(obuf')
    BY <1>3, <1>7, <2>1, <2>3, Zenon
  <2> QED
    BY <1>2, <1>3, <1>4, <1>6, <1>7, <2>1, <2>3, <2>4, QppFrom
<1>9. CASE ~Q!Drained
  <2>1. acked' = acked /\ staged' = slice /\ slice' = slice
    BY <1>1, <1>9
  <2>2. acked + slice = (Len(plain) + (Len(wire) + k)) + (Len(out) - k) /\ Len(out) - k <= slice
    BY <1>1, <1>2, <1>4, <1>5
  <2>3. acked' + staged' = Len(plain') + Len(wire') + Len(obuf') /\ Len(obuf') <= staged'
    BY <1>3, <1>7, <2>1, <2>2, Zenon
  <2> QED
    BY <1>2, <1>3, <1>4, <1>6, <1>7, <2>1, <2>3, QppFrom
<1> QED
  BY <1>8, <1>9

(* A flush or a shutdown drains what is there. *)
LEMMA QppPush ==
    ASSUME Q!QppInv, NEW k \in 0..Len(obuf), Takes(wire, obuf, k, wire', obuf'), UNCHANGED <<slice, acked, staged, wprng, rprng, plain>>,
           end' \in {"open", "shut", "failed"}, flushes' \in 0..MaxFlush
    PROVE  Q!QppInv'
<1>1. /\ obuf \in Seq(Q!Masked) /\ Fol(obuf, Base, Len(plain) + Len(wire)) /\ Len(obuf) \in Nat
      /\ Len(plain) \in Nat /\ Len(wire) \in Nat /\ Q!Place(rprng) \in Nat
      /\ slice \in {0} \cup QppSlices /\ acked \in 0..QppBytes /\ staged \in {0} \cup QppSlices /\ staged \in Nat
      /\ plain \in Seq(0..QppBytes) /\ wprng \in Q!Generator /\ rprng \in Q!Generator
      /\ Base \in 0..(PAD_SWITCH - 1) /\ Q!Place(wprng) = Q!Place(rprng) + Len(wire) + Len(obuf)
      /\ Len(obuf) <= staged /\ acked + slice <= QppBytes /\ (staged # 0 => staged = slice)
      /\ acked + staged = Len(plain) + Len(wire) + Len(obuf)
      /\ \A i \in DOMAIN plain : plain[i] = i
  BY QppIs
<1>3. /\ wire' \in Seq(Q!Masked) /\ obuf' \in Seq(Q!Masked)
      /\ Len(wire') = Len(wire) + k /\ Len(obuf') = Len(obuf) - k
      /\ Base' = Base /\ Fol(wire', Base', Len(plain')) /\ Fol(obuf', Base', Len(plain') + Len(wire'))
  BY <1>1, QppDrains
<1>4. /\ (Q!Place(rprng) + Len(wire)) + Len(obuf) = (Q!Place(rprng) + (Len(wire) + k)) + (Len(obuf) - k)
      /\ (Len(plain) + Len(wire)) + Len(obuf) = (Len(plain) + (Len(wire) + k)) + (Len(obuf) - k)
      /\ Len(obuf) - k <= staged
  BY <1>1
<1>5. plain' = plain /\ rprng' = rprng /\ wprng' = wprng /\ slice' = slice /\ acked' = acked /\ staged' = staged
  OBVIOUS
<1>6. /\ Q!Place(wprng') = Q!Place(rprng') + Len(wire') + Len(obuf')
      /\ acked' + staged' = Len(plain') + Len(wire') + Len(obuf')
      /\ Len(obuf') <= staged'
  BY <1>1, <1>3, <1>4, <1>5, Zenon
<1> QED
  BY <1>1, <1>3, <1>5, <1>6, QppFrom

(* The peer's read unmasks each byte with the byte of the word it was      *)
(* masked with.                                                            *)
LEMMA QppRead == ASSUME Q!QppInv, NEW n \in 0..QppBytes, Q!PollRead(n) PROVE Q!QppInv'
<1> DEFINE h == SubSeq(wire, 1, n)
           d == Q!decrypt_with_prng(h)
<1>1. /\ n \in 1..Len(wire) /\ plain' = plain \o d /\ rprng' = Q!WriteBack(rprng, n)
      /\ wire' = SubSeq(wire, n + 1, Len(wire))
      /\ UNCHANGED <<slice, acked, obuf, staged, wprng, end, flushes>>
  BY DEF Q!PollRead
<1>2. /\ wire \in Seq(Q!Masked) /\ obuf \in Seq(Q!Masked) /\ plain \in Seq(0..QppBytes)
      /\ Fol(wire, Base, Len(plain)) /\ Fol(obuf, Base, Len(plain) + Len(wire))
      /\ Len(plain) \in Nat /\ Len(wire) \in Nat /\ Len(obuf) \in Nat /\ Q!Place(rprng) \in Nat /\ rprng \in Gen
      /\ Base \in 0..(PAD_SWITCH - 1) /\ Q!Place(wprng) = Q!Place(rprng) + Len(wire) + Len(obuf)
      /\ slice \in {0} \cup QppSlices /\ slice \in Nat /\ acked \in 0..QppBytes /\ staged \in {0} \cup QppSlices /\ staged \in Nat
      /\ QppBytes \in Nat /\ wprng \in Q!Generator /\ end \in {"open", "shut", "failed"} /\ flushes \in 0..MaxFlush
      /\ Len(obuf) <= staged /\ acked + slice <= QppBytes /\ (staged # 0 => staged = slice)
      /\ acked + staged = Len(plain) + Len(wire) + Len(obuf)
      /\ \A i \in DOMAIN plain : plain[i] = i
  BY QppIs
<1>n. n \in 1..Len(wire) /\ n \in Nat /\ Len(wire) \in Nat /\ Len(plain) \in Nat
  <2>1. n \in 1..Len(wire) /\ Len(wire) \in Nat /\ Len(plain) \in Nat
    BY <1>1, <1>2, Zenon
  <2> QED
    BY <2>1
<1>w. wire \in Seq(Q!Masked) /\ plain \in Seq(0..QppBytes)
  BY <1>2
<1>f. Fol(wire, Base, Len(plain)) /\ rprng \in Gen /\ QppBytes \in Nat /\ \A i \in DOMAIN plain : plain[i] = i
  BY <1>2, Zenon
<1>b. Base \in Int /\ Q!Place(rprng) \in Nat
  BY <1>2
<1>3. Q!Place(rprng) = Base + Len(plain) /\ PAD_SWITCH \in Nat
  <2>1. Base = Q!Place(rprng) - Len(plain)
    BY DEF Base
  <2> QED
    BY <1>2, <2>1, QppAssumption
<1>4. /\ h \in Seq(Q!Masked) /\ Len(h) = n /\ DOMAIN h = 1..n /\ \A i \in 1..n : h[i] = wire[i]
  BY <1>n, <1>w
<1> HIDE DEF h
<1>5. ASSUME NEW i \in 1..n PROVE d[i] = Len(plain) + i /\ d[i] \in 0..QppBytes
  <2>1. i \in DOMAIN wire /\ wire[i] \in Q!Masked /\ h[i] = wire[i]
    BY <1>n, <1>w, <1>4
  <2>2. wire[i].byte = Len(plain) + i /\ Q!Place(wire[i].mask) = Base + Len(plain) + (i - 1)
    BY <1>f, <2>1, Zenon DEF Fol
  <2>3. wire[i].mask \in Gen /\ wire[i].byte \in 0..QppBytes
    BY <1>f, <2>1 DEF Q!Masked, Q!Generator, Gen
  <2>4. Q!MaskOf(rprng, n, i) \in Gen /\ Q!Place(Q!MaskOf(rprng, n, i)) = Q!Place(rprng) + (i - 1)
    BY <1>f, <1>n, MaskIs
  <2>5. Q!Place(wire[i].mask) = Q!Place(Q!MaskOf(rprng, n, i))
    BY <1>n, <1>b, <1>3, <2>2, <2>4
  <2>6. wire[i].mask = Q!MaskOf(rprng, n, i)
    BY <2>3, <2>4, <2>5, PlaceIs
  <2>7. d[i] = IF h[i].mask = Q!MaskOf(rprng, n, i) THEN h[i].byte ELSE Q!Garbage
    BY <1>4 DEF Q!decrypt_with_prng
  <2>8. d[i] = wire[i].byte
    BY <2>1, <2>6, <2>7
  <2> QED
    BY <2>2, <2>3, <2>8
<1>6. d \in Seq(0..QppBytes) /\ Len(d) = n
  <2>1. DOMAIN d = 1..n /\ d = [i \in 1..n |-> d[i]]
    BY <1>4 DEF Q!decrypt_with_prng
  <2> HIDE DEF d
  <2>2. d \in [1..n -> 0..QppBytes]
    BY <1>5, <2>1
  <2> QED
    BY <1>n, <2>2, FunctionIsSeq
<1> HIDE DEF d
<1>7. /\ plain' \in Seq(0..QppBytes) /\ Len(plain') = Len(plain) + n
      /\ \A i \in 1..(Len(plain) + n) : plain'[i] = IF i <= Len(plain) THEN plain[i] ELSE d[i - Len(plain)]
  <2>1. /\ plain \o d \in Seq(0..QppBytes) /\ Len(plain \o d) = Len(plain) + Len(d)
        /\ \A i \in 1..(Len(plain) + Len(d)) : (plain \o d)[i] = IF i <= Len(plain) THEN plain[i] ELSE d[i - Len(plain)]
    BY <1>2, <1>6, ConcatElements, Zenon
  <2> QED
    BY <1>1, <1>6, <2>1, Zenon
<1>8. \A i \in DOMAIN plain' : plain'[i] = i
  <2>1. DOMAIN plain' = 1..(Len(plain) + n) /\ DOMAIN plain = 1..Len(plain)
    BY <1>2, <1>7
  <2>2. ASSUME NEW i \in 1..(Len(plain) + n) PROVE plain'[i] = i
    <3>1. CASE i <= Len(plain)
      <4>1. i \in DOMAIN plain
        BY <1>n, <2>1, <3>1
      <4>2. plain[i] = i
        BY <1>f, <4>1, Zenon
      <4>3. plain'[i] = plain[i]
        BY <1>7, <3>1
      <4> QED
        BY <4>2, <4>3, Zenon
    <3>2. CASE ~(i <= Len(plain))
      <4>1. i - Len(plain) \in 1..n /\ Len(plain) + (i - Len(plain)) = i
        BY <1>n, <3>2
      <4>2. plain'[i] = d[i - Len(plain)]
        BY <1>7, <3>2
      <4> QED
        BY <1>5, <4>1, <4>2
    <3> QED
      BY <3>1, <3>2
  <2> QED
    BY <2>1, <2>2
<1>9. Q!Place(rprng') = Q!Place(rprng) + n /\ rprng' \in Gen
  <2>1. Q!WriteBack(rprng, n) \in Gen /\ Q!Place(Q!WriteBack(rprng, n)) = Q!Place(rprng) + n
    BY <1>f, <1>n, WriteBackIs
  <2>2. rprng' = Q!WriteBack(rprng, n)
    BY <1>1
  <2> QED
    BY <2>1, <2>2, Zenon
<1>10. Base' = Base
  <2> DEFINE x == Q!Place(rprng')
             y == Len(plain')
  <2>1. x = Q!Place(rprng) + n /\ y = Len(plain) + n
    BY <1>7, <1>9
  <2>2. Base' = x - y
    BY DEF Base, Q!Place
  <2> HIDE DEF x, y
  <2>3. x - y = Q!Place(rprng) - Len(plain)
    BY <1>n, <1>b, <2>1
  <2> QED
    BY <2>2, <2>3 DEF Base
<1>11. rprng' \in Q!Generator
  <2>1. Q!Place(rprng) + n = Base + (Len(plain) + n) /\ Len(plain) + n \in 0..QppBytes
    <3>1. staged <= slice
      BY <1>2
    <3> QED
      BY <1>1, <1>2, <1>3, <3>1
  <2>2. Q!Place(rprng') = Base + (Len(plain) + n)
    BY <1>9, <2>1, Zenon
  <2> DEFINE g == rprng'
             m == Len(plain) + n
  <2>3. g \in Gen /\ m \in 0..QppBytes /\ Q!Place(g) = Base + m
    BY <1>9, <2>1, <2>2
  <2> HIDE DEF g, m
  <2>4. g \in Q!Generator
    BY <2>3, GeneratorIs
  <2> QED
    BY <2>4 DEF g
<1>12. /\ wire' \in Seq(Q!Masked) /\ Len(wire') = Len(wire) - n /\ Fol(wire', Base, Len(plain) + n)
  <2>1. \E w \in Seq(Q!Masked) : Len(w) = 0 /\ DOMAIN w = {}
    <3>1. <<>> \in Seq(Q!Masked) /\ Len(<<>>) = 0 /\ DOMAIN <<>> = {}
      OBVIOUS
    <3> QED
      BY <3>1, Zenon
  <2>2. PICK w \in Seq(Q!Masked) : Len(w) = 0 /\ DOMAIN w = {}
    BY <2>1
  <2>3. Fol(w, Base, Len(plain)) /\ Fol(wire, Base, Len(plain) + Len(w)) /\ n \in 0..Len(wire)
    <3>1. Len(plain) + Len(w) = Len(plain)
      BY <1>n, <2>2
    <3> QED
      BY <1>f, <1>n, <2>2, <3>1 DEF Fol
  <2>4. PICK w2 : Takes(w, wire, n, w2, wire')
    BY <1>1 DEF Takes
  <2>5. wire' \in Seq(Q!Masked) /\ Len(w2) = Len(w) + n /\ Len(wire') = Len(wire) - n /\ Fol(wire', Base, Len(plain) + Len(w2))
    BY <1>b, <1>n, <1>w, <2>3, <2>4, TakesRight
  <2>6. Len(w2) = n
    BY <1>n, <2>2, <2>5
  <2> QED
    BY <2>5, <2>6
<1>13. /\ (Len(plain) + n) + (Len(wire) - n) = Len(plain) + Len(wire)
       /\ (Q!Place(rprng) + n) + (Len(wire) - n) = Q!Place(rprng) + Len(wire)
  BY <1>1, <1>2
<1>14. /\ Len(plain') + Len(wire') = Len(plain) + Len(wire) /\ Q!Place(rprng') + Len(wire') = Q!Place(rprng) + Len(wire)
  BY <1>7, <1>9, <1>12, <1>13, Zenon
<1>15. obuf' = obuf /\ slice' = slice /\ acked' = acked /\ staged' = staged /\ wprng' = wprng /\ end' = end /\ flushes' = flushes
  BY <1>1
<1>16. /\ Fol(wire', Base', Len(plain')) /\ Fol(obuf', Base', Len(plain') + Len(wire'))
       /\ Q!Place(wprng') = Q!Place(rprng') + Len(wire') + Len(obuf')
       /\ acked' + staged' = Len(plain') + Len(wire') + Len(obuf')
       /\ Base' \in 0..(PAD_SWITCH - 1)
  BY <1>2, <1>7, <1>10, <1>12, <1>14, <1>15, Zenon
<1> QED
  BY <1>2, <1>7, <1>8, <1>11, <1>12, <1>15, <1>16, QppFrom

(* The beginning, the steps, and what the invariant is for. *)
LEMMA QppInit == Q!Init => Q!QppInv
<1> SUFFICES ASSUME Q!Init PROVE Q!QppInv
  OBVIOUS
<1>1. /\ slice = 0 /\ acked = 0 /\ obuf = <<>> /\ staged = 0 /\ wprng \in [word: {0}, count: 0..(PAD_SWITCH - 1)]
      /\ rprng = wprng /\ wire = <<>> /\ plain = <<>> /\ end = "open" /\ flushes = 0
  BY DEF Q!Init
<1>2. PAD_SWITCH \in Nat /\ PAD_SWITCH > 0 /\ QppBytes \in Nat /\ MaxFlush \in Nat
  BY QppAssumption
<1>3. wprng \in Q!Generator /\ wprng \in Gen /\ wprng.word = 0 /\ wprng.count \in 0..(PAD_SWITCH - 1)
  BY <1>1, <1>2 DEF Q!Generator, Gen
<1>4. Q!Place(wprng) = wprng.count
  <2>1. Q!Place(wprng) = 0 * PAD_SWITCH + wprng.count
    BY <1>3, PlaceIs
  <2>2. 0 * PAD_SWITCH = 0
    BY <1>2
  <2> QED
    BY <1>2, <1>3, <2>1, <2>2
<1>5. Q!TypeOK
  BY <1>1, <1>2, <1>3 DEF Q!TypeOK
<1>6. Q!Staged
  BY <1>1, <1>2 DEF Q!Staged
<1>7. Q!Aligned
  <2>1. Len(wire) = 0 /\ Len(obuf) = 0 /\ Len(plain) = 0 /\ DOMAIN wire = {} /\ DOMAIN obuf = {}
    BY <1>1
  <2>2. Q!Place(rprng) = wprng.count
    BY <1>1, <1>4
  <2> QED
    BY <1>2, <1>3, <1>4, <2>1, <2>2 DEF Q!Aligned, Q!Follows
<1> QED
  BY <1>1, <1>5, <1>6, <1>7 DEF Q!QppInv

(* Every step of Qpp keeps QppInv. *)
LEMMA QppNext == Q!QppInv /\ Q!Next => Q!QppInv'
<1> SUFFICES ASSUME Q!QppInv, Q!Next PROVE Q!QppInv'
  OBVIOUS
<1>1. ASSUME NEW k \in 0..QppBytes, Q!PollFlush(k) PROVE Q!QppInv'
  <2>1. /\ k \in 0..Len(obuf) /\ Takes(wire, obuf, k, wire', obuf') /\ flushes' = flushes + 1 /\ flushes < MaxFlush
        /\ UNCHANGED <<slice, acked, staged, wprng, rprng, plain>> /\ end' \in {"open", "failed", end}
    BY <1>1 DEF Q!PollFlush, Q!Drain, Takes
  <2>2. end \in {"open", "shut", "failed"} /\ flushes \in 0..MaxFlush /\ MaxFlush \in Nat
    BY QppIs, QppAssumption
  <2>3. end' \in {"open", "shut", "failed"} /\ flushes' \in 0..MaxFlush
    BY <2>1, <2>2
  <2> QED
    BY <2>1, <2>3, QppPush
<1>2. ASSUME NEW k \in 0..QppBytes, Q!PollShutdown(k) PROVE Q!QppInv'
  <2>1. /\ k \in 0..Len(obuf) /\ Takes(wire, obuf, k, wire', obuf') /\ flushes' = flushes
        /\ UNCHANGED <<slice, acked, staged, wprng, rprng, plain>> /\ end' \in {"shut", end}
    BY <1>2 DEF Q!PollShutdown, Takes
  <2>2. end \in {"open", "shut", "failed"} /\ flushes \in 0..MaxFlush
    BY QppIs
  <2>3. end' \in {"open", "shut", "failed"} /\ flushes' \in 0..MaxFlush
    BY <2>1, <2>2
  <2> QED
    BY <2>1, <2>3, QppPush
<1> QED
  BY <1>1, <1>2, QppOffer, QppWrite, QppRead DEF Q!Next

(* QppInv is enough for the property. *)
LEMMA QppRight == Q!QppInv => Q!BytesRight
<1> SUFFICES ASSUME Q!QppInv PROVE Q!BytesRight
  OBVIOUS
<1>1. /\ acked \in Nat /\ staged \in Nat /\ Len(plain) \in Nat /\ Len(wire) \in Nat /\ Len(obuf) \in Nat
      /\ Len(obuf) <= staged /\ acked + staged = Len(plain) + Len(wire) + Len(obuf)
      /\ \A i \in DOMAIN plain : plain[i] = i
  BY QppIs
<1>2. acked <= Len(plain) + Len(wire)
  BY <1>1
<1> QED
  BY <1>1, <1>2 DEF Q!BytesRight

-----------------------------------------------------------------------------
(* Comp.                                                                   *)

(* Two sequences put together, as one idea. *)
Cat(s, t) == s \o t

(* The sequences that flattening goes through. *)
Flat(T, q, s, f) ==
    f \in [1..q -> Seq(T)] /\ f[1] = s[1] /\ \A i \in 2..q : f[i] = Cat(f[i - 1], s[i])

(* Its elements. *)
LEMMA CatIs ==
    ASSUME NEW T, NEW s \in Seq(T), NEW t \in Seq(T)
    PROVE  /\ Cat(s, t) \in Seq(T) /\ Len(Cat(s, t)) = Len(s) + Len(t) /\ Len(s) \in Nat /\ Len(t) \in Nat
           /\ \A i \in 1..(Len(s) + Len(t)) : Cat(s, t)[i] = IF i <= Len(s) THEN s[i] ELSE t[i - Len(s)]
BY ConcatElements DEF Cat

(* They exist: there is no least number of sequences for which they do not. *)
LEMMA FlatExists ==
    ASSUME NEW T, NEW q \in Nat, q > 0, NEW s \in [1..q -> Seq(T)]
    PROVE  \E f : Flat(T, q, s, f)
<1> DEFINE Bad == {n \in 1..q : ~\E f : Flat(T, n, s, f)}
<1>1. CASE Bad = {}
  <2>1. q \in 1..q
    OBVIOUS
  <2> QED
    BY <1>1, <2>1
<1>2. CASE Bad # {}
  <2>1. PICK n \in Bad : \A m \in Bad : n <= m
    <3>1. Bad \subseteq Nat
      OBVIOUS
    <3> HIDE DEF Bad
    <3> QED
      BY <1>2, <3>1, LeastNatural
  <2>2. n # 1
    <3>1. Flat(T, 1, s, [i \in 1..1 |-> s[1]])
      <4>1. 1 \in 1..q /\ s[1] \in Seq(T) /\ 2..1 = {}
        OBVIOUS
      <4> QED
        BY <4>1 DEF Flat
    <3> QED
      BY <2>1, <3>1
  <2>3. n \in 2..q /\ n - 1 \in 1..q /\ n - 1 \notin Bad
    <3>1. Bad \subseteq 1..q
      OBVIOUS
    <3> HIDE DEF Bad
    <3>2. n \in 2..q /\ n - 1 \in 1..q
      BY <2>1, <2>2, <3>1
    <3>3. ~(n <= n - 1)
      BY <3>2
    <3> QED
      BY <2>1, <3>2, <3>3
  <2>4. PICK f : Flat(T, n - 1, s, f)
    BY <2>3
  <2>5. f \in [1..(n - 1) -> Seq(T)] /\ f[1] = s[1] /\ \A i \in 2..(n - 1) : f[i] = Cat(f[i - 1], s[i])
    BY <2>4 DEF Flat
  <2> DEFINE c == Cat(f[n - 1], s[n])
             g == [i \in 1..n |-> IF i = n THEN c ELSE f[i]]
  <2>6. c \in Seq(T)
    <3>1. f[n - 1] \in Seq(T) /\ s[n] \in Seq(T)
      BY <2>3, <2>5
    <3> QED
      BY <3>1, CatIs
  <2>7. g \in [1..n -> Seq(T)]
    <3> HIDE DEF c
    <3>1. ASSUME NEW i \in 1..n, i # n PROVE f[i] \in Seq(T)
      BY <2>3, <2>5, <3>1
    <3> QED
      BY <2>6, <3>1
  <2>8. g[1] = s[1] /\ g[n - 1] = f[n - 1] /\ g[n] = c
    <3> HIDE DEF c
    <3> QED
      BY <2>3, <2>5
  <2>9. ASSUME NEW i \in 2..n PROVE g[i] = Cat(g[i - 1], s[i])
    <3>1. CASE i = n
      <4> HIDE DEF g
      <4> QED
        BY <2>8, <3>1, Zenon
    <3>2. CASE i # n
      <4>1. i \in 2..(n - 1) /\ i \in 1..n /\ i - 1 \in 1..n /\ i - 1 # n
        BY <2>3, <3>2
      <4>2. g[i] = f[i] /\ g[i - 1] = f[i - 1]
        <5> HIDE DEF c
        <5> QED
          BY <3>2, <4>1
      <4> QED
        BY <2>5, <4>1, <4>2, Zenon
    <3> QED
      BY <3>1, <3>2
  <2>10. Flat(T, n, s, g)
    <3> HIDE DEF g
    <3> QED
      BY <2>7, <2>8, <2>9 DEF Flat
  <2> QED
    BY <2>1, <2>10
<1> QED
  BY <1>1, <1>2

(* FlattenSeq is the last of them. *)
LEMMA FlatIs ==
    ASSUME NEW T, NEW q \in Nat, q > 0, NEW s \in [1..q -> Seq(T)]
    PROVE  \E f : Flat(T, q, s, f) /\ C!FlattenSeq(s) = f[q]
<1> DEFINE Body(f) == [i \in 1..q |-> IF i = 1 THEN s[i] ELSE f[i - 1] \o s[i]]
           flat == CHOOSE f : f = Body(f)
<1>1. PICK f : Flat(T, q, s, f)
  BY FlatExists
<1>2. f = Body(f)
  <2>1. f \in [1..q -> Seq(T)] /\ f[1] = s[1]
    BY <1>1 DEF Flat
  <2>2. ASSUME NEW i \in 1..q PROVE f[i] = IF i = 1 THEN s[i] ELSE f[i - 1] \o s[i]
    <3>1. i # 1 => i \in 2..q
      OBVIOUS
    <3>2. i # 1 => f[i] = f[i - 1] \o s[i]
      BY <1>1, <3>1 DEF Flat, Cat
    <3> QED
      BY <2>1, <3>2
  <2>3. f = [i \in 1..q |-> f[i]]
    BY <2>1
  <2>4. [i \in 1..q |-> f[i]] = Body(f)
    BY <2>2
  <2> QED
    BY <2>3, <2>4
<1>3. flat = Body(flat)
  <2> HIDE DEF Body
  <2> QED
    BY <1>2
<1>4. C!FlattenSeq(s) = flat[q]
  <2>1. Len(s) = q
    BY FunctionIsSeq
  <2> QED
    BY <2>1 DEF C!FlattenSeq
<1> HIDE DEF flat
<1> DEFINE Bad == {n \in 1..q : flat[n] # f[n]}
<1>5. CASE Bad = {}
  <2>1. flat[q] = f[q]
    BY <1>5
  <2> QED
    BY <1>1, <1>4, <2>1
<1>6. CASE Bad # {}
  <2>1. PICK n \in Bad : \A m \in Bad : n <= m
    <3>1. Bad \subseteq Nat
      OBVIOUS
    <3> HIDE DEF Bad
    <3> QED
      BY <1>6, <3>1, LeastNatural
  <2>2. flat[1] = f[1]
    <3>1. Body(flat)[1] = s[1]
      OBVIOUS
    <3> HIDE DEF Body
    <3> QED
      BY <1>1, <1>3, <3>1 DEF Flat
  <2>3. n \in 2..q /\ n - 1 \in 1..q /\ n - 1 \notin Bad
    <3>1. Bad \subseteq 1..q /\ n # 1
      BY <2>2
    <3> HIDE DEF Bad
    <3>2. n \in 2..q /\ n - 1 \in 1..q
      BY <2>1, <3>1
    <3>3. ~(n <= n - 1)
      BY <3>2
    <3> QED
      BY <2>1, <3>2, <3>3
  <2>4. flat[n - 1] = f[n - 1]
    BY <2>3
  <2>5. flat[n] = Cat(flat[n - 1], s[n])
    <3>1. Body(flat)[n] = flat[n - 1] \o s[n]
      <4>1. n \in 1..q /\ n # 1
        BY <2>3
      <4> QED
        BY <4>1, Zenon
    <3> HIDE DEF Body
    <3> QED
      BY <1>3, <3>1, Zenon DEF Cat
  <2>6. f[n] = Cat(f[n - 1], s[n])
    BY <1>1, <2>3 DEF Flat
  <2> QED
    BY <2>1, <2>4, <2>5, <2>6
<1> QED
  BY <1>5, <1>6

-----------------------------------------------------------------------------
(* The chunks of a stream: where one begins, its first byte, and how many  *)
(* bytes it has, none for the identifier.                                  *)
Block == [at: Nat, first: Nat, len: 0..MAX_BLOCK_SIZE]
Symbol == [type: {"id", "data"}] \cup [len: Nat] \cup [sum: Seq(Nat)] \cup [magic: {"sNaPpY"}] \cup [byte: Nat]

Data(c) == [i \in 1..c.len |-> c.first + (i - 1)]
Piece(c) == IF c.len = 0 THEN C!Identifier ELSE C!Chunk(Data(c))

(* The numbers of a chunk, its data, and its symbols. *)
LEMMA BlockIs ==
    ASSUME NEW c \in Block
    PROVE  c.at \in Nat /\ c.first \in Nat /\ c.len \in 0..MAX_BLOCK_SIZE /\ c.len \in Nat /\ MAX_BLOCK_SIZE \in Nat
BY CompAssumption DEF Block

(* The bytes of a chunk. *)
LEMMA DataIs ==
    ASSUME NEW c \in Block
    PROVE  Data(c) \in Seq(Nat) /\ Len(Data(c)) = c.len /\ DOMAIN Data(c) = 1..c.len
           /\ \A i \in 1..c.len : Data(c)[i] = c.first + (i - 1)
<1>1. c.first \in Nat /\ c.len \in Nat
  BY BlockIs
<1>2. Data(c) \in [1..c.len -> Nat]
  BY <1>1 DEF Data
<1>3. Data(c) \in Seq(Nat) /\ Len(Data(c)) = c.len /\ DOMAIN Data(c) = 1..c.len
  BY <1>1, <1>2, FunctionIsSeq
<1> QED
  BY <1>3 DEF Data

(* Its symbols on the wire: type, length, checksum and bytes. *)
LEMMA PieceIs ==
    ASSUME NEW c \in Block
    PROVE  /\ Piece(c) \in Seq(Symbol) /\ Len(Piece(c)) = 3 + c.len
           /\ c.len = 0 => /\ Piece(c)[1] = [type |-> "id"] /\ Piece(c)[2] = [len |-> 1]
                           /\ Piece(c)[3] = [magic |-> "sNaPpY"]
           /\ c.len # 0 => /\ Piece(c)[1] = [type |-> "data"] /\ Piece(c)[2] = [len |-> c.len]
                           /\ Piece(c)[3] = [sum |-> Data(c)]
                           /\ \A i \in 1..c.len : Piece(c)[3 + i] = [byte |-> c.first + (i - 1)]
<1>1. c.first \in Nat /\ c.len \in Nat
  BY BlockIs
<1>2. CASE c.len = 0
  <2>1. Piece(c) = <<[type |-> "id"], [len |-> 1], [magic |-> "sNaPpY"]>>
    BY <1>2 DEF Piece, C!Identifier
  <2>2. [type |-> "id"] \in Symbol /\ [len |-> 1] \in Symbol /\ [magic |-> "sNaPpY"] \in Symbol
    BY DEF Symbol
  <2> QED
    BY <1>2, <2>1, <2>2
<1>3. CASE c.len # 0
  <2> DEFINE h == <<[type |-> "data"], [len |-> c.len], [sum |-> Data(c)]>>
             b == [i \in 1..c.len |-> [byte |-> Data(c)[i]]]
  <2>1. Piece(c) = Cat(h, b)
    BY <1>3, DataIs DEF Piece, C!Chunk, Cat, C!Sum
  <2>2. h \in Seq(Symbol) /\ Len(h) = 3 /\ h[1] = [type |-> "data"] /\ h[2] = [len |-> c.len] /\ h[3] = [sum |-> Data(c)]
    <3>1. Data(c) \in Seq(Nat)
      BY DataIs
    <3>2. [type |-> "data"] \in Symbol /\ [len |-> c.len] \in Symbol
      BY <1>1 DEF Symbol
    <3>3. [sum |-> Data(c)] \in Symbol
      BY <3>1 DEF Symbol
    <3> HIDE DEF Symbol
    <3> QED
      BY <3>2, <3>3
  <2>3. \A i \in 1..c.len : [byte |-> Data(c)[i]] \in Symbol /\ [byte |-> Data(c)[i]] = [byte |-> c.first + (i - 1)]
    BY <1>1, DataIs DEF Symbol
  <2>4. b \in [1..c.len -> Symbol] /\ \A i \in 1..c.len : b[i] = [byte |-> c.first + (i - 1)]
    BY <2>3
  <2> HIDE DEF h, b
  <2>5. b \in Seq(Symbol) /\ Len(b) = c.len
    BY <1>1, <2>4, FunctionIsSeq
  <2>6. /\ Piece(c) \in Seq(Symbol) /\ Len(Piece(c)) = 3 + c.len
        /\ \A i \in 1..(3 + c.len) : Piece(c)[i] = IF i <= 3 THEN h[i] ELSE b[i - 3]
    <3>1. /\ Cat(h, b) \in Seq(Symbol) /\ Len(Cat(h, b)) = Len(h) + Len(b)
          /\ \A i \in 1..(Len(h) + Len(b)) : Cat(h, b)[i] = IF i <= Len(h) THEN h[i] ELSE b[i - Len(h)]
      BY <2>2, <2>5, CatIs, Zenon
    <3> QED
      BY <2>1, <2>2, <2>5, <3>1, Zenon
  <2>7. Piece(c)[1] = h[1] /\ Piece(c)[2] = h[2] /\ Piece(c)[3] = h[3]
    BY <1>1, <2>6
  <2>8. ASSUME NEW i \in 1..c.len PROVE Piece(c)[3 + i] = [byte |-> c.first + (i - 1)]
    <3>1. 3 + i \in 1..(3 + c.len) /\ ~(3 + i <= 3) /\ (3 + i) - 3 = i
      BY <1>1
    <3>2. Piece(c)[3 + i] = b[i]
      BY <2>6, <3>1
    <3> QED
      BY <2>4, <3>2, Zenon
  <2> QED
    BY <1>3, <2>2, <2>6, <2>7, <2>8
<1> QED
  BY <1>2, <1>3

-----------------------------------------------------------------------------
(* Where a chunk is over. *)
Past(c) == c.at + (3 + c.len)

(* After o symbols the wire w goes on with what the chunks K say, ...      *)
Holds(K, o, w) ==
    \A c \in K, i \in 1..Len(w) : o + i >= c.at /\ o + i < Past(c) => w[i] = Piece(c)[((o + i) - c.at) + 1]

(* ... each followed by the next, up to e symbols, ...                     *)
Linked(K, e) ==
    \A c \in K : Past(c) <= e => \E d \in K : d.at = Past(c) /\ d.first = c.first + c.len /\ d.len # 0

(* ... the last of them whole, and g its last byte.                        *)
Ended(K, e, g) ==
    \A c \in K : Past(c) <= e + 1 /\ (Past(c) = e + 1 => c.first + c.len = g + 1)

Framed(K, o, w) == K \subseteq Block /\ w \in Seq(Symbol) /\ Holds(K, o, w) /\ Linked(K, o + Len(w))

(* It is a place on the stream. *)
LEMMA PastIs ==
    ASSUME NEW c \in Block
    PROVE  Past(c) \in Nat /\ Past(c) = c.at + (3 + c.len) /\ Past(c) > c.at + 2
BY BlockIs DEF Past

(* A chunk is added to a stream. *)
LEMMA Adds ==
    ASSUME NEW K, NEW o \in Nat, NEW w, NEW g \in Nat, Framed(K, o, w), Ended(K, o + Len(w), g),
           NEW d \in Block, d.at = (o + Len(w)) + 1, d.first = g + 1, d.len # 0 \/ K = {},
           NEW v, v = Cat(w, Piece(d))
    PROVE  /\ Framed(K \cup {d}, o, v) /\ Ended(K \cup {d}, o + Len(v), g + d.len)
           /\ v \in Seq(Symbol) /\ Len(v) = Len(w) + (3 + d.len)
<1> DEFINE L == K \cup {d}
           x == Len(w)
           y == Len(v)
           l == d.len
<1>1. K \subseteq Block /\ w \in Seq(Symbol) /\ Holds(K, o, w) /\ Linked(K, o + x) /\ x \in Nat
  BY DEF Framed
<1>2. Piece(d) \in Seq(Symbol) /\ Len(Piece(d)) = 3 + l /\ l \in Nat /\ Past(d) \in Nat /\ Past(d) = d.at + (3 + l)
  BY PieceIs, BlockIs, PastIs
<1>3. /\ v \in Seq(Symbol) /\ y = x + (3 + l)
      /\ \A i \in 1..(x + (3 + l)) : v[i] = IF i <= x THEN w[i] ELSE Piece(d)[i - x]
  <2>1. /\ Cat(w, Piece(d)) \in Seq(Symbol) /\ Len(Cat(w, Piece(d))) = Len(w) + Len(Piece(d))
        /\ \A i \in 1..(Len(w) + Len(Piece(d))) :
             Cat(w, Piece(d))[i] = IF i <= Len(w) THEN w[i] ELSE Piece(d)[i - Len(w)]
    BY <1>1, <1>2, CatIs, Zenon
  <2> QED
    BY <1>2, <2>1, Zenon
<1>4. \A c \in L : c \in Block
  BY <1>1
<1>5. \A c \in L : c.at \in Nat /\ c.len \in Nat /\ c.first \in Nat /\ Past(c) \in Nat
  BY <1>4, BlockIs, PastIs, Zenon
<1>6. \A c \in K : Past(c) <= (o + x) + 1 /\ (Past(c) = (o + x) + 1 => c.first + c.len = g + 1)
  BY Zenon DEF Ended
<1>7. \A c \in K : Past(c) <= o + x => \E e \in K : e.at = Past(c) /\ e.first = c.first + c.len /\ e.len # 0
  BY <1>1, Zenon DEF Linked
<1>8. x \in Nat /\ y \in Nat /\ d.at = (o + x) + 1 /\ l \in Nat /\ Past(d) = ((o + x) + 1) + (3 + l) /\ d.first = g + 1
      /\ (l # 0 \/ K = {})
  BY <1>1, <1>2, <1>3
<1> HIDE DEF x, y, l
<1>9. Holds(L, o, v)
  <2> SUFFICES ASSUME NEW c \in L, NEW i \in 1..y, o + i >= c.at, o + i < Past(c)
               PROVE  v[i] = Piece(c)[((o + i) - c.at) + 1]
    BY Zenon DEF Holds, y
  <2>1. i \in 1..(x + (3 + l)) /\ i \in Nat
    BY <1>3, <1>8
  <2>2. CASE c \in K
    <3>1. i \in 1..x
      <4>1. Past(c) <= (o + x) + 1 /\ Past(c) \in Nat
        BY <1>5, <1>6, <2>2, Zenon
      <4> QED
        BY <1>8, <2>1, <4>1
    <3>2. v[i] = w[i]
      <4>1. i <= x
        BY <1>8, <3>1
      <4> QED
        BY <1>3, <2>1, <4>1, Zenon
    <3>3. w[i] = Piece(c)[((o + i) - c.at) + 1]
      BY <1>1, <2>2, <3>1, Zenon DEF Holds, x
    <3> QED
      BY <3>2, <3>3, Zenon
  <2>3. CASE c = d
    <3>1. ~(i <= x) /\ i - x = ((o + i) - ((o + x) + 1)) + 1
      <4>1. o + i >= (o + x) + 1
        BY <1>8, <2>3, Zenon
      <4> QED
        BY <1>8, <2>1, <4>1
    <3>2. v[i] = Piece(d)[i - x]
      BY <1>3, <2>1, <3>1, Zenon
    <3>3. v[i] = Piece(d)[((o + i) - d.at) + 1]
      BY <1>8, <3>1, <3>2, Zenon
    <3> QED
      BY <2>3, <3>3, Zenon
  <2> QED
    BY <2>2, <2>3
<1>10. Linked(L, o + y)
  <2> SUFFICES ASSUME NEW c \in L, Past(c) <= o + y
               PROVE  \E e \in L : e.at = Past(c) /\ e.first = c.first + c.len /\ e.len # 0
    BY Zenon DEF Linked
  <2>1. CASE c \in K
    <3>0. Past(c) \in Nat
      BY <1>5
    <3>1. CASE Past(c) <= o + x
      BY <1>7, <2>1, <3>1
    <3>2. CASE ~(Past(c) <= o + x)
      <4>1. Past(c) = (o + x) + 1
        <5>1. Past(c) <= (o + x) + 1
          BY <1>6, <2>1
        <5> QED
          BY <1>8, <3>0, <3>2, <5>1
      <4>2. c.first + c.len = g + 1
        BY <1>6, <2>1, <4>1
      <4>3. d.at = Past(c) /\ d.first = c.first + c.len /\ d.len # 0 /\ d \in L
        BY <1>8, <2>1, <4>1, <4>2 DEF l
      <4> QED
        BY <4>3
    <3> QED
      BY <3>1, <3>2
  <2>2. CASE c = d
    <3>1. ((o + x) + 1) + (3 + l) <= o + y /\ y = x + (3 + l)
      BY <1>3, <1>8, <2>2
    <3> QED
      BY <1>8, <3>1
  <2> QED
    BY <2>1, <2>2
<1>11. Ended(L, o + y, g + l)
  <2> SUFFICES ASSUME NEW c \in L
               PROVE  Past(c) <= (o + y) + 1 /\ (Past(c) = (o + y) + 1 => c.first + c.len = (g + l) + 1)
    BY Zenon DEF Ended
  <2>0. y = x + (3 + l)
    BY <1>3
  <2>1. CASE c \in K
    <3>1. Past(c) <= (o + x) + 1 /\ Past(c) \in Nat
      BY <1>5, <1>6, <2>1
    <3> QED
      BY <1>8, <2>0, <3>1
  <2>2. CASE c = d
    <3>1. Past(c) = ((o + x) + 1) + (3 + l) /\ c.first = g + 1 /\ c.len = l
      BY <1>8, <2>2 DEF l
    <3> QED
      BY <1>8, <2>0, <3>1
  <2> QED
    BY <2>1, <2>2
<1>12. L \subseteq Block
  BY <1>4
<1> QED
  BY <1>3, <1>9, <1>10, <1>11, <1>12, Zenon DEF Framed, x, y, l

-----------------------------------------------------------------------------
(* A stream that is cut is still one, but for its end. *)
LEMMA Shorter ==
    ASSUME NEW K, NEW o \in Nat, NEW w, Framed(K, o, w), NEW v \in Seq(Symbol), Len(v) <= Len(w),
           \A i \in 1..Len(v) : v[i] = w[i]
    PROVE  Framed(K, o, v)
<1> DEFINE x == Len(w)
           y == Len(v)
<1>1. K \subseteq Block /\ w \in Seq(Symbol) /\ Holds(K, o, w) /\ Linked(K, o + x) /\ x \in Nat /\ y \in Nat /\ y <= x
  BY DEF Framed
<1> HIDE DEF x, y
<1>2. \A i \in 1..y : i \in 1..x
  BY <1>1
<1>3. Holds(K, o, v)
  <2>1. \A c \in K, i \in 1..x : o + i >= c.at /\ o + i < Past(c) => w[i] = Piece(c)[((o + i) - c.at) + 1]
    BY <1>1, Zenon DEF Holds, x
  <2>2. \A c \in K, i \in 1..y : o + i >= c.at /\ o + i < Past(c) => v[i] = Piece(c)[((o + i) - c.at) + 1]
    BY <1>2, <2>1, Zenon DEF y
  <2> QED
    BY <2>2, Zenon DEF Holds, y
<1>4. \A c \in K : Past(c) <= o + y => Past(c) <= o + x
  <2> SUFFICES ASSUME NEW c \in K, Past(c) <= o + y PROVE Past(c) <= o + x
    OBVIOUS
  <2>1. Past(c) \in Nat
    BY <1>1, PastIs
  <2> QED
    BY <1>1, <2>1
<1>5. Linked(K, o + y)
  BY <1>1, <1>4, Zenon DEF Linked
<1> QED
  BY <1>1, <1>3, <1>5, Zenon DEF Framed, y

(* Three sequences put together. *)
LEMMA CatAssociative ==
    ASSUME NEW T, NEW s \in Seq(T), NEW t \in Seq(T), NEW u \in Seq(T)
    PROVE  Cat(Cat(s, t), u) = Cat(s, Cat(t, u))
<1> DEFINE l == Cat(Cat(s, t), u)
           r == Cat(s, Cat(t, u))
           x == Len(s)
           y == Len(t)
           z == Len(u)
<1>1. /\ Cat(s, t) \in Seq(T) /\ Len(Cat(s, t)) = x + y /\ x \in Nat /\ y \in Nat
      /\ \A i \in 1..(x + y) : Cat(s, t)[i] = IF i <= x THEN s[i] ELSE t[i - x]
  BY CatIs, Zenon
<1>2. /\ Cat(t, u) \in Seq(T) /\ Len(Cat(t, u)) = y + z /\ z \in Nat
      /\ \A i \in 1..(y + z) : Cat(t, u)[i] = IF i <= y THEN t[i] ELSE u[i - y]
  BY CatIs, Zenon
<1>3. /\ l \in Seq(T) /\ Len(l) = (x + y) + z
      /\ \A i \in 1..((x + y) + z) : l[i] = IF i <= x + y THEN Cat(s, t)[i] ELSE u[i - (x + y)]
  <2>0. Cat(s, t) \in Seq(T)
    BY <1>1
  <2>1. /\ l \in Seq(T) /\ Len(l) = Len(Cat(s, t)) + z
        /\ \A i \in 1..(Len(Cat(s, t)) + z) : l[i] = IF i <= Len(Cat(s, t)) THEN Cat(s, t)[i] ELSE u[i - Len(Cat(s, t))]
    BY <2>0, CatIs, Zenon
  <2> QED
    BY <1>1, <2>1, Zenon
<1>4. /\ r \in Seq(T) /\ Len(r) = x + (y + z)
      /\ \A i \in 1..(x + (y + z)) : r[i] = IF i <= x THEN s[i] ELSE Cat(t, u)[i - x]
  <2>1. /\ r \in Seq(T) /\ Len(r) = x + Len(Cat(t, u))
        /\ \A i \in 1..(x + Len(Cat(t, u))) : r[i] = IF i <= x THEN s[i] ELSE Cat(t, u)[i - x]
    BY <1>2, CatIs, Zenon
  <2> QED
    BY <1>2, <2>1, Zenon
<1> HIDE DEF l, r, x, y, z
<1>5. (x + y) + z = x + (y + z)
  BY <1>1, <1>2
<1>6. ASSUME NEW i \in 1..(x + (y + z)) PROVE l[i] = r[i]
  <2>0. i \in Nat /\ i \in 1..((x + y) + z)
    BY <1>1, <1>2
  <2>1. CASE i <= x
    <3>1. i <= x + y /\ i \in 1..(x + y)
      BY <1>1, <2>0, <2>1
    <3> QED
      BY <1>1, <1>3, <1>4, <2>0, <2>1, <3>1, Zenon
  <2>2. CASE ~(i <= x) /\ i <= x + y
    <3>1. i \in 1..(x + y) /\ i - x \in 1..(y + z) /\ i - x <= y
      BY <1>1, <1>2, <2>0, <2>2
    <3> QED
      BY <1>1, <1>2, <1>3, <1>4, <2>0, <2>2, <3>1, Zenon
  <2>3. CASE ~(i <= x + y)
    <3>1. ~(i <= x) /\ i - x \in 1..(y + z) /\ ~(i - x <= y) /\ (i - x) - y = i - (x + y)
      BY <1>1, <1>2, <2>0, <2>3
    <3> QED
      BY <1>2, <1>3, <1>4, <2>0, <2>3, <3>1, Zenon
  <2> QED
    BY <2>1, <2>2, <2>3
<1>7. ASSUME NEW a \in Seq(T), NEW b \in Seq(T), NEW k \in Nat, Len(a) = k, Len(b) = k, \A i \in 1..k : a[i] = b[i]
      PROVE  a = b
  BY <1>7
<1>8. x + (y + z) \in Nat /\ Len(l) = x + (y + z) /\ Len(r) = x + (y + z)
  BY <1>1, <1>2, <1>3, <1>4, <1>5
<1>9. l = r
  BY <1>3, <1>4, <1>6, <1>7, <1>8
<1> QED
  BY <1>9 DEF l, r

-----------------------------------------------------------------------------
(* How many of n bytes after g are in the first i chunks of a write. *)
CutAt(n, g, i) == IF i * MAX_BLOCK_SIZE <= n THEN g + i * MAX_BLOCK_SIZE ELSE g + n

(* The chunks of a write one by one. *)
Cuttings(a, b) ==
    [i \in 1..((b - a) \div MAX_BLOCK_SIZE) + 1 |->
        LET first == a + (i - 1) * MAX_BLOCK_SIZE
            last == IF first + MAX_BLOCK_SIZE - 1 < b THEN first + MAX_BLOCK_SIZE - 1 ELSE b
        IN C!Chunk([j \in 1..last - first + 1 |-> first + j - 1])]

(* The cuts before and after a chunk. *)
LEMMA CutIs ==
    ASSUME NEW n \in Nat, n > 0, NEW g \in Nat, NEW i \in 1..(((n - 1) \div MAX_BLOCK_SIZE) + 1),
           NEW x, x = (i - 1) * MAX_BLOCK_SIZE
    PROVE  /\ x \in Nat /\ x < n /\ CutAt(n, g, i - 1) = g + x
           /\ CutAt(n, g, i) = (IF x + MAX_BLOCK_SIZE <= n THEN g + (x + MAX_BLOCK_SIZE) ELSE g + n)
<1> DEFINE M == MAX_BLOCK_SIZE
           q == (n - 1) \div MAX_BLOCK_SIZE
<1>1. M \in Nat /\ M > 0
  BY CompAssumption
<1>2. n - 1 \in Nat /\ q \in Nat /\ q * M <= n - 1
  <2>1. n - 1 \in Nat
    OBVIOUS
  <2>2. q \in Nat /\ (n - 1) % M \in 0..(M - 1) /\ q * M + ((n - 1) % M) = n - 1
    BY <1>1, <2>1, Division
  <2> DEFINE y == q * M
             z == (n - 1) % M
  <2>3. y \in Nat /\ z \in Nat /\ y + z = n - 1
    <3>1. \A a, b \in Nat : a * b \in Nat
      OBVIOUS
    <3> QED
      BY <1>1, <2>2, <3>1
  <2> HIDE DEF y, z, q
  <2>4. y <= n - 1
    BY <2>3
  <2> QED
    BY <2>1, <2>2, <2>4 DEF y
<1> HIDE DEF M, q
<1>3. i \in 1..(q + 1)
  BY DEF q
<1>4. i \in Nat /\ i - 1 \in Nat /\ i - 1 <= q
  BY <1>2, <1>3
<1>5. \A a, b, c \in Nat : a <= b => a * c <= b * c /\ a * c \in Nat /\ b * c \in Nat
  BY Z3
<1>6. (i - 1) * M <= q * M /\ (i - 1) * M \in Nat /\ q * M \in Nat
  BY <1>1, <1>2, <1>4, <1>5
<1>7. x = (i - 1) * M
  BY DEF M
<1>8. x \in Nat /\ x < n
  <2> DEFINE y == q * M
  <2>1. x <= y /\ y <= n - 1 /\ x \in Nat /\ y \in Nat
    BY <1>2, <1>6, <1>7
  <2> HIDE DEF y
  <2> QED
    BY <2>1
<1>9. i * M = x + M
  <2>1. \A a, c \in Nat : (a + 1) * c = a * c + c
    BY Z3
  <2>2. i = (i - 1) + 1
    BY <1>4
  <2> QED
    BY <1>1, <1>4, <1>7, <2>1, <2>2, Zenon
<1>10. CutAt(n, g, i - 1) = g + x
  <2>1. x <= n
    BY <1>8
  <2> QED
    BY <1>7, <2>1, Zenon DEF CutAt, M
<1>11. CutAt(n, g, i) = (IF x + M <= n THEN g + (x + M) ELSE g + n)
  BY <1>9, Zenon DEF CutAt, M
<1> QED
  BY <1>8, <1>10, <1>11, Zenon DEF M

(* The last cut is the end of the write. *)
LEMMA CutLast ==
    ASSUME NEW n \in Nat, n > 0, NEW g \in Nat
    PROVE  CutAt(n, g, ((n - 1) \div MAX_BLOCK_SIZE) + 1) = g + n
<1> DEFINE M == MAX_BLOCK_SIZE
           q == (n - 1) \div MAX_BLOCK_SIZE
           x == q * MAX_BLOCK_SIZE
           z == (n - 1) % MAX_BLOCK_SIZE
<1>1. M \in Nat /\ M > 0 /\ n - 1 \in Nat
  BY CompAssumption
<1>2. q \in Nat /\ z \in 0..(M - 1) /\ x + z = n - 1
  BY <1>1, Division
<1>3. \A a, c \in Nat : (a + 1) * c = a * c + c /\ a * c \in Nat
  BY Z3
<1>4. (q + 1) * M = x + M /\ x \in Nat
  BY <1>1, <1>2, <1>3, Zenon
<1>5. CutAt(n, g, q + 1) = IF x + M <= n THEN g + (x + M) ELSE g + n
  BY <1>4, Zenon DEF CutAt
<1> HIDE DEF M, q, x, z
<1>6. x + M <= n => x + M = n
  BY <1>1, <1>2, <1>4
<1>7. CutAt(n, g, q + 1) = g + n
  BY <1>5, <1>6, Zenon
<1> QED
  BY <1>7 DEF q

(* How many there are, and one of them, which is a chunk. *)
Count(n) == ((n - 1) \div MAX_BLOCK_SIZE) + 1
Cutting(n, g, i) == Cuttings(g + 1, g + n)[i]

(* Each of them is a chunk, of the bytes between two cuts. *)
LEMMA CuttingAt ==
    ASSUME NEW n \in Nat, n > 0, NEW g \in Nat, NEW i \in 1..Count(n), NEW p \in Nat
    PROVE  \E d \in Block : /\ Cutting(n, g, i) = Piece(d) /\ d.at = p
                            /\ d.first = CutAt(n, g, i - 1) + 1 /\ d.len # 0
                            /\ CutAt(n, g, i - 1) + d.len = CutAt(n, g, i)
<1> DEFINE M == MAX_BLOCK_SIZE
           x == (i - 1) * MAX_BLOCK_SIZE
           first == (g + 1) + x
           last == IF first + (M - 1) < g + n THEN first + (M - 1) ELSE g + n
           d == [at |-> p, first |-> first, len |-> (last - first) + 1]
<1>0. i \in 1..(((n - 1) \div MAX_BLOCK_SIZE) + 1)
  BY DEF Count
<1>1. /\ x \in Nat /\ x < n /\ CutAt(n, g, i - 1) = g + x
      /\ CutAt(n, g, i) = (IF x + M <= n THEN g + (x + M) ELSE g + n)
  BY <1>0, CutIs
<1>2. M \in Nat /\ M > 0
  BY CompAssumption
<1>4. Cuttings(g + 1, g + n)[i] = C!Chunk([j \in 1..((last - first) + 1) |-> first + (j - 1)])
  <2>1. i \in 1..((((g + n) - (g + 1)) \div M) + 1)
    <3>1. (g + n) - (g + 1) = n - 1
      OBVIOUS
    <3> QED
      BY <1>0, <3>1, Zenon
  <2> QED
    BY <2>1, Zenon DEF Cuttings
<1> HIDE DEF x, M
<1>5. /\ first \in Nat /\ last \in Nat /\ (last - first) + 1 \in 1..M /\ first = (g + x) + 1
      /\ (g + x) + ((last - first) + 1) = IF x + M <= n THEN g + (x + M) ELSE g + n
  BY <1>1, <1>2
<1> HIDE DEF first, last
<1>6. d \in Block /\ d.at = p /\ d.first = first /\ d.len = (last - first) + 1
  BY <1>5 DEF Block, M
<1>7. d.len # 0
  BY <1>2, <1>5, <1>6
<1> HIDE DEF d
<1>8. Cutting(n, g, i) = Piece(d)
  BY <1>4, <1>6, <1>7, Zenon DEF Piece, Data, Cutting
<1>9. CutAt(n, g, i - 1) + d.len = CutAt(n, g, i) /\ d.first = CutAt(n, g, i - 1) + 1
  BY <1>1, <1>5, <1>6, Zenon
<1> QED
  BY <1>6, <1>7, <1>8, <1>9

-----------------------------------------------------------------------------
(* A whole stream, what comes next, and a stream that goes on. *)
Whole(K, o, w, g) == Framed(K, o, w) /\ Ended(K, o + Len(w), g)
Follows(d, o, w, g) == d.at = (o + Len(w)) + 1 /\ d.first = g + 1 /\ d.len # 0
Goes(K, o, w, g, v, h) == \E J : K \subseteq J /\ Whole(J, o, v, h) /\ \E d \in J : Follows(d, o, w, g)

Fits(K, d, o, w, g) == d.at = (o + Len(w)) + 1 /\ d.first = g + 1 /\ (d.len # 0 \/ K = {})

(* A chunk that comes next is added. *)
LEMMA AddsPiece ==
    ASSUME NEW K, NEW o \in Nat, NEW w, NEW g \in Nat, Whole(K, o, w, g), NEW d \in Block, Fits(K, d, o, w, g),
           NEW v, v = Cat(w, Piece(d)), NEW h, h = g + d.len
    PROVE  Whole(K \cup {d}, o, v, h)
<1>1. Framed(K, o, w) /\ Ended(K, o + Len(w), g)
  BY DEF Whole
<1>2. d.at = (o + Len(w)) + 1 /\ d.first = g + 1 /\ (d.len # 0 \/ K = {})
  BY DEF Fits
<1>3. Framed(K \cup {d}, o, v) /\ Ended(K \cup {d}, o + Len(v), g + d.len)
  BY <1>1, <1>2, Adds
<1> QED
  BY <1>3 DEF Whole

(* The wire of a stream, and the place after it. *)
LEMMA WholeIs ==
    ASSUME NEW K, NEW o \in Nat, NEW w, NEW g, Whole(K, o, w, g)
    PROVE  w \in Seq(Symbol) /\ Len(w) \in Nat /\ (o + Len(w)) + 1 \in Nat
BY DEF Whole, Framed

(* A write has chunks, and its cuts are numbers. *)
LEMMA CountIs ==
    ASSUME NEW n \in Nat, n > 0
    PROVE  Count(n) \in Nat /\ Count(n) > 0 /\ 1 \in 1..Count(n) /\ Count(n) \in 1..Count(n)
<1> DEFINE y == (n - 1) \div MAX_BLOCK_SIZE
<1>1. MAX_BLOCK_SIZE \in Nat /\ MAX_BLOCK_SIZE > 0 /\ n - 1 \in Nat
  BY CompAssumption
<1>2. y \in Nat
  BY <1>1, Division
<1>3. Count(n) = y + 1
  BY DEF Count
<1> HIDE DEF y
<1> QED
  BY <1>2, <1>3

(* A cut is at a byte. *)
LEMMA CutNat ==
    ASSUME NEW n \in Nat, n > 0, NEW g \in Nat, NEW i \in 1..Count(n)
    PROVE  CutAt(n, g, i - 1) \in Nat
<1> DEFINE x == (i - 1) * MAX_BLOCK_SIZE
<1>1. x \in Nat /\ CutAt(n, g, i - 1) = g + x
  BY CutIs DEF Count
<1> HIDE DEF x
<1> QED
  BY <1>1

(* A cutting is added to a stream. *)
LEMMA AddsCutting ==
    ASSUME NEW n \in Nat, n > 0, NEW g \in Nat, NEW i \in 1..Count(n), NEW K, NEW o \in Nat, NEW w,
           Whole(K, o, w, CutAt(n, g, i - 1)), NEW v, v = Cat(w, Cutting(n, g, i))
    PROVE  Goes(K, o, w, CutAt(n, g, i - 1), v, CutAt(n, g, i))
<1> DEFINE p == (o + Len(w)) + 1
           h == CutAt(n, g, i - 1)
           k == CutAt(n, g, i)
<1>1. p \in Nat /\ h \in Nat
  BY WholeIs, CutNat
<1>2. PICK d \in Block : /\ Cutting(n, g, i) = Piece(d) /\ d.at = p /\ d.first = h + 1 /\ d.len # 0 /\ h + d.len = k
  <2>1. p \in Nat
    BY <1>1
  <2> HIDE DEF p
  <2> QED
    BY <2>1, CuttingAt
<1>3. v = Cat(w, Piece(d)) /\ Follows(d, o, w, h) /\ Fits(K, d, o, w, h) /\ k = h + d.len /\ Whole(K, o, w, h)
  BY <1>2 DEF Follows, Fits
<1> HIDE DEF h, k
<1>4. Whole(K \cup {d}, o, v, k)
  BY <1>1, <1>3, AddsPiece
<1>5. K \subseteq K \cup {d} /\ d \in K \cup {d}
  OBVIOUS
<1>6. Goes(K, o, w, h, v, k)
  BY <1>3, <1>4, <1>5, Zenon DEF Goes
<1> QED
  BY <1>6 DEF h, k

(* The chunks of a write go on with the stream. *)
LEMMA AddsChunks ==
    ASSUME NEW n \in Nat, n > 0, NEW g \in Nat, NEW K, NEW o \in Nat, NEW w, Whole(K, o, w, g),
           NEW ch, ch = C!Chunks(g + 1, g + n)
    PROVE  ch \in Seq(Symbol) /\ Goes(K, o, w, g, Cat(w, ch), g + n)
<1> DEFINE q == Count(n)
           s == Cuttings(g + 1, g + n)
<1>1. q \in Nat /\ q > 0 /\ 1 \in 1..q /\ q \in 1..q
  BY CountIs
<1>2. DOMAIN s = 1..q
  <2>1. (g + n) - (g + 1) = n - 1
    OBVIOUS
  <2>2. DOMAIN s = 1..((((g + n) - (g + 1)) \div MAX_BLOCK_SIZE) + 1)
    BY DEF Cuttings
  <2> QED
    BY <2>1, <2>2, Zenon DEF Count
<1>3. ASSUME NEW i \in 1..q PROVE s[i] \in Seq(Symbol)
  <2>1. PICK d \in Block : Cutting(n, g, i) = Piece(d)
    <3>1. 0 \in Nat
      OBVIOUS
    <3> QED
      BY <3>1, CuttingAt
  <2> QED
    BY <2>1, PieceIs DEF Cutting
<1>4. ch = C!FlattenSeq(s)
  BY DEF C!Chunks, Cuttings
<1>5. s \in [1..q -> Seq(Symbol)]
  <2>1. s = [i \in DOMAIN s |-> s[i]]
    BY DEF Cuttings
  <2> HIDE DEF s, q
  <2> QED
    BY <1>2, <1>3, <2>1
<1>6. w \in Seq(Symbol) /\ \A i \in 1..q : s[i] = Cutting(n, g, i)
  BY WholeIs DEF Cutting
<1> HIDE DEF s, q
<1>7. PICK f : Flat(Symbol, q, s, f) /\ ch = f[q]
  BY <1>1, <1>4, <1>5, FlatIs
<1>8. f \in [1..q -> Seq(Symbol)] /\ f[1] = s[1] /\ \A i \in 2..q : f[i] = Cat(f[i - 1], s[i])
  BY <1>7 DEF Flat
<1> DEFINE Good(m) == Goes(K, o, w, g, Cat(w, f[m]), CutAt(n, g, m))
           Bad == {m \in 1..q : ~Good(m)}
<1>9. Good(1)
  <2>1. CutAt(n, g, 0) = g
    <3>1. 0 * MAX_BLOCK_SIZE = 0 /\ 0 <= n /\ g + 0 = g
      BY CompAssumption
    <3> QED
      BY <3>1, Zenon DEF CutAt
  <2>2. 1 - 1 = 0
    OBVIOUS
  <2>3. Cat(w, f[1]) = Cat(w, Cutting(n, g, 1)) /\ Whole(K, o, w, CutAt(n, g, 1 - 1)) /\ 1 \in 1..Count(n)
    BY <1>1, <1>6, <1>8, <2>1, <2>2, Zenon DEF q
  <2> DEFINE v == Cat(w, f[1])
  <2>4. v = Cat(w, Cutting(n, g, 1))
    BY <2>3
  <2> HIDE DEF v
  <2>5. Goes(K, o, w, CutAt(n, g, 1 - 1), v, CutAt(n, g, 1))
    BY <2>3, <2>4, AddsCutting
  <2> QED
    BY <2>1, <2>2, <2>5, Zenon DEF v
<1>10. ASSUME NEW m \in 2..q, Good(m - 1) PROVE Good(m)
  <2>1. m \in 1..q /\ m - 1 \in 1..q /\ m \in 1..Count(n)
    BY <1>1 DEF q
  <2> DEFINE h == CutAt(n, g, m - 1)
             a == f[m - 1]
             u == Cat(w, a)
             v == Cat(w, f[m])
  <2>2. PICK J : K \subseteq J /\ Whole(J, o, u, h) /\ \E d \in J : Follows(d, o, w, g)
    BY <1>10, Zenon DEF Goes
  <2>3. a \in Seq(Symbol) /\ s[m] \in Seq(Symbol)
    BY <1>3, <1>8, <2>1
  <2>4. v = Cat(u, Cutting(n, g, m))
    <3>1. f[m] = Cat(a, s[m])
      BY <1>8
    <3> HIDE DEF a
    <3>2. Cat(Cat(w, a), s[m]) = Cat(w, Cat(a, s[m]))
      BY <1>6, <2>3, CatAssociative
    <3> QED
      BY <1>6, <2>1, <3>1, <3>2, Zenon
  <2> HIDE DEF a, u, v
  <2>5. Goes(J, o, u, h, v, CutAt(n, g, m))
    BY <2>1, <2>2, <2>4, AddsCutting
  <2>6. PICK H : J \subseteq H /\ Whole(H, o, v, CutAt(n, g, m))
    BY <2>5 DEF Goes
  <2>7. K \subseteq H /\ \E d \in H : Follows(d, o, w, g)
    BY <2>2, <2>6
  <2>8. Goes(K, o, w, g, v, CutAt(n, g, m))
    BY <2>6, <2>7 DEF Goes
  <2> QED
    BY <2>8 DEF v
<1> HIDE DEF Good
<1>11. Bad = {}
  <2> SUFFICES ASSUME Bad # {} PROVE FALSE
    OBVIOUS
  <2>1. PICK m \in Bad : \A k \in Bad : m <= k
    <3>1. Bad \subseteq Nat
      OBVIOUS
    <3> HIDE DEF Bad
    <3> QED
      BY <3>1, LeastNatural
  <2>2. m \in 1..q /\ ~Good(m)
    BY <2>1
  <2>3. m # 1
    BY <1>9, <2>2
  <2>4. m \in 2..q /\ m - 1 \in 1..q /\ ~(m <= m - 1)
    BY <1>1, <2>2, <2>3
  <2>5. Good(m - 1)
    BY <2>1, <2>4
  <2> QED
    BY <1>10, <2>2, <2>4, <2>5, Zenon
<1>12. Good(q)
  BY <1>1, <1>11
<1>13. CutAt(n, g, q) = g + n
  BY CutLast DEF q, Count
<1>14. ch \in Seq(Symbol)
  BY <1>1, <1>7, <1>8
<1> QED
  BY <1>7, <1>12, <1>13, <1>14, Zenon DEF Good

-----------------------------------------------------------------------------
(* The reader, with u bytes behind it, is where a chunk begins or inside   *)
(* one, ...                                                                *)
Opens(c, o, rh, u) == c.at = o + 1 /\ c.first = u + 1 /\ (c.len = 0 <=> ~rh)
Inside(c, o, e, u) ==
    c.at + 1 = o /\ c.first = u + 1 /\ e.n = c.len + 1 /\ e.part = IF c.len = 0 THEN "magic" ELSE "data"
Reads(K, o, w, e, rh, u) ==
    /\ e = C!Header => (Len(w) # 0 => \E c \in K : Opens(c, o, rh, u))
    /\ e # C!Header => rh /\ \E c \in K : Inside(c, o, e, u)

(* ... and the writer, with g bytes behind it, goes on where a chunk ends, *)
(* unless it has failed.                                                   *)
Ends(K, o, w, e, rh, u, g, wr, we, cn) ==
    /\ ~we /\ cn = "open" => Ended(K, o + Len(w), g) /\ (Len(w) = 0 /\ e = C!Header => u = g /\ (rh <=> wr))
    /\ ~wr => g = 0 /\ K = {} /\ Len(w) = 0 /\ e = C!Header /\ ~rh /\ ~we

(* What is left of a stream when symbols are taken off it. *)
Left(o, w, k, p, v) == k \in 0..Len(w) /\ p = o + k /\ v = SubSeq(w, k + 1, Len(w))

(* What is left is framed as the whole was. *)
LEMMA Drops ==
    ASSUME NEW K, NEW o \in Nat, NEW w, Framed(K, o, w), NEW k, NEW p, NEW v, Left(o, w, k, p, v)
    PROVE  Framed(K, p, v) /\ p \in Nat /\ Len(v) \in Nat /\ p + Len(v) = o + Len(w)
<1> DEFINE x == Len(w)
           y == Len(v)
<1>1. K \subseteq Block /\ w \in Seq(Symbol) /\ Holds(K, o, w) /\ Linked(K, o + x) /\ x \in Nat
  BY DEF Framed
<1>2. v \in Seq(Symbol) /\ y = x - k /\ y \in Nat /\ \A i \in 1..(x - k) : v[i] = w[k + i]
  <2>1. k \in 0..Len(w) /\ v = SubSeq(w, k + 1, Len(w))
    BY DEF Left
  <2>2. v \in Seq(Symbol) /\ Len(v) = Len(w) - k /\ \A i \in 1..(Len(w) - k) : v[i] = w[k + i]
    BY <1>1, <2>1, Suffix, Zenon
  <2>3. Len(v) \in Nat
    BY <2>2
  <2> QED
    BY <2>2, <2>3, Zenon
<1>3. k \in 0..x /\ p = o + k
  BY DEF Left
<1> HIDE DEF x, y
<1>4. (o + k) + y = o + x /\ k \in Nat
  BY <1>1, <1>2, <1>3
<1>a. \A i \in 1..y : i \in 1..(x - k) /\ k + i \in 1..x /\ (o + k) + i = o + (k + i)
  BY <1>1, <1>2, <1>3
<1>5. Holds(K, o + k, v)
  <2> SUFFICES ASSUME NEW c \in K, NEW i \in 1..y, (o + k) + i >= c.at, (o + k) + i < Past(c)
               PROVE  v[i] = Piece(c)[(((o + k) + i) - c.at) + 1]
    BY Zenon DEF Holds, y
  <2>1. i \in 1..(x - k) /\ k + i \in 1..x /\ (o + k) + i = o + (k + i)
    BY <1>a, Zenon
  <2>2. o + (k + i) >= c.at /\ o + (k + i) < Past(c)
    <3> DEFINE m == o + (k + i)
    <3>1. (o + k) + i = m
      BY <2>1, Zenon
    <3> QED
      BY <3>1, Zenon
  <2>3. \A j \in 1..x : o + j >= c.at /\ o + j < Past(c) => w[j] = Piece(c)[((o + j) - c.at) + 1]
    BY <1>1, Zenon DEF Holds, x
  <2>4. w[k + i] = Piece(c)[((o + (k + i)) - c.at) + 1]
    BY <2>1, <2>2, <2>3, Zenon
  <2> QED
    BY <1>2, <2>1, <2>4, Zenon
<1>6. Linked(K, (o + k) + y)
  BY <1>1, <1>4, Zenon
<1>7. p \in Nat /\ p = o + k
  BY <1>3, <1>4
<1>8. Holds(K, p, v) /\ Linked(K, p + Len(v)) /\ p + Len(v) = o + Len(w)
  BY <1>4, <1>5, <1>6, <1>7, Zenon DEF x, y
<1> QED
  BY <1>1, <1>2, <1>7, <1>8 DEF Framed, y

(* The first symbols that are left of a chunk. *)
Has(c, o, j, i, m) == j \in Nat /\ c.at + j = o + 1 /\ m = j + i /\ m <= 3 + c.len

(* A symbol of the stream is the one of its chunk. *)
LEMMA Shows ==
    ASSUME NEW K, NEW o \in Nat, NEW w, Framed(K, o, w), NEW c \in K, NEW i \in 1..Len(w), NEW j, NEW m, Has(c, o, j, i, m)
    PROVE  w[i] = Piece(c)[m]
<1>1. c \in Block /\ Holds(K, o, w) /\ Len(w) \in Nat
  BY DEF Framed
<1>2. c.at \in Nat /\ c.len \in Nat /\ Past(c) = c.at + (3 + c.len) /\ i \in Nat
  BY <1>1, BlockIs, PastIs
<1> DEFINE a == c.at
           l == c.len
           p == Past(c)
<1>3. a \in Nat /\ l \in Nat /\ p = a + (3 + l) /\ j \in Nat /\ a + j = o + 1 /\ m = j + i /\ m <= 3 + l
  BY <1>2 DEF Has
<1> HIDE DEF a, l, p
<1>4. o + i >= a /\ o + i < p /\ ((o + i) - a) + 1 = m
  BY <1>2, <1>3
<1>5. w[i] = Piece(c)[((o + i) - c.at) + 1]
  BY <1>1, <1>4, Zenon DEF Holds, a, p
<1>6. ((o + i) - c.at) + 1 = m
  BY <1>4 DEF a
<1> QED
  BY <1>5, <1>6, Zenon

-----------------------------------------------------------------------------
(* The reader goes on to the body of a chunk. *)
Heads(K, o, w, rh, u, g, wr, we, cn) ==
    \E c \in K : /\ c \in Block /\ (c.len = 0 <=> ~rh) /\ w[1] = Piece(c)[1] /\ w[2] = Piece(c)[2]
                 /\ \A f, v : /\ f.n = c.len + 1 /\ f.part = IF c.len = 0 THEN "magic" ELSE "data"
                              /\ f # C!Header /\ Left(o, w, 2, o + 2, v)
                      => /\ Framed(K, o + 2, v) /\ Reads(K, o + 2, v, f, TRUE, u)
                         /\ Ends(K, o + 2, v, f, TRUE, u, g, wr, we, cn)

(* fill() of a header leaves the reader inside that chunk. *)
LEMMA ToBody ==
    ASSUME NEW K, NEW o \in Nat, NEW w, NEW rh, NEW u \in Nat, NEW g, NEW wr, NEW we, NEW cn, NEW e,
           Framed(K, o, w), e = C!Header, Reads(K, o, w, e, rh, u), Ends(K, o, w, e, rh, u, g, wr, we, cn), Len(w) >= 2
    PROVE  Heads(K, o, w, rh, u, g, wr, we, cn)
<1>0. Len(w) \in Nat /\ Len(w) # 0 /\ 1 \in 1..Len(w) /\ 2 \in 1..Len(w) /\ 2 \in 0..Len(w) /\ 2 + 1 = 3
  BY DEF Framed
<1>1. PICK c \in K : Opens(c, o, rh, u)
  BY <1>0 DEF Reads
<1>2. c \in Block
  BY DEF Framed
<1>3. c.at = o + 1 /\ c.first = u + 1 /\ (c.len = 0 <=> ~rh)
  BY <1>1 DEF Opens
<1>4. c.at \in Nat /\ c.len \in Nat
  BY <1>2, BlockIs
<1>5. Has(c, o, 0, 1, 1) /\ Has(c, o, 0, 2, 2)
  BY <1>3, <1>4 DEF Has
<1>6. w[1] = Piece(c)[1] /\ w[2] = Piece(c)[2]
  BY <1>0, <1>5, Shows
<1> DEFINE p == o + 2
<1>p. p \in Nat /\ c.at + 1 = p
  BY <1>3
<1> HIDE DEF p
<1>7. ASSUME NEW f, NEW v, f.n = c.len + 1, f.part = IF c.len = 0 THEN "magic" ELSE "data", f # C!Header,
             Left(o, w, 2, p, v)
      PROVE  Framed(K, p, v) /\ Reads(K, p, v, f, TRUE, u) /\ Ends(K, p, v, f, TRUE, u, g, wr, we, cn)
  <2>2. Framed(K, p, v) /\ p + Len(v) = o + Len(w)
    BY <1>7, Drops
  <2>4. Inside(c, p, f, u)
    BY <1>3, <1>7, <1>p, Zenon DEF Inside
  <2>5. Reads(K, p, v, f, TRUE, u)
    <3>1. f # C!Header
      BY <1>7
    <3> QED
      BY <2>4, <3>1, Zenon DEF Reads
  <2>6. wr
    BY <1>0 DEF Ends
  <2>7. ~we /\ cn = "open" => Ended(K, p + Len(v), g)
    BY <2>2, Zenon DEF Ends
  <2>8. Ends(K, p, v, f, TRUE, u, g, wr, we, cn)
    BY <1>7, <2>6, <2>7, Zenon DEF Ends
  <2> QED
    BY <2>2, <2>5, <2>8, Zenon
<1> QED
  BY <1>2, <1>3, <1>6, <1>7, Zenon DEF p, Heads

(* The reader goes on to the next chunk. *)
Body(c, o, e, u, k, t) == e # C!Header /\ Inside(c, o, e, u) /\ k = e.n /\ t = u + c.len

(* fill() of a body leaves it before the next one. *)
LEMMA ToNext ==
    ASSUME NEW K, NEW o \in Nat, NEW w, NEW rh, NEW u \in Nat, NEW g \in Nat, NEW wr, NEW we, NEW cn, NEW e,
           Framed(K, o, w), Reads(K, o, w, e, rh, u), Ends(K, o, w, e, rh, u, g, wr, we, cn),
           NEW c \in K, NEW k, NEW t, Body(c, o, e, u, k, t), NEW v, NEW p, Left(o, w, k, p, v)
    PROVE  Framed(K, p, v) /\ Reads(K, p, v, C!Header, rh, t) /\ Ends(K, p, v, C!Header, rh, t, g, wr, we, cn)
<1>r. rh
  BY DEF Reads, Body
<1> DEFINE l == c.len
           x == Len(w)
           y == Len(v)
<1>1. c \in Block /\ x \in Nat /\ Linked(K, o + x)
  BY DEF Framed
<1>2. l \in Nat /\ c.at \in Nat /\ Past(c) = c.at + (3 + l) /\ Past(c) \in Nat /\ c.first \in Nat
  BY <1>1, BlockIs, PastIs
<1>3. k \in 0..x /\ k = l + 1
  BY DEF Inside, Left, Body
<1>4. Framed(K, p, v) /\ p \in Nat /\ y \in Nat /\ p + y = o + x
  <2> HIDE DEF l
  <2>1. Framed(K, p, v) /\ p \in Nat /\ Len(v) \in Nat /\ p + Len(v) = o + Len(w)
    BY Drops
  <2> QED
    BY <2>1
<1>5. c.at + 1 = o /\ c.first = u + 1
  BY DEF Inside, Body
<1> HIDE DEF l, x, y
<1>6. Past(c) = p + 1 /\ c.first + l = t + 1 /\ t \in Nat
  <2>1. p = o + k /\ t = u + l
    BY DEF l, Left, Body
  <2> QED
    BY <1>2, <1>3, <1>5, <2>1
<1>7. y # 0 => \E d \in K : Opens(d, p, rh, t)
  <2> SUFFICES ASSUME y # 0 PROVE \E d \in K : Opens(d, p, rh, t)
    OBVIOUS
  <2>1. Past(c) <= o + x
    <3>1. y \in Nat /\ x \in Nat /\ p \in Nat /\ p + y = o + x /\ Past(c) = p + 1 /\ Past(c) \in Nat
      BY <1>1, <1>2, <1>4, <1>6, Zenon
    <3> QED
      BY <3>1
  <2>2. PICK d \in K : d.at = Past(c) /\ d.first = c.first + c.len /\ d.len # 0
    BY <1>1, <2>1 DEF Linked
  <2> QED
    BY <1>6, <1>r, <2>2, Zenon DEF Opens, l
<1>8. Reads(K, p, v, C!Header, rh, t)
  <2>1. (Len(v) # 0 => \E d \in K : Opens(d, p, rh, t))
    BY <1>7 DEF y
  <2> QED
    BY <2>1, Zenon DEF Reads
<1>9. wr
  BY DEF Ends, Body
<1>10. ASSUME ~we, cn = "open" PROVE Ended(K, p + y, g) /\ (y = 0 => t = g)
  <2>1. Ended(K, o + x, g)
    <3>1. Ended(K, o + Len(w), g)
      BY <1>10, Zenon DEF Ends
    <3> QED
      BY <3>1 DEF x
  <2>2. Ended(K, p + y, g)
    BY <1>4, <2>1, Zenon
  <2>3. ASSUME y = 0 PROVE t = g
    <3>1. Past(c) = (o + x) + 1
      BY <1>1, <1>4, <1>6, <2>3
    <3>2. c.first + l = g + 1
      BY <2>1, <3>1, Zenon DEF Ended, l
    <3> QED
      BY <1>6, <3>2
  <2> QED
    BY <2>2, <2>3
<1>11. Ends(K, p, v, C!Header, rh, t, g, wr, we, cn)
  <2>1. ~we /\ cn = "open" => Ended(K, p + Len(v), g) /\ (Len(v) = 0 => t = g /\ (rh <=> wr))
    BY <1>9, <1>10, <1>r DEF y
  <2> QED
    BY <1>9, <2>1 DEF Ends
<1> QED
  BY <1>4, <1>8, <1>11, Zenon DEF l

-----------------------------------------------------------------------------
(* What a write puts out, and how much of it the connection takes. *)
Out(wr, g, n) == (IF wr THEN <<>> ELSE C!Identifier) \o C!Chunks(g + 1, g + n)
Puts(w, out, k, v) == k \in 0..Len(out) /\ v = w \o SubSeq(out, 1, k)

(* A stream that goes on has symbols. *)
LEMMA Longer ==
    ASSUME NEW K, NEW o \in Nat, NEW w \in Seq(Symbol), NEW g \in Nat, NEW v, NEW h, Goes(K, o, w, g, v, h)
    PROVE  v \in Seq(Symbol) /\ Len(v) \in Nat /\ Len(v) # 0
<1>1. PICK J : K \subseteq J /\ Whole(J, o, v, h) /\ \E d \in J : Follows(d, o, w, g)
  BY DEF Goes
<1>2. PICK d \in J : Follows(d, o, w, g)
  BY <1>1
<1>3. Framed(J, o, v) /\ Ended(J, o + Len(v), h)
  BY <1>1 DEF Whole
<1>4. d \in Block /\ v \in Seq(Symbol) /\ Len(v) \in Nat
  BY <1>3 DEF Framed
<1>5. Past(d) <= (o + Len(v)) + 1
  BY <1>3 DEF Ended
<1>6. d.at = (o + Len(w)) + 1 /\ Len(w) \in Nat
  BY <1>2 DEF Follows
<1>7. Past(d) \in Nat /\ Past(d) > d.at + 2 /\ d.at \in Nat
  BY <1>4, PastIs, BlockIs
<1> DEFINE p == Past(d)
           a == d.at
           x == Len(w)
           y == Len(v)
<1>8. p \in Nat /\ a \in Nat /\ x \in Nat /\ y \in Nat /\ p > a + 2 /\ a = (o + x) + 1 /\ p <= (o + y) + 1
  BY <1>4, <1>5, <1>6, <1>7
<1> HIDE DEF p, a, x, y
<1>9. y # 0
  BY <1>8
<1> QED
  BY <1>4, <1>9 DEF y

(* Nothing, put before a sequence. *)
LEMMA EmptyCat ==
    ASSUME NEW T, NEW s \in Seq(T)
    PROVE  <<>> \o s = s
OBVIOUS

(* The stream with all that a write puts out. *)
Extended(K, o, w, e, rh, u, v, h) ==
    \E J : /\ K \subseteq J /\ Whole(J, o, v, h)
           /\ Len(w) = 0 /\ e = C!Header => \E c \in J : Opens(c, o, rh, u)

(* A write that is taken whole adds whole chunks. *)
LEMMA PutsAll ==
    ASSUME NEW K, NEW o \in Nat, NEW w, NEW e, NEW rh, NEW u, NEW g \in Nat, NEW wr, Framed(K, o, w),
           Ends(K, o, w, e, rh, u, g, wr, FALSE, "open"), NEW n \in Nat, n > 0, NEW out, out = Out(wr, g, n), NEW v, v = Cat(w, out)
    PROVE  /\ out \in Seq(Symbol) /\ v \in Seq(Symbol) /\ Len(v) \in Nat /\ Len(v) # 0
           /\ Extended(K, o, w, e, rh, u, v, g + n)
<1> DEFINE ch == C!Chunks(g + 1, g + n)
<1>1. w \in Seq(Symbol) /\ Len(w) \in Nat
  BY DEF Framed
<1>2. Ended(K, o + Len(w), g) /\ (Len(w) = 0 /\ e = C!Header => u = g /\ (rh <=> wr))
  BY DEF Ends
<1>3. Whole(K, o, w, g)
  BY <1>2 DEF Whole
<1>c. ch = C!Chunks(g + 1, g + n)
  OBVIOUS
<1>o. out = (IF wr THEN <<>> ELSE C!Identifier) \o ch
  BY DEF Out
<1> HIDE DEF ch
<1>4. CASE wr
  <2>1. ch \in Seq(Symbol) /\ Goes(K, o, w, g, Cat(w, ch), g + n)
    BY <1>3, <1>c, AddsChunks
  <2>2. out = ch
    BY <1>4, <1>o, <2>1, EmptyCat
  <2>3. Goes(K, o, w, g, v, g + n)
    BY <2>1, <2>2, Zenon
  <2>4. v \in Seq(Symbol) /\ Len(v) \in Nat /\ Len(v) # 0
    BY <1>1, <2>3, Longer
  <2>5. PICK J : K \subseteq J /\ Whole(J, o, v, g + n) /\ \E d \in J : Follows(d, o, w, g)
    BY <2>3 DEF Goes
  <2>6. ASSUME Len(w) = 0, e = C!Header PROVE \E c \in J : Opens(c, o, rh, u)
    <3>1. PICK d \in J : Follows(d, o, w, g)
      BY <2>5
    <3>2. d.at = (o + Len(w)) + 1 /\ d.first = g + 1 /\ d.len # 0
      BY <3>1 DEF Follows
    <3>3. (o + Len(w)) + 1 = o + 1
      BY <2>6
    <3>4. u = g /\ rh
      BY <1>2, <1>4, <2>6
    <3> QED
      BY <3>2, <3>3, <3>4, Zenon DEF Opens
  <2> QED
    BY <2>1, <2>2, <2>4, <2>5, <2>6, Zenon DEF Extended
<1>5. CASE ~wr
  <2> DEFINE d == [at |-> o + 1, first |-> 1, len |-> 0]
             w1 == Cat(w, Piece(d))
  <2>1. g = 0 /\ K = {} /\ Len(w) = 0 /\ ~rh
    BY <1>5 DEF Ends
  <2>2. d \in Block /\ d.at = o + 1 /\ d.first = 1 /\ d.len = 0
    BY CompAssumption DEF Block
  <2>3. Piece(d) = C!Identifier
    BY <2>2 DEF Piece
  <2> HIDE DEF d
  <2>4. Fits(K, d, o, w, g) /\ g = g + d.len
    BY <2>1, <2>2 DEF Fits
  <2> DEFINE L == K \cup {d}
  <2>5. w1 = Cat(w, Piece(d))
    OBVIOUS
  <2> HIDE DEF w1
  <2>7. Whole(L, o, w1, g)
    BY <1>3, <2>2, <2>4, <2>5, AddsPiece
  <2>l. K \subseteq L /\ d \in L
    OBVIOUS
  <2> HIDE DEF L
  <2>6. w1 \in Seq(Symbol)
    BY <2>7, WholeIs
  <2>8. ch \in Seq(Symbol) /\ Goes(L, o, w1, g, Cat(w1, ch), g + n)
    BY <1>c, <2>7, AddsChunks
  <2>9. Piece(d) \in Seq(Symbol)
    BY <2>2, PieceIs
  <2>10. out = Cat(Piece(d), ch)
    BY <1>5, <1>o, <2>3, Zenon DEF Cat
  <2>11. out \in Seq(Symbol) /\ v = Cat(w1, ch)
    <3>1. Cat(Piece(d), ch) \in Seq(Symbol)
      BY <2>8, <2>9, CatIs
    <3>2. Cat(Cat(w, Piece(d)), ch) = Cat(w, Cat(Piece(d), ch))
      BY <1>1, <2>8, <2>9, CatAssociative
    <3> QED
      BY <2>5, <2>10, <3>1, <3>2, Zenon
  <2>12. Goes(L, o, w1, g, v, g + n)
    BY <2>8, <2>11, Zenon
  <2>13. v \in Seq(Symbol) /\ Len(v) \in Nat /\ Len(v) # 0
    BY <2>6, <2>12, Longer
  <2>14. PICK J : L \subseteq J /\ Whole(J, o, v, g + n)
    BY <2>12 DEF Goes
  <2>15. K \subseteq J /\ d \in J
    BY <2>l, <2>14
  <2>16. e = C!Header => Opens(d, o, rh, u)
    <3>1. e = C!Header => u = 0
      BY <1>2, <2>1
    <3>2. 0 + 1 = 1
      OBVIOUS
    <3> QED
      BY <2>1, <2>2, <3>1, <3>2, Zenon DEF Opens
  <2> QED
    BY <2>11, <2>13, <2>14, <2>15, <2>16, Zenon DEF Extended
<1> QED
  BY <1>4, <1>5

(* The stream with some of it. *)
Stops(k, out, we) == we = (k < Len(out))

Found(o, v, e, rh, u, h, wr, we, cn) ==
    \E J : Framed(J, o, v) /\ Reads(J, o, v, e, rh, u) /\ Ends(J, o, v, e, rh, u, h, wr, we, cn)

(* A write of which a part is taken leaves a beginning of them, and an error. *)
LEMMA PutsSome ==
    ASSUME NEW K, NEW o \in Nat, NEW w, NEW e, NEW rh, NEW u, NEW g \in Nat, NEW wr, Framed(K, o, w), Reads(K, o, w, e, rh, u),
           Ends(K, o, w, e, rh, u, g, wr, FALSE, "open"), NEW n \in Nat, n > 0, NEW out, out = Out(wr, g, n),
           NEW k, NEW v, Puts(w, out, k, v), NEW h, h = g + n, NEW we, Stops(k, out, we)
    PROVE  Found(o, v, e, rh, u, h, TRUE, we, "open")
<1> DEFINE all == Cat(w, out)
<1>0. all = Cat(w, out)
  OBVIOUS
<1> HIDE DEF all
<1>1. /\ out \in Seq(Symbol) /\ all \in Seq(Symbol) /\ Len(all) \in Nat /\ Len(all) # 0
      /\ Extended(K, o, w, e, rh, u, all, g + n)
  BY <1>0, PutsAll
<1>2. PICK J : /\ K \subseteq J /\ Whole(J, o, all, g + n)
               /\ Len(w) = 0 /\ e = C!Header => \E c \in J : Opens(c, o, rh, u)
  BY <1>1, Zenon DEF Extended
<1>3. Framed(J, o, all) /\ Ended(J, o + Len(all), h)
  BY <1>2 DEF Whole
<1>4. w \in Seq(Symbol) /\ Len(w) \in Nat
  BY DEF Framed
<1> DEFINE a == SubSeq(out, 1, k)
<1>5. k \in 0..Len(out) /\ k \in Nat /\ v = Cat(w, a) /\ Len(out) \in Nat
  BY <1>1 DEF Puts, Cat
<1>6. a \in Seq(Symbol) /\ Len(a) = k /\ \A i \in 1..k : a[i] = out[i]
  BY <1>1, <1>5
<1> HIDE DEF a
<1>7. /\ v \in Seq(Symbol) /\ Len(v) = Len(w) + k
      /\ \A i \in 1..(Len(w) + k) : v[i] = IF i <= Len(w) THEN w[i] ELSE a[i - Len(w)]
  <2>1. /\ Cat(w, a) \in Seq(Symbol) /\ Len(Cat(w, a)) = Len(w) + Len(a)
        /\ \A i \in 1..(Len(w) + Len(a)) : Cat(w, a)[i] = IF i <= Len(w) THEN w[i] ELSE a[i - Len(w)]
    BY <1>4, <1>6, CatIs, Zenon
  <2> QED
    BY <1>5, <1>6, <2>1, Zenon
<1>8. /\ Len(all) = Len(w) + Len(out)
      /\ \A i \in 1..(Len(w) + Len(out)) : all[i] = IF i <= Len(w) THEN w[i] ELSE out[i - Len(w)]
  <2>1. /\ Len(Cat(w, out)) = Len(w) + Len(out)
        /\ \A i \in 1..(Len(w) + Len(out)) : Cat(w, out)[i] = IF i <= Len(w) THEN w[i] ELSE out[i - Len(w)]
    BY <1>1, <1>4, CatIs, Zenon
  <2> QED
    BY <1>0, <2>1, Zenon
<1> DEFINE x == Len(w)
           y == Len(out)
<1>9. x \in Nat /\ y \in Nat /\ k \in 0..y /\ k \in Nat /\ Len(v) = x + k /\ Len(all) = x + y
  BY <1>4, <1>5, <1>7, <1>8
<1> HIDE DEF x, y
<1>10. Len(v) <= Len(all) /\ Len(v) \in Nat
  BY <1>9
<1>11. ASSUME NEW i \in 1..Len(v) PROVE v[i] = all[i]
  <2>1. i \in 1..(x + k) /\ i \in 1..(x + y) /\ (~(i <= x) => i - x \in 1..k)
    BY <1>9
  <2>2. CASE i <= x
    BY <1>7, <1>8, <2>1, <2>2, Zenon DEF x, y
  <2>3. CASE ~(i <= x)
    BY <1>6, <1>7, <1>8, <2>1, <2>3, Zenon DEF x, y
  <2> QED
    BY <2>2, <2>3
<1>12. Framed(J, o, v)
  BY <1>3, <1>7, <1>10, <1>11, Shorter
<1>13. Reads(J, o, v, e, rh, u)
  <2>1. e = C!Header => \E c \in J : Opens(c, o, rh, u)
    BY <1>2, Zenon DEF Reads
  <2>2. e # C!Header => rh /\ \E c \in J : Inside(c, o, e, u)
    BY <1>2 DEF Reads
  <2> QED
    BY <2>1, <2>2, Zenon DEF Reads
<1>14. ~we => Len(v) = Len(all)
  <2>1. ~we => ~(k < y)
    BY Zenon DEF y, Stops
  <2>2. ~(k < y) => x + k = x + y
    BY <1>9
  <2> QED
    BY <1>9, <2>1, <2>2, Zenon
<1>15. ~we => Ended(J, o + Len(v), h) /\ Len(v) # 0
  <2> SUFFICES ASSUME ~we PROVE Ended(J, o + Len(v), h) /\ Len(v) # 0
    OBVIOUS
  <2>1. Len(v) = Len(all)
    BY <1>14
  <2> QED
    BY <1>1, <1>3, <2>1, Zenon
<1>16. Ends(J, o, v, e, rh, u, h, TRUE, we, "open")
  BY <1>15, Zenon DEF Ends
<1> QED
  BY <1>12, <1>13, <1>16, Zenon DEF Found

-----------------------------------------------------------------------------
(* What has been read and decoded are the bytes from the first. *)
Bytes(g, d) ==
    /\ g \in Seq(Nat) /\ d \in Seq(Nat) /\ (\A i \in 1..Len(g) : g[i] = i) /\ \A i \in 1..Len(d) : d[i] = Len(g) + i

(* The stream, the reader and the writer. *)
Stream(K, o, w, e, rh, u, g, wr, we, cn) ==
    o \in Nat /\ Framed(K, o, w) /\ Reads(K, o, w, e, rh, u) /\ Ends(K, o, w, e, rh, u, g, wr, we, cn)

(* The invariant of Comp: some chunks are what is on the wire. *)
CompInv ==
    /\ Bytes(got, decoded) /\ given \in Nat /\ conn \in {"open", "eof", "failed"}
    /\ rerr = "corrupt" <=> cut
    /\ \E K, o : Stream(K, o, framed, expect, read_header, Len(got) + Len(decoded), given, wrote_stream_header, werr, conn)

(* It holds at the beginning. *)
LEMMA CompInit == C!Init => CompInv
<1> SUFFICES ASSUME C!Init PROVE CompInv
  OBVIOUS
<1>1. /\ given = 0 /\ wrote_stream_header = FALSE /\ werr = FALSE /\ framed = <<>> /\ conn = "open"
      /\ read_header = FALSE /\ expect = C!Header /\ cut = FALSE
      /\ decoded = <<>> /\ got = <<>> /\ rerr = "none"
  BY DEF C!Init
<1>2. Bytes(got, decoded) /\ Len(got) + Len(decoded) = 0
  BY <1>1 DEF Bytes
<1>3. Len(framed) = 0 /\ framed \in Seq(Symbol)
  BY <1>1
<1>4. Framed({}, 0, framed)
  BY <1>3 DEF Framed, Holds, Linked
<1>5. Reads({}, 0, framed, expect, read_header, 0)
  BY <1>1, <1>3 DEF Reads
<1>6. Ends({}, 0, framed, expect, read_header, 0, given, wrote_stream_header, werr, conn)
  BY <1>1, <1>3 DEF Ends, Ended
<1>7. Stream({}, 0, framed, expect, read_header, 0, given, wrote_stream_header, werr, conn)
  BY <1>4, <1>5, <1>6 DEF Stream
<1>8. \E K, o : Stream(K, o, framed, expect, read_header, Len(got) + Len(decoded), given, wrote_stream_header, werr, conn)
  BY <1>2, <1>7, Zenon
<1> QED
  BY <1>1, <1>2, <1>8 DEF CompInv

(* The invariant after a step, from a stream that has been found. *)
LEMMA CompFrom ==
    ASSUME NEW K, NEW o, NEW u, u = Len(got') + Len(decoded'),
           Stream(K, o, framed', expect', read_header', u, given', wrote_stream_header', werr', conn'),
           Bytes(got', decoded'), given' \in Nat, conn' \in {"open", "eof", "failed"}, rerr' = "corrupt" <=> cut'
    PROVE  CompInv'
<1>1. Stream(K, o, framed', expect', read_header', Len(got') + Len(decoded'), given', wrote_stream_header', werr', conn')
  BY Zenon
<1>2. \E J, p : Stream(J, p, framed', expect', read_header', Len(got') + Len(decoded'), given', wrote_stream_header', werr', conn')
  BY <1>1, Zenon
<1> QED
  BY <1>2, Zenon DEF CompInv

(* write_chunks(), whole, cut short, or after a failure. *)
LEMMA CompWrite == ASSUME CompInv, NEW n \in Slices, NEW k \in Nat, C!Write(n, k) PROVE CompInv'
<1> DEFINE u == Len(got) + Len(decoded)
<1>1. PICK K, o : Stream(K, o, framed, expect, read_header, u, given, wrote_stream_header, werr, conn)
  BY DEF CompInv
<1>2. /\ o \in Nat /\ Framed(K, o, framed) /\ Reads(K, o, framed, expect, read_header, u)
      /\ Ends(K, o, framed, expect, read_header, u, given, wrote_stream_header, werr, conn)
  BY <1>1 DEF Stream
<1>3. n \in Nat /\ n > 0 /\ given \in Nat
  BY CompAssumption DEF CompInv
<1>4. /\ conn = "open" /\ given' = given + n
      /\ UNCHANGED <<conn, read_header, expect, cut, decoded, got, rerr>>
  BY DEF C!Write
<1>5. /\ Bytes(got', decoded') /\ conn' \in {"open", "eof", "failed"} /\ (rerr' = "corrupt" <=> cut')
      /\ u = Len(got') + Len(decoded')
  BY <1>4 DEF CompInv
<1>6. given' \in Nat
  BY <1>3, <1>4
<1> HIDE DEF u
<1>7. CASE werr
  <2>1. UNCHANGED <<wrote_stream_header, werr, framed>>
    BY <1>7 DEF C!Write, C!Failed
  <2>2. wrote_stream_header
    BY <1>2, <1>7, Zenon DEF Ends
  <2>3. Ends(K, o, framed, expect, read_header, u, given', wrote_stream_header, werr, conn)
    BY <1>7, <2>2, Zenon DEF Ends
  <2>4. Stream(K, o, framed', expect', read_header', u, given', wrote_stream_header', werr', conn')
    <3>1. Stream(K, o, framed, expect, read_header, u, given', wrote_stream_header, werr, conn)
      BY <1>2, <2>3 DEF Stream
    <3> QED
      BY <1>4, <2>1, <3>1, Zenon
  <2> QED
    BY <1>5, <1>6, <2>4, CompFrom, Zenon
<1>8. CASE ~werr
  <2> DEFINE out == Out(wrote_stream_header, given, n)
  <2>1. /\ k <= Len(out) /\ framed' = framed \o SubSeq(out, 1, k) /\ werr' = (k < Len(out)) /\ wrote_stream_header' = TRUE
    BY <1>8, Zenon DEF C!Write, C!Failed, Out
  <2>2. out = Out(wrote_stream_header, given, n)
    OBVIOUS
  <2> HIDE DEF out
  <2>3. Ends(K, o, framed, expect, read_header, u, given, wrote_stream_header, FALSE, "open")
    BY <1>2, <1>4, <1>8, Zenon DEF Ends
  <2>4. out \in Seq(Symbol)
    <3> DEFINE v == Cat(framed, out)
    <3>1. v = Cat(framed, out)
      OBVIOUS
    <3> HIDE DEF v
    <3> QED
      BY <1>2, <1>3, <2>2, <2>3, <3>1, PutsAll
  <2>5. Len(out) \in Nat
    BY <2>4
  <2>6. k \in 0..Len(out)
    BY <2>1, <2>5
  <2>7. Puts(framed, out, k, framed') /\ Stops(k, out, werr')
    BY <2>1, <2>6, Zenon DEF Puts, Stops
  <2>8. PICK J : /\ Framed(J, o, framed') /\ Reads(J, o, framed', expect, read_header, u)
                 /\ Ends(J, o, framed', expect, read_header, u, given', TRUE, werr', "open")
    <3> DEFINE v == framed'
               h == given'
               we == werr'
    <3>1. Puts(framed, out, k, v) /\ Stops(k, out, we) /\ h = given + n
      BY <1>4, <2>7
    <3> HIDE DEF v, h, we
    <3>2. Found(o, v, expect, read_header, u, h, TRUE, we, "open")
      <4>1. o \in Nat /\ Framed(K, o, framed) /\ Reads(K, o, framed, expect, read_header, u)
        BY <1>2
      <4> QED
        BY <1>3, <2>2, <2>3, <3>1, <4>1, PutsSome
    <3> QED
      BY <3>2, Zenon DEF Found, v, h, we
  <2>9. Stream(J, o, framed', expect', read_header', u, given', wrote_stream_header', werr', conn')
    BY <1>2, <1>4, <2>1, <2>8, Zenon DEF Stream
  <2> QED
    BY <1>5, <1>6, <2>9, CompFrom, Zenon
<1> QED
  BY <1>7, <1>8

(* The connection ends for the reader. *)
LEMMA CompEnd ==
    ASSUME CompInv, NEW how \in {"eof", "failed"}, NEW n \in 0..Len(framed), C!End(how, n)
    PROVE  CompInv'
<1> DEFINE u == Len(got) + Len(decoded)
<1>1. PICK K, o : Stream(K, o, framed, expect, read_header, u, given, wrote_stream_header, werr, conn)
  BY DEF CompInv
<1>2. /\ o \in Nat /\ Framed(K, o, framed) /\ Reads(K, o, framed, expect, read_header, u)
      /\ Ends(K, o, framed, expect, read_header, u, given, wrote_stream_header, werr, conn)
  BY <1>1 DEF Stream
<1>3. /\ conn' = how /\ framed' = SubSeq(framed, 1, n)
      /\ UNCHANGED <<given, wrote_stream_header, werr, read_header, expect, cut, decoded, got, rerr>>
  BY DEF C!End
<1>4. /\ Bytes(got', decoded') /\ conn' \in {"open", "eof", "failed"} /\ (rerr' = "corrupt" <=> cut') /\ given' \in Nat
      /\ u = Len(got') + Len(decoded')
  BY <1>3 DEF CompInv
<1> HIDE DEF u
<1> DEFINE v == SubSeq(framed, 1, n)
<1>5. framed \in Seq(Symbol) /\ Len(framed) \in Nat
  BY <1>2 DEF Framed
<1>6. v \in Seq(Symbol) /\ Len(v) = n /\ \A i \in 1..n : v[i] = framed[i]
  BY <1>5
<1> HIDE DEF v
<1>7. Len(v) <= Len(framed) /\ (Len(framed) = 0 => Len(v) = 0)
  BY <1>5, <1>6
<1>8. Framed(K, o, v)
  BY <1>2, <1>6, <1>7, Shorter
<1>9. Reads(K, o, v, expect, read_header, u)
  <2>1. Reads(K, o, framed, expect, read_header, u) /\ (Len(v) # 0 => Len(framed) # 0)
    BY <1>2, <1>7
  <2> QED
    BY <2>1, Zenon DEF Reads
<1>10. how # "open"
  OBVIOUS
<1>11. Ends(K, o, v, expect, read_header, u, given, wrote_stream_header, werr, how)
  BY <1>2, <1>7, <1>10, Zenon DEF Ends
<1>12. Stream(K, o, v, expect, read_header, u, given, wrote_stream_header, werr, how)
  BY <1>2, <1>8, <1>9, <1>11, Zenon DEF Stream
<1>13. Stream(K, o, framed', expect', read_header', u, given', wrote_stream_header', werr', conn')
  <2>1. framed' = v
    BY <1>3 DEF v
  <2> QED
    BY <1>3, <1>12, <2>1, Zenon
<1> QED
  BY <1>4, <1>13, CompFrom, Zenon

-----------------------------------------------------------------------------
(* What every read_full() starts from. *)
LEMMA FillIs ==
    ASSUME CompInv, C!Fill
    PROVE  /\ Len(decoded) = 0 /\ Len(got) \in Nat /\ rerr = "none" /\ ~cut /\ Len(framed) >= expect.n
           /\ framed' = SubSeq(framed, expect.n + 1, Len(framed))
           /\ UNCHANGED <<given, wrote_stream_header, werr, conn, cut, got>>
           /\ given' \in Nat /\ conn' \in {"open", "eof", "failed"} /\ Bytes(got, decoded)
           /\ \E K, o : /\ o \in Nat /\ Framed(K, o, framed) /\ Reads(K, o, framed, expect, read_header, Len(got))
                        /\ Ends(K, o, framed, expect, read_header, Len(got), given, wrote_stream_header, werr, conn)
<1>1. decoded = <<>> /\ rerr = "none"
  BY DEF C!Fill, C!Filling
<1>2. Len(framed) >= expect.n
  BY DEF C!Fill, C!Whole
<1>3. framed' = SubSeq(framed, expect.n + 1, Len(framed)) /\ UNCHANGED <<given, wrote_stream_header, werr, conn, cut, got>>
  BY DEF C!Fill
<1>4. Bytes(got, decoded) /\ given \in Nat /\ conn \in {"open", "eof", "failed"} /\ (rerr = "corrupt" <=> cut)
  BY DEF CompInv
<1>5. Len(decoded) = 0 /\ Len(got) \in Nat /\ Len(got) + Len(decoded) = Len(got)
  BY <1>1, <1>4 DEF Bytes
<1>6. PICK K, o : Stream(K, o, framed, expect, read_header, Len(got) + Len(decoded), given, wrote_stream_header, werr, conn)
  BY DEF CompInv
<1>7. Stream(K, o, framed, expect, read_header, Len(got), given, wrote_stream_header, werr, conn)
  BY <1>5, <1>6, Zenon
<1>8. ~cut
  BY <1>1, <1>4
<1>9. given' \in Nat /\ conn' \in {"open", "eof", "failed"}
  BY <1>3, <1>4
<1>10. /\ o \in Nat /\ Framed(K, o, framed) /\ Reads(K, o, framed, expect, read_header, Len(got))
       /\ Ends(K, o, framed, expect, read_header, Len(got), given, wrote_stream_header, werr, conn)
  BY <1>7 DEF Stream
<1> QED
  BY <1>1, <1>2, <1>3, <1>4, <1>5, <1>8, <1>9, <1>10, Zenon

(* The start of a chunk is found where one begins. *)
LEMMA HeaderRead ==
    ASSUME NEW c \in Block, NEW s, s[1] = Piece(c)[1], s[2] = Piece(c)[2], c.len = 0 <=> ~read_header, C!OnHeader(s)
    PROVE  /\ read_header' = TRUE /\ UNCHANGED <<decoded, rerr>>
           /\ expect'.n = c.len + 1 /\ expect'.part = (IF c.len = 0 THEN "magic" ELSE "data") /\ expect' # C!Header
<1>1. c.len \in 0..MAX_BLOCK_SIZE /\ MAX_BLOCK_SIZE \in Nat /\ c.len \in Nat
  BY BlockIs
<1>2. CASE c.len = 0
  <2>1. s[1] = [type |-> "id"] /\ s[2] = [len |-> 1] /\ ~read_header
    BY <1>2, PieceIs
  <2>2. "type" \in DOMAIN s[1] /\ "len" \in DOMAIN s[2] /\ s[1].type = "id" /\ s[2].len = 1
    BY <2>1
  <2>3. ~(1 > 1) /\ "id" # "data"
    OBVIOUS
  <2>4. read_header' = TRUE /\ expect' = [part |-> "magic", n |-> 1] /\ UNCHANGED <<decoded, rerr>>
    BY <2>2, <2>3, Zenon DEF C!OnHeader
  <2>5. expect'.n = 1 /\ expect'.part = "magic" /\ expect' # C!Header /\ c.len + 1 = 1
    BY <1>2, <2>4 DEF C!Header
  <2> QED
    BY <1>2, <2>4, <2>5
<1>3. CASE c.len # 0
  <2>1. s[1] = [type |-> "data"] /\ s[2] = [len |-> c.len] /\ read_header
    BY <1>3, PieceIs
  <2>2. "type" \in DOMAIN s[1] /\ "len" \in DOMAIN s[2] /\ s[1].type = "data" /\ s[2].len = c.len
    BY <2>1
  <2>3. ~(c.len > MAX_BLOCK_SIZE) /\ "data" # "id"
    BY <1>1
  <2>4. read_header' = TRUE /\ expect' = [part |-> "data", n |-> c.len + 1] /\ UNCHANGED <<decoded, rerr>>
    BY <2>1, <2>2, <2>3, Zenon DEF C!OnHeader
  <2>5. expect'.n = c.len + 1 /\ expect'.part = "data" /\ expect' # C!Header
    BY <2>4 DEF C!Header
  <2> QED
    BY <1>3, <2>4, <2>5
<1> QED
  BY <1>2, <1>3

(* fill() of the start of a chunk. *)
LEMMA CompHeader == ASSUME CompInv, C!Fill, expect = C!Header PROVE CompInv'
<1>1. PICK K, o : /\ o \in Nat /\ Framed(K, o, framed) /\ Reads(K, o, framed, expect, read_header, Len(got))
                  /\ Ends(K, o, framed, expect, read_header, Len(got), given, wrote_stream_header, werr, conn)
  BY FillIs
<1>2. /\ Len(decoded) = 0 /\ Len(got) \in Nat /\ rerr = "none" /\ ~cut /\ Len(framed) >= 2 /\ Len(framed) \in Nat
      /\ framed' = SubSeq(framed, 3, Len(framed))
      /\ UNCHANGED <<given, wrote_stream_header, werr, conn, cut, got>>
      /\ given' \in Nat /\ conn' \in {"open", "eof", "failed"} /\ Bytes(got, decoded)
  <2>1. expect.n = 2 /\ 2 + 1 = 3
    BY DEF C!Header
  <2>2. Len(framed) \in Nat
    BY <1>1 DEF Framed
  <2> QED
    BY <2>1, <2>2, FillIs
<1> DEFINE s == SubSeq(framed, 1, expect.n)
<1>3. C!OnHeader(s)
  BY Zenon DEF C!Fill
<1>4. s[1] = framed[1] /\ s[2] = framed[2]
  <2>1. expect.n = 2
    BY DEF C!Header
  <2>2. framed \in Seq(Symbol)
    BY <1>1 DEF Framed
  <2> QED
    BY <1>2, <2>1, <2>2
<1> HIDE DEF s
<1> DEFINE u == Len(got)
<1>5. u \in Nat /\ u = Len(got)
  BY <1>2
<1> HIDE DEF u
<1>6. PICK c \in K : /\ c \in Block /\ (c.len = 0 <=> ~read_header) /\ framed[1] = Piece(c)[1] /\ framed[2] = Piece(c)[2]
                     /\ \A f, v : /\ f.n = c.len + 1 /\ f.part = IF c.len = 0 THEN "magic" ELSE "data"
                                  /\ f # C!Header /\ Left(o, framed, 2, o + 2, v)
                          => /\ Framed(K, o + 2, v) /\ Reads(K, o + 2, v, f, TRUE, u)
                             /\ Ends(K, o + 2, v, f, TRUE, u, given, wrote_stream_header, werr, conn)
  <2>1. /\ o \in Nat /\ Framed(K, o, framed) /\ Reads(K, o, framed, expect, read_header, u)
        /\ Ends(K, o, framed, expect, read_header, u, given, wrote_stream_header, werr, conn)
    BY <1>1, <1>5, Zenon
  <2> QED
    <3>1. Heads(K, o, framed, read_header, u, given, wrote_stream_header, werr, conn)
      BY <1>2, <1>5, <2>1, ToBody
    <3> QED
      BY <3>1, Zenon DEF Heads
<1>7. /\ read_header' = TRUE /\ UNCHANGED <<decoded, rerr>>
      /\ expect'.n = c.len + 1 /\ expect'.part = (IF c.len = 0 THEN "magic" ELSE "data") /\ expect' # C!Header
  BY <1>3, <1>4, <1>6, HeaderRead, Zenon
<1>8. Left(o, framed, 2, o + 2, framed')
  <2>1. 2 \in 0..Len(framed) /\ 2 + 1 = 3
    BY <1>2
  <2> QED
    BY <1>2, <2>1, Zenon DEF Left
<1>9. /\ Framed(K, o + 2, framed') /\ Reads(K, o + 2, framed', expect', TRUE, u)
      /\ Ends(K, o + 2, framed', expect', TRUE, u, given, wrote_stream_header, werr, conn)
  BY <1>6, <1>7, <1>8, Zenon
<1>10. o + 2 \in Nat
  BY <1>1
<1>11. Stream(K, o + 2, framed', expect', read_header', u, given', wrote_stream_header', werr', conn')
  BY <1>2, <1>7, <1>9, <1>10, Zenon DEF Stream
<1>12. u = Len(got') + Len(decoded')
  BY <1>2, <1>5, <1>7
<1>13. Bytes(got', decoded') /\ (rerr' = "corrupt" <=> cut')
  BY <1>2, <1>7
<1> QED
  BY <1>2, <1>11, <1>12, <1>13, CompFrom, Zenon

(* fill() where the connection has ended. *)
LEMMA CompFillEnds == ASSUME CompInv, C!FillEnds PROVE CompInv'
<1>1. /\ rerr = "none" /\ conn # "open" /\ rerr' = (IF conn = "failed" THEN "io" ELSE C!EndOf)
      /\ cut' = (conn = "eof" /\ ~(framed = <<>> /\ expect = C!Header))
      /\ UNCHANGED <<given, wrote_stream_header, werr, framed, conn, read_header, expect, decoded, got>>
  BY DEF C!FillEnds, C!Filling
<1>2. conn \in {"open", "eof", "failed"}
  BY DEF CompInv
<1>a. cut' <=> (conn = "eof" /\ ~(framed = <<>> /\ expect = C!Header))
  BY <1>1, Zenon
<1>3. rerr' = "corrupt" <=> cut'
  <2>1. CASE conn = "failed"
    <3>1. conn # "eof" /\ rerr' # "corrupt"
      BY <1>1, <2>1
    <3> QED
      BY <1>a, <3>1, Zenon
  <2>2. CASE conn = "eof"
    <3>1. rerr' = C!EndOf
      <4>1. conn # "failed"
        BY <2>2
      <4> QED
        BY <1>1, <4>1, Zenon
    <3>2. rerr' = IF framed = <<>> /\ expect = C!Header THEN "eof" ELSE "corrupt"
      BY <3>1, Zenon DEF C!EndOf
    <3>3. "eof" # "corrupt"
      OBVIOUS
    <3> QED
      BY <1>a, <2>2, <3>2, <3>3, Zenon
  <2>3. conn = "eof" \/ conn = "failed"
    <3>1. conn # "open"
      BY <1>1
    <3> QED
      BY <1>2, <3>1
  <2> QED
    BY <2>1, <2>2, <2>3
<1> QED
  BY <1>1, <1>3 DEF CompInv

-----------------------------------------------------------------------------
(* The rest of a chunk is what was put in. *)
LEMMA BodyRead ==
    ASSUME NEW c \in Block, NEW s, Len(s) = c.len + 1, s[1] = Piece(c)[3],
           \A i \in 1..c.len : s[1 + i] = Piece(c)[3 + i],
           expect.part = (IF c.len = 0 THEN "magic" ELSE "data"), C!OnBody(s)
    PROVE  /\ expect' = C!Header /\ UNCHANGED <<read_header, rerr>>
           /\ decoded' = IF c.len = 0 THEN decoded ELSE Data(c)
<1>1. c.len \in Nat
  BY BlockIs
<1>2. CASE c.len = 0
  <2>1. s[1] = [magic |-> "sNaPpY"] /\ expect.part = "magic"
    BY <1>2, PieceIs
  <2>2. ~("magic" \notin DOMAIN s[1])
    BY <2>1
  <2>3. expect' = C!Header /\ UNCHANGED <<read_header, decoded, rerr>>
    BY <2>1, <2>2, Zenon DEF C!OnBody
  <2> QED
    BY <1>2, <2>3
<1>3. CASE c.len # 0
  <2>1. s[1] = [sum |-> Data(c)] /\ expect.part = "data" /\ expect.part # "magic"
    BY <1>3, PieceIs
  <2>2. \A i \in 1..c.len : Piece(c)[3 + i] = [byte |-> c.first + (i - 1)]
    BY <1>3, PieceIs
  <2>3. \A i \in 1..c.len : s[1 + i] = [byte |-> Data(c)[i]]
    BY <2>2, DataIs
  <2>4. ~\E i \in 2..Len(s) : "byte" \notin DOMAIN s[i]
    <3> SUFFICES ASSUME NEW i \in 2..Len(s) PROVE "byte" \in DOMAIN s[i]
      OBVIOUS
    <3>1. i - 1 \in 1..c.len /\ 1 + (i - 1) = i
      BY <1>1
    <3>2. s[i] = [byte |-> Data(c)[i - 1]]
      BY <2>3, <3>1, Zenon
    <3> QED
      BY <3>2
  <2> DEFINE d == [i \in 1..(Len(s) - 1) |-> s[i + 1].byte]
  <2>5. d = Data(c)
    <3>1. Len(s) - 1 = c.len
      BY <1>1
    <3>2. \A i \in 1..c.len : s[i + 1].byte = Data(c)[i]
      <4> SUFFICES ASSUME NEW i \in 1..c.len PROVE s[i + 1].byte = Data(c)[i]
        OBVIOUS
      <4>1. i + 1 = 1 + i
        BY <1>1
      <4>2. s[i + 1] = [byte |-> Data(c)[i]]
        BY <2>3, <4>1, Zenon
      <4> QED
        BY <4>2
    <3>3. d = [i \in 1..c.len |-> s[i + 1].byte]
      BY <3>1, Zenon
    <3>4. d = [i \in 1..c.len |-> Data(c)[i]]
      BY <3>2, <3>3
    <3>5. Data(c) = [i \in 1..c.len |-> Data(c)[i]]
      BY DataIs DEF Data
    <3> QED
      BY <3>4, <3>5, Zenon
  <2>6. ~(s[1] # C!Sum(d))
    BY <2>1, <2>5, Zenon DEF C!Sum
  <2>7. decoded' = d /\ expect' = C!Header /\ UNCHANGED <<read_header, rerr>>
    BY <2>1, <2>4, <2>6, Zenon DEF C!OnBody
  <2> QED
    BY <1>3, <2>5, <2>7, Zenon
<1> QED
  BY <1>2, <1>3

(* fill() of the rest of a chunk. *)
LEMMA CompBody == ASSUME CompInv, C!Fill, expect # C!Header PROVE CompInv'
<1>1. PICK K, o : /\ o \in Nat /\ Framed(K, o, framed) /\ Reads(K, o, framed, expect, read_header, Len(got))
                  /\ Ends(K, o, framed, expect, read_header, Len(got), given, wrote_stream_header, werr, conn)
  BY FillIs
<1>2. PICK c \in K : Inside(c, o, expect, Len(got))
  BY <1>1 DEF Reads
<1>3. /\ c \in Block /\ c.len \in Nat /\ c.at + 1 = o /\ c.first = Len(got) + 1 /\ expect.n = c.len + 1
      /\ expect.part = (IF c.len = 0 THEN "magic" ELSE "data") /\ c.at \in Nat
  BY <1>1, <1>2, BlockIs DEF Framed, Inside
<1>4. framed \in Seq(Symbol) /\ Len(framed) \in Nat /\ Len(framed) >= c.len + 1
  <2>1. framed \in Seq(Symbol) /\ Len(framed) \in Nat
    BY <1>1 DEF Framed
  <2>2. Len(framed) >= expect.n
    BY FillIs
  <2> QED
    BY <1>3, <2>1, <2>2
<1>5. /\ Len(decoded) = 0 /\ Len(got) \in Nat /\ rerr = "none" /\ ~cut
      /\ framed' = SubSeq(framed, expect.n + 1, Len(framed))
      /\ UNCHANGED <<given, wrote_stream_header, werr, conn, cut, got>>
      /\ given' \in Nat /\ conn' \in {"open", "eof", "failed"} /\ Bytes(got, decoded) /\ given \in Nat
  BY FillIs DEF CompInv
<1> DEFINE s == SubSeq(framed, 1, expect.n)
           u == Len(got)
           t == u + c.len
           p == o + (c.len + 1)
<1>6. C!OnBody(s)
  BY Zenon DEF C!Fill
<1>7. Len(s) = c.len + 1 /\ \A i \in 1..(c.len + 1) : s[i] = framed[i]
  <2> DEFINE k == c.len + 1
  <2>1. k \in Nat /\ k <= Len(framed) /\ expect.n = k
    BY <1>3, <1>4
  <2> HIDE DEF k
  <2>2. Len(s) = k /\ \A i \in 1..k : s[i] = framed[i]
    BY <1>4, <2>1
  <2> QED
    BY <2>2 DEF k
<1> HIDE DEF s
<1>8. framed[1] = Piece(c)[3]
  <2>1. Has(c, o, 2, 1, 3) /\ 1 \in 1..Len(framed)
    BY <1>3, <1>4 DEF Has
  <2> QED
    BY <1>1, <2>1, Shows
<1>9. ASSUME NEW i \in 1..c.len PROVE s[1 + i] = Piece(c)[3 + i]
  <2> DEFINE j == 1 + i
             m == 3 + i
  <2>1. Has(c, o, 2, j, m) /\ j \in 1..Len(framed) /\ j \in 1..(c.len + 1)
    <3> DEFINE l == c.len
               z == Len(framed)
               b == c.at
    <3>1. l \in Nat /\ z \in Nat /\ z >= l + 1 /\ b \in Nat /\ b + 1 = o /\ i \in 1..l
      BY <1>3, <1>4
    <3> HIDE DEF l, z, b
    <3>2. b + 2 = o + 1 /\ m = 2 + j /\ m <= 3 + l /\ j \in 1..z /\ j \in 1..(l + 1)
      BY <3>1
    <3> QED
      BY <3>2 DEF l, z, b, Has
  <2> HIDE DEF j, m
  <2>2. framed[j] = Piece(c)[m]
    BY <1>1, <2>1, Shows
  <2>3. s[j] = Piece(c)[m]
    BY <1>7, <2>1, <2>2, Zenon
  <2> QED
    BY <2>3 DEF j, m
<1>10. s[1] = Piece(c)[3]
  <2>1. 1 \in 1..(c.len + 1)
    BY <1>3
  <2> QED
    BY <1>7, <1>8, <2>1, Zenon
<1>11. /\ expect' = C!Header /\ UNCHANGED <<read_header, rerr>>
       /\ decoded' = IF c.len = 0 THEN decoded ELSE Data(c)
  BY <1>3, <1>6, <1>7, <1>9, <1>10, BodyRead, Zenon
<1>12. Body(c, o, expect, u, c.len + 1, t) /\ Left(o, framed, c.len + 1, p, framed')
  <2>1. c.len + 1 \in 0..Len(framed)
    BY <1>3, <1>4
  <2>2. framed' = SubSeq(framed, (c.len + 1) + 1, Len(framed))
    BY <1>3, <1>5, Zenon
  <2> QED
    BY <1>2, <1>3, <2>1, <2>2, Zenon DEF Body, Left
<1>13. u \in Nat /\ p \in Nat /\ t \in Nat
  <2>1. c.len \in Nat /\ Len(got) \in Nat /\ o \in Nat
    BY <1>1, <1>3, <1>5
  <2> QED
    BY <2>1
<1>14. Reads(K, o, framed, expect, read_header, u) /\ Ends(K, o, framed, expect, read_header, u, given, wrote_stream_header, werr, conn)
  BY <1>1, Zenon
<1> DEFINE k == c.len + 1
           v == framed'
<1>15. Body(c, o, expect, u, k, t) /\ Left(o, framed, k, p, v)
  BY <1>12
<1>16. t = Len(got') + Len(decoded') /\ Bytes(got', decoded')
  <2>1. CASE c.len = 0
    BY <1>3, <1>5, <1>11, <2>1
  <2>2. CASE c.len # 0
    <3>1. decoded' = Data(c) /\ got' = got
      BY <1>5, <1>11, <2>2
    <3>2. Data(c) \in Seq(Nat) /\ Len(Data(c)) = c.len /\ \A i \in 1..c.len : Data(c)[i] = c.first + (i - 1)
      BY <1>3, DataIs
    <3>3. \A i \in 1..c.len : Data(c)[i] = Len(got) + i
      <4>1. Len(got) \in Nat /\ c.len \in Nat /\ c.first = Len(got) + 1
        BY <1>3, <1>5
      <4>2. \A i \in 1..c.len : c.first + (i - 1) = Len(got) + i
        BY <4>1
      <4> QED
        BY <3>2, <4>2, Zenon
    <3>4. Bytes(got, Data(c)) /\ t = Len(got) + Len(Data(c))
      BY <1>5, <3>2, <3>3 DEF Bytes
    <3> QED
      BY <3>1, <3>4, Zenon
  <2> QED
    BY <2>1, <2>2
<1> HIDE DEF u, t, p, k, v
<1>17. /\ Framed(K, p, v) /\ Reads(K, p, v, C!Header, read_header, t)
       /\ Ends(K, p, v, C!Header, read_header, t, given, wrote_stream_header, werr, conn)
  BY <1>1, <1>5, <1>13, <1>14, <1>15, ToNext
<1>18. Stream(K, p, framed', expect', read_header', t, given', wrote_stream_header', werr', conn')
  <2>1. Stream(K, p, v, C!Header, read_header, t, given, wrote_stream_header, werr, conn)
    BY <1>13, <1>17, Zenon DEF Stream
  <2>2. framed' = v
    BY DEF v
  <2> QED
    BY <1>5, <1>11, <2>1, <2>2, Zenon
<1>19. rerr' = "corrupt" <=> cut'
  BY <1>5, <1>11
<1> QED
  BY <1>5, <1>16, <1>18, <1>19, CompFrom, Zenon

(* read(). *)
LEMMA CompRead == ASSUME CompInv, NEW n \in Nat, C!Read(n) PROVE CompInv'
<1>1. /\ n \in 1..Len(decoded) /\ got' = got \o SubSeq(decoded, 1, n) /\ decoded' = SubSeq(decoded, n + 1, Len(decoded))
      /\ UNCHANGED <<given, wrote_stream_header, werr, framed, conn, read_header, expect, cut, rerr>>
  BY DEF C!Read
<1>2. /\ got \in Seq(Nat) /\ decoded \in Seq(Nat) /\ (\A i \in 1..Len(got) : got[i] = i)
      /\ (\A i \in 1..Len(decoded) : decoded[i] = Len(got) + i) /\ Len(got) \in Nat /\ Len(decoded) \in Nat
  BY DEF CompInv, Bytes
<1> DEFINE x == Len(got)
           y == Len(decoded)
           a == SubSeq(decoded, 1, n)
           g == got \o a
           d == SubSeq(decoded, n + 1, Len(decoded))
<1>3. a \in Seq(Nat) /\ Len(a) = n /\ \A i \in 1..n : a[i] = decoded[i]
  <2>1. decoded \in Seq(Nat) /\ n \in 1..Len(decoded) /\ n <= Len(decoded)
    BY <1>1, <1>2
  <2> QED
    BY <2>1
<1>4. d \in Seq(Nat) /\ Len(d) = y - n /\ \A i \in 1..(y - n) : d[i] = decoded[n + i]
  <2>1. n \in 0..Len(decoded)
    BY <1>1, <1>2
  <2> QED
    BY <1>2, <2>1, Suffix
<1> HIDE DEF a
<1>5. /\ g \in Seq(Nat) /\ Len(g) = x + n
      /\ \A i \in 1..(x + n) : g[i] = IF i <= x THEN got[i] ELSE a[i - x]
  <2>1. /\ got \o a \in Seq(Nat) /\ Len(got \o a) = Len(got) + Len(a)
        /\ \A i \in 1..(Len(got) + Len(a)) : (got \o a)[i] = IF i <= Len(got) THEN got[i] ELSE a[i - Len(got)]
    BY <1>2, <1>3, ConcatElements, Zenon
  <2> QED
    BY <1>3, <2>1, Zenon
<1>6. x \in Nat /\ y \in Nat /\ n \in 1..y /\ got' = g /\ decoded' = d
      /\ (\A i \in 1..x : got[i] = i) /\ (\A i \in 1..y : decoded[i] = x + i)
  BY <1>1, <1>2 DEF a
<1> HIDE DEF x, y, g, d
<1>7. ASSUME NEW i \in 1..(x + n) PROVE g[i] = i
  <2>1. CASE i <= x
    <3>1. i \in 1..x
      BY <1>6, <2>1
    <3> QED
      BY <1>5, <1>6, <2>1, <3>1, Zenon
  <2>2. CASE ~(i <= x)
    <3>1. i - x \in 1..n /\ i - x \in 1..y /\ x + (i - x) = i
      BY <1>6, <2>2
    <3> QED
      BY <1>3, <1>5, <1>6, <2>2, <3>1, Zenon
  <2> QED
    BY <2>1, <2>2
<1>8. ASSUME NEW i \in 1..(y - n) PROVE d[i] = (x + n) + i
  <2>1. n + i \in 1..y /\ x + (n + i) = (x + n) + i
    BY <1>6
  <2> QED
    BY <1>4, <1>6, <2>1, Zenon DEF y
<1>9. Bytes(g, d) /\ x + y = Len(g) + Len(d)
  <2>1. Len(d) = y - n /\ Len(g) = x + n
    BY <1>4, <1>5 DEF y
  <2>2. x + y = (x + n) + (y - n)
    BY <1>6
  <2> QED
    BY <1>4, <1>5, <1>7, <1>8, <2>1, <2>2, Zenon DEF Bytes, y
<1>10. PICK K, o : Stream(K, o, framed, expect, read_header, x + y, given, wrote_stream_header, werr, conn)
  BY DEF CompInv, x, y
<1>11. Stream(K, o, framed', expect', read_header', x + y, given', wrote_stream_header', werr', conn')
  BY <1>1, <1>10, Zenon
<1>12. Bytes(got', decoded') /\ x + y = Len(got') + Len(decoded')
  BY <1>6, <1>9, Zenon
<1>13. given' \in Nat /\ conn' \in {"open", "eof", "failed"} /\ (rerr' = "corrupt" <=> cut')
  BY <1>1 DEF CompInv
<1> QED
  BY <1>11, <1>12, <1>13, CompFrom, Zenon

(* Every step, and what the invariant is for. *)
LEMMA CompNext == CompInv /\ C!Next => CompInv'
<1> SUFFICES ASSUME CompInv, C!Next PROVE CompInv'
  OBVIOUS
<1>1. CASE \E n \in Slices, k \in 0..4 * MaxBytes + 3 : C!Write(n, k)
  <2>1. \A k \in 0..4 * MaxBytes + 3 : k \in Nat
    BY CompAssumption
  <2> QED
    BY <1>1, <2>1, CompWrite
<1>2. CASE \E how \in {"eof", "failed"}, n \in 0..Len(framed) : C!End(how, n)
  BY <1>2, CompEnd
<1>3. CASE C!Fill
  BY <1>3, CompHeader, CompBody
<1>4. CASE C!FillEnds
  BY <1>4, CompFillEnds
<1>5. CASE \E n \in 1..MAX_BLOCK_SIZE : C!Read(n)
  BY <1>5, CompRead
<1> QED
  BY <1>1, <1>2, <1>3, <1>4, <1>5 DEF C!Next

(* CompInv is enough for the property. *)
LEMMA CompRight == CompInv => C!FramesRight
<1> SUFFICES ASSUME CompInv PROVE C!FramesRight
  OBVIOUS
<1>1. got \in Seq(Nat) /\ (\A i \in 1..Len(got) : got[i] = i) /\ (rerr = "corrupt" <=> cut)
  BY DEF CompInv, Bytes
<1>2. DOMAIN got = 1..Len(got)
  BY <1>1
<1> QED
  BY <1>1, <1>2, Zenon DEF C!FramesRight

-----------------------------------------------------------------------------
(* The invariants of the two parts, which hold of every behaviour of the   *)
(* proxied connection.                                                     *)
QppPart == part = "qpp" => Q!QppInv
CompPart == part = "comp" => CompInv

(* The invariant of the part always holds. *)
LEMMA QppHolds == Spec => []QppPart
<1>1. Init => QppPart
  BY QppInit DEF Init, QppPart
<1>2. QppPart /\ [Next]_vars => QppPart'
  <2> SUFFICES ASSUME QppPart, [Next]_vars, part' = "qpp" PROVE Q!QppInv'
    BY DEF QppPart
  <2>1. part = "qpp" /\ Q!QppInv
    BY DEF QppPart, Next, vars
  <2>2. CASE Q!Next
    BY <2>1, <2>2, QppNext
  <2>3. CASE UNCHANGED vars
    <3>1. UNCHANGED <<slice, acked, obuf, staged, wprng, wire, rprng, plain, end, flushes>>
      BY <2>3 DEF vars, qppVars
    <3> QED
      BY <2>1, <3>1 DEF Q!QppInv, Q!TypeOK, Q!Aligned, Q!Staged, Q!Follows, Q!Place
  <2> QED
    BY <2>1, <2>2, <2>3 DEF Next
<1> QED
  BY <1>1, <1>2, PTL DEF Spec

(* The invariant of the part always holds. *)
LEMMA CompHolds == Spec => []CompPart
<1>1. Init => CompPart
  BY CompInit DEF Init, CompPart
<1>2. CompPart /\ [Next]_vars => CompPart'
  <2> SUFFICES ASSUME CompPart, [Next]_vars, part' = "comp" PROVE CompInv'
    BY DEF CompPart
  <2>1. part = "comp" /\ CompInv
    BY DEF CompPart, Next, vars
  <2>2. CASE C!Next
    BY <2>1, <2>2, CompNext
  <2>3. CASE UNCHANGED vars
    <3>1. UNCHANGED <<given, wrote_stream_header, werr, framed, conn, read_header, expect, cut, decoded, got, rerr>>
      BY <2>3 DEF vars, compVars
    <3> QED
      BY <2>1, <3>1, Zenon DEF CompInv
  <2> QED
    BY <2>1, <2>2, <2>3 DEF Next
<1> QED
  BY <1>1, <1>2, PTL DEF Spec

(* Every byte arrives once and in order: a direction of the pipe holds     *)
(* what it has read and not written (poll_write of SmuxStream); a byte is  *)
(* unmasked with the byte of the word that masked it, however writes are   *)
(* cut up, retried and flushed and reads cut up otherwise (QppStream); and *)
(* chunks are taken apart where they were put together, their stream found *)
(* corrupt only when it ends inside one (CompStream).                      *)
THEOREM BytesKept == Spec => []BytesIntact
<1>1. PipePart /\ QppPart /\ CompPart => BytesIntact
  <2>1. part = "pipe" /\ PipePart => P!NoneTwice
    BY DEF PipePart, P!PipeInv, P!Accounted
  <2>2. part = "qpp" /\ QppPart => Q!BytesRight
    BY QppRight DEF QppPart
  <2>3. part = "comp" /\ CompPart => C!FramesRight
    BY CompRight DEF CompPart
  <2> QED
    BY <2>1, <2>2, <2>3 DEF BytesIntact
<1> QED
  BY <1>1, PipeHolds, QppHolds, CompHolds, PTL
=============================================================================
