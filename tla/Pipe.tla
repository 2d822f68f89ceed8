-------------------------------- MODULE Pipe ---------------------------------
(***************************************************************************)
(* The proxy pipe between a socket and a smux stream (crates/std/src/      *)
(* pipe.rs, smuxio.rs, qpp.rs): two copies polled by one task, and the     *)
(* rules of V24 that end them.                                             *)
(*                                                                         *)
(* Bytes are units.  Instants are ages: how long ago, up to AgeMax, beyond *)
(* which nothing depends on them; timers count down.  The far sides of     *)
(* both ends do as they like between any two steps of the task.            *)
(***************************************************************************)
EXTENDS Integers, FiniteSets, FiniteSetsExt

CONSTANTS
    close_wait,         \* -closewait, in ticks
    socket_stall,       \* Timing::socket_stall
    watch,              \* Timing::watch
    Cap,                \* what an end buffers of what it received
    OutCap,             \* and of what was written to it
    Quarter,            \* a quarter of the session's receive buffer
    MaxSent,            \* bound on what each far side sends
    first_polled        \* the direction pipe_with() polls first: alice is the socket in
                        \* the client and the stream in the server

VARIABLES
    far,                \* of each end: "open", "fin", or "lost": a socket that was reset,
                        \* a stream whose session died
    inq,                \* received on an end and unread
    outq,               \* written to an end and not taken by its far side
    copy,               \* the two Transfers
    write_fut,          \* what SmuxStream's in-flight write has still to write, or NoFut
    life,               \* "open" or "closing"
    grace,              \* what is left of the grace
    tick,               \* what is left of the watch timer, or Unset
    watching,
    unsent,             \* the socket's send queue at the last probe, or Unset
    moved,              \* age of the last byte written by either direction
    drained,            \* age of the last probe that saw the send queue shrink
    signalled,          \* age of the first probe that saw the end signal, or Unset
    task,               \* "asleep", the direction or "life" it polls, "close", or "ended"
    armed,              \* what may wake it
    why,                \* why the pipe ends
    aborted,            \* the socket is closed by a reset
    took,               \* age of the last unit the socket's far side took while the probes
                        \* kept up
    fresh,              \* they do: the watch has not lapsed since the last of them
    over                \* age of the first finished direction, or Unset

envVars == <<far, inq, outq, took>>
ghosts == <<fresh, over>>
lifeVars == <<life, grace, tick, watching, unsent, drained, signalled>>
endVars == <<why, aborted>>
vars == <<far, inq, outq, copy, write_fut, life, grace, tick, watching, unsent,
          moved, drained, signalled, task, armed, why, aborted, took, fresh, over>>

Ends == {"sock", "stream"}
Dirs == {"up", "down"}
Src(d) == IF d = "up" THEN "sock" ELSE "stream"
Dst(d) == IF d = "up" THEN "stream" ELSE "sock"
Other(d) == IF d = "up" THEN "down" ELSE "up"
Next_polled(d) == IF d = first_polled THEN Other(d) ELSE "life"

Unset == -1
NoFut == 0
stall_limit == Max({socket_stall, close_wait})
AgeMax == stall_limit
Ages == 0..AgeMax
TookMax == stall_limit - watch        \* where the ghost ages stop: took, and over at close_wait

Transfer == [phase: {"copying", "flushing", "done"}, hold: 0..Cap, buf: BOOLEAN,
             parked: BOOLEAN, result: {"ok", "error", "stalled"},
             got: 0..MaxSent, put: 0..MaxSent]    \* ghosts: units read and written

TypeOK ==
    /\ far \in [Ends -> {"open", "fin", "lost"}]
    /\ inq \in [Ends -> 0..Cap] /\ outq \in [Ends -> 0..OutCap]
    /\ {watching, aborted, fresh} \subseteq BOOLEAN
    /\ copy \in [Dirs -> Transfer] /\ write_fut \in 0..Cap
    /\ life \in {"open", "closing"} /\ grace \in 0..close_wait
    /\ tick \in 0..watch \cup {Unset} /\ unsent \in 0..OutCap \cup {Unset}
    /\ {moved, drained} \subseteq Ages /\ {signalled, over} \subseteq Ages \cup {Unset}
    /\ took \in 0..TookMax
    /\ task \in Dirs \cup {"asleep", "life", "close", "ended"}
    /\ armed \subseteq ({"read", "write"} \X Dirs) \cup {<<"tick">>, <<"grace">>}
    /\ why \in {"none", "done", "grace", "stalled"}

Init ==
    /\ far = [e \in Ends |-> "open"]
    /\ inq = [e \in Ends |-> 0] /\ outq = [e \in Ends |-> 0]
    /\ copy = [d \in Dirs |-> [phase |-> "copying", hold |-> 0, buf |-> FALSE, parked |-> FALSE,
                               result |-> "ok", got |-> 0, put |-> 0]]
    /\ write_fut = NoFut
    /\ life = "open" /\ grace = 0 /\ tick = Unset /\ watching = FALSE /\ unsent = Unset
    /\ moved = 0 /\ drained = AgeMax /\ signalled = Unset
    /\ task = first_polled /\ armed = {} /\ why = "none" /\ aborted = FALSE
    /\ took = TookMax /\ fresh = TRUE /\ over = Unset

-----------------------------------------------------------------------------
(* The far sides, the session under the stream, and time.                  *)

Alive == task \notin {"close", "ended"}

(* All that a far side has sent. *)
Received(e) == inq[e] + copy[IF e = "sock" THEN "up" ELSE "down"].got

FarSend(e) ==
    /\ Alive /\ far[e] = "open" /\ inq[e] < Cap /\ Received(e) < MaxSent
    /\ inq' = [inq EXCEPT ![e] = @ + 1]
    /\ UNCHANGED <<far, outq, took, copy, write_fut, lifeVars, moved, task, armed, endVars, ghosts>>

FarTake(e) ==
    /\ Alive /\ far[e] # "lost" /\ outq[e] > 0
    /\ outq' = [outq EXCEPT ![e] = @ - 1]
    /\ took' = IF e = "sock" /\ fresh THEN 0 ELSE took
    /\ UNCHANGED <<far, inq, copy, write_fut, lifeVars, moved, task, armed, endVars, ghosts>>

FarFin(e) ==
    /\ Alive /\ far[e] = "open"
    /\ far' = [far EXCEPT ![e] = "fin"]
    /\ UNCHANGED <<inq, outq, took, copy, write_fut, lifeVars, moved, task, armed, endVars, ghosts>>

FarLost(e) ==
    /\ Alive /\ far[e] # "lost"
    /\ far' = [far EXCEPT ![e] = "lost"]
    /\ UNCHANGED <<inq, outq, took, copy, write_fut, lifeVars, moved, task, armed, endVars, ghosts>>

Older(age, max) == IF age = Unset THEN Unset ELSE Min({age + 1, max})
Less(left) == IF left = Unset THEN Unset ELSE Max({left - 1, 0})

Tick ==
    /\ task = "asleep"
    /\ IF life = "open"
       THEN /\ moved' = Older(moved, AgeMax) /\ drained' = Older(drained, AgeMax)
            /\ signalled' = Older(signalled, AgeMax) /\ took' = Older(took, TookMax)
       ELSE UNCHANGED <<moved, drained, signalled, took>>    \* no longer looked at
    /\ over' = Older(over, close_wait)
    /\ grace' = Less(grace) /\ tick' = Less(tick)
    /\ fresh' = (fresh /\ (signalled = Unset \/ tick # 0))    \* a timer that is late
    /\ UNCHANGED <<far, inq, outq, copy, write_fut, life, watching, unsent, task, armed, endVars>>

-----------------------------------------------------------------------------
(* poll_transfer(), one turn of its loop at a time.                        *)

(* The bytes the destination takes at once. *)
Room(d) == OutCap - outq[Dst(d)]

(* Mutant: every poll starts a write of its own. *)
Left_again(d) == copy[d].hold

(* What a write still has to hand over: SmuxStream's in-flight future was  *)
(* given the whole slice and is finished by the retry; QppStream's obuf is *)
(* the same for the staged ciphertext.                                     *)
Left(d) == IF d = "up" /\ write_fut # NoFut THEN write_fut ELSE copy[d].hold

Writing(d) == task = d /\ copy[d].phase = "copying" /\ copy[d].hold > 0

Failed(c) == [c EXCEPT !.phase = "flushing", !.hold = 0, !.buf = FALSE, !.parked = FALSE,
                       !.result = IF @ = "ok" THEN "error" ELSE @]

WriteFails(d) ==
    /\ Writing(d) /\ far[Dst(d)] = "lost"
    /\ copy' = [copy EXCEPT ![d] = Failed(@)]
    /\ write_fut' = IF d = "up" THEN NoFut ELSE write_fut
    /\ UNCHANGED <<envVars, lifeVars, moved, task, armed, endVars, ghosts>>

(* A socket takes part of the slice; a write to a stream is ready only     *)
(* when all of it is gone.                                                 *)
WriteSome(d) ==
    LET n == Min({Left(d), Room(d)})
    IN  /\ Writing(d) /\ far[Dst(d)] # "lost" /\ n > 0
        /\ d = "up" => n = Left(d)
        /\ outq' = [outq EXCEPT ![Dst(d)] = @ + n]
        /\ copy' = [copy EXCEPT ![d].hold = IF d = "up" THEN 0 ELSE @ - n,
                                ![d].put = @ + n, ![d].parked = FALSE]
        /\ write_fut' = IF d = "up" THEN NoFut ELSE write_fut
        /\ moved' = 0
        /\ UNCHANGED <<far, inq, took, lifeVars, task, armed, endVars, ghosts>>

(* Pending: the direction parks.  What a stream has taken of the slice     *)
(* does not show.                                                          *)
WritePark(d) ==
    LET n == Min({Left(d), Room(d)})
    IN  /\ Writing(d) /\ far[Dst(d)] # "lost"
        /\ IF d = "up" THEN n < Left(d) ELSE n = 0
        /\ outq' = [outq EXCEPT ![Dst(d)] = @ + n]
        /\ copy' = [copy EXCEPT ![d].parked = TRUE, ![d].put = @ + n]
        /\ write_fut' = IF d = "up" THEN Left(d) - n ELSE write_fut
        /\ task' = Next_polled(d) /\ armed' = armed \cup {<<"write", d>>}
        /\ UNCHANGED <<far, inq, took, lifeVars, moved, endVars, ghosts>>

Reading(d) == task = d /\ copy[d].phase = "copying" /\ copy[d].hold = 0

(* A read that has something: a pooled buffer for a socket, the frame      *)
(* itself for a stream (FRAME_SOURCE).                                     *)
ReadSome(d) ==
    /\ Reading(d) /\ inq[Src(d)] > 0
    /\ inq' = [inq EXCEPT ![Src(d)] = 0]
    /\ copy' = [copy EXCEPT ![d].hold = inq[Src(d)], ![d].got = @ + inq[Src(d)],
                            ![d].buf = d = "up"]
    /\ UNCHANGED <<far, outq, took, write_fut, lifeVars, moved, task, armed, endVars, ghosts>>

(* EOF, or an error, once everything before it is read. *)
ReadEnds(d) ==
    /\ Reading(d) /\ inq[Src(d)] = 0 /\ far[Src(d)] # "open"
    /\ copy' = [copy EXCEPT ![d] = IF far[Src(d)] = "fin"
                                   THEN [Failed(@) EXCEPT !.result = copy[d].result]
                                   ELSE Failed(@)]
    /\ UNCHANGED <<envVars, write_fut, lifeVars, moved, task, armed, endVars, ghosts>>

(* Mutant: the buffer is kept for the next read. *)
ReadPending_keeps_buf(d) ==
    /\ Reading(d) /\ inq[Src(d)] = 0 /\ far[Src(d)] = "open"
    /\ copy' = [copy EXCEPT ![d].parked = FALSE]
    /\ task' = Next_polled(d) /\ armed' = armed \cup {<<"read", d>>}
    /\ UNCHANGED <<envVars, write_fut, lifeVars, moved, endVars, ghosts>>

(* Pending: the buffer goes back to the pool.                              *)
ReadPending(d) ==
    /\ Reading(d) /\ inq[Src(d)] = 0 /\ far[Src(d)] = "open"
    /\ copy' = [copy EXCEPT ![d].parked = FALSE, ![d].buf = FALSE]
    /\ task' = Next_polled(d) /\ armed' = armed \cup {<<"read", d>>}
    /\ UNCHANGED <<envVars, write_fut, lifeVars, moved, endVars, ghosts>>

(* The flush: a socket and a stream buffer nothing themselves. *)
Flush(d) ==
    /\ task = d /\ copy[d].phase = "flushing"
    /\ copy' = [copy EXCEPT ![d].phase = "done", ![d].parked = FALSE]
    /\ over' = IF over = Unset THEN 0 ELSE over
    /\ UNCHANGED <<envVars, write_fut, lifeVars, moved, task, armed, endVars, fresh>>

Done(d) ==
    /\ task = d /\ copy[d].phase = "done"
    /\ task' = Next_polled(d)
    /\ UNCHANGED <<envVars, copy, write_fut, lifeVars, moved, armed, endVars, ghosts>>

-----------------------------------------------------------------------------
(* Lifetime::poll().                                                       *)

BothDone == \A d \in Dirs : copy[d].phase = "done"
OneDone == \E d \in Dirs : copy[d].phase = "done"
Parked == \E d \in Dirs : copy[d].parked

Finish(reason) == task' = "close" /\ why' = reason /\ UNCHANGED <<armed, aborted>>
Sleep(timer) == task' = "asleep" /\ armed' = armed \cup timer /\ UNCHANGED endVars

LifeDone ==
    /\ task = "life" /\ BothDone
    /\ Finish("done")
    /\ UNCHANGED <<envVars, copy, write_fut, lifeVars, moved, ghosts>>

(* The rest of poll() once the pipe is closing: the grace, if any. *)
RunGrace(left) ==
    /\ grace' = left
    /\ IF left = 0 THEN Finish("grace") ELSE Sleep({<<"grace">>})

(* Mutant: every poll with a finished direction starts the grace anew. *)
LifeClosing_restarts ==
    /\ task = "life" /\ ~BothDone
    /\ OneDone \/ life = "closing"
    /\ life' = "closing" /\ tick' = Unset
    /\ RunGrace(close_wait)
    /\ UNCHANGED <<envVars, copy, write_fut, watching, unsent, drained, signalled, moved, ghosts>>

(* Mutant: the grace is not set when the pipe begins to close. *)
LifeClosing_at_once ==
    /\ task = "life" /\ ~BothDone
    /\ OneDone \/ life = "closing"
    /\ life' = "closing" /\ tick' = Unset
    /\ RunGrace(grace)
    /\ UNCHANGED <<envVars, copy, write_fut, watching, unsent, drained, signalled, moved, ghosts>>

(* begin_closing() when a direction has finished, and the grace.           *)
LifeClosing ==
    /\ task = "life" /\ ~BothDone
    /\ OneDone \/ life = "closing"
    /\ life' = "closing" /\ tick' = Unset
    /\ RunGrace(IF life = "open" THEN close_wait ELSE grace)
    /\ UNCHANGED <<envVars, copy, write_fut, watching, unsent, drained, signalled, moved, ghosts>>

Watchful == task = "life" /\ ~OneDone /\ life = "open"

LifeQuiet ==
    /\ Watchful /\ ~Parked
    /\ watching' = FALSE
    /\ fresh' = (fresh /\ signalled = Unset)    \* the watch ends with the signal on record
    /\ Sleep({})
    /\ UNCHANGED <<envVars, copy, write_fut, life, grace, tick, unsent, drained, signalled, moved, over>>

(* The ticker as this poll finds it: a first park gets a full period. *)
Ticker == IF tick = Unset \/ (~watching /\ tick = 0) THEN watch ELSE tick

LifeWatch ==
    /\ Watchful /\ Parked /\ Ticker > 0
    /\ tick' = Ticker /\ watching' = TRUE
    /\ Sleep({<<"tick">>})
    /\ UNCHANGED <<envVars, copy, write_fut, life, grace, unsent, drained, signalled, moved, ghosts>>

Probing == Watchful /\ Parked /\ Ticker = 0

(* check(), rule 5: a failed socket ends the direction that reads it.      *)
ProbeFailed ==
    /\ Probing /\ far["sock"] = "lost"
    /\ copy' = [copy EXCEPT !["up"].result = IF @ = "ok" THEN "error" ELSE @]
    /\ watching' = TRUE /\ tick' = Unset /\ life' = "closing"
    /\ over' = IF over = Unset THEN 0 ELSE over
    /\ RunGrace(close_wait)
    /\ UNCHANGED <<envVars, write_fut, unsent, drained, signalled, moved, fresh>>

(* The end signal of the direction into the socket, its session's receive  *)
(* buffer being spent, by this stream and others, or not.                  *)
EndSignal(spent) ==
    LET starving == spent /\ inq["stream"] >= Quarter
    IN  copy["down"].parked /\ (far["stream"] # "open" \/ starving)

(* Mutant: the send queue says nothing. *)
Drain_ignored == drained

(* A send queue that shrank since the last probe. *)
Drain == IF unsent # Unset /\ outq["sock"] < unsent THEN 0 ELSE drained

Since(spent) == IF ~EndSignal(spent) THEN Unset ELSE IF signalled = Unset THEN 0 ELSE signalled

Expired(spent) ==
    Since(spent) # Unset /\ Min({Since(spent), moved, Drain}) >= stall_limit

(* rule 6: a direction parked on a stream is never ended this way.         *)
ProbeStalled(spent) ==
    /\ Probing /\ far["sock"] # "lost"
    /\ unsent' = outq["sock"] /\ drained' = Drain /\ signalled' = Since(spent)
    /\ watching' = TRUE /\ tick' = watch
    /\ IF Expired(spent)
       THEN /\ copy' = [copy EXCEPT !["down"].result = IF @ = "ok" THEN "stalled" ELSE @]
            /\ Finish("stalled")
       ELSE /\ UNCHANGED copy
            /\ Sleep({<<"tick">>})
    /\ fresh' = TRUE
    /\ UNCHANGED <<envVars, write_fut, life, grace, moved, over>>

-----------------------------------------------------------------------------
(* Mutant: only what the stream still holds is looked at. *)
undelivered_buffered == inq["stream"] > 0

undelivered == inq["stream"] > 0 \/ far["stream"] = "lost"

(* The end of pipe_with(): data owed to the socket's reader makes its      *)
(* close a reset; both ends are dropped.                                   *)
Close ==
    /\ task = "close"
    /\ aborted' = (copy["down"].hold > 0 \/ undelivered)
    /\ task' = "ended" /\ armed' = {}
    /\ UNCHANGED <<envVars, copy, write_fut, lifeVars, moved, why, ghosts>>

Fires(a) ==
    CASE a[1] = "read" -> inq[Src(a[2])] > 0 \/ far[Src(a[2])] # "open"
      [] a[1] = "write" -> Room(a[2]) > 0 \/ far[Dst(a[2])] = "lost"
      [] a[1] = "tick" -> tick = 0
      [] a[1] = "grace" -> grace = 0

Wake ==
    /\ task = "asleep" /\ \E a \in armed : Fires(a)
    /\ task' = first_polled /\ armed' = {}
    /\ UNCHANGED <<envVars, copy, write_fut, lifeVars, moved, endVars, ghosts>>

Poll ==
    \/ \E d \in Dirs : \/ WriteFails(d) \/ WriteSome(d) \/ WritePark(d)
                       \/ ReadSome(d) \/ ReadEnds(d) \/ ReadPending(d)
                       \/ Flush(d) \/ Done(d)
    \/ LifeDone \/ LifeClosing \/ LifeQuiet \/ LifeWatch \/ ProbeFailed
    \/ \E spent \in BOOLEAN : ProbeStalled(spent)
    \/ Close \/ Wake

Far == \E e \in Ends : FarSend(e) \/ FarTake(e) \/ FarFin(e) \/ FarLost(e)

Next == Poll \/ Far \/ Tick

Spec == Init /\ [][Next]_vars

(* The task runs when it is woken and time passes; no far side has to do   *)
(* anything.                                                               *)
FairSpec == Spec /\ WF_vars(Poll) /\ WF_vars(Tick)

-----------------------------------------------------------------------------
(* A socket closed in order, not reset, has been given everything the      *)
(* stream received, up to the stream's own end ("so the truncation reaches *)
(* the application as ECONNRESET", pipe_with and undelivered).             *)
CleanEndComplete ==
    task = "ended" /\ ~aborted /\ far["sock"] # "lost"
        => copy["down"].put = Received("stream") /\ far["stream"] # "lost"

(* Rule 6 ends nobody who was reading, as far as the probes can tell: the  *)
(* socket's far side has taken nothing for the stall limit less one probe  *)
(* period ("a reader the kernel can see consuming is alive however slowly  *)
(* it goes").  A unit taken after the watch has lapsed, with the end       *)
(* signal on record, and before the next probe is left out of `took': that *)
(* probe sets the send queue against a size from before the lapse, which   *)
(* writes may since have passed.                                           *)
StallPatience ==
    why = "stalled" => took = TookMax

(* Rule 2: the direction that goes on is given the whole grace.            *)
GraceGiven == why = "grace" => over # Unset /\ over = close_wait

(* A retried write hands over every unit once: what was read and not       *)
(* written is what the direction holds (poll_write of SmuxStream and       *)
(* QppStream).                                                             *)
NoneTwice ==
    \A d \in Dirs : copy[d].phase = "copying" => copy[d].got = copy[d].put + Left(d)

-----------------------------------------------------------------------------
(* What the rules rest on: an inductive invariant, in parts.               *)

(* The task ends for a reason, and then does nothing more. *)
EndReasoned == why # "none" => task \in {"close", "ended"}

(* Every unit received is read, held, or written; and into a socket that   *)
(* has not failed, none is given up.                                       *)
Accounted ==
    /\ \A e \in Ends : Received(e) <= MaxSent
    /\ write_fut # NoFut => copy["up"].phase = "copying" /\ write_fut <= copy["up"].hold
    /\ NoneTwice
    /\ far["sock"] # "lost" => copy["down"].got = copy["down"].put + copy["down"].hold

(* The grace and the time since the first end add up to closewait. *)
GraceRuns ==
    /\ OneDone => over # Unset
    /\ over <= close_wait
    /\ life = "closing" => over # Unset /\ over + grace >= close_wait

(* Since the last probe, watch - tick ago, the send queue has not grown    *)
(* without a byte having moved.                                            *)
ProbesKeepUp ==
    life = "open" /\ signalled # Unset /\ fresh
        => /\ watching /\ tick # Unset /\ unsent # Unset
           /\ outq["sock"] <= unsent \/ moved <= watch - tick

(* A unit taken shows within a period of the probes, as movement, as a     *)
(* drain, or as a signal that is newer; or the next probe will see it.     *)
TakesShow ==
    life = "open" /\ signalled # Unset
        => \/ took = TookMax
           \/ \E age \in {moved, drained, signalled} : age <= took + watch
           \/ unsent # Unset /\ outq["sock"] < unsent

PipeInv ==
    /\ TypeOK /\ EndReasoned /\ Accounted /\ GraceRuns /\ ProbesKeepUp /\ TakesShow
    /\ CleanEndComplete /\ StallPatience /\ GraceGiven

-----------------------------------------------------------------------------
(* A direction that waits for its source holds no copy buffer (D17).       *)
IdleHoldsNoBuffer ==
    task = "asleep" => \A d \in Dirs : copy[d].buf => copy[d].parked

(* A pipe ends once its stream's far side has finished or gone, or its     *)
(* socket has failed, whatever the readers do (V24): it comes to stay so.  *)
Over == far["stream"] # "open" \/ far["sock"] = "lost" => task = "ended"
=============================================================================
