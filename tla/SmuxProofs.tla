----------------------------- MODULE SmuxProofs ------------------------------
(***************************************************************************)
(* Proofs about a smux session (module MCSmux), for every value of the     *)
(* constants: any streams, frames and sizes, any backlog, any writers.     *)
(*                                                                         *)
(*   HalfCloses      a stream with both FINs is always about to leave the  *)
(*                   map, on many threads;                                 *)
(*   EndsDrained     on one thread a reader is given EOF of an empty       *)
(*                   buffer only;                                          *)
(*   NobodySleepsOn  recv_loop, the readers and send_loop never sleep on   *)
(*                   what they wait for;                                   *)
(*   TokensKept      no token of the bucket and no permit of the shaper is *)
(*                   lost or made up;                                      *)
(*   FinsLast        a FIN is the last frame of its stream;                *)
(*   SmuxTyped       the types, and the list and the cursor of the shaper. *)
(*                                                                         *)
(* They rest on the inductive invariants of the parts: StreamInv and       *)
(* EofInv, each with TokenInv (module SmuxSession), and ShaperInv (module  *)
(* SmuxSend).                                                              *)
(***************************************************************************)
EXTENDS MCSmux, Facts

-----------------------------------------------------------------------------
(* A Notify with one task that waits on it.                                *)

N == INSTANCE TokioNotify

(* What the operations of a Notify do to its task. *)
LEMMA Notified ==
    ASSUME NEW t, NEW n \in N!NotifyType({t})
    PROVE  /\ \A m \in N!NotifyOne(n) :
                /\ m \in N!NotifyType({t})
                /\ m.at[t] # "parked" /\ (m.at[t] = "away" <=> n.at[t] = "away")
           /\ N!Enable(n, t) \in N!NotifyType({t}) /\ N!Enable(n, t).at[t] \in {"look", "sure"}
           /\ \A m \in N!Drop(n, t) : m \in N!NotifyType({t}) /\ m.at[t] = "away"
           /\ N!Looking(n, t) => N!Await(n, t) \in N!NotifyType({t})
           /\ [n EXCEPT !.at[t] = "away"] \in N!NotifyType({t})
           /\ [n EXCEPT !.at[t] = "away"].at[t] = "away"
<1> DEFINE T == N!NotifyType({t})
           Places == {"away", "look", "hit", "sure", "parked", "woken", "done"}
<1>1. ASSUME NEW v \in Places
      PROVE  [n EXCEPT !.at[t] = v] \in T /\ [n EXCEPT !.at[t] = v].at[t] = v
  BY DEF N!NotifyType
<1>2. n.at[t] \in Places /\ DOMAIN n.at = {t}
  BY DEF N!NotifyType
<1>3. ASSUME NEW k \in T, NEW m \in N!NotifyOne(k)
      PROVE  m \in T /\ m.at[t] # "parked" /\ (m.at[t] = "away" <=> k.at[t] = "away")
  <2>1. k.at[t] \in Places /\ DOMAIN k.at = {t}
    BY DEF N!NotifyType
  <2>2. CASE k.at[t] \in {"look", "parked"}
    <3>1. {x \in DOMAIN k.at : k.at[x] \in {"look", "parked"}} = {t}
      BY <2>1, <2>2
    <3>2. m = [k EXCEPT !.at[t] = IF @ = "look" THEN "hit" ELSE "woken"]
      BY <1>3, <3>1 DEF N!NotifyOne
    <3> QED
      BY <2>1, <2>2, <3>2 DEF N!NotifyType
  <2>3. CASE k.at[t] \notin {"look", "parked"}
    <3>1. {x \in DOMAIN k.at : k.at[x] \in {"look", "parked"}} = {}
      BY <2>1, <2>3
    <3>2. m = [k EXCEPT !.permit = TRUE]
      BY <1>3, <3>1 DEF N!NotifyOne
    <3> QED
      BY <2>1, <2>3, <3>2 DEF N!NotifyType
  <2> QED
    BY <2>2, <2>3
<1>4. N!Enable(n, t) \in T /\ N!Enable(n, t).at[t] \in {"look", "sure"}
  BY DEF N!Enable, N!NotifyType
<1>5. ASSUME NEW m \in N!Drop(n, t) PROVE m \in T /\ m.at[t] = "away"
  <2> DEFINE rest == [n EXCEPT !.at[t] = "away"]
  <2>1. rest \in T /\ rest.at[t] = "away"
    BY <1>1
  <2> HIDE DEF rest
  <2>2. m = rest \/ m \in N!NotifyOne(rest)
    BY <1>5 DEF N!Drop, rest
  <2> QED
    BY <1>3, <2>1, <2>2
<1>6. N!Looking(n, t) => N!Await(n, t) \in T
  BY <1>1, <1>2 DEF N!Looking, N!Await
<1> QED
  BY <1>1, <1>3, <1>4, <1>5, <1>6

(* The same of recv_loop,                                                  *)
LEMMA RecvNotified ==
    ASSUME NEW n \in One!NotifyType({"recv"})
    PROVE  /\ \A m \in One!NotifyOne(n) :
                /\ m \in One!NotifyType({"recv"})
                /\ m.at["recv"] # "parked" /\ (m.at["recv"] = "away" <=> n.at["recv"] = "away")
           /\ One!Enable(n, "recv") \in One!NotifyType({"recv"})
           /\ One!Enable(n, "recv").at["recv"] \in {"look", "sure"}
           /\ \A m \in One!Drop(n, "recv") : m \in One!NotifyType({"recv"}) /\ m.at["recv"] = "away"
           /\ One!Looking(n, "recv") => One!Await(n, "recv") \in One!NotifyType({"recv"})
           /\ [n EXCEPT !.at["recv"] = "away"] \in One!NotifyType({"recv"})
           /\ [n EXCEPT !.at["recv"] = "away"].at["recv"] = "away"
<1>1. One!NotifyType({"recv"}) = N!NotifyType({"recv"})
  BY DEF One!NotifyType, N!NotifyType
<1>2. \A m : One!NotifyOne(m) = N!NotifyOne(m)
  BY DEF One!NotifyOne, N!NotifyOne
<1>3. One!Drop(n, "recv") = N!Drop(n, "recv")
  BY <1>2 DEF One!Drop, N!Drop
<1>4. /\ One!Enable(n, "recv") = N!Enable(n, "recv") /\ One!Await(n, "recv") = N!Await(n, "recv")
      /\ One!Looking(n, "recv") <=> N!Looking(n, "recv")
  BY DEF One!Enable, N!Enable, One!Await, N!Await, One!Looking, N!Looking
<1>5. n \in N!NotifyType({"recv"})
  BY <1>1
<1>6. /\ \A m \in N!NotifyOne(n) :
           /\ m \in N!NotifyType({"recv"})
           /\ m.at["recv"] # "parked" /\ (m.at["recv"] = "away" <=> n.at["recv"] = "away")
      /\ N!Enable(n, "recv") \in N!NotifyType({"recv"}) /\ N!Enable(n, "recv").at["recv"] \in {"look", "sure"}
      /\ \A m \in N!Drop(n, "recv") : m \in N!NotifyType({"recv"}) /\ m.at["recv"] = "away"
      /\ N!Looking(n, "recv") => N!Await(n, "recv") \in N!NotifyType({"recv"})
      /\ [n EXCEPT !.at["recv"] = "away"] \in N!NotifyType({"recv"})
      /\ [n EXCEPT !.at["recv"] = "away"].at["recv"] = "away"
  BY <1>5, Notified, Zenon
<1> QED
  BY <1>1, <1>2, <1>3, <1>4, <1>6

(* and of send_loop.                                                       *)
LEMMA SendNotified ==
    ASSUME NEW n \in Out!NotifyType({"send"})
    PROVE  /\ \A m \in Out!NotifyOne(n) :
                /\ m \in Out!NotifyType({"send"})
                /\ m.at["send"] # "parked" /\ (m.at["send"] = "away" <=> n.at["send"] = "away")
           /\ Out!Enable(n, "send") \in Out!NotifyType({"send"})
           /\ Out!Enable(n, "send").at["send"] \in {"look", "sure"}
           /\ \A m \in Out!Drop(n, "send") : m \in Out!NotifyType({"send"}) /\ m.at["send"] = "away"
           /\ Out!Looking(n, "send") => Out!Await(n, "send") \in Out!NotifyType({"send"})
<1>1. Out!NotifyType({"send"}) = N!NotifyType({"send"})
  BY DEF Out!NotifyType, N!NotifyType
<1>2. \A m : Out!NotifyOne(m) = N!NotifyOne(m)
  BY DEF Out!NotifyOne, N!NotifyOne
<1>3. Out!Drop(n, "send") = N!Drop(n, "send")
  BY <1>2 DEF Out!Drop, N!Drop
<1>4. /\ Out!Enable(n, "send") = N!Enable(n, "send") /\ Out!Await(n, "send") = N!Await(n, "send")
      /\ Out!Looking(n, "send") <=> N!Looking(n, "send")
  BY DEF Out!Enable, N!Enable, Out!Await, N!Await, Out!Looking, N!Looking
<1>5. n \in N!NotifyType({"send"})
  BY <1>1
<1>6. /\ \A m \in N!NotifyOne(n) :
           /\ m \in N!NotifyType({"send"})
           /\ m.at["send"] # "parked" /\ (m.at["send"] = "away" <=> n.at["send"] = "away")
      /\ N!Enable(n, "send") \in N!NotifyType({"send"}) /\ N!Enable(n, "send").at["send"] \in {"look", "sure"}
      /\ \A m \in N!Drop(n, "send") : m \in N!NotifyType({"send"}) /\ m.at["send"] = "away"
      /\ N!Looking(n, "send") => N!Await(n, "send") \in N!NotifyType({"send"})
  BY <1>5, Notified, Zenon
<1> QED
  BY <1>1, <1>2, <1>3, <1>4, <1>6

-----------------------------------------------------------------------------
(* SmuxSession on many threads: StreamInv is inductive.                    *)

(* return_tokens(): recv_loop is told, or there is nothing to tell. *)
LEMMA TokensReturned ==
    ASSUME bucket_notify \in One!NotifyType({"recv"}), NEW s, NEW who, NEW at, NEW then,
           One!ReturnTokens(s, who, at, then)
    PROVE  /\ bucket_notify' \in One!NotifyType({"recv"})
           /\ bucket_notify'.at["recv"] = "away" <=> bucket_notify.at["recv"] = "away"
           /\ \/ then = "notify"
              \/ then = "next" /\ ~(bucket' > 0)
              \/ then = "next" /\ bucket_notify'.at["recv"] # "parked"
<1>1. CASE at = "return" /\ then = (IF bucket' > 0 THEN "notify" ELSE "next") /\ bucket_notify' = bucket_notify
  BY <1>1
<1>2. CASE bucket_notify' \in One!NotifyOne(bucket_notify) /\ then = "next"
  BY <1>2, RecvNotified
<1> QED
  BY <1>1, <1>2 DEF One!ReturnTokens

(* recv_loop. *)
LEMMA RecvKeeps ==
    ASSUME One!StreamInv, One!RecvLoop
    PROVE  One!StreamInv'
<1> DEFINE T == One!NotifyType({"recv"})
<1> USE DEF One!recvVars, One!mapVars, One!tokenVars, One!bucketVars, One!At, One!closed, One!MapFree, One!Cleanup,
      One!Reading, One!Ended
<1>0. /\ One!StateTypes /\ One!FrameSound /\ One!FinsSent /\ One!Unregistered /\ One!Backlogged
      /\ One!HalfCloseEnds
      /\ bucket_notify \in One!NotifyType({"recv"}) /\ One!NotAwaited /\ One!RecvNotStranded /\ One!WillWake
  BY DEF One!StreamInv
<1>15. /\ One!Enable(bucket_notify, "recv") \in T /\ One!Enable(bucket_notify, "recv").at["recv"] # "parked"
       /\ \A m \in One!Drop(bucket_notify, "recv") : m \in T /\ m.at["recv"] = "away"
       /\ One!Looking(bucket_notify, "recv") => One!Await(bucket_notify, "recv") \in T
       /\ [bucket_notify EXCEPT !.at["recv"] = "away"] \in T
       /\ [bucket_notify EXCEPT !.at["recv"] = "away"].at["recv"] = "away"
  BY <1>0, RecvNotified
<1>1. ASSUME One!RecvCheck PROVE One!StreamInv'
  <2>1. One!StateTypes'
    <3>1. recv' = One!At("read") \/ recv' = recv
      BY <1>1 DEF One!RecvCheck
    <3> QED
      BY <1>0, <1>1, <3>1 DEF One!RecvCheck, One!StateTypes
  <2>2. (One!FrameSound /\ One!FinsSent /\ One!Unregistered)'
    BY <1>0, <1>1 DEF One!RecvCheck, One!Starting, One!StateTypes, One!FrameSound, One!FinsSent, One!Unregistered, One!Unused, One!Live
  <2>3. One!Backlogged'
    BY <1>0, <1>1 DEF One!RecvCheck, One!StateTypes, One!FrameSound, One!Backlogged, One!Unused, One!Live
  <2>4. One!HalfCloseEnds'
    BY <1>0, <1>1 DEF One!RecvCheck, One!Starting, One!StateTypes, One!FrameSound, One!HalfCloseEnds
  <2>5. bucket_notify' \in One!NotifyType({"recv"}) /\ One!NotAwaited' /\ One!RecvNotStranded'
    <3>1. \/ bucket_notify' = [bucket_notify EXCEPT !.at["recv"] = "away"]
          \/ bucket_notify' = One!Enable(bucket_notify, "recv") /\ recv' = recv /\ recv.pc = "check"
      BY <1>1 DEF One!RecvCheck
    <3>2. /\ bucket_notify' \in One!NotifyType({"recv"}) /\ bucket_notify'.at["recv"] # "parked"
          /\ bucket_notify'.at["recv"] # "away" => recv'.pc = "check"
      BY <1>15, <3>1
    <3> QED
      BY <3>2 DEF One!NotAwaited, One!RecvNotStranded
  <2>6. One!WillWake'
    BY <1>0, <1>1 DEF One!RecvCheck, One!Starting, One!StateTypes, One!FrameSound, One!WillWake
  <2> QED
    BY <2>1, <2>2, <2>3, <2>4, <2>5, <2>6 DEF One!StreamInv
<1>2. ASSUME One!RecvWait PROVE One!StreamInv'
  <2>1. One!StateTypes'
    <3>1. (recv' = One!At("read") \/ recv' = recv)
      BY <1>0, RecvNotified, <1>2 DEF One!RecvWait
    <3> QED
      BY <1>0, <1>2, <3>1 DEF One!RecvWait, One!StateTypes
  <2>2. (One!FrameSound /\ One!FinsSent /\ One!Unregistered)'
    BY <1>0, <1>2 DEF One!RecvWait, One!Looking, One!Await, One!StateTypes, One!FrameSound, One!FinsSent, One!Unregistered, One!Unused, One!Live
  <2>3. One!Backlogged'
    BY <1>0, <1>2 DEF One!RecvWait, One!StateTypes, One!FrameSound, One!Backlogged, One!Unused, One!Live
  <2>4. One!HalfCloseEnds'
    BY <1>0, <1>2 DEF One!RecvWait, One!Looking, One!Await, One!StateTypes, One!FrameSound, One!HalfCloseEnds
  <2>5. bucket_notify' \in One!NotifyType({"recv"}) /\ One!NotAwaited' /\ One!RecvNotStranded'
    <3>1. \/ bucket_notify' \in One!Drop(bucket_notify, "recv")
          \/ /\ bucket_notify' = One!Await(bucket_notify, "recv") /\ One!Looking(bucket_notify, "recv")
             /\ recv' = recv /\ recv.pc = "check" /\ ~(bucket > 0) /\ bucket' = bucket
      BY <1>2 DEF One!RecvWait
    <3>2. /\ bucket_notify' \in One!NotifyType({"recv"})
          /\ bucket_notify'.at["recv"] # "away" => recv'.pc = "check" /\ ~(bucket' > 0)
      BY <1>15, <3>1
    <3> QED
      BY <3>2 DEF One!NotAwaited, One!RecvNotStranded
  <2>6. One!WillWake'
    BY <1>0, <1>2 DEF One!RecvWait, One!Looking, One!Await, One!StateTypes, One!FrameSound, One!WillWake
  <2> QED
    BY <2>1, <2>2, <2>3, <2>4, <2>5, <2>6 DEF One!StreamInv
<1>3. ASSUME One!RecvDie PROVE One!StreamInv'
  <2>1. One!StateTypes'
    BY <1>0, <1>3 DEF One!RecvDie, One!StateTypes, One!Reading, One!Ended
  <2>2. (One!FrameSound /\ One!FinsSent /\ One!Unregistered)'
    BY <1>0, <1>3 DEF One!RecvDie, One!Waiting, One!StateTypes, One!FrameSound, One!FinsSent, One!Unregistered, One!Unused, One!Live
  <2>3. One!Backlogged'
    BY <1>0, <1>3 DEF One!RecvDie, One!StateTypes, One!FrameSound, One!Backlogged, One!Unused, One!Live
  <2>4. One!HalfCloseEnds'
    BY <1>0, <1>3 DEF One!RecvDie, One!Waiting, One!StateTypes, One!FrameSound, One!HalfCloseEnds
  <2>5. bucket_notify' \in One!NotifyType({"recv"}) /\ One!NotAwaited' /\ One!RecvNotStranded'
    BY <1>0, <1>3, RecvNotified DEF One!RecvDie, One!Waiting, One!StateTypes, One!NotAwaited, One!RecvNotStranded
  <2>6. One!WillWake'
    BY <1>0, <1>3 DEF One!RecvDie, One!Waiting, One!StateTypes, One!FrameSound, One!WillWake
  <2> QED
    BY <2>1, <2>2, <2>3, <2>4, <2>5, <2>6 DEF One!StreamInv
<1>4. ASSUME One!RecvError PROVE One!StreamInv'
  BY <1>4 DEF One!RecvError,
       One!StreamInv, One!StateTypes, One!FrameSound, One!FinsSent, One!Unregistered, One!Backlogged, One!HalfCloseEnds, One!NotAwaited,
       One!RecvNotStranded, One!WillWake, One!Unused, One!Live, One!Reading, One!Ended
<1>5. ASSUME One!RecvNop PROVE One!StreamInv'
  BY <1>5 DEF One!RecvNop,
       One!StreamInv, One!StateTypes, One!FrameSound, One!FinsSent, One!Unregistered, One!Backlogged, One!HalfCloseEnds, One!NotAwaited,
       One!RecvNotStranded, One!WillWake, One!Unused, One!Live, One!Reading, One!Ended
<1>6. ASSUME NEW s \in Lone, One!RecvFrame(s, "syn", 0) PROVE One!StreamInv'
  BY <1>6 DEF One!RecvFrame,
       One!StreamInv, One!StateTypes, One!FrameSound, One!FinsSent, One!Unregistered, One!Backlogged, One!HalfCloseEnds, One!NotAwaited,
       One!RecvNotStranded, One!WillWake, One!Unused, One!Live, One!Reading, One!Ended
<1>7. ASSUME NEW s \in Lone, NEW len \in LoneSizes, One!RecvFrame(s, "push", len) PROVE One!StreamInv'
  <2>1. One!StateTypes'
    <3>1. /\ recv' = [pc |-> "push", sid |-> s, len |-> len] /\ peer' = [peer EXCEPT ![s] = @]
          /\ frames' = [frames EXCEPT ![s] = @ + 1] /\ frames[s] < LoneFrames
      BY <1>7 DEF One!RecvFrame
    <3>2. frames[s] \in 0..LoneFrames /\ frames[s] + 1 \in 0..LoneFrames
      BY <1>0, <3>1, SmuxAssumption DEF One!StateTypes
    <3>3. frames' \in [Lone -> 0..LoneFrames] /\ peer' = peer
      BY <1>0, <3>1, <3>2 DEF One!StateTypes
    <3> QED
      BY <1>0, <1>7, <3>1, <3>3 DEF One!RecvFrame, One!StateTypes
  <2>2. (One!FrameSound /\ One!FinsSent /\ One!Unregistered)'
    BY <1>0, <1>7 DEF One!RecvFrame, One!StateTypes, One!FrameSound, One!FinsSent, One!Unregistered, One!Unused, One!Live
  <2>3. One!Backlogged'
    BY <1>0, <1>7 DEF One!RecvFrame, One!StateTypes, One!FrameSound, One!Backlogged, One!Unused, One!Live
  <2>4. One!HalfCloseEnds'
    BY <1>0, <1>7 DEF One!RecvFrame, One!StateTypes, One!FrameSound, One!HalfCloseEnds
  <2>5. bucket_notify' \in One!NotifyType({"recv"}) /\ One!NotAwaited' /\ One!RecvNotStranded'
    BY <1>0, <1>7, RecvNotified DEF One!RecvFrame, One!StateTypes, One!NotAwaited, One!RecvNotStranded
  <2>6. One!WillWake'
    BY <1>0, <1>7 DEF One!RecvFrame, One!StateTypes, One!FrameSound, One!WillWake
  <2> QED
    BY <2>1, <2>2, <2>3, <2>4, <2>5, <2>6 DEF One!StreamInv
<1>8. ASSUME NEW s \in Lone, One!RecvFrame(s, "fin", 0) PROVE One!StreamInv'
  BY <1>8 DEF One!RecvFrame,
       One!StreamInv, One!StateTypes, One!FrameSound, One!FinsSent, One!Unregistered, One!Backlogged, One!HalfCloseEnds, One!NotAwaited,
       One!RecvNotStranded, One!WillWake, One!Unused, One!Live, One!Reading, One!Ended
<1>9. ASSUME One!RecvSyn PROVE One!StreamInv'
  <2>1. One!StateTypes'
    <3>1. recv.sid \in Lone /\ recv' = [recv EXCEPT !.pc = "accept"]
      BY <1>0, <1>9 DEF One!RecvSyn, One!FrameSound
    <3> QED
      BY <1>0, <1>9, <3>1 DEF One!RecvSyn, One!StateTypes
  <2>2. (One!FrameSound /\ One!FinsSent /\ One!Unregistered)'
    BY <1>0, <1>9 DEF One!RecvSyn, One!StateTypes, One!FrameSound, One!FinsSent, One!Unregistered, One!Unused, One!Live
  <2>3. One!Backlogged'
    BY <1>0, <1>9 DEF One!RecvSyn, One!StateTypes, One!FrameSound, One!Backlogged, One!Unused, One!Live
  <2>4. One!HalfCloseEnds'
    <3>1. /\ recv.sid \notin fin_event /\ streams' = streams \cup {recv.sid} /\ recv.pc = "syn"
          /\ UNCHANGED <<fin_event, write_closed, cl>>
      BY <1>0, <1>9 DEF One!RecvSyn, One!FrameSound, One!FinsSent
    <3> QED
      BY <1>0, <3>1 DEF One!HalfCloseEnds
  <2>5. bucket_notify' \in One!NotifyType({"recv"}) /\ One!NotAwaited' /\ One!RecvNotStranded'
    BY <1>0, <1>9, RecvNotified DEF One!RecvSyn, One!StateTypes, One!NotAwaited, One!RecvNotStranded
  <2>6. One!WillWake'
    BY <1>0, <1>9 DEF One!RecvSyn, One!StateTypes, One!FrameSound, One!WillWake
  <2> QED
    BY <2>1, <2>2, <2>3, <2>4, <2>5, <2>6 DEF One!StreamInv
<1>10. ASSUME One!RecvAccept PROVE One!StreamInv'
  <2>1. One!StateTypes'
    <3>1. recv.sid \in Lone /\ accepts \in Seq(Lone) /\ Len(accepts) < ACCEPT_BACKLOG /\ accepts' = Append(accepts, recv.sid)
      BY <1>0, <1>10 DEF One!RecvAccept, One!StateTypes, One!FrameSound
    <3>2. accepts' \in Seq(Lone) /\ Len(accepts') <= ACCEPT_BACKLOG
      BY <3>1, SmuxAssumption
    <3> QED
      BY <1>0, <1>10, <3>2 DEF One!RecvAccept, One!StateTypes
  <2>2. (One!FrameSound /\ One!FinsSent /\ One!Unregistered)'
    BY <1>0, <1>10 DEF One!RecvAccept, One!StateTypes, One!FrameSound, One!FinsSent, One!Unregistered, One!Unused, One!Live
  <2>3. One!Backlogged'
    BY <1>0, <1>10, SMTT(60) DEF One!RecvAccept, One!StateTypes, One!FrameSound, One!Backlogged, One!Unused, One!Live
  <2>4. One!HalfCloseEnds'
    BY <1>0, <1>10 DEF One!RecvAccept, One!StateTypes, One!FrameSound, One!HalfCloseEnds
  <2>5. bucket_notify' \in One!NotifyType({"recv"}) /\ One!NotAwaited' /\ One!RecvNotStranded'
    BY <1>0, <1>10, RecvNotified DEF One!RecvAccept, One!StateTypes, One!NotAwaited, One!RecvNotStranded
  <2>6. One!WillWake'
    BY <1>0, <1>10 DEF One!RecvAccept, One!StateTypes, One!FrameSound, One!WillWake
  <2> QED
    BY <2>1, <2>2, <2>3, <2>4, <2>5, <2>6 DEF One!StreamInv
<1>11. ASSUME One!RecvPush PROVE One!StreamInv'
  <2>1. One!StateTypes'
    <3>1. /\ recv.sid \in Lone /\ recv.len \in LoneSizes /\ buf \in [Lone -> Seq(LoneSizes)]
          /\ recv' = [recv EXCEPT !.pc = "deduct"] \/ recv' = One!At("check")
          /\ buf' = buf \/ buf' = [buf EXCEPT ![recv.sid] = Append(@, recv.len)]
      BY <1>0, <1>11 DEF One!RecvPush, One!StateTypes, One!FrameSound
    <3>2. Append(buf[recv.sid], recv.len) \in Seq(LoneSizes)
      BY <3>1
    <3>3. buf' \in [Lone -> Seq(LoneSizes)]
      BY <3>1, <3>2
    <3>4. UNCHANGED <<read_error, session_is_active, peer, frames, streams, accepts, session, opener, handle,
                      reader_wakeup, fin_event, write_closed, die, rd, cl>>
      BY <1>11 DEF One!RecvPush
    <3>5. recv' \in [pc: {"check", "read", "syn", "accept", "push", "deduct", "fin", "clean", "exited"},
                     sid: Lone \cup {0}, len: LoneSizes \cup {0}]
      <4>1. CASE recv' = [recv EXCEPT !.pc = "deduct"]
        BY <1>0, <4>1 DEF One!StateTypes
      <4>2. CASE recv' = One!At("check")
        BY <4>2
      <4> QED
        BY <3>1, <4>1, <4>2
    <3> QED
      BY <1>0, <3>3, <3>4, <3>5 DEF One!StateTypes
  <2>2. (One!FrameSound /\ One!FinsSent /\ One!Unregistered)'
    <3>1. recv' = [recv EXCEPT !.pc = "deduct"] \/ recv' = One!At("check")
      BY <1>11 DEF One!RecvPush
    <3>2. /\ recv' = One!At("check") \/ (recv'.pc = "deduct" /\ recv'.sid = recv.sid /\ recv'.len = recv.len)
          /\ recv.pc = "push" /\ UNCHANGED <<peer, opener, fin_event, streams>>
      BY <1>0, <1>11, <3>1 DEF One!RecvPush, One!StateTypes
    <3> QED
      BY <1>0, <3>2 DEF One!FrameSound, One!FinsSent, One!Unregistered, One!Unused
  <2>3. One!Backlogged'
    BY <1>0, <1>11 DEF One!RecvPush, One!StateTypes, One!FrameSound, One!Backlogged, One!Unused, One!Live
  <2>4. One!HalfCloseEnds'
    BY <1>0, <1>11 DEF One!RecvPush, One!StateTypes, One!FrameSound, One!HalfCloseEnds
  <2>5. bucket_notify' \in One!NotifyType({"recv"}) /\ One!NotAwaited' /\ One!RecvNotStranded'
    BY <1>0, <1>11, RecvNotified DEF One!RecvPush, One!StateTypes, One!NotAwaited, One!RecvNotStranded
  <2>6. One!WillWake'
    BY <1>0, <1>11 DEF One!RecvPush, One!StateTypes, One!FrameSound, One!WillWake
  <2> QED
    BY <2>1, <2>2, <2>3, <2>4, <2>5, <2>6 DEF One!StreamInv
<1>12. ASSUME One!RecvDeduct PROVE One!StreamInv'
  BY <1>12 DEF One!RecvDeduct,
       One!StreamInv, One!StateTypes, One!FrameSound, One!FinsSent, One!Unregistered, One!Backlogged, One!HalfCloseEnds, One!NotAwaited,
       One!RecvNotStranded, One!WillWake, One!Unused, One!Live, One!Reading, One!Ended
<1>13. ASSUME One!RecvFin PROVE One!StreamInv'
  <2>1. /\ recv.sid \in Lone
        /\ \/ /\ recv' = [pc |-> "clean", sid |-> recv.sid, len |-> 0] /\ fin_event' = fin_event \cup {recv.sid}
              /\ recv.sid \in streams
           \/ recv' = One!At("check") /\ fin_event' = fin_event
        /\ peer[recv.sid] = "fin" /\ recv.pc = "fin"
    <3>1. recv.sid \in Lone /\ peer[recv.sid] = "fin" /\ recv.pc = "fin" /\ recv.len = 0
      BY <1>0, <1>13 DEF One!RecvFin, One!FrameSound
    <3>2. \/ recv' = [recv EXCEPT !.pc = "clean"] /\ fin_event' = fin_event \cup {recv.sid} /\ recv.sid \in streams
          \/ recv' = One!At("check") /\ fin_event' = fin_event
      BY <1>13 DEF One!RecvFin
    <3> QED
      BY <1>0, <3>1, <3>2 DEF One!StateTypes
  <2>2. One!StateTypes'
    BY <1>0, <1>13, <2>1 DEF One!RecvFin, One!StateTypes
  <2>3. (One!FrameSound /\ One!FinsSent /\ One!Unregistered)'
    BY <1>0, <1>13, <2>1 DEF One!RecvFin, One!FrameSound, One!FinsSent, One!Unregistered, One!Unused
  <2>4. One!Backlogged'
    BY <1>0, <1>13 DEF One!RecvFin, One!StateTypes, One!FrameSound, One!Backlogged, One!Unused, One!Live
  <2>5. One!HalfCloseEnds'
    BY <1>0, <1>13, <2>1 DEF One!RecvFin, One!HalfCloseEnds
  <2>6. bucket_notify' \in One!NotifyType({"recv"}) /\ One!NotAwaited' /\ One!RecvNotStranded'
    BY <1>0, <1>13 DEF One!RecvFin, One!NotAwaited, One!RecvNotStranded
  <2>7. One!WillWake'
    BY <1>0, <1>13, <2>1 DEF One!RecvFin, One!WillWake
  <2> QED
    BY <2>2, <2>3, <2>4, <2>5, <2>6, <2>7 DEF One!StreamInv
<1>14. ASSUME One!RecvClean PROVE One!StreamInv'
  BY <1>14 DEF One!RecvClean,
       One!StreamInv, One!StateTypes, One!FrameSound, One!FinsSent, One!Unregistered, One!Backlogged, One!HalfCloseEnds, One!NotAwaited,
       One!RecvNotStranded, One!WillWake, One!Unused, One!Live, One!Reading, One!Ended
<1> QED
  BY <1>1, <1>2, <1>3, <1>4, <1>5, <1>6, <1>7, <1>8, <1>9, <1>10, <1>11, <1>12, <1>13, <1>14 DEF One!RecvLoop

(* The reader of a stream. *)
LEMMA ReaderKeeps ==
    ASSUME One!StreamInv, NEW x \in Lone, One!Reader(x)
    PROVE  One!StreamInv'
<1> USE DEF One!recvVars, One!mapVars, One!tokenVars, One!bucketVars, One!At, One!closed, One!MapFree, One!Cleanup,
      One!Reading, One!Ended
<1>0. /\ One!StateTypes /\ One!FrameSound /\ One!FinsSent /\ One!Unregistered /\ One!Backlogged
      /\ One!HalfCloseEnds
      /\ bucket_notify \in One!NotifyType({"recv"}) /\ One!NotAwaited /\ One!RecvNotStranded /\ One!WillWake
  BY DEF One!StreamInv
<1>1. ASSUME NEW s \in Lone, One!ReadPop(s) PROVE One!StreamInv'
  <2>1. One!StateTypes'
    <3>1. buf \in [Lone -> Seq(LoneSizes)] /\ buf[s] \in Seq(LoneSizes)
      BY <1>0 DEF One!StateTypes
    <3>2. buf[s] # <<>> => Tail(buf[s]) \in Seq(LoneSizes)
      BY <3>1
    <3>3. buf' \in [Lone -> Seq(LoneSizes)]
      BY <1>1, <3>1, <3>2 DEF One!ReadPop
    <3>4. rd' = [rd EXCEPT ![s] = "return"] \/ rd' = [rd EXCEPT ![s] = "die"]
      BY <1>1 DEF One!ReadPop
    <3> QED
      BY <1>0, <1>1, <3>3, <3>4 DEF One!ReadPop, One!StateTypes
  <2>2. (One!FrameSound /\ One!FinsSent /\ One!Unregistered)'
    BY <1>0, <1>1 DEF One!ReadPop, One!StateTypes, One!FrameSound, One!FinsSent, One!Unregistered, One!Unused, One!Live
  <2>3. One!Backlogged'
    BY <1>0, <1>1 DEF One!ReadPop, One!StateTypes, One!FrameSound, One!Backlogged, One!Unused, One!Live
  <2>4. One!HalfCloseEnds'
    BY <1>0, <1>1 DEF One!ReadPop, One!StateTypes, One!FrameSound, One!HalfCloseEnds
  <2>5. bucket_notify' \in One!NotifyType({"recv"}) /\ One!NotAwaited' /\ One!RecvNotStranded'
    BY <1>0, <1>1, RecvNotified DEF One!ReadPop, One!StateTypes, One!NotAwaited, One!RecvNotStranded
  <2>6. One!WillWake'
    BY <1>0, <1>1 DEF One!ReadPop, One!StateTypes, One!FrameSound, One!WillWake
  <2> QED
    BY <2>1, <2>2, <2>3, <2>4, <2>5, <2>6 DEF One!StreamInv
<1>2. ASSUME NEW s \in Lone, NEW then \in {"notify", "next"}, One!ReadReturn(s, then) PROVE One!StreamInv'
  <2>1. /\ bucket_notify' \in One!NotifyType({"recv"})
        /\ bucket_notify'.at["recv"] = "away" <=> bucket_notify.at["recv"] = "away"
        /\ \/ rd' = [rd EXCEPT ![s] = "notify"]
           \/ rd' = [rd EXCEPT ![s] = "pop"] /\ (~(bucket' > 0) \/ bucket_notify'.at["recv"] # "parked")
        /\ rd[s] \in {"return", "notify"}
    BY <1>0, <1>2, TokensReturned DEF One!ReadReturn
  <2>2. One!StateTypes'
    BY <1>0, <1>2, <2>1 DEF One!ReadReturn, One!StateTypes
  <2>3. (One!FrameSound /\ One!FinsSent /\ One!Unregistered)'
    BY <1>0, <1>2 DEF One!ReadReturn, One!FrameSound, One!FinsSent, One!Unregistered, One!Unused
  <2>4. One!Backlogged'
    BY <1>0, <1>2 DEF One!ReadReturn, One!StateTypes, One!FrameSound, One!Backlogged, One!Unused, One!Live
  <2>5. One!HalfCloseEnds'
    BY <1>0, <1>2, <2>1 DEF One!ReadReturn, One!StateTypes, One!HalfCloseEnds
  <2>6. bucket_notify' \in One!NotifyType({"recv"}) /\ One!NotAwaited' /\ One!RecvNotStranded'
    BY <1>0, <1>2, <2>1 DEF One!ReadReturn, One!StateTypes, One!NotAwaited, One!RecvNotStranded
  <2>7. One!WillWake'
    BY <1>0, <1>2, <2>1 DEF One!ReadReturn, One!StateTypes, One!WillWake
  <2> QED
    BY <2>2, <2>3, <2>4, <2>5, <2>6, <2>7 DEF One!StreamInv
<1>3. ASSUME NEW s \in Lone, One!ReadDie(s) PROVE One!StreamInv'
  BY <1>3 DEF One!ReadDie,
       One!StreamInv, One!StateTypes, One!FrameSound, One!FinsSent, One!Unregistered, One!Backlogged, One!HalfCloseEnds, One!NotAwaited,
       One!RecvNotStranded, One!WillWake, One!Unused, One!Live, One!Reading, One!Ended
<1>4. ASSUME NEW s \in Lone, One!ReadBuffer(s) PROVE One!StreamInv'
  <2>1. One!StateTypes'
    BY <1>0, <1>4 DEF One!ReadBuffer, One!StateTypes, One!Reading, One!Ended
  <2>2. (One!FrameSound /\ One!FinsSent /\ One!Unregistered)'
    BY <1>0, <1>4 DEF One!ReadBuffer, One!StateTypes, One!FrameSound, One!FinsSent, One!Unregistered, One!Unused, One!Live
  <2>3. One!Backlogged'
    BY <1>0, <1>4 DEF One!ReadBuffer, One!StateTypes, One!FrameSound, One!Backlogged, One!Unused, One!Live
  <2>4. One!HalfCloseEnds'
    BY <1>0, <1>4 DEF One!ReadBuffer, One!StateTypes, One!FrameSound, One!HalfCloseEnds
  <2>5. bucket_notify' \in One!NotifyType({"recv"}) /\ One!NotAwaited' /\ One!RecvNotStranded'
    BY <1>0, <1>4, RecvNotified DEF One!ReadBuffer, One!StateTypes, One!NotAwaited, One!RecvNotStranded
  <2>6. One!WillWake'
    BY <1>0, <1>4 DEF One!ReadBuffer, One!StateTypes, One!FrameSound, One!WillWake
  <2> QED
    BY <2>1, <2>2, <2>3, <2>4, <2>5, <2>6 DEF One!StreamInv
<1>5. ASSUME NEW s \in Lone, One!ReadFin(s) PROVE One!StreamInv'
  <2>1. One!StateTypes'
    BY <1>0, <1>5 DEF One!ReadFin, One!StateTypes, One!Reading, One!Ended
  <2>2. (One!FrameSound /\ One!FinsSent /\ One!Unregistered)'
    BY <1>0, <1>5 DEF One!ReadFin, One!StateTypes, One!FrameSound, One!FinsSent, One!Unregistered, One!Unused, One!Live
  <2>3. One!Backlogged'
    BY <1>0, <1>5 DEF One!ReadFin, One!StateTypes, One!FrameSound, One!Backlogged, One!Unused, One!Live
  <2>4. One!HalfCloseEnds'
    BY <1>0, <1>5 DEF One!ReadFin, One!StateTypes, One!FrameSound, One!HalfCloseEnds
  <2>5. bucket_notify' \in One!NotifyType({"recv"}) /\ One!NotAwaited' /\ One!RecvNotStranded'
    BY <1>0, <1>5, RecvNotified DEF One!ReadFin, One!StateTypes, One!NotAwaited, One!RecvNotStranded
  <2>6. One!WillWake'
    BY <1>0, <1>5 DEF One!ReadFin, One!StateTypes, One!FrameSound, One!WillWake
  <2> QED
    BY <2>1, <2>2, <2>3, <2>4, <2>5, <2>6 DEF One!StreamInv
<1>6. ASSUME NEW s \in Lone, One!ReadRest(s) PROVE One!StreamInv'
  BY <1>6 DEF One!ReadRest,
       One!StreamInv, One!StateTypes, One!FrameSound, One!FinsSent, One!Unregistered, One!Backlogged, One!HalfCloseEnds, One!NotAwaited,
       One!RecvNotStranded, One!WillWake, One!Unused, One!Live, One!Reading, One!Ended
<1>7. ASSUME NEW s \in Lone, One!ReadSelect(s) PROVE One!StreamInv'
  <2>1. One!StateTypes'
    <3>1. /\ \E v \in {"pop", "eof", "failed"} : rd' = [rd EXCEPT ![s] = v]
          /\ reader_wakeup' = reader_wakeup \/ reader_wakeup' = reader_wakeup \ {s}
      BY <1>7 DEF One!ReadSelect
    <3> QED
      BY <1>0, <1>7, <3>1 DEF One!ReadSelect, One!StateTypes
  <2>2. (One!FrameSound /\ One!FinsSent /\ One!Unregistered)'
    BY <1>0, <1>7 DEF One!ReadSelect, One!StateTypes, One!FrameSound, One!FinsSent, One!Unregistered, One!Unused, One!Live
  <2>3. One!Backlogged'
    BY <1>0, <1>7 DEF One!ReadSelect, One!StateTypes, One!FrameSound, One!Backlogged, One!Unused, One!Live
  <2>4. One!HalfCloseEnds'
    BY <1>0, <1>7 DEF One!ReadSelect, One!StateTypes, One!FrameSound, One!HalfCloseEnds
  <2>5. bucket_notify' \in One!NotifyType({"recv"}) /\ One!NotAwaited' /\ One!RecvNotStranded'
    BY <1>0, <1>7, RecvNotified DEF One!ReadSelect, One!StateTypes, One!NotAwaited, One!RecvNotStranded
  <2>6. One!WillWake'
    <3>1. /\ \E v \in {"pop", "eof", "failed"} : rd' = [rd EXCEPT ![s] = v]
          /\ reader_wakeup \subseteq reader_wakeup' \cup {s} /\ UNCHANGED <<buf, fin_event, die, recv>>
      BY <1>7 DEF One!ReadSelect
    <3> QED
      BY <1>0, <3>1 DEF One!StateTypes, One!WillWake
  <2> QED
    BY <2>1, <2>2, <2>3, <2>4, <2>5, <2>6 DEF One!StreamInv
<1> QED
  BY <1>1, <1>2, <1>3, <1>4, <1>5, <1>6, <1>7 DEF One!Reader

(* open_stream() and accept_stream(). *)
LEMMA OpenKeeps ==
    ASSUME One!StreamInv, (\E x \in Lone : One!OpenSyn(x) \/ One!OpenRegister(x)) \/ One!Accept
    PROVE  One!StreamInv'
<1> USE DEF One!recvVars, One!mapVars, One!tokenVars, One!bucketVars, One!At, One!closed, One!MapFree, One!Cleanup,
      One!Reading, One!Ended
<1>0. /\ One!StateTypes /\ One!FrameSound /\ One!FinsSent /\ One!Unregistered /\ One!Backlogged
      /\ One!HalfCloseEnds
      /\ bucket_notify \in One!NotifyType({"recv"}) /\ One!NotAwaited /\ One!RecvNotStranded /\ One!WillWake
  BY DEF One!StreamInv
<1>1. ASSUME NEW s \in Lone, One!OpenSyn(s) PROVE One!StreamInv'
  BY <1>1 DEF One!OpenSyn,
       One!StreamInv, One!StateTypes, One!FrameSound, One!FinsSent, One!Unregistered, One!Backlogged, One!HalfCloseEnds, One!NotAwaited,
       One!RecvNotStranded, One!WillWake, One!Unused, One!Live, One!Reading, One!Ended
<1>2. ASSUME NEW s \in Lone, One!OpenRegister(s) PROVE One!StreamInv'
  <2>1. One!StateTypes'
    <3>1. \/ UNCHANGED <<streams, handle, rd>>
          \/ /\ streams' = streams \cup {s} /\ handle' = [handle EXCEPT ![s] = "held"] /\ rd' = [rd EXCEPT ![s] = "pop"]
      BY <1>2 DEF One!OpenRegister
    <3>2. /\ opener' = [opener EXCEPT ![s] = "done"]
          /\ UNCHANGED <<recv, read_error, session_is_active, peer, frames, accepts, session, buf, reader_wakeup,
                         fin_event, write_closed, die, cl>>
      BY <1>2 DEF One!OpenRegister
    <3>3. CASE UNCHANGED <<streams, handle, rd>>
      BY <1>0, <3>2, <3>3 DEF One!StateTypes
    <3>4. CASE streams' = streams \cup {s} /\ handle' = [handle EXCEPT ![s] = "held"] /\ rd' = [rd EXCEPT ![s] = "pop"]
      BY <1>0, <3>2, <3>4 DEF One!StateTypes
    <3> QED
      BY <3>1, <3>3, <3>4
  <2>2. (One!FrameSound /\ One!FinsSent /\ One!Unregistered)'
    BY <1>0, <1>2 DEF One!OpenRegister, One!StateTypes, One!FrameSound, One!FinsSent, One!Unregistered, One!Unused, One!Live
  <2>3. One!Backlogged'
    <3>1. /\ opener[s] = "syn" /\ opener' = [opener EXCEPT ![s] = "done"] /\ UNCHANGED <<peer, accepts, recv>>
          /\ \/ UNCHANGED <<handle, rd>>
             \/ handle' = [handle EXCEPT ![s] = "held"] /\ rd' = [rd EXCEPT ![s] = "pop"]
      BY <1>2 DEF One!OpenRegister
    <3>2. \A i \in DOMAIN accepts : accepts[i] \in Lone /\ accepts[i] # s
      BY <1>0, <3>1 DEF One!StateTypes, One!Backlogged
    <3>3. recv.pc \in {"syn", "accept"} => recv.sid \in Lone /\ recv.sid # s
      BY <1>0, <3>1 DEF One!FrameSound
    <3>4. \A x \in Lone : One!Unused(x)' \/ opener'[x] = "syn" => handle'[x] = "none"
      BY <1>0, <3>1 DEF One!StateTypes, One!Backlogged, One!Unused
    <3>5. \A x \in Lone : handle'[x] = "none" => rd'[x] = "away"
      BY <1>0, <3>1 DEF One!StateTypes, One!Backlogged
    <3>6. \A i \in DOMAIN accepts' : /\ handle'[accepts'[i]] = "none" /\ opener'[accepts'[i]] = "idle"
                                     /\ peer'[accepts'[i]] # "none"
      BY <1>0, <3>1, <3>2 DEF One!StateTypes, One!Backlogged
    <3>7. recv'.pc \in {"syn", "accept"} => handle'[recv'.sid] = "none" /\ \A i \in DOMAIN accepts' : accepts'[i] # recv'.sid
      BY <1>0, <3>1, <3>3 DEF One!StateTypes, One!Backlogged
    <3>8. \A i, j \in DOMAIN accepts' : i # j => accepts'[i] # accepts'[j]
      BY <1>0, <3>1 DEF One!Backlogged
    <3> QED
      BY <3>4, <3>5, <3>6, <3>7, <3>8 DEF One!Backlogged
  <2>4. One!HalfCloseEnds'
    BY <1>0, <1>2 DEF One!OpenRegister, One!StateTypes, One!Unregistered, One!HalfCloseEnds
  <2>5. bucket_notify' \in One!NotifyType({"recv"}) /\ One!NotAwaited' /\ One!RecvNotStranded'
    <3>1. /\ UNCHANGED <<bucket, bucket_notify, recv, cl>> /\ rd[s] # "notify"
          /\ rd' = rd \/ rd' = [rd EXCEPT ![s] = "pop"]
      BY <1>0, <1>2 DEF One!OpenRegister, One!Backlogged
    <3> QED
      BY <1>0, <3>1 DEF One!StateTypes, One!NotAwaited, One!RecvNotStranded
  <2>6. One!WillWake'
    BY <1>0, <1>2 DEF One!OpenRegister, One!StateTypes, One!FrameSound, One!WillWake
  <2> QED
    BY <2>1, <2>2, <2>3, <2>4, <2>5, <2>6 DEF One!StreamInv
<1>3. ASSUME One!Accept PROVE One!StreamInv'
  <2>1. One!StateTypes'
    <3>1. accepts \in Seq(Lone) /\ accepts # <<>> /\ Len(accepts) <= ACCEPT_BACKLOG
      BY <1>0, <1>3 DEF One!StateTypes, One!Accept
    <3>2. Tail(accepts) \in Seq(Lone) /\ Head(accepts) \in Lone /\ Len(Tail(accepts)) <= ACCEPT_BACKLOG
      BY <3>1, SmuxAssumption
    <3> QED
      BY <1>0, <1>3, <3>2 DEF One!Accept, One!StateTypes
  <2>2. (One!FrameSound /\ One!FinsSent /\ One!Unregistered)'
    BY <1>0, <1>3 DEF One!Accept, One!StateTypes, One!FrameSound, One!FinsSent, One!Unregistered, One!Unused, One!Live
  <2>3. One!Backlogged'
    <3> DEFINE h == Head(accepts)
    <3>1. /\ h \in Lone /\ h = accepts[1] /\ 1 \in DOMAIN accepts
          /\ \A i \in DOMAIN accepts' : i + 1 \in DOMAIN accepts /\ accepts'[i] = accepts[i + 1] /\ accepts[i + 1] \in Lone
          /\ \A i \in DOMAIN accepts' : i \in Nat /\ i > 0
      BY <1>0, <1>3, SMTT(60) DEF One!Accept, One!StateTypes
    <3>2. \A i, j \in DOMAIN accepts : i # j => accepts[i] # accepts[j]
      BY <1>0 DEF One!Backlogged
    <3>3. ASSUME NEW i \in DOMAIN accepts' PROVE accepts'[i] # h
      <4>1. i + 1 # 1
        BY <3>1
      <4> QED
        BY <3>1, <3>2, <4>1
    <3>4. ASSUME NEW i \in DOMAIN accepts', NEW j \in DOMAIN accepts', i # j PROVE accepts'[i] # accepts'[j]
      <4>1. i + 1 # j + 1
        BY <3>1, <3>4
      <4> QED
        BY <3>1, <3>2, <4>1
    <3>5. /\ handle' = [handle EXCEPT ![h] = "held"] /\ rd' = [rd EXCEPT ![h] = "pop"]
          /\ UNCHANGED <<opener, peer, recv>> /\ opener[h] = "idle" /\ peer[h] # "none"
      BY <1>0, <1>3, <3>1 DEF One!Accept, One!Backlogged
    <3>6. recv.pc \in {"syn", "accept"} => recv.sid \in Lone /\ recv.sid # h
      BY <1>0, <3>1 DEF One!FrameSound, One!Backlogged
    <3> HIDE DEF h
    <3>7. \A x \in Lone : One!Unused(x)' \/ opener'[x] = "syn" => handle'[x] = "none"
      BY <1>0, <3>1, <3>5 DEF One!StateTypes, One!Backlogged, One!Unused
    <3>8. \A x \in Lone : handle'[x] = "none" => rd'[x] = "away"
      BY <1>0, <3>1, <3>5 DEF One!StateTypes, One!Backlogged
    <3>9. \A i \in DOMAIN accepts' : /\ handle'[accepts'[i]] = "none" /\ opener'[accepts'[i]] = "idle"
                                     /\ peer'[accepts'[i]] # "none"
      BY <1>0, <3>1, <3>3, <3>5 DEF One!StateTypes, One!Backlogged
    <3>10. recv'.pc \in {"syn", "accept"} => handle'[recv'.sid] = "none" /\ \A i \in DOMAIN accepts' : accepts'[i] # recv'.sid
      BY <1>0, <3>1, <3>5, <3>6 DEF One!StateTypes, One!Backlogged
    <3> QED
      BY <3>4, <3>7, <3>8, <3>9, <3>10 DEF One!Backlogged
  <2>4. One!HalfCloseEnds'
    BY <1>0, <1>3 DEF One!Accept, One!StateTypes, One!FrameSound, One!HalfCloseEnds
  <2>5. bucket_notify' \in One!NotifyType({"recv"}) /\ One!NotAwaited' /\ One!RecvNotStranded'
    <3>1. /\ UNCHANGED <<bucket, bucket_notify, recv, cl>> /\ Head(accepts) \in Lone /\ rd[Head(accepts)] = "away"
          /\ rd' = [rd EXCEPT ![Head(accepts)] = "pop"]
      BY <1>0, <1>3 DEF One!Accept, One!StateTypes, One!Backlogged
    <3> QED
      BY <1>0, <3>1 DEF One!StateTypes, One!NotAwaited, One!RecvNotStranded
  <2>6. One!WillWake'
    BY <1>0, <1>3 DEF One!Accept, One!StateTypes, One!FrameSound, One!WillWake
  <2> QED
    BY <2>1, <2>2, <2>3, <2>4, <2>5, <2>6 DEF One!StreamInv
<1> QED
  BY <1>1, <1>2, <1>3

(* Whoever closes a stream. *)
LEMMA CloserKeeps ==
    ASSUME One!StreamInv, NEW x \in Lone, One!Closer(x)
    PROVE  One!StreamInv'
<1> USE DEF One!recvVars, One!mapVars, One!tokenVars, One!bucketVars, One!At, One!closed, One!MapFree, One!Cleanup,
      One!Reading, One!Ended
<1>0. /\ One!StateTypes /\ One!FrameSound /\ One!FinsSent /\ One!Unregistered /\ One!Backlogged
      /\ One!HalfCloseEnds
      /\ bucket_notify \in One!NotifyType({"recv"}) /\ One!NotAwaited /\ One!RecvNotStranded /\ One!WillWake
  BY DEF One!StreamInv
<1>1. ASSUME NEW s \in Lone, One!CloseWrite(s) PROVE One!StreamInv'
  BY <1>1 DEF One!CloseWrite,
       One!StreamInv, One!StateTypes, One!FrameSound, One!FinsSent, One!Unregistered, One!Backlogged, One!HalfCloseEnds, One!NotAwaited,
       One!RecvNotStranded, One!WillWake, One!Unused, One!Live, One!Reading, One!Ended
<1>2. ASSUME NEW s \in Lone, One!CloseWriteEnd(s) PROVE One!StreamInv'
  BY <1>2 DEF One!CloseWriteEnd,
       One!StreamInv, One!StateTypes, One!FrameSound, One!FinsSent, One!Unregistered, One!Backlogged, One!HalfCloseEnds, One!NotAwaited,
       One!RecvNotStranded, One!WillWake, One!Unused, One!Live, One!Reading, One!Ended
<1>3. ASSUME NEW s \in Lone, NEW drops \in BOOLEAN, One!Close(s, drops) PROVE One!StreamInv'
  BY <1>3 DEF One!Close,
       One!StreamInv, One!StateTypes, One!FrameSound, One!FinsSent, One!Unregistered, One!Backlogged, One!HalfCloseEnds, One!NotAwaited,
       One!RecvNotStranded, One!WillWake, One!Unused, One!Live, One!Reading, One!Ended
<1>4. ASSUME NEW s \in Lone, One!CloseRecycle(s) PROVE One!StreamInv'
  BY <1>4 DEF One!CloseRecycle,
       One!StreamInv, One!StateTypes, One!FrameSound, One!FinsSent, One!Unregistered, One!Backlogged, One!HalfCloseEnds, One!NotAwaited,
       One!RecvNotStranded, One!WillWake, One!Unused, One!Live, One!Reading, One!Ended
<1>5. ASSUME NEW s \in Lone, NEW then \in {"notify", "next"}, One!CloseReturn(s, then) PROVE One!StreamInv'
  <2>1. /\ bucket_notify' \in One!NotifyType({"recv"})
        /\ bucket_notify'.at["recv"] = "away" <=> bucket_notify.at["recv"] = "away"
        /\ \/ cl' = [cl EXCEPT ![s] = "notify"]
           \/ cl' = [cl EXCEPT ![s] = "remove"] /\ (~(bucket' > 0) \/ bucket_notify'.at["recv"] # "parked")
        /\ cl[s] \in {"return", "notify"}
    BY <1>0, <1>5, TokensReturned DEF One!CloseReturn
  <2>2. One!StateTypes'
    BY <1>0, <1>5, <2>1 DEF One!CloseReturn, One!StateTypes
  <2>3. (One!FrameSound /\ One!FinsSent /\ One!Unregistered)'
    BY <1>0, <1>5 DEF One!CloseReturn, One!FrameSound, One!FinsSent, One!Unregistered, One!Unused
  <2>4. One!Backlogged'
    BY <1>0, <1>5 DEF One!CloseReturn, One!StateTypes, One!FrameSound, One!Backlogged, One!Unused, One!Live
  <2>5. One!HalfCloseEnds'
    BY <1>0, <1>5, <2>1 DEF One!CloseReturn, One!StateTypes, One!HalfCloseEnds
  <2>6. bucket_notify' \in One!NotifyType({"recv"}) /\ One!NotAwaited' /\ One!RecvNotStranded'
    BY <1>0, <1>5, <2>1 DEF One!CloseReturn, One!StateTypes, One!NotAwaited, One!RecvNotStranded
  <2>7. One!WillWake'
    BY <1>0, <1>5, <2>1 DEF One!CloseReturn, One!StateTypes, One!WillWake
  <2> QED
    BY <2>2, <2>3, <2>4, <2>5, <2>6, <2>7 DEF One!StreamInv
<1>6. ASSUME NEW s \in Lone, One!CloseRemove(s) PROVE One!StreamInv'
  BY <1>6 DEF One!CloseRemove,
       One!StreamInv, One!StateTypes, One!FrameSound, One!FinsSent, One!Unregistered, One!Backlogged, One!HalfCloseEnds, One!NotAwaited,
       One!RecvNotStranded, One!WillWake, One!Unused, One!Live, One!Reading, One!Ended
<1>7. ASSUME NEW s \in Lone, One!Free(s) PROVE One!StreamInv'
  BY <1>7, SMTT(60) DEF One!Free, One!Unreferenced,
       One!StreamInv, One!StateTypes, One!FrameSound, One!FinsSent, One!Unregistered, One!Backlogged, One!HalfCloseEnds, One!NotAwaited,
       One!RecvNotStranded, One!WillWake, One!Unused, One!Live, One!Reading, One!Ended
<1> QED
  BY <1>1, <1>2, <1>3, <1>4, <1>5, <1>6, <1>7 DEF One!Closer

(* close() of the session, and keepalive. *)
LEMMA SessionKeeps ==
    ASSUME One!StreamInv, One!SessionClose \/ One!SessionRelease \/ One!KeepalivePing \/ One!KeepaliveExpiry
    PROVE  One!StreamInv'
<1> USE DEF One!recvVars, One!mapVars, One!tokenVars, One!bucketVars, One!At, One!closed, One!MapFree, One!Cleanup,
      One!Reading, One!Ended
<1>0. /\ One!StateTypes /\ One!FrameSound /\ One!FinsSent /\ One!Unregistered /\ One!Backlogged
      /\ One!HalfCloseEnds
      /\ bucket_notify \in One!NotifyType({"recv"}) /\ One!NotAwaited /\ One!RecvNotStranded /\ One!WillWake
  BY DEF One!StreamInv
<1>1. ASSUME One!SessionClose PROVE One!StreamInv'
  BY <1>1 DEF One!SessionClose,
       One!StreamInv, One!StateTypes, One!FrameSound, One!FinsSent, One!Unregistered, One!Backlogged, One!HalfCloseEnds, One!NotAwaited,
       One!RecvNotStranded, One!WillWake, One!Unused, One!Live, One!Reading, One!Ended
<1>2. ASSUME One!SessionRelease PROVE One!StreamInv'
  BY <1>2 DEF One!SessionRelease,
       One!StreamInv, One!StateTypes, One!FrameSound, One!FinsSent, One!Unregistered, One!Backlogged, One!HalfCloseEnds, One!NotAwaited,
       One!RecvNotStranded, One!WillWake, One!Unused, One!Live, One!Reading, One!Ended
<1>3. ASSUME One!KeepalivePing PROVE One!StreamInv'
  <2>1. One!StateTypes'
    BY <1>0, <1>3 DEF One!KeepalivePing, One!StateTypes, One!Reading, One!Ended
  <2>2. (One!FrameSound /\ One!FinsSent /\ One!Unregistered)'
    BY <1>0, <1>3 DEF One!KeepalivePing, One!StateTypes, One!FrameSound, One!FinsSent, One!Unregistered, One!Unused, One!Live
  <2>3. One!Backlogged'
    BY <1>0, <1>3 DEF One!KeepalivePing, One!StateTypes, One!FrameSound, One!Backlogged, One!Unused, One!Live
  <2>4. One!HalfCloseEnds'
    BY <1>0, <1>3 DEF One!KeepalivePing, One!StateTypes, One!FrameSound, One!HalfCloseEnds
  <2>5. bucket_notify' \in One!NotifyType({"recv"}) /\ One!NotAwaited' /\ One!RecvNotStranded'
    <3>1. bucket_notify' \in One!NotifyOne(bucket_notify) /\ UNCHANGED <<bucket, recv, rd, cl>>
      BY <1>3 DEF One!KeepalivePing
    <3>2. /\ bucket_notify' \in One!NotifyType({"recv"}) /\ bucket_notify'.at["recv"] # "parked"
          /\ bucket_notify'.at["recv"] = "away" <=> bucket_notify.at["recv"] = "away"
      BY <1>0, <3>1, RecvNotified
    <3> QED
      BY <1>0, <3>1, <3>2 DEF One!NotAwaited, One!RecvNotStranded
  <2>6. One!WillWake'
    BY <1>0, <1>3 DEF One!KeepalivePing, One!StateTypes, One!FrameSound, One!WillWake
  <2> QED
    BY <2>1, <2>2, <2>3, <2>4, <2>5, <2>6 DEF One!StreamInv
<1>4. ASSUME One!KeepaliveExpiry PROVE One!StreamInv'
  <2>1. One!StateTypes'
    BY <1>0, <1>4 DEF One!KeepaliveExpiry, One!StateTypes, One!Reading, One!Ended
  <2>2. (One!FrameSound /\ One!FinsSent /\ One!Unregistered)'
    BY <1>0, <1>4 DEF One!KeepaliveExpiry, One!StateTypes, One!FrameSound, One!FinsSent, One!Unregistered, One!Unused, One!Live
  <2>3. One!Backlogged'
    BY <1>0, <1>4 DEF One!KeepaliveExpiry, One!StateTypes, One!FrameSound, One!Backlogged, One!Unused, One!Live
  <2>4. One!HalfCloseEnds'
    BY <1>0, <1>4 DEF One!KeepaliveExpiry, One!StateTypes, One!FrameSound, One!HalfCloseEnds
  <2>5. bucket_notify' \in One!NotifyType({"recv"}) /\ One!NotAwaited' /\ One!RecvNotStranded'
    BY <1>0, <1>4, RecvNotified DEF One!KeepaliveExpiry, One!StateTypes, One!NotAwaited, One!RecvNotStranded
  <2>6. One!WillWake'
    BY <1>0, <1>4 DEF One!KeepaliveExpiry, One!StateTypes, One!FrameSound, One!WillWake
  <2> QED
    BY <2>1, <2>2, <2>3, <2>4, <2>5, <2>6 DEF One!StreamInv
<1> QED
  BY <1>1, <1>2, <1>3, <1>4

(* A session starts in StreamInv, *)
LEMMA StreamInit == One!Init => One!StreamInv
<1> SUFFICES ASSUME One!Init PROVE One!StreamInv
  OBVIOUS
<1>1. One!StateTypes
  <2>1. accepts \in Seq(Lone) /\ Len(accepts) <= ACCEPT_BACKLOG
    BY SmuxAssumption DEF One!Init
  <2>2. buf \in [Lone -> Seq(LoneSizes)]
    BY DEF One!Init
  <2>3. recv = One!At("check") /\ frames \in [Lone -> 0..LoneFrames]
    BY SmuxAssumption DEF One!Init
  <2>4. recv \in [pc: {"check", "read", "syn", "accept", "push", "deduct", "fin", "clean", "exited"},
                 sid: Lone \cup {0}, len: LoneSizes \cup {0}]
    BY <2>3 DEF One!At
  <2>5. /\ rd \in [Lone -> One!Reading \cup One!Ended] /\ peer \in [Lone -> {"none", "syn", "fin"}]
        /\ opener \in [Lone -> {"idle", "syn", "done"}] /\ handle \in [Lone -> {"none", "held", "closed", "dropped", "freed"}]
        /\ cl \in [Lone -> {"idle", "half", "recycle", "return", "notify", "remove"}]
    BY DEF One!Init, One!Reading
  <2>6. /\ {read_error, session_is_active} \subseteq BOOLEAN /\ streams \subseteq Lone /\ session = "open"
        /\ UNION {reader_wakeup, fin_event, write_closed, die} \subseteq Lone
    BY DEF One!Init
  <2> QED
    BY <2>1, <2>2, <2>3, <2>4, <2>5, <2>6 DEF One!StateTypes
<1>2. One!FrameSound /\ One!FinsSent /\ One!Unregistered /\ One!Backlogged /\ One!HalfCloseEnds
  BY DEF One!Init, One!FrameSound, One!FinsSent, One!Unregistered, One!Backlogged, One!HalfCloseEnds, One!At
<1>3. bucket_notify \in One!NotifyType({"recv"}) /\ bucket_notify.at["recv"] = "away"
  BY DEF One!Init, One!Fresh, One!NotifyType
<1>4. One!NotAwaited /\ One!RecvNotStranded /\ One!WillWake
  BY <1>3 DEF One!Init, One!NotAwaited, One!RecvNotStranded, One!WillWake
<1> QED
  BY <1>1, <1>2, <1>3, <1>4 DEF One!StreamInv

(* and keeps it. *)
LEMMA StreamNext == ASSUME One!StreamInv, One!Next PROVE One!StreamInv'
BY RecvKeeps, ReaderKeeps, OpenKeeps, CloserKeeps, SessionKeeps DEF One!Next

-----------------------------------------------------------------------------
(* SmuxSession on one thread: EofInv is inductive.                         *)

(* recv_loop: nothing arrives while a reader runs. *)
LEMMA EofRecvKeeps ==
    ASSUME Two!EofInv, Two!Turn(<<"recv", 0>>), Two!RecvLoop
    PROVE  Two!EofInv'
<1> USE DEF Two!recvVars, Two!mapVars, Two!tokenVars, Two!bucketVars, Two!At, Two!closed, Two!MapFree, Two!Cleanup,
      Two!Reading, Two!Ended
<1>0. /\ Two!StateTypes /\ Two!FrameSound /\ Two!FinsSent /\ Two!Unregistered /\ Two!Backlogged
      /\ session = "open" /\ Two!DiesOfFins /\ Two!Drained
  BY DEF Two!EofInv
<1>1. ASSUME Two!RecvCheck PROVE Two!EofInv'
  <2>1. Two!StateTypes'
    <3>1. recv' = Two!At("read") \/ recv' = recv
      BY <1>1 DEF Two!RecvCheck
    <3> QED
      BY <1>0, <1>1, <3>1 DEF Two!RecvCheck, Two!StateTypes
  <2>2. (Two!FrameSound /\ Two!FinsSent /\ Two!Unregistered)'
    BY <1>0, <1>1 DEF Two!RecvCheck, Two!Starting, Two!StateTypes, Two!FrameSound, Two!FinsSent, Two!Unregistered, Two!Unused, Two!Live
  <2>3. Two!Backlogged'
    BY <1>0, <1>1 DEF Two!RecvCheck, Two!StateTypes, Two!FrameSound, Two!Backlogged, Two!Unused, Two!Live
  <2>4. session' = "open" /\ Two!DiesOfFins'
    BY <1>0, <1>1 DEF Two!RecvCheck, Two!StateTypes, Two!DiesOfFins
  <2>5. Two!Drained'
    BY <1>0, <1>1 DEF Two!RecvCheck, Two!StateTypes, Two!Drained, Two!DiesOfFins
  <2> QED
    BY <2>1, <2>2, <2>3, <2>4, <2>5 DEF Two!EofInv
<1>2. ASSUME Two!RecvWait PROVE Two!EofInv'
  <2>1. Two!StateTypes'
    <3>1. (recv' = Two!At("read") \/ recv' = recv)
      BY <1>0, RecvNotified, <1>2 DEF Two!RecvWait
    <3> QED
      BY <1>0, <1>2, <3>1 DEF Two!RecvWait, Two!StateTypes
  <2>2. (Two!FrameSound /\ Two!FinsSent /\ Two!Unregistered)'
    BY <1>0, <1>2 DEF Two!RecvWait, Two!Looking, Two!Await, Two!StateTypes, Two!FrameSound, Two!FinsSent, Two!Unregistered, Two!Unused, Two!Live
  <2>3. Two!Backlogged'
    BY <1>0, <1>2 DEF Two!RecvWait, Two!StateTypes, Two!FrameSound, Two!Backlogged, Two!Unused, Two!Live
  <2>4. session' = "open" /\ Two!DiesOfFins'
    BY <1>0, <1>2 DEF Two!RecvWait, Two!StateTypes, Two!DiesOfFins
  <2>5. Two!Drained'
    BY <1>0, <1>2 DEF Two!RecvWait, Two!StateTypes, Two!Drained, Two!DiesOfFins
  <2> QED
    BY <2>1, <2>2, <2>3, <2>4, <2>5 DEF Two!EofInv
<1>3. ASSUME Two!RecvDie PROVE Two!EofInv'
  <2>1. Two!StateTypes'
    BY <1>0, <1>3 DEF Two!RecvDie, Two!StateTypes, Two!Reading, Two!Ended
  <2>2. (Two!FrameSound /\ Two!FinsSent /\ Two!Unregistered)'
    BY <1>0, <1>3 DEF Two!RecvDie, Two!Waiting, Two!StateTypes, Two!FrameSound, Two!FinsSent, Two!Unregistered, Two!Unused, Two!Live
  <2>3. Two!Backlogged'
    BY <1>0, <1>3 DEF Two!RecvDie, Two!StateTypes, Two!FrameSound, Two!Backlogged, Two!Unused, Two!Live
  <2>4. session' = "open" /\ Two!DiesOfFins'
    BY <1>0, <1>3 DEF Two!RecvDie, Two!StateTypes, Two!DiesOfFins
  <2>5. Two!Drained'
    BY <1>0, <1>3 DEF Two!RecvDie, Two!StateTypes, Two!Drained, Two!DiesOfFins
  <2> QED
    BY <2>1, <2>2, <2>3, <2>4, <2>5 DEF Two!EofInv
<1>4. ASSUME Two!RecvError PROVE Two!EofInv'
  BY <1>4 DEF Two!RecvError,
       Two!EofInv, Two!StateTypes, Two!FrameSound, Two!FinsSent, Two!Unregistered, Two!Backlogged, Two!DiesOfFins,
       Two!Drained, Two!Unused, Two!Live, Two!Reading, Two!Ended
<1>5. ASSUME Two!RecvNop PROVE Two!EofInv'
  BY <1>5 DEF Two!RecvNop,
       Two!EofInv, Two!StateTypes, Two!FrameSound, Two!FinsSent, Two!Unregistered, Two!Backlogged, Two!DiesOfFins,
       Two!Drained, Two!Unused, Two!Live, Two!Reading, Two!Ended
<1>6. ASSUME NEW s \in Streams, Two!RecvFrame(s, "syn", 0) PROVE Two!EofInv'
  BY <1>6 DEF Two!RecvFrame,
       Two!EofInv, Two!StateTypes, Two!FrameSound, Two!FinsSent, Two!Unregistered, Two!Backlogged, Two!DiesOfFins,
       Two!Drained, Two!Unused, Two!Live, Two!Reading, Two!Ended
<1>7. ASSUME NEW s \in Streams, NEW len \in Sizes, Two!RecvFrame(s, "push", len) PROVE Two!EofInv'
  <2>1. Two!StateTypes'
    <3>1. /\ recv' = [pc |-> "push", sid |-> s, len |-> len] /\ peer' = [peer EXCEPT ![s] = @]
          /\ frames' = [frames EXCEPT ![s] = @ + 1] /\ frames[s] < Frames
      BY <1>7 DEF Two!RecvFrame
    <3>2. frames[s] \in 0..Frames /\ frames[s] + 1 \in 0..Frames
      BY <1>0, <3>1, SmuxAssumption DEF Two!StateTypes
    <3>3. frames' \in [Streams -> 0..Frames] /\ peer' = peer
      BY <1>0, <3>1, <3>2 DEF Two!StateTypes
    <3> QED
      BY <1>0, <1>7, <3>1, <3>3 DEF Two!RecvFrame, Two!StateTypes
  <2>2. (Two!FrameSound /\ Two!FinsSent /\ Two!Unregistered)'
    BY <1>0, <1>7 DEF Two!RecvFrame, Two!StateTypes, Two!FrameSound, Two!FinsSent, Two!Unregistered, Two!Unused, Two!Live
  <2>3. Two!Backlogged'
    BY <1>0, <1>7 DEF Two!RecvFrame, Two!StateTypes, Two!FrameSound, Two!Backlogged, Two!Unused, Two!Live
  <2>4. session' = "open" /\ Two!DiesOfFins'
    BY <1>0, <1>7 DEF Two!RecvFrame, Two!StateTypes, Two!DiesOfFins
  <2>5. Two!Drained'
    BY <1>0, <1>7 DEF Two!RecvFrame, Two!StateTypes, Two!Drained, Two!DiesOfFins
  <2> QED
    BY <2>1, <2>2, <2>3, <2>4, <2>5 DEF Two!EofInv
<1>8. ASSUME NEW s \in Streams, Two!RecvFrame(s, "fin", 0) PROVE Two!EofInv'
  BY <1>8 DEF Two!RecvFrame,
       Two!EofInv, Two!StateTypes, Two!FrameSound, Two!FinsSent, Two!Unregistered, Two!Backlogged, Two!DiesOfFins,
       Two!Drained, Two!Unused, Two!Live, Two!Reading, Two!Ended
<1>9. ASSUME Two!RecvSyn PROVE Two!EofInv'
  <2>1. Two!StateTypes'
    <3>1. recv.sid \in Streams /\ recv' = [recv EXCEPT !.pc = "accept"]
      BY <1>0, <1>9 DEF Two!RecvSyn, Two!FrameSound
    <3> QED
      BY <1>0, <1>9, <3>1 DEF Two!RecvSyn, Two!StateTypes
  <2>2. (Two!FrameSound /\ Two!FinsSent /\ Two!Unregistered)'
    BY <1>0, <1>9 DEF Two!RecvSyn, Two!StateTypes, Two!FrameSound, Two!FinsSent, Two!Unregistered, Two!Unused, Two!Live
  <2>3. Two!Backlogged'
    BY <1>0, <1>9 DEF Two!RecvSyn, Two!StateTypes, Two!FrameSound, Two!Backlogged, Two!Unused, Two!Live
  <2>4. session' = "open" /\ Two!DiesOfFins'
    BY <1>0, <1>9 DEF Two!RecvSyn, Two!StateTypes, Two!DiesOfFins
  <2>5. Two!Drained'
    BY <1>0, <1>9 DEF Two!RecvSyn, Two!StateTypes, Two!Drained, Two!DiesOfFins
  <2> QED
    BY <2>1, <2>2, <2>3, <2>4, <2>5 DEF Two!EofInv
<1>10. ASSUME Two!RecvAccept PROVE Two!EofInv'
  <2>1. Two!StateTypes'
    <3>1. recv.sid \in Streams /\ accepts \in Seq(Streams) /\ Len(accepts) < ACCEPT_BACKLOG /\ accepts' = Append(accepts, recv.sid)
      BY <1>0, <1>10 DEF Two!RecvAccept, Two!StateTypes, Two!FrameSound
    <3>2. accepts' \in Seq(Streams) /\ Len(accepts') <= ACCEPT_BACKLOG
      BY <3>1, SmuxAssumption
    <3> QED
      BY <1>0, <1>10, <3>2 DEF Two!RecvAccept, Two!StateTypes
  <2>2. (Two!FrameSound /\ Two!FinsSent /\ Two!Unregistered)'
    BY <1>0, <1>10 DEF Two!RecvAccept, Two!StateTypes, Two!FrameSound, Two!FinsSent, Two!Unregistered, Two!Unused, Two!Live
  <2>3. Two!Backlogged'
    BY <1>0, <1>10, SMTT(60) DEF Two!RecvAccept, Two!StateTypes, Two!FrameSound, Two!Backlogged, Two!Unused, Two!Live
  <2>4. session' = "open" /\ Two!DiesOfFins'
    BY <1>0, <1>10 DEF Two!RecvAccept, Two!StateTypes, Two!DiesOfFins
  <2>5. Two!Drained'
    BY <1>0, <1>10 DEF Two!RecvAccept, Two!StateTypes, Two!Drained, Two!DiesOfFins
  <2> QED
    BY <2>1, <2>2, <2>3, <2>4, <2>5 DEF Two!EofInv
<1>11. ASSUME Two!Turn(<<"recv", 0>>), Two!RecvPush PROVE Two!EofInv'
  <2>1. Two!StateTypes'
    <3>1. /\ recv.sid \in Streams /\ recv.len \in Sizes /\ buf \in [Streams -> Seq(Sizes)]
          /\ recv' = [recv EXCEPT !.pc = "deduct"] \/ recv' = Two!At("check")
          /\ buf' = buf \/ buf' = [buf EXCEPT ![recv.sid] = Append(@, recv.len)]
      BY <1>0, <1>11 DEF Two!RecvPush, Two!StateTypes, Two!FrameSound
    <3>2. Append(buf[recv.sid], recv.len) \in Seq(Sizes)
      BY <3>1
    <3>3. buf' \in [Streams -> Seq(Sizes)]
      BY <3>1, <3>2
    <3>4. UNCHANGED <<read_error, session_is_active, peer, frames, streams, accepts, session, opener, handle,
                      reader_wakeup, fin_event, write_closed, die, rd, cl>>
      BY <1>11 DEF Two!RecvPush
    <3>5. recv' \in [pc: {"check", "read", "syn", "accept", "push", "deduct", "fin", "clean", "exited"},
                     sid: Streams \cup {0}, len: Sizes \cup {0}]
      <4>1. CASE recv' = [recv EXCEPT !.pc = "deduct"]
        BY <1>0, <4>1 DEF Two!StateTypes
      <4>2. CASE recv' = Two!At("check")
        BY <4>2
      <4> QED
        BY <3>1, <4>1, <4>2
    <3> QED
      BY <1>0, <3>3, <3>4, <3>5 DEF Two!StateTypes
  <2>2. (Two!FrameSound /\ Two!FinsSent /\ Two!Unregistered)'
    <3>1. recv' = [recv EXCEPT !.pc = "deduct"] \/ recv' = Two!At("check")
      BY <1>11 DEF Two!RecvPush
    <3>2. /\ recv' = Two!At("check") \/ (recv'.pc = "deduct" /\ recv'.sid = recv.sid /\ recv'.len = recv.len)
          /\ recv.pc = "push" /\ UNCHANGED <<peer, opener, fin_event, streams>>
      BY <1>0, <1>11, <3>1 DEF Two!RecvPush, Two!StateTypes
    <3> QED
      BY <1>0, <3>2 DEF Two!FrameSound, Two!FinsSent, Two!Unregistered, Two!Unused
  <2>3. Two!Backlogged'
    BY <1>0, <1>11 DEF Two!RecvPush, Two!StateTypes, Two!FrameSound, Two!Backlogged, Two!Unused, Two!Live
  <2>4. session' = "open" /\ Two!DiesOfFins'
    BY <1>0, <1>11 DEF Two!RecvPush, Two!StateTypes, Two!DiesOfFins
  <2>5. Two!Drained'
    <3>1. \A x \in Streams : rd[x] \notin {"die", "buffer", "fin", "rest"}
      <4>1. SUFFICES ASSUME NEW x \in Streams, rd[x] \in {"die", "buffer", "fin", "rest"} PROVE FALSE
        OBVIOUS
      <4>2. <<"rd", x>> \in Two!Busy
        BY <4>1 DEF Two!Busy
      <4> QED
        BY <1>11, <4>2 DEF Two!Turn
    <3>2. /\ recv.sid \in Streams /\ recv.sid \notin fin_event /\ UNCHANGED <<rd, handle, fin_event>>
          /\ buf' = buf \/ buf' = [buf EXCEPT ![recv.sid] = Append(@, recv.len)]
      BY <1>0, <1>11 DEF Two!RecvPush, Two!FrameSound, Two!FinsSent
    <3> QED
      BY <1>0, <3>1, <3>2 DEF Two!StateTypes, Two!Drained
  <2> QED
    BY <2>1, <2>2, <2>3, <2>4, <2>5 DEF Two!EofInv
<1>12. ASSUME Two!RecvDeduct PROVE Two!EofInv'
  BY <1>12 DEF Two!RecvDeduct,
       Two!EofInv, Two!StateTypes, Two!FrameSound, Two!FinsSent, Two!Unregistered, Two!Backlogged, Two!DiesOfFins,
       Two!Drained, Two!Unused, Two!Live, Two!Reading, Two!Ended
<1>13. ASSUME Two!RecvFin PROVE Two!EofInv'
  <2>1. /\ recv.sid \in Streams
        /\ \/ /\ recv' = [pc |-> "clean", sid |-> recv.sid, len |-> 0] /\ fin_event' = fin_event \cup {recv.sid}
              /\ recv.sid \in streams
           \/ recv' = Two!At("check") /\ fin_event' = fin_event
        /\ peer[recv.sid] = "fin" /\ recv.pc = "fin"
    <3>1. recv.sid \in Streams /\ peer[recv.sid] = "fin" /\ recv.pc = "fin" /\ recv.len = 0
      BY <1>0, <1>13 DEF Two!RecvFin, Two!FrameSound
    <3>2. \/ recv' = [recv EXCEPT !.pc = "clean"] /\ fin_event' = fin_event \cup {recv.sid} /\ recv.sid \in streams
          \/ recv' = Two!At("check") /\ fin_event' = fin_event
      BY <1>13 DEF Two!RecvFin
    <3> QED
      BY <1>0, <3>1, <3>2 DEF Two!StateTypes
  <2>2. Two!StateTypes'
    BY <1>0, <1>13, <2>1 DEF Two!RecvFin, Two!StateTypes
  <2>3. (Two!FrameSound /\ Two!FinsSent /\ Two!Unregistered)'
    BY <1>0, <1>13, <2>1 DEF Two!RecvFin, Two!FrameSound, Two!FinsSent, Two!Unregistered, Two!Unused
  <2>4. Two!Backlogged'
    BY <1>0, <1>13 DEF Two!RecvFin, Two!StateTypes, Two!FrameSound, Two!Backlogged, Two!Unused, Two!Live
  <2>5. session' = "open" /\ Two!DiesOfFins'
    BY <1>0, <1>13 DEF Two!RecvFin, Two!StateTypes, Two!DiesOfFins
  <2>6. Two!Drained'
    BY <1>0, <1>13 DEF Two!RecvFin, Two!StateTypes, Two!Drained, Two!DiesOfFins
  <2> QED
    BY <2>2, <2>3, <2>4, <2>5, <2>6 DEF Two!EofInv
<1>14. ASSUME Two!RecvClean PROVE Two!EofInv'
  BY <1>14 DEF Two!RecvClean,
       Two!EofInv, Two!StateTypes, Two!FrameSound, Two!FinsSent, Two!Unregistered, Two!Backlogged, Two!DiesOfFins,
       Two!Drained, Two!Unused, Two!Live, Two!Reading, Two!Ended
<1> QED
  BY <1>1, <1>2, <1>3, <1>4, <1>5, <1>6, <1>7, <1>8, <1>9, <1>10, <1>11, <1>12, <1>13, <1>14 DEF Two!RecvLoop

(* The reader of a stream. *)
LEMMA EofReaderKeeps ==
    ASSUME Two!EofInv, NEW x \in Streams, Two!Reader(x)
    PROVE  Two!EofInv'
<1> USE DEF Two!recvVars, Two!mapVars, Two!tokenVars, Two!bucketVars, Two!At, Two!closed, Two!MapFree, Two!Cleanup,
      Two!Reading, Two!Ended
<1>0. /\ Two!StateTypes /\ Two!FrameSound /\ Two!FinsSent /\ Two!Unregistered /\ Two!Backlogged
      /\ session = "open" /\ Two!DiesOfFins /\ Two!Drained
  BY DEF Two!EofInv
<1>1. ASSUME NEW s \in Streams, Two!ReadPop(s) PROVE Two!EofInv'
  <2>1. Two!StateTypes'
    <3>1. buf \in [Streams -> Seq(Sizes)] /\ buf[s] \in Seq(Sizes)
      BY <1>0 DEF Two!StateTypes
    <3>2. buf[s] # <<>> => Tail(buf[s]) \in Seq(Sizes)
      BY <3>1
    <3>3. buf' \in [Streams -> Seq(Sizes)]
      BY <1>1, <3>1, <3>2 DEF Two!ReadPop
    <3>4. rd' = [rd EXCEPT ![s] = "return"] \/ rd' = [rd EXCEPT ![s] = "die"]
      BY <1>1 DEF Two!ReadPop
    <3> QED
      BY <1>0, <1>1, <3>3, <3>4 DEF Two!ReadPop, Two!StateTypes
  <2>2. (Two!FrameSound /\ Two!FinsSent /\ Two!Unregistered)'
    BY <1>0, <1>1 DEF Two!ReadPop, Two!StateTypes, Two!FrameSound, Two!FinsSent, Two!Unregistered, Two!Unused, Two!Live
  <2>3. Two!Backlogged'
    BY <1>0, <1>1 DEF Two!ReadPop, Two!StateTypes, Two!FrameSound, Two!Backlogged, Two!Unused, Two!Live
  <2>4. session' = "open" /\ Two!DiesOfFins'
    BY <1>0, <1>1 DEF Two!ReadPop, Two!StateTypes, Two!DiesOfFins
  <2>5. Two!Drained'
    BY <1>0, <1>1 DEF Two!ReadPop, Two!StateTypes, Two!Drained, Two!DiesOfFins
  <2> QED
    BY <2>1, <2>2, <2>3, <2>4, <2>5 DEF Two!EofInv
<1>2. ASSUME NEW s \in Streams, NEW then \in {"notify", "next"}, Two!ReadReturn(s, then) PROVE Two!EofInv'
  <2>1. rd' = [rd EXCEPT ![s] = "notify"] \/ rd' = [rd EXCEPT ![s] = "pop"]
    BY <1>2 DEF Two!ReadReturn
  <2>2. Two!StateTypes'
    BY <1>0, <1>2, <2>1 DEF Two!ReadReturn, Two!StateTypes
  <2>3. (Two!FrameSound /\ Two!FinsSent /\ Two!Unregistered)'
    BY <1>0, <1>2 DEF Two!ReadReturn, Two!FrameSound, Two!FinsSent, Two!Unregistered, Two!Unused
  <2>4. Two!Backlogged'
    BY <1>0, <1>2 DEF Two!ReadReturn, Two!StateTypes, Two!FrameSound, Two!Backlogged, Two!Unused, Two!Live
  <2>5. session' = "open" /\ Two!DiesOfFins'
    BY <1>0, <1>2 DEF Two!ReadReturn, Two!StateTypes, Two!DiesOfFins
  <2>6. Two!Drained'
    BY <1>0, <1>2 DEF Two!ReadReturn, Two!StateTypes, Two!Drained, Two!DiesOfFins
  <2> QED
    BY <2>2, <2>3, <2>4, <2>5, <2>6 DEF Two!EofInv
<1>3. ASSUME NEW s \in Streams, Two!ReadDie(s) PROVE Two!EofInv'
  BY <1>3 DEF Two!ReadDie,
       Two!EofInv, Two!StateTypes, Two!FrameSound, Two!FinsSent, Two!Unregistered, Two!Backlogged, Two!DiesOfFins,
       Two!Drained, Two!Unused, Two!Live, Two!Reading, Two!Ended
<1>4. ASSUME NEW s \in Streams, Two!ReadBuffer(s) PROVE Two!EofInv'
  <2>1. Two!StateTypes'
    BY <1>0, <1>4 DEF Two!ReadBuffer, Two!StateTypes, Two!Reading, Two!Ended
  <2>2. (Two!FrameSound /\ Two!FinsSent /\ Two!Unregistered)'
    BY <1>0, <1>4 DEF Two!ReadBuffer, Two!StateTypes, Two!FrameSound, Two!FinsSent, Two!Unregistered, Two!Unused, Two!Live
  <2>3. Two!Backlogged'
    BY <1>0, <1>4 DEF Two!ReadBuffer, Two!StateTypes, Two!FrameSound, Two!Backlogged, Two!Unused, Two!Live
  <2>4. session' = "open" /\ Two!DiesOfFins'
    BY <1>0, <1>4 DEF Two!ReadBuffer, Two!StateTypes, Two!DiesOfFins
  <2>5. Two!Drained'
    BY <1>0, <1>4 DEF Two!ReadBuffer, Two!StateTypes, Two!Drained, Two!DiesOfFins
  <2> QED
    BY <2>1, <2>2, <2>3, <2>4, <2>5 DEF Two!EofInv
<1>5. ASSUME NEW s \in Streams, Two!ReadFin(s) PROVE Two!EofInv'
  <2>1. Two!StateTypes'
    BY <1>0, <1>5 DEF Two!ReadFin, Two!StateTypes, Two!Reading, Two!Ended
  <2>2. (Two!FrameSound /\ Two!FinsSent /\ Two!Unregistered)'
    BY <1>0, <1>5 DEF Two!ReadFin, Two!StateTypes, Two!FrameSound, Two!FinsSent, Two!Unregistered, Two!Unused, Two!Live
  <2>3. Two!Backlogged'
    BY <1>0, <1>5 DEF Two!ReadFin, Two!StateTypes, Two!FrameSound, Two!Backlogged, Two!Unused, Two!Live
  <2>4. session' = "open" /\ Two!DiesOfFins'
    BY <1>0, <1>5 DEF Two!ReadFin, Two!StateTypes, Two!DiesOfFins
  <2>5. Two!Drained'
    BY <1>0, <1>5 DEF Two!ReadFin, Two!StateTypes, Two!Drained, Two!DiesOfFins
  <2> QED
    BY <2>1, <2>2, <2>3, <2>4, <2>5 DEF Two!EofInv
<1>6. ASSUME NEW s \in Streams, Two!ReadRest(s) PROVE Two!EofInv'
  BY <1>6 DEF Two!ReadRest,
       Two!EofInv, Two!StateTypes, Two!FrameSound, Two!FinsSent, Two!Unregistered, Two!Backlogged, Two!DiesOfFins,
       Two!Drained, Two!Unused, Two!Live, Two!Reading, Two!Ended
<1>7. ASSUME NEW s \in Streams, Two!ReadSelect(s) PROVE Two!EofInv'
  <2>1. Two!StateTypes'
    <3>1. /\ \E v \in {"pop", "eof", "failed"} : rd' = [rd EXCEPT ![s] = v]
          /\ reader_wakeup' = reader_wakeup \/ reader_wakeup' = reader_wakeup \ {s}
      BY <1>7 DEF Two!ReadSelect
    <3> QED
      BY <1>0, <1>7, <3>1 DEF Two!ReadSelect, Two!StateTypes
  <2>2. (Two!FrameSound /\ Two!FinsSent /\ Two!Unregistered)'
    BY <1>0, <1>7 DEF Two!ReadSelect, Two!StateTypes, Two!FrameSound, Two!FinsSent, Two!Unregistered, Two!Unused, Two!Live
  <2>3. Two!Backlogged'
    BY <1>0, <1>7 DEF Two!ReadSelect, Two!StateTypes, Two!FrameSound, Two!Backlogged, Two!Unused, Two!Live
  <2>4. session' = "open" /\ Two!DiesOfFins'
    BY <1>0, <1>7 DEF Two!ReadSelect, Two!StateTypes, Two!DiesOfFins
  <2>5. Two!Drained'
    BY <1>0, <1>7 DEF Two!ReadSelect, Two!StateTypes, Two!Drained, Two!DiesOfFins
  <2> QED
    BY <2>1, <2>2, <2>3, <2>4, <2>5 DEF Two!EofInv
<1> QED
  BY <1>1, <1>2, <1>3, <1>4, <1>5, <1>6, <1>7 DEF Two!Reader

(* open_stream() and accept_stream(). *)
LEMMA EofOpenKeeps ==
    ASSUME Two!EofInv, (\E x \in Streams : Two!OpenSyn(x) \/ Two!OpenRegister(x)) \/ Two!Accept
    PROVE  Two!EofInv'
<1> USE DEF Two!recvVars, Two!mapVars, Two!tokenVars, Two!bucketVars, Two!At, Two!closed, Two!MapFree, Two!Cleanup,
      Two!Reading, Two!Ended
<1>0. /\ Two!StateTypes /\ Two!FrameSound /\ Two!FinsSent /\ Two!Unregistered /\ Two!Backlogged
      /\ session = "open" /\ Two!DiesOfFins /\ Two!Drained
  BY DEF Two!EofInv
<1>1. ASSUME NEW s \in Streams, Two!OpenSyn(s) PROVE Two!EofInv'
  BY <1>1 DEF Two!OpenSyn,
       Two!EofInv, Two!StateTypes, Two!FrameSound, Two!FinsSent, Two!Unregistered, Two!Backlogged, Two!DiesOfFins,
       Two!Drained, Two!Unused, Two!Live, Two!Reading, Two!Ended
<1>2. ASSUME NEW s \in Streams, Two!OpenRegister(s) PROVE Two!EofInv'
  <2>1. Two!StateTypes'
    <3>1. \/ UNCHANGED <<streams, handle, rd>>
          \/ /\ streams' = streams \cup {s} /\ handle' = [handle EXCEPT ![s] = "held"] /\ rd' = [rd EXCEPT ![s] = "pop"]
      BY <1>2 DEF Two!OpenRegister
    <3> QED
      BY <1>0, <1>2, <3>1 DEF Two!OpenRegister, Two!StateTypes
  <2>2. (Two!FrameSound /\ Two!FinsSent /\ Two!Unregistered)'
    BY <1>0, <1>2 DEF Two!OpenRegister, Two!StateTypes, Two!FrameSound, Two!FinsSent, Two!Unregistered, Two!Unused, Two!Live
  <2>3. Two!Backlogged'
    <3>1. /\ opener[s] = "syn" /\ opener' = [opener EXCEPT ![s] = "done"] /\ UNCHANGED <<peer, accepts, recv>>
          /\ \/ UNCHANGED <<handle, rd>>
             \/ handle' = [handle EXCEPT ![s] = "held"] /\ rd' = [rd EXCEPT ![s] = "pop"]
      BY <1>2 DEF Two!OpenRegister
    <3>2. \A i \in DOMAIN accepts : accepts[i] \in Streams /\ accepts[i] # s
      BY <1>0, <3>1 DEF Two!StateTypes, Two!Backlogged
    <3>3. recv.pc \in {"syn", "accept"} => recv.sid \in Streams /\ recv.sid # s
      BY <1>0, <3>1 DEF Two!FrameSound
    <3>4. \A x \in Streams : Two!Unused(x)' \/ opener'[x] = "syn" => handle'[x] = "none"
      BY <1>0, <3>1 DEF Two!StateTypes, Two!Backlogged, Two!Unused
    <3>5. \A x \in Streams : handle'[x] = "none" => rd'[x] = "away"
      BY <1>0, <3>1 DEF Two!StateTypes, Two!Backlogged
    <3>6. \A i \in DOMAIN accepts' : /\ handle'[accepts'[i]] = "none" /\ opener'[accepts'[i]] = "idle"
                                     /\ peer'[accepts'[i]] # "none"
      BY <1>0, <3>1, <3>2 DEF Two!StateTypes, Two!Backlogged
    <3>7. recv'.pc \in {"syn", "accept"} => handle'[recv'.sid] = "none" /\ \A i \in DOMAIN accepts' : accepts'[i] # recv'.sid
      BY <1>0, <3>1, <3>3 DEF Two!StateTypes, Two!Backlogged
    <3>8. \A i, j \in DOMAIN accepts' : i # j => accepts'[i] # accepts'[j]
      BY <1>0, <3>1 DEF Two!Backlogged
    <3> QED
      BY <3>4, <3>5, <3>6, <3>7, <3>8 DEF Two!Backlogged
  <2>4. session' = "open" /\ Two!DiesOfFins'
    <3>1. /\ handle[s] = "none" /\ UNCHANGED <<session, die, fin_event>>
          /\ handle' = handle \/ handle' = [handle EXCEPT ![s] = "held"]
      BY <1>0, <1>2 DEF Two!OpenRegister, Two!Backlogged
    <3> QED
      BY <1>0, <3>1 DEF Two!StateTypes, Two!DiesOfFins
  <2>5. Two!Drained'
    <3>1. /\ UNCHANGED <<buf, fin_event>>
          /\ \/ UNCHANGED <<handle, rd>>
             \/ handle' = [handle EXCEPT ![s] = "held"] /\ rd' = [rd EXCEPT ![s] = "pop"]
      BY <1>2 DEF Two!OpenRegister
    <3> QED
      BY <1>0, <3>1 DEF Two!StateTypes, Two!Drained
  <2> QED
    BY <2>1, <2>2, <2>3, <2>4, <2>5 DEF Two!EofInv
<1>3. ASSUME Two!Accept PROVE Two!EofInv'
  <2>1. Two!StateTypes'
    <3>1. accepts \in Seq(Streams) /\ accepts # <<>> /\ Len(accepts) <= ACCEPT_BACKLOG
      BY <1>0, <1>3 DEF Two!StateTypes, Two!Accept
    <3>2. Tail(accepts) \in Seq(Streams) /\ Head(accepts) \in Streams /\ Len(Tail(accepts)) <= ACCEPT_BACKLOG
      BY <3>1, SmuxAssumption
    <3> QED
      BY <1>0, <1>3, <3>2 DEF Two!Accept, Two!StateTypes
  <2>2. (Two!FrameSound /\ Two!FinsSent /\ Two!Unregistered)'
    BY <1>0, <1>3 DEF Two!Accept, Two!StateTypes, Two!FrameSound, Two!FinsSent, Two!Unregistered, Two!Unused, Two!Live
  <2>3. Two!Backlogged'
    <3> DEFINE h == Head(accepts)
    <3>1. /\ h \in Streams /\ h = accepts[1] /\ 1 \in DOMAIN accepts
          /\ \A i \in DOMAIN accepts' : i + 1 \in DOMAIN accepts /\ accepts'[i] = accepts[i + 1] /\ accepts[i + 1] \in Streams
          /\ \A i \in DOMAIN accepts' : i \in Nat /\ i > 0
      BY <1>0, <1>3, SMTT(60) DEF Two!Accept, Two!StateTypes
    <3>2. \A i, j \in DOMAIN accepts : i # j => accepts[i] # accepts[j]
      BY <1>0 DEF Two!Backlogged
    <3>3. ASSUME NEW i \in DOMAIN accepts' PROVE accepts'[i] # h
      <4>1. i + 1 # 1
        BY <3>1
      <4> QED
        BY <3>1, <3>2, <4>1
    <3>4. ASSUME NEW i \in DOMAIN accepts', NEW j \in DOMAIN accepts', i # j PROVE accepts'[i] # accepts'[j]
      <4>1. i + 1 # j + 1
        BY <3>1, <3>4
      <4> QED
        BY <3>1, <3>2, <4>1
    <3>5. /\ handle' = [handle EXCEPT ![h] = "held"] /\ rd' = [rd EXCEPT ![h] = "pop"]
          /\ UNCHANGED <<opener, peer, recv>> /\ opener[h] = "idle" /\ peer[h] # "none"
      BY <1>0, <1>3, <3>1 DEF Two!Accept, Two!Backlogged
    <3>6. recv.pc \in {"syn", "accept"} => recv.sid \in Streams /\ recv.sid # h
      BY <1>0, <3>1 DEF Two!FrameSound, Two!Backlogged
    <3> HIDE DEF h
    <3>7. \A x \in Streams : Two!Unused(x)' \/ opener'[x] = "syn" => handle'[x] = "none"
      BY <1>0, <3>1, <3>5 DEF Two!StateTypes, Two!Backlogged, Two!Unused
    <3>8. \A x \in Streams : handle'[x] = "none" => rd'[x] = "away"
      BY <1>0, <3>1, <3>5 DEF Two!StateTypes, Two!Backlogged
    <3>9. \A i \in DOMAIN accepts' : /\ handle'[accepts'[i]] = "none" /\ opener'[accepts'[i]] = "idle"
                                     /\ peer'[accepts'[i]] # "none"
      BY <1>0, <3>1, <3>3, <3>5 DEF Two!StateTypes, Two!Backlogged
    <3>10. recv'.pc \in {"syn", "accept"} => handle'[recv'.sid] = "none" /\ \A i \in DOMAIN accepts' : accepts'[i] # recv'.sid
      BY <1>0, <3>1, <3>5, <3>6 DEF Two!StateTypes, Two!Backlogged
    <3> QED
      BY <3>4, <3>7, <3>8, <3>9, <3>10 DEF Two!Backlogged
  <2>4. session' = "open" /\ Two!DiesOfFins'
    <3>1. /\ Head(accepts) \in Streams /\ handle[Head(accepts)] = "none"
          /\ handle' = [handle EXCEPT ![Head(accepts)] = "held"] /\ UNCHANGED <<session, die, fin_event>>
      BY <1>0, <1>3 DEF Two!Accept, Two!StateTypes, Two!Backlogged
    <3> QED
      BY <1>0, <3>1 DEF Two!StateTypes, Two!DiesOfFins
  <2>5. Two!Drained'
    BY <1>0, <1>3 DEF Two!Accept, Two!StateTypes, Two!Drained, Two!DiesOfFins
  <2> QED
    BY <2>1, <2>2, <2>3, <2>4, <2>5 DEF Two!EofInv
<1> QED
  BY <1>1, <1>2, <1>3

(* Whoever closes a stream. *)
LEMMA EofCloserKeeps ==
    ASSUME Two!EofInv, NEW x \in Streams, Two!Closer(x)
    PROVE  Two!EofInv'
<1> USE DEF Two!recvVars, Two!mapVars, Two!tokenVars, Two!bucketVars, Two!At, Two!closed, Two!MapFree, Two!Cleanup,
      Two!Reading, Two!Ended
<1>0. /\ Two!StateTypes /\ Two!FrameSound /\ Two!FinsSent /\ Two!Unregistered /\ Two!Backlogged
      /\ session = "open" /\ Two!DiesOfFins /\ Two!Drained
  BY DEF Two!EofInv
<1>1. ASSUME NEW s \in Streams, Two!CloseWrite(s) PROVE Two!EofInv'
  BY <1>1 DEF Two!CloseWrite,
       Two!EofInv, Two!StateTypes, Two!FrameSound, Two!FinsSent, Two!Unregistered, Two!Backlogged, Two!DiesOfFins,
       Two!Drained, Two!Unused, Two!Live, Two!Reading, Two!Ended
<1>2. ASSUME NEW s \in Streams, Two!CloseWriteEnd(s) PROVE Two!EofInv'
  BY <1>2 DEF Two!CloseWriteEnd,
       Two!EofInv, Two!StateTypes, Two!FrameSound, Two!FinsSent, Two!Unregistered, Two!Backlogged, Two!DiesOfFins,
       Two!Drained, Two!Unused, Two!Live, Two!Reading, Two!Ended
<1>3. ASSUME NEW s \in Streams, NEW drops \in BOOLEAN, Two!Close(s, drops) PROVE Two!EofInv'
  BY <1>3, SMTT(60) DEF Two!Close,
       Two!EofInv, Two!StateTypes, Two!FrameSound, Two!FinsSent, Two!Unregistered, Two!Backlogged, Two!DiesOfFins,
       Two!Drained, Two!Unused, Two!Live, Two!Reading, Two!Ended
<1>4. ASSUME NEW s \in Streams, Two!CloseRecycle(s) PROVE Two!EofInv'
  BY <1>4 DEF Two!CloseRecycle,
       Two!EofInv, Two!StateTypes, Two!FrameSound, Two!FinsSent, Two!Unregistered, Two!Backlogged, Two!DiesOfFins,
       Two!Drained, Two!Unused, Two!Live, Two!Reading, Two!Ended
<1>5. ASSUME NEW s \in Streams, NEW then \in {"notify", "next"}, Two!CloseReturn(s, then) PROVE Two!EofInv'
  <2>1. cl' = [cl EXCEPT ![s] = "notify"] \/ cl' = [cl EXCEPT ![s] = "remove"]
    BY <1>5 DEF Two!CloseReturn
  <2>2. Two!StateTypes'
    BY <1>0, <1>5, <2>1 DEF Two!CloseReturn, Two!StateTypes
  <2>3. (Two!FrameSound /\ Two!FinsSent /\ Two!Unregistered)'
    BY <1>0, <1>5 DEF Two!CloseReturn, Two!FrameSound, Two!FinsSent, Two!Unregistered, Two!Unused
  <2>4. Two!Backlogged'
    BY <1>0, <1>5 DEF Two!CloseReturn, Two!StateTypes, Two!FrameSound, Two!Backlogged, Two!Unused, Two!Live
  <2>5. session' = "open" /\ Two!DiesOfFins'
    BY <1>0, <1>5 DEF Two!CloseReturn, Two!StateTypes, Two!DiesOfFins
  <2>6. Two!Drained'
    BY <1>0, <1>5 DEF Two!CloseReturn, Two!StateTypes, Two!Drained, Two!DiesOfFins
  <2> QED
    BY <2>2, <2>3, <2>4, <2>5, <2>6 DEF Two!EofInv
<1>6. ASSUME NEW s \in Streams, Two!CloseRemove(s) PROVE Two!EofInv'
  BY <1>6 DEF Two!CloseRemove,
       Two!EofInv, Two!StateTypes, Two!FrameSound, Two!FinsSent, Two!Unregistered, Two!Backlogged, Two!DiesOfFins,
       Two!Drained, Two!Unused, Two!Live, Two!Reading, Two!Ended
<1>7. ASSUME NEW s \in Streams, Two!Free(s) PROVE Two!EofInv'
  BY <1>7 DEF Two!Free, Two!Unreferenced,
       Two!EofInv, Two!StateTypes, Two!FrameSound, Two!FinsSent, Two!Unregistered, Two!Backlogged, Two!DiesOfFins,
       Two!Drained, Two!Unused, Two!Live, Two!Reading, Two!Ended
<1> QED
  BY <1>1, <1>2, <1>3, <1>4, <1>5, <1>6, <1>7 DEF Two!Closer

(* close() of the session, and keepalive. *)
LEMMA EofSessionKeeps ==
    ASSUME Two!EofInv, Two!SessionClose \/ Two!SessionRelease \/ Two!KeepalivePing \/ Two!KeepaliveExpiry
    PROVE  Two!EofInv'
<1> USE DEF Two!recvVars, Two!mapVars, Two!tokenVars, Two!bucketVars, Two!At, Two!closed, Two!MapFree, Two!Cleanup,
      Two!Reading, Two!Ended
<1>0. /\ Two!StateTypes /\ Two!FrameSound /\ Two!FinsSent /\ Two!Unregistered /\ Two!Backlogged
      /\ session = "open" /\ Two!DiesOfFins /\ Two!Drained
  BY DEF Two!EofInv
<1>1. ASSUME Two!SessionClose PROVE Two!EofInv'
  BY <1>1 DEF Two!SessionClose,
       Two!EofInv, Two!StateTypes, Two!FrameSound, Two!FinsSent, Two!Unregistered, Two!Backlogged, Two!DiesOfFins,
       Two!Drained, Two!Unused, Two!Live, Two!Reading, Two!Ended
<1>2. ASSUME Two!SessionRelease PROVE Two!EofInv'
  BY <1>2 DEF Two!SessionRelease,
       Two!EofInv, Two!StateTypes, Two!FrameSound, Two!FinsSent, Two!Unregistered, Two!Backlogged, Two!DiesOfFins,
       Two!Drained, Two!Unused, Two!Live, Two!Reading, Two!Ended
<1>3. ASSUME Two!KeepalivePing PROVE Two!EofInv'
  <2>1. Two!StateTypes'
    BY <1>0, <1>3 DEF Two!KeepalivePing, Two!StateTypes, Two!Reading, Two!Ended
  <2>2. (Two!FrameSound /\ Two!FinsSent /\ Two!Unregistered)'
    BY <1>0, <1>3 DEF Two!KeepalivePing, Two!StateTypes, Two!FrameSound, Two!FinsSent, Two!Unregistered, Two!Unused, Two!Live
  <2>3. Two!Backlogged'
    BY <1>0, <1>3 DEF Two!KeepalivePing, Two!StateTypes, Two!FrameSound, Two!Backlogged, Two!Unused, Two!Live
  <2>4. session' = "open" /\ Two!DiesOfFins'
    BY <1>0, <1>3 DEF Two!KeepalivePing, Two!StateTypes, Two!DiesOfFins
  <2>5. Two!Drained'
    BY <1>0, <1>3 DEF Two!KeepalivePing, Two!StateTypes, Two!Drained, Two!DiesOfFins
  <2> QED
    BY <2>1, <2>2, <2>3, <2>4, <2>5 DEF Two!EofInv
<1>4. ASSUME Two!KeepaliveExpiry PROVE Two!EofInv'
  <2>1. Two!StateTypes'
    BY <1>0, <1>4 DEF Two!KeepaliveExpiry, Two!StateTypes, Two!Reading, Two!Ended
  <2>2. (Two!FrameSound /\ Two!FinsSent /\ Two!Unregistered)'
    BY <1>0, <1>4 DEF Two!KeepaliveExpiry, Two!StateTypes, Two!FrameSound, Two!FinsSent, Two!Unregistered, Two!Unused, Two!Live
  <2>3. Two!Backlogged'
    BY <1>0, <1>4 DEF Two!KeepaliveExpiry, Two!StateTypes, Two!FrameSound, Two!Backlogged, Two!Unused, Two!Live
  <2>4. session' = "open" /\ Two!DiesOfFins'
    BY <1>0, <1>4 DEF Two!KeepaliveExpiry, Two!StateTypes, Two!DiesOfFins
  <2>5. Two!Drained'
    BY <1>0, <1>4 DEF Two!KeepaliveExpiry, Two!StateTypes, Two!Drained, Two!DiesOfFins
  <2> QED
    BY <2>1, <2>2, <2>3, <2>4, <2>5 DEF Two!EofInv
<1> QED
  BY <1>1, <1>2, <1>3, <1>4

(* A session starts in EofInv, *)
LEMMA EofInit == Two!Init => Two!EofInv
<1> SUFFICES ASSUME Two!Init PROVE Two!EofInv
  OBVIOUS
<1>1. Two!StateTypes
  <2>1. accepts \in Seq(Streams) /\ Len(accepts) <= ACCEPT_BACKLOG
    BY SmuxAssumption DEF Two!Init
  <2>2. buf \in [Streams -> Seq(Sizes)]
    BY DEF Two!Init
  <2>3. recv = Two!At("check") /\ frames \in [Streams -> 0..Frames]
    BY SmuxAssumption DEF Two!Init
  <2>4. recv \in [pc: {"check", "read", "syn", "accept", "push", "deduct", "fin", "clean", "exited"},
                 sid: Streams \cup {0}, len: Sizes \cup {0}]
    BY <2>3 DEF Two!At
  <2>5. /\ rd \in [Streams -> Two!Reading \cup Two!Ended] /\ peer \in [Streams -> {"none", "syn", "fin"}]
        /\ opener \in [Streams -> {"idle", "syn", "done"}] /\ handle \in [Streams -> {"none", "held", "closed", "dropped", "freed"}]
        /\ cl \in [Streams -> {"idle", "half", "recycle", "return", "notify", "remove"}]
    BY DEF Two!Init, Two!Reading
  <2>6. /\ {read_error, session_is_active} \subseteq BOOLEAN /\ streams \subseteq Streams /\ session = "open"
        /\ UNION {reader_wakeup, fin_event, write_closed, die} \subseteq Streams
    BY DEF Two!Init
  <2> QED
    BY <2>1, <2>2, <2>3, <2>4, <2>5, <2>6 DEF Two!StateTypes
<1>2. Two!FrameSound /\ Two!FinsSent /\ Two!Unregistered /\ Two!Backlogged
  BY DEF Two!Init, Two!FrameSound, Two!FinsSent, Two!Unregistered, Two!Backlogged, Two!At
<1>3. session = "open" /\ Two!DiesOfFins /\ Two!Drained
  BY DEF Two!Init, Two!DiesOfFins, Two!Drained
<1> QED
  BY <1>1, <1>2, <1>3 DEF Two!EofInv

(* and keeps it. *)
LEMMA EofNext == ASSUME Two!EofInv, Two!Next PROVE Two!EofInv'
BY EofRecvKeeps, EofReaderKeeps, EofOpenKeeps, EofCloserKeeps, EofSessionKeeps DEF Two!Next

-----------------------------------------------------------------------------
(* SmuxSend: AwakeInv is inductive.                                        *)

(* The finite sets of SmuxSend are finite sets. *)
LEMMA Counted ==
    ASSUME NEW S
    PROVE  (Out!IsFiniteSet(S) <=> IsFiniteSet(S)) /\ Out!Cardinality(S) = Cardinality(S)
BY DEF Out!IsFiniteSet, IsFiniteSet, Out!Cardinality, Cardinality

(* It holds at the start. *)
LEMMA AwakeInit == Out!Init => Out!AwakeInv
<1> SUFFICES ASSUME Out!Init PROVE Out!AwakeInv
  OBVIOUS
<1>1. shaper = [s \in Sids |-> {}] /\ UNION {shaper[s] : s \in Sids} = {}
  BY DEF Out!Init
<1>2. IsFiniteSet(UNION {shaper[s] : s \in Sids})
  BY <1>1, FS_EmptySet
<1>3. shaper_pending \in Out!NotifyType({"send"}) /\ shaper_pending.at["send"] = "away" /\ send.pc = "check"
  BY DEF Out!Init, Out!Fresh, Out!NotifyType
<1> QED
  BY <1>1, <1>2, <1>3, Counted DEF Out!AwakeInv

(* A step that changes neither the shaper nor the send task. *)
LEMMA AwakeStays ==
    ASSUME Out!AwakeInv, UNCHANGED <<shaper, send, shaper_pending>>
    PROVE  Out!AwakeInv'
BY DEF Out!AwakeInv, Out!count

(* A step of the send task that leaves the Notify and puts nothing in. *)
LEMMA AwakeAway ==
    ASSUME Out!AwakeInv, shaper_pending' \in Out!NotifyType({"send"}), shaper_pending'.at["send"] # "parked",
           send'.pc \in {"pop", "write"} => shaper_pending'.at["send"] = "away",
           shaper' = [s \in Sids |-> shaper'[s]], \A s \in Sids : shaper'[s] \subseteq shaper[s]
    PROVE  Out!AwakeInv'
<1>1. UNION {shaper'[s] : s \in Sids} \subseteq UNION {shaper[s] : s \in Sids}
  OBVIOUS
<1>2. IsFiniteSet(UNION {shaper'[s] : s \in Sids})
  BY <1>1, FS_Subset, Counted DEF Out!AwakeInv
<1> QED
  BY <1>2, Counted DEF Out!AwakeInv

(* A request is put in, and the send task is told. *)
LEMMA AwakePush ==
    ASSUME Out!AwakeInv, NEW t \in Out!Tasks, Out!Push(t)
    PROVE  Out!AwakeInv'
<1> DEFINE req == task[t].req
           all == UNION {shaper[s] : s \in Sids}
<1>1. /\ shaper' = [shaper EXCEPT ![t.sid] = @ \cup {req}] /\ send' = send
      /\ shaper_pending' \in Out!NotifyOne(shaper_pending)
  BY DEF Out!Push
<1>2. shaper = [s \in Sids |-> shaper[s]] /\ IsFiniteSet(all) /\ shaper_pending \in Out!NotifyType({"send"})
  BY Counted DEF Out!AwakeInv
<1>3. shaper' = [s \in Sids |-> shaper'[s]] /\ \A s \in Sids : shaper'[s] \subseteq shaper[s] \cup {req}
  BY <1>1, <1>2
<1>4. IsFiniteSet(UNION {shaper'[s] : s \in Sids})
  <2>1. UNION {shaper'[s] : s \in Sids} \subseteq all \cup {req}
    BY <1>3
  <2>2. IsFiniteSet(all \cup {req})
    BY <1>2, FS_AddElement
  <2> QED
    BY <2>1, <2>2, FS_Subset
<1>5. /\ shaper_pending' \in Out!NotifyType({"send"}) /\ shaper_pending'.at["send"] # "parked"
      /\ shaper_pending'.at["send"] = "away" <=> shaper_pending.at["send"] = "away"
  BY <1>1, <1>2, SendNotified
<1> QED
  BY <1>1, <1>3, <1>4, <1>5, Counted DEF Out!AwakeInv

(* The send task. *)
LEMMA AwakeSends ==
    ASSUME Out!AwakeInv, Out!Sender \/ Out!WriteFails
    PROVE  Out!AwakeInv'
<1> DEFINE T == Out!NotifyType({"send"})
<1>1. /\ shaper_pending \in T /\ shaper = [s \in Sids |-> shaper[s]]
      /\ send.pc \in {"pop", "write"} => shaper_pending.at["send"] = "away"
      /\ IsFiniteSet(UNION {shaper[s] : s \in Sids})
  BY Counted DEF Out!AwakeInv
<1>2. /\ Out!Enable(shaper_pending, "send") \in T /\ Out!Enable(shaper_pending, "send").at["send"] \in {"look", "sure"}
      /\ \A m \in Out!Drop(shaper_pending, "send") : m \in T /\ m.at["send"] = "away"
      /\ Out!Looking(shaper_pending, "send") => Out!Await(shaper_pending, "send") \in T
  BY <1>1, SendNotified
<1>3. CASE Out!SendCheck
  <2>1. shaper_pending' = Out!Enable(shaper_pending, "send") /\ shaper' = shaper /\ send' = send /\ send.pc = "check"
    BY <1>3 DEF Out!SendCheck, Out!shaperVars
  <2> QED
    BY <1>1, <1>2, <2>1, AwakeAway
<1>4. CASE Out!SendWait
  <2>1. /\ shaper' = shaper /\ send.pc = "check"
        /\ \/ shaper_pending' \in Out!Drop(shaper_pending, "send")
           \/ /\ ~(Out!count > 0) /\ Out!Looking(shaper_pending, "send")
              /\ shaper_pending' = Out!Await(shaper_pending, "send") /\ send' = send
    BY <1>4 DEF Out!SendWait, Out!shaperVars
  <2>2. CASE shaper_pending' \in Out!Drop(shaper_pending, "send")
    BY <1>1, <1>2, <2>1, <2>2, AwakeAway
  <2>3. CASE ~(Out!count > 0) /\ shaper_pending' \in T /\ send' = send
    <3>1. Out!count \in Nat
      BY <1>1, FS_CardinalityType, Counted DEF Out!count
    <3>2. Out!count = 0
      BY <2>3, <3>1
    <3> QED
      BY <1>1, <2>1, <2>3, <3>2 DEF Out!AwakeInv, Out!count
  <2> QED
    BY <1>2, <2>1, <2>2, <2>3
<1>5. CASE Out!Pop
  <2>1. /\ send.pc = "pop" /\ send'.pc = "write" /\ shaper_pending' = shaper_pending
        /\ \E req : shaper' = [shaper EXCEPT ![next] = @ \ {req}]
    BY <1>5 DEF Out!Pop
  <2>2. shaper' = [s \in Sids |-> shaper'[s]] /\ \A s \in Sids : shaper'[s] \subseteq shaper[s]
    BY <1>1, <2>1
  <2> QED
    BY <1>1, <2>1, <2>2, AwakeAway
<1>6. CASE Out!Emptied \/ Out!Written \/ Out!WriteFails
  <2>1. send.pc \in {"pop", "write"} /\ UNCHANGED <<shaper, shaper_pending>>
    BY <1>6 DEF Out!Emptied, Out!Written, Out!WriteFails, Out!shaperVars
  <2> QED
    BY <1>1, <2>1, AwakeAway
<1>7. CASE Out!SendDies
  <2>1. send'.pc = "end" /\ UNCHANGED <<shaper, shaper_pending>>
    BY <1>7 DEF Out!SendDies, Out!shaperVars
  <2> QED
    BY <2>1 DEF Out!AwakeInv
<1> QED
  BY <1>3, <1>4, <1>5, <1>6, <1>7 DEF Out!Sender

(* Every step of the sending side. *)
LEMMA AwakeNext == ASSUME Out!AwakeInv, Out!Next PROVE Out!AwakeInv'
<1>1. ASSUME NEW t \in Out!Tasks, Out!Admit(t) \/ Out!Result(t) \/ Out!Abort(t) \/ Out!GiveUp(t) PROVE Out!AwakeInv'
  <2>1. UNCHANGED <<shaper, send, shaper_pending>>
    BY <1>1 DEF Out!Admit, Out!Result, Out!Abort, Out!GiveUp, Out!shaperVars
  <2> QED
    BY <2>1, AwakeStays
<1>2. ASSUME NEW t \in Out!Tasks, NEW cmd, Out!Begin(t, cmd) PROVE Out!AwakeInv'
  <2>1. UNCHANGED <<shaper, send, shaper_pending>>
    BY <1>2 DEF Out!Begin, Out!shaperVars
  <2> QED
    BY <2>1, AwakeStays
<1>3. CASE Out!CloseSession
  <2>1. UNCHANGED <<shaper, send, shaper_pending>>
    BY <1>3 DEF Out!CloseSession, Out!shaperVars
  <2> QED
    BY <2>1, AwakeStays
<1> QED
  BY <1>1, <1>2, <1>3, AwakePush, AwakeSends DEF Out!Next, Out!Writer

-----------------------------------------------------------------------------
(* SmuxSend: ShaperInv is inductive.                                       *)

(* Differences of request numbers, and of the one that comes next. *)
LEMMA NumberDiff ==
    ASSUME NEW m \in Nat, m > 0, NEW x \in 0..m, NEW y \in 0..(m - 1)
    PROVE  (x - y) % m = IF x < y THEN x - y + m ELSE IF x - y = m THEN 0 ELSE x - y
OBVIOUS

(* The number given next, with its wrap. *)
LEMMA NumberNext ==
    ASSUME NEW h \in Nat, h > 0, NEW x \in 0..(2 * h - 1)
    PROVE  /\ (x + 1) % (2 * h) = IF x + 1 = 2 * h THEN 0 ELSE x + 1
           /\ (x + 1) % (2 * h) \in 0..(2 * h - 1)
OBVIOUS

(* A number that is given after y, while y is not old. *)
LEMMA NumberFresh ==
    ASSUME NEW h \in Nat, h > 0, NEW x \in 0..(2 * h - 1), NEW y \in 0..(2 * h - 1),
           (x - y) % (2 * h) < h, (x + 1 - y) % (2 * h) < h
    PROVE  LET n == (x + 1) % (2 * h)
           IN  n # y /\ (n - y) % (2 * h) < h /\ (n - y) % (2 * h) \in 1..(h - 1)
<1> DEFINE m == 2 * h
           n == (x + 1) % m
<1>1. m \in Nat /\ m > 0 /\ m = 2 * h /\ x \in 0..m /\ x + 1 \in 0..m /\ y \in 0..(m - 1)
  OBVIOUS
<1>2. n = (IF x + 1 = m THEN 0 ELSE x + 1) /\ n \in 0..(m - 1)
  BY NumberNext
<1> HIDE DEF m, n
<1>3. (x - y) % m = IF x < y THEN x - y + m ELSE IF x - y = m THEN 0 ELSE x - y
  BY <1>1, NumberDiff
<1>4. (x + 1 - y) % m = IF x + 1 < y THEN x + 1 - y + m ELSE IF x + 1 - y = m THEN 0 ELSE x + 1 - y
  <2> DEFINE z == x + 1
  <2>1. z \in 0..m
    BY <1>1
  <2> HIDE DEF z
  <2>2. (z - y) % m = IF z < y THEN z - y + m ELSE IF z - y = m THEN 0 ELSE z - y
    BY <1>1, <2>1, NumberDiff
  <2> QED
    BY <2>2 DEF z
<1>5. (n - y) % m = IF n < y THEN n - y + m ELSE IF n - y = m THEN 0 ELSE n - y
  BY <1>1, <1>2, NumberDiff
<1>6. (x - y) % m < h /\ (x + 1 - y) % m < h
  BY DEF m
<1> QED
  BY <1>1, <1>2, <1>3, <1>4, <1>5, <1>6 DEF m, n

(* Of two numbers that are not old, the older comes first. *)
LEMMA NumberOrder ==
    ASSUME NEW h \in Nat, h > 0, NEW x \in 0..(2 * h - 1), NEW a \in 0..(2 * h - 1), NEW b \in 0..(2 * h - 1),
           (x - a) % (2 * h) < h, (x - b) % (2 * h) < h
    PROVE  /\ (x - a) % (2 * h) \in 0..(h - 1) /\ (x - b) % (2 * h) \in 0..(h - 1)
           /\ (b - a) % (2 * h) \in 1..(h - 1) <=> (x - a) % (2 * h) > (x - b) % (2 * h)
           /\ (x - a) % (2 * h) = (x - b) % (2 * h) <=> a = b
<1> DEFINE m == 2 * h
<1>1. m \in Nat /\ m > 0 /\ m = 2 * h /\ x \in 0..m /\ a \in 0..(m - 1) /\ b \in 0..(m - 1) /\ b \in 0..m
  OBVIOUS
<1>2. (x - a) % m < h /\ (x - b) % m < h
  OBVIOUS
<1> HIDE DEF m
<1>3. (x - a) % m = IF x < a THEN x - a + m ELSE IF x - a = m THEN 0 ELSE x - a
  BY <1>1, NumberDiff
<1>4. (x - b) % m = IF x < b THEN x - b + m ELSE IF x - b = m THEN 0 ELSE x - b
  BY <1>1, NumberDiff
<1>5. (b - a) % m = IF b < a THEN b - a + m ELSE IF b - a = m THEN 0 ELSE b - a
  BY <1>1, NumberDiff
<1>6. /\ (x - a) % m \in 0..(h - 1) /\ (x - b) % m \in 0..(h - 1)
      /\ (b - a) % m \in 1..(h - 1) <=> (x - a) % m > (x - b) % m
      /\ (x - a) % m = (x - b) % m <=> a = b
  BY <1>1, <1>2, <1>3, <1>4, <1>5
<1> QED
  BY <1>6 DEF m

(* No number comes before another and after it. *)
LEMMA NumberAsym ==
    ASSUME NEW h \in Nat, h > 0, NEW a \in 0..(2 * h - 1), NEW b \in 0..(2 * h - 1),
           (b - a) % (2 * h) \in 1..(h - 1)
    PROVE  (a - b) % (2 * h) \notin 1..(h - 1)
<1> DEFINE m == 2 * h
<1>1. m \in Nat /\ m > 0 /\ m = 2 * h /\ a \in 0..m /\ a \in 0..(m - 1) /\ b \in 0..(m - 1) /\ b \in 0..m
  OBVIOUS
<1>2. (b - a) % m \in 1..(h - 1)
  OBVIOUS
<1> HIDE DEF m
<1>3. (a - b) % m = IF a < b THEN a - b + m ELSE IF a - b = m THEN 0 ELSE a - b
  BY <1>1, NumberDiff
<1>4. (b - a) % m = IF b < a THEN b - a + m ELSE IF b - a = m THEN 0 ELSE b - a
  BY <1>1, NumberDiff
<1>5. (a - b) % m \notin 1..(h - 1)
  BY <1>1, <1>2, <1>3, <1>4
<1> QED
  BY <1>5 DEF m

-----------------------------------------------------------------------------
(* A sequence without one of its elements, which differ. *)
LEMMA RemovedFirst ==
    ASSUME NEW T, NEW s \in Seq(T), NEW e, \A i, j \in DOMAIN s : i # j => s[i] # s[j]
    PROVE  LET r == Out!RemoveFirst(s, e)
           IN  /\ r \in Seq(T)
               /\ \A i, j \in DOMAIN r : i # j => r[i] # r[j]
               /\ Out!ToSet(r) = Out!ToSet(s) \ {e}
<1> DEFINE r == Out!RemoveFirst(s, e)
           I == {i \in 1..Len(s) : s[i] = e}
           n == Len(s)
<1>1. n \in Nat /\ DOMAIN s = 1..n
  OBVIOUS
<1>2. CASE I = {}
  <2>1. r = s
    BY <1>2 DEF Out!RemoveFirst
  <2>2. e \notin Out!ToSet(s)
    BY <1>1, <1>2 DEF Out!ToSet
  <2> QED
    BY <2>1, <2>2
<1>3. CASE I # {}
  <2> DEFINE k == Out!Min(I)
             a == SubSeq(s, 1, k - 1)
             b == SubSeq(s, k + 1, n)
  <2>1. k \in I
    <3>1. \E x \in I : \A y \in I : x <= y
      BY <1>3, LeastNatural
    <3> QED
      BY <3>1 DEF Out!Min
  <2>2. k \in 1..n /\ s[k] = e
    BY <2>1
  <2>3. r = a \o b
    <3>1. r = Out!RemoveAt(s, Out!SelectInSeq(s, LAMBDA v : v = e))
      BY <2>2 DEF Out!RemoveFirst
    <3>2. Out!SelectInSeq(s, LAMBDA v : v = e) = k
      BY <1>3 DEF Out!SelectInSeq
    <3> QED
      BY <3>1, <3>2 DEF Out!RemoveAt
  <2> HIDE DEF k, r
  <2>4. a \in Seq(T) /\ Len(a) = k - 1 /\ \A i \in 1..(k - 1) : a[i] = s[i]
    BY <1>1, <2>2
  <2>5. b \in Seq(T) /\ Len(b) = n - k /\ \A i \in 1..(n - k) : b[i] = s[k + i]
    <3>1. k \in 0..Len(s)
      BY <1>1, <2>2
    <3> QED
      BY <3>1, Suffix
  <2> HIDE DEF a, b
  <2>6. /\ a \o b \in Seq(T) /\ Len(a \o b) = Len(a) + Len(b)
        /\ \A i \in 1..(Len(a) + Len(b)) : (a \o b)[i] = IF i <= Len(a) THEN a[i] ELSE b[i - Len(a)]
    <3>1. a \in Seq(T) /\ b \in Seq(T)
      BY <2>4, <2>5
    <3> QED
      BY <3>1, ConcatElements
  <2>7. r \in Seq(T) /\ Len(r) = n - 1 /\ DOMAIN r = 1..(n - 1)
    <3>1. Len(a) + Len(b) = n - 1
      BY <1>1, <2>2, <2>4, <2>5
    <3>2. r \in Seq(T) /\ Len(r) = n - 1
      BY <2>3, <2>6, <3>1
    <3> QED
      BY <3>2
  <2>8. ASSUME NEW i \in 1..(n - 1) PROVE r[i] = s[IF i < k THEN i ELSE i + 1]
    <3>1. r[i] = IF i <= k - 1 THEN a[i] ELSE b[i - (k - 1)]
      <4>1. Len(a) = k - 1 /\ i \in 1..(Len(a) + Len(b))
        BY <1>1, <2>2, <2>4, <2>5
      <4> QED
        BY <2>3, <2>6, <4>1
    <3>2. CASE i < k
      <4>1. i \in 1..(k - 1)
        BY <2>2, <3>2
      <4> QED
        BY <2>2, <2>4, <3>1, <3>2, <4>1
    <3>3. CASE ~(i < k)
      <4>1. i - (k - 1) \in 1..(n - k) /\ k + (i - (k - 1)) = i + 1 /\ ~(i <= k - 1)
        BY <1>1, <2>2, <3>3
      <4> QED
        BY <2>5, <3>1, <3>3, <4>1
    <3> QED
      BY <3>2, <3>3
  <2>9. \A i \in 1..(n - 1) : (IF i < k THEN i ELSE i + 1) \in (1..n) \ {k}
    BY <1>1, <2>2
  <2>10. \A i, j \in DOMAIN r : i # j => r[i] # r[j]
    <3> SUFFICES ASSUME NEW i \in 1..(n - 1), NEW j \in 1..(n - 1), i # j PROVE r[i] # r[j]
      BY <2>7
    <3>1. (IF i < k THEN i ELSE i + 1) # (IF j < k THEN j ELSE j + 1)
      BY <1>1, <2>2
    <3> QED
      BY <1>1, <2>8, <2>9, <3>1
  <2>11. \A i \in 1..(n - 1) : r[i] \in {s[j] : j \in DOMAIN s} \ {e}
    BY <1>1, <2>2, <2>8, <2>9
  <2>12. ASSUME NEW x \in {s[j] : j \in DOMAIN s} \ {e} PROVE \E i \in 1..(n - 1) : r[i] = x
    <3>1. PICK j \in 1..n : s[j] = x
      BY <1>1
    <3>2. j # k
      BY <2>2, <3>1
    <3>3. CASE j < k
      <4>1. j \in 1..(n - 1)
        BY <1>1, <2>2, <3>3
      <4> QED
        BY <2>8, <3>1, <3>3, <4>1
    <3>4. CASE ~(j < k)
      <4>1. j - 1 \in 1..(n - 1) /\ ~(j - 1 < k) /\ j - 1 + 1 = j
        BY <1>1, <2>2, <3>2, <3>4
      <4> QED
        BY <2>8, <3>1, <4>1
    <3> QED
      BY <3>3, <3>4
  <2>13. \A x : x \in {r[i] : i \in DOMAIN r} <=> x \in {s[j] : j \in DOMAIN s} \ {e}
    BY <2>7, <2>11, <2>12
  <2>14. Out!ToSet(r) = Out!ToSet(s) \ {e}
    BY <2>13 DEF Out!ToSet
  <2> QED
    BY <2>7, <2>10, <2>14 DEF r
<1> QED
  BY <1>2, <1>3

(* The elements of a sequence that one more joins, which it did not have. *)
LEMMA AddedLast ==
    ASSUME NEW T, NEW s \in Seq(T), NEW e \in T, \A i, j \in DOMAIN s : i # j => s[i] # s[j],
           e \notin Out!ToSet(s)
    PROVE  LET r == Append(s, e)
           IN  /\ r \in Seq(T) /\ r # <<>>
               /\ \A i, j \in DOMAIN r : i # j => r[i] # r[j]
               /\ Out!ToSet(r) = Out!ToSet(s) \cup {e}
<1> DEFINE r == Append(s, e)
           n == Len(s)
<1>1. /\ n \in Nat /\ DOMAIN s = 1..n /\ r \in Seq(T) /\ Len(r) = n + 1 /\ DOMAIN r = 1..(n + 1)
      /\ r[n + 1] = e /\ \A i \in 1..n : r[i] = s[i]
  OBVIOUS
<1> HIDE DEF r
<1>2. r # <<>>
  BY <1>1
<1>3. \A i \in 1..(n + 1) : i \in 1..n \/ i = n + 1
  BY <1>1
<1>4. \A i, j \in DOMAIN r : i # j => r[i] # r[j]
  BY <1>1, <1>3 DEF Out!ToSet
<1>5. Out!ToSet(r) = Out!ToSet(s) \cup {e}
  BY <1>1, <1>3 DEF Out!ToSet
<1> QED
  BY <1>1, <1>2, <1>4, <1>5 DEF r

-----------------------------------------------------------------------------
(* What the types say. *)
LEMMA ShaperTypes ==
    ASSUME Out!TypeOK
    PROVE  /\ Half \in Nat /\ Half > 0 /\ Out!Mod = 2 * Half /\ request_id \in 0..(2 * Half - 1)
           /\ \A t \in Out!Tasks : /\ t.sid \in Sids /\ t.class \in {"data", "ctrl"}
                                   /\ task[t].pc \in {"idle", "admit", "push", "wait", "done"}
                                   /\ task[t].req \in Out!Request \cup {Out!NoRequest}
           /\ \A s \in Sids : [sid |-> s, class |-> "data"] \in Out!Tasks
           /\ \A t \in Out!Tasks : t.class = "data" => t = [sid |-> t.sid, class |-> "data"]
           /\ DOMAIN task = Out!Tasks /\ DOMAIN shaper = Sids
           /\ \A r \in Out!Request : /\ r.seq \in 0..(2 * Half - 1) /\ r.sid \in Sids
                                     /\ r.class \in {"ctrl", "data"} /\ r.cmd \in {"psh", "fin", "upd"}
           /\ \A s \in Sids : shaper[s] \subseteq Out!Request
           /\ Out!NoRequest \notin Out!Request /\ Out!NoRequest.sid \notin Sids /\ Out!NoRequest.cmd = "none"
<1>1. Half \in Nat /\ Half > 0 /\ Out!Mod = 2 * Half
  BY ShaperAssumption DEF Out!Mod
<1>2. request_id \in 0..(2 * Half - 1)
  BY <1>1 DEF Out!TypeOK
<1>3. \A t \in Out!Tasks : t.sid \in Sids /\ t.class \in {"data", "ctrl"}
  BY ShaperAssumption DEF Out!Tasks
<1>4. /\ \A s \in Sids : [sid |-> s, class |-> "data"] \in Out!Tasks
      /\ \A t \in Out!Tasks : t.class = "data" => t = [sid |-> t.sid, class |-> "data"]
  BY DEF Out!Tasks
<1>5. /\ DOMAIN task = Out!Tasks
      /\ \A t \in Out!Tasks : /\ task[t].pc \in {"idle", "admit", "push", "wait", "done"}
                              /\ task[t].req \in Out!Request \cup {Out!NoRequest}
  BY DEF Out!TypeOK
<1>6. DOMAIN shaper = Sids /\ \A s \in Sids : shaper[s] \subseteq Out!Request
  BY DEF Out!TypeOK
<1>7. \A r \in Out!Request : /\ r.seq \in 0..(2 * Half - 1) /\ r.sid \in Sids
                             /\ r.class \in {"ctrl", "data"} /\ r.cmd \in {"psh", "fin", "upd"}
  BY <1>1 DEF Out!Request
<1>8. Out!NoRequest.sid \notin Sids /\ Out!NoRequest.cmd = "none"
  BY ShaperAssumption DEF Out!NoRequest, Out!NoSid
<1> QED
  BY <1>1, <1>2, <1>3, <1>4, <1>5, <1>6, <1>7, <1>8

(* The tasks are finitely many. *)
LEMMA TasksFinite == IsFiniteSet(Out!Tasks)
<1> DEFINE D == {[sid |-> s, class |-> "data"] : s \in Sids}
           C == {[sid |-> s, class |-> "ctrl"] : s \in Ctrl}
           f == [s \in Sids |-> [sid |-> s, class |-> "data"]]
           g == [s \in Ctrl |-> [sid |-> s, class |-> "ctrl"]]
<1>1. IsFiniteSet(Sids) /\ IsFiniteSet(Ctrl)
  BY ShaperAssumption, FS_Subset
<1>2. f \in Surjection(Sids, D)
  BY DEF Surjection
<1>3. g \in Surjection(Ctrl, C)
  BY DEF Surjection
<1> HIDE DEF f, g, D, C
<1>4. IsFiniteSet(D) /\ IsFiniteSet(C)
  BY <1>1, <1>2, <1>3, FS_Surjection
<1>5. IsFiniteSet(D \cup C)
  BY <1>4, FS_Union
<1> QED
  BY <1>5 DEF Out!Tasks, D, C

(* Who is numbered and not popped. *)
LEMMA OutstandingIs ==
    /\ \A r : r \in Out!Outstanding <=> \/ \E t \in Out!Tasks : Out!Asks(t) /\ r = task[t].req
                                        \/ \E s \in Sids : r \in shaper[s]
    /\ \A r : r \in Out!Outstanding' <=> \/ \E t \in Out!Tasks : task'[t].pc \in {"admit", "push"} /\ r = task'[t].req
                                         \/ \E s \in Sids : r \in shaper'[s]
<1>1. \A r : r \in Out!Outstanding <=> \/ \E t \in Out!Tasks : Out!Asks(t) /\ r = task[t].req
                                       \/ \E s \in Sids : r \in shaper[s]
  BY DEF Out!Outstanding, Out!Asks
<1>2. \A r : r \in Out!Outstanding' <=> \/ \E t \in Out!Tasks : task'[t].pc \in {"admit", "push"} /\ r = task'[t].req
                                        \/ \E s \in Sids : r \in shaper'[s]
  BY DEF Out!Outstanding, Out!Tasks
<1> QED
  BY <1>1, <1>2

(* Numbers stay apart when none is given. *)
LEMMA NumbersKept ==
    ASSUME Out!Numbered, UNCHANGED request_id,
           \A t \in Out!Tasks : task'[t].pc \in {"admit", "push"} => Out!Asks(t) /\ task'[t].req = task[t].req,
           \A s \in Sids : shaper'[s] \subseteq shaper[s]
    PROVE  Out!Numbered'
<1>1. \A r \in Out!Outstanding' : r \in Out!Outstanding
  BY OutstandingIs
<1>2. \A r \in Out!Outstanding' : (request_id' - r.seq) % Out!Mod < Half
  BY <1>1 DEF Out!Numbered
<1>3. \A t, u \in Out!Tasks :
        task'[t].pc \in {"admit", "push"} /\ task'[u].pc \in {"admit", "push"} /\ task'[t].req.seq = task'[u].req.seq
            => t = u
  BY DEF Out!Numbered
<1>4. \A t \in Out!Tasks, s \in Sids : task'[t].pc \in {"admit", "push"} => \A r \in shaper'[s] : r.seq # task'[t].req.seq
  BY DEF Out!Numbered
<1>5. \A s, u \in Sids : \A r \in shaper'[s], q \in shaper'[u] : r.seq = q.seq => r = q
  BY DEF Out!Numbered
<1> QED
  BY <1>2, <1>3, <1>4, <1>5 DEF Out!Numbered, Out!Asks, Out!Tasks, Out!Mod

(* The data task of a stream. *)
Data(s) == [sid |-> s, class |-> "data"]

(* FinOrder of a state in which a task is given. *)
FinsAt(s, at, heap, fin, req) ==
    LET ended == at[Data(s)].pc \in {"wait", "done"} /\ at[Data(s)].req.cmd = "fin"
    IN  /\ s \in fin \/ (req.sid = s /\ req.cmd = "fin") \/ (\E r \in heap[s] : r.cmd = "fin") => ended
        /\ at[Data(s)].pc \in {"admit", "push"} => \A q \in heap[s] : q.class = "data" => Out!less(q, at[Data(s)].req)
        /\ \A r, q \in heap[s] : r.cmd = "fin" /\ q.cmd = "psh" => Out!less(q, r)
        /\ s \in fin \/ (req.sid = s /\ req.cmd = "fin") => \A q \in heap[s] : q.cmd # "psh"
        /\ s \in fin => ~(req.sid = s /\ req.cmd = "psh")

(* FinOrder, of one stream. *)
LEMMA FinOrderIs ==
    /\ Out!FinOrder <=> \A s \in Sids : FinsAt(s, task, shaper, finned, send.req)
    /\ Out!FinOrder' <=> \A s \in Sids : FinsAt(s, task', shaper', finned', send'.req)
<1>1. Out!FinOrder <=> \A s \in Sids : FinsAt(s, task, shaper, finned, send.req)
  BY DEF Out!FinOrder, FinsAt, Data, Out!DataTask, Out!Ended, Out!Sends
<1>2. Out!FinOrder' <=> \A s \in Sids : FinsAt(s, task', shaper', finned', send'.req)
  BY DEF Out!FinOrder, FinsAt, Data, Out!DataTask, Out!Ended, Out!Sends, Out!less, Out!Mod
<1> QED
  BY <1>1, <1>2

(* A FIN stays last when nothing is begun, put in or written. *)
LEMMA FinsKept ==
    ASSUME Out!FinOrder, finned' = finned,
           \A s \in Sids : /\ shaper'[s] = shaper[s]
                           /\ task'[Data(s)].pc \in {"admit", "push"} => task[Data(s)].pc \in {"admit", "push"}
                           /\ task[Data(s)].pc \in {"wait", "done"} /\ task[Data(s)].req.cmd = "fin" =>
                                task'[Data(s)].pc \in {"wait", "done"}
                           /\ task'[Data(s)].pc # "idle" => task'[Data(s)].req = task[Data(s)].req,
           \A s \in Sids : send'.req.sid = s => send'.req = send.req
    PROVE  Out!FinOrder'
<1> SUFFICES ASSUME NEW s \in Sids PROVE FinsAt(s, task', shaper', finned', send'.req)
  BY FinOrderIs
<1>1. FinsAt(s, task, shaper, finned, send.req)
  BY FinOrderIs
<1> QED
  BY <1>1 DEF FinsAt

(* The requests stay what they are when no one is new. *)
LEMMA SoundKept ==
    ASSUME Out!RequestsSound,
           \A t \in Out!Tasks : task'[t].pc \in {"admit", "push", "wait"} =>
             task[t].pc \in {"admit", "push", "wait"} /\ task'[t].req = task[t].req,
           \A s \in Sids : \A r \in shaper'[s] : Out!Sound(r, s),
           send'.req # Out!NoRequest => Out!Sound(send'.req, send'.req.sid),
           send'.pc = "write" <=> send'.req # Out!NoRequest
    PROVE  Out!RequestsSound'
BY DEF Out!RequestsSound, Out!Sound, Out!Tasks, Out!NoRequest, Out!NoSid, Out!Request, Out!Mod, Out!ClassOf

(* The count of permits is kept when none moves. *)
LEMMA SlotsKept ==
    ASSUME Out!SlotsConserved, UNCHANGED <<shaper, shaper_slots>>,
           \A t \in Out!Tasks : task'[t].pc = "push" <=> task[t].pc = "push"
    PROVE  Out!SlotsConserved'
<1>1. {t \in Out!Tasks : task'[t].pc = "push"} = {t \in Out!Tasks : task[t].pc = "push"}
  OBVIOUS
<1> QED
  BY <1>1 DEF Out!SlotsConserved, Out!count, Out!Tasks

(* A number is given, and the task queues for a permit. *)
LEMMA StepBegin ==
    ASSUME Out!ShaperInv, Out!AwakeInv', NEW t \in Out!Tasks, NEW cmd \in {"psh", "fin", "upd"}, Out!Begin(t, cmd)
    PROVE  Out!ShaperInv'
<1> DEFINE n == (request_id + 1) % (2 * Half)
           r0 == [sid |-> t.sid, class |-> Out!ClassOf(cmd), cmd |-> cmd, seq |-> n]
<1>1. /\ Out!TypeOK /\ Out!RequestsSound /\ Out!Numbered /\ Out!WaitersAdmit /\ Out!CursorInList
      /\ Out!SlotsConserved /\ Out!FinOrder
  BY DEF Out!ShaperInv
<1>2. /\ Half \in Nat /\ Half > 0 /\ Out!Mod = 2 * Half /\ request_id \in 0..(2 * Half - 1)
      /\ \A u \in Out!Tasks : u.sid \in Sids /\ u.class \in {"data", "ctrl"}
      /\ \A s \in Sids : Data(s) \in Out!Tasks
      /\ \A u \in Out!Tasks : u.class = "data" => u = Data(u.sid)
      /\ DOMAIN task = Out!Tasks
      /\ \A r \in Out!Request : r.seq \in 0..(2 * Half - 1)
      /\ Out!NoRequest \notin Out!Request
  BY <1>1, ShaperTypes DEF Data
<1>3. /\ task[t].pc = "idle" /\ (cmd = "upd") = (t.class = "ctrl")
      /\ \A r \in Out!Outstanding : (request_id + 1 - r.seq) % (2 * Half) < Half
      /\ request_id' = n /\ task' = [task EXCEPT ![t] = [pc |-> "admit", req |-> r0]]
      /\ waiters' = Append(waiters, t)
      /\ UNCHANGED <<shaper_slots, shaper, rr_list, next, shaper_pending, send, answered, finned, bypassed, send_die,
                     socket_write_error>>
  BY <1>2 DEF Out!Begin, Out!shaperVars
<1>4. n \in 0..(2 * Half - 1)
  BY <1>2, NumberNext
<1> HIDE DEF n
<1>5. r0 \in Out!Request /\ Out!ClassOf(cmd) = t.class /\ r0.cmd = cmd /\ r0.class = t.class /\ r0.sid = t.sid
  <2>1. Out!ClassOf(cmd) = t.class
    BY <1>2, <1>3 DEF Out!ClassOf
  <2> QED
    BY <1>2, <1>4, <2>1 DEF Out!Request
<1>6. r0.seq = n
  OBVIOUS
<1> HIDE DEF r0
<1>7. /\ task'[t] = [pc |-> "admit", req |-> r0] /\ task'[t].pc = "admit" /\ task'[t].req = r0
      /\ \A u \in Out!Tasks : u # t => task'[u] = task[u]
  BY <1>2, <1>3
<1>8. \A r \in Out!Outstanding : r \in Out!Request
  <2>1. \A u \in Out!Tasks : Out!Asks(u) => task[u].req \in Out!Request
    BY <1>1 DEF Out!RequestsSound, Out!Sound, Out!Asks
  <2>2. \A s \in Sids : shaper[s] \subseteq Out!Request
    BY <1>1, ShaperTypes
  <2> QED
    BY <2>1, <2>2, OutstandingIs
<1>9. \A r \in Out!Outstanding : n # r.seq /\ (n - r.seq) % (2 * Half) < Half /\ (n - r.seq) % (2 * Half) \in 1..(Half - 1)
  <2> SUFFICES ASSUME NEW r \in Out!Outstanding
               PROVE  n # r.seq /\ (n - r.seq) % (2 * Half) < Half /\ (n - r.seq) % (2 * Half) \in 1..(Half - 1)
    OBVIOUS
  <2> DEFINE y == r.seq
  <2>1. y \in 0..(2 * Half - 1)
    BY <1>2, <1>8
  <2>2. (request_id - y) % (2 * Half) < Half
    BY <1>1, <1>2 DEF Out!Numbered
  <2>3. (request_id + 1 - y) % (2 * Half) < Half
    BY <1>3
  <2> HIDE DEF y
  <2>4. n # y /\ (n - y) % (2 * Half) < Half /\ (n - y) % (2 * Half) \in 1..(Half - 1)
    BY <1>2, <2>1, <2>2, <2>3, NumberFresh DEF n
  <2> QED
    BY <2>4 DEF y
<1>10. Out!TypeOK'
  <2>1. task' \in [Out!Tasks -> [pc: {"idle", "admit", "push", "wait", "done"}, req: Out!Request \cup {Out!NoRequest}]]
    BY <1>1, <1>3, <1>5 DEF Out!TypeOK
  <2>2. waiters' \in Seq(Out!Tasks)
    BY <1>1, <1>3 DEF Out!TypeOK
  <2>3. request_id' \in 0..(Out!Mod - 1)
    BY <1>2, <1>3, <1>4
  <2> QED
    BY <1>1, <1>3, <2>1, <2>2, <2>3 DEF Out!TypeOK, Out!Tasks, Out!Request, Out!NoRequest, Out!NoSid, Out!Mod,
       Out!NotifyType, Out!Cardinality
<1>11. Out!RequestsSound'
  <2>1. Out!Sound(r0, t.sid)
    BY <1>5 DEF Out!Sound
  <2>2. \A u \in Out!Tasks : task'[u].pc \in {"admit", "push", "wait"} =>
          Out!Sound(task'[u].req, u.sid) /\ task'[u].req.class = u.class
    BY <1>1, <1>5, <1>7, <2>1 DEF Out!RequestsSound
  <2> QED
    BY <1>1, <1>3, <2>2 DEF Out!RequestsSound, Out!Sound, Out!Tasks, Out!NoRequest, Out!NoSid, Out!Request, Out!Mod,
       Out!ClassOf
<1>12. Out!Numbered'
  <2>1. \A u \in Out!Tasks : u # t /\ task'[u].pc \in {"admit", "push"} => task[u].req \in Out!Outstanding
    BY <1>7, OutstandingIs DEF Out!Asks
  <2>2. \A s \in Sids : \A r \in shaper[s] : r \in Out!Outstanding
    BY OutstandingIs
  <2>3. \A r \in Out!Outstanding' : r = r0 \/ r \in Out!Outstanding
    BY <1>3, <1>7, <2>1, <2>2, OutstandingIs
  <2>4. \A r \in Out!Outstanding' : (request_id' - r.seq) % (2 * Half) < Half
    <3>1. (n - n) % (2 * Half) < Half
      BY <1>2, <1>4
    <3> QED
      BY <1>3, <1>6, <1>9, <2>3, <3>1
  <2>5. \A u, v \in Out!Tasks : task'[u].pc \in {"admit", "push"} /\ task'[v].pc \in {"admit", "push"}
                                  /\ task'[u].req.seq = task'[v].req.seq => u = v
    <3> SUFFICES ASSUME NEW u \in Out!Tasks, NEW v \in Out!Tasks, task'[u].pc \in {"admit", "push"},
                        task'[v].pc \in {"admit", "push"}, task'[u].req.seq = task'[v].req.seq, u # v
                 PROVE  FALSE
      OBVIOUS
    <3>1. CASE u = t
      BY <1>6, <1>7, <1>9, <2>1, <3>1
    <3>2. CASE v = t
      BY <1>6, <1>7, <1>9, <2>1, <3>2
    <3>3. CASE u # t /\ v # t
      BY <1>1, <1>7, <3>3 DEF Out!Numbered, Out!Asks
    <3> QED
      BY <3>1, <3>2, <3>3
  <2>6. \A u \in Out!Tasks, s \in Sids : task'[u].pc \in {"admit", "push"} => \A r \in shaper[s] : r.seq # task'[u].req.seq
    <3> SUFFICES ASSUME NEW u \in Out!Tasks, NEW s \in Sids, task'[u].pc \in {"admit", "push"}, NEW r \in shaper[s]
                 PROVE  r.seq # task'[u].req.seq
      OBVIOUS
    <3>1. CASE u = t
      BY <1>6, <1>7, <1>9, <2>2, <3>1
    <3>2. CASE u # t
      BY <1>1, <1>7, <3>2 DEF Out!Numbered, Out!Asks
    <3> QED
      BY <3>1, <3>2
  <2>7. \A s, u \in Sids : \A r \in shaper[s], q \in shaper[u] : r.seq = q.seq => r = q
    BY <1>1 DEF Out!Numbered
  <2> QED
    BY <1>2, <1>3, <2>4, <2>5, <2>6, <2>7 DEF Out!Numbered, Out!Asks, Out!Tasks, Out!Mod
<1>13. Out!WaitersAdmit'
  <2>1. waiters \in Seq(Out!Tasks)
    BY <1>1 DEF Out!TypeOK
  <2>2. t \notin Out!ToSet(waiters)
    BY <1>1, <1>3 DEF Out!WaitersAdmit, Out!ToSet
  <2>3. /\ \A i, j \in DOMAIN waiters' : i # j => waiters'[i] # waiters'[j]
        /\ Out!ToSet(waiters') = Out!ToSet(waiters) \cup {t}
    BY <1>1, <1>3, <2>1, <2>2, AddedLast DEF Out!WaitersAdmit
  <2>4. \A u \in Out!ToSet(waiters) : task'[u].pc = "admit"
    BY <1>1, <1>7, <2>1, <2>2 DEF Out!WaitersAdmit, Out!ToSet
  <2>5. \A u \in Out!ToSet(waiters') : task'[u].pc = "admit"
    BY <1>7, <2>3, <2>4
  <2>6. \A i \in DOMAIN waiters' : task'[waiters'[i]].pc = "admit"
    BY <2>5 DEF Out!ToSet
  <2> QED
    BY <2>3, <2>6 DEF Out!WaitersAdmit
<1>14. Out!CursorInList'
  BY <1>1, <1>3 DEF Out!CursorInList, Out!NoSid
<1>15. Out!SlotsConserved'
  BY <1>1, <1>3, <1>7, SlotsKept
<1>16. Out!FinOrder'
  <2> SUFFICES ASSUME NEW s \in Sids PROVE FinsAt(s, task', shaper', finned', send'.req)
    BY FinOrderIs
  <2>1. FinsAt(s, task, shaper, finned, send.req) /\ Data(s) \in Out!Tasks
    BY <1>1, <1>2, FinOrderIs
  <2>2. CASE Data(s) # t
    BY <1>3, <1>7, <2>1, <2>2 DEF FinsAt
  <2>3. CASE Data(s) = t
    <3>1. ASSUME NEW q \in shaper[s], q.class = "data" PROVE Out!less(q, r0)
      <4>1. q \in Out!Outstanding
        BY OutstandingIs
      <4>2. r0.class = "data"
        BY <1>5, <2>3 DEF Data
      <4> QED
        BY <1>2, <1>6, <1>9, <3>1, <4>1, <4>2 DEF Out!less
    <3> QED
      BY <1>3, <1>7, <2>1, <2>3, <3>1 DEF FinsAt
  <2> QED
    BY <2>2, <2>3
<1> QED
  BY <1>10, <1>11, <1>12, <1>13, <1>14, <1>15, <1>16 DEF Out!ShaperInv

(* The first in the queue gets a permit. *)
LEMMA StepAdmit ==
    ASSUME Out!ShaperInv, Out!AwakeInv', NEW t \in Out!Tasks, Out!Admit(t)
    PROVE  Out!ShaperInv'
<1> DEFINE P == {u \in Out!Tasks : task[u].pc = "push"}
<1>1. /\ Out!TypeOK /\ Out!RequestsSound /\ Out!Numbered /\ Out!WaitersAdmit /\ Out!CursorInList
      /\ Out!SlotsConserved /\ Out!FinOrder
  BY DEF Out!ShaperInv
<1>2. /\ DOMAIN task = Out!Tasks /\ waiters \in Seq(Out!Tasks) /\ MAX_SHAPER_SIZE \in Nat
      /\ shaper_slots \in 0..MAX_SHAPER_SIZE /\ \A s \in Sids : Data(s) \in Out!Tasks
      /\ \A u \in Out!Tasks : task[u].req \in Out!Request \cup {Out!NoRequest}
  BY <1>1, ShaperTypes, ShaperAssumption DEF Out!TypeOK, Data
<1>3. /\ shaper_slots > 0 /\ waiters # <<>> /\ t = Head(waiters) /\ shaper_slots' = shaper_slots - 1
      /\ waiters' = Tail(waiters) /\ task' = [task EXCEPT ![t].pc = "push"]
      /\ UNCHANGED <<request_id, shaper, rr_list, next, shaper_pending, send, answered, finned, bypassed, send_die,
                     socket_write_error>>
  BY DEF Out!Admit, Out!shaperVars
<1>4. /\ Len(waiters) \in Nat /\ Len(waiters) > 0 /\ DOMAIN waiters = 1..Len(waiters) /\ t = waiters[1]
      /\ waiters' \in Seq(Out!Tasks) /\ DOMAIN waiters' = 1..(Len(waiters) - 1)
      /\ \A i \in 1..(Len(waiters) - 1) : waiters'[i] = waiters[i + 1]
  BY <1>2, <1>3
<1>5. task[t].pc = "admit"
  BY <1>1, <1>4 DEF Out!WaitersAdmit
<1>6. /\ task'[t].pc = "push" /\ task'[t].req = task[t].req /\ \A u \in Out!Tasks : u # t => task'[u] = task[u]
  BY <1>1, <1>2, <1>3 DEF Out!TypeOK
<1>7. Out!TypeOK'
  <2>1. task' \in [Out!Tasks -> [pc: {"idle", "admit", "push", "wait", "done"}, req: Out!Request \cup {Out!NoRequest}]]
    BY <1>1, <1>3 DEF Out!TypeOK
  <2>2. shaper_slots' \in 0..MAX_SHAPER_SIZE
    BY <1>2, <1>3
  <2> QED
    BY <1>1, <1>3, <1>4, <2>1, <2>2 DEF Out!TypeOK, Out!Tasks, Out!Request, Out!NoRequest, Out!NoSid, Out!Mod,
       Out!NotifyType, Out!Cardinality
<1>8. Out!RequestsSound'
  <2>1. \A u \in Out!Tasks : task'[u].pc \in {"admit", "push", "wait"} =>
             task[u].pc \in {"admit", "push", "wait"} /\ task'[u].req = task[u].req
    BY <1>5, <1>6
  <2>2. \A s \in Sids : \A r \in shaper'[s] : Out!Sound(r, s)
    BY <1>1, <1>3 DEF Out!RequestsSound
  <2> QED
    BY <1>1, <1>3, <2>1, <2>2, SoundKept DEF Out!RequestsSound
<1>9. Out!Numbered'
  <2>1. \A u \in Out!Tasks : task'[u].pc \in {"admit", "push"} => Out!Asks(u) /\ task'[u].req = task[u].req
    BY <1>5, <1>6 DEF Out!Asks
  <2> QED
    BY <1>1, <1>3, <2>1, NumbersKept
<1>10. Out!WaitersAdmit'
  <2>1. \A i \in 1..(Len(waiters) - 1) : i + 1 \in 1..Len(waiters) /\ i + 1 # 1
    BY <1>4
  <2>2. \A i, j \in 1..(Len(waiters) - 1) : i # j => i + 1 # j + 1
    BY <1>4
  <2>3. \A i, j \in DOMAIN waiters' : i # j => waiters'[i] # waiters'[j]
    <3> SUFFICES ASSUME NEW i \in 1..(Len(waiters) - 1), NEW j \in 1..(Len(waiters) - 1), i # j
                 PROVE  waiters'[i] # waiters'[j]
      BY <1>4
    <3>1. waiters[i + 1] # waiters[j + 1]
      BY <1>1, <1>4, <2>1, <2>2 DEF Out!WaitersAdmit
    <3> QED
      BY <1>4, <3>1
  <2>4. \A i \in 1..(Len(waiters) - 1) : waiters[i + 1] # t /\ waiters[i + 1] \in Out!Tasks /\ task[waiters[i + 1]].pc = "admit"
    BY <1>1, <1>2, <1>4, <2>1 DEF Out!WaitersAdmit
  <2>5. \A i \in DOMAIN waiters' : task'[waiters'[i]].pc = "admit"
    BY <1>4, <1>6, <2>4
  <2> QED
    BY <2>3, <2>5 DEF Out!WaitersAdmit
<1>11. Out!CursorInList'
  BY <1>1, <1>3 DEF Out!CursorInList, Out!NoSid
<1>12. Out!SlotsConserved'
  <2>1. {u \in Out!Tasks : task'[u].pc = "push"} = P \cup {t}
    BY <1>6
  <2>2. IsFiniteSet(P) /\ t \notin P
    BY <1>5, TasksFinite, FS_Subset
  <2> HIDE DEF P
  <2>3. Cardinality(P \cup {t}) = Cardinality(P) + 1 /\ Cardinality(P) \in Nat
    BY <2>2, FS_AddElement, FS_CardinalityType
  <2>4. IsFiniteSet(UNION {shaper[s] : s \in Sids})
    BY Counted DEF Out!ShaperInv, Out!AwakeInv
  <2>5. Out!count \in Nat
    BY <2>4, FS_CardinalityType, Counted DEF Out!count
  <2>6. Out!count' = Out!count
    BY <1>3 DEF Out!count
  <2>7. shaper_slots + Out!count + Cardinality(P) = MAX_SHAPER_SIZE
    BY <1>1, Counted DEF Out!SlotsConserved, P
  <2>8. Out!SlotsConserved' <=> shaper_slots' + Out!count' + Cardinality(P \cup {t}) = MAX_SHAPER_SIZE
    <3>1. Out!Cardinality({u \in Out!Tasks : task'[u].pc = "push"}) = Cardinality(P \cup {t})
      BY <2>1, Counted
    <3> QED
      BY <3>1 DEF Out!SlotsConserved, Out!Tasks
  <2> QED
    BY <1>2, <1>3, <2>3, <2>5, <2>6, <2>7, <2>8
<1>13. Out!FinOrder'
  BY <1>1, <1>2, <1>3, <1>5, <1>6, FinsKept
<1> QED
  BY <1>7, <1>8, <1>9, <1>10, <1>11, <1>12, <1>13 DEF Out!ShaperInv

(* A task that has its result, gives up or is told of the end. *)
LEMMA StepLeave ==
    ASSUME Out!ShaperInv, Out!AwakeInv', NEW t \in Out!Tasks, Out!Result(t) \/ Out!GiveUp(t) \/ Out!Abort(t)
    PROVE  Out!ShaperInv'
<1>1. /\ Out!TypeOK /\ Out!RequestsSound /\ Out!Numbered /\ Out!WaitersAdmit /\ Out!CursorInList
      /\ Out!SlotsConserved /\ Out!FinOrder
  BY DEF Out!ShaperInv
<1>2. /\ DOMAIN task = Out!Tasks /\ waiters \in Seq(Out!Tasks) /\ \A s \in Sids : Data(s) \in Out!Tasks
      /\ \A u \in Out!Tasks : task[u].req \in Out!Request \cup {Out!NoRequest}
  BY <1>1, ShaperTypes DEF Out!TypeOK, Data
<1>3. /\ task[t].pc \in {"admit", "wait"} /\ answered' \subseteq answered
      /\ waiters' = Out!RemoveFirst(waiters, t) \/ (waiters' = waiters /\ task[t].pc = "wait")
      /\ UNCHANGED <<request_id, shaper_slots, shaper, rr_list, next, shaper_pending, send, finned, bypassed, send_die,
                     socket_write_error>>
  BY DEF Out!Result, Out!GiveUp, Out!Abort, Out!shaperVars
<1>4. \/ task' = [task EXCEPT ![t] = Out!Idle] /\ task[t].req.cmd = "psh"
      \/ task' = [task EXCEPT ![t].pc = "done"]
  BY <1>2 DEF Out!Result, Out!GiveUp, Out!Abort, Out!After
<1>5. /\ \A u \in Out!Tasks : u # t => task'[u] = task[u]
      /\ \/ task'[t].pc = "idle" /\ task[t].req.cmd = "psh"
         \/ task'[t].pc = "done" /\ task'[t].req = task[t].req
  BY <1>1, <1>2, <1>4 DEF Out!TypeOK, Out!Idle
<1>6. /\ waiters' \in Seq(Out!Tasks) /\ \A i, j \in DOMAIN waiters' : i # j => waiters'[i] # waiters'[j]
      /\ Out!ToSet(waiters') \subseteq Out!ToSet(waiters) \ {t}
  <2>1. CASE waiters' = waiters /\ task[t].pc = "wait"
    BY <1>1, <1>2, <2>1 DEF Out!WaitersAdmit, Out!ToSet
  <2>2. CASE waiters' = Out!RemoveFirst(waiters, t)
    <3>1. \A i, j \in DOMAIN waiters : i # j => waiters[i] # waiters[j]
      BY <1>1 DEF Out!WaitersAdmit
    <3> DEFINE r == Out!RemoveFirst(waiters, t)
    <3>2. waiters \in Seq(Out!Tasks)
      BY <1>2
    <3>3. /\ r \in Seq(Out!Tasks) /\ \A i, j \in DOMAIN r : i # j => r[i] # r[j]
          /\ Out!ToSet(r) = Out!ToSet(waiters) \ {t}
      BY <3>1, <3>2, RemovedFirst
    <3> HIDE DEF r
    <3>4. waiters' = r
      BY <2>2 DEF r
    <3> QED
      BY <3>3, <3>4, Zenon
  <2> QED
    BY <1>3, <2>1, <2>2
<1>7. Out!TypeOK'
  <2>1. task' \in [Out!Tasks -> [pc: {"idle", "admit", "push", "wait", "done"}, req: Out!Request \cup {Out!NoRequest}]]
    BY <1>1, <1>4 DEF Out!TypeOK, Out!Idle
  <2> QED
    BY <1>1, <1>3, <1>6, <2>1 DEF Out!TypeOK, Out!Tasks, Out!Request, Out!NoRequest, Out!NoSid, Out!Mod,
       Out!NotifyType, Out!Cardinality
<1>8. Out!RequestsSound'
  <2>1. \A u \in Out!Tasks : task'[u].pc \in {"admit", "push", "wait"} =>
             task[u].pc \in {"admit", "push", "wait"} /\ task'[u].req = task[u].req
    BY <1>5
  <2>2. \A s \in Sids : \A r \in shaper'[s] : Out!Sound(r, s)
    BY <1>1, <1>3 DEF Out!RequestsSound
  <2> QED
    BY <1>1, <1>3, <2>1, <2>2, SoundKept DEF Out!RequestsSound
<1>9. Out!Numbered'
  <2>1. \A u \in Out!Tasks : task'[u].pc \in {"admit", "push"} => Out!Asks(u) /\ task'[u].req = task[u].req
    BY <1>5 DEF Out!Asks
  <2> QED
    BY <1>1, <1>3, <2>1, NumbersKept
<1>10. Out!WaitersAdmit'
  <2>1. \A u \in Out!ToSet(waiters) \ {t} : u \in Out!Tasks /\ task'[u].pc = "admit"
    BY <1>1, <1>2, <1>5 DEF Out!WaitersAdmit, Out!ToSet
  <2>2. \A i \in DOMAIN waiters' : task'[waiters'[i]].pc = "admit"
    BY <1>6, <2>1 DEF Out!ToSet
  <2> QED
    BY <1>6, <2>2 DEF Out!WaitersAdmit
<1>11. Out!CursorInList'
  BY <1>1, <1>3 DEF Out!CursorInList, Out!NoSid
<1>12. Out!SlotsConserved'
  BY <1>1, <1>3, <1>5, SlotsKept
<1>13. Out!FinOrder'
  <2>1. \A s \in Sids : /\ task'[Data(s)].pc \in {"admit", "push"} => task[Data(s)].pc \in {"admit", "push"}
                        /\ task[Data(s)].pc \in {"wait", "done"} /\ task[Data(s)].req.cmd = "fin" =>
                                task'[Data(s)].pc \in {"wait", "done"}
                        /\ task'[Data(s)].pc # "idle" => task'[Data(s)].req = task[Data(s)].req
    BY <1>2, <1>5
  <2> QED
    BY <1>1, <1>3, <2>1, FinsKept
<1> QED
  BY <1>7, <1>8, <1>9, <1>10, <1>11, <1>12, <1>13 DEF Out!ShaperInv

(* The order of the heap: control first, then the oldest. *)
LEMMA LeastIs ==
    ASSUME Out!ShaperInv, NEW s \in Sids, shaper[s] # {}
    PROVE  /\ Out!Least(shaper[s]) \in shaper[s]
           /\ \A q \in shaper[s] \ {Out!Least(shaper[s])} : Out!less(Out!Least(shaper[s]), q)
<1> DEFINE age(r) == (request_id - r.seq) % (2 * Half)
           rank(r) == (IF r.class = "ctrl" THEN 0 ELSE Half) + (Half - 1 - age(r))
           H == shaper[s]
           R == {rank(r) : r \in H}
<1>1. /\ Half \in Nat /\ Half > 0 /\ Out!Mod = 2 * Half /\ request_id \in 0..(2 * Half - 1)
      /\ \A r \in H : r.seq \in 0..(2 * Half - 1) /\ r.class \in {"ctrl", "data"}
  BY ShaperTypes DEF Out!ShaperInv
<1>2. \A r \in H : age(r) < Half
  <2>1. \A r \in H : r \in Out!Outstanding
    BY OutstandingIs
  <2> QED
    BY <1>1, <2>1 DEF Out!ShaperInv, Out!Numbered
<1>3. \A r, q \in H : r.seq = q.seq => r = q
  BY DEF Out!ShaperInv, Out!Numbered
<1>4. \A a, b \in H : /\ age(a) \in 0..(Half - 1) /\ age(b) \in 0..(Half - 1)
                      /\ (b.seq - a.seq) % (2 * Half) \in 1..(Half - 1) <=> age(a) > age(b)
                      /\ age(a) = age(b) <=> a.seq = b.seq
  <2> SUFFICES ASSUME NEW a \in H, NEW b \in H
               PROVE  /\ age(a) \in 0..(Half - 1) /\ age(b) \in 0..(Half - 1)
                      /\ (b.seq - a.seq) % (2 * Half) \in 1..(Half - 1) <=> age(a) > age(b)
                      /\ age(a) = age(b) <=> a.seq = b.seq
    OBVIOUS
  <2> DEFINE x == a.seq
             y == b.seq
  <2>1. /\ x \in 0..(2 * Half - 1) /\ y \in 0..(2 * Half - 1)
        /\ (request_id - x) % (2 * Half) < Half /\ (request_id - y) % (2 * Half) < Half
    BY <1>1, <1>2
  <2> HIDE DEF x, y
  <2>2. /\ (request_id - x) % (2 * Half) \in 0..(Half - 1) /\ (request_id - y) % (2 * Half) \in 0..(Half - 1)
        /\ (y - x) % (2 * Half) \in 1..(Half - 1) <=> (request_id - x) % (2 * Half) > (request_id - y) % (2 * Half)
        /\ (request_id - x) % (2 * Half) = (request_id - y) % (2 * Half) <=> x = y
    BY <1>1, <2>1, NumberOrder
  <2> QED
    BY <2>2 DEF x, y
<1>5. \A a, b \in H : Out!less(a, b) <=>
        IF a.class # b.class THEN a.class = "ctrl" ELSE (b.seq - a.seq) % (2 * Half) \in 1..(Half - 1)
  BY <1>1 DEF Out!less
<1> HIDE DEF age, H
<1>6. R # {} /\ R \subseteq Nat
  <2>1. \A r \in H : rank(r) \in Nat
    BY <1>1, <1>4
  <2> QED
    BY <2>1 DEF H
<1>7. PICK m \in R : \A y \in R : m <= y
  BY <1>6, LeastNatural
<1>8. PICK r \in H : m = rank(r)
  BY <1>7
<1>9. ASSUME NEW q \in H \ {r} PROVE Out!less(r, q)
  <2>1. rank(r) <= rank(q)
    BY <1>7, <1>8
  <2>2. r.seq # q.seq
    BY <1>3, <1>8 DEF H
  <2>3. age(r) \in 0..(Half - 1) /\ age(q) \in 0..(Half - 1) /\ age(r) # age(q)
    BY <1>4, <1>8, <2>2
  <2>4. CASE r.class = q.class
    <3>1. age(r) > age(q)
      BY <1>1, <2>1, <2>3, <2>4
    <3> QED
      BY <1>4, <1>5, <1>8, <2>4, <3>1
  <2>5. CASE r.class # q.class
    <3>1. r.class \in {"ctrl", "data"} /\ q.class \in {"ctrl", "data"}
      BY <1>1, <1>8 DEF H
    <3>2. r.class = "ctrl"
      <4>1. CASE r.class = "data" /\ q.class = "ctrl"
        BY <1>1, <2>1, <2>3, <4>1
      <4> QED
        BY <2>5, <3>1, <4>1
    <3> QED
      BY <1>5, <1>8, <2>5, <3>2
  <2> QED
    BY <2>4, <2>5
<1>10. \E x \in H : \A q \in H \ {x} : Out!less(x, q)
  BY <1>8, <1>9
<1> QED
  BY <1>10, Zenon DEF Out!Least, H

(* The permits that the tasks hold. *)
Pushers == {t \in Out!Tasks : task[t].pc = "push"}

(* The permits, counted. *)
LEMMA SlotsAre ==
    /\ IsFiniteSet(Pushers) /\ Cardinality(Pushers) \in Nat
    /\ Out!SlotsConserved <=> shaper_slots + Out!count + Cardinality(Pushers) = MAX_SHAPER_SIZE
    /\ Out!SlotsConserved' <=> shaper_slots' + Out!count' + Cardinality(Pushers') = MAX_SHAPER_SIZE
<1>1. IsFiniteSet(Pushers)
  BY TasksFinite, FS_Subset DEF Pushers
<1>2. Cardinality(Pushers) \in Nat
  BY <1>1, FS_CardinalityType
<1>3. Out!SlotsConserved <=> shaper_slots + Out!count + Cardinality(Pushers) = MAX_SHAPER_SIZE
  BY Counted DEF Out!SlotsConserved, Pushers
<1>4. Out!SlotsConserved' <=> shaper_slots' + Out!count' + Cardinality(Pushers') = MAX_SHAPER_SIZE
  <2> DEFINE P == {t \in Out!Tasks : task'[t].pc = "push"}
  <2>1. Out!Cardinality(P) = Cardinality(P)
    BY Counted
  <2>2. Pushers' = P
    BY DEF Pushers, Out!Tasks
  <2> QED
    BY <2>1, <2>2 DEF Out!SlotsConserved, Out!Tasks
<1> QED
  BY <1>1, <1>2, <1>3, <1>4

(* The number of requests, when one joins and when one leaves. *)
LEMMA CountJoins ==
    ASSUME Out!AwakeInv, NEW s \in Sids, NEW req, \A u \in Sids : req \notin shaper[u],
           shaper' = [shaper EXCEPT ![s] = @ \cup {req}]
    PROVE  Out!count \in Nat /\ Out!count' = Out!count + 1
<1> DEFINE all == UNION {shaper[u] : u \in Sids}
<1>1. IsFiniteSet(all) /\ shaper = [u \in Sids |-> shaper[u]]
  BY Counted DEF Out!AwakeInv
<1>2. req \notin all
  OBVIOUS
<1>3. UNION {shaper'[u] : u \in Sids} = all \cup {req}
  BY <1>1
<1> HIDE DEF all
<1>4. Cardinality(all \cup {req}) = Cardinality(all) + 1 /\ Cardinality(all) \in Nat
  BY <1>1, <1>2, FS_AddElement, FS_CardinalityType
<1>5. Out!count = Cardinality(all)
  BY Counted DEF Out!count, all
<1>6. Out!count' = Cardinality(all \cup {req})
  BY <1>3, Counted DEF Out!count
<1> QED
  BY <1>4, <1>5, <1>6

(* The count when a request leaves its heap. *)
LEMMA CountLeaves ==
    ASSUME Out!AwakeInv, NEW s \in Sids, NEW req \in shaper[s], \A u \in Sids : u # s => req \notin shaper[u],
           shaper' = [shaper EXCEPT ![s] = @ \ {req}]
    PROVE  Out!count \in Nat /\ Out!count' \in Nat /\ Out!count' = Out!count - 1
<1> DEFINE all == UNION {shaper[u] : u \in Sids}
<1>1. IsFiniteSet(all) /\ shaper = [u \in Sids |-> shaper[u]]
  BY Counted DEF Out!AwakeInv
<1>2. req \in all
  OBVIOUS
<1>3. UNION {shaper'[u] : u \in Sids} = all \ {req}
  BY <1>1
<1> HIDE DEF all
<1>4. Cardinality(all \ {req}) = Cardinality(all) - 1 /\ Cardinality(all) \in Nat /\ IsFiniteSet(all \ {req})
  BY <1>1, <1>2, FS_RemoveElement, FS_CardinalityType
<1>5. Cardinality(all \ {req}) \in Nat
  BY <1>4, FS_CardinalityType
<1>6. Out!count = Cardinality(all)
  BY Counted DEF Out!count, all
<1>7. Out!count' = Cardinality(all \ {req})
  BY <1>3, Counted DEF Out!count
<1> QED
  BY <1>4, <1>5, <1>6, <1>7

(* The queue is not empty only if the cursor is at a stream with requests. *)
LEMMA CursorAt ==
    ASSUME Out!ShaperInv, Out!count > 0
    PROVE  next \in Sids /\ shaper[next] # {} /\ next \in Out!ToSet(rr_list) /\ rr_list # <<>>
<1> DEFINE all == UNION {shaper[u] : u \in Sids}
<1>1. all # {}
  <2>1. CASE all = {}
    <3>1. Cardinality(all) = 0
      BY <2>1, FS_EmptySet
    <3>2. Out!count = 0
      BY <3>1, Counted DEF Out!count
    <3> QED
      BY <3>2
  <2> QED
    BY <2>1
<1>2. PICK u \in Sids : shaper[u] # {}
  BY <1>1
<1>3. Out!ToSet(rr_list) = {s \in Sids : shaper[s] # {}}
  BY DEF Out!ShaperInv, Out!CursorInList
<1>4. rr_list # <<>>
  <2>1. CASE rr_list = <<>>
    BY <1>2, <1>3, <2>1 DEF Out!ToSet
  <2> QED
    BY <2>1
<1>5. next \in Out!ToSet(rr_list)
  BY <1>4 DEF Out!ShaperInv, Out!CursorInList
<1> QED
  BY <1>3, <1>4, <1>5

(* A request is put in. *)
LEMMA StepPush ==
    ASSUME Out!ShaperInv, Out!AwakeInv', NEW t \in Out!Tasks, Out!Push(t)
    PROVE  Out!ShaperInv'
<1> DEFINE r0 == task[t].req
           sid == t.sid
<1>1. /\ Out!TypeOK /\ Out!AwakeInv /\ Out!RequestsSound /\ Out!Numbered /\ Out!WaitersAdmit /\ Out!CursorInList
      /\ Out!SlotsConserved /\ Out!FinOrder
  BY DEF Out!ShaperInv
<1>2. /\ DOMAIN task = Out!Tasks /\ DOMAIN shaper = Sids /\ MAX_SHAPER_SIZE \in Nat
      /\ shaper_slots \in 0..MAX_SHAPER_SIZE /\ sid \in Sids
      /\ \A s \in Sids : Data(s) \in Out!Tasks
      /\ \A u \in Out!Tasks : u.class = "data" => u = Data(u.sid)
      /\ \A u \in Out!Tasks : task[u].req \in Out!Request \cup {Out!NoRequest}
      /\ rr_list \in Seq(Sids)
  BY <1>1, ShaperTypes, ShaperAssumption DEF Out!TypeOK, Data
<1>3. /\ task[t].pc = "push" /\ shaper' = [shaper EXCEPT ![sid] = @ \cup {r0}]
      /\ rr_list' = (IF shaper[sid] = {} THEN Append(rr_list, sid) ELSE rr_list)
      /\ next' = (IF shaper[sid] = {} /\ next = Out!NoSid THEN sid ELSE next)
      /\ task' = [task EXCEPT ![t].pc = "wait"] /\ answered' = answered \ {t}
      /\ UNCHANGED <<request_id, shaper_slots, waiters, send, finned, bypassed, send_die, socket_write_error>>
  BY DEF Out!Push, Out!Appended
<1>4. /\ Out!Sound(r0, sid) /\ r0 \in Out!Request /\ r0.sid = sid /\ r0.class = t.class /\ r0.class = Out!ClassOf(r0.cmd)
  BY <1>1, <1>3 DEF Out!RequestsSound, Out!Sound
<1>5. /\ task'[t].pc = "wait" /\ task'[t].req = r0 /\ \A u \in Out!Tasks : u # t => task'[u] = task[u]
  BY <1>1, <1>2, <1>3 DEF Out!TypeOK
<1>6. /\ shaper'[sid] = shaper[sid] \cup {r0} /\ \A s \in Sids : s # sid => shaper'[s] = shaper[s]
      /\ \A s \in Sids : \A r : r \in shaper'[s] <=> r \in shaper[s] \/ (r = r0 /\ s = sid)
  BY <1>2, <1>3
<1>7. Out!Asks(t) /\ \A s \in Sids : \A r \in shaper[s] : r.seq # r0.seq
  BY <1>1, <1>3 DEF Out!Asks, Out!Numbered
<1>8. \A s \in Sids : r0 \notin shaper[s]
  BY <1>7
<1> HIDE DEF r0, sid
<1>9. rr_list' \in Seq(Sids) /\ Out!CursorInList'
  <2>1. /\ Out!ToSet(rr_list) = {s \in Sids : shaper[s] # {}}
        /\ \A i, j \in DOMAIN rr_list : i # j => rr_list[i] # rr_list[j]
        /\ IF rr_list = <<>> THEN next = Out!NoSid ELSE next \in Out!ToSet(rr_list)
    BY <1>1 DEF Out!CursorInList
  <2>2. Out!NoSid \notin Sids
    BY ShaperAssumption DEF Out!NoSid
  <2>3. CASE shaper[sid] # {}
    <3>1. {s \in Sids : shaper'[s] # {}} = {s \in Sids : shaper[s] # {}}
      BY <1>6, <2>3
    <3>2. rr_list' = rr_list /\ next' = next
      BY <1>3, <2>3
    <3> QED
      BY <1>2, <2>1, <3>1, <3>2 DEF Out!CursorInList, Out!NoSid
  <2>4. CASE shaper[sid] = {}
    <3> DEFINE l == Append(rr_list, sid)
    <3>1. /\ l \in Seq(Sids) /\ l # <<>>
          /\ \A i, j \in DOMAIN l : i # j => l[i] # l[j]
          /\ Out!ToSet(l) = Out!ToSet(rr_list) \cup {sid}
      <4>1. sid \notin Out!ToSet(rr_list)
        BY <2>1, <2>4
      <4>2. \A i, j \in DOMAIN rr_list : i # j => rr_list[i] # rr_list[j]
        BY <2>1
      <4> QED
        BY <1>2, <4>1, <4>2, AddedLast
    <3>2. rr_list' = l
      BY <1>3, <2>4
    <3> HIDE DEF l
    <3>3. Out!ToSet(l) = {s \in Sids : shaper'[s] # {}}
      <4>1. \A s : s \in {u \in Sids : shaper'[u] # {}} <=> s \in {u \in Sids : shaper[u] # {}} \/ s = sid
        BY <1>2, <1>6
      <4> QED
        BY <2>1, <3>1, <4>1
    <3>4. next' \in Out!ToSet(l)
      <4>1. CASE next = Out!NoSid
        BY <1>3, <2>4, <3>1, <4>1
      <4>2. CASE next # Out!NoSid
        <5>1. next' = next
          BY <1>3, <4>2
        <5>2. next \in Out!ToSet(rr_list)
          BY <2>1, <4>2
        <5> QED
          BY <3>1, <5>1, <5>2
      <4> QED
        BY <4>1, <4>2
    <3>5. /\ Out!ToSet(rr_list') = {s \in Sids : shaper'[s] # {}}
          /\ \A i, j \in DOMAIN rr_list' : i # j => rr_list'[i] # rr_list'[j]
          /\ rr_list' # <<>> /\ next' \in Out!ToSet(rr_list') /\ rr_list' \in Seq(Sids)
      BY <3>1, <3>2, <3>3, <3>4, Zenon
    <3> QED
      BY <3>5 DEF Out!CursorInList, Out!NoSid
  <2> QED
    BY <2>3, <2>4
<1>10. Out!TypeOK'
  <2>1. task' \in [Out!Tasks -> [pc: {"idle", "admit", "push", "wait", "done"}, req: Out!Request \cup {Out!NoRequest}]]
    BY <1>1, <1>3 DEF Out!TypeOK
  <2>2. shaper' \in [Sids -> SUBSET Out!Request]
    BY <1>1, <1>3, <1>4 DEF Out!TypeOK
  <2>3. next' \in Sids \cup {Out!NoSid} /\ answered' \subseteq Out!Tasks
    BY <1>1, <1>2, <1>3 DEF Out!TypeOK
  <2>4. shaper_pending' \in Out!NotifyType({"send"})
    BY DEF Out!AwakeInv, Out!NotifyType
  <2> QED
    BY <1>1, <1>3, <1>9, <2>1, <2>2, <2>3, <2>4 DEF Out!TypeOK, Out!Tasks, Out!Request, Out!NoRequest, Out!NoSid,
       Out!Mod, Out!NotifyType, Out!Cardinality
<1>11. Out!RequestsSound'
  <2>1. \A u \in Out!Tasks : task'[u].pc \in {"admit", "push", "wait"} =>
             task[u].pc \in {"admit", "push", "wait"} /\ task'[u].req = task[u].req
    BY <1>3, <1>5 DEF r0
  <2>2. \A s \in Sids : \A r \in shaper'[s] : Out!Sound(r, s)
    BY <1>1, <1>4, <1>6 DEF Out!RequestsSound
  <2> QED
    BY <1>1, <1>3, <2>1, <2>2, SoundKept DEF Out!RequestsSound
<1>12. Out!Numbered'
  <2>1. \A u \in Out!Tasks : task'[u].pc \in {"admit", "push"} => Out!Asks(u) /\ task'[u].req = task[u].req /\ u # t
    BY <1>5 DEF Out!Asks
  <2>2. \A r \in Out!Outstanding' : r \in Out!Outstanding
    BY <1>3, <1>5, <1>6, <1>7, <2>1, OutstandingIs DEF r0
  <2>3. \A r \in Out!Outstanding' : (request_id' - r.seq) % Out!Mod < Half
    BY <1>1, <1>3, <2>2 DEF Out!Numbered
  <2>4. \A u, v \in Out!Tasks :
          task'[u].pc \in {"admit", "push"} /\ task'[v].pc \in {"admit", "push"} /\ task'[u].req.seq = task'[v].req.seq
              => u = v
    BY <1>1, <2>1 DEF Out!Numbered
  <2>5. \A u \in Out!Tasks, s \in Sids : task'[u].pc \in {"admit", "push"} => \A r \in shaper'[s] : r.seq # task'[u].req.seq
    <3> SUFFICES ASSUME NEW u \in Out!Tasks, NEW s \in Sids, task'[u].pc \in {"admit", "push"}, NEW r \in shaper'[s]
                 PROVE  r.seq # task'[u].req.seq
      OBVIOUS
    <3>1. CASE r \in shaper[s]
      BY <1>1, <2>1, <3>1 DEF Out!Numbered
    <3>2. CASE r = r0
      BY <1>1, <1>7, <2>1, <3>2 DEF Out!Numbered, r0
    <3> QED
      BY <1>6, <3>1, <3>2
  <2>6. \A s, u \in Sids : \A r \in shaper'[s], q \in shaper'[u] : r.seq = q.seq => r = q
    <3>1. \A s, u \in Sids : \A r \in shaper[s], q \in shaper[u] : r.seq = q.seq => r = q
      BY <1>1 DEF Out!Numbered
    <3> QED
      BY <1>6, <1>7, <3>1
  <2> QED
    BY <2>3, <2>4, <2>5, <2>6 DEF Out!Numbered, Out!Asks, Out!Tasks, Out!Mod
<1>13. Out!WaitersAdmit'
  <2>1. waiters \in Seq(Out!Tasks)
    BY <1>1 DEF Out!TypeOK
  <2>2. \A i \in DOMAIN waiters : waiters[i] \in Out!Tasks /\ waiters[i] # t /\ task'[waiters[i]].pc = "admit"
    BY <1>1, <1>3, <1>5, <2>1 DEF Out!WaitersAdmit
  <2> QED
    BY <1>1, <1>3, <2>2 DEF Out!WaitersAdmit
<1>14. Out!SlotsConserved'
  <2>1. Out!count \in Nat /\ Out!count' = Out!count + 1
    BY <1>1, <1>2, <1>3, <1>8, CountJoins
  <2>2. Pushers' = Pushers \ {t} /\ t \in Pushers
    <3>1. Pushers' = {u \in Out!Tasks : task'[u].pc = "push"}
      BY DEF Pushers, Out!Tasks
    <3> QED
      BY <1>3, <1>5, <3>1 DEF Pushers
  <2>3. Cardinality(Pushers \ {t}) = Cardinality(Pushers) - 1 /\ Cardinality(Pushers) \in Nat
    BY <2>2, SlotsAre, FS_RemoveElement
  <2>4. Cardinality(Pushers') = Cardinality(Pushers) - 1
    BY <2>2, <2>3
  <2>5. shaper_slots + Out!count + Cardinality(Pushers) = MAX_SHAPER_SIZE
    BY <1>1, SlotsAre
  <2>6. shaper_slots' + Out!count' + Cardinality(Pushers') = MAX_SHAPER_SIZE
    BY <1>2, <1>3, <2>1, <2>3, <2>4, <2>5
  <2> QED
    BY <2>6, SlotsAre
<1>15. Out!FinOrder'
  <2> SUFFICES ASSUME NEW s \in Sids PROVE FinsAt(s, task', shaper', finned', send'.req)
    BY FinOrderIs
  <2>1. FinsAt(s, task, shaper, finned, send.req) /\ Data(s) \in Out!Tasks
    BY <1>1, <1>2, FinOrderIs
  <2>2. CASE s # sid
    <3>1. Data(s) # t
      BY <2>2 DEF Data, sid
    <3> QED
      BY <1>3, <1>5, <1>6, <2>1, <2>2, <3>1 DEF FinsAt
  <2>3. CASE s = sid /\ t.class # "data"
    <3>1. Data(s) # t
      BY <2>3 DEF Data
    <3>2. r0.class # "data" /\ r0.cmd # "fin" /\ r0.cmd # "psh"
      BY <1>4, <2>3 DEF Out!ClassOf
    <3> QED
      BY <1>3, <1>5, <1>6, <2>1, <2>3, <3>1, <3>2 DEF FinsAt
  <2>4. CASE s = sid /\ t.class = "data"
    <3>1. Data(s) = t
      BY <1>2, <2>4 DEF sid
    <3>2. ~(s \in finned \/ (send.req.sid = s /\ send.req.cmd = "fin") \/ (\E r \in shaper[s] : r.cmd = "fin"))
      BY <1>3, <2>1, <3>1 DEF FinsAt
    <3>3. \A q \in shaper[s] : q.class = "data" => Out!less(q, r0)
      BY <1>3, <2>1, <3>1 DEF FinsAt, r0
    <3>4. \A q \in shaper[s] : q.cmd = "psh" => q.class = "data"
      BY <1>1 DEF Out!RequestsSound, Out!Sound, Out!ClassOf
    <3>5. \A r, q \in shaper'[s] : r.cmd = "fin" /\ q.cmd = "psh" => Out!less(q, r)
      BY <1>6, <2>4, <3>2, <3>3, <3>4
    <3>6. (\E r \in shaper'[s] : r.cmd = "fin") => r0.cmd = "fin"
      BY <1>6, <2>4, <3>2
    <3> QED
      BY <1>3, <1>5, <3>1, <3>2, <3>5, <3>6 DEF FinsAt
  <2> QED
    BY <2>2, <2>3, <2>4
<1> QED
  BY <1>9, <1>10, <1>11, <1>12, <1>13, <1>14, <1>15 DEF Out!ShaperInv

(* The cursor moves on in the list. *)
LEMMA NextIs ==
    ASSUME rr_list \in Seq(Sids), \A i, j \in DOMAIN rr_list : i # j => rr_list[i] # rr_list[j],
           NEW sid \in Out!ToSet(rr_list)
    PROVE  /\ Out!NextOf(sid) \in Out!ToSet(rr_list)
           /\ Out!NextOf(sid) = sid => Out!ToSet(rr_list) = {sid}
<1> DEFINE n == Len(rr_list)
           i == CHOOSE k \in DOMAIN rr_list : rr_list[k] = sid
<1>1. n \in Nat /\ DOMAIN rr_list = 1..n
  OBVIOUS
<1>2. \E k \in DOMAIN rr_list : rr_list[k] = sid
  BY DEF Out!ToSet
<1>3. i \in 1..n /\ rr_list[i] = sid
  BY <1>1, <1>2
<1>4. Out!NextOf(sid) = IF i < n THEN rr_list[i + 1] ELSE rr_list[1]
  BY DEF Out!NextOf
<1> HIDE DEF i, n
<1>5. CASE i < n
  <2>1. i + 1 \in 1..n /\ i + 1 # i
    BY <1>1, <1>3, <1>5
  <2>2. rr_list[i + 1] # sid
    BY <1>1, <1>3, <2>1
  <2>3. Out!NextOf(sid) = rr_list[i + 1] /\ Out!NextOf(sid) # sid
    BY <1>4, <1>5, <2>2
  <2>4. rr_list[i + 1] \in Out!ToSet(rr_list)
    BY <1>1, <2>1 DEF Out!ToSet
  <2> QED
    BY <2>3, <2>4
<1>6. CASE ~(i < n)
  <2>1. 1 \in 1..n /\ i = n
    BY <1>1, <1>3, <1>6
  <2>2. ASSUME rr_list[1] = sid PROVE Out!ToSet(rr_list) = {sid}
    <3>1. i = 1
      BY <1>1, <1>3, <2>1, <2>2
    <3>2. \A k \in DOMAIN rr_list : k = 1
      BY <1>1, <2>1, <3>1
    <3> QED
      BY <1>1, <2>1, <2>2, <3>2 DEF Out!ToSet
  <2> QED
    BY <1>1, <1>4, <1>6, <2>1, <2>2 DEF Out!ToSet
<1> QED
  BY <1>5, <1>6

(* The stream at the cursor has its turn. *)
LEMMA StepPop ==
    ASSUME Out!ShaperInv, Out!AwakeInv', Out!Pop
    PROVE  Out!ShaperInv'
<1> DEFINE sid == next
           r0 == Out!Least(shaper[sid])
           last == Out!Cardinality(shaper[sid]) = 1
           rest == Out!RemoveFirst(rr_list, sid)
           heap == shaper[sid]
<1>1. /\ Out!TypeOK /\ Out!AwakeInv /\ Out!RequestsSound /\ Out!Numbered /\ Out!WaitersAdmit /\ Out!CursorInList
      /\ Out!SlotsConserved /\ Out!FinOrder
  BY DEF Out!ShaperInv
<1>2. /\ DOMAIN task = Out!Tasks /\ DOMAIN shaper = Sids /\ MAX_SHAPER_SIZE \in Nat
      /\ shaper_slots \in 0..MAX_SHAPER_SIZE /\ rr_list \in Seq(Sids)
      /\ Half \in Nat /\ Half > 0 /\ Out!Mod = 2 * Half
      /\ \A s \in Sids : shaper[s] \subseteq Out!Request
      /\ \A r \in Out!Request : r.seq \in 0..(2 * Half - 1)
      /\ Out!NoRequest \notin Out!Request
  BY <1>1, ShaperTypes, ShaperAssumption DEF Out!TypeOK
<1>3. /\ send.pc = "pop" /\ Out!count > 0 /\ shaper' = [shaper EXCEPT ![sid] = @ \ {r0}]
      /\ rr_list' = (IF last THEN rest ELSE rr_list)
      /\ next' = (IF last /\ rest = <<>> THEN Out!NoSid ELSE Out!NextOf(sid))
      /\ bypassed' = Out!Bypassed(sid) /\ shaper_slots' = shaper_slots + 1
      /\ send' = [pc |-> "write", req |-> r0]
      /\ UNCHANGED <<task, request_id, waiters, shaper_pending, answered, finned, send_die, socket_write_error>>
  BY DEF Out!Pop, Out!Removed, Out!CursorAfter
<1>4. sid \in Sids /\ heap # {} /\ sid \in Out!ToSet(rr_list)
  BY <1>3, CursorAt
<1>5. r0 \in heap /\ \A q \in heap \ {r0} : Out!less(r0, q)
  BY <1>4, LeastIs
<1>6. last <=> heap = {r0}
  <2>1. IsFiniteSet(UNION {shaper[s] : s \in Sids})
    BY <1>1, Counted DEF Out!AwakeInv
  <2>2. IsFiniteSet(heap)
    <3>1. heap \subseteq UNION {shaper[s] : s \in Sids}
      BY <1>4
    <3> QED
      BY <2>1, <3>1, FS_Subset
  <2>3. Out!Cardinality(heap) = Cardinality(heap)
    BY Counted
  <2>4. Cardinality(heap) = 1 <=> \E x : heap = {x}
    BY <2>2, FS_Singleton
  <2> QED
    BY <1>5, <2>3, <2>4
<1>7. \A s \in Sids : s # sid => r0 \notin shaper[s]
  BY <1>1, <1>4, <1>5 DEF Out!RequestsSound, Out!Sound
<1>8. Out!Sound(r0, sid) /\ r0 \in Out!Request /\ r0.sid = sid
  BY <1>1, <1>4, <1>5 DEF Out!RequestsSound, Out!Sound
<1>9. /\ shaper'[sid] = heap \ {r0} /\ \A s \in Sids : s # sid => shaper'[s] = shaper[s]
      /\ \A s \in Sids : shaper'[s] \subseteq shaper[s]
  BY <1>2, <1>3, <1>4
<1> HIDE DEF r0, last, rest, heap
<1>10. rr_list' \in Seq(Sids) /\ next' \in Sids \cup {Out!NoSid} /\ Out!CursorInList'
  <2>1. /\ Out!ToSet(rr_list) = {s \in Sids : shaper[s] # {}}
        /\ \A i, j \in DOMAIN rr_list : i # j => rr_list[i] # rr_list[j]
    BY <1>1 DEF Out!CursorInList
  <2>2. /\ rest \in Seq(Sids) /\ \A i, j \in DOMAIN rest : i # j => rest[i] # rest[j]
        /\ Out!ToSet(rest) = Out!ToSet(rr_list) \ {sid}
    <3>1. \A i, j \in DOMAIN rr_list : i # j => rr_list[i] # rr_list[j]
      BY <2>1
    <3> QED
      BY <1>2, <3>1, RemovedFirst DEF rest
  <2>3. /\ Out!NextOf(sid) \in Out!ToSet(rr_list)
        /\ Out!NextOf(sid) = sid => Out!ToSet(rr_list) = {sid}
    BY <1>2, <1>4, <2>1, NextIs
  <2>4. Out!NoSid \notin Sids
    BY ShaperAssumption DEF Out!NoSid
  <2>5. CASE ~last
    <3>1. shaper'[sid] # {}
      BY <1>5, <1>6, <1>9, <2>5
    <3>2. {s \in Sids : shaper'[s] # {}} = {s \in Sids : shaper[s] # {}}
      BY <1>4, <1>9, <3>1 DEF heap
    <3>3. rr_list' = rr_list /\ next' = Out!NextOf(sid) /\ rr_list # <<>>
      BY <1>3, <2>5, CursorAt
    <3>4. next' \in Out!ToSet(rr_list) /\ next' \in Sids
      BY <2>1, <2>3, <3>3
    <3> QED
      BY <1>2, <2>1, <3>2, <3>3, <3>4 DEF Out!CursorInList, Out!NoSid
  <2>6. CASE last
    <3>1. shaper'[sid] = {}
      BY <1>6, <1>9, <2>6
    <3>2. {s \in Sids : shaper'[s] # {}} = {s \in Sids : shaper[s] # {}} \ {sid}
      BY <1>9, <3>1
    <3>3. Out!ToSet(rest) = {s \in Sids : shaper'[s] # {}}
      BY <2>1, <2>2, <3>2
    <3>4. rr_list' = rest
      BY <1>3, <2>6
    <3>5. CASE rest = <<>>
      <4>1. next' = Out!NoSid
        BY <1>3, <2>6, <3>5
      <4>2. /\ Out!ToSet(rr_list') = {s \in Sids : shaper'[s] # {}} /\ rr_list' \in Seq(Sids)
            /\ \A i, j \in DOMAIN rr_list' : i # j => rr_list'[i] # rr_list'[j]
            /\ rr_list' = <<>>
        BY <2>2, <3>3, <3>4, <3>5, ZenonT(60)
      <4> QED
        BY <4>1, <4>2 DEF Out!CursorInList, Out!NoSid
    <3>6. CASE rest # <<>>
      <4>1. next' = Out!NextOf(sid)
        BY <1>3, <3>6
      <4>2. Out!ToSet(rest) # {}
        <5>1. 1 \in DOMAIN rest
          BY <2>2, <3>6
        <5> QED
          BY <5>1 DEF Out!ToSet
      <4>3. next' \in Out!ToSet(rest)
        BY <2>2, <2>3, <4>1, <4>2
      <4>4. /\ Out!ToSet(rr_list') = {s \in Sids : shaper'[s] # {}} /\ rr_list' \in Seq(Sids)
            /\ \A i, j \in DOMAIN rr_list' : i # j => rr_list'[i] # rr_list'[j]
            /\ rr_list' # <<>> /\ next' \in Out!ToSet(rr_list') /\ next' \in Sids
        <5>1. next' \in Sids
          BY <3>3, <4>3
        <5> QED
          BY <2>2, <3>3, <3>4, <3>6, <4>3, <5>1, Zenon
      <4> QED
        BY <4>4 DEF Out!CursorInList, Out!NoSid
    <3> QED
      BY <3>5, <3>6
  <2> QED
    BY <2>5, <2>6
<1>11. Out!SlotsConserved' /\ shaper_slots' \in 0..MAX_SHAPER_SIZE
  <2>1. Out!count \in Nat /\ Out!count' \in Nat /\ Out!count' = Out!count - 1
    BY <1>1, <1>3, <1>4, <1>5, <1>7, CountLeaves DEF heap
  <2>2. Pushers' = Pushers
    BY <1>3 DEF Pushers, Out!Tasks
  <2>3. shaper_slots + Out!count + Cardinality(Pushers) = MAX_SHAPER_SIZE /\ Cardinality(Pushers) \in Nat
    BY <1>1, SlotsAre
  <2>4. shaper_slots' + Out!count' + Cardinality(Pushers) = MAX_SHAPER_SIZE /\ shaper_slots' \in 0..MAX_SHAPER_SIZE
    BY <1>2, <1>3, <2>1, <2>3
  <2> QED
    BY <2>2, <2>4, SlotsAre
<1>12. Out!TypeOK'
  <2>1. shaper' \in [Sids -> SUBSET Out!Request]
    BY <1>1, <1>3 DEF Out!TypeOK
  <2>2. send' \in [pc: {"check", "pop", "write", "end"}, req: Out!Request \cup {Out!NoRequest}]
    BY <1>3, <1>8
  <2>3. bypassed' \in [Sids -> 0..Out!Cardinality(Sids)]
    <3>1. Out!Cardinality(Sids) \in Nat
      BY Counted, ShaperAssumption, FS_CardinalityType
    <3>2. bypassed \in [Sids -> 0..Out!Cardinality(Sids)]
      BY <1>1 DEF Out!TypeOK
    <3> DEFINE c == Out!Cardinality(Sids)
    <3> HIDE DEF c
    <3>3. \A s \in Sids : bypassed[s] < c => bypassed[s] + 1 \in 0..c
      BY <3>1, <3>2 DEF c
    <3> QED
      BY <1>3, <3>1, <3>2, <3>3 DEF Out!Bypassed, c
  <2> QED
    BY <1>1, <1>3, <1>10, <1>11, <2>1, <2>2, <2>3 DEF Out!TypeOK, Out!Tasks, Out!Request, Out!NoRequest, Out!NoSid,
       Out!Mod, Out!NotifyType, Out!Cardinality
<1>13. Out!RequestsSound'
  <2>1. \A s \in Sids : \A r \in shaper'[s] : Out!Sound(r, s)
    BY <1>1, <1>9 DEF Out!RequestsSound
  <2>2. send'.req = r0 /\ send'.pc = "write" /\ r0 # Out!NoRequest
    BY <1>2, <1>3, <1>8
  <2> QED
    BY <1>1, <1>3, <1>8, <2>1, <2>2, SoundKept
<1>14. Out!Numbered'
  <2>1. \A u \in Out!Tasks : task'[u].pc \in {"admit", "push"} => Out!Asks(u) /\ task'[u].req = task[u].req
    BY <1>3 DEF Out!Asks
  <2> QED
    BY <1>1, <1>3, <1>9, <2>1, NumbersKept
<1>15. Out!WaitersAdmit'
  BY <1>1, <1>3 DEF Out!WaitersAdmit
<1>16. Out!FinOrder'
  <2> SUFFICES ASSUME NEW s \in Sids PROVE FinsAt(s, task', shaper', finned', send'.req)
    BY FinOrderIs
  <2>1. FinsAt(s, task, shaper, finned, send.req)
    BY <1>1, FinOrderIs
  <2>2. CASE s # sid
    BY <1>3, <1>8, <1>9, <2>1, <2>2 DEF FinsAt
  <2>3. CASE s = sid
    <3>1. r0.cmd = "fin" => \A q \in heap \ {r0} : q.cmd # "psh"
      <4> SUFFICES ASSUME r0.cmd = "fin", NEW q \in heap \ {r0}, q.cmd = "psh" PROVE FALSE
        OBVIOUS
      <4>1. Out!less(r0, q) /\ Out!less(q, r0)
        BY <1>5, <2>1, <2>3 DEF FinsAt, heap
      <4>2. r0.class = "data" /\ q.class = "data"
        BY <1>1, <1>4, <1>8 DEF Out!RequestsSound, Out!Sound, Out!ClassOf, heap
      <4>3. r0.seq \in 0..(2 * Half - 1) /\ q.seq \in 0..(2 * Half - 1)
        BY <1>2, <1>4, <1>8 DEF heap
      <4>4. (q.seq - r0.seq) % (2 * Half) \in 1..(Half - 1) /\ (r0.seq - q.seq) % (2 * Half) \in 1..(Half - 1)
        BY <1>2, <4>1, <4>2 DEF Out!less
      <4> DEFINE a == r0.seq
                 b == q.seq
      <4> HIDE DEF a, b
      <4>5. a \in 0..(2 * Half - 1) /\ b \in 0..(2 * Half - 1) /\ (b - a) % (2 * Half) \in 1..(Half - 1)
            /\ (a - b) % (2 * Half) \in 1..(Half - 1)
        BY <4>3, <4>4 DEF a, b
      <4> QED
        BY <1>2, <4>5, NumberAsym
    <3>2. s \in finned => r0.cmd # "psh" /\ \A q \in heap : q.cmd # "psh"
      BY <1>5, <2>1, <2>3 DEF FinsAt, heap
    <3>3. /\ s \in finned \/ r0.cmd = "fin" \/ (\E r \in shaper'[s] : r.cmd = "fin") =>
               task[Data(s)].pc \in {"wait", "done"} /\ task[Data(s)].req.cmd = "fin"
      BY <1>5, <1>9, <2>1, <2>3 DEF FinsAt, heap
    <3>4. task[Data(s)].pc \in {"admit", "push"} => \A q \in shaper'[s] : q.class = "data" => Out!less(q, task[Data(s)].req)
      BY <1>9, <2>1, <2>3 DEF FinsAt, heap
    <3>5. \A r, q \in shaper'[s] : r.cmd = "fin" /\ q.cmd = "psh" => Out!less(q, r)
      BY <1>9, <2>1, <2>3 DEF FinsAt, heap
    <3>6. send'.req = r0 /\ task' = task /\ finned' = finned
      BY <1>3
    <3> QED
      BY <1>9, <2>3, <3>1, <3>2, <3>3, <3>4, <3>5, <3>6 DEF FinsAt
  <2> QED
    BY <2>2, <2>3
<1> QED
  BY <1>10, <1>11, <1>12, <1>13, <1>14, <1>15, <1>16 DEF Out!ShaperInv

(* The frame is written. *)
LEMMA StepWritten ==
    ASSUME Out!ShaperInv, Out!AwakeInv', Out!Written
    PROVE  Out!ShaperInv'
<1>1. /\ Out!TypeOK /\ Out!RequestsSound /\ Out!Numbered /\ Out!WaitersAdmit /\ Out!CursorInList
      /\ Out!SlotsConserved /\ Out!FinOrder
  BY DEF Out!ShaperInv
<1>2. /\ Out!NoRequest \notin Out!Request /\ Out!NoRequest.sid \notin Sids
      /\ \A r \in Out!Request : r.sid \in Sids
  BY <1>1, ShaperTypes
<1>3. /\ send.pc = "write" /\ answered' = answered \cup Out!Caller(send.req)
      /\ finned' = (IF send.req.cmd = "fin" THEN finned \cup {send.req.sid} ELSE finned)
      /\ send' = [pc |-> "pop", req |-> Out!NoRequest]
      /\ UNCHANGED <<task, request_id, shaper_slots, waiters, shaper, rr_list, next, shaper_pending, bypassed, send_die,
                     socket_write_error>>
  BY DEF Out!Written, Out!shaperVars
<1>4. send.req \in Out!Request /\ send.req.sid \in Sids
  BY <1>1, <1>2, <1>3 DEF Out!RequestsSound, Out!Sound
<1>5. Out!TypeOK'
  <2>1. answered' \subseteq Out!Tasks /\ finned' \subseteq Sids
    BY <1>1, <1>3, <1>4 DEF Out!TypeOK, Out!Caller
  <2>2. send' \in [pc: {"check", "pop", "write", "end"}, req: Out!Request \cup {Out!NoRequest}]
    BY <1>3
  <2> QED
    BY <1>1, <1>3, <2>1, <2>2 DEF Out!TypeOK, Out!Tasks, Out!Request, Out!NoRequest, Out!NoSid, Out!Mod,
       Out!NotifyType, Out!Cardinality
<1>6. Out!RequestsSound'
  <2>1. \A s \in Sids : \A r \in shaper'[s] : Out!Sound(r, s)
    BY <1>1, <1>3 DEF Out!RequestsSound
  <2> QED
    BY <1>1, <1>3, <2>1, SoundKept
<1>7. Out!Numbered'
  BY <1>1, <1>3, NumbersKept DEF Out!Asks
<1>8. Out!WaitersAdmit'
  BY <1>1, <1>3 DEF Out!WaitersAdmit
<1>9. Out!CursorInList'
  BY <1>1, <1>3 DEF Out!CursorInList, Out!NoSid
<1>10. Out!SlotsConserved'
  BY <1>1, <1>3, SlotsKept
<1>11. Out!FinOrder'
  <2> SUFFICES ASSUME NEW s \in Sids PROVE FinsAt(s, task', shaper', finned', send'.req)
    BY FinOrderIs
  <2>1. FinsAt(s, task, shaper, finned, send.req)
    BY <1>1, FinOrderIs
  <2>2. send'.req.sid # s
    BY <1>2, <1>3
  <2>3. s \in finned' => s \in finned \/ (send.req.sid = s /\ send.req.cmd = "fin")
    BY <1>3
  <2> QED
    BY <1>3, <2>1, <2>2, <2>3 DEF FinsAt
<1> QED
  BY <1>5, <1>6, <1>7, <1>8, <1>9, <1>10, <1>11 DEF Out!ShaperInv

(* The steps that leave the requests alone. *)
LEMMA StepRests ==
    ASSUME Out!ShaperInv, Out!AwakeInv',
           UNCHANGED <<task, request_id, shaper_slots, waiters, shaper, rr_list, next, finned, bypassed>>,
           answered' \subseteq Out!Tasks, {send_die', socket_write_error'} \subseteq BOOLEAN,
           \/ send' = send
           \/ send.pc # "write" /\ send'.pc \in {"check", "pop"} /\ send' = [send EXCEPT !.pc = send'.pc]
           \/ send' = [pc |-> "end", req |-> Out!NoRequest]
    PROVE  Out!ShaperInv'
<1>1. /\ Out!TypeOK /\ Out!RequestsSound /\ Out!Numbered /\ Out!WaitersAdmit /\ Out!CursorInList
      /\ Out!SlotsConserved /\ Out!FinOrder
  BY DEF Out!ShaperInv
<1>2. Out!NoRequest \notin Out!Request /\ Out!NoRequest.sid \notin Sids
  BY <1>1, ShaperTypes
<1>3. /\ send' \in [pc: {"check", "pop", "write", "end"}, req: Out!Request \cup {Out!NoRequest}]
      /\ send'.req = send.req \/ send'.req = Out!NoRequest
      /\ send'.pc = "write" <=> send'.req # Out!NoRequest
  <2>1. send \in [pc: {"check", "pop", "write", "end"}, req: Out!Request \cup {Out!NoRequest}]
    BY <1>1 DEF Out!TypeOK
  <2>2. send.pc = "write" <=> send.req # Out!NoRequest
    BY <1>1 DEF Out!RequestsSound
  <2>3. CASE send' = send
    BY <2>1, <2>2, <2>3
  <2>4. CASE send.pc # "write" /\ send'.pc \in {"check", "pop"} /\ send' = [send EXCEPT !.pc = send'.pc]
    <3>1. send'.req = send.req
      BY <2>1, <2>4
    <3> QED
      BY <2>1, <2>2, <2>4, <3>1
  <2>5. CASE send' = [pc |-> "end", req |-> Out!NoRequest]
    BY <2>5
  <2> QED
    BY <2>3, <2>4, <2>5
<1>4. Out!TypeOK'
  <2>1. shaper_pending' \in Out!NotifyType({"send"})
    BY DEF Out!AwakeInv, Out!NotifyType
  <2> QED
    BY <1>1, <1>3, <2>1 DEF Out!TypeOK, Out!Tasks, Out!Request, Out!NoRequest, Out!NoSid, Out!Mod,
       Out!NotifyType, Out!Cardinality
<1>5. Out!RequestsSound'
  <2>1. \A s \in Sids : \A r \in shaper'[s] : Out!Sound(r, s)
    BY <1>1 DEF Out!RequestsSound
  <2>2. send'.req # Out!NoRequest => Out!Sound(send'.req, send'.req.sid)
    BY <1>1, <1>3 DEF Out!RequestsSound
  <2> QED
    BY <1>1, <1>3, <2>1, <2>2, SoundKept
<1>6. Out!Numbered'
  BY <1>1, NumbersKept DEF Out!Asks
<1>7. Out!WaitersAdmit'
  BY <1>1 DEF Out!WaitersAdmit
<1>8. Out!CursorInList'
  BY <1>1 DEF Out!CursorInList, Out!NoSid
<1>9. Out!SlotsConserved'
  BY <1>1, SlotsKept
<1>10. Out!FinOrder'
  <2>1. \A s \in Sids : send'.req.sid = s => send'.req = send.req
    BY <1>2, <1>3
  <2> QED
    BY <1>1, <2>1, FinsKept
<1> QED
  BY <1>4, <1>5, <1>6, <1>7, <1>8, <1>9, <1>10 DEF Out!ShaperInv

(* At the start there is no request. *)
LEMMA ShaperInit == Out!Init => Out!ShaperInv
<1> SUFFICES ASSUME Out!Init PROVE Out!ShaperInv
  OBVIOUS
<1>1. /\ task = [t \in Out!Tasks |-> Out!Idle] /\ request_id = Out!Mod - 2 /\ shaper_slots = MAX_SHAPER_SIZE
      /\ waiters = <<>> /\ shaper = [s \in Sids |-> {}] /\ rr_list = <<>> /\ next = Out!NoSid
      /\ shaper_pending = Out!Fresh({"send"}) /\ send = [pc |-> "check", req |-> Out!NoRequest]
      /\ answered = {} /\ finned = {} /\ bypassed = [s \in Sids |-> 0]
      /\ send_die = FALSE /\ socket_write_error = FALSE
  BY DEF Out!Init
<1>2. Out!AwakeInv
  BY AwakeInit
<1>3. \A t \in Out!Tasks : task[t].pc = "idle" /\ task[t].req = Out!NoRequest
  BY <1>1 DEF Out!Idle
<1>4. Out!TypeOK
  <2>1. task \in [Out!Tasks -> [pc: {"idle", "admit", "push", "wait", "done"}, req: Out!Request \cup {Out!NoRequest}]]
    BY <1>1 DEF Out!Idle
  <2>2. request_id \in 0..(Out!Mod - 1) /\ shaper_slots \in 0..MAX_SHAPER_SIZE
    BY <1>1, ShaperAssumption DEF Out!Mod
  <2>3. bypassed \in [Sids -> 0..Out!Cardinality(Sids)]
    <3>1. Out!Cardinality(Sids) \in Nat
      BY Counted, ShaperAssumption, FS_CardinalityType
    <3> QED
      BY <1>1, <3>1
  <2>4. waiters \in Seq(Out!Tasks) /\ rr_list \in Seq(Sids)
    BY <1>1
  <2>5. shaper_pending \in Out!NotifyType({"send"})
    BY <1>2 DEF Out!AwakeInv
  <2> QED
    BY <1>1, <2>1, <2>2, <2>3, <2>4, <2>5 DEF Out!TypeOK
<1>5. Out!RequestsSound
  BY <1>1, <1>3 DEF Out!RequestsSound
<1>6. Out!Numbered
  <2>1. \A r : r \notin Out!Outstanding
    BY <1>1, <1>3, OutstandingIs DEF Out!Asks
  <2> QED
    BY <1>1, <1>3, <2>1 DEF Out!Numbered, Out!Asks
<1>7. Out!WaitersAdmit
  BY <1>1 DEF Out!WaitersAdmit
<1>8. Out!CursorInList
  BY <1>1 DEF Out!CursorInList, Out!ToSet
<1>9. Out!SlotsConserved
  <2>1. Pushers = {}
    BY <1>3 DEF Pushers
  <2>2. UNION {shaper[s] : s \in Sids} = {}
    BY <1>1
  <2>3. Out!count = 0 /\ Cardinality(Pushers) = 0
    BY <2>1, <2>2, FS_EmptySet, Counted DEF Out!count
  <2> QED
    BY <1>1, <2>3, SlotsAre, ShaperAssumption
<1>10. Out!FinOrder
  <2>1. \A s \in Sids : Out!NoRequest.sid # s /\ Data(s) \in Out!Tasks
    BY <1>4, ShaperTypes DEF Data
  <2> QED
    BY <1>1, <1>3, <2>1, FinOrderIs DEF FinsAt
<1> QED
  BY <1>2, <1>4, <1>5, <1>6, <1>7, <1>8, <1>9, <1>10 DEF Out!ShaperInv

(* Every step of the sending side. *)
LEMMA ShaperNext == ASSUME Out!ShaperInv, Out!Next PROVE Out!ShaperInv'
<1>1. Out!AwakeInv' /\ Out!TypeOK
  BY AwakeNext DEF Out!ShaperInv
<1>2. {send_die, socket_write_error} \subseteq BOOLEAN /\ answered \subseteq Out!Tasks
  BY <1>1 DEF Out!TypeOK
<1>3. CASE Out!SendCheck \/ Out!SendWait \/ Out!Emptied
  <2>1. /\ UNCHANGED <<task, request_id, shaper_slots, waiters, shaper, rr_list, next, finned, bypassed, answered,
                       send_die, socket_write_error>>
        /\ \/ send' = send
           \/ send.pc # "write" /\ \E pc \in {"check", "pop"} : send' = [send EXCEPT !.pc = pc]
    BY <1>3 DEF Out!SendCheck, Out!SendWait, Out!Emptied, Out!shaperVars
  <2>2. \A pc : [send EXCEPT !.pc = pc].pc = pc
    BY <1>1 DEF Out!TypeOK
  <2> QED
    BY <1>1, <1>2, <2>1, <2>2, StepRests
<1>4. CASE Out!WriteFails \/ Out!SendDies \/ Out!CloseSession
  <2>1. /\ UNCHANGED <<task, request_id, shaper_slots, waiters, shaper, rr_list, next, finned, bypassed>>
        /\ send' = send \/ send' = [pc |-> "end", req |-> Out!NoRequest]
        /\ answered' = answered \/ answered' = answered \cup Out!Caller(send.req)
        /\ {send_die', socket_write_error'} \subseteq BOOLEAN
    BY <1>2, <1>4 DEF Out!WriteFails, Out!SendDies, Out!CloseSession, Out!shaperVars
  <2>2. answered' \subseteq Out!Tasks
    BY <1>2, <2>1 DEF Out!Caller
  <2> QED
    BY <1>1, <2>1, <2>2, StepRests
<1> QED
  BY <1>1, <1>3, <1>4, StepBegin, StepAdmit, StepLeave, StepPush, StepPop, StepWritten
     DEF Out!Next, Out!Writer, Out!Sender

-----------------------------------------------------------------------------
(* SmuxSession: TokenInv is inductive.                                     *)

(* The tokens in hand of a stream's reader, and of its closer. *)
Hand(h, s, who) == h[<<s, who>>]

(* The tokens that recv_loop is about to take. *)
Owed(r) == IF r.pc = "deduct" THEN r.len ELSE 0

(* On many threads. *)
LEMMA OneTotals ==
    /\ One!Total(<<>>) = 0
    /\ \A s \in Seq(LoneSizes) : One!Total(s) \in Nat
    /\ \A s \in Seq(LoneSizes), x \in LoneSizes : One!Total(Append(s, x)) = One!Total(s) + x
    /\ \A s \in Seq(LoneSizes) : s # <<>> => /\ One!Total(s) = Head(s) + One!Total(Tail(s))
                                             /\ Tail(s) \in Seq(LoneSizes) /\ Head(s) \in Nat
<1>1. \A s : One!Total(s) = SumOf(s)
  BY DEF One!Total, SumOf
<1>2. LoneSizes \subseteq Nat /\ \A s \in Seq(LoneSizes) : s \in Seq(Nat)
  <2>1. LoneSizes \subseteq Nat
    BY SmuxAssumption
  <2>2. ASSUME NEW s \in Seq(LoneSizes) PROVE s \in Seq(Nat)
    <3>1. Len(s) \in Nat /\ s \in [1..Len(s) -> LoneSizes]
      OBVIOUS
    <3>2. s \in [1..Len(s) -> Nat]
      BY <2>1, <3>1
    <3> QED
      BY <3>1, <3>2, FunctionIsSeq
  <2> QED
    BY <2>1, <2>2
<1>3. \A s \in Seq(LoneSizes) : s # <<>> => Tail(s) \in Seq(LoneSizes) /\ Head(s) \in LoneSizes
  OBVIOUS
<1> QED
  BY <1>1, <1>2, <1>3, SumOfFacts

(* What the stream s holds, of any buffer and tokens in hand. *)
OneHolds(b, h) == [s \in Lone |-> One!Total(b[s]) + Hand(h, s, "rd") + Hand(h, s, "cl")]

(* TokensConserved, in terms of OneHolds. *)
LEMMA OneConserved ==
    /\ One!TokensConserved <=>
         bucket + SumFunction(OneHolds(buf, inhand)) = MaxReceiveBuffer + (IF recv.pc = "deduct" THEN recv.len ELSE 0)
    /\ One!TokensConserved' <=>
         bucket' + SumFunction(OneHolds(buf', inhand')) = MaxReceiveBuffer + (IF recv'.pc = "deduct" THEN recv'.len ELSE 0)
<1>1. \A w : One!SumFunction(w) = SumFunction(w)
  BY DEF One!SumFunction, One!SumFunctionOnSet, One!FoldFunctionOnSet, One!MapThenFoldSet,
         SumFunction, SumFunctionOnSet, FoldFunctionOnSet, MapThenFoldSet
<1>2. [s \in Lone |-> One!Holds(s)] = OneHolds(buf, inhand)
  BY DEF One!Holds, OneHolds, Hand
<1>3. [s \in Lone |-> One!Holds(s)]' = OneHolds(buf', inhand')
  BY DEF One!Holds, OneHolds, Hand, One!Total
<1>4. One!TokensConserved <=>
        bucket + SumFunction([s \in Lone |-> One!Holds(s)]) = MaxReceiveBuffer + (IF recv.pc = "deduct" THEN recv.len ELSE 0)
  BY <1>1 DEF One!TokensConserved
<1>5. One!TokensConserved' <=>
        bucket' + SumFunction([s \in Lone |-> One!Holds(s)]') = MaxReceiveBuffer + (IF recv'.pc = "deduct" THEN recv'.len ELSE 0)
  BY <1>1 DEF One!TokensConserved, One!SumFunction, One!SumFunctionOnSet, One!FoldFunctionOnSet, One!MapThenFoldSet
<1> QED
  BY <1>2, <1>3, <1>4, <1>5

(* The bucket and the stream x, together, keep theirs. *)
OneKept(x) ==
    (bucket' + (One!Total(buf'[x]) + Hand(inhand', x, "rd") + Hand(inhand', x, "cl"))) - Owed(recv')
        = (bucket + (One!Total(buf[x]) + Hand(inhand, x, "rd") + Hand(inhand, x, "cl"))) - Owed(recv)

(* Nothing else moves, and what x has in hand it is about to return. *)
OneOthers(x) ==
    /\ \A s \in Lone : s # x => /\ buf'[s] = buf[s] /\ Hand(inhand', s, "rd") = Hand(inhand, s, "rd")
                                /\ Hand(inhand', s, "cl") = Hand(inhand, s, "cl")
                                /\ rd'[s] = rd[s] /\ cl'[s] = cl[s]
    /\ Hand(inhand', x, "rd") # 0 => rd'[x] = "return"
    /\ Hand(inhand', x, "cl") # 0 => cl'[x] = "return"

(* What moves the tokens of one stream, *)
LEMMA OneMoves ==
    ASSUME One!TokenInv, One!TypeOK', NEW x \in Lone,
           OneOthers(x), OneKept(x)
    PROVE  One!TokenInv'
<1>1. One!TypeOK /\ One!InHand /\ One!TokensConserved
  BY DEF One!TokenInv
<1>3. One!InHand'
  BY <1>1 DEF One!InHand, OneOthers, Hand
<1>4. One!TokensConserved'
  <2> DEFINE w == OneHolds(buf, inhand)
             v == OneHolds(buf', inhand')
             d == Owed(recv)
             e == Owed(recv')
  <2>1. /\ recv.len \in Nat /\ recv'.len \in Nat /\ bucket \in Int /\ bucket' \in Int
        /\ \A s \in Lone : buf[s] \in Seq(LoneSizes) /\ buf'[s] \in Seq(LoneSizes)
    <3>1. bucket \in Int /\ bucket' \in Int /\ One!StateTypes /\ One!StateTypes'
      BY <1>1 DEF One!TypeOK
    <3>2. recv.len \in LoneSizes \cup {0} /\ buf \in [Lone -> Seq(LoneSizes)]
      BY <3>1 DEF One!StateTypes
    <3>3. recv'.len \in LoneSizes \cup {0} /\ buf' \in [Lone -> Seq(LoneSizes)]
      BY <3>1 DEF One!StateTypes
    <3>4. LoneSizes \subseteq Nat
      BY SmuxAssumption
    <3>5. \A k \in LoneSizes \cup {0} : k \in Nat
      BY <3>4
    <3>6. recv.len \in Nat /\ recv'.len \in Nat
      BY <3>2, <3>3, <3>5, Zenon
    <3>7. \A s \in Lone : buf[s] \in Seq(LoneSizes) /\ buf'[s] \in Seq(LoneSizes)
      BY <3>2, <3>3, Zenon
    <3> QED
      BY <3>1, <3>6, <3>7, Zenon
  <2>2. \A s \in Lone : /\ Hand(inhand, s, "rd") \in Nat /\ Hand(inhand, s, "cl") \in Nat
                        /\ Hand(inhand', s, "rd") \in Nat /\ Hand(inhand', s, "cl") \in Nat
    BY <1>1 DEF One!TypeOK, Hand
  <2>3. \A s \in Lone : One!Total(buf[s]) \in Nat /\ One!Total(buf'[s]) \in Nat
    BY <2>1, OneTotals
  <2>4. w \in [Lone -> Nat] /\ v \in [Lone -> Nat]
    <3>1. \A s \in Lone : /\ One!Total(buf[s]) + Hand(inhand, s, "rd") + Hand(inhand, s, "cl") \in Nat
                          /\ One!Total(buf'[s]) + Hand(inhand', s, "rd") + Hand(inhand', s, "cl") \in Nat
      BY <2>2, <2>3
    <3> QED
      BY <3>1, Zenon DEF OneHolds
  <2>5. \A s \in Lone : s # x => v[s] = w[s]
    BY DEF OneHolds, OneOthers
  <2>6. w[x] = One!Total(buf[x]) + Hand(inhand, x, "rd") + Hand(inhand, x, "cl")
        /\ v[x] = One!Total(buf'[x]) + Hand(inhand', x, "rd") + Hand(inhand', x, "cl")
    BY DEF OneHolds
  <2>7. d \in Int /\ e \in Int /\ MaxReceiveBuffer \in Int /\ IsFiniteSet(Lone)
    BY <2>1, SmuxAssumption DEF Owed
  <2>8. (bucket' + v[x]) - e = (bucket + w[x]) - d
    BY <2>6 DEF OneKept
  <2>9. bucket + SumFunction(w) = MaxReceiveBuffer + d
    BY <1>1, OneConserved DEF Owed
  <2> HIDE DEF w, v, d, e
  <2>10. bucket' + SumFunction(v) = MaxReceiveBuffer + e
    <3>1. SumFunction(w) \in Nat /\ SumFunction(v) = SumFunction(w) + v[x] - w[x]
      BY <2>4, <2>5, <2>7, SumChanges
    <3>2. v[x] \in Nat /\ w[x] \in Nat
      BY <2>4
    <3> DEFINE p == SumFunction(w)
               q == SumFunction(v)
               k == w[x]
               l == v[x]
               b == bucket
               c == bucket'
    <3>3. /\ p \in Nat /\ q = p + l - k /\ k \in Nat /\ l \in Nat /\ b + p = MaxReceiveBuffer + d
          /\ (c + l) - e = (b + k) - d /\ b \in Int /\ c \in Int
      BY <2>1, <2>8, <2>9, <3>1, <3>2
    <3> HIDE DEF p, q, k, l, b, c
    <3>4. c + q = MaxReceiveBuffer + e
      BY <2>7, <3>3
    <3> QED
      BY <3>4 DEF q, c
  <2> QED
    BY <2>10, OneConserved DEF v, e, Owed
<1> QED
  BY <1>3, <1>4 DEF One!TokenInv

(* what moves none while recv_loop owes none, *)
LEMMA OneRests ==
    ASSUME One!TokenInv, One!StateTypes', bucket_notify' \in One!NotifyType({"recv"}),
           UNCHANGED <<bucket, buf, inhand>>,
           recv.pc # "deduct", recv'.pc # "deduct",
           \A s \in Lone : (rd[s] = "return" => rd'[s] = "return") /\ (cl[s] = "return" => cl'[s] = "return")
    PROVE  One!TokenInv'
<1>1. One!TypeOK /\ One!InHand /\ One!TokensConserved
  BY DEF One!TokenInv
<1>2. One!TypeOK'
  BY <1>1 DEF One!TypeOK, One!StateTypes, One!NotifyType, One!Reading, One!Ended
<1>3. One!InHand'
  BY <1>1 DEF One!InHand
<1>4. One!TokensConserved'
  BY <1>1, OneConserved
<1> QED
  BY <1>2, <1>3, <1>4 DEF One!TokenInv

(* and what moves none and leaves recv_loop alone. *)
LEMMA OneStays ==
    ASSUME One!TokenInv, One!StateTypes', bucket_notify' \in One!NotifyType({"recv"}),
           UNCHANGED <<bucket, buf, inhand, recv>>,
           \A s \in Lone : (rd[s] = "return" => rd'[s] = "return") /\ (cl[s] = "return" => cl'[s] = "return")
    PROVE  One!TokenInv'
<1>1. One!TypeOK /\ One!InHand /\ One!TokensConserved
  BY DEF One!TokenInv
<1>2. One!TypeOK'
  BY <1>1 DEF One!TypeOK, One!StateTypes, One!NotifyType, One!Reading, One!Ended
<1>3. One!InHand'
  BY <1>1 DEF One!InHand
<1>4. One!TokensConserved'
  BY <1>1, OneConserved
<1> QED
  BY <1>2, <1>3, <1>4 DEF One!TokenInv

(* recv_loop. *)
LEMMA OneRecvTokens ==
    ASSUME One!StreamInv, One!TokenInv, One!StateTypes', bucket_notify' \in One!NotifyType({"recv"}), One!RecvLoop
    PROVE  One!TokenInv'
<1> USE DEF One!recvVars, One!mapVars, One!tokenVars, One!bucketVars, One!At
<1>1. /\ One!StateTypes /\ One!FrameSound /\ LoneSizes \subseteq Nat
      /\ bucket \in Int /\ inhand \in [Lone \X {"rd", "cl"} -> Nat] /\ One!InHand
  BY SmuxAssumption DEF One!StreamInv, One!TokenInv, One!TypeOK
<1>2. CASE One!RecvCheck \/ One!RecvWait \/ One!RecvDie \/ One!RecvError \/ One!RecvNop
  <2>1. UNCHANGED <<bucket, buf, inhand, rd, cl>> /\ recv.pc # "deduct" /\ recv'.pc # "deduct"
    BY <1>2 DEF One!RecvCheck, One!RecvWait, One!RecvDie, One!RecvError, One!RecvNop
  <2> QED
    BY <2>1, OneRests
<1>3. ASSUME NEW s, NEW pc \in {"syn", "push", "fin"}, NEW len, One!RecvFrame(s, pc, len) PROVE One!TokenInv'
  <2>1. UNCHANGED <<bucket, buf, inhand, rd, cl>> /\ recv.pc # "deduct" /\ recv'.pc # "deduct"
    BY <1>3 DEF One!RecvFrame
  <2> QED
    BY <2>1, OneRests
<1>4. CASE One!RecvSyn \/ One!RecvAccept \/ One!RecvFin \/ One!RecvClean
  <2>1. UNCHANGED <<bucket, buf, inhand, rd, cl>> /\ recv.pc # "deduct"
    BY <1>4 DEF One!RecvSyn, One!RecvAccept, One!RecvFin, One!RecvClean
  <2>2. \/ recv' = One!At("check") \/ recv' = [recv EXCEPT !.pc = "accept"] \/ recv' = [recv EXCEPT !.pc = "clean"]
    BY <1>4 DEF One!RecvSyn, One!RecvAccept, One!RecvFin, One!RecvClean
  <2>3. recv'.pc # "deduct"
    BY <1>1, <2>2 DEF One!StateTypes
  <2> QED
    BY <2>1, <2>3, OneRests
<1>5. CASE One!RecvPush
  <2>1. /\ recv.pc = "push" /\ UNCHANGED <<bucket, inhand, rd, cl>> /\ recv.sid \in Lone /\ recv.len \in LoneSizes
        /\ buf \in [Lone -> Seq(LoneSizes)]
    BY <1>1, <1>5 DEF One!RecvPush, One!FrameSound, One!StateTypes
  <2>2. CASE recv' = One!At("check") /\ buf' = buf
    BY <2>1, <2>2, OneRests
  <2>3. CASE recv' = [recv EXCEPT !.pc = "deduct"] /\ buf' = [buf EXCEPT ![recv.sid] = Append(@, recv.len)]
    <3> DEFINE x == recv.sid
               n == recv.len
    <3>1. recv'.pc = "deduct" /\ recv'.len = n
      BY <1>1, <2>3 DEF One!StateTypes
    <3>2. buf'[x] = Append(buf[x], n) /\ \A s \in Lone : s # x => buf'[s] = buf[s]
      BY <2>1, <2>3
    <3>3. One!Total(buf'[x]) = One!Total(buf[x]) + n /\ One!Total(buf[x]) \in Nat
      BY <2>1, <3>2, OneTotals
    <3> HIDE DEF x, n
    <3>4. x \in Lone /\ n \in Nat /\ recv.pc # "deduct"
      BY <1>1, <2>1 DEF x, n
    <3>5. Hand(inhand, x, "rd") \in Nat /\ Hand(inhand, x, "cl") \in Nat
      BY <1>1, <3>4 DEF Hand
    <3>6. OneKept(x)
      <4> DEFINE t == One!Total(buf[x])
                 r == Hand(inhand, x, "rd")
                 c == Hand(inhand, x, "cl")
                 b == bucket
      <4>1. (b + ((t + n) + r + c)) - n = (b + (t + r + c)) - 0
        <5>1. t \in Nat /\ r \in Nat /\ c \in Nat /\ b \in Int
          BY <1>1, <3>3, <3>5
        <5> HIDE DEF t, r, c, b
        <5> QED
          BY <3>4, <5>1
      <4> QED
        BY <2>1, <3>1, <3>3, <3>4, <4>1 DEF OneKept, Owed
    <3>7. OneOthers(x)
      BY <1>1, <2>1, <3>2, <3>4 DEF OneOthers, One!InHand, Hand
    <3>8. One!TypeOK'
      BY <1>1, <2>1 DEF One!TypeOK, One!NotifyType
    <3> QED
      BY <3>4, <3>6, <3>7, <3>8, OneMoves
  <2> QED
    BY <1>5, <2>2, <2>3 DEF One!RecvPush
<1>6. CASE One!RecvDeduct
  <2> DEFINE x == recv.sid
             n == recv.len
  <2>1. /\ recv.pc = "deduct" /\ UNCHANGED <<buf, inhand, rd, cl>> /\ x \in Lone /\ n \in LoneSizes
        /\ bucket' = bucket - n /\ recv'.pc # "deduct"
        /\ buf \in [Lone -> Seq(LoneSizes)]
    BY <1>1, <1>6 DEF One!RecvDeduct, One!FrameSound, One!StateTypes
  <2> HIDE DEF x, n
  <2>2. n \in Nat /\ One!Total(buf[x]) \in Nat /\ Hand(inhand, x, "rd") \in Nat /\ Hand(inhand, x, "cl") \in Nat
    <3>1. One!Total(buf[x]) \in Nat
      BY <2>1, OneTotals
    <3> QED
      BY <1>1, <2>1, <3>1 DEF Hand
  <2>3. OneKept(x)
    <3> DEFINE t == One!Total(buf[x])
               r == Hand(inhand, x, "rd")
               c == Hand(inhand, x, "cl")
               b == bucket
    <3>1. ((b - n) + (t + r + c)) - 0 = (b + (t + r + c)) - n
      <4>1. t \in Nat /\ r \in Nat /\ c \in Nat /\ b \in Int
        BY <1>1, <2>2
      <4> HIDE DEF t, r, c, b
      <4> QED
        BY <2>2, <4>1
    <3> QED
      BY <2>1, <3>1 DEF OneKept, Owed, n
  <2>4. OneOthers(x)
    BY <1>1, <2>1 DEF OneOthers, One!InHand, Hand
  <2>5. One!TypeOK'
    <3>1. bucket' \in Int
      BY <1>1, <2>1, <2>2
    <3> QED
      BY <1>1, <2>1, <3>1 DEF One!TypeOK, One!NotifyType
  <2> QED
    BY <2>1, <2>3, <2>4, <2>5, OneMoves
<1> QED
  BY <1>2, <1>3, <1>4, <1>5, <1>6 DEF One!RecvLoop

(* return_tokens(), by whoever of stream x. *)
LEMMA OneReturns ==
    ASSUME One!TokenInv, One!StateTypes', bucket_notify' \in One!NotifyType({"recv"}), NEW x \in Lone,
           NEW who \in {"rd", "cl"}, NEW at, NEW then, One!ReturnTokens(x, who, at, then), UNCHANGED <<buf, recv>>,
           \A s \in Lone : s # x => rd'[s] = rd[s] /\ cl'[s] = cl[s],
           who = "rd" => cl'[x] = cl[x] /\ rd[x] = at,
           who = "cl" => rd'[x] = rd[x] /\ cl[x] = at
    PROVE  One!TokenInv'
<1>1. /\ bucket \in Int /\ inhand \in [Lone \X {"rd", "cl"} -> Nat] /\ One!InHand /\ One!StateTypes
      /\ buf \in [Lone -> Seq(LoneSizes)] /\ One!TokensConserved
  BY DEF One!TokenInv, One!TypeOK, One!StateTypes
<1>2. CASE at = "return" /\ bucket' = bucket + inhand[<<x, who>>] /\ inhand' = [inhand EXCEPT ![<<x, who>>] = 0]
  <2>1. bucket' = bucket + Hand(inhand, x, who)
    BY <1>2 DEF Hand
  <2>2. /\ inhand' \in [Lone \X {"rd", "cl"} -> Nat] /\ Hand(inhand', x, who) = 0
        /\ \A u \in Lone, z \in {"rd", "cl"} : u # x \/ z # who => Hand(inhand', u, z) = Hand(inhand, u, z)
    <3>1. <<x, who>> \in Lone \X {"rd", "cl"} /\ DOMAIN inhand = Lone \X {"rd", "cl"}
      BY <1>1
    <3>2. inhand' \in [Lone \X {"rd", "cl"} -> Nat]
      BY <1>1, <1>2, <3>1
    <3>3. Hand(inhand', x, who) = 0
      BY <1>2, <3>1 DEF Hand
    <3>4. ASSUME NEW u \in Lone, NEW z \in {"rd", "cl"}, u # x \/ z # who PROVE Hand(inhand', u, z) = Hand(inhand, u, z)
      <4>1. <<u, z>> \in Lone \X {"rd", "cl"} /\ <<u, z>> # <<x, who>>
        BY <3>4
      <4> QED
        BY <1>2, <3>1, <4>1 DEF Hand
    <3> QED
      BY <3>2, <3>3, <3>4, Zenon
  <2>3. \A z \in {"rd", "cl"} : Hand(inhand, x, z) \in Nat
    BY <1>1 DEF Hand
  <2>4. One!Total(buf[x]) \in Nat
    BY <1>1, OneTotals
  <2>5. OneKept(x)
    <3> DEFINE t == One!Total(buf[x])
               r == Hand(inhand, x, "rd")
               c == Hand(inhand, x, "cl")
               b == bucket
    <3>1. t \in Nat /\ r \in Nat /\ c \in Nat /\ b \in Int
      BY <1>1, <2>3, <2>4
    <3>2. \/ bucket' = b + r /\ Hand(inhand', x, "rd") = 0 /\ Hand(inhand', x, "cl") = c
          \/ bucket' = b + c /\ Hand(inhand', x, "rd") = r /\ Hand(inhand', x, "cl") = 0
      BY <2>1, <2>2
    <3>3. /\ recv' = recv /\ buf'[x] = buf[x]
      OBVIOUS
    <3> HIDE DEF t, r, c, b
    <3>4. (b + r) + (t + 0 + c) = b + (t + r + c) /\ (b + c) + (t + r + 0) = b + (t + r + c)
      BY <3>1
    <3>5. bucket' + (t + Hand(inhand', x, "rd") + Hand(inhand', x, "cl")) = b + (t + r + c)
      <4>1. CASE bucket' = b + r /\ Hand(inhand', x, "rd") = 0 /\ Hand(inhand', x, "cl") = c
        BY <3>4, <4>1
      <4>2. CASE bucket' = b + c /\ Hand(inhand', x, "rd") = r /\ Hand(inhand', x, "cl") = 0
        BY <3>4, <4>2
      <4> QED
        BY <3>2, <4>1, <4>2
    <3>6. bucket' + (One!Total(buf'[x]) + Hand(inhand', x, "rd") + Hand(inhand', x, "cl")) = b + (t + r + c)
      BY <3>3, <3>5, Zenon DEF t
    <3>7. Owed(recv') = Owed(recv)
      BY <3>3
    <3> QED
      BY <3>6, <3>7, Zenon DEF OneKept, t, r, c, b
  <2>6. OneOthers(x)
    <3>1. \A s \in Lone : s # x => /\ buf'[s] = buf[s] /\ Hand(inhand', s, "rd") = Hand(inhand, s, "rd")
                                   /\ Hand(inhand', s, "cl") = Hand(inhand, s, "cl")
                                   /\ rd'[s] = rd[s] /\ cl'[s] = cl[s]
      BY <2>2
    <3>2. who = "rd" => Hand(inhand', x, "rd") = 0 /\ Hand(inhand', x, "cl") = Hand(inhand, x, "cl") /\ cl'[x] = cl[x]
      BY <2>2
    <3>3. who = "cl" => Hand(inhand', x, "cl") = 0 /\ Hand(inhand', x, "rd") = Hand(inhand, x, "rd") /\ rd'[x] = rd[x]
      BY <2>2
    <3>4. (Hand(inhand, x, "rd") # 0 => rd[x] = "return") /\ (Hand(inhand, x, "cl") # 0 => cl[x] = "return")
      BY <1>1 DEF One!InHand, Hand
    <3>5. (Hand(inhand', x, "rd") # 0 => rd'[x] = "return") /\ (Hand(inhand', x, "cl") # 0 => cl'[x] = "return")
      BY <3>2, <3>3, <3>4
    <3> QED
      BY <3>1, <3>5 DEF OneOthers
  <2>7. One!TypeOK'
    <3>1. bucket' \in Int
      BY <1>1, <2>1, <2>3
    <3> QED
      BY <1>1, <2>2, <3>1 DEF One!TypeOK, One!NotifyType
  <2> QED
    BY <2>5, <2>6, <2>7, OneMoves
<1>3. CASE at = "notify" /\ UNCHANGED <<bucket, inhand>>
  <2>1. \A s \in Lone : (rd[s] = "return" => rd'[s] = "return") /\ (cl[s] = "return" => cl'[s] = "return")
    BY <1>3
  <2> QED
    BY <1>3, <2>1, OneStays
<1> QED
  BY <1>2, <1>3 DEF One!ReturnTokens

(* The reader of a stream. *)
LEMMA OneReaderTokens ==
    ASSUME One!TokenInv, One!StateTypes', bucket_notify' \in One!NotifyType({"recv"}), NEW x \in Lone, One!Reader(x)
    PROVE  One!TokenInv'
<1> USE DEF One!recvVars, One!mapVars, One!tokenVars, One!bucketVars
<1>1. /\ bucket \in Int /\ inhand \in [Lone \X {"rd", "cl"} -> Nat] /\ One!InHand /\ One!StateTypes
      /\ buf \in [Lone -> Seq(LoneSizes)] /\ DOMAIN rd = Lone
  BY DEF One!TokenInv, One!TypeOK, One!StateTypes
<1>2. CASE One!ReadDie(x) \/ One!ReadBuffer(x) \/ One!ReadFin(x) \/ One!ReadRest(x) \/ One!ReadSelect(x)
  <2>1. /\ UNCHANGED <<bucket, buf, inhand, recv, cl>> /\ rd[x] # "return"
        /\ \E v : rd' = [rd EXCEPT ![x] = v]
    BY <1>2 DEF One!ReadDie, One!ReadBuffer, One!ReadFin, One!ReadRest, One!ReadSelect
  <2>2. \A s \in Lone : (rd[s] = "return" => rd'[s] = "return") /\ (cl[s] = "return" => cl'[s] = "return")
    BY <1>1, <2>1
  <2> QED
    BY <2>1, <2>2, OneStays
<1>3. CASE One!ReadPop(x)
  <2>1. rd[x] = "pop" /\ UNCHANGED <<bucket, recv, cl>>
    BY <1>3 DEF One!ReadPop
  <2>2. CASE buf[x] = <<>>
    <3>1. UNCHANGED <<buf, inhand>> /\ rd' = [rd EXCEPT ![x] = "die"]
      BY <1>3, <2>2 DEF One!ReadPop
    <3>2. \A s \in Lone : (rd[s] = "return" => rd'[s] = "return") /\ (cl[s] = "return" => cl'[s] = "return")
      BY <1>1, <2>1, <3>1
    <3> QED
      BY <2>1, <3>1, <3>2, OneStays
  <2>3. CASE buf[x] # <<>>
    <3> DEFINE n == Head(buf[x])
    <3>1. /\ buf' = [buf EXCEPT ![x] = Tail(@)] /\ inhand' = [inhand EXCEPT ![<<x, "rd">>] = n]
          /\ rd' = [rd EXCEPT ![x] = "return"]
      BY <1>3, <2>3 DEF One!ReadPop
    <3>2. /\ One!Total(buf[x]) = n + One!Total(Tail(buf[x])) /\ n \in Nat /\ One!Total(Tail(buf[x])) \in Nat
      BY <1>1, <2>3, OneTotals
    <3>3. /\ buf'[x] = Tail(buf[x]) /\ rd'[x] = "return"
          /\ \A s \in Lone : s # x => buf'[s] = buf[s] /\ rd'[s] = rd[s]
      BY <1>1, <3>1
    <3> HIDE DEF n
    <3>4. /\ inhand' \in [Lone \X {"rd", "cl"} -> Nat] /\ Hand(inhand', x, "rd") = n
          /\ \A u \in Lone, z \in {"rd", "cl"} : u # x \/ z # "rd" => Hand(inhand', u, z) = Hand(inhand, u, z)
      <4>1. <<x, "rd">> \in Lone \X {"rd", "cl"} /\ DOMAIN inhand = Lone \X {"rd", "cl"}
        BY <1>1
      <4>2. inhand' \in [Lone \X {"rd", "cl"} -> Nat]
        BY <1>1, <3>1, <3>2, <4>1
      <4>3. Hand(inhand', x, "rd") = n
        BY <3>1, <4>1 DEF Hand
      <4>4. ASSUME NEW u \in Lone, NEW z \in {"rd", "cl"}, u # x \/ z # "rd" PROVE Hand(inhand', u, z) = Hand(inhand, u, z)
        <5>1. <<u, z>> \in Lone \X {"rd", "cl"} /\ <<u, z>> # <<x, "rd">>
          BY <4>4
        <5> QED
          BY <3>1, <4>1, <5>1 DEF Hand
      <4> QED
        BY <4>2, <4>3, <4>4, Zenon
    <3>5. Hand(inhand, x, "rd") = 0 /\ Hand(inhand, x, "cl") \in Nat /\ Hand(inhand', x, "cl") = Hand(inhand, x, "cl")
      BY <1>1, <2>1, <3>4 DEF One!InHand, Hand
    <3>6. OneKept(x)
      <4> DEFINE t == One!Total(Tail(buf[x]))
                 c == Hand(inhand, x, "cl")
                 b == bucket
      <4>1. b + (t + n + c) = b + ((n + t) + 0 + c)
        <5>1. t \in Nat /\ c \in Nat /\ b \in Int
          BY <1>1, <3>2, <3>5
        <5> HIDE DEF t, c, b
        <5> QED
          BY <3>2, <5>1
      <4>2. /\ One!Total(buf'[x]) = t /\ One!Total(buf[x]) = n + t /\ Hand(inhand', x, "cl") = c /\ bucket' = b
            /\ Hand(inhand', x, "rd") = n /\ Hand(inhand, x, "rd") = 0 /\ recv' = recv
        BY <2>1, <3>2, <3>3, <3>4, <3>5
      <4>3. bucket' + (One!Total(buf'[x]) + Hand(inhand', x, "rd") + Hand(inhand', x, "cl"))
              = bucket + (One!Total(buf[x]) + Hand(inhand, x, "rd") + Hand(inhand, x, "cl"))
        BY <4>1, <4>2, Zenon
      <4>4. Owed(recv') = Owed(recv)
        BY <4>2
      <4> QED
        BY <4>3, <4>4, Zenon DEF OneKept
    <3>7. OneOthers(x)
      <4>1. Hand(inhand', x, "cl") # 0 => cl'[x] = "return"
        BY <1>1, <2>1, <3>5 DEF One!InHand, Hand
      <4> QED
        BY <2>1, <3>3, <3>4, <4>1 DEF OneOthers
    <3>8. One!TypeOK'
      BY <1>1, <2>1, <3>4 DEF One!TypeOK, One!NotifyType
    <3> QED
      BY <3>6, <3>7, <3>8, OneMoves
  <2> QED
    BY <2>2, <2>3
<1>4. ASSUME NEW then, One!ReadReturn(x, then) PROVE One!TokenInv'
  <2>1. /\ One!ReturnTokens(x, "rd", rd[x], then) /\ UNCHANGED <<buf, recv, cl>>
        /\ \E v : rd' = [rd EXCEPT ![x] = v]
    BY <1>4 DEF One!ReadReturn
  <2>2. \A s \in Lone : s # x => rd'[s] = rd[s] /\ cl'[s] = cl[s]
    BY <1>1, <2>1
  <2> QED
    BY <2>1, <2>2, OneReturns
<1> QED
  BY <1>2, <1>3, <1>4 DEF One!Reader

(* recycle_tokens(), and the drop of the StreamInner: the closer takes what is in the buffer. *)
LEMMA OneTakes ==
    ASSUME One!TokenInv, One!StateTypes', bucket_notify' \in One!NotifyType({"recv"}), NEW x \in Lone,
           cl[x] # "return", NEW there, cl' = [cl EXCEPT ![x] = IF buf[x] = <<>> THEN there ELSE "return"],
           inhand' = [inhand EXCEPT ![<<x, "cl">>] = One!Total(buf[x])], buf' = [buf EXCEPT ![x] = <<>>],
           UNCHANGED <<bucket, recv, rd>>
    PROVE  One!TokenInv'
<1>1. /\ bucket \in Int /\ inhand \in [Lone \X {"rd", "cl"} -> Nat] /\ One!InHand
      /\ buf \in [Lone -> Seq(LoneSizes)] /\ DOMAIN cl = Lone
  BY DEF One!TokenInv, One!TypeOK, One!StateTypes
<1> DEFINE n == One!Total(buf[x])
<1>2. n \in Nat /\ One!Total(<<>>) = 0
  BY <1>1, OneTotals
<1>3. /\ buf'[x] = <<>> /\ cl'[x] = (IF buf[x] = <<>> THEN there ELSE "return")
      /\ \A s \in Lone : s # x => buf'[s] = buf[s] /\ cl'[s] = cl[s]
  BY <1>1
<1>4. inhand' = [inhand EXCEPT ![<<x, "cl">>] = n]
  OBVIOUS
<1>5. buf[x] = <<>> => n = 0
  BY <1>2
<1> HIDE DEF n
<1>6. /\ inhand' \in [Lone \X {"rd", "cl"} -> Nat] /\ Hand(inhand', x, "cl") = n
      /\ \A u \in Lone, z \in {"rd", "cl"} : u # x \/ z # "cl" => Hand(inhand', u, z) = Hand(inhand, u, z)
  <2>1. <<x, "cl">> \in Lone \X {"rd", "cl"} /\ DOMAIN inhand = Lone \X {"rd", "cl"}
    BY <1>1
  <2>2. inhand' \in [Lone \X {"rd", "cl"} -> Nat]
    BY <1>1, <1>2, <1>4, <2>1
  <2>3. Hand(inhand', x, "cl") = n
    BY <1>4, <2>1 DEF Hand
  <2>4. ASSUME NEW u \in Lone, NEW z \in {"rd", "cl"}, u # x \/ z # "cl" PROVE Hand(inhand', u, z) = Hand(inhand, u, z)
    <3>1. <<u, z>> \in Lone \X {"rd", "cl"} /\ <<u, z>> # <<x, "cl">>
      BY <2>4
    <3> QED
      BY <1>4, <2>1, <3>1 DEF Hand
  <2> QED
    BY <2>2, <2>3, <2>4, Zenon
<1>7. Hand(inhand, x, "cl") = 0 /\ Hand(inhand, x, "rd") \in Nat /\ Hand(inhand', x, "rd") = Hand(inhand, x, "rd")
  BY <1>1, <1>6 DEF One!InHand, Hand
<1>8. OneKept(x)
  <2> DEFINE r == Hand(inhand, x, "rd")
             b == bucket
  <2>1. b + (0 + r + n) = b + (n + r + 0)
    <3>1. r \in Nat /\ b \in Int
      BY <1>1, <1>7
    <3> HIDE DEF r, b
    <3> QED
      BY <1>2, <3>1
  <2>2. /\ One!Total(buf'[x]) = 0 /\ One!Total(buf[x]) = n /\ Hand(inhand', x, "rd") = r /\ bucket' = b
        /\ Hand(inhand', x, "cl") = n /\ Hand(inhand, x, "cl") = 0 /\ recv' = recv
    BY <1>2, <1>3, <1>6, <1>7 DEF n
  <2>3. bucket' + (One!Total(buf'[x]) + Hand(inhand', x, "rd") + Hand(inhand', x, "cl"))
          = bucket + (One!Total(buf[x]) + Hand(inhand, x, "rd") + Hand(inhand, x, "cl"))
    BY <2>1, <2>2, Zenon
  <2>4. Owed(recv') = Owed(recv)
    BY <2>2
  <2> QED
    BY <2>3, <2>4, Zenon DEF OneKept
<1>9. OneOthers(x)
  <2>1. Hand(inhand', x, "rd") # 0 => rd'[x] = "return"
    BY <1>1, <1>7 DEF One!InHand, Hand
  <2>2. Hand(inhand', x, "cl") # 0 => cl'[x] = "return"
    BY <1>3, <1>5, <1>6
  <2> QED
    BY <1>3, <1>6, <2>1, <2>2 DEF OneOthers
<1>10. One!TypeOK'
  BY <1>1, <1>6 DEF One!TypeOK, One!NotifyType
<1> QED
  BY <1>8, <1>9, <1>10, OneMoves

(* close_write(), close() and the drop of a stream. *)
LEMMA OneCloserTokens ==
    ASSUME One!TokenInv, One!StateTypes', bucket_notify' \in One!NotifyType({"recv"}), NEW x \in Lone, One!Closer(x)
    PROVE  One!TokenInv'
<1> USE DEF One!recvVars, One!mapVars, One!tokenVars, One!bucketVars
<1>1. DOMAIN cl = Lone /\ DOMAIN rd = Lone
  BY DEF One!TokenInv, One!TypeOK, One!StateTypes
<1>2. CASE One!CloseWrite(x) \/ One!CloseWriteEnd(x) \/ One!CloseRemove(x)
  <2>1. /\ UNCHANGED <<bucket, buf, inhand, recv, rd>> /\ cl[x] # "return"
        /\ \E v : cl' = [cl EXCEPT ![x] = v]
    BY <1>2 DEF One!CloseWrite, One!CloseWriteEnd, One!CloseRemove
  <2>2. \A s \in Lone : (rd[s] = "return" => rd'[s] = "return") /\ (cl[s] = "return" => cl'[s] = "return")
    BY <1>1, <2>1
  <2> QED
    BY <2>1, <2>2, OneStays
<1>3. ASSUME NEW drops, One!Close(x, drops) PROVE One!TokenInv'
  <2>1. /\ UNCHANGED <<bucket, buf, inhand, recv>> /\ cl[x] # "return" /\ (drops => rd[x] # "return")
        /\ \E v : cl' = [cl EXCEPT ![x] = v]
        /\ rd' = [rd EXCEPT ![x] = IF drops THEN "gone" ELSE @]
    BY <1>3 DEF One!Close, One!Ended
  <2>2. \A s \in Lone : (rd[s] = "return" => rd'[s] = "return") /\ (cl[s] = "return" => cl'[s] = "return")
    BY <1>1, <2>1
  <2> QED
    BY <2>1, <2>2, OneStays
<1>4. CASE One!CloseRecycle(x)
  <2>1. cl[x] # "return" /\ cl' = [cl EXCEPT ![x] = IF buf[x] = <<>> THEN "remove" ELSE "return"]
        /\ inhand' = [inhand EXCEPT ![<<x, "cl">>] = One!Total(buf[x])] /\ buf' = [buf EXCEPT ![x] = <<>>]
        /\ UNCHANGED <<bucket, recv, rd>>
    BY <1>4 DEF One!CloseRecycle
  <2> QED
    BY <2>1, OneTakes
<1>5. CASE One!Free(x)
  <2>1. cl[x] # "return" /\ cl' = [cl EXCEPT ![x] = IF buf[x] = <<>> THEN "idle" ELSE "return"]
        /\ inhand' = [inhand EXCEPT ![<<x, "cl">>] = One!Total(buf[x])] /\ buf' = [buf EXCEPT ![x] = <<>>]
        /\ UNCHANGED <<bucket, recv, rd>>
    BY <1>5 DEF One!Free, One!Unreferenced
  <2> QED
    BY <2>1, OneTakes
<1>6. ASSUME NEW then, One!CloseReturn(x, then) PROVE One!TokenInv'
  <2>1. /\ One!ReturnTokens(x, "cl", cl[x], then) /\ UNCHANGED <<buf, recv, rd>>
        /\ \E v : cl' = [cl EXCEPT ![x] = v]
    BY <1>6 DEF One!CloseReturn
  <2>2. \A s \in Lone : s # x => rd'[s] = rd[s] /\ cl'[s] = cl[s]
    BY <1>1, <2>1
  <2> QED
    BY <2>1, <2>2, OneReturns
<1> QED
  BY <1>2, <1>3, <1>4, <1>5, <1>6 DEF One!Closer

(* open_stream(), accept_stream(), the session and keepalive. *)
LEMMA OneOpenTokens ==
    ASSUME One!StreamInv, One!TokenInv, One!StateTypes', bucket_notify' \in One!NotifyType({"recv"}),
           \/ \E x \in Lone : One!OpenSyn(x) \/ One!OpenRegister(x)
           \/ One!Accept \/ One!SessionClose \/ One!SessionRelease \/ One!KeepalivePing \/ One!KeepaliveExpiry
    PROVE  One!TokenInv'
<1> USE DEF One!recvVars, One!mapVars, One!tokenVars, One!bucketVars
<1>1. DOMAIN rd = Lone /\ One!Backlogged /\ accepts \in Seq(Lone)
  BY DEF One!StreamInv, One!StateTypes
<1>2. CASE \/ \E x \in Lone : One!OpenSyn(x)
           \/ One!SessionClose \/ One!SessionRelease \/ One!KeepalivePing \/ One!KeepaliveExpiry
  <2>1. UNCHANGED <<bucket, buf, inhand, recv, rd, cl>>
    BY <1>2 DEF One!OpenSyn, One!SessionClose, One!SessionRelease, One!KeepalivePing, One!KeepaliveExpiry
  <2> QED
    BY <2>1, OneStays
<1>3. ASSUME NEW x \in Lone, One!OpenRegister(x) PROVE One!TokenInv'
  <2>1. /\ UNCHANGED <<bucket, buf, inhand, recv, cl>> /\ opener[x] = "syn"
        /\ rd' = rd \/ rd' = [rd EXCEPT ![x] = "pop"]
    BY <1>3 DEF One!OpenRegister
  <2>2. rd[x] = "away"
    BY <1>1, <2>1 DEF One!Backlogged
  <2>3. \A s \in Lone : (rd[s] = "return" => rd'[s] = "return") /\ (cl[s] = "return" => cl'[s] = "return")
    BY <1>1, <2>1, <2>2
  <2> QED
    BY <2>1, <2>3, OneStays
<1>4. CASE One!Accept
  <2> DEFINE x == Head(accepts)
  <2>1. /\ UNCHANGED <<bucket, buf, inhand, recv, cl>> /\ accepts # <<>> /\ rd' = [rd EXCEPT ![x] = "pop"]
    BY <1>4 DEF One!Accept
  <2>2. x = accepts[1] /\ 1 \in DOMAIN accepts /\ x \in Lone
    BY <1>1, <2>1
  <2>3. rd[x] = "away"
    BY <1>1, <2>2 DEF One!Backlogged
  <2> HIDE DEF x
  <2>4. \A s \in Lone : (rd[s] = "return" => rd'[s] = "return") /\ (cl[s] = "return" => cl'[s] = "return")
    BY <1>1, <2>1, <2>2, <2>3
  <2> QED
    BY <2>1, <2>4, OneStays
<1> QED
  BY <1>2, <1>3, <1>4

(* At the start the bucket is full. *)
LEMMA OneTokenInit == ASSUME One!Init, One!StateTypes, bucket_notify \in One!NotifyType({"recv"}) PROVE One!TokenInv
<1>1. /\ bucket = MaxReceiveBuffer /\ recv.pc = "check" /\ buf = [s \in Lone |-> <<>>]
      /\ inhand = [x \in Lone \X {"rd", "cl"} |-> 0]
  BY DEF One!Init, One!At
<1>2. MaxReceiveBuffer \in Nat /\ IsFiniteSet(Lone)
  BY SmuxAssumption
<1>3. One!TypeOK
  BY <1>1, <1>2 DEF One!TypeOK, One!NotifyType
<1>4. \A s \in Lone : Hand(inhand, s, "rd") = 0 /\ Hand(inhand, s, "cl") = 0
  BY <1>1 DEF Hand
<1>5. One!InHand
  BY <1>4 DEF One!InHand, Hand
<1>6. One!TokensConserved
  <2>1. \A s \in Lone : One!Total(buf[s]) = 0
    BY <1>1, OneTotals
  <2>2. \A s \in Lone : One!Total(buf[s]) + Hand(inhand, s, "rd") + Hand(inhand, s, "cl") = 0
    BY <1>4, <2>1
  <2>3. OneHolds(buf, inhand) = [s \in Lone |-> 0]
    BY <2>2, Zenon DEF OneHolds
  <2>4. SumFunction(OneHolds(buf, inhand)) = 0
    BY <1>2, <2>3, SumZero
  <2>5. bucket + 0 = MaxReceiveBuffer + 0
    BY <1>1
  <2> QED
    BY <1>1, <2>4, <2>5, OneConserved
<1> QED
  BY <1>3, <1>5, <1>6 DEF One!TokenInv

(* Every step. *)
LEMMA OneTokenNext ==
    ASSUME One!StreamInv, One!TokenInv, One!Next, One!StateTypes', bucket_notify' \in One!NotifyType({"recv"})
    PROVE  One!TokenInv'
BY OneRecvTokens, OneReaderTokens, OneOpenTokens, OneCloserTokens DEF One!Next

(* On one thread. *)
LEMMA TwoTotals ==
    /\ Two!Total(<<>>) = 0
    /\ \A s \in Seq(Sizes) : Two!Total(s) \in Nat
    /\ \A s \in Seq(Sizes), x \in Sizes : Two!Total(Append(s, x)) = Two!Total(s) + x
    /\ \A s \in Seq(Sizes) : s # <<>> => /\ Two!Total(s) = Head(s) + Two!Total(Tail(s))
                                             /\ Tail(s) \in Seq(Sizes) /\ Head(s) \in Nat
<1>1. \A s : Two!Total(s) = SumOf(s)
  BY DEF Two!Total, SumOf
<1>2. Sizes \subseteq Nat /\ \A s \in Seq(Sizes) : s \in Seq(Nat)
  <2>1. Sizes \subseteq Nat
    BY SmuxAssumption
  <2>2. ASSUME NEW s \in Seq(Sizes) PROVE s \in Seq(Nat)
    <3>1. Len(s) \in Nat /\ s \in [1..Len(s) -> Sizes]
      OBVIOUS
    <3>2. s \in [1..Len(s) -> Nat]
      BY <2>1, <3>1
    <3> QED
      BY <3>1, <3>2, FunctionIsSeq
  <2> QED
    BY <2>1, <2>2
<1>3. \A s \in Seq(Sizes) : s # <<>> => Tail(s) \in Seq(Sizes) /\ Head(s) \in Sizes
  OBVIOUS
<1> QED
  BY <1>1, <1>2, <1>3, SumOfFacts

(* What the stream s holds, of any buffer and tokens in hand. *)
TwoHolds(b, h) == [s \in Streams |-> Two!Total(b[s]) + Hand(h, s, "rd") + Hand(h, s, "cl")]

(* TokensConserved, in terms of TwoHolds. *)
LEMMA TwoConserved ==
    /\ Two!TokensConserved <=>
         bucket + SumFunction(TwoHolds(buf, inhand)) = MaxReceiveBuffer + (IF recv.pc = "deduct" THEN recv.len ELSE 0)
    /\ Two!TokensConserved' <=>
         bucket' + SumFunction(TwoHolds(buf', inhand')) = MaxReceiveBuffer + (IF recv'.pc = "deduct" THEN recv'.len ELSE 0)
<1>1. \A w : Two!SumFunction(w) = SumFunction(w)
  BY DEF Two!SumFunction, Two!SumFunctionOnSet, Two!FoldFunctionOnSet, Two!MapThenFoldSet,
         SumFunction, SumFunctionOnSet, FoldFunctionOnSet, MapThenFoldSet
<1>2. [s \in Streams |-> Two!Holds(s)] = TwoHolds(buf, inhand)
  BY DEF Two!Holds, TwoHolds, Hand
<1>3. [s \in Streams |-> Two!Holds(s)]' = TwoHolds(buf', inhand')
  BY DEF Two!Holds, TwoHolds, Hand, Two!Total
<1>4. Two!TokensConserved <=>
        bucket + SumFunction([s \in Streams |-> Two!Holds(s)]) = MaxReceiveBuffer + (IF recv.pc = "deduct" THEN recv.len ELSE 0)
  BY <1>1 DEF Two!TokensConserved
<1>5. Two!TokensConserved' <=>
        bucket' + SumFunction([s \in Streams |-> Two!Holds(s)]') = MaxReceiveBuffer + (IF recv'.pc = "deduct" THEN recv'.len ELSE 0)
  BY <1>1 DEF Two!TokensConserved, Two!SumFunction, Two!SumFunctionOnSet, Two!FoldFunctionOnSet, Two!MapThenFoldSet
<1> QED
  BY <1>2, <1>3, <1>4, <1>5

(* The bucket and the stream x, together, keep theirs. *)
TwoKept(x) ==
    (bucket' + (Two!Total(buf'[x]) + Hand(inhand', x, "rd") + Hand(inhand', x, "cl"))) - Owed(recv')
        = (bucket + (Two!Total(buf[x]) + Hand(inhand, x, "rd") + Hand(inhand, x, "cl"))) - Owed(recv)

(* Nothing else moves, and what x has in hand it is about to return. *)
TwoOthers(x) ==
    /\ \A s \in Streams : s # x => /\ buf'[s] = buf[s] /\ Hand(inhand', s, "rd") = Hand(inhand, s, "rd")
                                /\ Hand(inhand', s, "cl") = Hand(inhand, s, "cl")
                                /\ rd'[s] = rd[s] /\ cl'[s] = cl[s]
    /\ Hand(inhand', x, "rd") # 0 => rd'[x] = "return"
    /\ Hand(inhand', x, "cl") # 0 => cl'[x] = "return"

(* What moves the tokens of one stream, *)
LEMMA TwoMoves ==
    ASSUME Two!TokenInv, Two!TypeOK', NEW x \in Streams,
           TwoOthers(x), TwoKept(x)
    PROVE  Two!TokenInv'
<1>1. Two!TypeOK /\ Two!InHand /\ Two!TokensConserved
  BY DEF Two!TokenInv
<1>3. Two!InHand'
  BY <1>1 DEF Two!InHand, TwoOthers, Hand
<1>4. Two!TokensConserved'
  <2> DEFINE w == TwoHolds(buf, inhand)
             v == TwoHolds(buf', inhand')
             d == Owed(recv)
             e == Owed(recv')
  <2>1. /\ recv.len \in Nat /\ recv'.len \in Nat /\ bucket \in Int /\ bucket' \in Int
        /\ \A s \in Streams : buf[s] \in Seq(Sizes) /\ buf'[s] \in Seq(Sizes)
    <3>1. bucket \in Int /\ bucket' \in Int /\ Two!StateTypes /\ Two!StateTypes'
      BY <1>1 DEF Two!TypeOK
    <3>2. recv.len \in Sizes \cup {0} /\ buf \in [Streams -> Seq(Sizes)]
      BY <3>1 DEF Two!StateTypes
    <3>3. recv'.len \in Sizes \cup {0} /\ buf' \in [Streams -> Seq(Sizes)]
      BY <3>1 DEF Two!StateTypes
    <3>4. Sizes \subseteq Nat
      BY SmuxAssumption
    <3>5. \A k \in Sizes \cup {0} : k \in Nat
      BY <3>4
    <3>6. recv.len \in Nat /\ recv'.len \in Nat
      BY <3>2, <3>3, <3>5, Zenon
    <3>7. \A s \in Streams : buf[s] \in Seq(Sizes) /\ buf'[s] \in Seq(Sizes)
      BY <3>2, <3>3, Zenon
    <3> QED
      BY <3>1, <3>6, <3>7, Zenon
  <2>2. \A s \in Streams : /\ Hand(inhand, s, "rd") \in Nat /\ Hand(inhand, s, "cl") \in Nat
                        /\ Hand(inhand', s, "rd") \in Nat /\ Hand(inhand', s, "cl") \in Nat
    BY <1>1 DEF Two!TypeOK, Hand
  <2>3. \A s \in Streams : Two!Total(buf[s]) \in Nat /\ Two!Total(buf'[s]) \in Nat
    BY <2>1, TwoTotals
  <2>4. w \in [Streams -> Nat] /\ v \in [Streams -> Nat]
    <3>1. \A s \in Streams : /\ Two!Total(buf[s]) + Hand(inhand, s, "rd") + Hand(inhand, s, "cl") \in Nat
                          /\ Two!Total(buf'[s]) + Hand(inhand', s, "rd") + Hand(inhand', s, "cl") \in Nat
      BY <2>2, <2>3
    <3> QED
      BY <3>1, Zenon DEF TwoHolds
  <2>5. \A s \in Streams : s # x => v[s] = w[s]
    BY DEF TwoHolds, TwoOthers
  <2>6. w[x] = Two!Total(buf[x]) + Hand(inhand, x, "rd") + Hand(inhand, x, "cl")
        /\ v[x] = Two!Total(buf'[x]) + Hand(inhand', x, "rd") + Hand(inhand', x, "cl")
    BY DEF TwoHolds
  <2>7. d \in Int /\ e \in Int /\ MaxReceiveBuffer \in Int /\ IsFiniteSet(Streams)
    BY <2>1, SmuxAssumption DEF Owed
  <2>8. (bucket' + v[x]) - e = (bucket + w[x]) - d
    BY <2>6 DEF TwoKept
  <2>9. bucket + SumFunction(w) = MaxReceiveBuffer + d
    BY <1>1, TwoConserved DEF Owed
  <2> HIDE DEF w, v, d, e
  <2>10. bucket' + SumFunction(v) = MaxReceiveBuffer + e
    <3>1. SumFunction(w) \in Nat /\ SumFunction(v) = SumFunction(w) + v[x] - w[x]
      BY <2>4, <2>5, <2>7, SumChanges
    <3>2. v[x] \in Nat /\ w[x] \in Nat
      BY <2>4
    <3> DEFINE p == SumFunction(w)
               q == SumFunction(v)
               k == w[x]
               l == v[x]
               b == bucket
               c == bucket'
    <3>3. /\ p \in Nat /\ q = p + l - k /\ k \in Nat /\ l \in Nat /\ b + p = MaxReceiveBuffer + d
          /\ (c + l) - e = (b + k) - d /\ b \in Int /\ c \in Int
      BY <2>1, <2>8, <2>9, <3>1, <3>2
    <3> HIDE DEF p, q, k, l, b, c
    <3>4. c + q = MaxReceiveBuffer + e
      BY <2>7, <3>3
    <3> QED
      BY <3>4 DEF q, c
  <2> QED
    BY <2>10, TwoConserved DEF v, e, Owed
<1> QED
  BY <1>3, <1>4 DEF Two!TokenInv

(* what moves none while recv_loop owes none, *)
LEMMA TwoRests ==
    ASSUME Two!TokenInv, Two!StateTypes', bucket_notify' \in Two!NotifyType({"recv"}),
           UNCHANGED <<bucket, buf, inhand>>,
           recv.pc # "deduct", recv'.pc # "deduct",
           \A s \in Streams : (rd[s] = "return" => rd'[s] = "return") /\ (cl[s] = "return" => cl'[s] = "return")
    PROVE  Two!TokenInv'
<1>1. Two!TypeOK /\ Two!InHand /\ Two!TokensConserved
  BY DEF Two!TokenInv
<1>2. Two!TypeOK'
  BY <1>1 DEF Two!TypeOK, Two!StateTypes, Two!NotifyType, Two!Reading, Two!Ended
<1>3. Two!InHand'
  BY <1>1 DEF Two!InHand
<1>4. Two!TokensConserved'
  BY <1>1, TwoConserved
<1> QED
  BY <1>2, <1>3, <1>4 DEF Two!TokenInv

(* and what moves none and leaves recv_loop alone. *)
LEMMA TwoStays ==
    ASSUME Two!TokenInv, Two!StateTypes', bucket_notify' \in Two!NotifyType({"recv"}),
           UNCHANGED <<bucket, buf, inhand, recv>>,
           \A s \in Streams : (rd[s] = "return" => rd'[s] = "return") /\ (cl[s] = "return" => cl'[s] = "return")
    PROVE  Two!TokenInv'
<1>1. Two!TypeOK /\ Two!InHand /\ Two!TokensConserved
  BY DEF Two!TokenInv
<1>2. Two!TypeOK'
  BY <1>1 DEF Two!TypeOK, Two!StateTypes, Two!NotifyType, Two!Reading, Two!Ended
<1>3. Two!InHand'
  BY <1>1 DEF Two!InHand
<1>4. Two!TokensConserved'
  BY <1>1, TwoConserved
<1> QED
  BY <1>2, <1>3, <1>4 DEF Two!TokenInv

(* recv_loop. *)
LEMMA TwoRecvTokens ==
    ASSUME Two!EofInv, Two!TokenInv, Two!StateTypes', bucket_notify' \in Two!NotifyType({"recv"}), Two!RecvLoop
    PROVE  Two!TokenInv'
<1> USE DEF Two!recvVars, Two!mapVars, Two!tokenVars, Two!bucketVars, Two!At
<1>1. /\ Two!StateTypes /\ Two!FrameSound /\ Sizes \subseteq Nat
      /\ bucket \in Int /\ inhand \in [Streams \X {"rd", "cl"} -> Nat] /\ Two!InHand
  BY SmuxAssumption DEF Two!EofInv, Two!TokenInv, Two!TypeOK
<1>2. CASE Two!RecvCheck \/ Two!RecvWait \/ Two!RecvDie \/ Two!RecvError \/ Two!RecvNop
  <2>1. UNCHANGED <<bucket, buf, inhand, rd, cl>> /\ recv.pc # "deduct" /\ recv'.pc # "deduct"
    BY <1>2 DEF Two!RecvCheck, Two!RecvWait, Two!RecvDie, Two!RecvError, Two!RecvNop
  <2> QED
    BY <2>1, TwoRests
<1>3. ASSUME NEW s, NEW pc \in {"syn", "push", "fin"}, NEW len, Two!RecvFrame(s, pc, len) PROVE Two!TokenInv'
  <2>1. UNCHANGED <<bucket, buf, inhand, rd, cl>> /\ recv.pc # "deduct" /\ recv'.pc # "deduct"
    BY <1>3 DEF Two!RecvFrame
  <2> QED
    BY <2>1, TwoRests
<1>4. CASE Two!RecvSyn \/ Two!RecvAccept \/ Two!RecvFin \/ Two!RecvClean
  <2>1. UNCHANGED <<bucket, buf, inhand, rd, cl>> /\ recv.pc # "deduct"
    BY <1>4 DEF Two!RecvSyn, Two!RecvAccept, Two!RecvFin, Two!RecvClean
  <2>2. \/ recv' = Two!At("check") \/ recv' = [recv EXCEPT !.pc = "accept"] \/ recv' = [recv EXCEPT !.pc = "clean"]
    BY <1>4 DEF Two!RecvSyn, Two!RecvAccept, Two!RecvFin, Two!RecvClean
  <2>3. recv'.pc # "deduct"
    BY <1>1, <2>2 DEF Two!StateTypes
  <2> QED
    BY <2>1, <2>3, TwoRests
<1>5. CASE Two!RecvPush
  <2>1. /\ recv.pc = "push" /\ UNCHANGED <<bucket, inhand, rd, cl>> /\ recv.sid \in Streams /\ recv.len \in Sizes
        /\ buf \in [Streams -> Seq(Sizes)]
    BY <1>1, <1>5 DEF Two!RecvPush, Two!FrameSound, Two!StateTypes
  <2>2. CASE recv' = Two!At("check") /\ buf' = buf
    BY <2>1, <2>2, TwoRests
  <2>3. CASE recv' = [recv EXCEPT !.pc = "deduct"] /\ buf' = [buf EXCEPT ![recv.sid] = Append(@, recv.len)]
    <3> DEFINE x == recv.sid
               n == recv.len
    <3>1. recv'.pc = "deduct" /\ recv'.len = n
      BY <1>1, <2>3 DEF Two!StateTypes
    <3>2. buf'[x] = Append(buf[x], n) /\ \A s \in Streams : s # x => buf'[s] = buf[s]
      BY <2>1, <2>3
    <3>3. Two!Total(buf'[x]) = Two!Total(buf[x]) + n /\ Two!Total(buf[x]) \in Nat
      BY <2>1, <3>2, TwoTotals
    <3> HIDE DEF x, n
    <3>4. x \in Streams /\ n \in Nat /\ recv.pc # "deduct"
      BY <1>1, <2>1 DEF x, n
    <3>5. Hand(inhand, x, "rd") \in Nat /\ Hand(inhand, x, "cl") \in Nat
      BY <1>1, <3>4 DEF Hand
    <3>6. TwoKept(x)
      <4> DEFINE t == Two!Total(buf[x])
                 r == Hand(inhand, x, "rd")
                 c == Hand(inhand, x, "cl")
                 b == bucket
      <4>1. (b + ((t + n) + r + c)) - n = (b + (t + r + c)) - 0
        <5>1. t \in Nat /\ r \in Nat /\ c \in Nat /\ b \in Int
          BY <1>1, <3>3, <3>5
        <5> HIDE DEF t, r, c, b
        <5> QED
          BY <3>4, <5>1
      <4> QED
        BY <2>1, <3>1, <3>3, <3>4, <4>1 DEF TwoKept, Owed
    <3>7. TwoOthers(x)
      BY <1>1, <2>1, <3>2, <3>4 DEF TwoOthers, Two!InHand, Hand
    <3>8. Two!TypeOK'
      BY <1>1, <2>1 DEF Two!TypeOK, Two!NotifyType
    <3> QED
      BY <3>4, <3>6, <3>7, <3>8, TwoMoves
  <2> QED
    BY <1>5, <2>2, <2>3 DEF Two!RecvPush
<1>6. CASE Two!RecvDeduct
  <2> DEFINE x == recv.sid
             n == recv.len
  <2>1. /\ recv.pc = "deduct" /\ UNCHANGED <<buf, inhand, rd, cl>> /\ x \in Streams /\ n \in Sizes
        /\ bucket' = bucket - n /\ recv'.pc # "deduct"
        /\ buf \in [Streams -> Seq(Sizes)]
    BY <1>1, <1>6 DEF Two!RecvDeduct, Two!FrameSound, Two!StateTypes
  <2> HIDE DEF x, n
  <2>2. n \in Nat /\ Two!Total(buf[x]) \in Nat /\ Hand(inhand, x, "rd") \in Nat /\ Hand(inhand, x, "cl") \in Nat
    <3>1. Two!Total(buf[x]) \in Nat
      BY <2>1, TwoTotals
    <3> QED
      BY <1>1, <2>1, <3>1 DEF Hand
  <2>3. TwoKept(x)
    <3> DEFINE t == Two!Total(buf[x])
               r == Hand(inhand, x, "rd")
               c == Hand(inhand, x, "cl")
               b == bucket
    <3>1. ((b - n) + (t + r + c)) - 0 = (b + (t + r + c)) - n
      <4>1. t \in Nat /\ r \in Nat /\ c \in Nat /\ b \in Int
        BY <1>1, <2>2
      <4> HIDE DEF t, r, c, b
      <4> QED
        BY <2>2, <4>1
    <3> QED
      BY <2>1, <3>1 DEF TwoKept, Owed, n
  <2>4. TwoOthers(x)
    BY <1>1, <2>1 DEF TwoOthers, Two!InHand, Hand
  <2>5. Two!TypeOK'
    <3>1. bucket' \in Int
      BY <1>1, <2>1, <2>2
    <3> QED
      BY <1>1, <2>1, <3>1 DEF Two!TypeOK, Two!NotifyType
  <2> QED
    BY <2>1, <2>3, <2>4, <2>5, TwoMoves
<1> QED
  BY <1>2, <1>3, <1>4, <1>5, <1>6 DEF Two!RecvLoop

(* return_tokens(), by whoever of stream x. *)
LEMMA TwoReturns ==
    ASSUME Two!TokenInv, Two!StateTypes', bucket_notify' \in Two!NotifyType({"recv"}), NEW x \in Streams,
           NEW who \in {"rd", "cl"}, NEW at, NEW then, Two!ReturnTokens(x, who, at, then), UNCHANGED <<buf, recv>>,
           \A s \in Streams : s # x => rd'[s] = rd[s] /\ cl'[s] = cl[s],
           who = "rd" => cl'[x] = cl[x] /\ rd[x] = at,
           who = "cl" => rd'[x] = rd[x] /\ cl[x] = at
    PROVE  Two!TokenInv'
<1>1. /\ bucket \in Int /\ inhand \in [Streams \X {"rd", "cl"} -> Nat] /\ Two!InHand /\ Two!StateTypes
      /\ buf \in [Streams -> Seq(Sizes)] /\ Two!TokensConserved
  BY DEF Two!TokenInv, Two!TypeOK, Two!StateTypes
<1>2. CASE at = "return" /\ bucket' = bucket + inhand[<<x, who>>] /\ inhand' = [inhand EXCEPT ![<<x, who>>] = 0]
  <2>1. bucket' = bucket + Hand(inhand, x, who)
    BY <1>2 DEF Hand
  <2>2. /\ inhand' \in [Streams \X {"rd", "cl"} -> Nat] /\ Hand(inhand', x, who) = 0
        /\ \A u \in Streams, z \in {"rd", "cl"} : u # x \/ z # who => Hand(inhand', u, z) = Hand(inhand, u, z)
    <3>1. <<x, who>> \in Streams \X {"rd", "cl"} /\ DOMAIN inhand = Streams \X {"rd", "cl"}
      BY <1>1
    <3>2. inhand' \in [Streams \X {"rd", "cl"} -> Nat]
      BY <1>1, <1>2, <3>1
    <3>3. Hand(inhand', x, who) = 0
      BY <1>2, <3>1 DEF Hand
    <3>4. ASSUME NEW u \in Streams, NEW z \in {"rd", "cl"}, u # x \/ z # who PROVE Hand(inhand', u, z) = Hand(inhand, u, z)
      <4>1. <<u, z>> \in Streams \X {"rd", "cl"} /\ <<u, z>> # <<x, who>>
        BY <3>4
      <4> QED
        BY <1>2, <3>1, <4>1 DEF Hand
    <3> QED
      BY <3>2, <3>3, <3>4, Zenon
  <2>3. \A z \in {"rd", "cl"} : Hand(inhand, x, z) \in Nat
    BY <1>1 DEF Hand
  <2>4. Two!Total(buf[x]) \in Nat
    BY <1>1, TwoTotals
  <2>5. TwoKept(x)
    <3> DEFINE t == Two!Total(buf[x])
               r == Hand(inhand, x, "rd")
               c == Hand(inhand, x, "cl")
               b == bucket
    <3>1. t \in Nat /\ r \in Nat /\ c \in Nat /\ b \in Int
      BY <1>1, <2>3, <2>4
    <3>2. \/ bucket' = b + r /\ Hand(inhand', x, "rd") = 0 /\ Hand(inhand', x, "cl") = c
          \/ bucket' = b + c /\ Hand(inhand', x, "rd") = r /\ Hand(inhand', x, "cl") = 0
      BY <2>1, <2>2
    <3>3. /\ recv' = recv /\ buf'[x] = buf[x]
      OBVIOUS
    <3> HIDE DEF t, r, c, b
    <3>4. (b + r) + (t + 0 + c) = b + (t + r + c) /\ (b + c) + (t + r + 0) = b + (t + r + c)
      BY <3>1
    <3>5. bucket' + (t + Hand(inhand', x, "rd") + Hand(inhand', x, "cl")) = b + (t + r + c)
      <4>1. CASE bucket' = b + r /\ Hand(inhand', x, "rd") = 0 /\ Hand(inhand', x, "cl") = c
        BY <3>4, <4>1
      <4>2. CASE bucket' = b + c /\ Hand(inhand', x, "rd") = r /\ Hand(inhand', x, "cl") = 0
        BY <3>4, <4>2
      <4> QED
        BY <3>2, <4>1, <4>2
    <3>6. bucket' + (Two!Total(buf'[x]) + Hand(inhand', x, "rd") + Hand(inhand', x, "cl")) = b + (t + r + c)
      BY <3>3, <3>5, Zenon DEF t
    <3>7. Owed(recv') = Owed(recv)
      BY <3>3
    <3> QED
      BY <3>6, <3>7, Zenon DEF TwoKept, t, r, c, b
  <2>6. TwoOthers(x)
    <3>1. \A s \in Streams : s # x => /\ buf'[s] = buf[s] /\ Hand(inhand', s, "rd") = Hand(inhand, s, "rd")
                                   /\ Hand(inhand', s, "cl") = Hand(inhand, s, "cl")
                                   /\ rd'[s] = rd[s] /\ cl'[s] = cl[s]
      BY <2>2
    <3>2. who = "rd" => Hand(inhand', x, "rd") = 0 /\ Hand(inhand', x, "cl") = Hand(inhand, x, "cl") /\ cl'[x] = cl[x]
      BY <2>2
    <3>3. who = "cl" => Hand(inhand', x, "cl") = 0 /\ Hand(inhand', x, "rd") = Hand(inhand, x, "rd") /\ rd'[x] = rd[x]
      BY <2>2
    <3>4. (Hand(inhand, x, "rd") # 0 => rd[x] = "return") /\ (Hand(inhand, x, "cl") # 0 => cl[x] = "return")
      BY <1>1 DEF Two!InHand, Hand
    <3>5. (Hand(inhand', x, "rd") # 0 => rd'[x] = "return") /\ (Hand(inhand', x, "cl") # 0 => cl'[x] = "return")
      BY <3>2, <3>3, <3>4
    <3> QED
      BY <3>1, <3>5 DEF TwoOthers
  <2>7. Two!TypeOK'
    <3>1. bucket' \in Int
      BY <1>1, <2>1, <2>3
    <3> QED
      BY <1>1, <2>2, <3>1 DEF Two!TypeOK, Two!NotifyType
  <2> QED
    BY <2>5, <2>6, <2>7, TwoMoves
<1>3. CASE at = "notify" /\ UNCHANGED <<bucket, inhand>>
  <2>1. \A s \in Streams : (rd[s] = "return" => rd'[s] = "return") /\ (cl[s] = "return" => cl'[s] = "return")
    BY <1>3
  <2> QED
    BY <1>3, <2>1, TwoStays
<1> QED
  BY <1>2, <1>3 DEF Two!ReturnTokens

(* The reader of a stream. *)
LEMMA TwoReaderTokens ==
    ASSUME Two!TokenInv, Two!StateTypes', bucket_notify' \in Two!NotifyType({"recv"}), NEW x \in Streams, Two!Reader(x)
    PROVE  Two!TokenInv'
<1> USE DEF Two!recvVars, Two!mapVars, Two!tokenVars, Two!bucketVars
<1>1. /\ bucket \in Int /\ inhand \in [Streams \X {"rd", "cl"} -> Nat] /\ Two!InHand /\ Two!StateTypes
      /\ buf \in [Streams -> Seq(Sizes)] /\ DOMAIN rd = Streams
  BY DEF Two!TokenInv, Two!TypeOK, Two!StateTypes
<1>2. CASE Two!ReadDie(x) \/ Two!ReadBuffer(x) \/ Two!ReadFin(x) \/ Two!ReadRest(x) \/ Two!ReadSelect(x)
  <2>1. /\ UNCHANGED <<bucket, buf, inhand, recv, cl>> /\ rd[x] # "return"
        /\ \E v : rd' = [rd EXCEPT ![x] = v]
    BY <1>2 DEF Two!ReadDie, Two!ReadBuffer, Two!ReadFin, Two!ReadRest, Two!ReadSelect
  <2>2. \A s \in Streams : (rd[s] = "return" => rd'[s] = "return") /\ (cl[s] = "return" => cl'[s] = "return")
    BY <1>1, <2>1
  <2> QED
    BY <2>1, <2>2, TwoStays
<1>3. CASE Two!ReadPop(x)
  <2>1. rd[x] = "pop" /\ UNCHANGED <<bucket, recv, cl>>
    BY <1>3 DEF Two!ReadPop
  <2>2. CASE buf[x] = <<>>
    <3>1. UNCHANGED <<buf, inhand>> /\ rd' = [rd EXCEPT ![x] = "die"]
      BY <1>3, <2>2 DEF Two!ReadPop
    <3>2. \A s \in Streams : (rd[s] = "return" => rd'[s] = "return") /\ (cl[s] = "return" => cl'[s] = "return")
      BY <1>1, <2>1, <3>1
    <3> QED
      BY <2>1, <3>1, <3>2, TwoStays
  <2>3. CASE buf[x] # <<>>
    <3> DEFINE n == Head(buf[x])
    <3>1. /\ buf' = [buf EXCEPT ![x] = Tail(@)] /\ inhand' = [inhand EXCEPT ![<<x, "rd">>] = n]
          /\ rd' = [rd EXCEPT ![x] = "return"]
      BY <1>3, <2>3 DEF Two!ReadPop
    <3>2. /\ Two!Total(buf[x]) = n + Two!Total(Tail(buf[x])) /\ n \in Nat /\ Two!Total(Tail(buf[x])) \in Nat
      BY <1>1, <2>3, TwoTotals
    <3>3. /\ buf'[x] = Tail(buf[x]) /\ rd'[x] = "return"
          /\ \A s \in Streams : s # x => buf'[s] = buf[s] /\ rd'[s] = rd[s]
      BY <1>1, <3>1
    <3> HIDE DEF n
    <3>4. /\ inhand' \in [Streams \X {"rd", "cl"} -> Nat] /\ Hand(inhand', x, "rd") = n
          /\ \A u \in Streams, z \in {"rd", "cl"} : u # x \/ z # "rd" => Hand(inhand', u, z) = Hand(inhand, u, z)
      <4>1. <<x, "rd">> \in Streams \X {"rd", "cl"} /\ DOMAIN inhand = Streams \X {"rd", "cl"}
        BY <1>1
      <4>2. inhand' \in [Streams \X {"rd", "cl"} -> Nat]
        BY <1>1, <3>1, <3>2, <4>1
      <4>3. Hand(inhand', x, "rd") = n
        BY <3>1, <4>1 DEF Hand
      <4>4. ASSUME NEW u \in Streams, NEW z \in {"rd", "cl"}, u # x \/ z # "rd" PROVE Hand(inhand', u, z) = Hand(inhand, u, z)
        <5>1. <<u, z>> \in Streams \X {"rd", "cl"} /\ <<u, z>> # <<x, "rd">>
          BY <4>4
        <5> QED
          BY <3>1, <4>1, <5>1 DEF Hand
      <4> QED
        BY <4>2, <4>3, <4>4, Zenon
    <3>5. Hand(inhand, x, "rd") = 0 /\ Hand(inhand, x, "cl") \in Nat /\ Hand(inhand', x, "cl") = Hand(inhand, x, "cl")
      BY <1>1, <2>1, <3>4 DEF Two!InHand, Hand
    <3>6. TwoKept(x)
      <4> DEFINE t == Two!Total(Tail(buf[x]))
                 c == Hand(inhand, x, "cl")
                 b == bucket
      <4>1. b + (t + n + c) = b + ((n + t) + 0 + c)
        <5>1. t \in Nat /\ c \in Nat /\ b \in Int
          BY <1>1, <3>2, <3>5
        <5> HIDE DEF t, c, b
        <5> QED
          BY <3>2, <5>1
      <4>2. /\ Two!Total(buf'[x]) = t /\ Two!Total(buf[x]) = n + t /\ Hand(inhand', x, "cl") = c /\ bucket' = b
            /\ Hand(inhand', x, "rd") = n /\ Hand(inhand, x, "rd") = 0 /\ recv' = recv
        BY <2>1, <3>2, <3>3, <3>4, <3>5
      <4>3. bucket' + (Two!Total(buf'[x]) + Hand(inhand', x, "rd") + Hand(inhand', x, "cl"))
              = bucket + (Two!Total(buf[x]) + Hand(inhand, x, "rd") + Hand(inhand, x, "cl"))
        BY <4>1, <4>2, Zenon
      <4>4. Owed(recv') = Owed(recv)
        BY <4>2
      <4> QED
        BY <4>3, <4>4, Zenon DEF TwoKept
    <3>7. TwoOthers(x)
      <4>1. Hand(inhand', x, "cl") # 0 => cl'[x] = "return"
        BY <1>1, <2>1, <3>5 DEF Two!InHand, Hand
      <4> QED
        BY <2>1, <3>3, <3>4, <4>1 DEF TwoOthers
    <3>8. Two!TypeOK'
      BY <1>1, <2>1, <3>4 DEF Two!TypeOK, Two!NotifyType
    <3> QED
      BY <3>6, <3>7, <3>8, TwoMoves
  <2> QED
    BY <2>2, <2>3
<1>4. ASSUME NEW then, Two!ReadReturn(x, then) PROVE Two!TokenInv'
  <2>1. /\ Two!ReturnTokens(x, "rd", rd[x], then) /\ UNCHANGED <<buf, recv, cl>>
        /\ \E v : rd' = [rd EXCEPT ![x] = v]
    BY <1>4 DEF Two!ReadReturn
  <2>2. \A s \in Streams : s # x => rd'[s] = rd[s] /\ cl'[s] = cl[s]
    BY <1>1, <2>1
  <2> QED
    BY <2>1, <2>2, TwoReturns
<1> QED
  BY <1>2, <1>3, <1>4 DEF Two!Reader

(* recycle_tokens(), and the drop of the StreamInner: the closer takes what is in the buffer. *)
LEMMA TwoTakes ==
    ASSUME Two!TokenInv, Two!StateTypes', bucket_notify' \in Two!NotifyType({"recv"}), NEW x \in Streams,
           cl[x] # "return", NEW there, cl' = [cl EXCEPT ![x] = IF buf[x] = <<>> THEN there ELSE "return"],
           inhand' = [inhand EXCEPT ![<<x, "cl">>] = Two!Total(buf[x])], buf' = [buf EXCEPT ![x] = <<>>],
           UNCHANGED <<bucket, recv, rd>>
    PROVE  Two!TokenInv'
<1>1. /\ bucket \in Int /\ inhand \in [Streams \X {"rd", "cl"} -> Nat] /\ Two!InHand
      /\ buf \in [Streams -> Seq(Sizes)] /\ DOMAIN cl = Streams
  BY DEF Two!TokenInv, Two!TypeOK, Two!StateTypes
<1> DEFINE n == Two!Total(buf[x])
<1>2. n \in Nat /\ Two!Total(<<>>) = 0
  BY <1>1, TwoTotals
<1>3. /\ buf'[x] = <<>> /\ cl'[x] = (IF buf[x] = <<>> THEN there ELSE "return")
      /\ \A s \in Streams : s # x => buf'[s] = buf[s] /\ cl'[s] = cl[s]
  BY <1>1
<1>4. inhand' = [inhand EXCEPT ![<<x, "cl">>] = n]
  OBVIOUS
<1>5. buf[x] = <<>> => n = 0
  BY <1>2
<1> HIDE DEF n
<1>6. /\ inhand' \in [Streams \X {"rd", "cl"} -> Nat] /\ Hand(inhand', x, "cl") = n
      /\ \A u \in Streams, z \in {"rd", "cl"} : u # x \/ z # "cl" => Hand(inhand', u, z) = Hand(inhand, u, z)
  <2>1. <<x, "cl">> \in Streams \X {"rd", "cl"} /\ DOMAIN inhand = Streams \X {"rd", "cl"}
    BY <1>1
  <2>2. inhand' \in [Streams \X {"rd", "cl"} -> Nat]
    BY <1>1, <1>2, <1>4, <2>1
  <2>3. Hand(inhand', x, "cl") = n
    BY <1>4, <2>1 DEF Hand
  <2>4. ASSUME NEW u \in Streams, NEW z \in {"rd", "cl"}, u # x \/ z # "cl" PROVE Hand(inhand', u, z) = Hand(inhand, u, z)
    <3>1. <<u, z>> \in Streams \X {"rd", "cl"} /\ <<u, z>> # <<x, "cl">>
      BY <2>4
    <3> QED
      BY <1>4, <2>1, <3>1 DEF Hand
  <2> QED
    BY <2>2, <2>3, <2>4, Zenon
<1>7. Hand(inhand, x, "cl") = 0 /\ Hand(inhand, x, "rd") \in Nat /\ Hand(inhand', x, "rd") = Hand(inhand, x, "rd")
  BY <1>1, <1>6 DEF Two!InHand, Hand
<1>8. TwoKept(x)
  <2> DEFINE r == Hand(inhand, x, "rd")
             b == bucket
  <2>1. b + (0 + r + n) = b + (n + r + 0)
    <3>1. r \in Nat /\ b \in Int
      BY <1>1, <1>7
    <3> HIDE DEF r, b
    <3> QED
      BY <1>2, <3>1
  <2>2. /\ Two!Total(buf'[x]) = 0 /\ Two!Total(buf[x]) = n /\ Hand(inhand', x, "rd") = r /\ bucket' = b
        /\ Hand(inhand', x, "cl") = n /\ Hand(inhand, x, "cl") = 0 /\ recv' = recv
    BY <1>2, <1>3, <1>6, <1>7 DEF n
  <2>3. bucket' + (Two!Total(buf'[x]) + Hand(inhand', x, "rd") + Hand(inhand', x, "cl"))
          = bucket + (Two!Total(buf[x]) + Hand(inhand, x, "rd") + Hand(inhand, x, "cl"))
    BY <2>1, <2>2, Zenon
  <2>4. Owed(recv') = Owed(recv)
    BY <2>2
  <2> QED
    BY <2>3, <2>4, Zenon DEF TwoKept
<1>9. TwoOthers(x)
  <2>1. Hand(inhand', x, "rd") # 0 => rd'[x] = "return"
    BY <1>1, <1>7 DEF Two!InHand, Hand
  <2>2. Hand(inhand', x, "cl") # 0 => cl'[x] = "return"
    BY <1>3, <1>5, <1>6
  <2> QED
    BY <1>3, <1>6, <2>1, <2>2 DEF TwoOthers
<1>10. Two!TypeOK'
  BY <1>1, <1>6 DEF Two!TypeOK, Two!NotifyType
<1> QED
  BY <1>8, <1>9, <1>10, TwoMoves

(* close_write(), close() and the drop of a stream. *)
LEMMA TwoCloserTokens ==
    ASSUME Two!TokenInv, Two!StateTypes', bucket_notify' \in Two!NotifyType({"recv"}), NEW x \in Streams, Two!Closer(x)
    PROVE  Two!TokenInv'
<1> USE DEF Two!recvVars, Two!mapVars, Two!tokenVars, Two!bucketVars
<1>1. DOMAIN cl = Streams /\ DOMAIN rd = Streams
  BY DEF Two!TokenInv, Two!TypeOK, Two!StateTypes
<1>2. CASE Two!CloseWrite(x) \/ Two!CloseWriteEnd(x) \/ Two!CloseRemove(x)
  <2>1. /\ UNCHANGED <<bucket, buf, inhand, recv, rd>> /\ cl[x] # "return"
        /\ \E v : cl' = [cl EXCEPT ![x] = v]
    BY <1>2 DEF Two!CloseWrite, Two!CloseWriteEnd, Two!CloseRemove
  <2>2. \A s \in Streams : (rd[s] = "return" => rd'[s] = "return") /\ (cl[s] = "return" => cl'[s] = "return")
    BY <1>1, <2>1
  <2> QED
    BY <2>1, <2>2, TwoStays
<1>3. ASSUME NEW drops, Two!Close(x, drops) PROVE Two!TokenInv'
  <2>1. /\ UNCHANGED <<bucket, buf, inhand, recv>> /\ cl[x] # "return" /\ (drops => rd[x] # "return")
        /\ \E v : cl' = [cl EXCEPT ![x] = v]
        /\ rd' = [rd EXCEPT ![x] = IF drops THEN "gone" ELSE @]
    BY <1>3 DEF Two!Close, Two!Ended
  <2>2. \A s \in Streams : (rd[s] = "return" => rd'[s] = "return") /\ (cl[s] = "return" => cl'[s] = "return")
    BY <1>1, <2>1
  <2> QED
    BY <2>1, <2>2, TwoStays
<1>4. CASE Two!CloseRecycle(x)
  <2>1. cl[x] # "return" /\ cl' = [cl EXCEPT ![x] = IF buf[x] = <<>> THEN "remove" ELSE "return"]
        /\ inhand' = [inhand EXCEPT ![<<x, "cl">>] = Two!Total(buf[x])] /\ buf' = [buf EXCEPT ![x] = <<>>]
        /\ UNCHANGED <<bucket, recv, rd>>
    BY <1>4 DEF Two!CloseRecycle
  <2> QED
    BY <2>1, TwoTakes
<1>5. CASE Two!Free(x)
  <2>1. cl[x] # "return" /\ cl' = [cl EXCEPT ![x] = IF buf[x] = <<>> THEN "idle" ELSE "return"]
        /\ inhand' = [inhand EXCEPT ![<<x, "cl">>] = Two!Total(buf[x])] /\ buf' = [buf EXCEPT ![x] = <<>>]
        /\ UNCHANGED <<bucket, recv, rd>>
    BY <1>5 DEF Two!Free, Two!Unreferenced
  <2> QED
    BY <2>1, TwoTakes
<1>6. ASSUME NEW then, Two!CloseReturn(x, then) PROVE Two!TokenInv'
  <2>1. /\ Two!ReturnTokens(x, "cl", cl[x], then) /\ UNCHANGED <<buf, recv, rd>>
        /\ \E v : cl' = [cl EXCEPT ![x] = v]
    BY <1>6 DEF Two!CloseReturn
  <2>2. \A s \in Streams : s # x => rd'[s] = rd[s] /\ cl'[s] = cl[s]
    BY <1>1, <2>1
  <2> QED
    BY <2>1, <2>2, TwoReturns
<1> QED
  BY <1>2, <1>3, <1>4, <1>5, <1>6 DEF Two!Closer

(* open_stream(), accept_stream(), the session and keepalive. *)
LEMMA TwoOpenTokens ==
    ASSUME Two!EofInv, Two!TokenInv, Two!StateTypes', bucket_notify' \in Two!NotifyType({"recv"}),
           \/ \E x \in Streams : Two!OpenSyn(x) \/ Two!OpenRegister(x)
           \/ Two!Accept \/ Two!SessionClose \/ Two!SessionRelease \/ Two!KeepalivePing \/ Two!KeepaliveExpiry
    PROVE  Two!TokenInv'
<1> USE DEF Two!recvVars, Two!mapVars, Two!tokenVars, Two!bucketVars
<1>1. DOMAIN rd = Streams /\ Two!Backlogged /\ accepts \in Seq(Streams)
  BY DEF Two!EofInv, Two!StateTypes
<1>2. CASE \/ \E x \in Streams : Two!OpenSyn(x)
           \/ Two!SessionClose \/ Two!SessionRelease \/ Two!KeepalivePing \/ Two!KeepaliveExpiry
  <2>1. UNCHANGED <<bucket, buf, inhand, recv, rd, cl>>
    BY <1>2 DEF Two!OpenSyn, Two!SessionClose, Two!SessionRelease, Two!KeepalivePing, Two!KeepaliveExpiry
  <2> QED
    BY <2>1, TwoStays
<1>3. ASSUME NEW x \in Streams, Two!OpenRegister(x) PROVE Two!TokenInv'
  <2>1. /\ UNCHANGED <<bucket, buf, inhand, recv, cl>> /\ opener[x] = "syn"
        /\ rd' = rd \/ rd' = [rd EXCEPT ![x] = "pop"]
    BY <1>3 DEF Two!OpenRegister
  <2>2. rd[x] = "away"
    BY <1>1, <2>1 DEF Two!Backlogged
  <2>3. \A s \in Streams : (rd[s] = "return" => rd'[s] = "return") /\ (cl[s] = "return" => cl'[s] = "return")
    BY <1>1, <2>1, <2>2
  <2> QED
    BY <2>1, <2>3, TwoStays
<1>4. CASE Two!Accept
  <2> DEFINE x == Head(accepts)
  <2>1. /\ UNCHANGED <<bucket, buf, inhand, recv, cl>> /\ accepts # <<>> /\ rd' = [rd EXCEPT ![x] = "pop"]
    BY <1>4 DEF Two!Accept
  <2>2. x = accepts[1] /\ 1 \in DOMAIN accepts /\ x \in Streams
    BY <1>1, <2>1
  <2>3. rd[x] = "away"
    BY <1>1, <2>2 DEF Two!Backlogged
  <2> HIDE DEF x
  <2>4. \A s \in Streams : (rd[s] = "return" => rd'[s] = "return") /\ (cl[s] = "return" => cl'[s] = "return")
    BY <1>1, <2>1, <2>2, <2>3
  <2> QED
    BY <2>1, <2>4, TwoStays
<1> QED
  BY <1>2, <1>3, <1>4

(* At the start the bucket is full. *)
LEMMA TwoTokenInit == ASSUME Two!Init, Two!StateTypes, bucket_notify \in Two!NotifyType({"recv"}) PROVE Two!TokenInv
<1>1. /\ bucket = MaxReceiveBuffer /\ recv.pc = "check" /\ buf = [s \in Streams |-> <<>>]
      /\ inhand = [x \in Streams \X {"rd", "cl"} |-> 0]
  BY DEF Two!Init, Two!At
<1>2. MaxReceiveBuffer \in Nat /\ IsFiniteSet(Streams)
  BY SmuxAssumption
<1>3. Two!TypeOK
  BY <1>1, <1>2 DEF Two!TypeOK, Two!NotifyType
<1>4. \A s \in Streams : Hand(inhand, s, "rd") = 0 /\ Hand(inhand, s, "cl") = 0
  BY <1>1 DEF Hand
<1>5. Two!InHand
  BY <1>4 DEF Two!InHand, Hand
<1>6. Two!TokensConserved
  <2>1. \A s \in Streams : Two!Total(buf[s]) = 0
    BY <1>1, TwoTotals
  <2>2. \A s \in Streams : Two!Total(buf[s]) + Hand(inhand, s, "rd") + Hand(inhand, s, "cl") = 0
    BY <1>4, <2>1
  <2>3. TwoHolds(buf, inhand) = [s \in Streams |-> 0]
    BY <2>2, Zenon DEF TwoHolds
  <2>4. SumFunction(TwoHolds(buf, inhand)) = 0
    BY <1>2, <2>3, SumZero
  <2>5. bucket + 0 = MaxReceiveBuffer + 0
    BY <1>1
  <2> QED
    BY <1>1, <2>4, <2>5, TwoConserved
<1> QED
  BY <1>3, <1>5, <1>6 DEF Two!TokenInv

(* Every step. *)
LEMMA TwoTokenNext ==
    ASSUME Two!EofInv, Two!TokenInv, Two!Next, Two!StateTypes', bucket_notify' \in Two!NotifyType({"recv"})
    PROVE  Two!TokenInv'
BY TwoRecvTokens, TwoReaderTokens, TwoOpenTokens, TwoCloserTokens DEF Two!Next

(* The Notify of recv_loop, on one thread. *)
LEMMA TwoNotified ==
    ASSUME bucket_notify \in Two!NotifyType({"recv"}), Two!Next
    PROVE  bucket_notify' \in Two!NotifyType({"recv"})
<1> DEFINE T == N!NotifyType({"recv"})
<1> USE DEF Two!recvVars, Two!mapVars, Two!tokenVars, Two!bucketVars
<1>1. Two!NotifyType({"recv"}) = T
  BY DEF Two!NotifyType, N!NotifyType
<1>2. \A m : Two!NotifyOne(m) = N!NotifyOne(m)
  BY DEF Two!NotifyOne, N!NotifyOne
<1>3. Two!Drop(bucket_notify, "recv") = N!Drop(bucket_notify, "recv")
  BY <1>2 DEF Two!Drop, N!Drop
<1>4. /\ Two!Enable(bucket_notify, "recv") = N!Enable(bucket_notify, "recv")
      /\ Two!Await(bucket_notify, "recv") = N!Await(bucket_notify, "recv")
      /\ Two!Looking(bucket_notify, "recv") <=> N!Looking(bucket_notify, "recv")
  BY DEF Two!Enable, N!Enable, Two!Await, N!Await, Two!Looking, N!Looking
<1>5. /\ \A m \in N!NotifyOne(bucket_notify) \cup N!Drop(bucket_notify, "recv") : m \in T
      /\ N!Enable(bucket_notify, "recv") \in T
      /\ N!Looking(bucket_notify, "recv") => N!Await(bucket_notify, "recv") \in T
      /\ [bucket_notify EXCEPT !.at["recv"] = "away"] \in T
  <2>1. bucket_notify \in T
    BY <1>1
  <2>2. /\ \A m \in N!NotifyOne(bucket_notify) : m \in T
        /\ \A m \in N!Drop(bucket_notify, "recv") : m \in T
        /\ N!Enable(bucket_notify, "recv") \in T
        /\ N!Looking(bucket_notify, "recv") => N!Await(bucket_notify, "recv") \in T
        /\ [bucket_notify EXCEPT !.at["recv"] = "away"] \in T
    BY <2>1, Notified, Zenon
  <2> QED
    BY <2>2, Zenon
<1> HIDE DEF T
<1>6. CASE UNCHANGED bucket_notify
  BY <1>6
<1>7. CASE Two!RecvCheck \/ Two!RecvWait \/ Two!RecvDie
  <2>1. \/ bucket_notify' = [bucket_notify EXCEPT !.at["recv"] = "away"]
        \/ bucket_notify' = Two!Enable(bucket_notify, "recv")
        \/ bucket_notify' \in Two!Drop(bucket_notify, "recv")
        \/ Two!Looking(bucket_notify, "recv") /\ bucket_notify' = Two!Await(bucket_notify, "recv")
    BY <1>7, Zenon DEF Two!RecvCheck, Two!RecvWait, Two!RecvDie
  <2> QED
    BY <1>1, <1>3, <1>4, <1>5, <2>1, Zenon
<1>8. ASSUME NEW s, NEW who, NEW at, NEW then, Two!ReturnTokens(s, who, at, then)
      PROVE  bucket_notify' \in Two!NotifyType({"recv"})
  <2>1. bucket_notify' = bucket_notify \/ bucket_notify' \in Two!NotifyOne(bucket_notify)
    BY <1>8, Zenon DEF Two!ReturnTokens
  <2> QED
    BY <1>1, <1>2, <1>5, <2>1, Zenon
<1>9. CASE Two!RecvLoop
  <2>1. Two!RecvLoop => \/ Two!RecvCheck \/ Two!RecvWait \/ Two!RecvDie \/ UNCHANGED bucket_notify
    BY Zenon DEF Two!RecvLoop, Two!RecvError, Two!RecvNop, Two!RecvFrame, Two!RecvSyn, Two!RecvAccept, Two!RecvPush, Two!RecvDeduct,
           Two!RecvFin, Two!RecvClean
  <2> QED
    BY <1>6, <1>7, <1>9, <2>1
<1>10. ASSUME NEW s, Two!Reader(s) PROVE bucket_notify' \in Two!NotifyType({"recv"})
  <2>1. (\E then : Two!ReturnTokens(s, "rd", rd[s], then)) \/ UNCHANGED bucket_notify
    BY <1>10 DEF Two!Reader, Two!ReadPop, Two!ReadReturn, Two!ReadDie, Two!ReadBuffer, Two!ReadFin, Two!ReadRest, Two!ReadSelect
  <2> QED
    BY <1>6, <1>8, <2>1
<1>11. ASSUME NEW s, Two!Closer(s) PROVE bucket_notify' \in Two!NotifyType({"recv"})
  <2>1. (\E then : Two!ReturnTokens(s, "cl", cl[s], then)) \/ UNCHANGED bucket_notify
    BY <1>11 DEF Two!Closer, Two!CloseWrite, Two!CloseWriteEnd, Two!Close, Two!CloseRecycle, Two!CloseReturn, Two!CloseRemove, Two!Free
  <2> QED
    BY <1>6, <1>8, <2>1
<1>12. ASSUME \/ \E s : Two!OpenSyn(s) \/ Two!OpenRegister(s)
              \/ Two!Accept \/ Two!SessionClose \/ Two!SessionRelease \/ Two!KeepaliveExpiry \/ Two!KeepalivePing
       PROVE  bucket_notify' \in Two!NotifyType({"recv"})
  <2>1. UNCHANGED bucket_notify
    BY <1>12 DEF Two!OpenSyn, Two!OpenRegister, Two!Accept, Two!SessionClose, Two!SessionRelease, Two!KeepaliveExpiry, Two!KeepalivePing
  <2> QED
    BY <1>6, <2>1
<1> QED
  BY <1>9, <1>10, <1>11, <1>12, Zenon DEF Two!Next

-----------------------------------------------------------------------------
(* The behaviours of MCSmux are those of its parts.                        *)

(* What holds of the part at hand. *)
StreamPart == part = "one" => One!StreamInv /\ One!TokenInv
EofPart == part = "two" => Two!EofInv /\ Two!TokenInv
SendPart == part = "send" => Out!ShaperInv

(* There are three. *)
PartOK == part \in {"two", "one", "send"}

(* It never changes. *)
LEMMA PartHolds == Spec => []PartOK
<1>1. Init => PartOK
  BY DEF Init, PartOK
<1>2. PartOK /\ [Next]_<<part, smuxVars, sendVars>> => PartOK'
  BY DEF PartOK, Next
<1> QED
  BY <1>1, <1>2, PTL DEF Spec

(* Many threads, *)
LEMMA StreamHolds == Spec => []StreamPart
<1>1. Init => StreamPart
  <2>1. One!Init => One!StreamInv /\ One!TokenInv
    BY StreamInit, OneTokenInit DEF One!StreamInv
  <2> QED
    BY <2>1 DEF Init, StreamPart
<1>2. StreamPart /\ [Next]_<<part, smuxVars, sendVars>> => StreamPart'
  <2> SUFFICES ASSUME StreamPart, [Next]_<<part, smuxVars, sendVars>>, part' = "one"
               PROVE  (One!StreamInv /\ One!TokenInv)'
    BY DEF StreamPart
  <2>1. part = "one" /\ One!StreamInv /\ One!TokenInv
    BY DEF StreamPart, Next
  <2>2. CASE One!Next
    <3>1. One!StreamInv'
      BY <2>1, <2>2, StreamNext
    <3>2. One!StateTypes' /\ bucket_notify' \in One!NotifyType({"recv"})
      BY <3>1 DEF One!StreamInv, One!NotifyType
    <3> QED
      BY <2>1, <2>2, <3>1, <3>2, OneTokenNext
  <2>3. CASE UNCHANGED smuxVars
    <3>1. UNCHANGED <<bucket, bucket_notify, recv, read_error, session_is_active, streams, accepts, session, peer,
                      frames, opener, handle, buf, reader_wakeup, fin_event, write_closed, die, rd, cl, inhand>>
      BY <2>3 DEF smuxVars
    <3>2. One!StreamInv'
      BY <2>1, <3>1 DEF One!StreamInv, One!StateTypes, One!FrameSound, One!FinsSent, One!Unregistered, One!Backlogged,
         One!HalfCloseEnds, One!NotAwaited, One!RecvNotStranded, One!WillWake, One!Unused
    <3>3. One!StateTypes' /\ bucket_notify' \in One!NotifyType({"recv"})
      BY <3>2 DEF One!StreamInv, One!NotifyType
    <3> QED
      BY <2>1, <3>1, <3>2, <3>3, OneStays
  <2> QED
    BY <2>1, <2>2, <2>3 DEF Next
<1> QED
  BY <1>1, <1>2, PTL DEF Spec

(* one thread,                                                             *)
LEMMA EofHolds == Spec => []EofPart
<1>1. Init => EofPart
  <2>1. Two!Init => bucket_notify \in Two!NotifyType({"recv"})
    BY DEF Two!Init, Two!Fresh, Two!NotifyType
  <2>2. Two!Init => Two!EofInv /\ Two!TokenInv
    BY <2>1, EofInit, TwoTokenInit DEF Two!EofInv
  <2> QED
    BY <2>2 DEF Init, EofPart
<1>2. EofPart /\ [Next]_<<part, smuxVars, sendVars>> => EofPart'
  <2> SUFFICES ASSUME EofPart, [Next]_<<part, smuxVars, sendVars>>, part' = "two"
               PROVE  (Two!EofInv /\ Two!TokenInv)'
    BY DEF EofPart
  <2>1. part = "two" /\ Two!EofInv /\ Two!TokenInv /\ bucket_notify \in Two!NotifyType({"recv"})
    BY DEF EofPart, Next, Two!TokenInv, Two!TypeOK
  <2>2. CASE Two!Next
    <3>1. Two!EofInv'
      BY <2>1, <2>2, EofNext
    <3>2. Two!StateTypes' /\ bucket_notify' \in Two!NotifyType({"recv"})
      BY <2>1, <2>2, <3>1, TwoNotified DEF Two!EofInv
    <3> QED
      BY <2>1, <2>2, <3>1, <3>2, TwoTokenNext
  <2>3. CASE UNCHANGED smuxVars
    <3>1. UNCHANGED <<bucket, bucket_notify, recv, read_error, session_is_active, streams, accepts, session, peer,
                      frames, opener, handle, buf, reader_wakeup, fin_event, write_closed, die, rd, cl, inhand>>
      BY <2>3 DEF smuxVars
    <3>2. Two!EofInv'
      BY <2>1, <3>1 DEF Two!EofInv, Two!StateTypes, Two!FrameSound, Two!FinsSent, Two!Unregistered, Two!Backlogged,
         Two!DiesOfFins, Two!Drained, Two!Unused
    <3>3. Two!StateTypes' /\ bucket_notify' \in Two!NotifyType({"recv"})
      BY <2>1, <3>1, <3>2 DEF Two!EofInv
    <3> QED
      BY <2>1, <3>1, <3>2, <3>3, TwoStays
  <2> QED
    BY <2>1, <2>2, <2>3 DEF Next
<1> QED
  BY <1>1, <1>2, PTL DEF Spec

(* and the sending side.                                                   *)
LEMMA SendHolds == Spec => []SendPart
<1>1. Init => SendPart
  BY ShaperInit DEF Init, SendPart
<1>2. SendPart /\ [Next]_<<part, smuxVars, sendVars>> => SendPart'
  <2> SUFFICES ASSUME SendPart, [Next]_<<part, smuxVars, sendVars>>, part' = "send" PROVE Out!ShaperInv'
    BY DEF SendPart
  <2>1. part = "send" /\ Out!ShaperInv
    BY DEF SendPart, Next
  <2>2. CASE Out!Next
    BY <2>1, <2>2, ShaperNext
  <2>3. CASE UNCHANGED sendVars
    <3>1. UNCHANGED <<task, request_id, shaper_slots, waiters, shaper, rr_list, next, shaper_pending, send, answered,
                      finned, bypassed, send_die, socket_write_error>>
      BY <2>3 DEF sendVars
    <3>2. {send_die', socket_write_error'} \subseteq BOOLEAN /\ answered' \subseteq Out!Tasks /\ Out!AwakeInv
      BY <2>1, <3>1 DEF Out!ShaperInv, Out!TypeOK
    <3>3. Out!AwakeInv'
      BY <3>1, <3>2, AwakeStays
    <3> QED
      BY <2>1, <3>1, <3>2, <3>3, StepRests
  <2> QED
    BY <2>1, <2>2, <2>3 DEF Next
<1> QED
  BY <1>1, <1>2, PTL DEF Spec

-----------------------------------------------------------------------------
(* The theorems.                                                           *)

(* A stream with both FINs leaves the map, in whatever order they cross:   *)
(* fin() of recv_loop or close_write() is still going to run               *)
(* try_half_close_cleanup(), or close() to remove the stream, on any       *)
(* number of threads and with a session that may end at any time.          *)
THEOREM HalfCloses == Spec => []HalfCloseEnds
<1>1. StreamPart => HalfCloseEnds
  BY DEF StreamPart, HalfCloseEnds, One!StreamInv
<1> QED
  BY <1>1, StreamHolds, PTL

(* EOF is returned of an empty buffer only (try_read, wait_read), of any   *)
(* number of streams on a runtime of one thread, as long as nobody closes  *)
(* the stream here.                                                        *)
THEOREM EndsDrained == Spec => []EofMeansDrained
<1>1. EofPart => EofMeansDrained
  BY DEF EofPart, EofMeansDrained, Two!EofMeansDrained, Two!EofInv, Two!Drained
<1> QED
  BY <1>1, EofHolds, PTL

(* No wake-up is lost: recv_loop never sleeps on tokens of the bucket, a   *)
(* reader on a payload, or send_loop on a request.                         *)
THEOREM NobodySleepsOn == Spec => []NoLostWakeup
<1>1. StreamPart /\ SendPart => NoLostWakeup
  <2>1. One!StreamInv => One!RecvNotStranded /\ One!ReaderNotStranded
    BY DEF One!StreamInv, One!WillWake, One!ReaderNotStranded
  <2>2. Out!ShaperInv => Out!SenderAwake
    BY DEF Out!ShaperInv, Out!AwakeInv, Out!SenderAwake
  <2> QED
    BY <2>1, <2>2 DEF StreamPart, SendPart, NoLostWakeup
<1> QED
  BY <1>1, StreamHolds, SendHolds, PTL

(* Tokens and permits are conserved: whatever arrives while a stream is    *)
(* read, closed or dropped (Deviation V11), the bucket and the streams     *)
(* together hold max_receive_buffer, and whoever gives up when, the        *)
(* permits that are free, taken by a task or by a queued request are those *)
(* of the shaper.                                                          *)
THEOREM TokensKept == Spec => []Conserved
<1>1. PartOK /\ StreamPart /\ EofPart /\ SendPart => Conserved
  <2> SUFFICES ASSUME PartOK, StreamPart, EofPart, SendPart PROVE Conserved
    OBVIOUS
  <2>1. (part = "one" => One!TokensConserved) /\ (part = "two" => Two!TokensConserved)
    BY DEF StreamPart, EofPart, One!TokenInv, Two!TokenInv
  <2>2. part = "send" => Out!SlotsConserved
    BY DEF SendPart, Out!ShaperInv
  <2>3. CASE part = "one"
    BY <2>1, <2>3 DEF Conserved
  <2>4. CASE part = "two"
    BY <2>1, <2>4 DEF Conserved
  <2>5. CASE part = "send"
    BY <2>2, <2>5 DEF Conserved
  <2> QED
    BY <2>3, <2>4, <2>5 DEF PartOK
<1> QED
  BY <1>1, PartHolds, StreamHolds, EofHolds, SendHolds, PTL

(* No data of a stream is written after its cmdFIN: the heap is ordered by *)
(* the wrapping comparison of the request numbers, and the FIN is numbered *)
(* after the data, a write that was given up and left queued included.     *)
THEOREM FinsLast == Spec => []FinLast
<1>1. SendPart => FinLast
  <2> SUFFICES ASSUME Out!ShaperInv, NEW s \in finned PROVE \A r \in shaper[s] \cup {send.req} : r.sid = s => r.cmd # "psh"
    BY DEF SendPart, FinLast, Out!FinLast
  <2>1. s \in Sids
    BY DEF Out!ShaperInv, Out!TypeOK
  <2> QED
    BY <2>1 DEF Out!ShaperInv, Out!FinOrder, Out!Sends
<1> QED
  BY <1>1, SendHolds, PTL

(* Every variable keeps its type, the backlog its limit, and the shaper's  *)
(* list holds the streams with requests, each once, with the cursor one of *)
(* them: the expect()s of RrList never fail.                               *)
THEOREM SmuxTyped == Spec => []Typed
<1>1. PartOK /\ StreamPart /\ EofPart /\ SendPart => Typed
  <2> SUFFICES ASSUME PartOK, StreamPart, EofPart, SendPart PROVE Typed
    OBVIOUS
  <2>1. (part = "one" => One!TypeOK) /\ (part = "two" => Two!TypeOK)
    BY DEF StreamPart, EofPart, One!TokenInv, Two!TokenInv
  <2>2. part = "send" => (Out!TypeOK /\ Out!CursorInList)
    BY DEF SendPart, Out!ShaperInv
  <2>3. CASE part = "one"
    BY <2>1, <2>3 DEF Typed
  <2>4. CASE part = "two"
    BY <2>1, <2>4 DEF Typed
  <2>5. CASE part = "send"
    BY <2>2, <2>5 DEF Typed
  <2> QED
    BY <2>3, <2>4, <2>5 DEF PartOK
<1> QED
  BY <1>1, PartHolds, StreamHolds, EofHolds, SendHolds, PTL
=============================================================================
