------------------------------ MODULE MCPause -------------------------------
(***************************************************************************)
(* Rule 6 of the pipe and a reader that pauses: Pipe, with the time for    *)
(* which the stream's far end has stopped sending, or its data has been    *)
(* waiting in the stream; and a task that is never late.                   *)
(***************************************************************************)
EXTENDS Pipe

VARIABLE stopped    \* that time

(* Neither has the far end stopped nor is anything waiting. *)
Flowing == far["stream"] = "open" /\ inq["stream"] = 0

MCInit == Init /\ stopped = 0

(* The task is never late: time passes only when nothing wakes it. *)
Punctual == ~ \E a \in armed : Fires(a)

MCNext ==
    \/ (Poll \/ Far) /\ stopped' = IF Flowing' THEN 0 ELSE stopped
    \/ Punctual /\ Tick /\ stopped' = IF Flowing THEN 0 ELSE Older(stopped, AgeMax)

MCSpec == MCInit /\ [][MCNext]_<<vars, stopped>>

(* What the module's doc comment says of rule 6: "a starvation that lifts  *)
(* in between starts it again, so a reader that was merely paused is given *)
(* the full limit after the far end stops".  The pipe is ended for a stall *)
(* only if the far end has stopped, or its data been waiting, for the      *)
(* stall limit, less the period of one probe.                              *)
PausedGivenLimit == why = "stalled" => stopped >= stall_limit - watch
=============================================================================
