---------------------------- MODULE TokioNotify ----------------------------
(***************************************************************************)
(* tokio::sync::Notify as the code uses it: tasks call notified(),         *)
(* enable() the future, look at the state they wait for, and only then     *)
(* await it; whoever changes the state calls notify_one().                 *)
(*                                                                         *)
(* The state of a Notify is a record: `permit', and for each task where it *)
(* is:                                                                     *)
(*   "away"    has no Notified future                                      *)
(*   "look"    enabled and registered, looks at the state                  *)
(*   "hit"     the same, woken since it registered                         *)
(*   "sure"    enabled, and used up the permit                             *)
(*   "parked"  awaits the future                                           *)
(*   "woken"   awaits it and has been woken                                *)
(*   "done"    awaits it, with the permit already used up                  *)
(***************************************************************************)

Fresh(tasks) == [permit |-> FALSE, at |-> [t \in tasks |-> "away"]]

NotifyType(tasks) ==
    [permit: BOOLEAN, at: [tasks -> {"away", "look", "hit", "sure", "parked", "woken", "done"}]]

(* notify_one(): one registered task is woken, or the permit is kept. *)
NotifyOne(n) ==
    LET registered == {t \in DOMAIN n.at : n.at[t] \in {"look", "parked"}}
    IN  IF registered = {}
        THEN {[n EXCEPT !.permit = TRUE]}
        ELSE {[n EXCEPT !.at[t] = IF @ = "look" THEN "hit" ELSE "woken"] : t \in registered}

(* notified() and enable(). *)
Enable(n, t) ==
    [permit |-> FALSE, at |-> [n.at EXCEPT ![t] = IF n.permit THEN "sure" ELSE "look"]]

(* The future is dropped; a wake-up it received and did not see is passed  *)
(* on to another task.                                                     *)
Drop(n, t) ==
    LET rest == [n EXCEPT !.at[t] = "away"]
    IN  IF n.at[t] \in {"hit", "woken"} THEN NotifyOne(rest) ELSE {rest}

(* The task found nothing: it awaits the future, which resolves at once    *)
(* for one that was woken already; the task then goes round its loop.      *)
Await(n, t) ==
    [n EXCEPT !.at[t] = CASE @ = "look" -> "parked" [] @ = "hit" -> "woken" [] @ = "sure" -> "done"]

Looking(n, t) == n.at[t] \in {"look", "hit", "sure"}
Starting(n, t) == n.at[t] \in {"away", "woken", "done"}
Waiting(n, t) == n.at[t] \in {"parked", "woken", "done"}
=============================================================================
