---------------------------- MODULE TaskLifecycle ----------------------------
(***************************************************************************)
(* What the task store promises its callers: a task has one status and at *)
(* most one holder; only claiming moves it out of "pending", only its      *)
(* holder moves it out of "running", and "done" and "failed" are final.    *)
(***************************************************************************)
CONSTANTS Tasks, Workers, NoWorker

VARIABLES status, holder

lifecycleVars == <<status, holder>>

Init ==
  /\ status = [t \in Tasks |-> "absent"]
  /\ holder = [t \in Tasks |-> NoWorker]

Submit(t) ==
  /\ status[t] = "absent"
  /\ status' = [status EXCEPT ![t] = "pending"]
  /\ UNCHANGED holder

(* One claim call takes a whole batch.                                    *)
Take(w, S) ==
  /\ S # {}
  /\ \A t \in S : status[t] = "pending" /\ holder[t] = NoWorker
  /\ status' = [t \in Tasks |-> IF t \in S THEN "running" ELSE status[t]]
  /\ holder' = [t \in Tasks |-> IF t \in S THEN w ELSE holder[t]]

(* A failed attempt with attempts left.                                   *)
GiveBack(t, w) ==
  /\ status[t] = "running" /\ holder[t] = w
  /\ status' = [status EXCEPT ![t] = "pending"]
  /\ holder' = [holder EXCEPT ![t] = NoWorker]

(* The final status keeps the name of the last holder.                    *)
Finish(t, w, outcome) ==
  /\ status[t] = "running" /\ holder[t] = w
  /\ status' = [status EXCEPT ![t] = outcome]
  /\ UNCHANGED holder

Next ==
  \/ \E t \in Tasks : Submit(t)
  \/ \E w \in Workers : \E S \in SUBSET Tasks : Take(w, S)
  \/ \E t \in Tasks, w \in Workers : GiveBack(t, w)
  \/ \E t \in Tasks, w \in Workers, o \in {"done", "failed"} : Finish(t, w, o)

Spec == Init /\ [][Next]_lifecycleVars
=============================================================================
