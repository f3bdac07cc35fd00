------------------------------- MODULE MCCore -------------------------------
(* TaskStore on two small instances: one task that two workers and two     *)
(* requests race for, and two tasks whose markFinal calls come one at a    *)
(* time; a second has four ticks.  Beside them, the watcher that works     *)
(* tasks off, on an instance small enough for its liveness, and the        *)
(* questions that MCPolicy asks of the tool policy.                        *)
EXTENDS TaskStore

CONSTANTS t1, t2, w1, w2, h1, h2, s1, me

VARIABLES instance,   \* "race", "serial", "watcher" or "policy"
          cfg, ctx, roles,
          status, holder, retriesLeft, jobs, closed, pending, running, stopPolling,
          abortTasks, pollDone, poll, at, hand, sd, alive, faults

(* One worker, two tasks, one retried, one of an unknown type, one POST    *)
(* and at most one task API call that fails.                               *)
W == INSTANCE Watcher WITH
       Supported <- {t1}, Retries <- [t \in Tasks |-> IF t = t1 THEN 1 ELSE 0], Workers <- {w1},
       QueueFactor <- 1, Shutdowns <- {s1}, Signals <- {}, MaxFaults <- 1, Me <- me

watcherVars ==
  <<status, holder, retriesLeft, jobs, closed, pending, running, stopPolling,
    abortTasks, pollDone, poll, at, hand, sd, alive, faults>>

Q == INSTANCE MCPolicy

policyVars == <<cfg, ctx, roles>>
allVars == <<vars, watcherVars, policyVars, instance>>

serial == instance = "serial"

OneTask ==
  /\ row'[t2] = Absent
  /\ row'[t1].maxRetries # 1 /\ row'[t1].runAt <= 1

OneAtATime ==
  /\ call'[h2] = Idle
  /\ \A t \in Tasks : row'[t].lockedBy # w2 /\ row'[t].maxRetries <= 1

NoQuestion == cfg = "none" /\ ctx = "none" /\ roles = "none"

MCInit ==
  /\ Init /\ W!Init
  /\ \/ instance \in {"race", "serial", "watcher"} /\ NoQuestion
     \/ instance = "policy" /\ Q!Init

MCNext ==
  /\ UNCHANGED instance
  /\ \/ instance = "race" /\ Next /\ OneTask /\ UNCHANGED <<watcherVars, policyVars>>
     \/ serial /\ Next /\ OneAtATime /\ UNCHANGED <<watcherVars, policyVars>>
     \/ instance = "watcher" /\ W!Next /\ UNCHANGED <<vars, policyVars>>
     \/ instance = "policy" /\ Q!Next /\ UNCHANGED <<vars, watcherVars>>

MCSpec == MCInit /\ [][MCNext]_allVars /\ W!Fairness

-----------------------------------------------------------------------------
(* Base delays on both sides of every threshold in the code.  A row        *)
(* without retries holds 0; 3601 is out of the accepted range.             *)
Bases == {0, 1, 2, 3, 7, 450, 899, 900, 901, 1799, 1800, 1801, 3599, 3600, 3601}

Capped(n) == IF n > MaxBackoff THEN MaxBackoff ELSE n

(* The delay is base * 2^n seconds, never more than an hour and never less *)
(* than a second, whatever base the row holds.                             *)
CappedDoubling(n) ==
  \A base \in Bases : BoundedRetryBackoffSeconds(base, n) =
     Capped((IF base < 1 THEN 1 ELSE Capped(base)) * 2^n)

(* When markFinal calls do not overlap: every retry is counted and waits   *)
(* the doubled, capped delay, as later retries will; a task runs at most   *)
(* once more than it may be retried; and a claim never comes in a second   *)
(* before the one the task is ready in (texts and not times are compared,  *)
(* so a backoff is cut short by less than a second).                       *)
SerialRunsAreExact ==
  [][serial => \A t \in Tasks :
       /\ row[t].status = "running" /\ row'[t].status = "pending" =>
            /\ row'[t].retryCount = row[t].retryCount + 1
            /\ row'[t].nextRetryAt = clock + TicksPerSecond * Capped(row[t].backoff * 2^row[t].retryCount)
            /\ \A later \in 0..13 : CappedDoubling(row[t].retryCount + later)
       /\ row[t].status = "pending" /\ row'[t].status = "running" =>
            Second(EffectiveReadyAt(row[t])) <= Second(clock)
       /\ Cardinality({i \in 1..Len(journal'[t]) : journal'[t][i].note = "claimed"})
            <= row'[t].maxRetries + 1]_vars

(* The watcher goes on: a shutdown request is answered or ends the process *)
(* and is not lost waiting for the workers or the poll loop, and a claimed *)
(* task is finished or given back, unless the process is gone or a call    *)
(* was lost.                                                               *)
WatcherGoesOn == W!WatcherGoesOn

(* The policy allows exactly what its stages permit, never lets anything   *)
(* destructive pass silently, trusts without opening boundaries, and       *)
(* merges presets to the stricter (Evaluate, EffectivePolicyProfile).      *)
PolicyPromises == instance = "policy" => Q!PolicyPromises
=============================================================================
