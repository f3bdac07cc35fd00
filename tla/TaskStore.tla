------------------------------ MODULE TaskStore ------------------------------
(***************************************************************************)
(* The durable task store of the core (core/tasks) behind its HTTP API.    *)
(* Every transaction is one action.  Marking a task done or failed is two: *)
(* GetTask reads the row outside the transaction that later updates it, so *)
(* other calls run between the read and the guarded UPDATE.                *)
(*                                                                         *)
(* Calls come from any worker, for any task, any number of times, late and *)
(* concurrent: the store does not know what the workers hold.              *)
(***************************************************************************)
EXTENDS TaskTime, TaskRetryPolicy, FiniteSets

CONSTANTS
  Tasks, Workers, NoWorker,
  Handlers,            \* request goroutines that may be inside markFinal
  MaxRetriesChoices,   \* accepted values of max_retries in create requests
  BackoffChoices,      \* accepted values of retry_backoff_seconds in create requests
  RunAtChoices,        \* values of run_at in create requests
  Limits,              \* values of limit in claim requests, normalised
  MaxTime              \* the clock stops here

ASSUME StoreAssumption ==
  /\ NoWorker \notin Workers
  /\ MaxRetriesChoices \subseteq 0..100
  /\ BackoffChoices \subseteq 1..3600
  /\ RunAtChoices \subseteq Nat
  /\ Limits \subseteq 1..100
  /\ MaxTime \in Nat

VARIABLES
  row,      \* the table tasks
  journal,  \* the table task_events, per task, in insertion order
  call,     \* per handler: the markFinal call between its read and its update
  clock

vars == <<row, journal, call, clock>>

None == -1        \* SQL NULL in a time column
Status == {"absent", "pending", "running", "done", "failed"}

Absent == [status |-> "absent", lockedBy |-> NoWorker, retryCount |-> 0,
           maxRetries |-> 0, backoff |-> 0, runAt |-> 0, nextRetryAt |-> None]

Row == [status : Status, lockedBy : Workers \cup {NoWorker}, retryCount : Nat,
        maxRetries : MaxRetriesChoices \cup {0}, backoff : BackoffChoices \cup {0},
        runAt : Nat, nextRetryAt : Nat \cup {None}]

Event == [from : Status, to : Status, by : Workers \cup {NoWorker},
          note : {"created", "claimed", "done", "failed",
                  "retry_scheduled", "retry_exhausted"}]

Idle == [task |-> "none"]
Call == [task : Tasks, worker : Workers, next : {"done", "failed"}, seen : Row]

Logged(t, from, to, by, note) ==
  Append(journal[t], [from |-> from, to |-> to, by |-> by, note |-> note])

Init ==
  /\ row = [t \in Tasks |-> Absent]
  /\ journal = [t \in Tasks |-> <<>>]
  /\ call = [h \in Handlers |-> Idle]
  /\ clock = 0

-----------------------------------------------------------------------------
CreateTask(t, runAt, maxRetries, backoff) ==
  /\ row[t].status = "absent"
  /\ row' = [row EXCEPT ![t] =
       [Absent EXCEPT !.status = "pending", !.runAt = runAt,
                      !.maxRetries = maxRetries,
                      !.backoff = NormalizedBackoff(maxRetries, backoff)]]
  /\ journal' = [journal EXCEPT
       ![t] = Logged(t, "absent", "pending", NoWorker, "created")]
  /\ UNCHANGED <<call, clock>>

EffectiveReadyAt(r) == IF r.nextRetryAt # None THEN r.nextRetryAt ELSE r.runAt

ReadyText(t) == Format(EffectiveReadyAt(row[t]))

(* Variant: a failed task is taken again.                                 *)
ReadyOrFailed(t) ==
  /\ row[t].status \in {"pending", "failed"}
  /\ TextLeq(ReadyText(t), Format(clock))

Ready(t) ==
  /\ row[t].status = "pending"
  /\ row[t].lockedBy = NoWorker
  /\ TextLeq(ReadyText(t), Format(clock))

(* ORDER BY the effective ready time, LIMIT limit.                        *)
ClaimBatch(S, limit) ==
  LET ready == {t \in Tasks : Ready(t)}
  IN  /\ S \subseteq ready
      /\ Cardinality(S) = IF Cardinality(ready) < limit THEN Cardinality(ready)
                                                        ELSE limit
      /\ \A s \in S, r \in ready \ S : TextLeq(ReadyText(s), ReadyText(r))

(* The row keeps next_retry_at; only the returned copy clears it.         *)
ClaimReadyTasks(w, limit) ==
  \E S \in (SUBSET Tasks) \ {{}} :
     /\ ClaimBatch(S, limit)
     /\ row' = [t \in Tasks |->
          IF t \in S THEN [row[t] EXCEPT !.status = "running", !.lockedBy = w]
                     ELSE row[t]]
     /\ journal' = [t \in Tasks |->
          IF t \in S THEN Logged(t, row[t].status, "running", w, "claimed")
                     ELSE journal[t]]
     /\ UNCHANGED <<call, clock>>

-----------------------------------------------------------------------------
(* GetTask and the checks on what it returned.  A call that fails a check  *)
(* returns its error and changes nothing.                                  *)
ReadForFinal(h, t, w, next) ==
  /\ call[h] = Idle
  /\ row[t].lockedBy = w
  /\ row[t].status = "running"
  /\ call' = [call EXCEPT ![h] =
       [task |-> t, worker |-> w, next |-> next, seen |-> row[t]]]
  /\ UNCHANGED <<row, journal, clock>>

(* The WHERE clause of both updates.                                      *)
StillHeld(c) ==
  /\ row[c.task].status = "running"
  /\ row[c.task].lockedBy = c.worker

WillRetry(c) == c.next = "failed" /\ c.seen.retryCount < c.seen.maxRetries

(* Variant: locked_by is not cleared.                                     *)
RetriedRowStaysLocked(c) ==
  [row[c.task] EXCEPT
     !.status = "pending", !.retryCount = c.seen.retryCount + 1,
     !.nextRetryAt = clock + TicksPerSecond]

RetriedRow(c) ==
  [row[c.task] EXCEPT
     !.status = "pending", !.lockedBy = NoWorker,
     !.retryCount = c.seen.retryCount + 1,
     !.nextRetryAt = clock + TicksPerSecond *
        BoundedRetryBackoffSeconds(c.seen.backoff, c.seen.retryCount)]

ScheduleRetry(h) ==
  LET c == call[h] IN
  /\ c # Idle
  /\ WillRetry(c)
  /\ StillHeld(c)
  /\ row' = [row EXCEPT ![c.task] = RetriedRow(c)]
  /\ journal' = [journal EXCEPT ![c.task] =
       Logged(c.task, "running", "pending", c.worker, "retry_scheduled")]
  /\ call' = [call EXCEPT ![h] = Idle]
  /\ UNCHANGED clock

FinalNote(c) ==
  IF c.next = "done" THEN "done"
  ELSE IF c.seen.maxRetries > 0 THEN "retry_exhausted" ELSE "failed"

Finalize(h) ==
  LET c == call[h] IN
  /\ c # Idle
  /\ ~WillRetry(c)
  /\ StillHeld(c)
  /\ row' = [row EXCEPT ![c.task].status = c.next, ![c.task].nextRetryAt = None]
  /\ journal' = [journal EXCEPT ![c.task] =
       Logged(c.task, c.seen.status, c.next, c.worker, FinalNote(c))]
  /\ call' = [call EXCEPT ![h] = Idle]
  /\ UNCHANGED clock

(* Variant: the event is inserted outside the transaction that fails.     *)
RollBackRowOnly(h) ==
  /\ call[h] # Idle
  /\ journal' = [journal EXCEPT ![call[h].task] =
       Logged(call[h].task, "running", call[h].next, call[h].worker, "failed")]
  /\ call' = [call EXCEPT ![h] = Idle]
  /\ UNCHANGED <<row, clock>>

(* No row affected (ErrInvalidStatus), or the transaction fails: the event *)
(* insert or the commit returns an error, or the request is cancelled.     *)
(* Everything the transaction wrote is rolled back.                        *)
RollBack(h) ==
  /\ call[h] # Idle
  /\ call' = [call EXCEPT ![h] = Idle]
  /\ UNCHANGED <<row, journal, clock>>

Tick ==
  /\ clock < MaxTime
  /\ clock' = clock + 1
  /\ UNCHANGED <<row, journal, call>>

Next ==
  \/ \E t \in Tasks, at \in RunAtChoices, m \in MaxRetriesChoices, b \in BackoffChoices :
        CreateTask(t, at, m, b)
  \/ \E w \in Workers, limit \in Limits : ClaimReadyTasks(w, limit)
  \/ \E h \in Handlers, t \in Tasks, w \in Workers, next \in {"done", "failed"} :
        ReadForFinal(h, t, w, next)
  \/ \E h \in Handlers : ScheduleRetry(h)
  \/ \E h \in Handlers : Finalize(h)
  \/ \E h \in Handlers : RollBack(h)
  \/ Tick

Spec == Init /\ [][Next]_vars

-----------------------------------------------------------------------------
TypeOK ==
  /\ row \in [Tasks -> Row]
  /\ journal \in [Tasks -> Seq(Event)]
  /\ call \in [Handlers -> Call \cup {Idle}]
  /\ clock \in Nat

(* However late a markFinal call updates what it read, a task is retried at *)
(* most max_retries times over: the retry counter the store decides by     *)
(* never passes the policy of the task.                                    *)
RetryWithinBudget == \A t \in Tasks : row[t].retryCount <= row[t].maxRetries

(* A task is locked exactly while somebody may still finish it, and the    *)
(* name of the last holder stays on the row once it is final: a pending    *)
(* row is never locked (it could not be claimed again), and a running row  *)
(* is never unlocked (nobody could finish it).                             *)
LockMatchesStatus ==
  \A t \in Tasks :
     row[t].lockedBy = NoWorker <=> row[t].status \in {"absent", "pending"}

(* Both hold together: what a claim and a markFinal call decide by.        *)
StoreIsSound == RetryWithinBudget /\ LockMatchesStatus

(* task_events is the history of the row: the events of a task chain from  *)
(* its creation to its present status, with none missing and none extra.   *)
JournalIsHistory ==
  \A t \in Tasks :
     LET j == journal[t] IN
     /\ (j = <<>>) <=> (row[t].status = "absent")
     /\ j # <<>> => /\ j[1].from = "absent"
                    /\ j[Len(j)].to = row[t].status
     /\ \A i \in 1..(Len(j) - 1) : j[i].to = j[i + 1].from

(* Only the worker whose claim put a task in "running" ends that run, even *)
(* when its request was decided on a read made before somebody else's claim.*)
HolderEndsItsRun ==
  \A t \in Tasks :
     \A i \in 2..Len(journal[t]) :
        journal[t][i].from = "running" =>
           journal[t][i].by = journal[t][i - 1].by

(* The journal can be trusted: it is the history of every row, and names   *)
(* the worker that ended each run.                                         *)
JournalIsExact == JournalIsHistory /\ HolderEndsItsRun

Final == {"done", "failed"}

(* A final row never changes again: no late done, fail or claim reopens it.*)
FinalIsForever ==
  [][\A t \in Tasks : row[t].status \in Final => row'[t] = row[t]]_vars

L == INSTANCE TaskLifecycle WITH
       status <- [t \in Tasks |-> row[t].status],
       holder <- [t \in Tasks |-> row[t].lockedBy]

(* The store keeps the promise its callers rely on: statuses change only   *)
(* as TaskLifecycle allows, with the row's lock as the holder.             *)
ImplementsLifecycle == L!Spec

(* Statuses follow the lifecycle, and what is final stays as it is.        *)
LifecycleIsKept == ImplementsLifecycle /\ FinalIsForever

(* Every retry counts: a task that goes back to "pending" has a retry_count *)
(* one higher than before.                                                 *)
RetryCountIncrements ==
  [][\A t \in Tasks :
        row[t].status = "running" /\ row'[t].status = "pending" =>
           row'[t].retryCount = row[t].retryCount + 1]_vars
=============================================================================
