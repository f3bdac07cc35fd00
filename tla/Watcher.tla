------------------------------- MODULE Watcher -------------------------------
(***************************************************************************)
(* The watcher process (cmd/rterm-core, "watcher"): one poll loop that     *)
(* claims tasks from the core over HTTP and queues them, a pool of worker  *)
(* goroutines that run them and report the outcome, and the shutdown       *)
(* requests that stop both.  The goroutines share the jobs channel, the    *)
(* maps pending and running (a mutex each) and two atomic flags; every     *)
(* access to one of these is a step of its own.                            *)
(*                                                                         *)
(* The store is the TaskLifecycle module, which TaskStore implements.      *)
(***************************************************************************)
EXTENDS Naturals, Sequences, FiniteSets

CONSTANTS
  Tasks,
  Supported,      \* tasks whose type has a handler
  Retries,        \* retries a task is created with
  Workers,        \* worker goroutines
  QueueFactor,    \* the jobs channel holds QueueFactor tasks per worker
  Shutdowns,      \* shutdown requests
  Signals,        \* those that are SIGINT or SIGTERM, not POST /watcher/shutdown
  MaxFaults,      \* task API calls that fail
  Me, NoWorker    \* the watcher's worker_id, and none

ASSUME WatcherAssumption ==
  /\ Supported \subseteq Tasks
  /\ Retries \in [Tasks -> Nat]
  /\ IsFiniteSet(Workers) /\ Workers # {}
  /\ QueueFactor \in Nat \ {0}
  /\ Signals \subseteq Shutdowns
  /\ MaxFaults \in Nat
  /\ Me # NoWorker

QueueCap == QueueFactor * Cardinality(Workers)
ClaimLimit == Cardinality(Workers)
NoTask == "no task"

VARIABLES
  status, holder,       \* the store: TaskLifecycle
  retriesLeft,          \* the store: max_retries - retry_count
  jobs, closed,         \* the jobs channel
  pending, running,     \* the tracking maps
  stopPolling, abortTasks,
  pollDone,             \* the stop channel of the loops is closed
  poll,                 \* the poll loop: where it is, the batch, the task in hand
  at, hand,             \* per worker: where it is, the task in hand
  sd,                   \* per shutdown request: where it is, what it has read
  alive,                \* the process runs
  faults                \* failed API calls so far

store == <<status, holder, retriesLeft>>
queue == <<jobs, closed>>
flags == <<stopPolling, abortTasks, pollDone>>
vars == <<store, queue, pending, running, flags, poll, at, hand, sd, alive, faults>>

L == INSTANCE TaskLifecycle WITH Workers <- {Me}

Init ==
  /\ status = [t \in Tasks |-> "pending"]
  /\ holder = [t \in Tasks |-> NoWorker]
  /\ retriesLeft = Retries
  /\ jobs = <<>> /\ closed = FALSE
  /\ pending = {} /\ running = {}
  /\ stopPolling = FALSE /\ abortTasks = FALSE /\ pollDone = FALSE
  /\ poll = [pc |-> "select", todo |-> {}, task |-> NoTask]
  /\ at = [w \in Workers |-> "receive"]
  /\ hand = [w \in Workers |-> NoTask]
  /\ sd = [s \in Shutdowns |-> [pc |-> "none", seen |-> {}, expired |-> FALSE, failed |-> FALSE]]
  /\ alive = TRUE
  /\ faults = 0

-----------------------------------------------------------------------------
(* The task API.  A call on a task this watcher no longer holds gets 409.  *)
Held(t) == status[t] = "running" /\ holder[t] = Me

MarkDone(t) ==
  /\ IF Held(t) THEN L!Finish(t, Me, "done") ELSE UNCHANGED <<status, holder>>
  /\ UNCHANGED <<retriesLeft, faults>>

FailTask(t) ==
  IF ~Held(t) THEN UNCHANGED store
  ELSE IF retriesLeft[t] > 0
  THEN L!GiveBack(t, Me) /\ retriesLeft' = [retriesLeft EXCEPT ![t] = @ - 1]
  ELSE L!Finish(t, Me, "failed") /\ UNCHANGED retriesLeft

MarkFailed(t) == FailTask(t) /\ UNCHANGED faults

(* The store applies the call and its response is lost.                   *)
MarkFailedUnanswered(t) ==
  /\ faults < MaxFaults
  /\ faults' = faults + 1
  /\ FailTask(t)

(* The call fails (transport error, timeout, 5xx) without effect.         *)
CallLost ==
  /\ faults < MaxFaults
  /\ faults' = faults + 1
  /\ UNCHANGED store

-----------------------------------------------------------------------------
(* The poll loop.  select takes the stop channel or the ticker.           *)
PollStop ==
  /\ alive /\ poll.pc = "select" /\ pollDone
  /\ stopPolling' = TRUE
  /\ poll' = [poll EXCEPT !.pc = "exited"]
  /\ UNCHANGED <<store, queue, pending, running, abortTasks, pollDone, at, hand, sd, alive, faults>>

PollTick ==
  /\ alive /\ poll.pc = "select"
  /\ poll' = [poll EXCEPT !.pc = IF stopPolling THEN "exited" ELSE "claim"]
  /\ UNCHANGED <<store, queue, pending, running, flags, at, hand, sd, alive, faults>>

ClaimTasks ==
  /\ alive /\ poll.pc = "claim"
  /\ \E S \in SUBSET Tasks :
        /\ Cardinality(S) <= ClaimLimit
        /\ L!Take(Me, S)
        /\ poll' = [poll EXCEPT !.pc = "dispatch", !.todo = S]
  /\ UNCHANGED <<retriesLeft, queue, pending, running, flags, at, hand, sd, alive, faults>>

(* Nothing is ready, or the request fails before it reaches the store.    *)
ClaimNothing ==
  /\ alive /\ poll.pc = "claim"
  /\ poll' = [poll EXCEPT !.pc = "select"]
  /\ UNCHANGED <<store, queue, pending, running, flags, at, hand, sd, alive, faults>>

(* The claim commits and its response is lost.                            *)
ClaimResponseLost ==
  /\ alive /\ poll.pc = "claim"
  /\ faults < MaxFaults
  /\ faults' = faults + 1
  /\ \E S \in SUBSET Tasks : Cardinality(S) <= ClaimLimit /\ L!Take(Me, S)
  /\ poll' = [poll EXCEPT !.pc = "select"]
  /\ UNCHANGED <<retriesLeft, queue, pending, running, flags, at, hand, sd, alive>>

NextClaimed(t) ==
  /\ alive /\ poll.pc = "dispatch" /\ t \in poll.todo
  /\ poll' = [pc |-> IF stopPolling THEN "refuse" ELSE "track",
              todo |-> poll.todo \ {t}, task |-> t]
  /\ UNCHANGED <<store, queue, pending, running, flags, at, hand, sd, alive, faults>>

BatchDone ==
  /\ alive /\ poll.pc = "dispatch" /\ poll.todo = {}
  /\ poll' = [poll EXCEPT !.pc = "select", !.task = NoTask]
  /\ UNCHANGED <<store, queue, pending, running, flags, at, hand, sd, alive, faults>>

(* "watcher shutting down" or "watcher queue overflow"; errors are ignored.*)
Refuse ==
  /\ alive /\ poll.pc = "refuse"
  /\ MarkFailed(poll.task) \/ CallLost
  /\ poll' = [poll EXCEPT !.pc = "dispatch"]
  /\ UNCHANGED <<queue, pending, running, flags, at, hand, sd, alive>>

TrackPending ==
  /\ alive /\ poll.pc = "track"
  /\ pending' = pending \cup {poll.task}
  /\ poll' = [poll EXCEPT !.pc = "send"]
  /\ UNCHANGED <<store, queue, running, flags, at, hand, sd, alive, faults>>

SendJob ==
  /\ alive /\ poll.pc = "send"
  /\ ~closed /\ Len(jobs) < QueueCap
  /\ jobs' = Append(jobs, poll.task)
  /\ poll' = [poll EXCEPT !.pc = "dispatch"]
  /\ UNCHANGED <<store, closed, pending, running, flags, at, hand, sd, alive, faults>>

Overflow ==
  /\ alive /\ poll.pc = "send"
  /\ ~closed /\ Len(jobs) = QueueCap
  /\ pending' = pending \ {poll.task}
  /\ poll' = [poll EXCEPT !.pc = "refuse"]
  /\ UNCHANGED <<store, queue, running, flags, at, hand, sd, alive, faults>>

(* Sending on a closed channel panics, in a select with a default too.    *)
SendOnClosed ==
  /\ alive /\ poll.pc = "send" /\ closed
  /\ alive' = FALSE
  /\ UNCHANGED <<store, queue, pending, running, flags, poll, at, hand, sd, faults>>

PollNext ==
  \/ PollStop \/ PollTick \/ ClaimTasks \/ ClaimNothing \/ ClaimResponseLost
  \/ (\E t \in Tasks : NextClaimed(t)) \/ BatchDone \/ Refuse
  \/ TrackPending \/ SendJob \/ Overflow \/ SendOnClosed

-----------------------------------------------------------------------------
(* Worker w: the body of workerLoop and executeTask.                      *)
Goto(w, pc) == at' = [at EXCEPT ![w] = pc]

Receive(w) ==
  /\ alive /\ at[w] = "receive" /\ jobs # <<>>
  /\ hand' = [hand EXCEPT ![w] = Head(jobs)]
  /\ jobs' = Tail(jobs)
  /\ Goto(w, "check")
  /\ UNCHANGED <<store, closed, pending, running, flags, poll, sd, alive, faults>>

WorkerExit(w) ==
  /\ alive /\ at[w] = "receive" /\ jobs = <<>> /\ closed
  /\ Goto(w, "exited")
  /\ UNCHANGED <<store, queue, pending, running, flags, poll, hand, sd, alive, faults>>

Check(w) ==
  /\ alive /\ at[w] = "check"
  /\ Goto(w, IF abortTasks \/ hand[w] \notin Supported THEN "drop" ELSE "track")
  /\ UNCHANGED <<store, queue, pending, running, flags, poll, hand, sd, alive, faults>>

Drop(w) ==
  /\ alive /\ at[w] = "drop"
  /\ pending' = pending \ {hand[w]}
  /\ Goto(w, "reportDropped")
  /\ UNCHANGED <<store, queue, running, flags, poll, hand, sd, alive, faults>>

ReportDropped(w) ==
  /\ alive /\ at[w] = "reportDropped"
  /\ MarkFailed(hand[w]) \/ CallLost
  /\ Goto(w, "receive")
  /\ hand' = [hand EXCEPT ![w] = NoTask]
  /\ UNCHANGED <<queue, pending, running, flags, poll, sd, alive>>

TrackRunning(w) ==
  /\ alive /\ at[w] = "track"
  /\ running' = running \cup {hand[w]}
  /\ Goto(w, "untrack")
  /\ UNCHANGED <<store, queue, pending, flags, poll, hand, sd, alive, faults>>

UntrackPending(w) ==
  /\ alive /\ at[w] = "untrack"
  /\ pending' = pending \ {hand[w]}
  /\ Goto(w, "run")
  /\ UNCHANGED <<store, queue, running, flags, poll, hand, sd, alive, faults>>

(* The handler returns nil or an error, sooner when it is cancelled.      *)
HandlerReturns(w) ==
  /\ alive /\ at[w] = "run"
  /\ \E outcome \in {"reportDone", "reportFailed"} : Goto(w, outcome)
  /\ UNCHANGED <<store, queue, pending, running, flags, poll, hand, sd, alive, faults>>

(* Whatever the call returns, the worker goes on.                         *)
Report(w) ==
  /\ alive
  /\ \/ at[w] = "reportDone" /\ (MarkDone(hand[w]) \/ CallLost)
     \/ at[w] = "reportFailed" /\ (MarkFailed(hand[w]) \/ CallLost)
  /\ Goto(w, "cleanup")
  /\ UNCHANGED <<queue, pending, running, flags, poll, hand, sd, alive>>

Cleanup(w) ==
  /\ alive /\ at[w] = "cleanup"
  /\ running' = running \ {hand[w]}
  /\ hand' = [hand EXCEPT ![w] = NoTask]
  /\ Goto(w, "receive")
  /\ UNCHANGED <<store, queue, pending, flags, poll, sd, alive, faults>>

WorkerNext(w) ==
  \/ Receive(w) \/ WorkerExit(w) \/ Check(w) \/ Drop(w) \/ ReportDropped(w)
  \/ TrackRunning(w) \/ UntrackPending(w) \/ HandlerReturns(w)
  \/ Report(w) \/ Cleanup(w)

-----------------------------------------------------------------------------
(* Shutdown request s: its handler, then gracefulShutdown, then the waits. *)
Step(s, pc) == sd' = [sd EXCEPT ![s].pc = pc]

CloseStopChannel(s) ==
  /\ alive /\ sd[s].pc = "none"
  /\ pollDone' = TRUE
  /\ Step(s, "stop")
  /\ UNCHANGED <<store, queue, pending, running, stopPolling, abortTasks, poll, at, hand, alive, faults>>

StopPolling(s) ==
  /\ alive /\ sd[s].pc = "stop"
  /\ stopPolling' = TRUE
  /\ Step(s, "readPending")
  /\ UNCHANGED <<store, queue, pending, running, abortTasks, pollDone, poll, at, hand, alive, faults>>

(* The ten seconds of the request's context are over.                     *)
Expire(s) ==
  /\ alive /\ sd[s].pc # "none" /\ ~sd[s].expired
  /\ sd' = [sd EXCEPT ![s].expired = TRUE]
  /\ UNCHANGED <<store, queue, pending, running, flags, poll, at, hand, alive, faults>>

(* inflightCount locks one map after the other.                           *)
ReadPending(s) ==
  /\ alive /\ sd[s].pc = "readPending"
  /\ sd' = [sd EXCEPT ![s].pc = "readRunning", ![s].seen = pending]
  /\ UNCHANGED <<store, queue, pending, running, flags, poll, at, hand, alive, faults>>

ReadRunning(s) ==
  /\ alive /\ sd[s].pc = "readRunning"
  /\ sd' = [sd EXCEPT ![s].seen = {},
       ![s].pc = IF sd[s].seen = {} /\ running = {} THEN "close"
                 ELSE IF sd[s].expired THEN "abort" ELSE "readPending"]
  /\ UNCHANGED <<store, queue, pending, running, flags, poll, at, hand, alive, faults>>

Abort(s) ==
  /\ alive /\ sd[s].pc = "abort"
  /\ abortTasks' = TRUE
  /\ Step(s, "listPending")
  /\ UNCHANGED <<store, queue, pending, running, stopPolling, pollDone, poll, at, hand, alive, faults>>

(* snapshotInflightTaskIDs locks one map after the other.                 *)
ListPending(s) ==
  /\ alive /\ sd[s].pc = "listPending"
  /\ sd' = [sd EXCEPT ![s].pc = "listRunning", ![s].seen = pending]
  /\ UNCHANGED <<store, queue, pending, running, flags, poll, at, hand, alive, faults>>

ListRunning(s) ==
  /\ alive /\ sd[s].pc = "listRunning"
  /\ sd' = [sd EXCEPT ![s].pc = "failInflight", ![s].seen = @ \cup running]
  /\ UNCHANGED <<store, queue, pending, running, flags, poll, at, hand, alive, faults>>

(* A 404 or 409 is no error here; anything else is remembered.            *)
FailInflight(s, t) ==
  /\ alive /\ sd[s].pc = "failInflight" /\ t \in sd[s].seen
  /\ \/ MarkFailed(t) /\ sd' = [sd EXCEPT ![s].seen = @ \ {t}]
     \/ /\ CallLost \/ MarkFailedUnanswered(t)
        /\ sd' = [sd EXCEPT ![s].seen = @ \ {t}, ![s].failed = TRUE]
  /\ pending' = pending \ {t}
  /\ running' = running \ {t}
  /\ UNCHANGED <<queue, flags, poll, at, hand, alive>>

InflightFailed(s) ==
  /\ alive /\ sd[s].pc = "failInflight" /\ sd[s].seen = {}
  /\ Step(s, "close")
  /\ UNCHANGED <<store, queue, pending, running, flags, poll, at, hand, alive, faults>>

(* Variant: the channel is left open.                                     *)
KeepTaskQueueOpen(s) ==
  /\ alive /\ sd[s].pc = "close"
  /\ Step(s, IF sd[s].failed /\ s \notin Signals THEN "error" ELSE "waitWorkers")
  /\ UNCHANGED <<store, queue, pending, running, flags, poll, at, hand, alive, faults>>

(* The signal path goes on where the HTTP handler returns the error.      *)
CloseTaskQueue(s) ==
  /\ alive /\ sd[s].pc = "close"
  /\ closed' = TRUE
  /\ Step(s, IF sd[s].failed /\ s \notin Signals THEN "error" ELSE "waitWorkers")
  /\ UNCHANGED <<store, jobs, pending, running, flags, poll, at, hand, alive, faults>>

WorkersDone(s) ==
  /\ alive /\ sd[s].pc = "waitWorkers"
  /\ \A w \in Workers : at[w] = "exited"
  /\ Step(s, "waitLoop")
  /\ UNCHANGED <<store, queue, pending, running, flags, poll, at, hand, alive, faults>>

(* Variant: the poll loop is not waited for.                              *)
LoopNotAwaited(s) ==
  /\ alive /\ sd[s].pc = "waitLoop"
  /\ Step(s, "stopped")
  /\ UNCHANGED <<store, queue, pending, running, flags, poll, at, hand, alive, faults>>

LoopDone(s) ==
  /\ alive /\ sd[s].pc = "waitLoop" /\ poll.pc = "exited"
  /\ Step(s, "stopped")
  /\ UNCHANGED <<store, queue, pending, running, flags, poll, at, hand, alive, faults>>

LoopTimeout(s) ==
  /\ alive /\ sd[s].pc = "waitLoop" /\ sd[s].expired
  /\ Step(s, IF s \in Signals THEN "timedOut" ELSE "error")
  /\ UNCHANGED <<store, queue, pending, running, flags, poll, at, hand, alive, faults>>

(* The HTTP server is shut down and the process ends.                     *)
Exit(s) ==
  /\ alive /\ sd[s].pc \in {"stopped", "timedOut"}
  /\ alive' = FALSE
  /\ UNCHANGED <<store, queue, pending, running, flags, poll, at, hand, sd, faults>>

ShutdownNext(s) ==
  \/ CloseStopChannel(s) \/ StopPolling(s) \/ Expire(s)
  \/ ReadPending(s) \/ ReadRunning(s) \/ Abort(s) \/ ListPending(s) \/ ListRunning(s)
  \/ (\E t \in Tasks : FailInflight(s, t)) \/ InflightFailed(s) \/ CloseTaskQueue(s)
  \/ WorkersDone(s) \/ LoopDone(s) \/ LoopTimeout(s) \/ Exit(s)

Next ==
  \/ PollNext
  \/ \E w \in Workers : WorkerNext(w)
  \/ \E s \in Shutdowns : ShutdownNext(s)

Spec == Init /\ [][Next]_vars

-----------------------------------------------------------------------------
PollPC == {"select", "claim", "dispatch", "refuse", "track", "send", "exited"}
WorkerPC == {"receive", "check", "drop", "reportDropped", "track", "untrack", "run",
             "reportDone", "reportFailed", "cleanup", "exited"}
ShutdownPC == {"none", "stop", "readPending", "readRunning", "abort", "listPending",
               "listRunning", "failInflight", "close", "waitWorkers", "waitLoop",
               "stopped", "timedOut", "error"}

TypeOK ==
  /\ status \in [Tasks -> {"pending", "running", "done", "failed"}]
  /\ holder \in [Tasks -> {Me, NoWorker}]
  /\ retriesLeft \in [Tasks -> Nat] /\ \A t \in Tasks : retriesLeft[t] <= Retries[t]
  /\ jobs \in Seq(Tasks) /\ closed \in BOOLEAN
  /\ pending \subseteq Tasks /\ running \subseteq Tasks
  /\ stopPolling \in BOOLEAN /\ abortTasks \in BOOLEAN /\ pollDone \in BOOLEAN
  /\ poll \in [pc : PollPC, todo : SUBSET Tasks, task : Tasks \cup {NoTask}]
  /\ at \in [Workers -> WorkerPC]
  /\ hand \in [Workers -> Tasks \cup {NoTask}]
  /\ sd \in [Shutdowns -> [pc : ShutdownPC, seen : SUBSET Tasks,
                           expired : BOOLEAN, failed : BOOLEAN]]
  /\ alive \in BOOLEAN
  /\ faults \in Nat

InFlight == {"check", "drop", "track", "untrack", "run"}

(* inflightCount reads two maps that workers move tasks between, yet when  *)
(* it counts zero and the queue is closed for it, no more than one task is *)
(* left in the queue and the workers' hands: the one the poll loop queued  *)
(* after its last look at the stop flag.  (A task that was retried is      *)
(* tracked under one name by two workers, and may be missed.)              *)
AtMostOneStraggler ==
  closed /\ ~abortTasks /\ retriesLeft = Retries =>
     Len(jobs) + Cardinality({w \in Workers : at[w] \in InFlight}) <= 1

(* A shutdown request that is answered "stopped" leaves nothing behind:    *)
(* every task this watcher claimed is finished or given back in the store, *)
(* unless a call to the task API failed: the loops drop its error, and the *)
(* task stays claimed.                                                     *)
StoppedMeansFinalized ==
  \A s \in Shutdowns :
     sd[s].pc = "stopped" /\ faults = 0 => \A t \in Tasks : ~Held(t)

(* No call changes the store after a shutdown request was answered        *)
(* "stopped", whichever request it was; one that is still failing tasks it *)
(* listed earlier finds them settled, if no call has failed.               *)
StoreRestsAfterStopped ==
  [][(\E s \in Shutdowns : sd[s].pc = "stopped") /\ faults = 0 => UNCHANGED store]_vars

(* Closing the queue leaves out at most one task, a "stopped" answer leaves *)
(* no task claimed, and nothing is claimed or reported after it.           *)
StopIsClean ==
  [](AtMostOneStraggler /\ StoppedMeansFinalized) /\ StoreRestsAfterStopped

-----------------------------------------------------------------------------
(* The scheduler runs every goroutine that can go on, the request's timer  *)
(* fires, and handlers return.  A claim made again and again is in the end *)
(* answered with a task that stays ready.                                  *)
Fairness ==
  /\ WF_vars(PollNext) /\ SF_vars(ClaimTasks)
  /\ \A w \in Workers : WF_vars(WorkerNext(w))
  /\ \A s \in Shutdowns : WF_vars(sd[s].pc # "none" /\ ShutdownNext(s))
  /\ \A s \in Shutdowns : WF_vars(Expire(s))

FairSpec == Spec /\ Fairness

(* The watcher goes on: a shutdown request is answered or ends the process *)
(* and is not lost waiting for the workers or the poll loop, and a claimed *)
(* task is finished or given back, unless the process is gone or a call    *)
(* was lost (which nothing makes up for).                                  *)
WatcherGoesOn ==
  []<>( \/ ~alive
        \/ /\ \A s \in Shutdowns : sd[s].pc \in {"none", "stopped", "timedOut", "error"}
           /\ \A t \in Tasks : ~Held(t) \/ faults > 0)
=============================================================================
