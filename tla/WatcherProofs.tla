---------------------------- MODULE WatcherProofs ----------------------------
(***************************************************************************)
(* Proofs about Watcher, for any number of tasks, retries, workers,        *)
(* shutdown requests and failing calls: a shutdown that is answered        *)
(* "stopped" leaves no claimed task behind and the store rests after it,   *)
(* and counting two maps one after the other misses at most one task.      *)
(*                                                                         *)
(* While no call has failed, a task this watcher holds in the store is     *)
(* somewhere in the process (HeldInv), and the goroutines stop in an order *)
(* that empties every place (StopInv).  While no task has been retried, a  *)
(* task is in one place only and is tracked there (ApartInv), so a count   *)
(* of zero leaves out nothing but the task that the poll loop had taken up *)
(* before it could see the stop flag (LateInv).                            *)
(***************************************************************************)
EXTENDS Watcher, TLAPS, FiniteSetTheorems

(* Where a task can be: in the batch of the poll loop, in its hand, in the *)
(* queue, or in the hand of a worker.                                      *)
InTodo(t) == t \in poll.todo
InPoll(t) == poll.pc \in {"refuse", "track", "send"} /\ poll.task = t
InQueue(t) == \E i \in 1..Len(jobs) : jobs[i] = t
InHand(w, t) == at[w] \notin {"receive", "exited"} /\ hand[w] = t

(* Its outcome has still to be reported.                                   *)
Unreported == {"check", "drop", "reportDropped", "track", "untrack", "run", "reportDone", "reportFailed"}
Owned(t) == InTodo(t) \/ InPoll(t) \/ InQueue(t) \/ \E w \in Workers : at[w] \in Unreported /\ hand[w] = t

-----------------------------------------------------------------------------
(* What is in a hand is a task, and a batch is worked off before the next. *)
CarryInv ==
  /\ poll.pc \in {"refuse", "track", "send"} => poll.task \in Tasks
  /\ poll.pc \in {"select", "claim", "exited"} => poll.todo = {}
  /\ \A w \in Workers : at[w] \notin {"receive", "exited"} => hand[w] \in Tasks

(* The order in which things stop.                                         *)
StopInv ==
  /\ \A w \in Workers : at[w] = "exited" => closed /\ jobs = <<>>
  /\ closed => stopPolling
  /\ \A s \in Shutdowns :
       /\ sd[s].pc \in {"waitLoop", "stopped"} => \A w \in Workers : at[w] = "exited"
       /\ sd[s].pc = "stopped" => poll.pc = "exited"
       /\ sd[s].pc \notin {"none", "stop"} => stopPolling
       /\ sd[s].pc \in {"listPending", "listRunning", "failInflight"} => abortTasks

(* While every call got its answer, nothing that is claimed is forgotten.  *)
HeldInv == faults = 0 => \A t \in Tasks : Held(t) => Owned(t)

(* No retry so far, and no shutdown that gives up waiting.                 *)
Straight == ~abortTasks /\ retriesLeft = Retries

(* A task is in one place, and is not ready to be claimed again.           *)
Apart(t) ==
  /\ ~(InTodo(t) /\ InPoll(t)) /\ ~(InTodo(t) /\ InQueue(t)) /\ ~(InPoll(t) /\ InQueue(t))
  /\ \A i, j \in 1..Len(jobs) : jobs[i] = t /\ jobs[j] = t => i = j
  /\ \A w \in Workers : InHand(w, t) =>
        /\ ~InTodo(t) /\ ~InPoll(t) /\ ~InQueue(t)
        /\ \A v \in Workers : InHand(v, t) => v = w
  /\ InTodo(t) \/ InPoll(t) \/ InQueue(t) \/ (\E w \in Workers : InHand(w, t)) => status[t] # "pending"

(* The maps know the tasks on their way.                                   *)
Tracked(t) ==
  /\ (poll.pc = "send" /\ poll.task = t) \/ InQueue(t) => t \in pending
  /\ \A w \in Workers : hand[w] = t =>
        /\ at[w] \in {"check", "drop", "track", "untrack"} => t \in pending
        /\ at[w] \in {"untrack", "run", "reportDone", "reportFailed", "cleanup"} => t \in running

ApartInv == Straight => \A t \in Tasks : Apart(t) /\ Tracked(t)

(* On the way to a worker, or up to one of its steps.                      *)
Coming(t, steps) ==
  \/ poll.pc \in {"track", "send"} /\ poll.task = t
  \/ InQueue(t)
  \/ \E w \in Workers : at[w] \in steps /\ hand[w] = t

Waiting == {"check", "drop", "track"}

AtMostOne(steps) == \A t, u \in Tasks : Coming(t, steps) /\ Coming(u, steps) => t = u

(* A request that has found no pending task, and one that found no running *)
(* task after it.                                                          *)
LateInv ==
  Straight =>
    /\ (\E s \in Shutdowns : sd[s].pc = "readRunning" /\ sd[s].seen = {}) => AtMostOne(Waiting)
    /\ (closed \/ \E s \in Shutdowns : sd[s].pc = "close") => AtMostOne(InFlight)

WatcherInv == TypeOK /\ CarryInv /\ StopInv /\ HeldInv /\ ApartInv /\ LateInv
-----------------------------------------------------------------------------
(* The store's side.  A call that ends an attempt gives nothing to this    *)
(* watcher, and makes a task ready again only by a retry.                  *)
StoreOK ==
  /\ status \in [Tasks -> {"pending", "running", "done", "failed"}]
  /\ holder \in [Tasks -> {Me, NoWorker}]
  /\ retriesLeft \in [Tasks -> Nat] /\ \A t \in Tasks : retriesLeft[t] <= Retries[t]

Returns ==
  /\ StoreOK'
  /\ \A u \in Tasks : Held(u)' => Held(u)
  /\ retriesLeft' = Retries =>
        retriesLeft = Retries /\ \A u \in Tasks : status'[u] = "pending" => status[u] = "pending"

LEMMA SameReturns == ASSUME StoreOK, UNCHANGED store PROVE Returns
BY DEF StoreOK, store, Returns, Held

LEMMA FailReturns ==
  ASSUME StoreOK, NEW t \in Tasks, FailTask(t)
  PROVE  Returns /\ ~Held(t)'
<1>1. CASE ~Held(t)
  BY <1>1, SameReturns DEF FailTask, store, Held
<1>2. CASE Held(t) /\ retriesLeft[t] > 0
  <2>1. /\ status' = [status EXCEPT ![t] = "pending"]
        /\ holder' = [holder EXCEPT ![t] = NoWorker]
        /\ retriesLeft' = [retriesLeft EXCEPT ![t] = @ - 1]
    BY <1>2 DEF FailTask, L!GiveBack
  <2>2. StoreOK' /\ retriesLeft' # Retries
    <3>1. retriesLeft[t] \in Nat /\ retriesLeft[t] <= Retries[t] /\ \A u \in Tasks : Retries[u] \in Nat
      BY WatcherAssumption DEF StoreOK
    <3>2. /\ retriesLeft' \in [Tasks -> Nat]
          /\ \A u \in Tasks : retriesLeft'[u] <= Retries[u]
          /\ retriesLeft'[t] # Retries[t]
      BY <1>2, <2>1, <3>1 DEF StoreOK
    <3>3. /\ status' \in [Tasks -> {"pending", "running", "done", "failed"}]
          /\ holder' \in [Tasks -> {Me, NoWorker}]
      BY <2>1 DEF StoreOK
    <3> QED
      BY <3>2, <3>3 DEF StoreOK
  <2>3. ~Held(t)' /\ \A u \in Tasks : Held(u)' => Held(u)
    BY <2>1 DEF StoreOK, Held
  <2> QED
    BY <2>2, <2>3 DEF Returns
<1>3. CASE Held(t) /\ ~(retriesLeft[t] > 0)
  <2>1. /\ status' = [status EXCEPT ![t] = "failed"]
        /\ UNCHANGED <<holder, retriesLeft>>
    BY <1>3 DEF FailTask, L!Finish
  <2>2. StoreOK' /\ ~Held(t)' /\ \A u \in Tasks : Held(u)' => Held(u)
    BY <2>1 DEF StoreOK, Held
  <2>3. \A u \in Tasks : status'[u] = "pending" => status[u] = "pending"
    BY <2>1 DEF StoreOK
  <2> QED
    BY <2>1, <2>2, <2>3 DEF Returns
<1> QED
  BY <1>1, <1>2, <1>3

LEMMA DoneReturns ==
  ASSUME StoreOK, NEW t \in Tasks, MarkDone(t)
  PROVE  Returns /\ ~Held(t)'
<1>1. CASE ~Held(t)
  BY <1>1, SameReturns DEF MarkDone, store, Held
<1>2. CASE Held(t)
  <2>1. /\ status' = [status EXCEPT ![t] = "done"]
        /\ UNCHANGED <<holder, retriesLeft>>
    BY <1>2 DEF MarkDone, L!Finish
  <2>2. StoreOK' /\ ~Held(t)' /\ \A u \in Tasks : Held(u)' => Held(u)
    BY <2>1 DEF StoreOK, Held
  <2>3. \A u \in Tasks : status'[u] = "pending" => status[u] = "pending"
    BY <2>1 DEF StoreOK
  <2> QED
    BY <2>1, <2>2, <2>3 DEF Returns
<1> QED
  BY <1>1, <1>2

(* A report, done or failed, settles the task unless the call is lost.     *)
LEMMA ReportReturns ==
  ASSUME StoreOK, faults \in Nat, NEW t \in Tasks, MarkDone(t) \/ MarkFailed(t) \/ CallLost
  PROVE  Returns /\ faults' \in Nat /\ (faults' = 0 => faults = 0 /\ ~Held(t)')
<1>1. CASE MarkDone(t)
  BY <1>1, DoneReturns DEF MarkDone
<1>2. CASE MarkFailed(t)
  BY <1>2, FailReturns DEF MarkFailed
<1>3. CASE CallLost
  BY <1>3, SameReturns DEF CallLost
<1> QED
  BY <1>1, <1>2, <1>3

(* A claim takes tasks that are ready.                                     *)
LEMMA TakeEffect ==
  ASSUME StoreOK, NEW S \in SUBSET Tasks, L!Take(Me, S), UNCHANGED retriesLeft
  PROVE  /\ StoreOK'
         /\ \A u \in Tasks : Held(u)' => Held(u) \/ u \in S
         /\ \A u \in S : status[u] = "pending"
         /\ \A u \in Tasks : status'[u] = "pending" => status[u] = "pending" /\ u \notin S
<1>1. /\ \A u \in S : status[u] = "pending"
      /\ status' = [u \in Tasks |-> IF u \in S THEN "running" ELSE status[u]]
      /\ holder' = [u \in Tasks |-> IF u \in S THEN Me ELSE holder[u]]
  BY DEF L!Take
<1> QED
  BY <1>1 DEF StoreOK, Held

-----------------------------------------------------------------------------
(* Types, hands and the order of stopping, one action at a time.           *)
Basics == TypeOK /\ CarryInv /\ StopInv

(* TypeOK in its two halves.                                               *)
ProcOK ==
  /\ jobs \in Seq(Tasks) /\ closed \in BOOLEAN
  /\ pending \subseteq Tasks /\ running \subseteq Tasks
  /\ stopPolling \in BOOLEAN /\ abortTasks \in BOOLEAN /\ pollDone \in BOOLEAN
  /\ poll \in [pc : PollPC, todo : SUBSET Tasks, task : Tasks \cup {NoTask}]
  /\ at \in [Workers -> WorkerPC]
  /\ hand \in [Workers -> Tasks \cup {NoTask}]
  /\ sd \in [Shutdowns -> [pc : ShutdownPC, seen : SUBSET Tasks,
                           expired : BOOLEAN, failed : BOOLEAN]]
  /\ alive \in BOOLEAN
  /\ faults \in Nat

LEMMA TypeHalves == TypeOK <=> StoreOK /\ ProcOK
BY DEF TypeOK, StoreOK, ProcOK

(* What a request notes in a step.                                         *)
Noted(s, pc, seen) ==
  /\ sd' \in [Shutdowns -> [pc : ShutdownPC, seen : SUBSET Tasks, expired : BOOLEAN, failed : BOOLEAN]]
  /\ sd'[s].pc = pc /\ sd'[s].seen = seen
  /\ \A o \in Shutdowns : o # s => sd'[o] = sd[o]

LEMMA NotedPcSeen ==
  ASSUME ProcOK, NEW s \in Shutdowns, NEW pc \in ShutdownPC, NEW seen \in SUBSET Tasks,
         sd' = [sd EXCEPT ![s].pc = pc, ![s].seen = seen] \/ sd' = [sd EXCEPT ![s].seen = seen, ![s].pc = pc]
  PROVE  Noted(s, pc, seen)
<1>1. sd[s] \in [pc : ShutdownPC, seen : SUBSET Tasks, expired : BOOLEAN, failed : BOOLEAN]
  BY DEF ProcOK
<1>2. PICK r : r = [sd[s] EXCEPT !.pc = pc, !.seen = seen]
  OBVIOUS
<1>3. r \in [pc : ShutdownPC, seen : SUBSET Tasks, expired : BOOLEAN, failed : BOOLEAN] /\ r.pc = pc /\ r.seen = seen
  BY <1>1, <1>2, Zenon
<1>4. sd' = [sd EXCEPT ![s] = r]
  BY <1>1, <1>2, Zenon
<1> QED
  BY <1>3, <1>4 DEF ProcOK, Noted

LEMMA NotedSeenFailed ==
  ASSUME ProcOK, NEW s \in Shutdowns, NEW seen \in SUBSET Tasks,
         sd' = [sd EXCEPT ![s].seen = seen] \/ sd' = [sd EXCEPT ![s].seen = seen, ![s].failed = TRUE]
  PROVE  Noted(s, sd[s].pc, seen)
<1>1. sd[s] \in [pc : ShutdownPC, seen : SUBSET Tasks, expired : BOOLEAN, failed : BOOLEAN]
  BY DEF ProcOK
<1>2. PICK r, q : r = [sd[s] EXCEPT !.seen = seen] /\ q = [sd[s] EXCEPT !.seen = seen, !.failed = TRUE]
  BY Zenon
<1>3. /\ r \in [pc : ShutdownPC, seen : SUBSET Tasks, expired : BOOLEAN, failed : BOOLEAN] /\ r.pc = sd[s].pc /\ r.seen = seen
      /\ q \in [pc : ShutdownPC, seen : SUBSET Tasks, expired : BOOLEAN, failed : BOOLEAN] /\ q.pc = sd[s].pc /\ q.seen = seen
  BY <1>1, <1>2, Zenon
<1>4. sd' = [sd EXCEPT ![s] = r] \/ sd' = [sd EXCEPT ![s] = q]
  BY <1>1, <1>2
<1> QED
  BY <1>3, <1>4, Zenon DEF ProcOK, Noted

LEMMA PollStopBasics == ASSUME Basics, PollStop PROVE Basics'
<1>0. StoreOK /\ ProcOK /\ CarryInv /\ StopInv
  BY TypeHalves, Zenon DEF Basics
<1>1. StoreOK'
  BY <1>0, SameReturns DEF PollStop, Returns
<1>2. ProcOK'
  BY <1>0, <1>1 DEF PollStop, ProcOK, PollPC, WorkerPC, ShutdownPC, flags, queue, store
<1>3. CarryInv'
  BY <1>0, <1>2 DEF PollStop, CarryInv, ProcOK
<1>4. StopInv'
  BY <1>0, <1>2 DEF PollStop, StopInv, ProcOK, flags, queue
<1> QED
  BY <1>1, <1>2, <1>3, <1>4 DEF Basics, TypeOK, StoreOK, ProcOK

LEMMA PollTickBasics == ASSUME Basics, PollTick PROVE Basics'
<1>0. StoreOK /\ ProcOK /\ CarryInv /\ StopInv
  BY TypeHalves, Zenon DEF Basics
<1>1. StoreOK'
  BY <1>0, SameReturns DEF PollTick, Returns
<1>2. ProcOK'
  BY <1>0, <1>1 DEF PollTick, ProcOK, PollPC, WorkerPC, ShutdownPC, flags, queue, store
<1>3. CarryInv'
  BY <1>0, <1>2 DEF PollTick, CarryInv, ProcOK
<1>4. StopInv'
  BY <1>0, <1>2 DEF PollTick, StopInv, ProcOK, flags, queue
<1> QED
  BY <1>1, <1>2, <1>3, <1>4 DEF Basics, TypeOK, StoreOK, ProcOK

LEMMA ClaimTasksBasics == ASSUME Basics, ClaimTasks PROVE Basics'
<1>0. StoreOK /\ ProcOK /\ CarryInv /\ StopInv
  BY TypeHalves, Zenon DEF Basics
<1>1. StoreOK' /\ faults' \in Nat
  BY <1>0, TakeEffect DEF ClaimTasks, ProcOK
<1>2. ProcOK'
  BY <1>0, <1>1, Zenon DEF ClaimTasks, ProcOK, PollPC, WorkerPC, ShutdownPC, flags, queue, store
<1>3. CarryInv'
  BY <1>0, <1>2 DEF ClaimTasks, CarryInv, ProcOK
<1>4. StopInv'
  BY <1>0, <1>2 DEF ClaimTasks, StopInv, ProcOK, flags, queue
<1> QED
  BY <1>1, <1>2, <1>3, <1>4 DEF Basics, TypeOK, StoreOK, ProcOK

LEMMA ClaimNothingBasics == ASSUME Basics, ClaimNothing PROVE Basics'
<1>0. StoreOK /\ ProcOK /\ CarryInv /\ StopInv
  BY TypeHalves, Zenon DEF Basics
<1>1. StoreOK'
  BY <1>0, SameReturns DEF ClaimNothing, Returns
<1>2. ProcOK'
  BY <1>0, <1>1 DEF ClaimNothing, ProcOK, PollPC, WorkerPC, ShutdownPC, flags, queue, store
<1>3. CarryInv'
  BY <1>0, <1>2 DEF ClaimNothing, CarryInv, ProcOK
<1>4. StopInv'
  BY <1>0, <1>2 DEF ClaimNothing, StopInv, ProcOK, flags, queue
<1> QED
  BY <1>1, <1>2, <1>3, <1>4 DEF Basics, TypeOK, StoreOK, ProcOK

LEMMA ClaimResponseLostBasics == ASSUME Basics, ClaimResponseLost PROVE Basics'
<1>0. StoreOK /\ ProcOK /\ CarryInv /\ StopInv
  BY TypeHalves, Zenon DEF Basics
<1>1. StoreOK' /\ faults' \in Nat
  BY <1>0, TakeEffect DEF ClaimResponseLost, ProcOK
<1>2. ProcOK'
  BY <1>0, <1>1 DEF ClaimResponseLost, ProcOK, PollPC, WorkerPC, ShutdownPC, flags, queue, store
<1>3. CarryInv'
  BY <1>0, <1>2 DEF ClaimResponseLost, CarryInv, ProcOK
<1>4. StopInv'
  BY <1>0, <1>2 DEF ClaimResponseLost, StopInv, ProcOK, flags, queue
<1> QED
  BY <1>1, <1>2, <1>3, <1>4 DEF Basics, TypeOK, StoreOK, ProcOK

LEMMA NextClaimedBasics == ASSUME Basics, NEW t \in Tasks, NextClaimed(t) PROVE Basics'
<1>0. StoreOK /\ ProcOK /\ CarryInv /\ StopInv
  BY TypeHalves, Zenon DEF Basics
<1>1. StoreOK'
  BY <1>0, SameReturns DEF NextClaimed, Returns
<1>2. ProcOK'
  BY <1>0, <1>1 DEF NextClaimed, ProcOK, PollPC, WorkerPC, ShutdownPC, flags, queue, store
<1>3. CarryInv'
  BY <1>0, <1>2 DEF NextClaimed, CarryInv, ProcOK
<1>4. StopInv'
  BY <1>0, <1>2 DEF NextClaimed, StopInv, ProcOK, flags, queue
<1> QED
  BY <1>1, <1>2, <1>3, <1>4 DEF Basics, TypeOK, StoreOK, ProcOK

LEMMA BatchDoneBasics == ASSUME Basics, BatchDone PROVE Basics'
<1>0. StoreOK /\ ProcOK /\ CarryInv /\ StopInv
  BY TypeHalves, Zenon DEF Basics
<1>1. StoreOK'
  BY <1>0, SameReturns DEF BatchDone, Returns
<1>2. ProcOK'
  BY <1>0, <1>1, Zenon DEF BatchDone, ProcOK, PollPC, WorkerPC, ShutdownPC, flags, queue, store
<1>3. CarryInv'
  BY <1>0, <1>2 DEF BatchDone, CarryInv, ProcOK
<1>4. StopInv'
  BY <1>0, <1>2 DEF BatchDone, StopInv, ProcOK, flags, queue
<1> QED
  BY <1>1, <1>2, <1>3, <1>4 DEF Basics, TypeOK, StoreOK, ProcOK

LEMMA RefuseBasics == ASSUME Basics, Refuse PROVE Basics'
<1>0. StoreOK /\ ProcOK /\ CarryInv /\ StopInv
  BY TypeHalves, Zenon DEF Basics
<1>1. StoreOK' /\ faults' \in Nat
  BY <1>0, ReportReturns DEF Refuse, Returns, ProcOK, CarryInv
<1>2. ProcOK'
  BY <1>0, <1>1 DEF Refuse, ProcOK, PollPC, WorkerPC, ShutdownPC, flags, queue, store
<1>3. CarryInv'
  BY <1>0, <1>2 DEF Refuse, CarryInv, ProcOK
<1>4. StopInv'
  BY <1>0, <1>2 DEF Refuse, StopInv, ProcOK, flags, queue
<1> QED
  BY <1>1, <1>2, <1>3, <1>4 DEF Basics, TypeOK, StoreOK, ProcOK

LEMMA TrackPendingBasics == ASSUME Basics, TrackPending PROVE Basics'
<1>0. StoreOK /\ ProcOK /\ CarryInv /\ StopInv
  BY TypeHalves, Zenon DEF Basics
<1>1. StoreOK'
  BY <1>0, SameReturns DEF TrackPending, Returns
<1>2. ProcOK'
  BY <1>0, <1>1 DEF TrackPending, CarryInv, ProcOK, PollPC, WorkerPC, ShutdownPC, flags, queue, store
<1>3. CarryInv'
  BY <1>0, <1>2 DEF TrackPending, CarryInv, ProcOK
<1>4. StopInv'
  BY <1>0, <1>2 DEF TrackPending, StopInv, ProcOK, flags, queue
<1> QED
  BY <1>1, <1>2, <1>3, <1>4 DEF Basics, TypeOK, StoreOK, ProcOK

LEMMA SendJobBasics == ASSUME Basics, SendJob PROVE Basics'
<1>0. StoreOK /\ ProcOK /\ CarryInv /\ StopInv
  BY TypeHalves, Zenon DEF Basics
<1>1. StoreOK'
  BY <1>0, SameReturns DEF SendJob, Returns
<1>2. ProcOK'
  BY <1>0, <1>1 DEF SendJob, CarryInv, ProcOK, PollPC, WorkerPC, ShutdownPC, flags, queue, store
<1>3. CarryInv'
  BY <1>0, <1>2 DEF SendJob, CarryInv, ProcOK
<1>4. StopInv'
  BY <1>0, <1>2 DEF SendJob, StopInv, ProcOK, flags, queue
<1> QED
  BY <1>1, <1>2, <1>3, <1>4 DEF Basics, TypeOK, StoreOK, ProcOK

LEMMA OverflowBasics == ASSUME Basics, Overflow PROVE Basics'
<1>0. StoreOK /\ ProcOK /\ CarryInv /\ StopInv
  BY TypeHalves, Zenon DEF Basics
<1>1. StoreOK'
  BY <1>0, SameReturns DEF Overflow, Returns
<1>2. ProcOK'
  BY <1>0, <1>1 DEF Overflow, ProcOK, PollPC, WorkerPC, ShutdownPC, flags, queue, store
<1>3. CarryInv'
  BY <1>0, <1>2 DEF Overflow, CarryInv, ProcOK
<1>4. StopInv'
  BY <1>0, <1>2 DEF Overflow, StopInv, ProcOK, flags, queue
<1> QED
  BY <1>1, <1>2, <1>3, <1>4 DEF Basics, TypeOK, StoreOK, ProcOK

LEMMA SendOnClosedBasics == ASSUME Basics, SendOnClosed PROVE Basics'
<1>0. StoreOK /\ ProcOK /\ CarryInv /\ StopInv
  BY TypeHalves, Zenon DEF Basics
<1>1. StoreOK'
  BY <1>0, SameReturns DEF SendOnClosed, Returns
<1>2. ProcOK'
  BY <1>0, <1>1, Zenon DEF SendOnClosed, ProcOK, PollPC, WorkerPC, ShutdownPC, flags, queue, store
<1>3. CarryInv'
  BY <1>0, <1>2 DEF SendOnClosed, CarryInv, ProcOK
<1>4. StopInv'
  BY <1>0, <1>2 DEF SendOnClosed, StopInv, ProcOK, flags, queue
<1> QED
  BY <1>1, <1>2, <1>3, <1>4 DEF Basics, TypeOK, StoreOK, ProcOK

LEMMA ReceiveBasics == ASSUME Basics, NEW w \in Workers, Receive(w) PROVE Basics'
<1>0. StoreOK /\ ProcOK /\ CarryInv /\ StopInv
  BY TypeHalves, Zenon DEF Basics
<1>1. StoreOK'
  BY <1>0, SameReturns DEF Receive, Returns
<1>2. ProcOK'
  BY <1>0, <1>1 DEF Receive, ProcOK, PollPC, WorkerPC, ShutdownPC, Goto, flags, queue, store
<1>3. CarryInv'
  BY <1>0, <1>2 DEF Receive, CarryInv, ProcOK, Goto
<1>4. StopInv'
  BY <1>0, <1>2 DEF Receive, StopInv, ProcOK, flags, queue, Goto
<1> QED
  BY <1>1, <1>2, <1>3, <1>4 DEF Basics, TypeOK, StoreOK, ProcOK

LEMMA WorkerExitBasics == ASSUME Basics, NEW w \in Workers, WorkerExit(w) PROVE Basics'
<1>0. StoreOK /\ ProcOK /\ CarryInv /\ StopInv
  BY TypeHalves, Zenon DEF Basics
<1>1. StoreOK'
  BY <1>0, SameReturns DEF WorkerExit, Returns
<1>2. ProcOK'
  BY <1>0, <1>1 DEF WorkerExit, ProcOK, PollPC, WorkerPC, ShutdownPC, Goto, flags, queue, store
<1>3. CarryInv'
  BY <1>0, <1>2 DEF WorkerExit, CarryInv, ProcOK, Goto
<1>4. StopInv'
  BY <1>0, <1>2 DEF WorkerExit, StopInv, ProcOK, flags, queue, Goto
<1> QED
  BY <1>1, <1>2, <1>3, <1>4 DEF Basics, TypeOK, StoreOK, ProcOK

LEMMA CheckBasics == ASSUME Basics, NEW w \in Workers, Check(w) PROVE Basics'
<1>0. StoreOK /\ ProcOK /\ CarryInv /\ StopInv
  BY TypeHalves, Zenon DEF Basics
<1>1. StoreOK'
  BY <1>0, SameReturns DEF Check, Returns
<1>2. ProcOK'
  BY <1>0, <1>1 DEF Check, ProcOK, PollPC, WorkerPC, ShutdownPC, Goto, flags, queue, store
<1>3. CarryInv'
  BY <1>0, <1>2 DEF Check, CarryInv, ProcOK, Goto
<1>4. StopInv'
  BY <1>0, <1>2 DEF Check, StopInv, ProcOK, flags, queue, Goto
<1> QED
  BY <1>1, <1>2, <1>3, <1>4 DEF Basics, TypeOK, StoreOK, ProcOK

LEMMA DropBasics == ASSUME Basics, NEW w \in Workers, Drop(w) PROVE Basics'
<1>0. StoreOK /\ ProcOK /\ CarryInv /\ StopInv
  BY TypeHalves, Zenon DEF Basics
<1>1. StoreOK'
  BY <1>0, SameReturns DEF Drop, Returns
<1>2. ProcOK'
  BY <1>0, <1>1 DEF Drop, ProcOK, PollPC, WorkerPC, ShutdownPC, Goto, flags, queue, store
<1>3. CarryInv'
  BY <1>0, <1>2 DEF Drop, CarryInv, ProcOK, Goto
<1>4. StopInv'
  BY <1>0, <1>2 DEF Drop, StopInv, ProcOK, flags, queue, Goto
<1> QED
  BY <1>1, <1>2, <1>3, <1>4 DEF Basics, TypeOK, StoreOK, ProcOK

LEMMA ReportDroppedBasics == ASSUME Basics, NEW w \in Workers, ReportDropped(w) PROVE Basics'
<1>0. StoreOK /\ ProcOK /\ CarryInv /\ StopInv
  BY TypeHalves, Zenon DEF Basics
<1>1. StoreOK' /\ faults' \in Nat
  BY <1>0, ReportReturns DEF ReportDropped, Returns, ProcOK, CarryInv
<1>2. ProcOK'
  BY <1>0, <1>1 DEF ReportDropped, ProcOK, PollPC, WorkerPC, ShutdownPC, Goto, flags, queue, store
<1>3. CarryInv'
  BY <1>0, <1>2 DEF ReportDropped, CarryInv, ProcOK, Goto
<1>4. StopInv'
  BY <1>0, <1>2 DEF ReportDropped, StopInv, ProcOK, flags, queue, Goto
<1> QED
  BY <1>1, <1>2, <1>3, <1>4 DEF Basics, TypeOK, StoreOK, ProcOK

LEMMA TrackRunningBasics == ASSUME Basics, NEW w \in Workers, TrackRunning(w) PROVE Basics'
<1>0. StoreOK /\ ProcOK /\ CarryInv /\ StopInv
  BY TypeHalves, Zenon DEF Basics
<1>1. StoreOK'
  BY <1>0, SameReturns DEF TrackRunning, Returns
<1>2. ProcOK'
  BY <1>0, <1>1 DEF TrackRunning, CarryInv, ProcOK, PollPC, WorkerPC, ShutdownPC, Goto, flags, queue, store
<1>3. CarryInv'
  BY <1>0, <1>2 DEF TrackRunning, CarryInv, ProcOK, Goto
<1>4. StopInv'
  BY <1>0, <1>2 DEF TrackRunning, StopInv, ProcOK, flags, queue, Goto
<1> QED
  BY <1>1, <1>2, <1>3, <1>4 DEF Basics, TypeOK, StoreOK, ProcOK

LEMMA UntrackPendingBasics == ASSUME Basics, NEW w \in Workers, UntrackPending(w) PROVE Basics'
<1>0. StoreOK /\ ProcOK /\ CarryInv /\ StopInv
  BY TypeHalves, Zenon DEF Basics
<1>1. StoreOK'
  BY <1>0, SameReturns DEF UntrackPending, Returns
<1>2. ProcOK'
  BY <1>0, <1>1 DEF UntrackPending, ProcOK, PollPC, WorkerPC, ShutdownPC, Goto, flags, queue, store
<1>3. CarryInv'
  BY <1>0, <1>2 DEF UntrackPending, CarryInv, ProcOK, Goto
<1>4. StopInv'
  BY <1>0, <1>2 DEF UntrackPending, StopInv, ProcOK, flags, queue, Goto
<1> QED
  BY <1>1, <1>2, <1>3, <1>4 DEF Basics, TypeOK, StoreOK, ProcOK

LEMMA HandlerReturnsBasics == ASSUME Basics, NEW w \in Workers, HandlerReturns(w) PROVE Basics'
<1>0. StoreOK /\ ProcOK /\ CarryInv /\ StopInv
  BY TypeHalves, Zenon DEF Basics
<1>1. StoreOK'
  BY <1>0, SameReturns DEF HandlerReturns, Returns
<1>2. ProcOK'
  BY <1>0, <1>1 DEF HandlerReturns, ProcOK, PollPC, WorkerPC, ShutdownPC, Goto, flags, queue, store
<1>3. CarryInv'
  BY <1>0, <1>2 DEF HandlerReturns, CarryInv, ProcOK, Goto
<1>4. StopInv'
  BY <1>0, <1>2 DEF HandlerReturns, StopInv, ProcOK, flags, queue, Goto
<1> QED
  BY <1>1, <1>2, <1>3, <1>4 DEF Basics, TypeOK, StoreOK, ProcOK

LEMMA ReportBasics == ASSUME Basics, NEW w \in Workers, Report(w) PROVE Basics'
<1>0. StoreOK /\ ProcOK /\ CarryInv /\ StopInv
  BY TypeHalves, Zenon DEF Basics
<1>1. StoreOK' /\ faults' \in Nat
  BY <1>0, ReportReturns DEF Report, Returns, ProcOK, CarryInv
<1>2. ProcOK'
  BY <1>0, <1>1 DEF Report, ProcOK, PollPC, WorkerPC, ShutdownPC, Goto, flags, queue, store
<1>3. CarryInv'
  BY <1>0, <1>2 DEF Report, CarryInv, ProcOK, Goto
<1>4. StopInv'
  BY <1>0, <1>2 DEF Report, StopInv, ProcOK, flags, queue, Goto
<1> QED
  BY <1>1, <1>2, <1>3, <1>4 DEF Basics, TypeOK, StoreOK, ProcOK

LEMMA CleanupBasics == ASSUME Basics, NEW w \in Workers, Cleanup(w) PROVE Basics'
<1>0. StoreOK /\ ProcOK /\ CarryInv /\ StopInv
  BY TypeHalves, Zenon DEF Basics
<1>1. StoreOK'
  BY <1>0, SameReturns DEF Cleanup, Returns
<1>2. ProcOK'
  BY <1>0, <1>1 DEF Cleanup, ProcOK, PollPC, WorkerPC, ShutdownPC, Goto, flags, queue, store
<1>3. CarryInv'
  BY <1>0, <1>2 DEF Cleanup, CarryInv, ProcOK, Goto
<1>4. StopInv'
  BY <1>0, <1>2 DEF Cleanup, StopInv, ProcOK, flags, queue, Goto
<1> QED
  BY <1>1, <1>2, <1>3, <1>4 DEF Basics, TypeOK, StoreOK, ProcOK

LEMMA CloseStopChannelBasics == ASSUME Basics, NEW s \in Shutdowns, CloseStopChannel(s) PROVE Basics'
<1>0. StoreOK /\ ProcOK /\ CarryInv /\ StopInv
  BY TypeHalves, Zenon DEF Basics
<1>1. StoreOK'
  BY <1>0, SameReturns DEF CloseStopChannel, Returns
<1>2. ProcOK'
  BY <1>0, <1>1 DEF CloseStopChannel, ProcOK, PollPC, WorkerPC, ShutdownPC, Step, flags, queue, store
<1>3. CarryInv'
  BY <1>0, <1>2 DEF CloseStopChannel, CarryInv, ProcOK
<1>4. StopInv'
  BY <1>0, <1>2 DEF CloseStopChannel, StopInv, ProcOK, flags, queue, Step
<1> QED
  BY <1>1, <1>2, <1>3, <1>4 DEF Basics, TypeOK, StoreOK, ProcOK

LEMMA StopPollingBasics == ASSUME Basics, NEW s \in Shutdowns, StopPolling(s) PROVE Basics'
<1>0. StoreOK /\ ProcOK /\ CarryInv /\ StopInv
  BY TypeHalves, Zenon DEF Basics
<1>1. StoreOK'
  BY <1>0, SameReturns DEF StopPolling, Returns
<1>2. ProcOK'
  BY <1>0, <1>1 DEF StopPolling, ProcOK, PollPC, WorkerPC, ShutdownPC, Step, flags, queue, store
<1>3. CarryInv'
  BY <1>0, <1>2 DEF StopPolling, CarryInv, ProcOK
<1>4. StopInv'
  BY <1>0, <1>2 DEF StopPolling, StopInv, ProcOK, flags, queue, Step
<1> QED
  BY <1>1, <1>2, <1>3, <1>4 DEF Basics, TypeOK, StoreOK, ProcOK

LEMMA ExpireBasics == ASSUME Basics, NEW s \in Shutdowns, Expire(s) PROVE Basics'
<1>0. StoreOK /\ ProcOK /\ CarryInv /\ StopInv
  BY TypeHalves, Zenon DEF Basics
<1>1. StoreOK'
  BY <1>0, SameReturns DEF Expire, Returns
<1>2. ProcOK'
  <2>1. sd' \in [Shutdowns -> [pc : ShutdownPC, seen : SUBSET Tasks, expired : BOOLEAN, failed : BOOLEAN]]
    BY <1>0, Zenon DEF Expire, ProcOK, ShutdownPC
  <2> QED
    BY <1>0, <1>1, <2>1, Zenon DEF Expire, ProcOK, flags, queue
<1>3. CarryInv'
  BY <1>0, <1>2 DEF Expire, CarryInv, ProcOK
<1>4. StopInv'
  BY <1>0, <1>2 DEF Expire, StopInv, ProcOK, flags, queue, Step
<1> QED
  BY <1>1, <1>2, <1>3, <1>4 DEF Basics, TypeOK, StoreOK, ProcOK

LEMMA ReadPendingBasics == ASSUME Basics, NEW s \in Shutdowns, ReadPending(s) PROVE Basics'
<1>0. StoreOK /\ ProcOK /\ CarryInv /\ StopInv
  BY TypeHalves, Zenon DEF Basics
<1>1. StoreOK'
  BY <1>0, SameReturns DEF ReadPending, Returns
<1>2. Noted(s, "readRunning", pending)
  BY <1>0, NotedPcSeen, Zenon DEF ReadPending, ShutdownPC, ProcOK
<1>3. ProcOK'
  BY <1>0, <1>1, <1>2 DEF ReadPending, Noted, ProcOK, flags, queue
<1>4. CarryInv'
  BY <1>0, <1>3 DEF ReadPending, CarryInv, ProcOK
<1>5. StopInv'
  BY <1>0, <1>3, <1>2 DEF ReadPending, Noted, StopInv, ProcOK, flags, queue
<1> QED
  BY <1>1, <1>3, <1>4, <1>5 DEF Basics, TypeOK, StoreOK, ProcOK

LEMMA ReadRunningBasics == ASSUME Basics, NEW s \in Shutdowns, ReadRunning(s) PROVE Basics'
<1>0. StoreOK /\ ProcOK /\ CarryInv /\ StopInv
  BY TypeHalves, Zenon DEF Basics
<1>1. StoreOK'
  BY <1>0, SameReturns DEF ReadRunning, Returns
<1>2. \E pc \in {"close", "abort", "readPending"} : Noted(s, pc, {})
  <2>1. PICK pc \in {"close", "abort", "readPending"} :
           pc = IF sd[s].seen = {} /\ running = {} THEN "close"
                ELSE IF sd[s].expired THEN "abort" ELSE "readPending"
    OBVIOUS
  <2>2. pc \in ShutdownPC
    BY DEF ShutdownPC
  <2> QED
    BY <1>0, <2>1, <2>2, NotedPcSeen, Zenon DEF ReadRunning
<1>3. ProcOK'
  BY <1>0, <1>1, <1>2, Zenon DEF ReadRunning, Noted, ProcOK, flags, queue
<1>4. CarryInv'
  BY <1>0, <1>3, Zenon DEF ReadRunning, CarryInv, ProcOK
<1>5. StopInv'
  BY <1>0, <1>3, <1>2, Zenon DEF ReadRunning, Noted, StopInv, ProcOK, flags, queue
<1> QED
  BY <1>1, <1>3, <1>4, <1>5 DEF Basics, TypeOK, StoreOK, ProcOK

LEMMA AbortBasics == ASSUME Basics, NEW s \in Shutdowns, Abort(s) PROVE Basics'
<1>0. StoreOK /\ ProcOK /\ CarryInv /\ StopInv
  BY TypeHalves, Zenon DEF Basics
<1>1. StoreOK'
  BY <1>0, SameReturns DEF Abort, Returns
<1>2. ProcOK'
  BY <1>0, <1>1 DEF Abort, ProcOK, PollPC, WorkerPC, ShutdownPC, Step, flags, queue, store
<1>3. CarryInv'
  BY <1>0, <1>2 DEF Abort, CarryInv, ProcOK
<1>4. StopInv'
  BY <1>0, <1>2 DEF Abort, StopInv, ProcOK, flags, queue, Step
<1> QED
  BY <1>1, <1>2, <1>3, <1>4 DEF Basics, TypeOK, StoreOK, ProcOK

LEMMA ListPendingBasics == ASSUME Basics, NEW s \in Shutdowns, ListPending(s) PROVE Basics'
<1>0. StoreOK /\ ProcOK /\ CarryInv /\ StopInv
  BY TypeHalves, Zenon DEF Basics
<1>1. StoreOK'
  BY <1>0, SameReturns DEF ListPending, Returns
<1>2. Noted(s, "listRunning", pending)
  BY <1>0, NotedPcSeen, Zenon DEF ListPending, ShutdownPC, ProcOK
<1>3. ProcOK'
  BY <1>0, <1>1, <1>2 DEF ListPending, Noted, ProcOK, flags, queue
<1>4. CarryInv'
  BY <1>0, <1>3 DEF ListPending, CarryInv, ProcOK
<1>5. StopInv'
  BY <1>0, <1>3, <1>2 DEF ListPending, Noted, StopInv, ProcOK, flags, queue
<1> QED
  BY <1>1, <1>3, <1>4, <1>5 DEF Basics, TypeOK, StoreOK, ProcOK

LEMMA ListRunningBasics == ASSUME Basics, NEW s \in Shutdowns, ListRunning(s) PROVE Basics'
<1>0. StoreOK /\ ProcOK /\ CarryInv /\ StopInv
  BY TypeHalves, Zenon DEF Basics
<1>1. StoreOK'
  BY <1>0, SameReturns DEF ListRunning, Returns
<1>2. Noted(s, "failInflight", sd[s].seen \cup running)
  BY <1>0, NotedPcSeen, Zenon DEF ListRunning, ShutdownPC, ProcOK
<1>3. ProcOK'
  BY <1>0, <1>1, <1>2 DEF ListRunning, Noted, ProcOK, flags, queue
<1>4. CarryInv'
  BY <1>0, <1>3 DEF ListRunning, CarryInv, ProcOK
<1>5. StopInv'
  BY <1>0, <1>3, <1>2 DEF ListRunning, Noted, StopInv, ProcOK, flags, queue
<1> QED
  BY <1>1, <1>3, <1>4, <1>5 DEF Basics, TypeOK, StoreOK, ProcOK

LEMMA FailInflightBasics == ASSUME Basics, NEW s \in Shutdowns, NEW t \in Tasks, FailInflight(s, t) PROVE Basics'
<1>0. StoreOK /\ ProcOK /\ CarryInv /\ StopInv
  BY TypeHalves, Zenon DEF Basics
<1>1. StoreOK' /\ faults' \in Nat
  BY <1>0, FailReturns, SameReturns DEF FailInflight, Returns, MarkFailed, MarkFailedUnanswered, CallLost, ProcOK
<1>2. Noted(s, sd[s].pc, sd[s].seen \ {t})
  BY <1>0, NotedSeenFailed, Zenon DEF FailInflight, ShutdownPC, ProcOK
<1>3. ProcOK'
  BY <1>0, <1>1, <1>2 DEF FailInflight, Noted, ProcOK, flags, queue
<1>4. CarryInv'
  BY <1>0, <1>3 DEF FailInflight, CarryInv, ProcOK
<1>5. StopInv'
  BY <1>0, <1>3, <1>2 DEF FailInflight, Noted, StopInv, ProcOK, flags, queue
<1> QED
  BY <1>1, <1>3, <1>4, <1>5 DEF Basics, TypeOK, StoreOK, ProcOK

LEMMA InflightFailedBasics == ASSUME Basics, NEW s \in Shutdowns, InflightFailed(s) PROVE Basics'
<1>0. StoreOK /\ ProcOK /\ CarryInv /\ StopInv
  BY TypeHalves, Zenon DEF Basics
<1>1. StoreOK'
  BY <1>0, SameReturns DEF InflightFailed, Returns
<1>2. ProcOK'
  BY <1>0, <1>1 DEF InflightFailed, ProcOK, PollPC, WorkerPC, ShutdownPC, Step, flags, queue, store
<1>3. CarryInv'
  BY <1>0, <1>2 DEF InflightFailed, CarryInv, ProcOK
<1>4. StopInv'
  BY <1>0, <1>2 DEF InflightFailed, StopInv, ProcOK, flags, queue, Step
<1> QED
  BY <1>1, <1>2, <1>3, <1>4 DEF Basics, TypeOK, StoreOK, ProcOK

LEMMA CloseTaskQueueBasics == ASSUME Basics, NEW s \in Shutdowns, CloseTaskQueue(s) PROVE Basics'
<1>0. StoreOK /\ ProcOK /\ CarryInv /\ StopInv
  BY TypeHalves, Zenon DEF Basics
<1>1. StoreOK'
  BY <1>0, SameReturns DEF CloseTaskQueue, Returns
<1>2. ProcOK'
  BY <1>0, <1>1 DEF CloseTaskQueue, ProcOK, PollPC, WorkerPC, ShutdownPC, Step, flags, queue, store
<1>3. CarryInv'
  BY <1>0, <1>2 DEF CloseTaskQueue, CarryInv, ProcOK
<1>4. StopInv'
  BY <1>0, <1>2 DEF CloseTaskQueue, StopInv, ProcOK, flags, queue, Step
<1> QED
  BY <1>1, <1>2, <1>3, <1>4 DEF Basics, TypeOK, StoreOK, ProcOK

LEMMA WorkersDoneBasics == ASSUME Basics, NEW s \in Shutdowns, WorkersDone(s) PROVE Basics'
<1>0. StoreOK /\ ProcOK /\ CarryInv /\ StopInv
  BY TypeHalves, Zenon DEF Basics
<1>1. StoreOK'
  BY <1>0, SameReturns DEF WorkersDone, Returns
<1>2. ProcOK'
  BY <1>0, <1>1 DEF WorkersDone, ProcOK, PollPC, WorkerPC, ShutdownPC, Step, flags, queue, store
<1>3. CarryInv'
  BY <1>0, <1>2 DEF WorkersDone, CarryInv, ProcOK
<1>4. StopInv'
  BY <1>0, <1>2 DEF WorkersDone, StopInv, ProcOK, flags, queue, Step
<1> QED
  BY <1>1, <1>2, <1>3, <1>4 DEF Basics, TypeOK, StoreOK, ProcOK

LEMMA LoopDoneBasics == ASSUME Basics, NEW s \in Shutdowns, LoopDone(s) PROVE Basics'
<1>0. StoreOK /\ ProcOK /\ CarryInv /\ StopInv
  BY TypeHalves, Zenon DEF Basics
<1>1. StoreOK'
  BY <1>0, SameReturns DEF LoopDone, Returns
<1>2. ProcOK'
  BY <1>0, <1>1, Zenon DEF LoopDone, ProcOK, PollPC, WorkerPC, ShutdownPC, Step, flags, queue, store
<1>3. CarryInv'
  BY <1>0, <1>2 DEF LoopDone, CarryInv, ProcOK
<1>4. StopInv'
  BY <1>0, <1>2 DEF LoopDone, StopInv, ProcOK, flags, queue, Step
<1> QED
  BY <1>1, <1>2, <1>3, <1>4 DEF Basics, TypeOK, StoreOK, ProcOK

LEMMA LoopTimeoutBasics == ASSUME Basics, NEW s \in Shutdowns, LoopTimeout(s) PROVE Basics'
<1>0. StoreOK /\ ProcOK /\ CarryInv /\ StopInv
  BY TypeHalves, Zenon DEF Basics
<1>1. StoreOK'
  BY <1>0, SameReturns DEF LoopTimeout, Returns
<1>2. ProcOK'
  BY <1>0, <1>1 DEF LoopTimeout, ProcOK, PollPC, WorkerPC, ShutdownPC, Step, flags, queue, store
<1>3. CarryInv'
  BY <1>0, <1>2 DEF LoopTimeout, CarryInv, ProcOK
<1>4. StopInv'
  BY <1>0, <1>2 DEF LoopTimeout, StopInv, ProcOK, flags, queue, Step
<1> QED
  BY <1>1, <1>2, <1>3, <1>4 DEF Basics, TypeOK, StoreOK, ProcOK

LEMMA ExitBasics == ASSUME Basics, NEW s \in Shutdowns, Exit(s) PROVE Basics'
<1>0. StoreOK /\ ProcOK /\ CarryInv /\ StopInv
  BY TypeHalves, Zenon DEF Basics
<1>1. StoreOK'
  BY <1>0, SameReturns DEF Exit, Returns
<1>2. ProcOK'
  BY <1>0, <1>1, Zenon DEF Exit, ProcOK, PollPC, WorkerPC, ShutdownPC, Step, flags, queue, store
<1>3. CarryInv'
  BY <1>0, <1>2 DEF Exit, CarryInv, ProcOK
<1>4. StopInv'
  BY <1>0, <1>2 DEF Exit, StopInv, ProcOK, flags, queue, Step
<1> QED
  BY <1>1, <1>2, <1>3, <1>4 DEF Basics, TypeOK, StoreOK, ProcOK

-----------------------------------------------------------------------------
(* Nothing that is claimed is forgotten.                                   *)
LEMMA HeldStep ==
  ASSUME HeldInv, faults' = 0 => faults = 0,
         \A t \in Tasks : faults' = 0 /\ Held(t)' => Owned(t)' \/ (Held(t) /\ (Owned(t) => Owned(t)'))
  PROVE  HeldInv'
BY DEF HeldInv

LEMMA HeldFrame ==
  ASSUME HeldInv, faults' = 0 => faults = 0, Returns, UNCHANGED <<poll, jobs, at, hand>>
  PROVE  HeldInv'
<1>1. \A t \in Tasks : Owned(t)' <=> Owned(t)
  BY DEF Owned, InTodo, InPoll, InQueue
<1> QED
  BY <1>1, HeldStep DEF Returns

(* Head, Tail and Append move tasks in and out of the queue.               *)
LEMMA QueueGrows ==
  ASSUME jobs \in Seq(Tasks), NEW x \in Tasks, jobs' = Append(jobs, x)
  PROVE  \A t : InQueue(t)' <=> InQueue(t) \/ t = x
<1>1. /\ Len(jobs') = Len(jobs) + 1 /\ Len(jobs) \in Nat
      /\ \A i \in 1..Len(jobs) : jobs'[i] = jobs[i]
      /\ jobs'[Len(jobs) + 1] = x
  OBVIOUS
<1> QED
  BY <1>1 DEF InQueue

LEMMA QueueShrinks ==
  ASSUME jobs \in Seq(Tasks), jobs # <<>>, jobs' = Tail(jobs)
  PROVE  /\ \A t : InQueue(t) <=> InQueue(t)' \/ t = Head(jobs)
         /\ InQueue(Head(jobs)) /\ Head(jobs) \in Tasks
<1>1. /\ Len(jobs') = Len(jobs) - 1 /\ Len(jobs) \in Nat \ {0}
      /\ \A i \in 1..Len(jobs') : jobs'[i] = jobs[i + 1]
      /\ Head(jobs) = jobs[1] /\ Head(jobs) \in Tasks
  OBVIOUS
<1>2. \A i \in 1..Len(jobs) : i = 1 \/ (i - 1 \in 1..Len(jobs') /\ (i - 1) + 1 = i)
  BY <1>1
<1>3. \A i \in 1..Len(jobs') : i + 1 \in 1..Len(jobs)
  BY <1>1
<1>4. 1 \in 1..Len(jobs)
  BY <1>1
<1>5. \A t : InQueue(t) => InQueue(t)' \/ t = Head(jobs)
  <2> SUFFICES ASSUME NEW i \in 1..Len(jobs), i # 1 PROVE \E j \in 1..Len(jobs') : jobs'[j] = jobs[i]
    BY <1>1 DEF InQueue
  <2> QED
    BY <1>1, <1>2
<1> QED
  BY <1>1, <1>3, <1>4, <1>5 DEF InQueue

LEMMA PollStopHeld == ASSUME Basics, HeldInv, PollStop PROVE HeldInv'
<1>0. StoreOK /\ ProcOK /\ CarryInv
  BY TypeHalves, Zenon DEF Basics
<1>1. \A u \in Tasks : Owned(u) => Owned(u)'
  BY <1>0 DEF PollStop, CarryInv, ProcOK, Owned, Unreported, InTodo, InPoll, InQueue, queue
<1> QED
  BY <1>0, <1>1, SameReturns, HeldStep DEF PollStop, Returns

LEMMA PollTickHeld == ASSUME Basics, HeldInv, PollTick PROVE HeldInv'
<1>0. StoreOK /\ ProcOK /\ CarryInv
  BY TypeHalves, Zenon DEF Basics
<1>1. \A u \in Tasks : Owned(u) => Owned(u)'
  BY <1>0 DEF PollTick, CarryInv, ProcOK, Owned, Unreported, InTodo, InPoll, InQueue, queue
<1> QED
  BY <1>0, <1>1, SameReturns, HeldStep DEF PollTick, Returns

LEMMA ClaimTasksHeld == ASSUME Basics, HeldInv, ClaimTasks PROVE HeldInv'
<1>0. StoreOK /\ ProcOK /\ CarryInv
  BY TypeHalves, Zenon DEF Basics
<1>1. PICK S \in SUBSET Tasks : L!Take(Me, S) /\ poll' = [poll EXCEPT !.pc = "dispatch", !.todo = S]
  BY Zenon DEF ClaimTasks
<1>2. \A u \in Tasks : Held(u)' => Held(u) \/ u \in S
  BY <1>0, <1>1, TakeEffect DEF ClaimTasks
<1>3. \A u \in Tasks : Owned(u) \/ u \in S => Owned(u)'
  BY <1>0, <1>1, Zenon DEF ClaimTasks, CarryInv, ProcOK, Owned, Unreported, InTodo, InPoll, InQueue, queue
<1> QED
  BY <1>2, <1>3, HeldStep DEF ClaimTasks

LEMMA ClaimNothingHeld == ASSUME Basics, HeldInv, ClaimNothing PROVE HeldInv'
<1>0. StoreOK /\ ProcOK /\ CarryInv
  BY TypeHalves, Zenon DEF Basics
<1>1. \A u \in Tasks : Owned(u) => Owned(u)'
  BY <1>0 DEF ClaimNothing, CarryInv, ProcOK, Owned, Unreported, InTodo, InPoll, InQueue, queue
<1> QED
  BY <1>0, <1>1, SameReturns, HeldStep DEF ClaimNothing, Returns

LEMMA ClaimResponseLostHeld == ASSUME Basics, HeldInv, ClaimResponseLost PROVE HeldInv'
<1>0. StoreOK /\ ProcOK /\ CarryInv
  BY TypeHalves, Zenon DEF Basics
<1>1. faults' # 0
  BY <1>0 DEF ClaimResponseLost, ProcOK
<1> QED
  BY <1>1 DEF HeldInv

LEMMA NextClaimedHeld == ASSUME Basics, HeldInv, NEW t \in Tasks, NextClaimed(t) PROVE HeldInv'
<1>0. StoreOK /\ ProcOK /\ CarryInv
  BY TypeHalves, Zenon DEF Basics
<1>1. \A u \in Tasks : Owned(u) => Owned(u)'
  BY <1>0 DEF NextClaimed, CarryInv, ProcOK, Owned, Unreported, InTodo, InPoll, InQueue, queue
<1> QED
  BY <1>0, <1>1, SameReturns, HeldStep DEF NextClaimed, Returns

LEMMA BatchDoneHeld == ASSUME Basics, HeldInv, BatchDone PROVE HeldInv'
<1>0. StoreOK /\ ProcOK /\ CarryInv
  BY TypeHalves, Zenon DEF Basics
<1>1. \A u \in Tasks : Owned(u) => Owned(u)'
  BY <1>0 DEF BatchDone, CarryInv, ProcOK, Owned, Unreported, InTodo, InPoll, InQueue, queue
<1> QED
  BY <1>0, <1>1, SameReturns, HeldStep DEF BatchDone, Returns

LEMMA RefuseHeld == ASSUME Basics, HeldInv, Refuse PROVE HeldInv'
<1>0. StoreOK /\ ProcOK /\ CarryInv
  BY TypeHalves, Zenon DEF Basics
<1>1. Returns /\ (faults' = 0 => faults = 0 /\ (\A u \in Tasks : u = poll.task => ~Held(u)'))
  BY <1>0, ReportReturns DEF Refuse, CarryInv, ProcOK
<1>2. \A u \in Tasks : Owned(u) /\ u # poll.task => Owned(u)'
  BY <1>0 DEF Refuse, ProcOK, Owned, Unreported, InTodo, InPoll, InQueue, queue
<1> QED
  BY <1>1, <1>2, HeldStep DEF Returns

LEMMA TrackPendingHeld == ASSUME Basics, HeldInv, TrackPending PROVE HeldInv'
<1>0. StoreOK /\ ProcOK /\ CarryInv
  BY TypeHalves, Zenon DEF Basics
<1>1. \A u \in Tasks : Owned(u) => Owned(u)'
  BY <1>0 DEF TrackPending, CarryInv, ProcOK, Owned, Unreported, InTodo, InPoll, InQueue, queue
<1> QED
  BY <1>0, <1>1, SameReturns, HeldStep DEF TrackPending, Returns

LEMMA SendJobHeld == ASSUME Basics, HeldInv, SendJob PROVE HeldInv'
<1>0. StoreOK /\ ProcOK /\ CarryInv
  BY TypeHalves, Zenon DEF Basics
<1>1. \A u : InQueue(u)' <=> InQueue(u) \/ u = poll.task
  BY <1>0, QueueGrows DEF SendJob, CarryInv, ProcOK
<1>2. \A u \in Tasks : Owned(u) => Owned(u)'
  BY <1>0, <1>1 DEF SendJob, ProcOK, Owned, InTodo, InPoll
<1> QED
  BY <1>0, <1>2, SameReturns, HeldStep DEF SendJob, Returns

LEMMA OverflowHeld == ASSUME Basics, HeldInv, Overflow PROVE HeldInv'
<1>0. StoreOK /\ ProcOK /\ CarryInv
  BY TypeHalves, Zenon DEF Basics
<1>1. \A u \in Tasks : Owned(u) => Owned(u)'
  BY <1>0 DEF Overflow, CarryInv, ProcOK, Owned, Unreported, InTodo, InPoll, InQueue, queue
<1> QED
  BY <1>0, <1>1, SameReturns, HeldStep DEF Overflow, Returns

LEMMA SendOnClosedHeld == ASSUME Basics, HeldInv, SendOnClosed PROVE HeldInv'
<1>0. StoreOK /\ ProcOK /\ CarryInv
  BY TypeHalves, Zenon DEF Basics
<1> QED
  BY <1>0, SameReturns, HeldFrame DEF SendOnClosed, queue

LEMMA ReceiveHeld == ASSUME Basics, HeldInv, NEW w \in Workers, Receive(w) PROVE HeldInv'
<1>0. StoreOK /\ ProcOK /\ CarryInv
  BY TypeHalves, Zenon DEF Basics
<1>1. \A u : InQueue(u) => InQueue(u)' \/ u = Head(jobs)
  BY <1>0, QueueShrinks DEF Receive, ProcOK
<1>2. \A u \in Tasks : Owned(u) => Owned(u)'
  BY <1>0, <1>1 DEF Receive, Goto, ProcOK, Owned, Unreported, InTodo, InPoll
<1> QED
  BY <1>0, <1>2, SameReturns, HeldStep DEF Receive, Returns

LEMMA WorkerExitHeld == ASSUME Basics, HeldInv, NEW w \in Workers, WorkerExit(w) PROVE HeldInv'
<1>0. StoreOK /\ ProcOK /\ CarryInv
  BY TypeHalves, Zenon DEF Basics
<1>1. \A u \in Tasks : Owned(u) => Owned(u)'
  BY <1>0 DEF WorkerExit, Goto, ProcOK, WorkerPC, Owned, Unreported, InTodo, InPoll, InQueue, queue
<1> QED
  BY <1>0, <1>1, SameReturns, HeldStep DEF WorkerExit, Returns

LEMMA CheckHeld == ASSUME Basics, HeldInv, NEW w \in Workers, Check(w) PROVE HeldInv'
<1>0. StoreOK /\ ProcOK /\ CarryInv
  BY TypeHalves, Zenon DEF Basics
<1>1. \A u \in Tasks : Owned(u) => Owned(u)'
  BY <1>0 DEF Check, Goto, ProcOK, WorkerPC, Owned, Unreported, InTodo, InPoll, InQueue, queue
<1> QED
  BY <1>0, <1>1, SameReturns, HeldStep DEF Check, Returns

LEMMA DropHeld == ASSUME Basics, HeldInv, NEW w \in Workers, Drop(w) PROVE HeldInv'
<1>0. StoreOK /\ ProcOK /\ CarryInv
  BY TypeHalves, Zenon DEF Basics
<1>1. \A u \in Tasks : Owned(u) => Owned(u)'
  BY <1>0 DEF Drop, Goto, ProcOK, WorkerPC, Owned, Unreported, InTodo, InPoll, InQueue, queue
<1> QED
  BY <1>0, <1>1, SameReturns, HeldStep DEF Drop, Returns

LEMMA ReportDroppedHeld == ASSUME Basics, HeldInv, NEW w \in Workers, ReportDropped(w) PROVE HeldInv'
<1>0. StoreOK /\ ProcOK /\ CarryInv
  BY TypeHalves, Zenon DEF Basics
<1>1. Returns /\ (faults' = 0 => faults = 0 /\ (\A u \in Tasks : u = hand[w] => ~Held(u)'))
  BY <1>0, ReportReturns DEF ReportDropped, CarryInv, ProcOK
<1>2. \A u \in Tasks : Owned(u) /\ u # hand[w] => Owned(u)'
  BY <1>0 DEF ReportDropped, Goto, ProcOK, Owned, Unreported, InTodo, InPoll, InQueue, queue
<1> QED
  BY <1>1, <1>2, HeldStep DEF Returns

LEMMA TrackRunningHeld == ASSUME Basics, HeldInv, NEW w \in Workers, TrackRunning(w) PROVE HeldInv'
<1>0. StoreOK /\ ProcOK /\ CarryInv
  BY TypeHalves, Zenon DEF Basics
<1>1. \A u \in Tasks : Owned(u) => Owned(u)'
  BY <1>0 DEF TrackRunning, Goto, ProcOK, WorkerPC, Owned, Unreported, InTodo, InPoll, InQueue, queue
<1> QED
  BY <1>0, <1>1, SameReturns, HeldStep DEF TrackRunning, Returns

LEMMA UntrackPendingHeld == ASSUME Basics, HeldInv, NEW w \in Workers, UntrackPending(w) PROVE HeldInv'
<1>0. StoreOK /\ ProcOK /\ CarryInv
  BY TypeHalves, Zenon DEF Basics
<1>1. \A u \in Tasks : Owned(u) => Owned(u)'
  BY <1>0 DEF UntrackPending, Goto, ProcOK, WorkerPC, Owned, Unreported, InTodo, InPoll, InQueue, queue
<1> QED
  BY <1>0, <1>1, SameReturns, HeldStep DEF UntrackPending, Returns

LEMMA HandlerReturnsHeld == ASSUME Basics, HeldInv, NEW w \in Workers, HandlerReturns(w) PROVE HeldInv'
<1>0. StoreOK /\ ProcOK /\ CarryInv
  BY TypeHalves, Zenon DEF Basics
<1>1. \A u \in Tasks : Owned(u) => Owned(u)'
  BY <1>0 DEF HandlerReturns, Goto, ProcOK, WorkerPC, Owned, Unreported, InTodo, InPoll, InQueue, queue
<1> QED
  BY <1>0, <1>1, SameReturns, HeldStep DEF HandlerReturns, Returns

LEMMA ReportHeld == ASSUME Basics, HeldInv, NEW w \in Workers, Report(w) PROVE HeldInv'
<1>0. StoreOK /\ ProcOK /\ CarryInv
  BY TypeHalves, Zenon DEF Basics
<1>1. Returns /\ (faults' = 0 => faults = 0 /\ (\A u \in Tasks : u = hand[w] => ~Held(u)'))
  BY <1>0, ReportReturns DEF Report, CarryInv, ProcOK
<1>2. \A u \in Tasks : Owned(u) /\ u # hand[w] => Owned(u)'
  BY <1>0 DEF Report, Goto, ProcOK, Owned, Unreported, InTodo, InPoll, InQueue, queue
<1> QED
  BY <1>1, <1>2, HeldStep DEF Returns

LEMMA CleanupHeld == ASSUME Basics, HeldInv, NEW w \in Workers, Cleanup(w) PROVE HeldInv'
<1>0. StoreOK /\ ProcOK /\ CarryInv
  BY TypeHalves, Zenon DEF Basics
<1>1. \A u \in Tasks : Owned(u) => Owned(u)'
  BY <1>0 DEF Cleanup, Goto, ProcOK, WorkerPC, Owned, Unreported, InTodo, InPoll, InQueue, queue
<1> QED
  BY <1>0, <1>1, SameReturns, HeldStep DEF Cleanup, Returns

(* A shutdown request leaves every task where it is in the process.        *)
ShutdownQuiet(s) ==
  CloseStopChannel(s) \/ StopPolling(s) \/ Expire(s) \/ ReadPending(s) \/ ReadRunning(s) \/ Abort(s)
  \/ ListPending(s) \/ ListRunning(s) \/ InflightFailed(s) \/ CloseTaskQueue(s) \/ WorkersDone(s)
  \/ LoopDone(s) \/ LoopTimeout(s) \/ Exit(s)

LEMMA ShutdownFrame ==
  ASSUME Basics, NEW s \in Shutdowns, ShutdownNext(s)
  PROVE  UNCHANGED <<poll, jobs, at, hand>> /\ Returns /\ (faults' = 0 => faults = 0)
<1>0. StoreOK /\ ProcOK
  BY TypeHalves, Zenon DEF Basics
<1>1. ASSUME NEW t \in Tasks, FailInflight(s, t)
      PROVE  UNCHANGED <<poll, jobs, at, hand>> /\ Returns /\ (faults' = 0 => faults = 0)
  BY <1>0, <1>1, FailReturns, SameReturns
     DEF FailInflight, MarkFailed, MarkFailedUnanswered, CallLost, ProcOK, queue
<1>2. CASE ShutdownQuiet(s)
  <2>1. UNCHANGED <<poll, jobs, at, hand, store, faults>>
    BY <1>2, Zenon DEF ShutdownQuiet, CloseStopChannel, StopPolling, Expire, ReadPending, ReadRunning, Abort, ListPending,
       ListRunning, InflightFailed, CloseTaskQueue, WorkersDone, LoopDone, LoopTimeout, Exit, queue
  <2> QED
    BY <1>0, <2>1, SameReturns, Zenon
<1> QED
  BY <1>1, <1>2, Zenon DEF ShutdownNext, ShutdownQuiet

LEMMA ShutdownHeld ==
  ASSUME Basics, HeldInv, NEW s \in Shutdowns, ShutdownNext(s)
  PROVE  HeldInv'
BY ShutdownFrame, HeldFrame

-----------------------------------------------------------------------------
(* A task is in one place, and tracked there, until one is retried.        *)
Ready == \A u \in Tasks : status'[u] = "pending" => status[u] = "pending"

(* The tasks stay where they are, or go away.                              *)
Stays ==
  /\ jobs' = jobs
  /\ \A u \in Tasks : (InTodo(u)' => InTodo(u)) /\ (InPoll(u)' => InPoll(u))
  /\ \A v \in Workers, u \in Tasks : InHand(v, u)' => InHand(v, u)

AllApart == \A u \in Tasks : Apart(u)
AllTracked == \A u \in Tasks : Tracked(u)

LEMMA ApartKept == ASSUME AllApart, Stays, Ready PROVE AllApart'
<1>1. \A u : InQueue(u)' <=> InQueue(u)
  BY DEF Stays, InQueue
<1> SUFFICES ASSUME NEW u \in Tasks PROVE Apart(u)'
  BY DEF AllApart
<1>2. Apart(u)
  BY DEF AllApart
<1> QED
  BY <1>1, <1>2 DEF Apart, Stays, Ready

(* Reading backwards: a straight behaviour was straight.                   *)
LEMMA StraightBefore ==
  ASSUME ApartInv, Straight', retriesLeft' = Retries => retriesLeft = Retries, abortTasks => abortTasks'
  PROVE  Straight /\ AllApart /\ AllTracked
BY DEF ApartInv, Straight, AllApart, AllTracked

LEMMA ApartStep == ASSUME Straight' => AllApart' /\ AllTracked' PROVE ApartInv'
BY DEF ApartInv, AllApart, AllTracked

LEMMA PollStopApart ==
  ASSUME Basics, ApartInv, PollStop, Straight'
  PROVE  AllApart' /\ AllTracked'
<1>0. StoreOK /\ ProcOK /\ CarryInv
  BY TypeHalves, Zenon DEF Basics
<1>1. Straight /\ AllApart /\ AllTracked /\ Ready
  BY StraightBefore DEF PollStop, flags, store, Ready
<1>2. Stays
  BY <1>0 DEF PollStop, ProcOK, Stays, InTodo, InPoll, InHand, queue
<1>3. \A u : InQueue(u)' <=> InQueue(u)
  BY <1>2 DEF Stays, InQueue
<1>4. AllTracked'
  BY <1>0, <1>1, <1>3 DEF PollStop, ProcOK, AllTracked, Tracked
<1> QED
  BY <1>1, <1>2, <1>4, ApartKept

LEMMA PollTickApart ==
  ASSUME Basics, ApartInv, PollTick, Straight'
  PROVE  AllApart' /\ AllTracked'
<1>0. StoreOK /\ ProcOK /\ CarryInv
  BY TypeHalves, Zenon DEF Basics
<1>1. Straight /\ AllApart /\ AllTracked /\ Ready
  BY StraightBefore DEF PollTick, flags, store, Ready
<1>2. Stays
  BY <1>0 DEF PollTick, ProcOK, Stays, InTodo, InPoll, InHand, queue
<1>3. \A u : InQueue(u)' <=> InQueue(u)
  BY <1>2 DEF Stays, InQueue
<1>4. AllTracked'
  BY <1>0, <1>1, <1>3 DEF PollTick, ProcOK, AllTracked, Tracked
<1> QED
  BY <1>1, <1>2, <1>4, ApartKept

LEMMA ClaimTasksApart ==
  ASSUME Basics, ApartInv, ClaimTasks, Straight'
  PROVE  AllApart' /\ AllTracked'
<1>0. StoreOK /\ ProcOK /\ CarryInv
  BY TypeHalves, Zenon DEF Basics
<1>1. PICK S \in SUBSET Tasks : L!Take(Me, S) /\ poll' = [poll EXCEPT !.pc = "dispatch", !.todo = S]
  BY Zenon DEF ClaimTasks
<1>2. Ready /\ (\A u \in S : status[u] = "pending" /\ status'[u] # "pending")
  BY <1>0, <1>1, TakeEffect DEF ClaimTasks, Ready
<1>3. Straight /\ AllApart /\ AllTracked
  BY StraightBefore DEF ClaimTasks, flags
<1>4. /\ jobs' = jobs /\ \A u : InQueue(u)' <=> InQueue(u)
      /\ \A u \in Tasks : (InTodo(u)' <=> u \in S) /\ ~InPoll(u)'
      /\ \A v \in Workers, u \in Tasks : InHand(v, u)' <=> InHand(v, u)
  BY <1>0, <1>1, Zenon DEF ClaimTasks, ProcOK, InTodo, InPoll, InHand, InQueue, queue
<1>5. ASSUME NEW u \in Tasks PROVE Apart(u)'
  <2>1. Apart(u)
    BY <1>3 DEF AllApart
  <2>2. CASE u \in S
    <3>1. status[u] = "pending" /\ status'[u] # "pending"
      BY <1>2, <2>2
    <3>2. ~InQueue(u) /\ \A w \in Workers : ~InHand(w, u)
      BY <2>1, <3>1 DEF Apart
    <3> QED
      BY <1>4, <2>1, <3>1, <3>2 DEF Apart
  <2>3. CASE u \notin S
    BY <1>2, <1>4, <2>1, <2>3 DEF Apart, Ready
  <2> QED
    BY <2>2, <2>3
<1>6. AllTracked'
  BY <1>0, <1>1, <1>3, <1>4 DEF ClaimTasks, ProcOK, AllTracked, Tracked
<1> QED
  BY <1>5, <1>6 DEF AllApart

LEMMA ClaimNothingApart ==
  ASSUME Basics, ApartInv, ClaimNothing, Straight'
  PROVE  AllApart' /\ AllTracked'
<1>0. StoreOK /\ ProcOK /\ CarryInv
  BY TypeHalves, Zenon DEF Basics
<1>1. Straight /\ AllApart /\ AllTracked /\ Ready
  BY StraightBefore DEF ClaimNothing, flags, store, Ready
<1>2. Stays
  BY <1>0 DEF ClaimNothing, ProcOK, Stays, InTodo, InPoll, InHand, queue
<1>3. \A u : InQueue(u)' <=> InQueue(u)
  BY <1>2 DEF Stays, InQueue
<1>4. AllTracked'
  BY <1>0, <1>1, <1>3 DEF ClaimNothing, ProcOK, AllTracked, Tracked
<1> QED
  BY <1>1, <1>2, <1>4, ApartKept

LEMMA ClaimResponseLostApart ==
  ASSUME Basics, ApartInv, ClaimResponseLost, Straight'
  PROVE  AllApart' /\ AllTracked'
<1>0. StoreOK /\ ProcOK /\ CarryInv
  BY TypeHalves, Zenon DEF Basics
<1>1. Ready
  BY <1>0, TakeEffect DEF ClaimResponseLost, Ready
<1>2. Straight /\ AllApart /\ AllTracked /\ Ready
  BY <1>1, StraightBefore DEF ClaimResponseLost, flags
<1>3. Stays
  BY <1>0 DEF ClaimResponseLost, ProcOK, Stays, InTodo, InPoll, InHand, queue
<1>4. \A u : InQueue(u)' <=> InQueue(u)
  BY <1>3 DEF Stays, InQueue
<1>5. AllTracked'
  BY <1>0, <1>2, <1>4 DEF ClaimResponseLost, ProcOK, AllTracked, Tracked
<1> QED
  BY <1>2, <1>3, <1>5, ApartKept

LEMMA NextClaimedApart ==
  ASSUME Basics, ApartInv, NEW t \in Tasks, NextClaimed(t), Straight'
  PROVE  AllApart' /\ AllTracked'
<1>0. StoreOK /\ ProcOK /\ CarryInv
  BY TypeHalves, Zenon DEF Basics
<1>1. Straight /\ AllApart /\ AllTracked /\ Ready
  BY StraightBefore DEF NextClaimed, flags, store, Ready
<1>2. /\ jobs' = jobs /\ \A u : InQueue(u)' <=> InQueue(u)
      /\ \A u \in Tasks : (InTodo(u)' <=> InTodo(u) /\ u # t) /\ (InPoll(u)' <=> u = t)
      /\ \A v \in Workers, u \in Tasks : InHand(v, u)' <=> InHand(v, u)
      /\ InTodo(t)
  BY <1>0 DEF NextClaimed, ProcOK, InTodo, InPoll, InHand, InQueue, queue
<1>3. ASSUME NEW u \in Tasks PROVE Apart(u)'
  <2>1. Apart(u)
    BY <1>1 DEF AllApart
  <2> QED
    BY <1>1, <1>2, <2>1 DEF Apart, Ready
<1>4. AllTracked'
  BY <1>0, <1>1, <1>2 DEF NextClaimed, ProcOK, AllTracked, Tracked
<1> QED
  BY <1>3, <1>4 DEF AllApart

LEMMA BatchDoneApart ==
  ASSUME Basics, ApartInv, BatchDone, Straight'
  PROVE  AllApart' /\ AllTracked'
<1>0. StoreOK /\ ProcOK /\ CarryInv
  BY TypeHalves, Zenon DEF Basics
<1>1. Straight /\ AllApart /\ AllTracked /\ Ready
  BY StraightBefore DEF BatchDone, flags, store, Ready
<1>2. Stays
  BY <1>0 DEF BatchDone, ProcOK, Stays, InTodo, InPoll, InHand, queue
<1>3. \A u : InQueue(u)' <=> InQueue(u)
  BY <1>2 DEF Stays, InQueue
<1>4. AllTracked'
  BY <1>0, <1>1, <1>3 DEF BatchDone, ProcOK, AllTracked, Tracked
<1> QED
  BY <1>1, <1>2, <1>4, ApartKept

LEMMA RefuseApart ==
  ASSUME Basics, ApartInv, Refuse, Straight'
  PROVE  AllApart' /\ AllTracked'
<1>0. StoreOK /\ ProcOK /\ CarryInv
  BY TypeHalves, Zenon DEF Basics
<1>1. Returns
  BY <1>0, ReportReturns DEF Refuse, CarryInv, ProcOK
<1>2. Straight /\ AllApart /\ AllTracked /\ Ready
  BY <1>1, StraightBefore DEF Refuse, flags, Returns, Ready, Straight
<1>3. Stays
  BY <1>0 DEF Refuse, ProcOK, Stays, InTodo, InPoll, InHand, queue
<1>4. \A u : InQueue(u)' <=> InQueue(u)
  BY <1>3 DEF Stays, InQueue
<1>5. AllTracked'
  BY <1>0, <1>2, <1>4 DEF Refuse, ProcOK, AllTracked, Tracked
<1> QED
  BY <1>2, <1>3, <1>5, ApartKept

LEMMA TrackPendingApart ==
  ASSUME Basics, ApartInv, TrackPending, Straight'
  PROVE  AllApart' /\ AllTracked'
<1>0. StoreOK /\ ProcOK /\ CarryInv
  BY TypeHalves, Zenon DEF Basics
<1>1. Straight /\ AllApart /\ AllTracked /\ Ready
  BY StraightBefore DEF TrackPending, flags, store, Ready
<1>2. Stays
  BY <1>0 DEF TrackPending, ProcOK, Stays, InTodo, InPoll, InHand, queue
<1>3. \A u : InQueue(u)' <=> InQueue(u)
  BY <1>2 DEF Stays, InQueue
<1>4. AllTracked'
  BY <1>0, <1>1, <1>3 DEF TrackPending, ProcOK, AllTracked, Tracked
<1> QED
  BY <1>1, <1>2, <1>4, ApartKept

LEMMA SendJobApart ==
  ASSUME Basics, ApartInv, SendJob, Straight'
  PROVE  AllApart' /\ AllTracked'
<1>0. StoreOK /\ ProcOK /\ CarryInv
  BY TypeHalves, Zenon DEF Basics
<1>1. Straight /\ AllApart /\ AllTracked /\ Ready
  BY StraightBefore DEF SendJob, flags, store, Ready
<1>2. poll.task \in Tasks /\ InPoll(poll.task) /\ poll.task \in pending
  BY <1>0, <1>1 DEF SendJob, CarryInv, InPoll, AllTracked, Tracked
<1>3. \A u : InQueue(u)' <=> InQueue(u) \/ u = poll.task
  BY <1>0, <1>2, QueueGrows DEF SendJob, ProcOK
<1>4. /\ \A u \in Tasks : (InTodo(u)' <=> InTodo(u)) /\ ~InPoll(u)'
      /\ \A v \in Workers, u \in Tasks : InHand(v, u)' <=> InHand(v, u)
  BY <1>0 DEF SendJob, ProcOK, InTodo, InPoll, InHand
<1>5. ASSUME NEW u \in Tasks PROVE Apart(u)'
  <2>1. Apart(u) /\ (InPoll(u) <=> u = poll.task)
    BY <1>1, <1>2 DEF AllApart, InPoll
  <2>2. \A i, j \in 1..Len(jobs') : jobs'[i] = u /\ jobs'[j] = u => i = j
    <3>1. /\ Len(jobs') = Len(jobs) + 1 /\ Len(jobs) \in Nat
          /\ \A i \in 1..Len(jobs) : jobs'[i] = jobs[i]
          /\ jobs'[Len(jobs) + 1] = poll.task
      BY <1>0, <1>2 DEF SendJob, ProcOK
    <3>2. \A i \in 1..Len(jobs') : i \in 1..Len(jobs) \/ i = Len(jobs) + 1
      BY <3>1
    <3>3. u = poll.task => \A i \in 1..Len(jobs) : jobs[i] # u
      BY <2>1 DEF Apart, InQueue
    <3> QED
      BY <2>1, <3>1, <3>2, <3>3 DEF Apart
  <2> QED
    BY <1>1, <1>3, <1>4, <2>1, <2>2 DEF Apart, Ready
<1>6. AllTracked'
  BY <1>0, <1>1, <1>2, <1>3 DEF SendJob, ProcOK, AllTracked, Tracked
<1> QED
  BY <1>5, <1>6 DEF AllApart

LEMMA OverflowApart ==
  ASSUME Basics, ApartInv, Overflow, Straight'
  PROVE  AllApart' /\ AllTracked'
<1>0. StoreOK /\ ProcOK /\ CarryInv
  BY TypeHalves, Zenon DEF Basics
<1>1. Straight /\ AllApart /\ AllTracked /\ Ready
  BY StraightBefore DEF Overflow, flags, store, Ready
<1>2. Stays
  BY <1>0 DEF Overflow, ProcOK, Stays, InTodo, InPoll, InHand, queue
<1>3. \A u : InQueue(u)' <=> InQueue(u)
  BY <1>2 DEF Stays, InQueue
<1>4. poll.task \in Tasks /\ InPoll(poll.task) /\ Apart(poll.task)
  BY <1>0, <1>1 DEF Overflow, CarryInv, InPoll, InHand, AllApart
<1>5. AllTracked'
  BY <1>0, <1>1, <1>3, <1>4 DEF Overflow, ProcOK, AllTracked, Tracked, Apart, InPoll, InHand
<1> QED
  BY <1>1, <1>2, <1>5, ApartKept

LEMMA SendOnClosedApart ==
  ASSUME Basics, ApartInv, SendOnClosed, Straight'
  PROVE  AllApart' /\ AllTracked'
<1>0. StoreOK /\ ProcOK /\ CarryInv
  BY TypeHalves, Zenon DEF Basics
<1>1. Straight /\ AllApart /\ AllTracked /\ Ready
  BY StraightBefore DEF SendOnClosed, flags, store, Ready
<1>2. Stays
  BY <1>0 DEF SendOnClosed, ProcOK, Stays, InTodo, InPoll, InHand, queue
<1>3. \A u : InQueue(u)' <=> InQueue(u)
  BY <1>2 DEF Stays, InQueue
<1>4. AllTracked'
  BY <1>0, <1>1, <1>3 DEF SendOnClosed, ProcOK, AllTracked, Tracked
<1> QED
  BY <1>1, <1>2, <1>4, ApartKept

LEMMA ReceiveApart ==
  ASSUME Basics, ApartInv, NEW w \in Workers, Receive(w), Straight'
  PROVE  AllApart' /\ AllTracked'
<1>0. StoreOK /\ ProcOK /\ CarryInv
  BY TypeHalves, Zenon DEF Basics
<1>1. Straight /\ AllApart /\ AllTracked /\ Ready
  BY StraightBefore DEF Receive, flags, store, Ready
<1>2. /\ \A u : InQueue(u) <=> InQueue(u)' \/ u = Head(jobs)
      /\ InQueue(Head(jobs)) /\ Head(jobs) \in Tasks
  BY <1>0, QueueShrinks DEF Receive, ProcOK
<1>3. /\ Len(jobs') = Len(jobs) - 1 /\ Len(jobs) \in Nat \ {0}
      /\ \A i \in 1..Len(jobs') : jobs'[i] = jobs[i + 1] /\ i + 1 \in 1..Len(jobs) /\ i \in Int
      /\ Head(jobs) = jobs[1] /\ 1 \in 1..Len(jobs)
  BY <1>0 DEF Receive, ProcOK
<1>4. /\ \A u \in Tasks : (InTodo(u)' <=> InTodo(u)) /\ (InPoll(u)' <=> InPoll(u))
      /\ \A v \in Workers, u \in Tasks :
            (InHand(v, u)' <=> IF v = w THEN u = Head(jobs) ELSE InHand(v, u)) /\ ~InHand(w, u)
  BY <1>0, <1>2 DEF Receive, Goto, ProcOK, InTodo, InPoll, InHand
<1>5. ASSUME NEW u \in Tasks PROVE Apart(u)'
  <2>1. Apart(u)
    BY <1>1 DEF AllApart
  <2>2. ASSUME NEW i \in 1..Len(jobs'), NEW j \in 1..Len(jobs'), jobs'[i] = u, jobs'[j] = u
        PROVE  i = j
    <3>1. /\ i + 1 \in 1..Len(jobs) /\ j + 1 \in 1..Len(jobs) /\ i \in Int /\ j \in Int
          /\ jobs[i + 1] = u /\ jobs[j + 1] = u
      BY <1>3, <2>2, Zenon
    <3>2. i + 1 = j + 1
      BY <2>1, <3>1, Zenon DEF Apart
    <3> QED
      BY <3>1, <3>2
  <2>3. u = Head(jobs) => ~InQueue(u)'
    <3>1. \A i \in 1..Len(jobs') : i + 1 # 1
      BY <1>3
    <3> QED
      BY <1>3, <2>1, <3>1 DEF Apart, InQueue
  <2> QED
    BY <1>1, <1>2, <1>4, <2>1, <2>2, <2>3, Zenon DEF Apart, Ready
<1>6. AllTracked'
  BY <1>0, <1>1, <1>2 DEF Receive, Goto, ProcOK, AllTracked, Tracked
<1> QED
  BY <1>5, <1>6 DEF AllApart

LEMMA WorkerExitApart ==
  ASSUME Basics, ApartInv, NEW w \in Workers, WorkerExit(w), Straight'
  PROVE  AllApart' /\ AllTracked'
<1>0. StoreOK /\ ProcOK /\ CarryInv
  BY TypeHalves, Zenon DEF Basics
<1>1. Straight /\ AllApart /\ AllTracked /\ Ready
  BY StraightBefore DEF WorkerExit, flags, store, Ready
<1>2. Stays
  BY <1>0 DEF WorkerExit, Goto, ProcOK, Stays, InTodo, InPoll, InHand, queue
<1>3. \A u : InQueue(u)' <=> InQueue(u)
  BY <1>2 DEF Stays, InQueue
<1>4. AllTracked'
  BY <1>0, <1>1, <1>3 DEF WorkerExit, Goto, ProcOK, AllTracked, Tracked
<1> QED
  BY <1>1, <1>2, <1>4, ApartKept

LEMMA CheckApart ==
  ASSUME Basics, ApartInv, NEW w \in Workers, Check(w), Straight'
  PROVE  AllApart' /\ AllTracked'
<1>0. StoreOK /\ ProcOK /\ CarryInv
  BY TypeHalves, Zenon DEF Basics
<1>1. Straight /\ AllApart /\ AllTracked /\ Ready
  BY StraightBefore DEF Check, flags, store, Ready
<1>2. Stays
  BY <1>0 DEF Check, Goto, ProcOK, Stays, InTodo, InPoll, InHand, queue
<1>3. \A u : InQueue(u)' <=> InQueue(u)
  BY <1>2 DEF Stays, InQueue
<1>4. AllTracked'
  BY <1>0, <1>1, <1>3 DEF Check, Goto, ProcOK, AllTracked, Tracked
<1> QED
  BY <1>1, <1>2, <1>4, ApartKept

LEMMA DropApart ==
  ASSUME Basics, ApartInv, NEW w \in Workers, Drop(w), Straight'
  PROVE  AllApart' /\ AllTracked'
<1>0. StoreOK /\ ProcOK /\ CarryInv
  BY TypeHalves, Zenon DEF Basics
<1>1. Straight /\ AllApart /\ AllTracked /\ Ready
  BY StraightBefore DEF Drop, flags, store, Ready
<1>2. Stays
  BY <1>0 DEF Drop, Goto, ProcOK, Stays, InTodo, InPoll, InHand, queue
<1>3. \A u : InQueue(u)' <=> InQueue(u)
  BY <1>2 DEF Stays, InQueue
<1>4. hand[w] \in Tasks /\ InHand(w, hand[w]) /\ Apart(hand[w])
  BY <1>0, <1>1 DEF Drop, CarryInv, InPoll, InHand, AllApart
<1>5. AllTracked'
  BY <1>0, <1>1, <1>3, <1>4, Zenon DEF Drop, Goto, ProcOK, AllTracked, Tracked, Apart, InPoll, InHand
<1> QED
  BY <1>1, <1>2, <1>5, ApartKept

LEMMA ReportDroppedApart ==
  ASSUME Basics, ApartInv, NEW w \in Workers, ReportDropped(w), Straight'
  PROVE  AllApart' /\ AllTracked'
<1>0. StoreOK /\ ProcOK /\ CarryInv
  BY TypeHalves, Zenon DEF Basics
<1>1. Returns
  BY <1>0, ReportReturns DEF ReportDropped, CarryInv, ProcOK
<1>2. Straight /\ AllApart /\ AllTracked /\ Ready
  BY <1>1, StraightBefore DEF ReportDropped, flags, Returns, Ready, Straight
<1>3. Stays
  BY <1>0 DEF ReportDropped, Goto, ProcOK, Stays, InTodo, InPoll, InHand, queue
<1>4. \A u : InQueue(u)' <=> InQueue(u)
  BY <1>3 DEF Stays, InQueue
<1>5. AllTracked'
  BY <1>0, <1>2, <1>4 DEF ReportDropped, Goto, ProcOK, AllTracked, Tracked
<1> QED
  BY <1>2, <1>3, <1>5, ApartKept

LEMMA TrackRunningApart ==
  ASSUME Basics, ApartInv, NEW w \in Workers, TrackRunning(w), Straight'
  PROVE  AllApart' /\ AllTracked'
<1>0. StoreOK /\ ProcOK /\ CarryInv
  BY TypeHalves, Zenon DEF Basics
<1>1. Straight /\ AllApart /\ AllTracked /\ Ready
  BY StraightBefore DEF TrackRunning, flags, store, Ready
<1>2. Stays
  BY <1>0 DEF TrackRunning, Goto, ProcOK, Stays, InTodo, InPoll, InHand, queue
<1>3. \A u : InQueue(u)' <=> InQueue(u)
  BY <1>2 DEF Stays, InQueue
<1>4. AllTracked'
  BY <1>0, <1>1, <1>3 DEF TrackRunning, Goto, ProcOK, AllTracked, Tracked
<1> QED
  BY <1>1, <1>2, <1>4, ApartKept

LEMMA UntrackPendingApart ==
  ASSUME Basics, ApartInv, NEW w \in Workers, UntrackPending(w), Straight'
  PROVE  AllApart' /\ AllTracked'
<1>0. StoreOK /\ ProcOK /\ CarryInv
  BY TypeHalves, Zenon DEF Basics
<1>1. Straight /\ AllApart /\ AllTracked /\ Ready
  BY StraightBefore DEF UntrackPending, flags, store, Ready
<1>2. Stays
  BY <1>0 DEF UntrackPending, Goto, ProcOK, Stays, InTodo, InPoll, InHand, queue
<1>3. \A u : InQueue(u)' <=> InQueue(u)
  BY <1>2 DEF Stays, InQueue
<1>4. hand[w] \in Tasks /\ InHand(w, hand[w]) /\ Apart(hand[w])
  BY <1>0, <1>1 DEF UntrackPending, CarryInv, InPoll, InHand, AllApart
<1>5. AllTracked'
  BY <1>0, <1>1, <1>3, <1>4 DEF UntrackPending, Goto, ProcOK, AllTracked, Tracked, Apart, InPoll, InHand
<1> QED
  BY <1>1, <1>2, <1>5, ApartKept

LEMMA HandlerReturnsApart ==
  ASSUME Basics, ApartInv, NEW w \in Workers, HandlerReturns(w), Straight'
  PROVE  AllApart' /\ AllTracked'
<1>0. StoreOK /\ ProcOK /\ CarryInv
  BY TypeHalves, Zenon DEF Basics
<1>1. Straight /\ AllApart /\ AllTracked /\ Ready
  BY StraightBefore DEF HandlerReturns, flags, store, Ready
<1>2. Stays
  BY <1>0 DEF HandlerReturns, Goto, ProcOK, Stays, InTodo, InPoll, InHand, queue
<1>3. \A u : InQueue(u)' <=> InQueue(u)
  BY <1>2 DEF Stays, InQueue
<1>4. AllTracked'
  BY <1>0, <1>1, <1>3 DEF HandlerReturns, Goto, ProcOK, AllTracked, Tracked
<1> QED
  BY <1>1, <1>2, <1>4, ApartKept

LEMMA ReportApart ==
  ASSUME Basics, ApartInv, NEW w \in Workers, Report(w), Straight'
  PROVE  AllApart' /\ AllTracked'
<1>0. StoreOK /\ ProcOK /\ CarryInv
  BY TypeHalves, Zenon DEF Basics
<1>1. Returns
  BY <1>0, ReportReturns DEF Report, CarryInv, ProcOK
<1>2. Straight /\ AllApart /\ AllTracked /\ Ready
  BY <1>1, StraightBefore DEF Report, flags, Returns, Ready, Straight
<1>3. Stays
  BY <1>0 DEF Report, Goto, ProcOK, Stays, InTodo, InPoll, InHand, queue
<1>4. \A u : InQueue(u)' <=> InQueue(u)
  BY <1>3 DEF Stays, InQueue
<1>5. AllTracked'
  BY <1>0, <1>2, <1>4 DEF Report, Goto, ProcOK, AllTracked, Tracked
<1> QED
  BY <1>2, <1>3, <1>5, ApartKept

LEMMA CleanupApart ==
  ASSUME Basics, ApartInv, NEW w \in Workers, Cleanup(w), Straight'
  PROVE  AllApart' /\ AllTracked'
<1>0. StoreOK /\ ProcOK /\ CarryInv
  BY TypeHalves, Zenon DEF Basics
<1>1. Straight /\ AllApart /\ AllTracked /\ Ready
  BY StraightBefore DEF Cleanup, flags, store, Ready
<1>2. Stays
  BY <1>0 DEF Cleanup, Goto, ProcOK, Stays, InTodo, InPoll, InHand, queue
<1>3. \A u : InQueue(u)' <=> InQueue(u)
  BY <1>2 DEF Stays, InQueue
<1>4. hand[w] \in Tasks /\ InHand(w, hand[w]) /\ Apart(hand[w])
  BY <1>0, <1>1 DEF Cleanup, CarryInv, InPoll, InHand, AllApart
<1>5. AllTracked'
  BY <1>0, <1>1, <1>3, <1>4, Zenon DEF Cleanup, Goto, ProcOK, AllTracked, Tracked, Apart, InPoll, InHand
<1> QED
  BY <1>1, <1>2, <1>5, ApartKept

LEMMA ShutdownApart ==
  ASSUME Basics, ApartInv, NEW s \in Shutdowns, ShutdownNext(s), Straight'
  PROVE  AllApart' /\ AllTracked'
<1>1. UNCHANGED <<poll, jobs, at, hand>> /\ Returns
  BY ShutdownFrame
<1>2. abortTasks \in BOOLEAN /\ StopInv
  BY DEF Basics, TypeOK
<1>3. (abortTasks => abortTasks') /\ UNCHANGED <<pending, running>>
  <2>1. ASSUME NEW t \in Tasks, FailInflight(s, t) PROVE FALSE
    BY <1>2, <2>1 DEF FailInflight, StopInv, Straight, flags
  <2>2. CASE ShutdownQuiet(s)
    BY <1>2, <2>2 DEF ShutdownQuiet, CloseStopChannel, StopPolling, Expire, ReadPending, ReadRunning, Abort, ListPending,
       ListRunning, InflightFailed, CloseTaskQueue, WorkersDone, LoopDone, LoopTimeout, Exit, flags
  <2> QED
    BY <2>1, <2>2, Zenon DEF ShutdownNext, ShutdownQuiet
<1>4. Straight /\ AllApart /\ AllTracked /\ Ready
  BY <1>1, <1>3, StraightBefore DEF Returns, Ready, Straight
<1>5. Stays
  BY <1>1 DEF Stays, InTodo, InPoll, InHand
<1>6. AllTracked'
  BY <1>1, <1>3, <1>4 DEF AllTracked, Tracked, InQueue
<1> QED
  BY <1>4, <1>5, <1>6, ApartKept

-----------------------------------------------------------------------------
(* Once polling stops, no other task comes.                                *)
Fewer ==
  \A u \in Tasks : /\ Coming(u, Waiting)' => Coming(u, Waiting)
                   /\ Coming(u, InFlight)' => Coming(u, InFlight)

LEMMA PollFewer == ASSUME Basics, stopPolling, PollNext PROVE Fewer
<1>0. ProcOK /\ CarryInv
  BY TypeHalves, Zenon DEF Basics
<1>1. CASE PollStop
  BY <1>0, <1>1 DEF PollStop, ProcOK, Fewer, Coming, InQueue, queue
<1>2. CASE PollTick
  BY <1>0, <1>2 DEF PollTick, ProcOK, Fewer, Coming, InQueue, queue
<1>3. CASE ClaimTasks
  BY <1>0, <1>3 DEF ClaimTasks, ProcOK, Fewer, Coming, InQueue, queue
<1>4. CASE ClaimNothing
  BY <1>0, <1>4 DEF ClaimNothing, ProcOK, Fewer, Coming, InQueue, queue
<1>5. CASE ClaimResponseLost
  BY <1>0, <1>5 DEF ClaimResponseLost, ProcOK, Fewer, Coming, InQueue, queue
<1>6. ASSUME NEW t \in Tasks, NextClaimed(t) PROVE Fewer
  BY <1>0, <1>6 DEF NextClaimed, ProcOK, Fewer, Coming, InQueue, queue
<1>7. CASE BatchDone
  BY <1>0, <1>7 DEF BatchDone, ProcOK, Fewer, Coming, InQueue, queue
<1>8. CASE Refuse
  BY <1>0, <1>8 DEF Refuse, ProcOK, Fewer, Coming, InQueue, queue
<1>9. CASE TrackPending
  BY <1>0, <1>9 DEF TrackPending, ProcOK, Fewer, Coming, InQueue, queue
<1>10. CASE SendJob
  <2>1. \A u : InQueue(u)' <=> InQueue(u) \/ u = poll.task
    BY <1>0, <1>10, QueueGrows DEF SendJob, CarryInv, ProcOK
  <2> QED
    BY <1>0, <1>10, <2>1 DEF SendJob, ProcOK, Fewer, Coming
<1>11. CASE Overflow
  BY <1>0, <1>11 DEF Overflow, ProcOK, Fewer, Coming, InQueue, queue
<1>12. CASE SendOnClosed
  BY <1>0, <1>12 DEF SendOnClosed, ProcOK, Fewer, Coming, InQueue, queue
<1> QED
  BY <1>1, <1>2, <1>3, <1>4, <1>5, <1>6, <1>7, <1>8, <1>9, <1>10, <1>11, <1>12, Zenon DEF PollNext

LEMMA WorkerFewer == ASSUME Basics, NEW w \in Workers, WorkerNext(w) PROVE Fewer
<1>0. ProcOK
  BY TypeHalves, Zenon DEF Basics
<1>1. CASE Receive(w)
  <2>1. (\A u : InQueue(u)' => InQueue(u)) /\ InQueue(Head(jobs))
    BY <1>0, <1>1, QueueShrinks DEF Receive, ProcOK
  <2> QED
    BY <1>0, <1>1, <2>1 DEF Receive, Goto, ProcOK, Fewer, Coming
<1>2. CASE WorkerExit(w)
  BY <1>0, <1>2 DEF WorkerExit, Goto, ProcOK, Fewer, Coming, Waiting, InFlight, InQueue, queue
<1>3. CASE Check(w)
  BY <1>0, <1>3 DEF Check, Goto, ProcOK, Fewer, Coming, Waiting, InFlight, InQueue, queue
<1>4. CASE Drop(w)
  BY <1>0, <1>4 DEF Drop, Goto, ProcOK, Fewer, Coming, Waiting, InFlight, InQueue, queue
<1>5. CASE ReportDropped(w)
  BY <1>0, <1>5 DEF ReportDropped, Goto, ProcOK, Fewer, Coming, Waiting, InFlight, InQueue, queue
<1>6. CASE TrackRunning(w)
  BY <1>0, <1>6 DEF TrackRunning, Goto, ProcOK, Fewer, Coming, Waiting, InFlight, InQueue, queue
<1>7. CASE UntrackPending(w)
  BY <1>0, <1>7 DEF UntrackPending, Goto, ProcOK, Fewer, Coming, Waiting, InFlight, InQueue, queue
<1>8. CASE HandlerReturns(w)
  BY <1>0, <1>8 DEF HandlerReturns, Goto, ProcOK, Fewer, Coming, Waiting, InFlight, InQueue, queue
<1>9. CASE Report(w)
  BY <1>0, <1>9 DEF Report, Goto, ProcOK, Fewer, Coming, Waiting, InFlight, InQueue, queue
<1>10. CASE Cleanup(w)
  BY <1>0, <1>10 DEF Cleanup, Goto, ProcOK, Fewer, Coming, Waiting, InFlight, InQueue, queue
<1> QED
  BY <1>1, <1>2, <1>3, <1>4, <1>5, <1>6, <1>7, <1>8, <1>9, <1>10, Zenon DEF WorkerNext

LEMMA OneStaysOne ==
  ASSUME Fewer
  PROVE  (AtMostOne(Waiting) => AtMostOne(Waiting)') /\ (AtMostOne(InFlight) => AtMostOne(InFlight)')
BY Zenon DEF Fewer, AtMostOne

(* The loops leave the requests alone.                                     *)
LEMMA LoopFrame ==
  ASSUME PollNext \/ \E w \in Workers : WorkerNext(w)
  PROVE  UNCHANGED <<sd, closed, abortTasks>>
<1>1. CASE PollNext
  BY <1>1, Zenon
     DEF PollNext, PollStop, PollTick, ClaimTasks, ClaimNothing, ClaimResponseLost, NextClaimed, BatchDone, Refuse,
         TrackPending, SendJob, Overflow, SendOnClosed, flags, queue
<1>2. ASSUME NEW w \in Workers, WorkerNext(w) PROVE UNCHANGED <<sd, closed, abortTasks>>
  BY <1>2, Zenon
     DEF WorkerNext, Receive, WorkerExit, Check, Drop, ReportDropped, TrackRunning, UntrackPending, HandlerReturns,
         Report, Cleanup, flags, queue
<1> QED
  BY <1>1, <1>2

LEMMA LoopLate ==
  ASSUME Basics, ApartInv, LateInv, PollNext \/ \E w \in Workers : WorkerNext(w), Straight' => Straight
  PROVE  LateInv'
<1>1. UNCHANGED <<sd, closed, abortTasks>>
  BY LoopFrame
<1>2. StopInv
  BY DEF Basics
<1>3. ASSUME stopPolling PROVE Fewer
  BY <1>3, PollFewer, WorkerFewer
<1>4. ASSUME Straight', NEW s \in Shutdowns, sd'[s].pc = "readRunning", sd'[s].seen = {}
      PROVE  AtMostOne(Waiting)'
  BY <1>1, <1>2, <1>3, <1>4, OneStaysOne DEF LateInv, StopInv
<1>5. ASSUME Straight', closed' \/ \E s \in Shutdowns : sd'[s].pc = "close"
      PROVE  AtMostOne(InFlight)'
  <2>1. stopPolling
    BY <1>1, <1>2, <1>5 DEF StopInv
  <2>2. AtMostOne(InFlight)
    BY <1>1, <1>5 DEF LateInv
  <2> QED
    BY <1>3, <2>1, <2>2, OneStaysOne
<1> QED
  BY <1>4, <1>5 DEF LateInv

(* What a count that finds one map, and then the other, empty says.        *)
LEMMA NonePending ==
  ASSUME AllTracked, pending = {} PROVE AtMostOne(Waiting)
<1>1. ASSUME NEW t \in Tasks, Coming(t, Waiting) PROVE t = poll.task
  BY <1>1 DEF AllTracked, Tracked, Coming, Waiting
<1> QED
  BY <1>1 DEF AtMostOne

LEMMA NoneRunning ==
  ASSUME AllTracked, running = {}, AtMostOne(Waiting) PROVE AtMostOne(InFlight)
<1>1. ASSUME NEW t \in Tasks, Coming(t, InFlight) PROVE Coming(t, Waiting)
  BY <1>1 DEF AllTracked, Tracked, Coming, Waiting, InFlight
<1> QED
  BY <1>1 DEF AtMostOne

LEMMA ShutdownLate ==
  ASSUME Basics, ApartInv, LateInv, NEW s \in Shutdowns, ShutdownNext(s)
  PROVE  LateInv'
<1> DEFINE Now == /\ \A o \in Shutdowns : sd'[o].pc = "readRunning" /\ sd'[o].seen = {} => AtMostOne(Waiting)
                  /\ closed' \/ (\E o \in Shutdowns : sd'[o].pc = "close") => AtMostOne(InFlight)
<1> SUFFICES ASSUME Straight' PROVE LateInv'
  BY DEF LateInv
<1>0. ProcOK /\ StopInv
  BY TypeHalves, Zenon DEF Basics
<1>1. UNCHANGED <<poll, jobs, at, hand>> /\ Returns
  BY ShutdownFrame
<1>2. abortTasks => abortTasks'
  BY <1>0, Zenon DEF ShutdownNext, CloseStopChannel, StopPolling, Expire, ReadPending, ReadRunning, Abort, ListPending,
     ListRunning, FailInflight, InflightFailed, CloseTaskQueue, WorkersDone, LoopDone, LoopTimeout, Exit, flags, ProcOK
<1>3. Straight /\ AllTracked /\ ~abortTasks
  BY <1>1, <1>2, StraightBefore DEF Returns, Straight
<1>4. /\ \A o \in Shutdowns : sd[o].pc = "readRunning" /\ sd[o].seen = {} => AtMostOne(Waiting)
      /\ closed \/ (\E o \in Shutdowns : sd[o].pc = "close") => AtMostOne(InFlight)
  BY <1>3 DEF LateInv
<1>5. sd[s].pc \notin {"listPending", "listRunning", "failInflight"}
  BY <1>0, <1>3 DEF StopInv
<1> SUFFICES Now
  <2>1. \A steps : AtMostOne(steps)' <=> AtMostOne(steps)
    BY <1>1 DEF AtMostOne, Coming, InQueue
  <2> QED
    BY <2>1 DEF LateInv
<1>6. CASE ReadPending(s)
  <2>1. Noted(s, "readRunning", pending) /\ closed' = closed
    BY <1>0, <1>6, NotedPcSeen, Zenon DEF ReadPending, ShutdownPC, ProcOK, queue
  <2>2. pending = {} => AtMostOne(Waiting)
    BY <1>3, NonePending
  <2> QED
    BY <1>4, <2>1, <2>2 DEF Noted
<1>7. CASE ReadRunning(s)
  <2>1. PICK pc \in {"close", "abort", "readPending"} :
           pc = IF sd[s].seen = {} /\ running = {} THEN "close"
                ELSE IF sd[s].expired THEN "abort" ELSE "readPending"
    OBVIOUS
  <2>2. pc \in ShutdownPC
    BY DEF ShutdownPC
  <2>3. Noted(s, pc, {})
    BY <1>0, <1>7, <2>1, <2>2, NotedPcSeen, Zenon DEF ReadRunning
  <2>4. closed' = closed /\ sd[s].pc = "readRunning"
    BY <1>7 DEF ReadRunning, queue
  <2>5. pc = "close" => AtMostOne(InFlight)
    BY <1>3, <1>4, <2>1, <2>4, NoneRunning
  <2> QED
    BY <1>4, <2>3, <2>4, <2>5 DEF Noted
<1>8. CASE CloseTaskQueue(s)
  BY <1>0, <1>4, <1>8 DEF CloseTaskQueue, Step, ProcOK
<1>9. CASE Expire(s)
  BY <1>0, <1>4, <1>9 DEF Expire, ProcOK, queue
<1>10. CASE CloseStopChannel(s) \/ StopPolling(s) \/ Abort(s) \/ WorkersDone(s) \/ LoopDone(s) \/ LoopTimeout(s)
  BY <1>0, <1>4, <1>10 DEF CloseStopChannel, StopPolling, Abort, WorkersDone, LoopDone, LoopTimeout, Step, ProcOK, queue
<1>11. CASE Exit(s)
  BY <1>4, <1>11 DEF Exit, queue
<1> QED
  BY <1>5, <1>6, <1>7, <1>8, <1>9, <1>10, <1>11, Zenon
     DEF ShutdownNext, ListPending, ListRunning, FailInflight, InflightFailed

-----------------------------------------------------------------------------
(* Together.                                                               *)
LEMMA InitWatcher == Init => WatcherInv
<1> SUFFICES ASSUME Init PROVE WatcherInv
  OBVIOUS
<1>1. TypeOK
  <2>1. \A t \in Tasks : retriesLeft[t] \in Nat /\ retriesLeft[t] <= Retries[t]
    BY WatcherAssumption DEF Init
  <2>2. StoreOK
    BY <2>1, WatcherAssumption DEF Init, StoreOK
  <2>3. ProcOK
    <3>1. poll \in [pc : PollPC, todo : SUBSET Tasks, task : Tasks \cup {NoTask}]
      BY DEF Init, PollPC
    <3>2. sd \in [Shutdowns -> [pc : ShutdownPC, seen : SUBSET Tasks, expired : BOOLEAN, failed : BOOLEAN]]
      BY DEF Init, ShutdownPC
    <3>3. /\ at \in [Workers -> WorkerPC] /\ hand \in [Workers -> Tasks \cup {NoTask}]
          /\ jobs \in Seq(Tasks) /\ faults \in Nat
      BY DEF Init, WorkerPC
    <3> QED
      BY <3>1, <3>2, <3>3, Zenon DEF Init, ProcOK
  <2> QED
    BY <2>2, <2>3, TypeHalves
<1>2. CarryInv /\ StopInv
  BY DEF Init, CarryInv, StopInv
<1>3. \A t \in Tasks : ~InTodo(t) /\ ~InPoll(t) /\ ~InQueue(t) /\ \A w \in Workers : ~InHand(w, t)
  BY DEF Init, InTodo, InPoll, InQueue, InHand
<1>4. HeldInv
  BY DEF Init, HeldInv, Held
<1>5. ApartInv
  BY <1>3 DEF Init, ApartInv, Apart, Tracked
<1>6. LateInv
  BY DEF Init, LateInv
<1> QED
  BY <1>1, <1>2, <1>4, <1>5, <1>6 DEF WatcherInv

(* No step takes back a retry or a flag.                                   *)
LEMMA PollStraight == ASSUME Basics, PollNext, Straight' PROVE Straight
<1>0. StoreOK /\ ProcOK /\ CarryInv
  BY TypeHalves, Zenon DEF Basics
<1>1. abortTasks' = abortTasks
  BY LoopFrame
<1>2. CASE Refuse
  BY <1>0, <1>1, <1>2, ReportReturns DEF Refuse, CarryInv, ProcOK, Returns, Straight
<1>3. ~Refuse => retriesLeft' = retriesLeft
  BY Zenon DEF PollNext, PollStop, PollTick, ClaimTasks, ClaimNothing, ClaimResponseLost, NextClaimed, BatchDone,
     TrackPending, SendJob, Overflow, SendOnClosed, store
<1> QED
  BY <1>1, <1>2, <1>3 DEF Straight

LEMMA WorkerStraight == ASSUME Basics, NEW w \in Workers, WorkerNext(w), Straight' PROVE Straight
<1>0. StoreOK /\ ProcOK /\ CarryInv
  BY TypeHalves, Zenon DEF Basics
<1>1. abortTasks' = abortTasks
  BY LoopFrame
<1>2. CASE ReportDropped(w) \/ Report(w)
  BY <1>0, <1>1, <1>2, ReportReturns, Zenon DEF ReportDropped, Report, CarryInv, ProcOK, Returns, Straight
<1>3. ~(ReportDropped(w) \/ Report(w)) => retriesLeft' = retriesLeft
  BY Zenon DEF WorkerNext, Receive, WorkerExit, Check, Drop, TrackRunning, UntrackPending, HandlerReturns, Cleanup, store
<1> QED
  BY <1>1, <1>2, <1>3 DEF Straight

LEMMA NextWatcher == WatcherInv /\ [Next]_vars => WatcherInv'
<1> SUFFICES ASSUME WatcherInv, [Next]_vars PROVE WatcherInv'
  OBVIOUS
<1>0. Basics /\ HeldInv /\ ApartInv /\ LateInv
  BY Zenon DEF WatcherInv, Basics
<1>1. CASE PollNext
  <2>1. Basics'
    BY <1>0, <1>1, Zenon,
       PollStopBasics, PollTickBasics, ClaimTasksBasics, ClaimNothingBasics, ClaimResponseLostBasics,
       NextClaimedBasics, BatchDoneBasics, RefuseBasics, TrackPendingBasics, SendJobBasics, OverflowBasics,
       SendOnClosedBasics
       DEF PollNext
  <2>2. HeldInv'
    BY <1>0, <1>1, Zenon,
       PollStopHeld, PollTickHeld, ClaimTasksHeld, ClaimNothingHeld, ClaimResponseLostHeld, NextClaimedHeld,
       BatchDoneHeld, RefuseHeld, TrackPendingHeld, SendJobHeld, OverflowHeld, SendOnClosedHeld
       DEF PollNext
  <2>3. Straight' => AllApart' /\ AllTracked'
    BY <1>0, <1>1, Zenon,
       PollStopApart, PollTickApart, ClaimTasksApart, ClaimNothingApart, ClaimResponseLostApart,
       NextClaimedApart, BatchDoneApart, RefuseApart, TrackPendingApart, SendJobApart, OverflowApart,
       SendOnClosedApart
       DEF PollNext
  <2>4. Straight' => Straight
    BY <1>0, <1>1, PollStraight
  <2> QED
    BY <1>0, <1>1, <2>1, <2>2, <2>3, <2>4, ApartStep, LoopLate, Zenon DEF WatcherInv, Basics
<1>2. ASSUME NEW w \in Workers, WorkerNext(w) PROVE WatcherInv'
  <2>1. Basics'
    BY <1>0, <1>2, Zenon,
       ReceiveBasics, WorkerExitBasics, CheckBasics, DropBasics, ReportDroppedBasics, TrackRunningBasics,
       UntrackPendingBasics, HandlerReturnsBasics, ReportBasics, CleanupBasics
       DEF WorkerNext
  <2>2. HeldInv'
    BY <1>0, <1>2, Zenon,
       ReceiveHeld, WorkerExitHeld, CheckHeld, DropHeld, ReportDroppedHeld, TrackRunningHeld,
       UntrackPendingHeld, HandlerReturnsHeld, ReportHeld, CleanupHeld
       DEF WorkerNext
  <2>3. Straight' => AllApart' /\ AllTracked'
    BY <1>0, <1>2, Zenon,
       ReceiveApart, WorkerExitApart, CheckApart, DropApart, ReportDroppedApart, TrackRunningApart,
       UntrackPendingApart, HandlerReturnsApart, ReportApart, CleanupApart
       DEF WorkerNext
  <2>4. Straight' => Straight
    BY <1>0, <1>2, WorkerStraight
  <2> QED
    BY <1>0, <1>2, <2>1, <2>2, <2>3, <2>4, ApartStep, LoopLate, Zenon DEF WatcherInv, Basics
<1>3. ASSUME NEW s \in Shutdowns, ShutdownNext(s) PROVE WatcherInv'
  <2>1. Basics'
    BY <1>0, <1>3, Zenon,
       CloseStopChannelBasics, StopPollingBasics, ExpireBasics, ReadPendingBasics, ReadRunningBasics,
       AbortBasics, ListPendingBasics, ListRunningBasics, FailInflightBasics, InflightFailedBasics,
       CloseTaskQueueBasics, WorkersDoneBasics, LoopDoneBasics, LoopTimeoutBasics, ExitBasics
       DEF ShutdownNext
  <2> QED
    BY <1>0, <1>3, <2>1, ShutdownHeld, ShutdownApart, ApartStep, ShutdownLate, Zenon DEF WatcherInv, Basics
<1>4. CASE UNCHANGED vars
  <2>1. TypeOK' /\ CarryInv' /\ StopInv'
    BY <1>0, <1>4 DEF vars, store, queue, flags, Basics, TypeOK, CarryInv, StopInv
  <2>2. HeldInv'
    BY <1>0, <1>4 DEF vars, store, queue, HeldInv, Held, Owned, InTodo, InPoll, InQueue
  <2>3. ApartInv'
    BY <1>0, <1>4 DEF vars, store, queue, flags, ApartInv, Straight, Apart, Tracked, InTodo, InPoll, InQueue, InHand
  <2>4. LateInv'
    BY <1>0, <1>4, Zenon DEF vars, store, queue, flags, LateInv, Straight, AtMostOne, Coming, InQueue
  <2> QED
    BY <2>1, <2>2, <2>3, <2>4 DEF WatcherInv
<1> QED
  BY <1>1, <1>2, <1>3, <1>4 DEF Next

THEOREM WatcherInvAlways == Spec => []WatcherInv
BY InitWatcher, NextWatcher, PTL DEF Spec

(* At most one task is left in the queue and the workers' hands when it is *)
(* closed: the tasks in InFlight hands and in the queue are one, and in    *)
(* one place.                                                              *)
LEMMA OneStraggler == WatcherInv => AtMostOneStraggler
<1> SUFFICES ASSUME WatcherInv, closed, Straight
             PROVE  Len(jobs) + Cardinality({w \in Workers : at[w] \in InFlight}) <= 1
  BY DEF AtMostOneStraggler, Straight
<1> DEFINE B == {w \in Workers : at[w] \in InFlight}
<1>1. /\ AtMostOne(InFlight) /\ \A t \in Tasks : Apart(t)
      /\ CarryInv /\ jobs \in Seq(Tasks)
  BY DEF WatcherInv, LateInv, ApartInv, TypeOK
<1>2. \A w \in B : /\ hand[w] \in Tasks /\ InHand(w, hand[w]) /\ Coming(hand[w], InFlight)
                   /\ w \in Workers
  BY <1>1 DEF CarryInv, InFlight, InHand, Coming
<1>3. /\ Len(jobs) \in Nat
      /\ \A i \in 1..Len(jobs) : jobs[i] \in Tasks /\ InQueue(jobs[i]) /\ Coming(jobs[i], InFlight)
  BY <1>1 DEF InQueue, Coming
<1> HIDE DEF B
<1>4. CASE B = {}
  <2>1. Cardinality(B) = 0
    BY <1>4, FS_EmptySet
  <2>2. ~(Len(jobs) > 1)
    <3> SUFFICES ASSUME Len(jobs) > 1 PROVE FALSE
      OBVIOUS
    <3>1. 1 \in 1..Len(jobs) /\ 2 \in 1..Len(jobs)
      BY <1>3
    <3>2. jobs[1] = jobs[2]
      BY <1>1, <1>3, <3>1 DEF AtMostOne
    <3>3. jobs[1] \in Tasks /\ Apart(jobs[1])
      BY <1>1, <1>3, <3>1
    <3> QED
      BY <3>1, <3>2, <3>3 DEF Apart
  <2> QED
    BY <1>3, <2>1, <2>2 DEF B
<1>5. CASE B # {}
  <2>1. PICK w \in B : TRUE
    BY <1>5
  <2>2. \A v \in B : v = w
    BY <1>1, <1>2 DEF AtMostOne, Apart
  <2>3. Cardinality(B) = 1
    <3>1. B = {w}
      BY <2>2
    <3> QED
      BY <3>1, FS_Singleton
  <2>4. Len(jobs) = 0
    <3> SUFFICES ASSUME Len(jobs) # 0 PROVE FALSE
      OBVIOUS
    <3>1. 1 \in 1..Len(jobs)
      BY <1>3
    <3>2. jobs[1] = hand[w]
      BY <1>1, <1>2, <1>3, <3>1 DEF AtMostOne
    <3> QED
      BY <1>1, <1>2, <1>3, <3>1, <3>2 DEF Apart
  <2> QED
    BY <2>3, <2>4 DEF B
<1> QED
  BY <1>4, <1>5

(* Every place is empty once a request is answered "stopped".              *)
LEMMA StoppedIsFinal == WatcherInv => StoppedMeansFinalized
<1> SUFFICES ASSUME WatcherInv, NEW s \in Shutdowns, sd[s].pc = "stopped", faults = 0, NEW t \in Tasks, Held(t)
             PROVE  FALSE
  BY DEF StoppedMeansFinalized
<1>1. Owned(t)
  BY DEF WatcherInv, HeldInv
<1>2. poll.pc = "exited" /\ \A w \in Workers : at[w] = "exited"
  BY DEF WatcherInv, StopInv
<1>3. poll.todo = {} /\ jobs = <<>>
  BY <1>2, WatcherAssumption DEF WatcherInv, CarryInv, StopInv
<1> QED
  BY <1>1, <1>2, <1>3 DEF Owned, Unreported, InTodo, InPoll, InQueue

(* And nothing but a request that fails tasks it had listed can still call *)
(* the store.                                                              *)
LEMMA RestsStep ==
  ASSUME WatcherInv, [Next]_vars, NEW s \in Shutdowns, sd[s].pc = "stopped", faults = 0
  PROVE  UNCHANGED store
<1>1. poll.pc = "exited" /\ \A w \in Workers : at[w] = "exited"
  BY DEF WatcherInv, StopInv
<1>2. ~PollNext
  BY <1>1 DEF PollNext, PollStop, PollTick, ClaimTasks, ClaimNothing, ClaimResponseLost, NextClaimed, BatchDone, Refuse,
     TrackPending, SendJob, Overflow, SendOnClosed
<1>3. \A w \in Workers : ~WorkerNext(w)
  BY <1>1, Zenon DEF WorkerNext, Receive, WorkerExit, Check, Drop, ReportDropped, TrackRunning, UntrackPending, HandlerReturns,
     Report, Cleanup
<1>4. ASSUME NEW o \in Shutdowns, NEW t \in Tasks, FailInflight(o, t) PROVE UNCHANGED store
  <2>1. ~Held(t)
    BY StoppedIsFinal DEF StoppedMeansFinalized
  <2> QED
    BY <1>4, <2>1 DEF FailInflight, MarkFailed, MarkFailedUnanswered, FailTask, CallLost
<1>5. ASSUME NEW o \in Shutdowns, ShutdownQuiet(o) PROVE UNCHANGED store
  BY <1>5, Zenon DEF ShutdownQuiet, CloseStopChannel, StopPolling, Expire, ReadPending, ReadRunning, Abort, ListPending,
     ListRunning, InflightFailed, CloseTaskQueue, WorkersDone, LoopDone, LoopTimeout, Exit
<1>6. CASE UNCHANGED vars
  BY <1>6 DEF vars
<1> QED
  BY <1>2, <1>3, <1>4, <1>5, <1>6, Zenon DEF Next, ShutdownNext, ShutdownQuiet

(* A watcher's shutdown is clean, whatever the numbers of tasks, workers,  *)
(* requests and failures: at most one task is left out when the queue is   *)
(* closed for a count of zero, and with every call answered a request that *)
(* is told "stopped" leaves no task claimed and the store at rest.         *)
THEOREM StopIsCleanAlways == Spec => StopIsClean
<1>1. WatcherInv => AtMostOneStraggler /\ StoppedMeansFinalized
  BY OneStraggler, StoppedIsFinal
<1>2. WatcherInv /\ [Next]_vars =>
        [(\E s \in Shutdowns : sd[s].pc = "stopped") /\ faults = 0 => UNCHANGED store]_vars
  BY RestsStep
<1> QED
  BY <1>1, <1>2, WatcherInvAlways, PTL DEF Spec, StopIsClean, StoreRestsAfterStopped
=============================================================================
