------------------------------ MODULE MCWatcher ------------------------------
(* Watcher on a small instance, in two mixes.                             *)
EXTENDS Watcher, TLC

CONSTANTS t1, t2, t3, w1, w2, s1, s2

RetryFirst == [t \in Tasks |-> IF t = t1 THEN 1 ELSE 0]

WorkerSymmetry == Permutations(Workers)

(* Two tasks, two workers and the shutdowns, with no call that fails ...  *)
Stopping == faults = 0 /\ status[t3] = "pending"

(* ... or a third task, which finds the queue full, and one call that     *)
(* fails, with one worker that comes to its tasks and before a shutdown.  *)
Crowded ==
  /\ \A s \in Shutdowns : sd[s].pc = "none"
  /\ Cardinality({w \in Workers : at[w] # "receive"}) <= 1

OneMix == Stopping \/ Crowded
=============================================================================
