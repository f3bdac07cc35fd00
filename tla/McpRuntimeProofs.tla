--------------------------- MODULE McpRuntimeProofs ---------------------------
(* Proofs about McpRuntime, for any number of requests in flight, of processes *)
(* and of operations.                                                          *)
(*                                                                             *)
(* Calls are protected because a process is in one place only: in the table,   *)
(* where calls can acquire it, or in the hands of the thread that installs or  *)
(* kills it, where nobody uses it (OnePlace).  The registry agrees with the    *)
(* table after requests that did not overlap because of what the one thread    *)
(* under way will still write (SoloInv).                                       *)
EXTENDS McpRuntime, TLAPS, FiniteSetTheorems

Label == {"rest", "registry", "look up", "running", "spawn", "install", "start", "stop",
          "kill", "persist", "is running", "acquire", "call"}
Then == {"rest", "spawn", "start", "persist", "acquire"}
Operation == {"none", "start", "stop", "restart", "invoke", "disable", "enable", "sweep"}
State == {"stopped", "stopped_auto", "starting", "idle", "active"}
Used == {"never", "fresh", "old"}
Entry == [state : State, active : BOOLEAN, enabled : BOOLEAN, used : Used]

(* A registry call: a field and its value.                                     *)
RegCall == ({"state"} \X State) \cup ({"active", "enabled"} \X BOOLEAN) \cup ({"used"} \X Used)

ThreadType == [op : Operation, at : Label, proc : 0..MaxProcs, calls : Seq(RegCall),
               then : Then, before : Entry \cup {<<>>}]

(* Where a thread is, or goes on when it is done with the registry.            *)
Goal(th) == IF th.at = "registry" THEN th.then ELSE th.at

ThreadOK(th) ==
    /\ th \in ThreadType
    /\ th.at = "registry" <=> th.calls # <<>>
    /\ th.op \in {"disable", "enable"} \/ Goal(th) = "persist" => th.before \in Entry

McpTypeOK ==
    /\ entry \in Entry
    /\ table \in 0..MaxProcs /\ spawned \in 0..MaxProcs
    /\ procs \in [Proc -> [life : {"none", "running", "killed"}, inUse : Nat]]
    /\ threads \in [Thread -> ThreadType]
    /\ \A t \in Thread : ThreadOK(threads[t])
    /\ overlapped \in BOOLEAN

(* A process that somebody installs or kills is not in the table and not in    *)
(* use, and one that is installed is in nobody else's hands.                   *)
OnePlace ==
    \A t \in Thread : threads[t].at \in {"install", "kill"} =>
        /\ threads[t].proc # table /\ Users(threads[t].proc) = {}
        /\ threads[t].at = "install" =>
             \A u \in Thread \ {t} : threads[u].at \in {"install", "kill"} =>
                                        threads[u].proc # threads[t].proc

(* Processes are numbered as they are spawned.                                 *)
OnlySpawned ==
    /\ table <= spawned
    /\ \A t \in Thread : threads[t].proc <= spawned
    /\ \A t \in Thread : threads[t].at \in {"running", "install", "kill", "call"} =>
                            threads[t].proc # 0
    /\ \A p \in Proc : p > spawned => procs[p].life = "none"

(* What can be acquired, now or once it is installed, runs.                    *)
NotKilled ==
    /\ table # 0 => procs[table].life # "killed"
    /\ \A t \in Thread : threads[t].at = "install" => procs[threads[t].proc].life # "killed"

ProcsInv ==
    /\ McpTypeOK /\ OnePlace /\ OnlySpawned /\ NotKilled
    /\ CallsAreProtected /\ NoLostProcess

-------------------------------------------------------------------------------
(* Field f of the registry's record e is v once these calls have been made.    *)
Becomes(e, calls, f, v) ==
    \/ e[f] = v /\ \A i \in 1..Len(calls) : calls[i][1] # f
    \/ \E i \in 1..Len(calls) :
          /\ calls[i][1] = f /\ calls[i][2] = v
          /\ \A j \in (i + 1)..Len(calls) : calls[j][1] # f

(* The record will agree with the table, which holds p.                        *)
Agrees(calls, e, p) ==
    /\ p # 0 => /\ Becomes(e, calls, "active", TRUE) /\ Becomes(e, calls, "enabled", TRUE)
                /\ \E s \in {"active", "idle"} : Becomes(e, calls, "state", s)
    /\ p = 0 => /\ Becomes(e, calls, "active", FALSE)
                /\ \E s \in State \ {"active", "idle"} : Becomes(e, calls, "state", s)

(* The record b that a request kept can be put back.                           *)
Restorable(b, p) ==
    /\ b \in Entry
    /\ b.active <=> b.state \in {"active", "idle"}
    /\ b.active => b.enabled
    /\ p # 0 => b.active

(* What a thread that runs alone leads to, from record e and process p in the  *)
(* table.                                                                      *)
Solo(th, e, p) ==
    /\ Goal(th) \in {"rest", "stop", "running", "acquire", "call", "persist", "is running"}
         => Agrees(th.calls, e, p)
    /\ Goal(th) \in {"look up", "start", "spawn", "install", "is running"}
         => Becomes(e, th.calls, "enabled", TRUE)
    /\ Goal(th) \in {"look up", "start"} => p = 0 \/ Agrees(th.calls, e, p)
    /\ Goal(th) \in {"spawn", "install", "kill"} => p = 0
    /\ Goal(th) \in {"acquire", "call", "running"} => p # 0
    /\ th.op \in {"restart", "invoke"} => Becomes(e, th.calls, "enabled", TRUE)
    /\ Goal(th) = "persist" \/ (th.op = "disable" /\ Goal(th) \in {"stop", "kill"})
         => Restorable(th.before, p)

SoloInv ==
    ~overlapped =>
        \E t \in Thread : /\ Solo(threads[t], entry, table)
                          /\ \A u \in Thread \ {t} : threads[u] = Resting

-------------------------------------------------------------------------------
(* The calls of the registry are calls.                                        *)
LEMMA CallTypes ==
    /\ \A s \in State : SetState(s) \in RegCall
    /\ \A b \in BOOLEAN : SetActive(b) \in RegCall /\ <<"enabled", b>> \in RegCall
    /\ Touch \in RegCall
    /\ \A u \in Used : <<"used", u>> \in RegCall
BY DEF RegCall, SetState, SetActive, Touch, State, Used

(* A thread that goes on with registry calls has let go of its process.        *)
LEMMA RegisteringOK ==
    ASSUME McpTypeOK, NEW t \in Thread, NEW calls \in Seq(RegCall), calls # <<>>,
           NEW then \in Then, then = "persist" => threads[t].op = "disable"
    PROVE  LET r == Registering(t, calls, then) IN
           /\ ThreadOK(r)
           /\ r.at = "registry" /\ r.proc = 0 /\ r.calls = calls /\ r.then = then
           /\ r.op = threads[t].op /\ r.before = threads[t].before
<1> DEFINE r == Registering(t, calls, then)
<1>1. /\ threads[t] \in ThreadType /\ 0 \in 0..MaxProcs
      /\ threads[t].op \in {"disable", "enable"} => threads[t].before \in Entry
  BY McpAssumption DEF McpTypeOK, ThreadOK
<1>2. "registry" \in Label
  BY Zenon DEF Label
<1>3. r = [threads[t] EXCEPT !.at = "registry", !.calls = calls, !.then = then, !.proc = 0]
  BY DEF Registering
<1> HIDE DEF r
<1>4. /\ r.at = "registry" /\ r.proc = 0 /\ r.calls = calls /\ r.then = then
      /\ r.op = threads[t].op /\ r.before = threads[t].before /\ r \in ThreadType
  BY <1>1, <1>2, <1>3, Zenon DEF ThreadType
<1> QED BY <1>1, <1>4 DEF ThreadOK, Goal, r

(* A thread at rest is a thread.                                               *)
LEMMA RestingOK == ThreadOK(Resting)
BY McpAssumption DEF ThreadOK, ThreadType, Resting, Label, Then, Operation, Goal

(* A thread that goes to another point of its code, with a process.            *)
LEMMA ToOK ==
    ASSUME McpTypeOK, NEW t \in Thread, threads[t].at # "registry",
           NEW label \in Label \ {"registry", "persist"}, NEW p \in 0..MaxProcs
    PROVE  LET r == [To(t, label) EXCEPT !.proc = p] IN
           /\ ThreadOK(r)
           /\ r.at = label /\ r.proc = p /\ r.calls = <<>>
           /\ r.op = threads[t].op /\ r.before = threads[t].before
<1> DEFINE r == [To(t, label) EXCEPT !.proc = p]
<1>1. /\ threads[t] \in ThreadType /\ threads[t].calls = <<>>
      /\ threads[t].op \in {"disable", "enable"} => threads[t].before \in Entry
  BY DEF McpTypeOK, ThreadOK
<1>2. r = [threads[t] EXCEPT !.at = label, !.proc = p]
  BY DEF To
<1> HIDE DEF r
<1>3. /\ r.at = label /\ r.proc = p /\ r.calls = <<>>
      /\ r.op = threads[t].op /\ r.before = threads[t].before /\ r \in ThreadType
  BY <1>1, <1>2, Zenon DEF ThreadType
<1> QED BY <1>1, <1>3 DEF ThreadOK, Goal, r

(* ... or with the process it had.                                             *)
LEMMA ToSame ==
    ASSUME McpTypeOK, NEW t \in Thread, threads[t].at # "registry",
           NEW label \in Label \ {"registry", "persist"}
    PROVE  LET r == To(t, label) IN
           /\ ThreadOK(r)
           /\ r.at = label /\ r.proc = threads[t].proc /\ r.calls = <<>>
           /\ r.op = threads[t].op /\ r.before = threads[t].before
<1> DEFINE r == To(t, label)
<1>1. /\ threads[t] \in ThreadType /\ threads[t].calls = <<>>
      /\ threads[t].op \in {"disable", "enable"} => threads[t].before \in Entry
  BY DEF McpTypeOK, ThreadOK
<1>2. r = [threads[t] EXCEPT !.at = label]
  BY DEF To
<1> HIDE DEF r
<1>3. /\ r.at = label /\ r.proc = threads[t].proc /\ r.calls = <<>>
      /\ r.op = threads[t].op /\ r.before = threads[t].before /\ r \in ThreadType
  BY <1>1, <1>2 DEF ThreadType
<1> QED BY <1>1, <1>3 DEF ThreadOK, Goal, r

(* A step of one thread that takes or releases no process.                     *)
LEMMA ThreadMoves ==
    ASSUME ProcsInv, NEW t \in Thread, NEW r, ThreadOK(r), Goes(t, r),
           r.proc <= spawned, r.at = "running" => r.proc # 0,
           r.at \notin {"install", "kill", "call"},
           threads[t].at \notin {"install", "kill", "call"},
           UNCHANGED <<table, procs, spawned, orphans>>,
           entry' \in Entry, overlapped' \in BOOLEAN
    PROVE  ProcsInv'
<1>1. threads' = [threads EXCEPT ![t] = r] /\ r \in ThreadType
  BY DEF Goes, ThreadOK
<1>2. \A u \in Thread : threads'[u] = IF u = t THEN r ELSE threads[u]
  BY <1>1 DEF ProcsInv, McpTypeOK
<1>3. McpTypeOK'
  BY <1>1, <1>2 DEF ProcsInv, McpTypeOK
<1>4. \A p : Users(p)' = Users(p)
  BY <1>2 DEF Users
<1>5. OnePlace'
  BY <1>2, <1>4 DEF ProcsInv, OnePlace
<1>6. OnlySpawned' /\ NotKilled'
  BY <1>2 DEF ProcsInv, OnlySpawned, NotKilled
<1>7. CallsAreProtected'
  BY <1>4 DEF ProcsInv, CallsAreProtected
<1>8. NoLostProcess'
  BY <1>2 DEF ProcsInv, NoLostProcess
<1> QED BY <1>3, <1>5, <1>6, <1>7, <1>8 DEF ProcsInv

(* The calls that follow a start and a disable.                                *)
LEMMA CallLists ==
    /\ Activate \in Seq(RegCall) /\ Disable \in Seq(RegCall)
    /\ \A s \in State, b \in BOOLEAN :
         /\ <<SetState(s), SetActive(b)>> \in Seq(RegCall)
         /\ <<SetState(s), SetActive(b), Touch>> \in Seq(RegCall)
         /\ <<SetState(s), Touch>> \in Seq(RegCall)
    /\ \A b \in BOOLEAN : << <<"enabled", b>> >> \in Seq(RegCall)
<1>1. "active" \in State
  BY DEF State
<1>2. \A a, b, c \in RegCall :
        <<a>> \in Seq(RegCall) /\ <<a, b>> \in Seq(RegCall) /\ <<a, b, c>> \in Seq(RegCall)
  OBVIOUS
<1>3. Activate \in Seq(RegCall)
  BY <1>1, <1>2, CallTypes, Zenon DEF Activate
<1>4. Disable \in Seq(RegCall)
  <2>1. FALSE \in BOOLEAN
    OBVIOUS
  <2> QED BY <2>1, <1>2, CallTypes, Zenon DEF Disable
<1>5. \A s \in State, b \in BOOLEAN :
        /\ <<SetState(s), SetActive(b)>> \in Seq(RegCall)
        /\ <<SetState(s), SetActive(b), Touch>> \in Seq(RegCall)
        /\ <<SetState(s), Touch>> \in Seq(RegCall)
  BY <1>2, CallTypes, Zenon
<1>6. \A b \in BOOLEAN : << <<"enabled", b>> >> \in Seq(RegCall)
  BY <1>2, CallTypes, Zenon
<1> QED BY <1>3, <1>4, <1>5, <1>6

LEMMA LongerList ==
    ASSUME NEW S, NEW a \in Seq(S), a # <<>>, NEW b \in Seq(S)
    PROVE  a \o b \in Seq(S) /\ a \o b # <<>>
OBVIOUS

(* Where a request goes on after Start and after Stop.                         *)
LEMMA AfterStartOK ==
    ASSUME McpTypeOK, NEW t \in Thread, NEW calls \in Seq(RegCall), calls # <<>>
    PROVE  LET r == AfterStart(t, calls) IN
           /\ ThreadOK(r) /\ r.at = "registry" /\ r.proc = 0
           /\ r.op = threads[t].op /\ r.before = threads[t].before
           /\ IF r.op = "invoke" THEN r.calls = calls \o Activate /\ r.then = "acquire"
                                ELSE r.calls = calls /\ r.then = "rest"
<1> DEFINE all == calls \o Activate
<1>1. all \in Seq(RegCall) /\ all # <<>>
  BY CallLists, LongerList
<1>2. {"acquire", "rest"} \subseteq Then
  BY DEF Then
<1>3. CASE threads[t].op = "invoke"
  <2>1. AfterStart(t, calls) = Registering(t, all, "acquire")
    BY <1>3 DEF AfterStart
  <2> HIDE DEF all
  <2>2. LET r == AfterStart(t, calls) IN
        /\ ThreadOK(r) /\ r.at = "registry" /\ r.proc = 0 /\ r.calls = all /\ r.then = "acquire"
        /\ r.op = threads[t].op /\ r.before = threads[t].before
    BY <1>1, <1>2, <2>1, RegisteringOK
  <2> QED BY <1>3, <2>2 DEF all
<1>4. CASE threads[t].op # "invoke"
  <2>1. AfterStart(t, calls) = Registering(t, calls, "rest")
    BY <1>4 DEF AfterStart
  <2> QED BY <1>2, <1>4, <2>1, RegisteringOK
<1> QED BY <1>3, <1>4

LEMMA AfterStopOK ==
    ASSUME McpTypeOK, NEW t \in Thread, NEW calls \in Seq(RegCall), calls # <<>>
    PROVE  LET r == AfterStop(t, calls) IN
           /\ ThreadOK(r) /\ r.at = "registry" /\ r.proc = 0
           /\ r.op = threads[t].op /\ r.before = threads[t].before
           /\ r.op = "disable" => r.calls = calls \o Disable /\ r.then = "persist"
           /\ r.op # "disable" =>
                r.calls = calls /\ r.then = IF r.op = "restart" THEN "start" ELSE "rest"
<1> DEFINE all == calls \o Disable
<1>1. all \in Seq(RegCall) /\ all # <<>>
  BY CallLists, LongerList
<1>2. {"start", "persist", "rest"} \subseteq Then
  BY DEF Then
<1>3. CASE threads[t].op = "restart"
  BY <1>2, <1>3, RegisteringOK DEF AfterStop
<1>4. CASE threads[t].op = "disable"
  <2>1. AfterStop(t, calls) = Registering(t, all, "persist")
    BY <1>4 DEF AfterStop
  <2> HIDE DEF all
  <2>2. LET r == AfterStop(t, calls) IN
        /\ ThreadOK(r) /\ r.at = "registry" /\ r.proc = 0 /\ r.calls = all /\ r.then = "persist"
        /\ r.op = threads[t].op /\ r.before = threads[t].before
    BY <1>1, <1>2, <1>4, <2>1, RegisteringOK
  <2> QED BY <1>4, <2>2 DEF all
<1>5. CASE threads[t].op \notin {"restart", "disable"}
  BY <1>2, <1>5, RegisteringOK DEF AfterStop
<1> QED BY <1>3, <1>4, <1>5

(* A registry call writes a field of the record.                               *)
LEMMA EntryUpdate ==
    ASSUME NEW e \in Entry, NEW c \in RegCall
    PROVE  /\ [e EXCEPT ![c[1]] = c[2]] \in Entry
           /\ \A f \in {"state", "active", "enabled", "used"} :
                [e EXCEPT ![c[1]] = c[2]][f] = IF f = c[1] THEN c[2] ELSE e[f]
<1>1. CASE c \in {"state"} \X State
  BY <1>1 DEF Entry
<1>2. CASE c \in {"active", "enabled"} \X BOOLEAN
  BY <1>2 DEF Entry
<1>3. CASE c \in {"used"} \X Used
  BY <1>3 DEF Entry
<1> QED BY <1>1, <1>2, <1>3 DEF RegCall

(* The thread after a registry call: one call fewer to make.                   *)
LEMMA RegistryThread ==
    ASSUME McpTypeOK, NEW t \in Thread, Registry(t)
    PROVE  /\ threads[t].calls \in Seq(RegCall) /\ threads[t].calls # <<>>
           /\ threads[t].then \in Then
           /\ entry' = [entry EXCEPT ![Head(threads[t].calls)[1]] = Head(threads[t].calls)[2]]
           /\ entry' \in Entry
           /\ \E r : /\ Goes(t, r) /\ ThreadOK(r) /\ r.calls = Tail(threads[t].calls)
                     /\ r.proc \in {0, threads[t].proc}
                     /\ \/ r.at = "registry" /\ r.then = threads[t].then
                        \/ r.at = threads[t].then /\ r.calls = <<>>
                     /\ IF r.at = "rest" THEN r = Resting
                        ELSE r.op = threads[t].op /\ r.before = threads[t].before
<1> DEFINE th == threads[t]
           rest == Tail(th.calls)
           r == IF rest # <<>> THEN [th EXCEPT !.calls = rest]
                ELSE IF th.then = "rest" THEN Resting
                ELSE [th EXCEPT !.at = th.then, !.calls = <<>>]
<1>1. /\ th \in ThreadType /\ th.at = "registry" /\ th.calls # <<>>
      /\ th.op \in {"disable", "enable"} \/ th.then = "persist" => th.before \in Entry
  BY DEF McpTypeOK, ThreadOK, Goal, Registry
<1>2. th.calls \in Seq(RegCall) /\ th.then \in Then /\ th.then # "registry"
  BY <1>1 DEF ThreadType, Then
<1>3. Head(th.calls) \in RegCall /\ rest \in Seq(RegCall)
  BY <1>1, <1>2
<1>4. /\ entry' = [entry EXCEPT ![Head(th.calls)[1]] = Head(th.calls)[2]]
      /\ Goes(t, r)
  BY DEF Registry
<1>5. entry' \in Entry
  BY <1>3, <1>4, EntryUpdate, Zenon DEF McpTypeOK
<1> HIDE DEF th, rest
<1>6. CASE rest # <<>>
  <2>1. /\ r = [th EXCEPT !.calls = rest] /\ r \in ThreadType
        /\ r.calls = rest /\ r.at = "registry" /\ r.then = th.then /\ r.proc = th.proc
        /\ r.op = th.op /\ r.before = th.before
    BY <1>1, <1>3, <1>6 DEF ThreadType
  <2> HIDE DEF r
  <2>2. ThreadOK(r)
    BY <1>1, <1>6, <2>1 DEF ThreadOK, Goal
  <2> QED BY <1>1, <1>2, <1>4, <1>5, <2>1, <2>2, Zenon DEF th, rest
<1>7. CASE rest = <<>> /\ th.then = "rest"
  <2>1. r = Resting /\ r.calls = <<>> /\ r.proc = 0 /\ r.at = "rest"
    BY <1>7 DEF Resting
  <2> HIDE DEF r
  <2> QED BY <1>1, <1>2, <1>4, <1>5, <1>7, <2>1, RestingOK, Zenon DEF th, rest
<1>8. CASE rest = <<>> /\ th.then # "rest"
  <2>0. th.then \in Label
    BY <1>2, Zenon DEF Label, Then
  <2>1. /\ r = [th EXCEPT !.at = th.then, !.calls = <<>>] /\ r \in ThreadType
        /\ r.calls = rest /\ r.at = th.then /\ r.proc = th.proc
        /\ r.op = th.op /\ r.before = th.before
    BY <1>1, <1>2, <1>3, <1>8, <2>0, Zenon DEF ThreadType
  <2> HIDE DEF r
  <2>2. ThreadOK(r)
    BY <1>1, <1>2, <1>8, <2>1 DEF ThreadOK, Goal
  <2> QED BY <1>1, <1>2, <1>4, <1>5, <1>8, <2>1, <2>2, Zenon DEF th, rest
<1> QED BY <1>6, <1>7, <1>8

-------------------------------------------------------------------------------
(* The threads are finitely many, so the calls on a process can be counted.    *)
LEMMA UsersFinite == \A p : IsFiniteSet(Users(p))
<1>1. IsFiniteSet(Thread)
  BY McpAssumption, FS_AddElement DEF Thread
<1> QED BY <1>1, FS_Subset DEF Users

(* The processes in the table and in the hands of threads are processes.      *)
LEMMA ProcNumbers ==
    ASSUME ProcsInv
    PROVE  /\ table # 0 => table \in Proc
           /\ \A u \in Thread : threads[u].at \in {"running", "install", "kill", "call"} =>
                                 threads[u].proc \in Proc
<1>1. \A u \in Thread : threads[u].proc \in 0..MaxProcs
  BY DEF ProcsInv, McpTypeOK, ThreadType
<1> QED BY <1>1, McpAssumption DEF ProcsInv, McpTypeOK, OnlySpawned, Proc

(* The thread of a step, and the others.                                       *)
LEMMA OnlyThread ==
    ASSUME McpTypeOK, NEW t \in Thread, NEW r, ThreadOK(r), Goes(t, r)
    PROVE  /\ threads' \in [Thread -> ThreadType]
           /\ \A u \in Thread : threads'[u] = IF u = t THEN r ELSE threads[u]
           /\ \A u \in Thread : ThreadOK(threads'[u])
<1>1. threads' = [threads EXCEPT ![t] = r] /\ r \in ThreadType
  BY DEF Goes, ThreadOK
<1> QED BY <1>1 DEF McpTypeOK

(* A process that is spawned has a number of its own.                          *)
LEMMA SpawnKeepsProcs ==
    ASSUME ProcsInv, NEW t \in Thread, Spawn(t)
    PROVE  ProcsInv'
<1> USE McpAssumption
<1> DEFINE n == spawned + 1
           r == [To(t, "install") EXCEPT !.proc = n]
<1>1. /\ n \in Proc /\ n \in 0..MaxProcs /\ spawned' = n /\ Goes(t, r)
      /\ UNCHANGED <<entry, table, orphans, overlapped>> /\ threads[t].at = "spawn"
  BY DEF Spawn, ProcsInv, McpTypeOK, Proc
<1>2. "install" \in Label \ {"registry", "persist"}
  BY DEF Label
<1>3. ThreadOK(r) /\ r.at = "install" /\ r.proc = n
  BY <1>1, <1>2, ToOK DEF ProcsInv
<1> HIDE DEF r
<1>4. /\ threads' \in [Thread -> ThreadType] /\ \A u \in Thread : ThreadOK(threads'[u])
      /\ \A u \in Thread : threads'[u] = IF u = t THEN r ELSE threads[u]
  BY <1>1, <1>3, OnlyThread DEF ProcsInv
<1>5. /\ procs' \in [Proc -> [life : {"none", "running", "killed"}, inUse : Nat]]
      /\ \A p \in Proc : /\ procs'[p].inUse = procs[p].inUse
                         /\ procs'[p].life = IF p = n THEN "running" ELSE procs[p].life
  BY <1>1 DEF Spawn, ProcsInv, McpTypeOK
<1>6. McpTypeOK'
  BY <1>1, <1>4, <1>5 DEF ProcsInv, McpTypeOK
<1>7. \A p : Users(p)' = Users(p)
  BY <1>1, <1>3, <1>4 DEF Users
<1>8. /\ table # n /\ n > spawned /\ n # 0 /\ Users(n) = {}
      /\ \A u \in Thread : threads[u].proc # n /\ threads[u].proc <= n
  BY DEF ProcsInv, McpTypeOK, OnlySpawned, Users, ThreadType
<1>9. OnePlace'
  BY <1>1, <1>3, <1>4, <1>7, <1>8 DEF ProcsInv, OnePlace
<1>10. OnlySpawned'
  <2>1. table' <= spawned' /\ \A p \in Proc : p > spawned' => procs'[p].life = "none"
    BY <1>1, <1>5 DEF ProcsInv, McpTypeOK, OnlySpawned, Proc
  <2> QED BY <1>1, <1>3, <1>4, <1>8, <2>1 DEF ProcsInv, OnlySpawned
<1>11. NotKilled'
  BY <1>1, <1>3, <1>4, <1>5, ProcNumbers DEF ProcsInv, NotKilled
<1>13. CallsAreProtected'
  BY <1>1, <1>5, <1>7 DEF ProcsInv, CallsAreProtected
<1>12. NoLostProcess'
  BY <1>1, <1>3, <1>4, <1>5 DEF ProcsInv, NoLostProcess
<1> QED BY <1>6, <1>9, <1>10, <1>11, <1>12, <1>13 DEF ProcsInv

(* The process that is installed replaces the one in the table.                *)
LEMMA InstallKeepsProcs ==
    ASSUME ProcsInv, NEW t \in Thread, Install(t)
    PROVE  ProcsInv'
<1> USE McpAssumption
<1> DEFINE p0 == threads[t].proc
           calls == <<SetState("idle"), SetActive(TRUE), Touch>>
           r == AfterStart(t, calls)
<1>1. /\ table' = p0 /\ Goes(t, r) /\ threads[t].at = "install"
      /\ orphans' = (IF table = 0 THEN orphans ELSE orphans \cup {table})
      /\ UNCHANGED <<entry, procs, spawned, overlapped>>
  BY DEF Install
<1>2. calls \in Seq(RegCall) /\ calls # <<>>
  <2>1. "idle" \in State /\ TRUE \in BOOLEAN
    BY DEF State
  <2>2. calls \in Seq(RegCall)
    BY <2>1, CallLists, Zenon
  <2> QED BY <2>2, Zenon
<1> HIDE DEF calls
<1>3. ThreadOK(r) /\ r.at = "registry" /\ r.proc = 0
  BY <1>2, AfterStartOK DEF ProcsInv
<1> HIDE DEF r
<1>4. /\ threads' \in [Thread -> ThreadType] /\ \A u \in Thread : ThreadOK(threads'[u])
      /\ \A u \in Thread : threads'[u] = IF u = t THEN r ELSE threads[u]
  BY <1>1, <1>3, OnlyThread DEF ProcsInv
<1>5. p0 \in 0..MaxProcs /\ p0 # 0 /\ p0 # table /\ p0 <= spawned
  BY <1>1 DEF ProcsInv, McpTypeOK, OnePlace, OnlySpawned, ThreadType
<1>6. McpTypeOK'
  BY <1>1, <1>4, <1>5 DEF ProcsInv, McpTypeOK
<1>7. \A p : Users(p)' = Users(p)
  BY <1>1, <1>3, <1>4 DEF Users
<1>8. OnePlace'
  BY <1>1, <1>3, <1>4, <1>7 DEF ProcsInv, OnePlace
<1>9. OnlySpawned'
  BY <1>1, <1>3, <1>4, <1>5 DEF ProcsInv, McpTypeOK, OnlySpawned
<1>10. NotKilled'
  BY <1>1, <1>3, <1>4 DEF ProcsInv, NotKilled
<1>11. CallsAreProtected'
  BY <1>1, <1>7 DEF ProcsInv, CallsAreProtected
<1>12. NoLostProcess'
  <2> SUFFICES ASSUME NEW p \in Proc, procs[p].life = "running"
               PROVE  \/ table' = p \/ p \in orphans'
                      \/ \E u \in Thread : /\ threads'[u].at \in {"install", "kill"}
                                            /\ threads'[u].proc = p
    BY <1>1 DEF NoLostProcess
  <2>1. \/ table = p \/ p \in orphans
        \/ \E u \in Thread : threads[u].at \in {"install", "kill"} /\ threads[u].proc = p
    BY DEF ProcsInv, NoLostProcess
  <2>2. table = p => p \in orphans'
    BY <1>1 DEF Proc
  <2> QED BY <1>1, <1>4, <2>1, <2>2
<1> QED BY <1>6, <1>8, <1>9, <1>10, <1>11, <1>12 DEF ProcsInv

(* Stop takes a process that no call uses out of the table.                    *)
LEMMA StopTakesKeepsProcs ==
    ASSUME ProcsInv, NEW t \in Thread, threads[t].at = "stop", table # 0,
           procs[table].inUse = 0, StopTakes(t),
           UNCHANGED <<entry, procs, spawned, orphans, overlapped>>
    PROVE  ProcsInv'
<1> USE McpAssumption
<1> DEFINE r == [To(t, "kill") EXCEPT !.proc = table]
<1>1. table' = 0 /\ Goes(t, r) /\ table \in Proc /\ table \in 0..MaxProcs
  BY ProcNumbers DEF StopTakes, ProcsInv, McpTypeOK
<1>2. "kill" \in Label \ {"registry", "persist"}
  BY DEF Label
<1>3. ThreadOK(r) /\ r.at = "kill" /\ r.proc = table
  BY <1>1, <1>2, ToOK DEF ProcsInv
<1> HIDE DEF r
<1>4. /\ threads' \in [Thread -> ThreadType] /\ \A u \in Thread : ThreadOK(threads'[u])
      /\ \A u \in Thread : threads'[u] = IF u = t THEN r ELSE threads[u]
  BY <1>1, <1>3, OnlyThread DEF ProcsInv
<1>5. McpTypeOK'
  BY <1>1, <1>4 DEF ProcsInv, McpTypeOK
<1>6. \A p : Users(p)' = Users(p)
  BY <1>3, <1>4 DEF Users
<1>7. Users(table) = {}
  BY <1>1, UsersFinite, FS_EmptySet DEF ProcsInv, CallsAreProtected
<1>8. OnePlace'
  <2> SUFFICES ASSUME NEW u \in Thread, threads'[u].at \in {"install", "kill"}
               PROVE  /\ threads'[u].proc # 0 /\ Users(threads'[u].proc) = {}
                      /\ threads'[u].at = "install" =>
                           \A v \in Thread \ {u} : threads'[v].at \in {"install", "kill"} =>
                                                      threads'[v].proc # threads'[u].proc
    BY <1>1, <1>6 DEF OnePlace
  <2>1. CASE u = t
    BY <1>3, <1>4, <1>7, <2>1
  <2>2. CASE u # t
    BY <1>3, <1>4, <2>2 DEF ProcsInv, OnePlace, OnlySpawned
  <2> QED BY <2>1, <2>2
<1>9. OnlySpawned'
  BY <1>1, <1>3, <1>4 DEF ProcsInv, McpTypeOK, OnlySpawned
<1>10. NotKilled' /\ CallsAreProtected'
  BY <1>1, <1>3, <1>4, <1>6 DEF ProcsInv, NotKilled, CallsAreProtected
<1>11. NoLostProcess'
  BY <1>1, <1>3, <1>4 DEF ProcsInv, NoLostProcess
<1> QED BY <1>5, <1>8, <1>9, <1>10, <1>11 DEF ProcsInv

(* Only a process that is out of the table and out of use is killed.           *)
LEMMA KillKeepsProcs ==
    ASSUME ProcsInv, NEW t \in Thread, KillProcess(t)
    PROVE  ProcsInv'
<1> USE McpAssumption
<1> DEFINE p0 == threads[t].proc
           calls == <<SetState(Stopped(t)), SetActive(FALSE), Touch>>
           r == AfterStop(t, calls)
<1>1. /\ threads[t].at = "kill" /\ Goes(t, r) /\ procs' = [procs EXCEPT ![p0].life = "killed"]
      /\ UNCHANGED <<entry, table, spawned, orphans, overlapped>>
  BY DEF KillProcess
<1>2. calls \in Seq(RegCall) /\ calls # <<>>
  <2>1. Stopped(t) \in State /\ FALSE \in BOOLEAN
    BY DEF State, Stopped
  <2>2. calls \in Seq(RegCall)
    BY <2>1, CallLists, Zenon
  <2> QED BY <2>2, Zenon
<1> HIDE DEF calls
<1>3. ThreadOK(r) /\ r.at = "registry" /\ r.proc = 0
  BY <1>2, AfterStopOK DEF ProcsInv
<1> HIDE DEF r
<1>4. /\ threads' \in [Thread -> ThreadType] /\ \A u \in Thread : ThreadOK(threads'[u])
      /\ \A u \in Thread : threads'[u] = IF u = t THEN r ELSE threads[u]
  BY <1>1, <1>3, OnlyThread DEF ProcsInv
<1>5. p0 \in Proc /\ p0 <= spawned /\ p0 # table /\ Users(p0) = {}
  BY <1>1, ProcNumbers DEF ProcsInv, OnePlace, OnlySpawned
<1>6. /\ procs' \in [Proc -> [life : {"none", "running", "killed"}, inUse : Nat]]
      /\ \A p \in Proc : /\ procs'[p].inUse = procs[p].inUse
                         /\ procs'[p].life = IF p = p0 THEN "killed" ELSE procs[p].life
  BY <1>1, <1>5 DEF ProcsInv, McpTypeOK
<1> HIDE DEF p0
<1>7. McpTypeOK'
  BY <1>1, <1>4, <1>6 DEF ProcsInv, McpTypeOK
<1>8. \A p : Users(p)' = Users(p)
  BY <1>1, <1>3, <1>4 DEF Users
<1>9. OnePlace'
  BY <1>1, <1>3, <1>4, <1>8 DEF ProcsInv, OnePlace
<1>10. OnlySpawned'
  <2>1. \A p \in Proc : p > spawned' => procs'[p].life = "none"
    BY <1>1, <1>5, <1>6 DEF ProcsInv, McpTypeOK, OnlySpawned, Proc
  <2> QED BY <1>1, <1>3, <1>4, <2>1 DEF ProcsInv, McpTypeOK, OnlySpawned
<1>11. NotKilled'
  <2>1. \A u \in Thread \ {t} : threads[u].at = "install" => threads[u].proc # p0
    BY <1>1 DEF ProcsInv, OnePlace, p0
  <2> QED BY <1>1, <1>3, <1>4, <1>5, <1>6, <2>1, ProcNumbers DEF ProcsInv, NotKilled
<1>12. CallsAreProtected'
  BY <1>5, <1>6, <1>8 DEF ProcsInv, CallsAreProtected
<1>13. NoLostProcess'
  <2>1. \A u \in Thread, p \in Proc : threads[u].proc = p /\ p # p0 => u # t
    BY DEF p0
  <2> QED BY <1>1, <1>4, <1>6, <2>1 DEF ProcsInv, NoLostProcess
<1> QED BY <1>7, <1>9, <1>10, <1>11, <1>12, <1>13 DEF ProcsInv

(* A call that acquires the process of the table is counted.                   *)
LEMMA AcquireKeepsProcs ==
    ASSUME ProcsInv, NEW t \in Thread, acquireProcess(t), table # 0
    PROVE  ProcsInv'
<1> USE McpAssumption
<1> DEFINE r == [To(t, "call") EXCEPT !.proc = table]
<1>1. /\ threads[t].at = "acquire" /\ Goes(t, r)
      /\ procs' = [procs EXCEPT ![table].inUse = @ + 1]
      /\ table \in Proc /\ table \in 0..MaxProcs
      /\ UNCHANGED <<entry, table, spawned, orphans, overlapped>>
  BY ProcNumbers DEF acquireProcess, ProcsInv, McpTypeOK
<1>2. "call" \in Label \ {"registry", "persist"}
  BY DEF Label
<1>3. ThreadOK(r) /\ r.at = "call" /\ r.proc = table
  BY <1>1, <1>2, ToOK DEF ProcsInv
<1> HIDE DEF r
<1>4. /\ threads' \in [Thread -> ThreadType] /\ \A u \in Thread : ThreadOK(threads'[u])
      /\ \A u \in Thread : threads'[u] = IF u = t THEN r ELSE threads[u]
  BY <1>1, <1>3, OnlyThread DEF ProcsInv
<1>5. /\ procs' \in [Proc -> [life : {"none", "running", "killed"}, inUse : Nat]]
      /\ \A p \in Proc : /\ procs'[p].life = procs[p].life
                         /\ procs'[p].inUse = IF p = table THEN procs[p].inUse + 1
                                              ELSE procs[p].inUse
  BY <1>1 DEF ProcsInv, McpTypeOK
<1>6. McpTypeOK'
  BY <1>1, <1>4, <1>5 DEF ProcsInv, McpTypeOK
<1>7. \A p : Users(p)' = IF p = table THEN Users(p) \cup {t} ELSE Users(p)
  BY <1>3, <1>4, <1>1 DEF Users
<1>8. OnePlace'
  BY <1>1, <1>3, <1>4, <1>7 DEF ProcsInv, OnePlace
<1>9. OnlySpawned' /\ NotKilled'
  BY <1>1, <1>3, <1>4, <1>5, ProcNumbers DEF ProcsInv, OnlySpawned, NotKilled
<1>10. CallsAreProtected'
  <2>1. t \notin Users(table)
    BY <1>1 DEF Users
  <2>2. Cardinality(Users(table) \cup {t}) = Cardinality(Users(table)) + 1
    BY <2>1, UsersFinite, FS_AddElement, Zenon
  <2> QED BY <1>1, <1>5, <1>7, <2>2, Zenon DEF ProcsInv, CallsAreProtected, NotKilled
<1>11. NoLostProcess'
  BY <1>1, <1>3, <1>4, <1>5 DEF ProcsInv, NoLostProcess
<1> QED BY <1>6, <1>8, <1>9, <1>10, <1>11 DEF ProcsInv

(* A call that is over is counted off.                                         *)
LEMMA ReleaseThread ==
    ASSUME ProcsInv, NEW t \in Thread, releaseProcess(t)
    PROVE  \E r : /\ Goes(t, r) /\ ThreadOK(r) /\ r.at \in {"rest", "registry"} /\ r.proc = 0
                  /\ r.at = "rest" => r = Resting
                  /\ r.at = "registry" => /\ r.calls = <<SetState("idle"), Touch>>
                                          /\ r.then = "rest" /\ r.op = threads[t].op
<1> DEFINE calls == <<SetState("idle"), Touch>>
           r == Registering(t, calls, "rest")
<1>1. Goes(t, Resting) \/ Goes(t, r)
  BY DEF releaseProcess
<1>2. calls \in Seq(RegCall) /\ calls # <<>>
  <2>1. "idle" \in State /\ TRUE \in BOOLEAN
    BY DEF State
  <2>2. calls \in Seq(RegCall)
    BY <2>1, CallLists, Zenon
  <2> QED BY <2>2
<1> HIDE DEF calls
<1>3. "rest" \in Then
  BY DEF Then
<1>4. /\ ThreadOK(r) /\ r.at = "registry" /\ r.proc = 0 /\ r.calls = calls /\ r.then = "rest"
      /\ r.op = threads[t].op
  BY <1>2, <1>3, RegisteringOK DEF ProcsInv
<1>5. ThreadOK(Resting) /\ Resting.at = "rest" /\ Resting.proc = 0
  BY RestingOK DEF Resting
<1> HIDE DEF r
<1> QED BY <1>1, <1>4, <1>5 DEF calls

LEMMA ReleaseKeepsProcs ==
    ASSUME ProcsInv, NEW t \in Thread, releaseProcess(t)
    PROVE  ProcsInv'
<1> USE McpAssumption
<1> DEFINE p0 == threads[t].proc
<1>1. /\ threads[t].at = "call" /\ procs' = [procs EXCEPT ![p0].inUse = @ - 1]
      /\ UNCHANGED <<entry, table, spawned, orphans, overlapped>>
  BY DEF releaseProcess
<1>2. PICK r : Goes(t, r) /\ ThreadOK(r) /\ r.at \in {"rest", "registry"} /\ r.proc = 0
  BY ReleaseThread
<1>3. /\ threads' \in [Thread -> ThreadType] /\ \A u \in Thread : ThreadOK(threads'[u])
      /\ \A u \in Thread : threads'[u] = IF u = t THEN r ELSE threads[u]
  BY <1>2, OnlyThread DEF ProcsInv
<1>4. p0 \in Proc /\ t \in Users(p0)
  BY <1>1, ProcNumbers DEF Users
<1>5. /\ procs[p0].inUse = Cardinality(Users(p0)) /\ Cardinality(Users(p0)) \in Nat
      /\ Cardinality(Users(p0) \ {t}) = Cardinality(Users(p0)) - 1
      /\ Cardinality(Users(p0) \ {t}) \in Nat
  <2>1. IsFiniteSet(Users(p0)) /\ IsFiniteSet(Users(p0) \ {t})
    BY UsersFinite, FS_Subset
  <2> QED BY <1>4, <2>1, FS_RemoveElement, FS_CardinalityType DEF ProcsInv, CallsAreProtected
<1>6. /\ procs' \in [Proc -> [life : {"none", "running", "killed"}, inUse : Nat]]
      /\ \A p \in Proc : /\ procs'[p].life = procs[p].life
                         /\ procs'[p].inUse = IF p = p0 THEN Cardinality(Users(p0) \ {t})
                                              ELSE procs[p].inUse
  BY <1>1, <1>4, <1>5 DEF ProcsInv, McpTypeOK
<1>7. McpTypeOK'
  BY <1>1, <1>3, <1>6 DEF ProcsInv, McpTypeOK
<1>8. \A p : Users(p)' = IF p = p0 THEN Users(p) \ {t} ELSE Users(p)
  BY <1>1, <1>2, <1>3 DEF Users
<1> HIDE DEF p0
<1>9. OnePlace'
  BY <1>1, <1>2, <1>3, <1>8 DEF ProcsInv, OnePlace
<1>10. OnlySpawned' /\ NotKilled'
  <2>1. 0 <= spawned
    BY DEF ProcsInv, McpTypeOK
  <2> QED BY <1>1, <1>2, <1>3, <1>6, <2>1, ProcNumbers DEF ProcsInv, OnlySpawned, NotKilled
<1>11. CallsAreProtected'
  BY <1>5, <1>6, <1>8, Zenon DEF ProcsInv, CallsAreProtected
<1>12. NoLostProcess'
  BY <1>1, <1>2, <1>3, <1>6 DEF ProcsInv, NoLostProcess
<1> QED BY <1>7, <1>9, <1>10, <1>11, <1>12 DEF ProcsInv

-------------------------------------------------------------------------------
(* The thread after each of the steps that take and release no process.       *)
LEMMA LooksUpThread ==
    ASSUME McpTypeOK, NEW t \in Thread, StartLooksUp(t)
    PROVE  \E r : /\ Goes(t, r) /\ ThreadOK(r)
                  /\ r.op = threads[t].op /\ r.before = threads[t].before
                  /\ table # 0 => r.at = "running" /\ r.proc = table /\ r.calls = <<>>
                  /\ table = 0 => /\ r.at = "registry" /\ r.then = "spawn" /\ r.proc = 0
                                  /\ r.calls = <<SetState("starting"), SetActive(TRUE)>>
<1>1. CASE table # 0
  <2> DEFINE r == [To(t, "running") EXCEPT !.proc = table]
  <2>1. Goes(t, r) /\ threads[t].at # "registry" /\ table \in 0..MaxProcs
    BY <1>1, Zenon DEF StartLooksUp, McpTypeOK
  <2>2. "running" \in Label \ {"registry", "persist"}
    BY DEF Label
  <2>3. /\ ThreadOK(r) /\ r.at = "running" /\ r.proc = table /\ r.calls = <<>>
        /\ r.op = threads[t].op /\ r.before = threads[t].before
    BY <2>1, <2>2, ToOK
  <2> HIDE DEF r
  <2> QED BY <1>1, <2>1, <2>3, Zenon
<1>2. CASE table = 0
  <2> DEFINE calls == <<SetState("starting"), SetActive(TRUE)>>
             r == Registering(t, calls, "spawn")
  <2>1. Goes(t, r)
    BY <1>2, Zenon DEF StartLooksUp
  <2>2. "starting" \in State /\ TRUE \in BOOLEAN /\ "spawn" \in Then
    BY DEF State, Then
  <2>3. calls \in Seq(RegCall)
    BY <2>2, CallLists, Zenon
  <2>4. calls # <<>>
    BY <2>3
  <2> HIDE DEF calls
  <2>5. /\ ThreadOK(r) /\ r.at = "registry" /\ r.proc = 0 /\ r.calls = calls
        /\ r.then = "spawn" /\ r.op = threads[t].op /\ r.before = threads[t].before
    BY <2>2, <2>3, <2>4, RegisteringOK
  <2> HIDE DEF r
  <2> QED BY <1>2, <2>1, <2>5, Zenon DEF calls
<1> QED BY <1>1, <1>2, Zenon

LEMMA FindsRunningThread ==
    ASSUME McpTypeOK, NEW t \in Thread, StartFindsRunning(t)
    PROVE  \E s \in {"active", "idle"} :
              LET calls == <<SetState(s), SetActive(TRUE), Touch>>
                  r == AfterStart(t, calls)
              IN calls \in Seq(RegCall) /\ calls # <<>> /\ Goes(t, r) /\ ThreadOK(r)
<1>1. PICK s \in {"active", "idle"} :
        Goes(t, AfterStart(t, <<SetState(s), SetActive(TRUE), Touch>>))
  BY Zenon DEF StartFindsRunning
<1> DEFINE calls == <<SetState(s), SetActive(TRUE), Touch>>
<1>2. calls \in Seq(RegCall) /\ calls # <<>>
  <2>1. s \in State /\ TRUE \in BOOLEAN
    BY DEF State
  <2>2. calls \in Seq(RegCall)
    BY <2>1, CallLists, Zenon
  <2> QED BY <2>2, Zenon
<1> HIDE DEF calls
<1>3. ThreadOK(AfterStart(t, calls))
  BY <1>2, AfterStartOK
<1> QED BY <1>1, <1>2, <1>3, Zenon DEF calls

LEMMA SpawnFailsThread ==
    ASSUME McpTypeOK, NEW t \in Thread, SpawnFails(t)
    PROVE  \E r : /\ Goes(t, r) /\ ThreadOK(r) /\ r.at = "registry" /\ r.proc = 0
                  /\ r.op = threads[t].op /\ r.before = threads[t].before
                  /\ r.calls = <<SetState("stopped"), SetActive(FALSE)>> /\ r.then = "rest"
<1> DEFINE calls == <<SetState("stopped"), SetActive(FALSE)>>
           r == Registering(t, calls, "rest")
<1>1. Goes(t, r)
  BY DEF SpawnFails
<1>2. "stopped" \in State /\ FALSE \in BOOLEAN /\ "rest" \in Then
  BY DEF State, Then
<1>3. calls \in Seq(RegCall)
  BY <1>2, CallLists, Zenon
<1>4. calls # <<>>
  BY <1>3
<1> HIDE DEF calls
<1>5. /\ ThreadOK(r) /\ r.at = "registry" /\ r.proc = 0 /\ r.calls = calls
      /\ r.then = "rest" /\ r.op = threads[t].op /\ r.before = threads[t].before
  BY <1>2, <1>3, <1>4, RegisteringOK
<1> HIDE DEF r
<1> QED BY <1>1, <1>5, Zenon DEF calls

LEMMA StartAgainThread ==
    ASSUME McpTypeOK, NEW t \in Thread, StartAgain(t)
    PROVE  \E r : /\ Goes(t, r) /\ ThreadOK(r) /\ r.calls = <<>>
                  /\ r.proc \in {0, threads[t].proc}
                  /\ entry.enabled => /\ r.at = "look up" /\ r.op = threads[t].op
                                      /\ r.before = threads[t].before
                  /\ ~entry.enabled => r = Resting /\ r.at = "rest"
<1> DEFINE r == To(t, "look up")
<1>1. threads[t].at # "registry"
  BY Zenon DEF StartAgain
<1>2. "look up" \in Label \ {"registry", "persist"}
  BY DEF Label
<1>3. /\ ThreadOK(r) /\ r.at = "look up" /\ r.proc = threads[t].proc /\ r.calls = <<>>
      /\ r.op = threads[t].op /\ r.before = threads[t].before
  BY <1>1, <1>2, ToSame, Zenon
<1>4. /\ ThreadOK(Resting) /\ Resting.calls = <<>> /\ Resting.proc = 0 /\ Resting.at = "rest"
  BY RestingOK DEF Resting
<1>5. CASE entry.enabled
  <2>1. Goes(t, r)
    BY <1>5, Zenon DEF StartAgain
  <2> HIDE DEF r
  <2> QED BY <1>3, <1>5, <2>1, Zenon
<1>6. CASE ~entry.enabled
  <2>1. Goes(t, Resting)
    BY <1>6 DEF StartAgain
  <2> QED BY <1>4, <1>6, <2>1, Zenon
<1> QED BY <1>5, <1>6, Zenon

LEMMA IsRunningThread ==
    ASSUME McpTypeOK, NEW t \in Thread, isRunning(t)
    PROVE  \/ Goes(t, Resting)
           \/ \E r : /\ Goes(t, r) /\ ThreadOK(r) /\ r.proc \in {0, threads[t].proc}
                     /\ r.op = threads[t].op /\ r.before = threads[t].before
                     /\ table # 0 => /\ r.at = "registry" /\ r.calls = Activate
                                     /\ r.then = "acquire"
                     /\ table = 0 => r.at = "start" /\ r.calls = <<>>
<1>1. CASE table # 0
  <2> DEFINE r == Registering(t, Activate, "acquire")
  <2>1. Goes(t, r) /\ Activate # <<>>
    BY <1>1, Zenon DEF isRunning, Activate
  <2>2. "acquire" \in Then
    BY DEF Then
  <2>3. /\ ThreadOK(r) /\ r.at = "registry" /\ r.proc = 0 /\ r.calls = Activate
        /\ r.then = "acquire" /\ r.op = threads[t].op /\ r.before = threads[t].before
    BY <2>1, <2>2, RegisteringOK, CallLists
  <2> HIDE DEF r
  <2> QED BY <1>1, <2>1, <2>3
<1>2. CASE table = 0
  <2> DEFINE r == To(t, "start")
  <2>1. threads[t].at # "registry" /\ (Goes(t, Resting) \/ Goes(t, r))
    BY <1>2, Zenon DEF isRunning
  <2>2. "start" \in Label \ {"registry", "persist"}
    BY DEF Label
  <2>3. /\ ThreadOK(r) /\ r.at = "start" /\ r.proc = threads[t].proc /\ r.calls = <<>>
        /\ r.op = threads[t].op /\ r.before = threads[t].before
    BY <2>1, <2>2, ToSame
  <2> HIDE DEF r
  <2> QED BY <1>2, <2>1, <2>3
<1> QED BY <1>1, <1>2

(* The calls that put a record back.                                           *)
LEMMA RestoreCalls ==
    ASSUME NEW b \in Entry
    PROVE  restoreMCPServerSnapshot(b) \in Seq(RegCall) /\ restoreMCPServerSnapshot(b) # <<>>
<1> DEFINE three == << <<"enabled", b.enabled>>, SetState(b.state), SetActive(b.active)>>
           more == IF b.used = "never" THEN <<>> ELSE << <<"used", b.used>> >>
<1>1. b.enabled \in BOOLEAN /\ b.active \in BOOLEAN /\ b.state \in State /\ b.used \in Used
  BY DEF Entry
<1>2. /\ <<"enabled", b.enabled>> \in RegCall /\ SetState(b.state) \in RegCall
      /\ SetActive(b.active) \in RegCall /\ <<"used", b.used>> \in RegCall
  BY <1>1, CallTypes, Zenon
<1>3. \A x, y, z \in RegCall :
        <<x>> \in Seq(RegCall) /\ <<x, y, z>> \in Seq(RegCall) /\ <<x, y, z>> # <<>>
  OBVIOUS
<1>4. three \in Seq(RegCall) /\ three # <<>>
  BY <1>2, <1>3, Zenon
<1>5. more \in Seq(RegCall)
  <2>1. <<>> \in Seq(RegCall)
    OBVIOUS
  <2>2. << <<"used", b.used>> >> \in Seq(RegCall)
    BY <1>2, <1>3, Zenon
  <2> QED BY <2>1, <2>2, Zenon
<1> HIDE DEF three, more
<1>6. three \o more \in Seq(RegCall) /\ three \o more # <<>>
  BY <1>4, <1>5, LongerList
<1> QED BY <1>6 DEF restoreMCPServerSnapshot, three, more

LEMMA PersistThread ==
    ASSUME McpTypeOK, NEW t \in Thread, persistMCPRegistry(t)
    PROVE  LET b == threads[t].before
           IN /\ b \in Entry
              /\ \/ Goes(t, Resting)
                 \/ \E r : /\ Goes(t, r) /\ ThreadOK(r) /\ r.at = "registry" /\ r.proc = 0
                           /\ r.calls = restoreMCPServerSnapshot(b) /\ r.op = "start"
                           /\ r.then = IF b.enabled /\ b.active THEN "start" ELSE "rest"
<1> DEFINE b == threads[t].before
           calls == restoreMCPServerSnapshot(b)
           then == IF b.enabled /\ b.active THEN "start" ELSE "rest"
           r0 == Registering(t, calls, then)
           r == [r0 EXCEPT !.before = <<>>, !.op = "start"]
<1>1. threads[t].at = "persist" /\ (Goes(t, Resting) \/ Goes(t, r))
  BY DEF persistMCPRegistry
<1>2. b \in Entry
  BY <1>1 DEF McpTypeOK, ThreadOK, Goal
<1>3. calls \in Seq(RegCall) /\ calls # <<>>
  BY <1>2, RestoreCalls
<1>4. then \in {"start", "rest"} /\ {"start", "rest"} \subseteq Then /\ "start" \in Operation
  BY DEF Then, Operation
<1> HIDE DEF b, calls, then
<1>5. /\ ThreadOK(r0) /\ r0.at = "registry" /\ r0.proc = 0 /\ r0.calls = calls /\ r0.then = then
  BY <1>3, <1>4, RegisteringOK
<1> HIDE DEF r0
<1>6. /\ r \in ThreadType /\ r.at = "registry" /\ r.proc = 0 /\ r.calls = calls /\ r.then = then
      /\ r.op = "start"
  BY <1>4, <1>5, Zenon DEF ThreadOK, ThreadType
<1> HIDE DEF r
<1>7. ThreadOK(r)
  BY <1>3, <1>4, <1>6 DEF ThreadOK, Goal
<1> QED BY <1>1, <1>2, <1>6, <1>7 DEF b, calls, then

(* The thread of a request that begins.                                        *)
LEMMA RestingFields ==
    /\ Resting \in ThreadType /\ Resting.at = "rest" /\ Resting.op = "none"
    /\ Resting.proc = 0 /\ Resting.calls = <<>>
BY RestingOK DEF ThreadOK, Resting

LEMMA RequestOK ==
    ASSUME NEW op \in Operation, NEW label \in Label \ {"registry", "persist"},
           ~(op \in {"disable", "enable"})
    PROVE  LET r == Request(op, label) IN
           /\ ThreadOK(r) /\ r.op = op /\ r.at = label /\ r.proc = 0 /\ r.calls = <<>>
<1> DEFINE r == Request(op, label)
<1>1. /\ r \in ThreadType /\ r.op = op /\ r.at = label /\ r.proc = 0 /\ r.calls = <<>>
  BY RestingFields, Zenon DEF Request, ThreadType
<1> HIDE DEF r
<1> QED BY <1>1 DEF ThreadOK, Goal, r

LEMMA DisableRequestOK ==
    ASSUME McpTypeOK
    PROVE  LET r == [Request("disable", "stop") EXCEPT !.before = entry] IN
           /\ ThreadOK(r) /\ r.op = "disable" /\ r.at = "stop" /\ r.proc = 0
           /\ r.calls = <<>> /\ r.before = entry
<1> DEFINE r == [Request("disable", "stop") EXCEPT !.before = entry]
<1>1. "stop" \in Label /\ "disable" \in Operation /\ entry \in Entry
  BY DEF Label, Operation, McpTypeOK
<1>2. /\ r \in ThreadType /\ r.op = "disable" /\ r.at = "stop" /\ r.proc = 0
      /\ r.calls = <<>> /\ r.before = entry
  BY <1>1, RestingFields, Zenon DEF Request, ThreadType
<1> HIDE DEF r
<1> QED BY <1>1, <1>2 DEF ThreadOK, Goal, r

LEMMA EnableRequestOK ==
    ASSUME McpTypeOK
    PROVE  LET r == [Request("enable", "registry") EXCEPT
                       !.before = entry, !.calls = << <<"enabled", TRUE>> >>, !.then = "persist"]
           IN /\ ThreadOK(r) /\ r.op = "enable" /\ r.at = "registry" /\ r.proc = 0
              /\ r.calls = << <<"enabled", TRUE>> >> /\ r.then = "persist" /\ r.before = entry
<1> DEFINE calls == << <<"enabled", TRUE>> >>
           r == [Request("enable", "registry") EXCEPT
                   !.before = entry, !.calls = calls, !.then = "persist"]
<1>1. /\ "registry" \in Label /\ "persist" \in Then /\ "enable" \in Operation /\ entry \in Entry
  BY DEF Label, Then, Operation, McpTypeOK
<1>2. calls \in Seq(RegCall) /\ calls # <<>>
  BY CallLists, Zenon
<1> HIDE DEF calls
<1>3. /\ r \in ThreadType /\ r.op = "enable" /\ r.at = "registry" /\ r.proc = 0
      /\ r.calls = calls /\ r.then = "persist" /\ r.before = entry
  BY <1>1, <1>2, RestingFields, Zenon DEF Request, ThreadType
<1> HIDE DEF r
<1>4. ThreadOK(r)
  BY <1>1, <1>2, <1>3 DEF ThreadOK, Goal
<1> QED BY <1>3, <1>4, Zenon DEF calls, r

(* A request, or a sweep, that begins.                                         *)
LEMMA BeginsKeepsProcs ==
    ASSUME ProcsInv, NEW t \in Thread, NEW r, Begins(t, r), ThreadOK(r), r.proc = 0,
           r.at # "install", r.at # "kill", r.at # "call", r.at # "running"
    PROVE  ProcsInv'
<1>1. /\ Goes(t, r) /\ UNCHANGED <<entry, table, procs, spawned, orphans>>
      /\ overlapped' \in BOOLEAN /\ threads[t] = Resting
  BY Zenon DEF Begins, ProcsInv, McpTypeOK
<1>2. threads[t].at \notin {"install", "kill", "call"}
  BY <1>1, RestingFields
<1>3. entry \in Entry /\ spawned \in 0..MaxProcs
  BY DEF ProcsInv, McpTypeOK
<1>4. r.proc <= spawned
  BY <1>3
<1>5. r.at \notin {"install", "kill", "call"}
  OBVIOUS
<1> QED BY <1>1, <1>2, <1>3, <1>4, <1>5, ThreadMoves

(* The requests that begin with no record kept, with their threads.            *)
PlainOp == {"start", "stop", "restart", "invoke", "sweep"}
PlainLabel == {"look up", "stop", "is running"}

LEMMA RequestThreads ==
    ASSUME NEW op \in PlainOp, NEW label \in PlainLabel
    PROVE  LET r == Request(op, label)
           IN ThreadOK(r) /\ r.op = op /\ r.at = label /\ r.proc = 0 /\ r.calls = <<>>
<1>1. op \in Operation /\ ~(op \in {"disable", "enable"})
  BY DEF Operation, PlainOp
<1>2. label \in Label \ {"registry", "persist"}
  BY Zenon DEF Label, PlainLabel
<1> QED BY <1>1, <1>2, RequestOK, Zenon

LEMMA RequestsKeepProcs ==
    ASSUME ProcsInv, NEW t \in Thread,
           \/ StartMCPServer(t) \/ StopMCPServer(t) \/ RestartMCPServer(t) \/ InvokeMCP(t)
           \/ SetMCPServerEnabled(t) \/ (t = Sweeper /\ SweepIdle)
    PROVE  ProcsInv'
<1>0. McpTypeOK
  BY DEF ProcsInv
<1> DEFINE Plain(r) == \E op \in PlainOp, label \in PlainLabel : r = Request(op, label)
<1>1. \A r : Plain(r) => /\ ThreadOK(r) /\ r.proc = 0 /\ r.at # "install" /\ r.at # "kill"
                         /\ r.at # "call" /\ r.at # "running"
  <2> SUFFICES ASSUME NEW op \in PlainOp, NEW label \in PlainLabel, NEW r, r = Request(op, label)
               PROVE  /\ ThreadOK(r) /\ r.proc = 0 /\ r.at # "install" /\ r.at # "kill"
                      /\ r.at # "call" /\ r.at # "running"
    OBVIOUS
  <2>1. ThreadOK(r) /\ r.proc = 0 /\ r.at = label
    BY RequestThreads
  <2> QED BY <2>1, Zenon DEF PlainLabel
<1>2. ASSUME NEW r, Plain(r), Begins(t, r)
      PROVE  ProcsInv'
  BY <1>1, <1>2, BeginsKeepsProcs
<1>3. CASE StartMCPServer(t)
  BY <1>2, <1>3, Zenon DEF StartMCPServer, PlainOp, PlainLabel
<1>4. CASE StopMCPServer(t)
  BY <1>2, <1>4, Zenon DEF StopMCPServer, PlainOp, PlainLabel
<1>5. CASE RestartMCPServer(t)
  BY <1>2, <1>5, Zenon DEF RestartMCPServer, PlainOp, PlainLabel
<1>6. CASE InvokeMCP(t)
  BY <1>2, <1>6, Zenon DEF InvokeMCP, PlainOp, PlainLabel
<1>7. CASE t = Sweeper /\ SweepIdle
  BY <1>2, <1>7, Zenon DEF SweepIdle, PlainOp, PlainLabel
<1>8. CASE SetMCPServerEnabled(t)
  <2> DEFINE d == [Request("disable", "stop") EXCEPT !.before = entry]
             e == [Request("enable", "registry") EXCEPT
                     !.before = entry, !.calls = << <<"enabled", TRUE>> >>, !.then = "persist"]
  <2>1. ThreadOK(d) /\ d.at = "stop" /\ d.proc = 0
    BY <1>0, DisableRequestOK
  <2>2. ThreadOK(e) /\ e.at = "registry" /\ e.proc = 0
    BY <1>0, EnableRequestOK
  <2>3. Begins(t, d) \/ Begins(t, e)
    BY <1>8 DEF SetMCPServerEnabled
  <2> HIDE DEF d, e
  <2>4. CASE Begins(t, d)
    BY <2>1, <2>4, BeginsKeepsProcs
  <2>5. CASE Begins(t, e)
    BY <2>2, <2>5, BeginsKeepsProcs
  <2> QED BY <2>3, <2>4, <2>5
<1> QED BY <1>3, <1>4, <1>5, <1>6, <1>7, <1>8

(* ThreadMoves, for a step that leaves the record alone.                       *)
LEMMA ThreadMovesOn ==
    ASSUME ProcsInv, NEW t \in Thread, NEW r, ThreadOK(r), Goes(t, r),
           r.proc \in {0, threads[t].proc, table}, r.at = "running" => r.proc # 0,
           r.at # "install", r.at # "kill", r.at # "call",
           threads[t].at \notin {"install", "kill", "call"},
           UNCHANGED <<entry, table, procs, spawned, orphans, overlapped>>
    PROVE  ProcsInv'
<1>1. entry \in Entry /\ overlapped \in BOOLEAN /\ spawned \in 0..MaxProcs
  BY DEF ProcsInv, McpTypeOK
<1>2. r.proc <= spawned
  BY <1>1 DEF ProcsInv, OnlySpawned
<1>3. r.at \notin {"install", "kill", "call"}
  OBVIOUS
<1>4. entry' \in Entry /\ overlapped' \in BOOLEAN
  BY <1>1
<1>5. UNCHANGED <<table, procs, spawned, orphans>>
  OBVIOUS
<1> QED BY <1>2, <1>3, <1>4, <1>5, ThreadMoves

(* A step that changes at most the record.                                     *)
LEMMA RecordOnly ==
    ASSUME ProcsInv, entry' \in Entry,
           UNCHANGED <<table, procs, threads, spawned, orphans, overlapped>>
    PROVE  ProcsInv'
<1>1. \A p : Users(p)' = Users(p)
  BY DEF Users
<1>2. McpTypeOK'
  BY DEF ProcsInv, McpTypeOK
<1>3. OnePlace'
  BY <1>1 DEF ProcsInv, OnePlace
<1>4. OnlySpawned' /\ NotKilled'
  BY DEF ProcsInv, OnlySpawned, NotKilled
<1>5. CallsAreProtected'
  BY <1>1 DEF ProcsInv, CallsAreProtected
<1>6. NoLostProcess'
  BY DEF ProcsInv, NoLostProcess
<1> QED BY <1>2, <1>3, <1>4, <1>5, <1>6 DEF ProcsInv

(* Every step keeps the processes in order.                                    *)
LEMMA NextKeepsProcs ==
    ASSUME ProcsInv, [McpNext]_mcpVars
    PROVE  ProcsInv'
<1>0. McpTypeOK
  BY DEF ProcsInv
<1>1. ASSUME NEW t \in Thread, Registry(t)
      PROVE  ProcsInv'
  <2>1. PICK r : /\ Goes(t, r) /\ ThreadOK(r) /\ r.proc \in {0, threads[t].proc}
                 /\ r.at = "registry" \/ r.at = threads[t].then
    BY <1>0, <1>1, RegistryThread
  <2>2. entry' \in Entry /\ threads[t].then \in Then
    BY <1>0, <1>1, RegistryThread
  <2>3. /\ UNCHANGED <<table, procs, spawned, orphans, overlapped>> /\ threads[t].at = "registry"
    BY <1>1 DEF Registry
  <2>4. r.at \notin {"install", "kill", "call", "running"}
    BY <2>1, <2>2 DEF Then
  <2>5. r.proc <= spawned /\ overlapped' \in BOOLEAN
    BY <2>1, <2>3 DEF ProcsInv, McpTypeOK, OnlySpawned
  <2> QED BY <2>1, <2>2, <2>3, <2>4, <2>5, ThreadMoves
<1>2. ASSUME NEW t \in Thread, StartLooksUp(t)
      PROVE  ProcsInv'
  <2>1. PICK r : /\ Goes(t, r) /\ ThreadOK(r) /\ r.proc \in {0, table}
                 /\ r.at = "registry" \/ (r.at = "running" /\ r.proc # 0)
    BY <1>0, <1>2, LooksUpThread, Zenon
  <2>2. /\ threads[t].at = "look up"
        /\ UNCHANGED <<entry, table, procs, spawned, orphans, overlapped>>
    BY <1>2, Zenon DEF StartLooksUp
  <2> QED BY <2>1, <2>2, ThreadMovesOn, Zenon
<1>3. ASSUME NEW t \in Thread, StartFindsRunning(t)
      PROVE  ProcsInv'
  <2>1. PICK s \in {"active", "idle"} :
          LET calls == <<SetState(s), SetActive(TRUE), Touch>>
              r == AfterStart(t, calls)
          IN calls \in Seq(RegCall) /\ calls # <<>> /\ Goes(t, r) /\ ThreadOK(r)
    BY <1>0, <1>3, FindsRunningThread, Zenon
  <2> DEFINE calls == <<SetState(s), SetActive(TRUE), Touch>>
             r == AfterStart(t, calls)
  <2>2. calls \in Seq(RegCall) /\ calls # <<>> /\ Goes(t, r) /\ ThreadOK(r)
    BY <2>1, Zenon
  <2> HIDE DEF calls
  <2>3. r.at = "registry" /\ r.proc = 0
    BY <1>0, <2>2, AfterStartOK
  <2> HIDE DEF r
  <2>4. /\ threads[t].at = "running"
        /\ UNCHANGED <<entry, table, procs, spawned, orphans, overlapped>>
    BY <1>3 DEF StartFindsRunning
  <2> QED BY <2>2, <2>3, <2>4, ThreadMovesOn
<1>4. ASSUME NEW t \in Thread, SpawnFails(t)
      PROVE  ProcsInv'
  <2>1. PICK r : Goes(t, r) /\ ThreadOK(r) /\ r.proc = 0 /\ r.at = "registry"
    BY <1>0, <1>4, SpawnFailsThread, Zenon
  <2>2. /\ threads[t].at = "spawn"
        /\ UNCHANGED <<entry, table, procs, spawned, orphans, overlapped>>
    BY <1>4 DEF SpawnFails
  <2> QED BY <2>1, <2>2, ThreadMovesOn
<1>5. ASSUME NEW t \in Thread, StartAgain(t)
      PROVE  ProcsInv'
  <2>0. entry.enabled \in BOOLEAN
    BY <1>0 DEF McpTypeOK, Entry
  <2>1. PICK r : /\ Goes(t, r) /\ ThreadOK(r) /\ r.proc \in {0, threads[t].proc}
                 /\ r.at = "look up" \/ r.at = "rest"
    BY <1>0, <1>5, <2>0, StartAgainThread, Zenon
  <2>2. /\ threads[t].at = "start"
        /\ UNCHANGED <<entry, table, procs, spawned, orphans, overlapped>>
    BY <1>5, Zenon DEF StartAgain
  <2> QED BY <2>1, <2>2, ThreadMovesOn, Zenon
<1>6. ASSUME NEW t \in Thread, persistMCPRegistry(t)
      PROVE  ProcsInv'
  <2>1. PICK r : Goes(t, r) /\ ThreadOK(r) /\ r.proc = 0 /\ (r.at = "registry" \/ r.at = "rest")
    BY <1>0, <1>6, PersistThread, RestingOK, RestingFields
  <2>2. /\ threads[t].at = "persist"
        /\ UNCHANGED <<entry, table, procs, spawned, orphans, overlapped>>
    BY <1>6 DEF persistMCPRegistry
  <2> QED BY <2>1, <2>2, ThreadMovesOn
<1>7. ASSUME NEW t \in Thread, isRunning(t)
      PROVE  ProcsInv'
  <2>1. PICK r : /\ Goes(t, r) /\ ThreadOK(r) /\ r.proc \in {0, threads[t].proc}
                 /\ r.at = "registry" \/ r.at = "rest" \/ r.at = "start"
    BY <1>0, <1>7, IsRunningThread, RestingOK, RestingFields
  <2>2. /\ threads[t].at = "is running"
        /\ UNCHANGED <<entry, table, procs, spawned, orphans, overlapped>>
    BY <1>7, Zenon DEF isRunning
  <2> QED BY <2>1, <2>2, ThreadMovesOn, Zenon
<1>8. ASSUME NEW t \in Thread, acquireProcess(t)
      PROVE  ProcsInv'
  <2>1. CASE table = 0
    <3>1. /\ threads[t].at = "acquire" /\ Goes(t, Resting)
          /\ UNCHANGED <<entry, table, procs, spawned, orphans, overlapped>>
      BY <1>8, <2>1 DEF acquireProcess
    <3> QED BY <3>1, RestingOK, RestingFields, ThreadMovesOn
  <2> QED BY <1>8, <2>1, AcquireKeepsProcs
<1>9. ASSUME NEW t \in Thread, Stop(t)
      PROVE  ProcsInv'
  <2>0. /\ threads[t].at = "stop" /\ UNCHANGED <<entry, procs, spawned, orphans, overlapped>>
    BY <1>9 DEF Stop
  <2>1. CASE table # 0 /\ procs[table].inUse > 0
    <3>1. Goes(t, Resting) /\ UNCHANGED table
      BY <1>9, <2>1 DEF Stop
    <3> QED BY <2>0, <3>1, RestingOK, RestingFields, ThreadMovesOn
  <2>2. CASE table # 0 /\ ~(procs[table].inUse > 0)
    <3>1. StopTakes(t)
      BY <1>9, <2>2 DEF Stop
    <3>2. procs[table].inUse = 0
      BY <1>0, <2>2, ProcNumbers DEF McpTypeOK
    <3> QED BY <2>0, <2>2, <3>1, <3>2, StopTakesKeepsProcs
  <2>3. CASE table = 0
    <3> DEFINE calls == <<SetState(Stopped(t)), SetActive(FALSE)>>
               r == AfterStop(t, calls)
    <3>1. Goes(t, r) /\ UNCHANGED table
      BY <1>9, <2>3 DEF Stop, StopTakes
    <3>2. Stopped(t) \in State /\ FALSE \in BOOLEAN
      BY DEF State, Stopped
    <3>3. calls \in Seq(RegCall)
      BY <3>2, CallLists, Zenon
    <3>4. calls # <<>>
      BY <3>3
    <3> HIDE DEF calls
    <3>5. ThreadOK(r) /\ r.at = "registry" /\ r.proc = 0
      BY <1>0, <3>3, <3>4, AfterStopOK
    <3> HIDE DEF r
    <3> QED BY <2>0, <3>1, <3>5, ThreadMovesOn
  <2> QED BY <2>1, <2>2, <2>3
<1>10. ASSUME NEW t \in Thread, McpStep(t)
       PROVE  ProcsInv'
  BY <1>1, <1>2, <1>3, <1>4, <1>5, <1>6, <1>7, <1>8, <1>9, <1>10, SpawnKeepsProcs,
     InstallKeepsProcs, KillKeepsProcs, ReleaseKeepsProcs DEF McpStep
<1>11. CASE TimePasses
  <2>1. entry' \in Entry
    BY <1>0, <1>11 DEF TimePasses, McpTypeOK, Entry, Used
  <2>2. UNCHANGED <<table, procs, threads, spawned, orphans, overlapped>>
    BY <1>11 DEF TimePasses
  <2> QED BY <2>1, <2>2, RecordOnly
<1>12. CASE UNCHANGED mcpVars
  BY <1>0, <1>12, RecordOnly DEF mcpVars, McpTypeOK
<1>13. Sweeper \in Thread /\ \A t \in Requests : t \in Thread
  BY DEF Thread
<1> QED BY <1>10, <1>11, <1>12, <1>13, RequestsKeepProcs DEF McpNext

-------------------------------------------------------------------------------
(* What calls make of a field: nothing, ...                                    *)
LEMMA BecomesNow ==
    ASSUME NEW e, NEW f, NEW v
    PROVE  Becomes(e, <<>>, f, v) <=> e[f] = v
BY DEF Becomes

(* ... what the first one writes and what the others make of that, ...         *)
LEMMA BecomesNext ==
    ASSUME NEW e \in Entry, NEW cs \in Seq(RegCall), cs # <<>>,
           NEW f \in {"state", "active", "enabled"}, NEW v, Becomes(e, cs, f, v)
    PROVE  Becomes([e EXCEPT ![Head(cs)[1]] = Head(cs)[2]], Tail(cs), f, v)
<1> DEFINE e1 == [e EXCEPT ![Head(cs)[1]] = Head(cs)[2]]
           n == Len(cs)
<1>1. /\ Head(cs) = cs[1] /\ cs[1] \in RegCall /\ n \in Nat /\ n >= 1
      /\ Len(Tail(cs)) = n - 1 /\ \A i \in 1..(n - 1) : Tail(cs)[i] = cs[i + 1]
  OBVIOUS
<1>2. e1[f] = IF f = cs[1][1] THEN cs[1][2] ELSE e[f]
  <2>1. f \in {"state", "active", "enabled", "used"}
    OBVIOUS
  <2>2. Head(cs) \in RegCall
    BY <1>1
  <2>3. e1[f] = IF f = Head(cs)[1] THEN Head(cs)[2] ELSE e[f]
    BY <2>1, <2>2, EntryUpdate, Zenon
  <2> HIDE DEF e1
  <2> QED BY <1>1, <2>3
<1> HIDE DEF e1
<1>3. CASE e[f] = v /\ \A i \in 1..n : cs[i][1] # f
  <2>1. e1[f] = v
    BY <1>1, <1>2, <1>3
  <2>2. \A i \in 1..(n - 1) : Tail(cs)[i][1] # f
    BY <1>1, <1>3
  <2> QED BY <1>1, <2>1, <2>2 DEF Becomes, e1
<1>4. ASSUME NEW i \in 1..n, cs[i][1] = f, cs[i][2] = v,
             \A j \in (i + 1)..n : cs[j][1] # f
      PROVE  Becomes(e1, Tail(cs), f, v)
  <2>1. CASE i = 1
    <3>1. e1[f] = v
      BY <1>2, <1>4, <2>1
    <3>2. \A k \in 1..(n - 1) : Tail(cs)[k][1] # f
      BY <1>1, <1>4, <2>1
    <3> QED BY <1>1, <3>1, <3>2 DEF Becomes
  <2>2. CASE i # 1
    <3>1. i - 1 \in 1..(n - 1) /\ Tail(cs)[i - 1] = cs[i]
      BY <1>1, <2>2
    <3>2. \A j \in ((i - 1) + 1)..(n - 1) : Tail(cs)[j][1] # f
      BY <1>1, <1>4, <2>2
    <3> QED BY <1>1, <1>4, <3>1, <3>2, Zenon DEF Becomes
  <2> QED BY <2>1, <2>2
<1> QED BY <1>3, <1>4 DEF Becomes, e1

(* ... and what the last one writes.                                           *)
LEMMA BecomesLast ==
    ASSUME NEW e, NEW cs \in Seq(RegCall), NEW c \in RegCall, NEW f, NEW v,
           IF c[1] = f THEN c[2] = v ELSE Becomes(e, cs, f, v)
    PROVE  Becomes(e, Append(cs, c), f, v)
<1> DEFINE ds == Append(cs, c)
           n == Len(cs)
<1>1. /\ n \in Nat /\ Len(ds) = n + 1 /\ ds[n + 1] = c
      /\ \A i \in 1..n : ds[i] = cs[i]
  OBVIOUS
<1> HIDE DEF ds
<1>2. CASE c[1] = f
  <2>1. n + 1 \in 1..Len(ds) /\ \A j \in ((n + 1) + 1)..Len(ds) : FALSE
    BY <1>1
  <2> QED BY <1>1, <1>2, <2>1 DEF Becomes, ds
<1>3. CASE c[1] # f /\ e[f] = v /\ \A i \in 1..n : cs[i][1] # f
  <2>1. \A i \in 1..(n + 1) : ds[i][1] # f
    BY <1>1, <1>3
  <2> QED BY <1>1, <1>3, <2>1 DEF Becomes, ds
<1>4. ASSUME c[1] # f, NEW i \in 1..n, cs[i][1] = f, cs[i][2] = v,
             \A j \in (i + 1)..n : cs[j][1] # f
      PROVE  Becomes(e, ds, f, v)
  <2>1. i \in 1..(n + 1) /\ \A j \in (i + 1)..(n + 1) : ds[j][1] # f
    BY <1>1, <1>4
  <2> QED BY <1>1, <1>4, <2>1 DEF Becomes
<1> QED BY <1>2, <1>3, <1>4, Zenon DEF Becomes, ds

LEMMA ListShapes ==
    ASSUME NEW a \in RegCall, NEW b \in RegCall, NEW c \in RegCall, NEW cs \in Seq(RegCall)
    PROVE  /\ <<a, b>> = Append(<<a>>, b) /\ <<a>> = Append(<<>>, a)
           /\ <<a, b, c>> = Append(<<a, b>>, c)
           /\ cs \o <<a>> = Append(cs, a) /\ cs \o <<a, b>> = Append(Append(cs, a), b)
           /\ <<>> \in Seq(RegCall) /\ <<a>> \in Seq(RegCall) /\ <<a, b>> \in Seq(RegCall)
           /\ <<a, b, c>> \in Seq(RegCall) /\ Append(cs, a) \in Seq(RegCall)
<1>1. <<a, b>> = Append(<<a>>, b) /\ <<a>> = Append(<<>>, a)
  OBVIOUS
<1>2. <<a, b, c>> = Append(<<a, b>>, c)
  OBVIOUS
<1>3. cs \o <<a>> = Append(cs, a)
  OBVIOUS
<1>4. cs \o <<a, b>> = Append(Append(cs, a), b)
  OBVIOUS
<1>5. /\ <<>> \in Seq(RegCall) /\ <<a>> \in Seq(RegCall) /\ <<a, b>> \in Seq(RegCall)
      /\ <<a, b, c>> \in Seq(RegCall) /\ Append(cs, a) \in Seq(RegCall)
  OBVIOUS
<1> QED BY <1>1, <1>2, <1>3, <1>4, <1>5

LEMMA BecomesTwo ==
    ASSUME NEW e, NEW a \in RegCall, NEW b \in RegCall, NEW cs \in Seq(RegCall), NEW f, NEW v,
           IF b[1] = f THEN b[2] = v ELSE IF a[1] = f THEN a[2] = v ELSE Becomes(e, cs, f, v)
    PROVE  Becomes(e, cs \o <<a, b>>, f, v)
<1>1. b[1] # f => Becomes(e, Append(cs, a), f, v)
  BY BecomesLast
<1>2. Append(cs, a) \in Seq(RegCall)
  BY ListShapes
<1>3. Becomes(e, Append(Append(cs, a), b), f, v)
  BY <1>1, <1>2, BecomesLast, Zenon
<1>4. cs \o <<a, b>> = Append(Append(cs, a), b)
  OBVIOUS
<1> QED BY <1>3, <1>4, Zenon

LEMMA BecomesThree ==
    ASSUME NEW e, NEW a \in RegCall, NEW b \in RegCall, NEW c \in RegCall, NEW f, NEW v
    PROVE  /\ (IF b[1] = f THEN b[2] = v ELSE IF a[1] = f THEN a[2] = v ELSE e[f] = v)
                => Becomes(e, <<a, b>>, f, v)
           /\ (IF c[1] = f THEN c[2] = v ELSE IF b[1] = f THEN b[2] = v
               ELSE IF a[1] = f THEN a[2] = v ELSE e[f] = v)
                => Becomes(e, <<a, b, c>>, f, v)
<1>1. (IF b[1] = f THEN b[2] = v ELSE IF a[1] = f THEN a[2] = v ELSE e[f] = v)
        => Becomes(e, <<a, b>>, f, v)
  <2>1. <<>> \in Seq(RegCall) /\ <<>> \o <<a, b>> = <<a, b>>
    OBVIOUS
  <2>2. Becomes(e, <<>>, f, v) <=> e[f] = v
    BY BecomesNow
  <2>3. SUFFICES ASSUME IF b[1] = f THEN b[2] = v ELSE IF a[1] = f THEN a[2] = v ELSE e[f] = v
                 PROVE  Becomes(e, <<>> \o <<a, b>>, f, v)
    BY <2>1
  <2> QED BY <2>1, <2>2, <2>3, BecomesTwo, Zenon
<1>2. <<a, b>> \in Seq(RegCall) /\ <<a, b, c>> = Append(<<a, b>>, c)
  BY ListShapes
<1> QED BY <1>1, <1>2, BecomesLast, Zenon

(* The calls of the model, field by field.                                     *)
LEMMA CallFields ==
    /\ \A s : SetState(s)[1] = "state" /\ SetState(s)[2] = s
    /\ \A b : SetActive(b)[1] = "active" /\ SetActive(b)[2] = b
    /\ Touch[1] = "used"
    /\ \A f, v : <<f, v>>[1] = f /\ <<f, v>>[2] = v
BY DEF SetState, SetActive, Touch

(* What Start and Stop write of the state and of whether the server is active. *)
LEMMA StateCalls ==
    ASSUME NEW e, NEW s \in State, NEW b \in BOOLEAN, NEW calls,
           calls \in {<<SetState(s), SetActive(b)>>, <<SetState(s), SetActive(b), Touch>>}
    PROVE  /\ Becomes(e, calls, "state", s) /\ Becomes(e, calls, "active", b)
           /\ \A v : e["enabled"] = v => Becomes(e, calls, "enabled", v)
<1> DEFINE x == SetState(s)
           y == SetActive(b)
           z == Touch
<1>1. x \in RegCall /\ y \in RegCall /\ z \in RegCall
  BY CallTypes, Zenon
<1>2. x[1] = "state" /\ x[2] = s /\ y[1] = "active" /\ y[2] = b /\ z[1] = "used"
  BY CallFields, Zenon
<1> HIDE DEF x, y, z
<1>3. /\ Becomes(e, <<x, y>>, "state", s) /\ Becomes(e, <<x, y>>, "active", b)
      /\ \A v : e["enabled"] = v => Becomes(e, <<x, y>>, "enabled", v)
  BY <1>1, <1>2, BecomesThree, Zenon
<1>4. /\ Becomes(e, <<x, y, z>>, "state", s) /\ Becomes(e, <<x, y, z>>, "active", b)
      /\ \A v : e["enabled"] = v => Becomes(e, <<x, y, z>>, "enabled", v)
  BY <1>1, <1>2, BecomesThree, Zenon
<1> QED BY <1>3, <1>4, Zenon DEF x, y, z

(* What Invoke adds, and what it writes when the last call is over.            *)
LEMMA ActivateCalls ==
    ASSUME NEW e, NEW cs \in Seq(RegCall), NEW f \in {"active", "enabled"}, NEW v
    PROVE  /\ Becomes(e, cs \o Activate, "state", "active")
           /\ Becomes(e, cs, f, v) => Becomes(e, cs \o Activate, f, v)
<1> DEFINE x == SetState("active")
           y == Touch
<1>1. "active" \in State
  BY DEF State
<1>2. x \in RegCall /\ y \in RegCall
  BY <1>1, CallTypes, Zenon
<1>3. x[1] = "state" /\ x[2] = "active" /\ y[1] = "used"
  BY CallFields, Zenon
<1> HIDE DEF x, y
<1>4. Becomes(e, cs \o <<x, y>>, "state", "active")
  BY <1>2, <1>3, BecomesTwo
<1>5. Becomes(e, cs, f, v) => Becomes(e, cs \o <<x, y>>, f, v)
  BY <1>2, <1>3, BecomesTwo
<1> QED BY <1>4, <1>5, Zenon DEF Activate, x, y

LEMMA IdleCalls ==
    ASSUME NEW e, NEW f \in {"active", "enabled"}, NEW v
    PROVE  /\ Becomes(e, <<SetState("idle"), Touch>>, "state", "idle")
           /\ e[f] = v => Becomes(e, <<SetState("idle"), Touch>>, f, v)
<1> DEFINE x == SetState("idle")
           y == Touch
<1>1. "idle" \in State
  BY DEF State
<1>2. x \in RegCall /\ y \in RegCall
  BY <1>1, CallTypes, Zenon
<1>3. x[1] = "state" /\ x[2] = "idle" /\ y[1] = "used"
  BY CallFields, Zenon
<1> HIDE DEF x, y
<1>4. Becomes(e, <<x, y>>, "state", "idle") /\ (e[f] = v => Becomes(e, <<x, y>>, f, v))
  BY <1>2, <1>3, BecomesThree, Zenon
<1> QED BY <1>4, Zenon DEF x, y

(* What a disable adds.                                                        *)
LEMMA DisableCalls ==
    ASSUME NEW e, NEW cs \in Seq(RegCall), NEW s
    PROVE  /\ Becomes(e, cs \o Disable, "active", FALSE)
           /\ Becomes(e, cs, "state", s) => Becomes(e, cs \o Disable, "state", s)
<1> DEFINE x == <<"enabled", FALSE>>
           y == SetActive(FALSE)
<1>1. FALSE \in BOOLEAN
  OBVIOUS
<1>2. x \in RegCall /\ y \in RegCall
  BY <1>1, CallTypes, Zenon
<1>3. x[1] = "enabled" /\ y[1] = "active" /\ y[2] = FALSE
  BY CallFields, Zenon
<1> HIDE DEF x, y
<1>4. Becomes(e, cs \o <<x, y>>, "active", FALSE)
  BY <1>2, <1>3, BecomesTwo, Zenon
<1>5. Becomes(e, cs, "state", s) => Becomes(e, cs \o <<x, y>>, "state", s)
  BY <1>2, <1>3, BecomesTwo
<1> QED BY <1>4, <1>5, Zenon DEF Disable, x, y

(* What putting a record back makes of the fields.                             *)
LEMMA RestoreFields ==
    ASSUME NEW e, NEW b \in Entry
    PROVE  LET calls == restoreMCPServerSnapshot(b)
           IN /\ Becomes(e, calls, "enabled", b.enabled) /\ Becomes(e, calls, "state", b.state)
              /\ Becomes(e, calls, "active", b.active)
<1> DEFINE x == <<"enabled", b.enabled>>
           y == SetState(b.state)
           z == SetActive(b.active)
           u == <<"used", b.used>>
<1>1. b.enabled \in BOOLEAN /\ b.active \in BOOLEAN /\ b.state \in State /\ b.used \in Used
  BY DEF Entry
<1>2. x \in RegCall /\ y \in RegCall /\ z \in RegCall /\ u \in RegCall
  BY <1>1, CallTypes, Zenon
<1>3. /\ x[1] = "enabled" /\ x[2] = b.enabled /\ y[1] = "state" /\ y[2] = b.state
      /\ z[1] = "active" /\ z[2] = b.active /\ u[1] = "used"
  BY CallFields, Zenon
<1>4. \/ restoreMCPServerSnapshot(b) = <<x, y, z>> \o <<>>
      \/ restoreMCPServerSnapshot(b) = <<x, y, z>> \o <<u>>
  BY Zenon DEF restoreMCPServerSnapshot
<1> HIDE DEF x, y, z, u
<1>5. /\ Becomes(e, <<x, y, z>>, "enabled", b.enabled) /\ Becomes(e, <<x, y, z>>, "state", b.state)
      /\ Becomes(e, <<x, y, z>>, "active", b.active)
  BY <1>2, <1>3, BecomesThree, Zenon
<1>6. <<x, y, z>> \in Seq(RegCall)
  BY <1>2
<1>7. <<x, y, z>> \o <<>> = <<x, y, z>> /\ <<x, y, z>> \o <<u>> = Append(<<x, y, z>>, u)
  OBVIOUS
<1> DEFINE three == <<x, y, z>>
<1> HIDE DEF three
<1>8. /\ Becomes(e, Append(three, u), "enabled", b.enabled)
      /\ Becomes(e, Append(three, u), "state", b.state)
      /\ Becomes(e, Append(three, u), "active", b.active)
  BY <1>2, <1>3, <1>5, <1>6, BecomesLast, Zenon DEF three
<1> QED BY <1>4, <1>5, <1>7, <1>8, Zenon DEF three

-------------------------------------------------------------------------------
(* The record at a point where nothing is left to write.                       *)
LEMMA AgreesNow ==
    ASSUME NEW e \in Entry, NEW p
    PROVE  Agrees(<<>>, e, p) <=>
             /\ p # 0 => e.active /\ e.enabled /\ e.state \in {"active", "idle"}
             /\ p = 0 => ~e.active /\ e.state \notin {"active", "idle"}
<1>1. \A f, v : Becomes(e, <<>>, f, v) <=> e[f] = v
  BY BecomesNow
<1>2. e["active"] \in BOOLEAN /\ e["enabled"] \in BOOLEAN /\ e["state"] \in State
  BY DEF Entry
<1> QED BY <1>1, <1>2, Zenon DEF Agrees

(* The thread of a step is where it was, or where the step takes it.           *)
LEMMA IdleThread ==
    ASSUME McpTypeOK, NEW t \in Thread, threads[t].at # "registry"
    PROVE  Goal(threads[t]) = threads[t].at /\ threads[t].calls = <<>>
BY DEF McpTypeOK, ThreadOK, Goal

(* A thread that rests leaves a record that agrees.                            *)
LEMMA SoloRests ==
    ASSUME NEW e, NEW p, Agrees(<<>>, e, p)
    PROVE  Solo(Resting, e, p)
<1>1. Goal(Resting) = "rest"
  BY RestingFields DEF Goal
<1> QED BY <1>1, RestingFields DEF Solo

(* A registry call brings the record nearer to what it will be.                *)
LEMMA SoloRegistry ==
    ASSUME McpTypeOK, NEW t \in Thread, Registry(t), Solo(threads[t], entry, table)
    PROVE  Solo(threads[t], entry, table)'
<1> DEFINE th == threads[t]
<1>1. PICK r : /\ Goes(t, r) /\ ThreadOK(r) /\ r.calls = Tail(threads[t].calls)
               /\ \/ r.at = "registry" /\ r.then = threads[t].then
                  \/ r.at = threads[t].then /\ r.calls = <<>>
               /\ IF r.at = "rest" THEN r = Resting
                  ELSE r.op = threads[t].op /\ r.before = threads[t].before
  BY RegistryThread
<1>2. /\ th.at = "registry" /\ th.calls \in Seq(RegCall) /\ th.calls # <<>> /\ th.then \in Then
      /\ entry' = [entry EXCEPT ![Head(th.calls)[1]] = Head(th.calls)[2]]
      /\ UNCHANGED table
  BY RegistryThread, Zenon DEF Registry
<1>3. threads'[t] = r
  BY <1>1, OnlyThread
<1>4. Goal(th) = th.then /\ Goal(r) = th.then /\ th.then # "registry"
  BY <1>1, <1>2 DEF Goal, Then
<1>5. \A f \in {"state", "active", "enabled"} : \A v :
        Becomes(entry, th.calls, f, v) => Becomes(entry', r.calls, f, v)
  BY <1>1, <1>2, BecomesNext, Zenon DEF McpTypeOK
<1>6. Agrees(th.calls, entry, table) => Agrees(r.calls, entry', table)
  BY <1>5, Zenon DEF Agrees
<1> HIDE DEF th
<1>7. CASE r = Resting
  <2>1. th.then = "rest"
    BY <1>4, <1>7, RestingFields DEF Goal
  <2>2. Agrees(r.calls, entry', table)
    BY <1>4, <1>6, <2>1 DEF Solo, th
  <2> QED BY <1>2, <1>3, <1>7, <2>2, SoloRests, RestingFields
<1>8. CASE r # Resting
  <2>1. r.op = th.op /\ r.before = th.before
    BY <1>1, <1>8 DEF th
  <2>2. Solo(th, entry, table)
    BY DEF th
  <2>3. Solo(r, entry', table)
    BY <1>4, <1>5, <1>6, <2>1, <2>2, Zenon DEF Solo
  <2> QED BY <1>2, <1>3, <2>3
<1> QED BY <1>7, <1>8

(* Start.                                                                      *)
LEMMA SoloLooksUp ==
    ASSUME McpTypeOK, NEW t \in Thread, StartLooksUp(t), Solo(threads[t], entry, table)
    PROVE  Solo(threads[t], entry, table)'
<1> DEFINE th == threads[t]
<1>1. PICK r : /\ Goes(t, r) /\ ThreadOK(r)
               /\ r.op = threads[t].op /\ r.before = threads[t].before
               /\ table # 0 => r.at = "running" /\ r.calls = <<>>
               /\ table = 0 => /\ r.at = "registry" /\ r.then = "spawn"
                               /\ r.calls = <<SetState("starting"), SetActive(TRUE)>>
  BY LooksUpThread, Zenon
<1>2. th.at = "look up" /\ UNCHANGED <<entry, table>>
  BY Zenon DEF StartLooksUp
<1>3. threads'[t] = r
  BY <1>1, OnlyThread
<1>4. Goal(th) = "look up" /\ th.calls = <<>>
  BY <1>2, IdleThread, Zenon
<1>5. entry["enabled"] = TRUE /\ (table = 0 \/ Agrees(<<>>, entry, table))
  BY <1>4, BecomesNow, Zenon DEF Solo
<1>6. CASE table # 0
  <2>1. Goal(r) = "running"
    BY <1>1, <1>6, Zenon DEF Goal
  <2>2. Becomes(entry, <<>>, "enabled", TRUE)
    BY <1>5, BecomesNow, Zenon
  <2> QED BY <1>1, <1>2, <1>3, <1>5, <1>6, <2>1, <2>2, Zenon DEF Solo
<1>7. CASE table = 0
  <2>1. Goal(r) = "spawn"
    BY <1>1, <1>7 DEF Goal
  <2>2. "starting" \in State /\ TRUE \in BOOLEAN
    BY DEF State
  <2>3. Becomes(entry, r.calls, "enabled", TRUE)
    BY <1>1, <1>5, <1>7, <2>2, StateCalls, Zenon
  <2> QED BY <1>1, <1>2, <1>3, <1>7, <2>1, <2>3, Zenon DEF Solo
<1> QED BY <1>6, <1>7

(* What Start leaves when there is a process in the table.                     *)
LEMMA SoloStarted ==
    ASSUME McpTypeOK, NEW t \in Thread, NEW s \in {"active", "idle"}, NEW p, p # 0,
           entry["enabled"] = TRUE
    PROVE  Solo(AfterStart(t, <<SetState(s), SetActive(TRUE), Touch>>), entry, p)
<1> DEFINE calls == <<SetState(s), SetActive(TRUE), Touch>>
           r == AfterStart(t, calls)
<1>1. s \in State /\ TRUE \in BOOLEAN
  BY DEF State
<1>2. calls \in Seq(RegCall)
  BY <1>1, CallLists, Zenon
<1>3. calls # <<>>
  BY <1>2
<1>4. /\ Becomes(entry, calls, "state", s) /\ Becomes(entry, calls, "active", TRUE)
      /\ Becomes(entry, calls, "enabled", TRUE)
  BY <1>1, StateCalls, Zenon
<1> HIDE DEF calls
<1>5. /\ r.at = "registry" /\ r.op = threads[t].op
      /\ IF r.op = "invoke" THEN r.calls = calls \o Activate /\ r.then = "acquire"
                           ELSE r.calls = calls /\ r.then = "rest"
  BY <1>2, <1>3, AfterStartOK
<1> HIDE DEF r
<1>6. CASE r.op = "invoke"
  <2>1. /\ Becomes(entry, r.calls, "state", "active") /\ Becomes(entry, r.calls, "active", TRUE)
        /\ Becomes(entry, r.calls, "enabled", TRUE)
    BY <1>2, <1>4, <1>5, <1>6, ActivateCalls, Zenon
  <2>2. Goal(r) = "acquire" /\ Agrees(r.calls, entry, p)
    BY <1>5, <1>6, <2>1, Zenon DEF Goal, Agrees
  <2>3. Solo(r, entry, p)
    BY <1>6, <2>1, <2>2, Zenon DEF Solo
  <2> QED BY <2>3 DEF r, calls
<1>7. CASE r.op # "invoke"
  <2>1. Goal(r) = "rest" /\ Agrees(r.calls, entry, p)
    BY <1>4, <1>5, <1>7, Zenon DEF Goal, Agrees
  <2>2. Solo(r, entry, p)
    BY <1>4, <1>5, <1>7, <2>1, Zenon DEF Solo
  <2> QED BY <2>2 DEF r, calls
<1> QED BY <1>6, <1>7

(* What Stop leaves when there is none.                                        *)
LEMMA SoloStopped ==
    ASSUME McpTypeOK, NEW t \in Thread, NEW s \in State \ {"active", "idle"}, NEW calls,
           calls \in {<<SetState(s), SetActive(FALSE)>>, <<SetState(s), SetActive(FALSE), Touch>>},
           threads[t].op \in {"restart", "invoke"} => entry["enabled"] = TRUE,
           threads[t].op = "disable" => Restorable(threads[t].before, 0)
    PROVE  Solo(AfterStop(t, calls), entry, 0)
<1> DEFINE r == AfterStop(t, calls)
<1>1. s \in State /\ FALSE \in BOOLEAN
  OBVIOUS
<1>2. calls \in Seq(RegCall)
  BY <1>1, CallLists, Zenon
<1>3. calls # <<>>
  <2>1. \A x, y, z : <<x, y>> # <<>> /\ <<x, y, z>> # <<>>
    OBVIOUS
  <2> QED BY <2>1, Zenon
<1>4. /\ Becomes(entry, calls, "state", s) /\ Becomes(entry, calls, "active", FALSE)
      /\ threads[t].op \in {"restart", "invoke"} => Becomes(entry, calls, "enabled", TRUE)
  BY <1>1, StateCalls, Zenon
<1>5. /\ r.at = "registry" /\ r.op = threads[t].op /\ r.before = threads[t].before
      /\ r.op = "disable" => r.calls = calls \o Disable /\ r.then = "persist"
      /\ r.op # "disable" =>
           r.calls = calls /\ r.then = IF r.op = "restart" THEN "start" ELSE "rest"
  BY <1>2, <1>3, AfterStopOK
<1> HIDE DEF r
<1>6. CASE r.op = "disable"
  <2>1. Becomes(entry, r.calls, "state", s) /\ Becomes(entry, r.calls, "active", FALSE)
    BY <1>2, <1>4, <1>5, <1>6, DisableCalls, Zenon
  <2>2. Goal(r) = "persist" /\ Agrees(r.calls, entry, 0)
    BY <1>5, <1>6, <2>1, Zenon DEF Goal, Agrees
  <2>3. Solo(r, entry, 0)
    BY <1>5, <1>6, <2>2 DEF Solo
  <2> QED BY <2>3 DEF r
<1>7. CASE r.op # "disable"
  <2>1. Goal(r) \in {"start", "rest"} /\ Agrees(r.calls, entry, 0)
    BY <1>4, <1>5, <1>7, Zenon DEF Goal, Agrees
  <2>2. Goal(r) = "start" => r.op = "restart"
    BY <1>5, <1>7 DEF Goal
  <2>3. Solo(r, entry, 0)
    BY <1>4, <1>5, <1>7, <2>1, <2>2, Zenon DEF Solo
  <2> QED BY <2>3 DEF r
<1> QED BY <1>6, <1>7

LEMMA SoloFindsRunning ==
    ASSUME McpTypeOK, NEW t \in Thread, StartFindsRunning(t), Solo(threads[t], entry, table)
    PROVE  Solo(threads[t], entry, table)'
<1>1. PICK s \in {"active", "idle"} :
        LET r == AfterStart(t, <<SetState(s), SetActive(TRUE), Touch>>)
        IN Goes(t, r) /\ ThreadOK(r)
  BY FindsRunningThread, Zenon
<1> DEFINE r == AfterStart(t, <<SetState(s), SetActive(TRUE), Touch>>)
<1>2. threads[t].at = "running" /\ UNCHANGED <<entry, table>>
  BY DEF StartFindsRunning
<1>3. threads'[t] = r
  BY <1>1, OnlyThread
<1>4. Goal(threads[t]) = "running" /\ threads[t].calls = <<>>
  BY <1>2, IdleThread
<1>5. table # 0 /\ entry["enabled"] = TRUE
  BY <1>4, BecomesNow, Zenon DEF Solo, Agrees
<1>6. Solo(r, entry, table)
  BY <1>5, SoloStarted, Zenon
<1> HIDE DEF r
<1> QED BY <1>2, <1>3, <1>6

LEMMA SoloInstall ==
    ASSUME ProcsInv, NEW t \in Thread, Install(t), Solo(threads[t], entry, table)
    PROVE  Solo(threads[t], entry, table)'
<1>0. McpTypeOK
  BY DEF ProcsInv
<1> DEFINE calls == <<SetState("idle"), SetActive(TRUE), Touch>>
           r == AfterStart(t, calls)
<1>1. /\ threads[t].at = "install" /\ Goes(t, r) /\ table' = threads[t].proc /\ UNCHANGED entry
  BY Zenon DEF Install
<1>2. "idle" \in State /\ TRUE \in BOOLEAN
  BY DEF State
<1>3. calls \in Seq(RegCall)
  BY <1>2, CallLists, Zenon
<1>4. calls # <<>>
  BY <1>3
<1>5. Goal(threads[t]) = "install" /\ threads[t].calls = <<>>
  BY <1>0, <1>1, IdleThread
<1>6. table' # 0 /\ entry["enabled"] = TRUE
  <2>1. Becomes(entry, <<>>, "enabled", TRUE)
    BY <1>5, Zenon DEF Solo
  <2>2. threads[t].proc # 0
    BY <1>1 DEF ProcsInv, OnlySpawned
  <2> QED BY <1>1, <2>1, <2>2, BecomesNow, Zenon
<1>7. Solo(r, entry, table')
  BY <1>0, <1>6, SoloStarted, Zenon
<1> HIDE DEF calls
<1>8. ThreadOK(r)
  BY <1>0, <1>3, <1>4, AfterStartOK
<1> HIDE DEF r
<1>9. threads'[t] = r
  BY <1>0, <1>1, <1>8, OnlyThread
<1> QED BY <1>1, <1>7, <1>9

(* The steps of Start that bring no process.                                   *)
LEMMA SoloSpawnFails ==
    ASSUME McpTypeOK, NEW t \in Thread, SpawnFails(t), Solo(threads[t], entry, table)
    PROVE  Solo(threads[t], entry, table)'
<1>1. PICK r : /\ Goes(t, r) /\ ThreadOK(r) /\ r.at = "registry" /\ r.then = "rest"
               /\ r.op = threads[t].op /\ r.before = threads[t].before
               /\ r.calls = <<SetState("stopped"), SetActive(FALSE)>>
  BY SpawnFailsThread, Zenon
<1>2. threads[t].at = "spawn" /\ UNCHANGED <<entry, table>>
  BY DEF SpawnFails
<1>3. threads'[t] = r
  BY <1>1, OnlyThread
<1>4. Goal(threads[t]) = "spawn" /\ threads[t].calls = <<>>
  BY <1>2, IdleThread
<1>5. table = 0 /\ entry["enabled"] = TRUE
  <2>1. table = 0 /\ Becomes(entry, <<>>, "enabled", TRUE)
    BY <1>4, Zenon DEF Solo
  <2> QED BY <2>1, BecomesNow, Zenon
<1>6. "stopped" \in State \ {"active", "idle"} /\ FALSE \in BOOLEAN
  BY DEF State
<1>7. /\ Becomes(entry, r.calls, "state", "stopped") /\ Becomes(entry, r.calls, "active", FALSE)
      /\ Becomes(entry, r.calls, "enabled", TRUE)
  BY <1>1, <1>5, <1>6, StateCalls, Zenon
<1>8. Goal(r) = "rest" /\ Agrees(r.calls, entry, table)
  BY <1>1, <1>5, <1>6, <1>7, Zenon DEF Goal, Agrees
<1>9. Solo(r, entry, table)
  BY <1>7, <1>8, Zenon DEF Solo
<1> QED BY <1>2, <1>3, <1>9

LEMMA SoloSpawn ==
    ASSUME McpTypeOK, NEW t \in Thread, Spawn(t), Solo(threads[t], entry, table)
    PROVE  Solo(threads[t], entry, table)'
<1> DEFINE n == spawned + 1
           r == [To(t, "install") EXCEPT !.proc = n]
<1>1. /\ n \in 0..MaxProcs /\ Goes(t, r) /\ threads[t].at = "spawn" /\ UNCHANGED <<entry, table>>
  BY McpAssumption DEF Spawn, McpTypeOK
<1>2. "install" \in Label \ {"registry", "persist"}
  BY DEF Label
<1>3. /\ ThreadOK(r) /\ r.at = "install" /\ r.calls = <<>>
      /\ r.op = threads[t].op /\ r.before = threads[t].before
  BY <1>1, <1>2, ToOK
<1> HIDE DEF r
<1>4. threads'[t] = r
  BY <1>1, <1>3, OnlyThread
<1>5. Goal(threads[t]) = "spawn" /\ threads[t].calls = <<>> /\ Goal(r) = "install"
  BY <1>1, <1>3, IdleThread DEF Goal
<1>6. Solo(r, entry, table)
  BY <1>3, <1>5, Zenon DEF Solo
<1> QED BY <1>1, <1>4, <1>6

LEMMA SoloStartAgain ==
    ASSUME McpTypeOK, NEW t \in Thread, StartAgain(t), Solo(threads[t], entry, table)
    PROVE  Solo(threads[t], entry, table)'
<1>1. threads[t].at = "start" /\ UNCHANGED <<entry, table>>
  BY Zenon DEF StartAgain
<1>2. Goal(threads[t]) = "start" /\ threads[t].calls = <<>>
  BY <1>1, IdleThread
<1>3. entry["enabled"] = TRUE
  <2>1. Becomes(entry, <<>>, "enabled", TRUE)
    BY <1>2, Zenon DEF Solo
  <2> QED BY <2>1, BecomesNow, Zenon
<1>4. PICK r : /\ Goes(t, r) /\ ThreadOK(r) /\ r.calls = <<>> /\ r.at = "look up"
               /\ r.op = threads[t].op /\ r.before = threads[t].before
  BY <1>3, StartAgainThread, Zenon
<1>5. threads'[t] = r
  BY <1>4, OnlyThread, Zenon
<1>6. Goal(r) = "look up"
  BY <1>4, Zenon DEF Goal
<1>7. Solo(r, entry, table)
  BY <1>2, <1>4, <1>6, Zenon DEF Solo
<1> QED BY <1>1, <1>5, <1>7

(* Stop.                                                                       *)
LEMMA SoloStop ==
    ASSUME McpTypeOK, NEW t \in Thread, Stop(t), Solo(threads[t], entry, table)
    PROVE  Solo(threads[t], entry, table)'
<1>1. threads[t].at = "stop" /\ UNCHANGED entry
  BY DEF Stop
<1>2. Goal(threads[t]) = "stop" /\ threads[t].calls = <<>>
  BY <1>1, IdleThread
<1>3. /\ Agrees(<<>>, entry, table)
      /\ threads[t].op \in {"restart", "invoke"} => Becomes(entry, <<>>, "enabled", TRUE)
      /\ threads[t].op = "disable" => Restorable(threads[t].before, table)
  BY <1>2, Zenon DEF Solo
<1>4. CASE table # 0 /\ procs[table].inUse > 0
  <2>1. Goes(t, Resting) /\ UNCHANGED table
    BY <1>4 DEF Stop
  <2>2. threads'[t] = Resting
    BY <2>1, RestingOK, OnlyThread
  <2>3. Solo(Resting, entry, table)
    BY <1>3, SoloRests
  <2> QED BY <1>1, <2>1, <2>2, <2>3
<1>5. CASE table # 0 /\ ~(procs[table].inUse > 0)
  <2> DEFINE r == [To(t, "kill") EXCEPT !.proc = table]
  <2>1. Goes(t, r) /\ table' = 0 /\ table \in 0..MaxProcs
    BY <1>5 DEF Stop, StopTakes, McpTypeOK
  <2>2. "kill" \in Label \ {"registry", "persist"}
    BY DEF Label
  <2>3. /\ ThreadOK(r) /\ r.at = "kill" /\ r.calls = <<>>
        /\ r.op = threads[t].op /\ r.before = threads[t].before
    BY <1>1, <2>1, <2>2, ToOK
  <2> HIDE DEF r
  <2>4. threads'[t] = r
    BY <2>1, <2>3, OnlyThread
  <2>5. Goal(r) = "kill"
    BY <2>3 DEF Goal
  <2>6. Restorable(threads[t].before, table) => Restorable(threads[t].before, 0)
    BY DEF Restorable
  <2>7. Solo(r, entry, 0)
    BY <1>3, <2>3, <2>5, <2>6, Zenon DEF Solo
  <2> QED BY <1>1, <2>1, <2>4, <2>7
<1>6. CASE table = 0
  <2> DEFINE calls == <<SetState(Stopped(t)), SetActive(FALSE)>>
             r == AfterStop(t, calls)
  <2>1. Goes(t, r) /\ UNCHANGED table
    BY <1>6 DEF Stop, StopTakes
  <2>2. Stopped(t) \in State \ {"active", "idle"} /\ FALSE \in BOOLEAN
    BY DEF State, Stopped
  <2>3. calls \in Seq(RegCall)
    BY <2>2, CallLists, Zenon
  <2>4. calls # <<>>
    BY <2>3
  <2>5. threads[t].op \in {"restart", "invoke"} => entry["enabled"] = TRUE
    BY <1>3, BecomesNow, Zenon
  <2>6. Solo(r, entry, 0)
    BY <1>3, <1>6, <2>2, <2>5, SoloStopped, Zenon
  <2> HIDE DEF calls
  <2>7. ThreadOK(r)
    BY <2>3, <2>4, AfterStopOK
  <2> HIDE DEF r
  <2>8. threads'[t] = r
    BY <2>1, <2>7, OnlyThread
  <2> QED BY <1>1, <1>6, <2>1, <2>6, <2>8
<1> QED BY <1>4, <1>5, <1>6

LEMMA SoloKill ==
    ASSUME McpTypeOK, NEW t \in Thread, KillProcess(t), Solo(threads[t], entry, table)
    PROVE  Solo(threads[t], entry, table)'
<1> DEFINE calls == <<SetState(Stopped(t)), SetActive(FALSE), Touch>>
           r == AfterStop(t, calls)
<1>1. threads[t].at = "kill" /\ Goes(t, r) /\ UNCHANGED <<entry, table>>
  BY DEF KillProcess
<1>2. Goal(threads[t]) = "kill" /\ threads[t].calls = <<>>
  BY <1>1, IdleThread
<1>3. /\ table = 0
      /\ threads[t].op \in {"restart", "invoke"} => Becomes(entry, <<>>, "enabled", TRUE)
      /\ threads[t].op = "disable" => Restorable(threads[t].before, 0)
  BY <1>2, Zenon DEF Solo
<1>4. Stopped(t) \in State \ {"active", "idle"} /\ FALSE \in BOOLEAN
  BY DEF State, Stopped
<1>5. calls \in Seq(RegCall)
  BY <1>4, CallLists, Zenon
<1>6. calls # <<>>
  BY <1>5
<1>7. threads[t].op \in {"restart", "invoke"} => entry["enabled"] = TRUE
  BY <1>3, BecomesNow, Zenon
<1>8. Solo(r, entry, 0)
  BY <1>3, <1>4, <1>7, SoloStopped, Zenon
<1> HIDE DEF calls
<1>9. ThreadOK(r)
  BY <1>5, <1>6, AfterStopOK
<1> HIDE DEF r
<1>10. threads'[t] = r
  BY <1>1, <1>9, OnlyThread
<1> QED BY <1>1, <1>3, <1>8, <1>10

(* The save of the registry, and the record put back when it fails.            *)
LEMMA SoloPersist ==
    ASSUME McpTypeOK, NEW t \in Thread, persistMCPRegistry(t), Solo(threads[t], entry, table)
    PROVE  Solo(threads[t], entry, table)'
<1> DEFINE b == threads[t].before
<1>1. threads[t].at = "persist" /\ UNCHANGED <<entry, table>>
  BY DEF persistMCPRegistry
<1>2. Goal(threads[t]) = "persist" /\ threads[t].calls = <<>>
  BY <1>1, IdleThread
<1>3. Agrees(<<>>, entry, table) /\ Restorable(b, table)
  BY <1>2 DEF Solo
<1>4. CASE Goes(t, Resting)
  <2>1. threads'[t] = Resting
    BY <1>4, RestingOK, OnlyThread
  <2>2. Solo(Resting, entry, table)
    BY <1>3, SoloRests
  <2> QED BY <1>1, <2>1, <2>2
<1>5. CASE ~Goes(t, Resting)
  <2>1. PICK r : /\ Goes(t, r) /\ ThreadOK(r) /\ r.at = "registry"
                 /\ r.calls = restoreMCPServerSnapshot(b) /\ r.op = "start"
                 /\ r.then = IF b.enabled /\ b.active THEN "start" ELSE "rest"
    BY <1>5, PersistThread
  <2>2. threads'[t] = r
    BY <2>1, OnlyThread
  <2>3. b \in Entry
    BY <1>3 DEF Restorable
  <2>4. b.enabled \in BOOLEAN /\ b.active \in BOOLEAN /\ b.state \in State
    BY <2>3 DEF Entry
  <2>5. /\ Becomes(entry, r.calls, "enabled", b.enabled) /\ Becomes(entry, r.calls, "state", b.state)
        /\ Becomes(entry, r.calls, "active", b.active)
    BY <2>1, <2>3, RestoreFields
  <2>6. Goal(r) = r.then
    BY <2>1 DEF Goal
  <2>7. CASE b.enabled /\ b.active
    <3>1. Goal(r) = "start"
      BY <2>1, <2>6, <2>7
    <3>2. b.enabled = TRUE /\ b.active = TRUE /\ b.state \in {"active", "idle"}
      BY <1>3, <2>4, <2>7 DEF Restorable
    <3>3. table = 0 \/ Agrees(r.calls, entry, table)
      BY <2>5, <3>2, Zenon DEF Agrees
    <3>4. Becomes(entry, r.calls, "enabled", TRUE)
      BY <2>5, <3>2, Zenon
    <3>5. Solo(r, entry, table)
      BY <2>1, <3>1, <3>3, <3>4, Zenon DEF Solo
    <3> QED BY <1>1, <2>2, <3>5
  <2>8. CASE ~(b.enabled /\ b.active)
    <3>1. Goal(r) = "rest"
      BY <2>1, <2>6, <2>8
    <3>2. b.active = FALSE /\ b.state \in State \ {"active", "idle"} /\ table = 0
      BY <1>3, <2>4, <2>8 DEF Restorable
    <3>3. Agrees(r.calls, entry, table)
      BY <2>5, <3>2, Zenon DEF Agrees
    <3>4. Solo(r, entry, table)
      BY <2>1, <3>1, <3>3, Zenon DEF Solo
    <3> QED BY <1>1, <2>2, <3>4
  <2> QED BY <2>7, <2>8
<1> QED BY <1>4, <1>5

(* Invoke.                                                                     *)
LEMMA SoloIsRunning ==
    ASSUME McpTypeOK, NEW t \in Thread, isRunning(t), Solo(threads[t], entry, table)
    PROVE  Solo(threads[t], entry, table)'
<1>1. threads[t].at = "is running" /\ UNCHANGED <<entry, table>>
  BY Zenon DEF isRunning
<1>2. Goal(threads[t]) = "is running" /\ threads[t].calls = <<>>
  BY <1>1, IdleThread, Zenon
<1>3. Agrees(<<>>, entry, table) /\ Becomes(entry, <<>>, "enabled", TRUE)
  BY <1>2, Zenon DEF Solo
<1>4. CASE Goes(t, Resting)
  <2>1. threads'[t] = Resting
    BY <1>4, RestingOK, OnlyThread
  <2>2. Solo(Resting, entry, table)
    BY <1>3, SoloRests
  <2> QED BY <1>1, <2>1, <2>2, Zenon
<1>5. CASE ~Goes(t, Resting)
  <2>1. PICK r : /\ Goes(t, r) /\ ThreadOK(r)
                 /\ r.op = threads[t].op /\ r.before = threads[t].before
                 /\ table # 0 => /\ r.at = "registry" /\ r.calls = Activate
                                 /\ r.then = "acquire"
                 /\ table = 0 => r.at = "start" /\ r.calls = <<>>
    BY <1>5, IsRunningThread
  <2>2. threads'[t] = r
    BY <2>1, OnlyThread
  <2>3. CASE table # 0
    <3>1. Becomes(entry, <<>>, "active", TRUE)
      BY <1>3, <2>3, Zenon DEF Agrees
    <3>2. <<>> \in Seq(RegCall) /\ <<>> \o Activate = Activate
      BY CallLists
    <3>3. /\ Becomes(entry, Activate, "state", "active") /\ Becomes(entry, Activate, "active", TRUE)
          /\ Becomes(entry, Activate, "enabled", TRUE)
      BY <1>3, <3>1, <3>2, ActivateCalls, Zenon
    <3>4. Goal(r) = "acquire" /\ Agrees(Activate, entry, table)
      BY <2>1, <2>3, <3>3, Zenon DEF Goal, Agrees
    <3>5. Solo(r, entry, table)
      BY <2>1, <2>3, <3>3, <3>4, Zenon DEF Solo
    <3> QED BY <1>1, <2>2, <3>5, Zenon
  <2>4. CASE table = 0
    <3>1. Goal(r) = "start"
      BY <2>1, <2>4 DEF Goal
    <3>2. Solo(r, entry, table)
      BY <1>3, <2>1, <2>4, <3>1, Zenon DEF Solo
    <3> QED BY <1>1, <2>2, <3>2, Zenon
  <2> QED BY <2>3, <2>4
<1> QED BY <1>4, <1>5

LEMMA SoloAcquire ==
    ASSUME McpTypeOK, NEW t \in Thread, acquireProcess(t), Solo(threads[t], entry, table)
    PROVE  Solo(threads[t], entry, table)'
<1> DEFINE r == [To(t, "call") EXCEPT !.proc = table]
<1>1. threads[t].at = "acquire" /\ UNCHANGED <<entry, table>>
  BY DEF acquireProcess
<1>2. Goal(threads[t]) = "acquire" /\ threads[t].calls = <<>>
  BY <1>1, IdleThread
<1>3. table # 0 /\ table \in 0..MaxProcs
  BY <1>2 DEF Solo, McpTypeOK
<1>4. Goes(t, r)
  BY <1>3 DEF acquireProcess
<1>5. "call" \in Label \ {"registry", "persist"}
  BY DEF Label
<1>6. /\ ThreadOK(r) /\ r.at = "call" /\ r.calls = <<>>
      /\ r.op = threads[t].op /\ r.before = threads[t].before
  BY <1>1, <1>3, <1>5, ToOK
<1> HIDE DEF r
<1>7. threads'[t] = r
  BY <1>4, <1>6, OnlyThread
<1>8. Goal(r) = "call"
  BY <1>6 DEF Goal
<1>9. Solo(r, entry, table)
  BY <1>2, <1>6, <1>8, Zenon DEF Solo
<1> QED BY <1>1, <1>7, <1>9

LEMMA SoloRelease ==
    ASSUME ProcsInv, NEW t \in Thread, releaseProcess(t), Solo(threads[t], entry, table)
    PROVE  Solo(threads[t], entry, table)'
<1>0. McpTypeOK
  BY DEF ProcsInv
<1>1. threads[t].at = "call" /\ UNCHANGED <<entry, table>>
  BY DEF releaseProcess
<1>2. Goal(threads[t]) = "call" /\ threads[t].calls = <<>>
  BY <1>0, <1>1, IdleThread
<1>3. Agrees(<<>>, entry, table) /\ table # 0
  BY <1>2 DEF Solo
<1>4. PICK r : /\ Goes(t, r) /\ ThreadOK(r) /\ r.at \in {"rest", "registry"}
               /\ r.at = "rest" => r = Resting
               /\ r.at = "registry" => /\ r.calls = <<SetState("idle"), Touch>>
                                       /\ r.then = "rest" /\ r.op = threads[t].op
  BY ReleaseThread
<1>5. threads'[t] = r
  BY <1>0, <1>4, OnlyThread
<1>6. CASE r = Resting
  <2>1. Solo(r, entry, table)
    BY <1>3, <1>6, SoloRests
  <2> QED BY <1>1, <1>5, <2>1
<1>7. CASE r # Resting
  <2>1. entry["active"] = TRUE /\ entry["enabled"] = TRUE
    BY <1>3, BecomesNow, Zenon DEF Agrees
  <2>2. /\ Becomes(entry, r.calls, "state", "idle") /\ Becomes(entry, r.calls, "active", TRUE)
        /\ Becomes(entry, r.calls, "enabled", TRUE)
    BY <1>4, <1>7, <2>1, IdleCalls, Zenon
  <2>3. Goal(r) = "rest" /\ Agrees(r.calls, entry, table)
    BY <1>3, <1>4, <1>7, <2>2, Zenon DEF Goal, Agrees
  <2>4. Solo(r, entry, table)
    BY <2>2, <2>3, Zenon DEF Solo
  <2> QED BY <1>1, <1>5, <2>4
<1> QED BY <1>6, <1>7

(* The idle timeout changes no field that the table knows of.                  *)
LEMMA SoloTimePasses ==
    ASSUME McpTypeOK, TimePasses, NEW t \in Thread, Solo(threads[t], entry, table)
    PROVE  Solo(threads[t], entry, table)'
<1>1. UNCHANGED <<table, threads>> /\ entry' = [entry EXCEPT !.used = "old"]
  BY DEF TimePasses
<1>2. \A f \in {"state", "active", "enabled"} : entry'[f] = entry[f]
  BY <1>1 DEF McpTypeOK, Entry
<1>3. \A calls, v : \A f \in {"state", "active", "enabled"} :
        Becomes(entry, calls, f, v) => Becomes(entry', calls, f, v)
  BY <1>2 DEF Becomes
<1>4. \A calls : Agrees(calls, entry, table) => Agrees(calls, entry', table)
  BY <1>3, Zenon DEF Agrees
<1>5. Solo(threads[t], entry', table)
  BY <1>3, <1>4, Zenon DEF Solo
<1> QED BY <1>1, <1>5

(* A request that begins finds a record that agrees.                           *)
LEMMA SoloBegins ==
    ASSUME McpTypeOK, NEW t \in Thread, Agrees(<<>>, entry, table),
           NEW op \in PlainOp, NEW label \in PlainLabel,
           op # "stop" /\ op # "sweep" => entry.enabled, label # "stop" => entry.enabled
    PROVE  Solo(Request(op, label), entry, table)
<1> DEFINE r == Request(op, label)
<1>1. r.op = op /\ r.at = label /\ r.calls = <<>>
  BY RequestThreads
<1> HIDE DEF r
<1>2. Goal(r) = label
  BY <1>1, Zenon DEF Goal, PlainLabel
<1>3. entry.enabled => Becomes(entry, <<>>, "enabled", TRUE)
  BY BecomesNow, Zenon DEF McpTypeOK, Entry
<1>4. Solo(r, entry, table)
  BY <1>1, <1>2, <1>3, Zenon DEF Solo, PlainOp, PlainLabel
<1> QED BY <1>4 DEF r

LEMMA SoloToggles ==
    ASSUME McpTypeOK, Agrees(<<>>, entry, table)
    PROVE  /\ Solo([Request("disable", "stop") EXCEPT !.before = entry], entry, table)
           /\ Solo([Request("enable", "registry") EXCEPT
                      !.before = entry, !.calls = << <<"enabled", TRUE>> >>, !.then = "persist"],
                   entry, table)
<1> DEFINE d == [Request("disable", "stop") EXCEPT !.before = entry]
           calls == << <<"enabled", TRUE>> >>
           r == [Request("enable", "registry") EXCEPT
                   !.before = entry, !.calls = calls, !.then = "persist"]
<1>0. entry \in Entry
  BY DEF McpTypeOK
<1>1. Restorable(entry, table)
  BY <1>0, AgreesNow DEF Restorable
<1>2. Solo(d, entry, table)
  <2>1. d.op = "disable" /\ d.at = "stop" /\ d.calls = <<>> /\ d.before = entry
    BY DisableRequestOK
  <2> HIDE DEF d
  <2>2. Goal(d) = "stop"
    BY <2>1 DEF Goal
  <2> QED BY <1>1, <2>1, <2>2 DEF Solo
<1>3. Solo(r, entry, table)
  <2>1. /\ r.op = "enable" /\ r.at = "registry" /\ r.then = "persist"
        /\ r.calls = calls /\ r.before = entry
    BY EnableRequestOK, Zenon
  <2> HIDE DEF r
  <2>2. Goal(r) = "persist"
    BY <2>1 DEF Goal
  <2> DEFINE c == <<"enabled", TRUE>>
  <2>3. c \in RegCall /\ c[1] = "enabled" /\ c[2] = TRUE
    BY CallTypes, Zenon
  <2>4. calls = Append(<<>>, c) /\ <<>> \in Seq(RegCall)
    OBVIOUS
  <2> HIDE DEF c, calls
  <2>5. /\ Becomes(entry, calls, "enabled", TRUE)
        /\ \A f \in {"state", "active"} : \A v :
             Becomes(entry, <<>>, f, v) => Becomes(entry, calls, f, v)
    BY <2>3, <2>4, BecomesLast, Zenon
  <2>6. Agrees(calls, entry, table)
    BY <2>5, Zenon DEF Agrees
  <2> QED BY <1>1, <2>1, <2>2, <2>6 DEF Solo
<1> QED BY <1>2, <1>3

(* A request begins alone.                                                     *)
LEMMA BeginsAlone ==
    ASSUME ProcsInv, SoloInv, NEW t \in Thread, NEW r, ThreadOK(r), Begins(t, r),
           Agrees(<<>>, entry, table) => Solo(r, entry, table)
    PROVE  SoloInv'
<1>1. /\ Goes(t, r) /\ UNCHANGED <<entry, table>>
      /\ overlapped' = (overlapped \/ \E u \in Thread : threads[u] # Resting)
  BY DEF Begins
<1>2. \A u \in Thread : threads'[u] = IF u = t THEN r ELSE threads[u]
  BY <1>1, OnlyThread DEF ProcsInv
<1> SUFFICES ASSUME ~overlapped'
             PROVE  \E v \in Thread : /\ Solo(threads'[v], entry', table')
                                      /\ \A u \in Thread \ {v} : threads'[u] = Resting
  BY DEF SoloInv
<1>3. ~overlapped /\ \A u \in Thread : threads[u] = Resting
  BY <1>1, Zenon
<1>4. Solo(Resting, entry, table)
  BY <1>3, Zenon DEF SoloInv
<1>5. Agrees(<<>>, entry, table)
  <2>1. Goal(Resting) = "rest"
    BY RestingFields DEF Goal
  <2> QED BY <1>4, <2>1, RestingFields, Zenon DEF Solo
<1>6. Solo(threads'[t], entry', table')
  BY <1>1, <1>2, <1>5
<1> QED BY <1>2, <1>3, <1>6

LEMMA RequestsKeepSolo ==
    ASSUME ProcsInv, SoloInv, NEW t \in Thread,
           \/ StartMCPServer(t) \/ StopMCPServer(t) \/ RestartMCPServer(t) \/ InvokeMCP(t)
           \/ SetMCPServerEnabled(t) \/ (t = Sweeper /\ SweepIdle)
    PROVE  SoloInv'
<1>0. McpTypeOK
  BY DEF ProcsInv
<1>1. ASSUME NEW op \in PlainOp, NEW label \in PlainLabel, Begins(t, Request(op, label)),
             op # "stop" /\ op # "sweep" => entry.enabled, label # "stop" => entry.enabled
      PROVE  SoloInv'
  <2>1. ThreadOK(Request(op, label))
    BY RequestThreads
  <2>2. Agrees(<<>>, entry, table) => Solo(Request(op, label), entry, table)
    BY <1>0, <1>1, SoloBegins
  <2> QED BY <1>1, <2>1, <2>2, BeginsAlone
<1>2. /\ {"start", "stop", "restart", "invoke", "sweep"} \subseteq PlainOp
      /\ {"look up", "stop", "is running"} \subseteq PlainLabel
  BY DEF PlainOp, PlainLabel
<1>3. CASE StartMCPServer(t)
  BY <1>1, <1>2, <1>3, Zenon DEF StartMCPServer
<1>4. CASE StopMCPServer(t)
  BY <1>1, <1>2, <1>4, Zenon DEF StopMCPServer
<1>5. CASE RestartMCPServer(t)
  BY <1>1, <1>2, <1>5, Zenon DEF RestartMCPServer
<1>6. CASE InvokeMCP(t)
  BY <1>1, <1>2, <1>6, Zenon DEF InvokeMCP
<1>7. CASE t = Sweeper /\ SweepIdle
  BY <1>1, <1>2, <1>7, Zenon DEF SweepIdle
<1>8. CASE SetMCPServerEnabled(t)
  <2> DEFINE d == [Request("disable", "stop") EXCEPT !.before = entry]
             e == [Request("enable", "registry") EXCEPT
                     !.before = entry, !.calls = << <<"enabled", TRUE>> >>, !.then = "persist"]
  <2>1. ThreadOK(d) /\ ThreadOK(e)
    BY <1>0, DisableRequestOK, EnableRequestOK
  <2>2. Agrees(<<>>, entry, table) => Solo(d, entry, table) /\ Solo(e, entry, table)
    BY <1>0, SoloToggles
  <2>3. Begins(t, d) \/ Begins(t, e)
    BY <1>8 DEF SetMCPServerEnabled
  <2> HIDE DEF d, e
  <2>4. CASE Begins(t, d)
    BY <2>1, <2>2, <2>4, BeginsAlone
  <2>5. CASE Begins(t, e)
    BY <2>1, <2>2, <2>5, BeginsAlone
  <2> QED BY <2>3, <2>4, <2>5
<1> QED BY <1>3, <1>4, <1>5, <1>6, <1>7, <1>8

(* Only a thread that is under way takes a step, and it changes no other.      *)
LEMMA StepOfOne ==
    ASSUME ProcsInv, NEW t \in Thread, McpStep(t)
    PROVE  /\ threads[t].at # "rest" /\ UNCHANGED overlapped
           /\ \A u \in Thread \ {t} : threads'[u] = threads[u]
<1>0. threads \in [Thread -> ThreadType]
  BY DEF ProcsInv, McpTypeOK
<1>1. \A r : Goes(t, r) => \A u \in Thread \ {t} : threads'[u] = threads[u]
  BY <1>0 DEF Goes
<1>2. \E r : Goes(t, r)
  BY Zenon DEF McpStep, Registry, StartLooksUp, StartFindsRunning, SpawnFails, Spawn, Install,
     StartAgain, Stop, StopTakes, KillProcess, persistMCPRegistry, isRunning, acquireProcess,
     releaseProcess
<1>3. threads[t].at # "rest" /\ UNCHANGED overlapped
  BY Zenon DEF McpStep, Registry, StartLooksUp, StartFindsRunning, SpawnFails, Spawn, Install,
     StartAgain, Stop, KillProcess, persistMCPRegistry, isRunning, acquireProcess, releaseProcess
<1> QED BY <1>1, <1>2, <1>3

(* Every step keeps the record of a server whose requests come one at a time.  *)
LEMMA NextKeepsSolo ==
    ASSUME ProcsInv, SoloInv, [McpNext]_mcpVars
    PROVE  SoloInv'
<1>0. McpTypeOK
  BY DEF ProcsInv
<1>1. ASSUME NEW t \in Thread, McpStep(t)
      PROVE  SoloInv'
  <2> SUFFICES ASSUME ~overlapped'
               PROVE  \E v \in Thread : /\ Solo(threads[v], entry, table)'
                                        /\ \A u \in Thread \ {v} : threads'[u] = Resting
    BY DEF SoloInv
  <2>1. /\ threads[t].at # "rest" /\ ~overlapped
        /\ \A u \in Thread \ {t} : threads'[u] = threads[u]
    BY <1>1, StepOfOne
  <2>2. PICK v \in Thread : /\ Solo(threads[v], entry, table)
                            /\ \A u \in Thread \ {v} : threads[u] = Resting
    BY <2>1 DEF SoloInv
  <2>3. v = t
    BY <2>1, <2>2, RestingFields
  <2>4. Solo(threads[t], entry, table)
    BY <2>2, <2>3
  <2>5. Solo(threads[t], entry, table)'
    BY <1>0, <1>1, <2>4, SoloRegistry, SoloLooksUp, SoloFindsRunning, SoloSpawnFails, SoloSpawn,
       SoloInstall, SoloStartAgain, SoloStop, SoloKill, SoloPersist, SoloIsRunning, SoloAcquire,
       SoloRelease, Zenon DEF McpStep
  <2>6. \A u \in Thread \ {t} : threads'[u] = Resting
    BY <2>1, <2>2, <2>3
  <2> QED BY <2>5, <2>6
<1>2. CASE TimePasses
  <2>1. UNCHANGED <<threads, overlapped>>
    BY <1>2 DEF TimePasses
  <2> SUFFICES ASSUME ~overlapped
               PROVE  \E v \in Thread : /\ Solo(threads[v], entry, table)'
                                        /\ \A u \in Thread \ {v} : threads'[u] = Resting
    BY <2>1 DEF SoloInv
  <2>2. PICK v \in Thread : /\ Solo(threads[v], entry, table)
                            /\ \A u \in Thread \ {v} : threads[u] = Resting
    BY DEF SoloInv
  <2>3. Solo(threads[v], entry, table)'
    BY <1>0, <1>2, <2>2, SoloTimePasses
  <2> QED BY <2>1, <2>2, <2>3
<1>3. CASE UNCHANGED mcpVars
  BY <1>3 DEF mcpVars, SoloInv
<1>4. Sweeper \in Thread /\ \A t \in Requests : t \in Thread
  BY DEF Thread
<1> QED BY <1>1, <1>2, <1>3, <1>4, RequestsKeepSolo DEF McpNext

(* At rest, the record is what it was to become.                               *)
LEMMA SoloMeansAgrees ==
    ASSUME ProcsInv, SoloInv
    PROVE  RegistryAgrees
<1> SUFFICES ASSUME ~overlapped, \A t \in Thread : threads[t] = Resting
             PROVE  /\ entry.active <=> table # 0
                    /\ entry.state \in {"active", "idle"} <=> table # 0
                    /\ table # 0 => entry.enabled
  BY DEF RegistryAgrees
<1>1. Solo(Resting, entry, table)
  BY Zenon DEF SoloInv
<1>2. Goal(Resting) = "rest"
  BY RestingFields DEF Goal
<1>3. Agrees(<<>>, entry, table)
  BY <1>1, <1>2, RestingFields DEF Solo
<1>4. entry \in Entry
  BY DEF ProcsInv, McpTypeOK
<1> QED BY <1>3, <1>4, AgreesNow

(* The runtime starts with no process and a record that says so.               *)
LEMMA McpInitKeeps ==
    ASSUME McpInit
    PROVE  ProcsInv /\ SoloInv
<1>1. \A t \in Thread : threads[t] = Resting
  BY DEF McpInit
<1>2. \A p : Users(p) = {}
  BY <1>1, RestingFields DEF Users
<1>3. McpTypeOK
  <2>1. entry \in Entry
    BY DEF McpInit, Entry, State, Used
  <2>2. \A t \in Thread : ThreadOK(threads[t])
    BY <1>1, RestingOK
  <2>3. threads \in [Thread -> ThreadType]
    BY RestingFields DEF McpInit
  <2>4. /\ table = 0 /\ spawned = 0 /\ overlapped = FALSE
        /\ procs = [p \in Proc |-> [life |-> "none", inUse |-> 0]]
    BY DEF McpInit
  <2>5. 0 \in 0..MaxProcs
    BY McpAssumption
  <2>7. table \in 0..MaxProcs /\ spawned \in 0..MaxProcs /\ overlapped \in BOOLEAN
    BY <2>4, <2>5, Zenon
  <2>6. procs \in [Proc -> [life : {"none", "running", "killed"}, inUse : Nat]]
    BY <2>4
  <2> QED BY <2>1, <2>2, <2>3, <2>6, <2>7 DEF McpTypeOK
<1>4. OnePlace /\ NotKilled
  BY <1>1, RestingFields DEF McpInit, OnePlace, NotKilled
<1>5. OnlySpawned
  BY <1>1, RestingFields DEF McpInit, OnlySpawned
<1>6. CallsAreProtected
  BY <1>2, FS_EmptySet DEF McpInit, CallsAreProtected
<1>7. NoLostProcess
  BY DEF McpInit, NoLostProcess
<1>8. Agrees(<<>>, entry, table)
  BY <1>3, AgreesNow DEF McpInit, McpTypeOK
<1>9. SoloInv
  <2>1. Sweeper \in Thread
    BY DEF Thread
  <2> QED BY <1>1, <1>8, <2>1, SoloRests DEF SoloInv
<1> QED BY <1>3, <1>4, <1>5, <1>6, <1>7, <1>9 DEF ProcsInv

(* For any number of requests in flight beside the sweep: no stop, restart,    *)
(* disable or sweep kills a process that a call has acquired, and the use      *)
(* counts are exact; no process is lost but a handle that a second Start       *)
(* replaced; and when requests come one at a time the registry's record agrees *)
(* with the process table whenever the server is at rest.                      *)
THEOREM McpIsSoundAlways == McpSpec => []McpIsSound
<1>1. McpInit => ProcsInv /\ SoloInv
  BY McpInitKeeps
<1>2. ProcsInv /\ SoloInv /\ [McpNext]_mcpVars => ProcsInv' /\ SoloInv'
  BY NextKeepsProcs, NextKeepsSolo
<1>3. ProcsInv /\ SoloInv => McpIsSound
  BY SoloMeansAgrees DEF McpIsSound, ProcsInv
<1> QED BY <1>1, <1>2, <1>3, PTL DEF McpSpec
===============================================================================
