----------------------------- MODULE AgentProofs -----------------------------
(***************************************************************************)
(* Proofs about the AI panel, for any number of operations, functions in   *)
(* flight and failures.  AgentSubmission: the panel is busy exactly while  *)
(* the active submission runs, no stream outlives its submission, and the  *)
(* cards say what happened.  AgentConversations: the spinner of the list   *)
(* turns exactly while the newest list request is out, and the panel ends  *)
(* up showing the active conversation.                                     *)
(*                                                                         *)
(* Nonces are never used twice, so a task is active only in the opening    *)
(* that began it.  In an opening that no older task has disturbed, a flow  *)
(* that waits for the operator, an approval under way and an active        *)
(* submission exclude each other; that is why no finally block frees a     *)
(* panel another task holds, and why a new submission never takes over a   *)
(* stream or an audit card that is still in use.                           *)
(*                                                                         *)
(* The nonce of a list request is its own, and none is ahead of the        *)
(* panel's; so the request that stops the spinner is the last one begun    *)
(* (ListInv).  As long as no two functions are in flight that no counter   *)
(* orders, the panel shows the active conversation, or the one transition  *)
(* that moved it on is in flight and its answer will count (LiveInv).      *)
(***************************************************************************)
EXTENDS AgentSubmission, AgentConversations, TLAPS

-----------------------------------------------------------------------------
(* The submissions of the AI panel.                                        *)

ChatField == {"open", "opening", "nonce", "submitting", "cancellable", "blocked", "stream", "audit", "flow"}
TaskField == {"id", "kind", "step", "audit", "nonce", "opening", "conn", "token", "errored", "aborted"}
ServiceField == {"saved", "ran"}
FlowField == {"id", "kind"}

IsChat(p) ==
    /\ p = [f \in ChatField |-> p[f]]
    /\ p.opening \in Nat /\ p.nonce \in Nat
    /\ p.flow = [f \in FlowField |-> p.flow[f]] 
    /\ p.flow.id # 0 => p.flow.id \in ID /\ p.flow.kind \in FlowKind \ {"none"}

(* The awaits of each kind of task.                                        *)
TaskStepOf(kind, step) ==
    \/ kind = "chat" /\ step \in {"resolving", "connecting", "streaming", "ended", "fetching"}
    \/ kind = "run" /\ step \in {"resolving", "sending", "watching", "explaining", "explained"}
    \/ kind = "approval" /\ step \in {"resolving", "planning", "executing", "confirming",
                                      "watching", "explaining", "explained"}

IsTask(t) ==
    /\ t = [f \in TaskField |-> t[f]]
    /\ t.id \in ID /\ t.opening \in Nat /\ t.nonce \in Nat
    /\ TaskStepOf(t.kind, t.step)

(* isActiveSubmission, for the panel p.                                    *)
Active(t, p) == t.kind # "approval" /\ t.nonce = p.nonce

(* A task of panel p, begun by one of the first n actions.                 *)
TaskOK(t, p, n) ==
    /\ IsTask(t) /\ t.id <= n /\ t.opening <= p.opening
    /\ t.kind = "approval" => t.conn = "none" /\ t.audit = t.id /\ ~t.aborted
    /\ t.kind = "run" => t.audit = 0
    /\ t.kind # "approval" => t.nonce <= p.nonce
    /\ Active(t, p) => /\ p.open /\ t.opening = p.opening /\ p.audit = t.audit
                       /\ t.conn # "closed" /\ ~t.aborted
                       /\ t.conn = "open" => p.stream = t.id

(* No two submissions share a nonce or an id, no two approvals an id.      *)
OwnNames(ts) ==
    \A t, u \in ts :
        /\ t.kind # "approval" /\ u.kind # "approval" /\ (t.nonce = u.nonce \/ t.id = u.id) => t = u
        /\ t.kind = "approval" /\ u.kind = "approval" /\ t.id = u.id => t = u

StreamOK(t, p, lt) == t.conn = "open" => Active(t, p) \/ t.opening \in lt

Tasks(p, ts, n, lt) ==
    /\ IsChat(p) /\ n \in Nat /\ p.flow.id <= n /\ OwnNames(ts)
    /\ p.open => (p.blocked <=> p.submitting)
    /\ \A t \in ts : TaskOK(t, p, n) /\ StreamOK(t, p, lt)

(* Flows: what is approved is not pending, and runs at most once.          *)
FlowsOK(ts, cs, ap, ran, n) ==
    /\ cs = [i \in ID |-> cs[i]] /\ ran \in [ID -> Nat]
    /\ \A i \in ap : i \in ID /\ i <= n /\ cs[i] # "pending"
    /\ \A i \in ID : cs[i] = "pending" => i <= n
    /\ \A i \in ID : ran[i] <= IF i \in ap THEN 1 ELSE 0
    /\ \A t \in ts :
          /\ t.kind = "run" => t.id \notin ap /\ cs[t.id] # "pending"
          /\ t.kind = "approval" =>
                /\ t.id \in ap
                /\ t.step \in {"resolving", "planning", "executing", "confirming"} => ran[t.id] = 0

Idle(p, ts) == \A t \in ts : ~Active(t, p)

(* An opening nobody disturbed: who holds the panel.                       *)
HolderOK(p, ts, cs) ==
    /\ ~Idle(p, ts) => p.submitting
    /\ p.flow.id # 0 => Idle(p, ts)
    /\ \A t \in ts :
          /\ t.kind = "approval" /\ t.opening = p.opening =>
                p.submitting /\ ~p.cancellable /\ p.flow.id = t.id /\ cs[t.id] = "approved"
          /\ t.kind = "run" /\ t.opening = p.opening => Active(t, p) /\ ~p.cancellable
    /\ \A i \in ID : cs[i] = "pending" => p.flow.id = i

(* ... and who will settle each audit card that runs.                      *)
SettlesCard(t, p, i) ==
    /\ t.audit = i
    /\ t.kind = "approval" \/ (t.kind = "chat" /\ Active(t, p) /\ t.step \in {"resolving", "connecting", "streaming"})

AuditsOK(p, ts, as) == \A i \in ID : as[i] = "running" => \E t \in ts : SettlesCard(t, p, i)

Sound(p, ts, cs, as, ap, rn, n, lt) ==
    /\ Tasks(p, ts, n, lt) /\ FlowsOK(ts, cs, ap, rn, n)
    /\ p.open /\ p.opening \notin lt => HolderOK(p, ts, cs) /\ AuditsOK(p, ts, as)

SubInv ==
    /\ Sound(chat, tasks, cards, audits, approved, service.ran, acts, late)
    /\ service = [f \in ServiceField |-> service[f]]
    /\ audits = [i \in ID |-> audits[i]]

-----------------------------------------------------------------------------
(* A task goes on.                                                         *)

(* u is task t after an await, of which the panel p notices nothing but    *)
(* the stream.                                                             *)
Same(u, t) ==
    /\ IsTask(u) /\ u.id = t.id /\ u.kind = t.kind /\ u.nonce = t.nonce
    /\ u.opening = t.opening /\ u.audit = t.audit

SamePanel(p, q) ==
    /\ IsChat(q) /\ q.open = p.open /\ q.opening = p.opening /\ q.nonce = p.nonce
    /\ q.submitting = p.submitting /\ q.cancellable = p.cancellable /\ q.blocked = p.blocked
    /\ q.audit = p.audit /\ q.flow = p.flow

LEMMA SameActive ==
  ASSUME NEW p, NEW q, NEW t, NEW u, q.nonce = p.nonce, u.kind = t.kind, u.nonce = t.nonce
  PROVE  Active(u, q) <=> Active(t, p)
  BY Zenon DEF Active

LEMMA ReplacedNames ==
  ASSUME NEW ts, NEW t \in ts, NEW u, OwnNames(ts), Same(u, t)
  PROVE  OwnNames((ts \ {t}) \cup {u})
  BY DEF OwnNames, Same

(* ... its connection and the audit cards only move on, and a command runs *)
(* only where it had not run before.                                       *)
MovesOn(p, q, t, u, as, bs, ap, rn, sn) ==
    /\ Same(u, t) /\ SamePanel(p, q) /\ u.aborted = t.aborted
    /\ u.conn = t.conn \/ u.conn = "done" \/ (u.conn = "open" /\ Active(t, p))
    /\ t.kind = "approval" => u.conn = t.conn
    /\ q.stream = p.stream \/ q.stream = u.id
    /\ u.conn = "open" => q.stream = u.id \/ (q.stream = p.stream /\ t.conn = "open")
    /\ q.stream # p.stream => Active(t, p)
    /\ sn \in [ID -> Nat] /\ \A i \in ID \ {t.id} : sn[i] = rn[i]
    /\ sn[t.id] = rn[t.id] \/ (t.id \in ap /\ sn[t.id] = 1)
    /\ t.kind = "approval" /\ u.step \in {"resolving", "planning", "executing", "confirming"} => sn[t.id] = 0
    /\ t.kind # "approval" => sn = rn
    /\ \A i \in ID : bs[i] = "running" => as[i] = "running" /\ (SettlesCard(t, p, i) => SettlesCard(u, q, i))

LEMMA TaskMoves ==
  ASSUME NEW p, NEW q, NEW ts, NEW cs, NEW as, NEW bs, NEW ap, NEW rn, NEW sn, NEW n, NEW lt,
         Sound(p, ts, cs, as, ap, rn, n, lt), NEW t \in ts, NEW u, MovesOn(p, q, t, u, as, bs, ap, rn, sn)
  PROVE  Sound(q, (ts \ {t}) \cup {u}, cs, bs, ap, sn, n, lt)
  <1> USE DEF MovesOn
  <1> DEFINE us == (ts \ {t}) \cup {u}
  <1>1. Tasks(p, ts, n, lt) /\ FlowsOK(ts, cs, ap, rn, n)
    BY Zenon DEF Sound
  <1>2. \A x \in ts : Active(x, q) <=> Active(x, p)
    BY SameActive, Zenon DEF SamePanel
  <1>3. Active(u, q) <=> Active(t, p)
    BY SameActive, Zenon DEF SamePanel, Same
  <1>4. OwnNames(us)
    BY <1>1, ReplacedNames, Zenon DEF Tasks
  <1>5. ASSUME NEW x \in us PROVE TaskOK(x, q, n) /\ StreamOK(x, q, lt)
    <2>1. CASE x = u
      <3>1. TaskOK(t, p, n) /\ StreamOK(t, p, lt)
        BY <1>1, Zenon DEF Tasks
      <3>2. TaskOK(u, q, n)
        BY <3>1, <1>3, Zenon DEF TaskOK, Same, SamePanel
      <3>3. StreamOK(u, q, lt)
        BY <3>1, <1>3, Zenon DEF StreamOK, Same
      <3> QED BY <3>2, <3>3, <2>1, Zenon
    <2>2. CASE x \in ts \ {t}
      <3>1. TaskOK(x, p, n) /\ StreamOK(x, p, lt)
        BY <1>1, <2>2, Zenon DEF Tasks
      <3>2. q.stream # p.stream => ~Active(x, p)
        BY <1>1, <2>2 DEF Tasks, OwnNames, Active
      <3>3. TaskOK(x, q, n)
        BY <3>1, <3>2, <1>2, <2>2, Zenon DEF TaskOK, SamePanel
      <3>4. StreamOK(x, q, lt)
        BY <3>1, <1>2, <2>2, Zenon DEF StreamOK
      <3> QED BY <3>3, <3>4, Zenon
    <2> QED BY <2>1, <2>2, Zenon
  <1>6. Tasks(q, us, n, lt)
    BY <1>1, <1>4, <1>5, Zenon DEF Tasks, SamePanel
  <1>7. FlowsOK(us, cs, ap, sn, n)
    <2>1. \A i \in ID : sn[i] <= IF i \in ap THEN 1 ELSE 0
      BY <1>1 DEF FlowsOK
    <2>2. t.id \in ID
      BY Zenon DEF Same, IsTask
    <2>3. ASSUME NEW x \in us
          PROVE  /\ x.kind = "run" => x.id \notin ap /\ cs[x.id] # "pending"
                 /\ x.kind = "approval" =>
                      /\ x.id \in ap
                      /\ x.step \in {"resolving", "planning", "executing", "confirming"} => sn[x.id] = 0
      <3>1. CASE x = u
        BY <3>1, <1>1, Zenon DEF FlowsOK, Same
      <3>2. CASE x \in ts \ {t}
        <4>1. x.kind = "approval" => sn[x.id] = rn[x.id]
          <5>1. x.id \in ID
            BY <3>2, <1>1, Zenon DEF Tasks, TaskOK, IsTask
          <5>2. CASE t.kind = "approval" /\ x.kind = "approval"
            BY <5>1, <5>2, <3>2, <1>1, Zenon DEF Tasks, OwnNames
          <5> QED BY <5>2, Zenon
        <4> QED BY <4>1, <3>2, <1>1, Zenon DEF FlowsOK
      <3> QED BY <3>1, <3>2, Zenon
    <2> QED BY <2>1, <2>3, <1>1, Zenon DEF FlowsOK
  <1>8. ASSUME q.open, q.opening \notin lt PROVE HolderOK(q, us, cs) /\ AuditsOK(q, us, bs)
    <2>1. HolderOK(p, ts, cs) /\ AuditsOK(p, ts, as)
      BY <1>8, Zenon DEF Sound, SamePanel
    <2>2. Idle(q, us) <=> Idle(p, ts)
      BY <1>2, <1>3, Zenon DEF Idle
    <2>3. HolderOK(q, us, cs)
      BY <2>1, <2>2, <1>2, <1>3 DEF HolderOK, SamePanel, Same
    <2>4. \A x \in ts : \A i \in ID : SettlesCard(x, p, i) => SettlesCard(x, q, i)
      BY <1>2, Zenon DEF SettlesCard
    <2>5. AuditsOK(q, us, bs)
      BY <2>1, <2>4, Zenon DEF AuditsOK
    <2> QED BY <2>3, <2>5, Zenon
  <1> QED BY <1>6, <1>7, <1>8, Zenon DEF Sound

-----------------------------------------------------------------------------
(* A task ends.                                                            *)

(* What is left of the tasks keeps its names and its flows.                *)
LEMMA FewerTasks ==
  ASSUME NEW ts, NEW us, us \subseteq ts, NEW cs, NEW ap, NEW rn, NEW n
  PROVE  /\ OwnNames(ts) => OwnNames(us)
         /\ FlowsOK(ts, cs, ap, rn, n) => FlowsOK(us, cs, ap, rn, n)
  BY Zenon DEF OwnNames, FlowsOK

(* Released, as far as the other tasks notice.                             *)
Freed(p, q) ==
    /\ IsChat(q) /\ q.open = p.open /\ q.opening = p.opening /\ q.nonce = p.nonce
    /\ q.submitting = FALSE /\ q.cancellable = FALSE /\ q.blocked = FALSE

LEMMA OthersAreInactive ==
  ASSUME NEW p, NEW ts, OwnNames(ts), NEW t \in ts, Active(t, p), NEW x \in ts \ {t}
  PROVE  ~Active(x, p)
  BY Zenon DEF OwnNames, Active

LEMMA LeftTasks ==
  ASSUME NEW p, NEW q, NEW ts, NEW t \in ts, NEW n, NEW lt, NEW mt, Tasks(p, ts, n, lt), lt \subseteq mt,
         IsChat(q), q.open = p.open, q.opening = p.opening, q.nonce = p.nonce, q.flow.id <= n,
         q.open => (q.blocked <=> q.submitting),
         Active(t, p) \/ (q.stream = p.stream /\ q.audit = p.audit)
  PROVE  Tasks(q, ts \ {t}, n, mt)
  <1>1. OwnNames(ts \ {t})
    BY FewerTasks, Zenon DEF Tasks
  <1>2. ASSUME NEW x \in ts \ {t} PROVE TaskOK(x, q, n) /\ StreamOK(x, q, mt)
    <2>1. TaskOK(x, p, n) /\ StreamOK(x, p, lt)
      BY Zenon DEF Tasks
    <2>2. Active(x, q) <=> Active(x, p)
      BY SameActive, Zenon
    <2>3. Active(t, p) => ~Active(x, p)
      BY OthersAreInactive, Zenon DEF Tasks
    <2>4. TaskOK(x, q, n)
      BY <2>1, <2>2, <2>3, Zenon DEF TaskOK
    <2>5. StreamOK(x, q, mt)
      BY <2>1, <2>2, Zenon DEF StreamOK
    <2> QED BY <2>4, <2>5, Zenon
  <1> QED BY <1>1, <1>2, Zenon DEF Tasks

(* The finally block of a submission, after the audit cards it settles.    *)
Ends(p, q, t, as, bs) ==
    /\ t.kind # "approval" /\ q.flow = p.flow
    /\ \/ Active(t, p) /\ Freed(p, q)
       \/ ~Active(t, p) /\ SamePanel(p, q) /\ q.stream = p.stream
    /\ \A i \in ID : bs[i] = "running" => as[i] = "running" /\ ~SettlesCard(t, p, i)

LEMMA TaskEnds ==
  ASSUME NEW p, NEW q, NEW ts, NEW cs, NEW as, NEW bs, NEW ap, NEW rn, NEW n, NEW lt,
         Sound(p, ts, cs, as, ap, rn, n, lt), NEW t \in ts, Ends(p, q, t, as, bs)
  PROVE  Sound(q, ts \ {t}, cs, bs, ap, rn, n, lt)
  <1> USE DEF Ends
  <1> DEFINE us == ts \ {t}
  <1>0. IsChat(q) /\ q.open = p.open /\ q.opening = p.opening /\ q.nonce = p.nonce
    BY Zenon DEF Freed, SamePanel
  <1>1. Tasks(q, us, n, lt)
    <2>1. q.open => (q.blocked <=> q.submitting)
      BY Zenon DEF Sound, Tasks, Freed, SamePanel
    <2>2. Active(t, p) \/ (q.stream = p.stream /\ q.audit = p.audit)
      BY Zenon DEF SamePanel
    <2>3. Tasks(p, ts, n, lt) /\ q.flow.id <= n
      BY Zenon DEF Sound, Tasks
    <2> QED BY <1>0, <2>1, <2>2, <2>3, LeftTasks, Zenon
  <1>2. FlowsOK(us, cs, ap, rn, n)
    BY FewerTasks, Zenon DEF Sound
  <1>3. ASSUME q.open, q.opening \notin lt PROVE HolderOK(q, us, cs) /\ AuditsOK(q, us, bs)
    <2>1. HolderOK(p, ts, cs) /\ AuditsOK(p, ts, as) /\ OwnNames(ts)
      BY <1>3, <1>0, Zenon DEF Sound, Tasks
    <2>2. \A x \in ts : Active(x, q) <=> Active(x, p)
      BY <1>0, SameActive, Zenon
    <2>3. HolderOK(q, us, cs)
      <3>1. CASE Active(t, p)
        <4>1. \A x \in us : ~Active(x, p)
          BY <2>1, <3>1, OthersAreInactive, Zenon
        <4>2. p.flow.id = 0
          BY <2>1, <3>1, Zenon DEF HolderOK, Idle
        <4>3. \A x \in us : x.kind = "approval" => x.opening # p.opening
          <5>1. \A x \in us : x.id \in ID /\ x.id # 0
            BY DEF Sound, Tasks, TaskOK, IsTask, ID
          <5> QED BY <5>1, <2>1, <4>2, Zenon DEF HolderOK
        <4>4. \A x \in us : x.kind = "run" => x.opening # p.opening
          BY <2>1, <4>1, Zenon DEF HolderOK
        <4> QED BY <1>0, <2>1, <2>2, <4>1, <4>3, <4>4, Zenon DEF HolderOK, Idle
      <3>2. CASE ~Active(t, p)
        <4>1. Idle(q, us) <=> Idle(p, ts)
          BY <2>2, <3>2, Zenon DEF Idle
        <4> QED BY <2>1, <2>2, <3>2, <4>1, Zenon DEF HolderOK, SamePanel
      <3> QED BY <3>1, <3>2, Zenon
    <2>4. \A x \in ts : \A i \in ID : SettlesCard(x, p, i) => SettlesCard(x, q, i)
      BY <2>2, Zenon DEF SettlesCard
    <2>5. AuditsOK(q, us, bs)
      BY <2>1, <2>4, Zenon DEF AuditsOK
    <2> QED BY <2>3, <2>5, Zenon
  <1> QED BY <1>1, <1>2, <1>3, Zenon DEF Sound

(* A command that needs a confirmation becomes the pending flow.           *)
AsksFirst(p, q, t, cs, ds, lt, mt) ==
    /\ t.kind = "run" /\ q.flow.id = t.id
    /\ \/ Active(t, p) /\ Freed(p, q)
       \/ /\ ~Active(t, p) /\ IsChat(q) /\ q.open = p.open /\ q.opening = p.opening /\ q.nonce = p.nonce
          /\ q.submitting = p.submitting /\ q.blocked = p.blocked
          /\ q.stream = p.stream /\ q.audit = p.audit
    /\ ds = [cs EXCEPT ![t.id] = "pending"] /\ lt \subseteq mt
    /\ t.opening < p.opening => p.opening \in mt

LEMMA RunBecomesFlow ==
  ASSUME NEW p, NEW q, NEW ts, NEW cs, NEW ds, NEW as, NEW ap, NEW rn, NEW n, NEW lt, NEW mt,
         Sound(p, ts, cs, as, ap, rn, n, lt), NEW t \in ts, AsksFirst(p, q, t, cs, ds, lt, mt)
  PROVE  Sound(q, ts \ {t}, ds, as, ap, rn, n, mt)
  <1> USE DEF AsksFirst
  <1> DEFINE us == ts \ {t}
  <1>0. /\ IsChat(q) /\ q.open = p.open /\ q.opening = p.opening /\ q.nonce = p.nonce
        /\ q.open => (q.blocked <=> q.submitting)
    BY Zenon DEF Freed, Sound, Tasks
  <1>t. TaskOK(t, p, n) /\ t.id \in ID /\ t.id # 0 /\ t.opening \in Nat /\ p.opening \in Nat /\ t.id <= n
    BY DEF Sound, Tasks, TaskOK, IsTask, ID, IsChat
  <1>1. Tasks(q, us, n, mt)
    <2>1. Tasks(p, ts, n, lt) /\ q.flow.id <= n
      BY <1>t, Zenon DEF Sound
    <2> QED BY <1>0, <2>1, LeftTasks, Zenon
  <1>d. ds = [i \in ID |-> ds[i]] /\ \A i \in ID : ds[i] = IF i = t.id THEN "pending" ELSE cs[i]
    BY <1>t, Zenon DEF Sound, FlowsOK
  <1>2. FlowsOK(us, ds, ap, rn, n)
    <2>1. FlowsOK(ts, cs, ap, rn, n) /\ OwnNames(ts) /\ t.id \notin ap
      BY Zenon DEF Sound, FlowsOK, Tasks
    <2>2. \A x \in us : x.kind = "run" => x.id # t.id /\ x.id \in ID
      BY <2>1, Zenon DEF OwnNames, Sound, Tasks, TaskOK, IsTask
    <2>3. \A i \in ap : i \in ID /\ i <= n /\ ds[i] # "pending"
      BY <2>1, <1>d, Zenon DEF FlowsOK
    <2>4. \A i \in ID : ds[i] = "pending" => i <= n
      BY <2>1, <1>d, <1>t, Zenon DEF FlowsOK
    <2> HIDE DEF us
    <2>5. \A x \in us : x \in ts /\ (x.kind = "run" => x.id \notin ap /\ ds[x.id] # "pending")
      BY <2>1, <2>2, <1>d, Zenon DEF FlowsOK, us
    <2> QED BY <2>1, <2>3, <2>4, <2>5, <1>d, Zenon DEF FlowsOK
  <1>3. ASSUME q.open, q.opening \notin mt PROVE HolderOK(q, us, ds) /\ AuditsOK(q, us, as)
    <2>1. HolderOK(p, ts, cs) /\ AuditsOK(p, ts, as) /\ OwnNames(ts)
      BY <1>3, <1>0, Zenon DEF Sound, Tasks
    <2>2. t.opening = p.opening
      BY <1>3, <1>0, <1>t DEF TaskOK
    <2>3. Active(t, p)
      BY <2>1, <2>2, Zenon DEF HolderOK
    <2>4. \A x \in ts : Active(x, q) <=> Active(x, p)
      BY <1>0, SameActive, Zenon
    <2>5. \A x \in us : ~Active(x, p)
      BY <2>1, <2>3, OthersAreInactive, Zenon
    <2>6. p.flow.id = 0
      BY <2>1, <2>3, Zenon DEF HolderOK, Idle
    <2>7. \A x \in us : x.kind = "approval" \/ x.kind = "run" => x.opening # p.opening
      <3>1. \A x \in us : x.id \in ID /\ x.id # 0
        BY DEF Sound, Tasks, TaskOK, IsTask, ID
      <3> QED BY <3>1, <2>1, <2>5, <2>6, Zenon DEF HolderOK
    <2>8. \A i \in ID : ds[i] = "pending" => i = t.id
      BY <1>d, <2>1, <2>6 DEF HolderOK, ID
    <2>9. HolderOK(q, us, ds)
      BY <1>0, <2>4, <2>5, <2>7, <2>8, Zenon DEF HolderOK, Idle
    <2>10. AuditsOK(q, us, as)
      <3>1. \A x \in ts : \A i \in ID : SettlesCard(x, p, i) => SettlesCard(x, q, i) /\ x # t
        BY <2>4, Zenon DEF SettlesCard
      <3> QED BY <3>1, <2>1, Zenon DEF AuditsOK
    <2> QED BY <2>9, <2>10, Zenon
  <1> QED BY <1>1, <1>2, <1>3, Zenon DEF Sound

(* The finally block of an approval.                                       *)
EndsApproval(p, q, t, as, bs, lt, mt) ==
    /\ t.kind = "approval"
    /\ Freed(p, q) /\ q.flow.id = 0 /\ q.stream = p.stream /\ q.audit = p.audit
    /\ \A i \in ID : bs[i] = "running" => as[i] = "running" /\ i # t.id
    /\ lt \subseteq mt /\ (t.opening < p.opening => p.opening \in mt)

LEMMA ApprovalEnds ==
  ASSUME NEW p, NEW q, NEW ts, NEW cs, NEW as, NEW bs, NEW ap, NEW rn, NEW n, NEW lt, NEW mt,
         Sound(p, ts, cs, as, ap, rn, n, lt), NEW t \in ts, EndsApproval(p, q, t, as, bs, lt, mt)
  PROVE  Sound(q, ts \ {t}, cs, bs, ap, rn, n, mt)
  <1> USE DEF EndsApproval
  <1> DEFINE us == ts \ {t}
  <1>0. /\ IsChat(q) /\ q.open = p.open /\ q.opening = p.opening /\ q.nonce = p.nonce
        /\ q.open => (q.blocked <=> q.submitting)
    BY Zenon DEF Freed
  <1>t. TaskOK(t, p, n) /\ t.id \in ID /\ t.opening \in Nat /\ p.opening \in Nat
    BY Zenon DEF Sound, Tasks, TaskOK, IsTask, IsChat
  <1>1. Tasks(q, us, n, mt)
    <2>1. Tasks(p, ts, n, lt) /\ q.flow.id <= n
      BY DEF Sound, Tasks
    <2> QED BY <1>0, <2>1, LeftTasks, Zenon
  <1>2. FlowsOK(us, cs, ap, rn, n)
    BY FewerTasks, Zenon DEF Sound
  <1>3. ASSUME q.open, q.opening \notin mt PROVE HolderOK(q, us, cs) /\ AuditsOK(q, us, bs)
    <2>1. HolderOK(p, ts, cs) /\ AuditsOK(p, ts, as) /\ OwnNames(ts)
      BY <1>3, <1>0, Zenon DEF Sound, Tasks
    <2>2. t.opening = p.opening
      BY <1>3, <1>0, <1>t DEF TaskOK
    <2>3. p.flow.id = t.id /\ cs[t.id] = "approved" /\ Idle(p, ts)
      BY <2>1, <2>2, <1>t DEF HolderOK, ID
    <2>4. \A x \in ts : Active(x, q) <=> Active(x, p)
      BY <1>0, SameActive, Zenon
    <2>5. \A x \in us : x.kind = "approval" \/ x.kind = "run" => x.opening # p.opening
      BY <2>1, <2>3 DEF HolderOK, Idle, OwnNames
    <2>6. \A i \in ID : cs[i] # "pending"
      BY <2>1, <2>3, Zenon DEF HolderOK
    <2>7. HolderOK(q, us, cs)
      BY <1>0, <2>3, <2>4, <2>5, <2>6, Zenon DEF HolderOK, Idle
    <2>8. AuditsOK(q, us, bs)
      <3>1. \A x \in ts : \A i \in ID : SettlesCard(x, p, i) => SettlesCard(x, q, i) /\ (i # t.id => x # t)
        BY <2>4, <1>t, Zenon DEF SettlesCard, TaskOK
      <3> QED BY <3>1, <2>1, Zenon DEF AuditsOK
    <2> QED BY <2>7, <2>8, Zenon
  <1> QED BY <1>1, <1>2, <1>3, Zenon DEF Sound

-----------------------------------------------------------------------------
(* The operator acts.                                                      *)

(* In an undisturbed opening nothing holds the panel.                      *)
Free(p, ts) == Idle(p, ts) /\ \A t \in ts : t.kind = "approval" => t.opening # p.opening

LEMMA NewIsLater ==
  ASSUME NEW n \in Nat
  PROVE  \A i \in ID : i <= n => i <= n + 1 /\ i # n + 1
  BY DEF ID

(* A prompt or a button only changes the pending flow.                     *)
OnlyFlow(p, q, ts, cs, ds, n, lt) ==
    /\ IsChat(q) /\ q.flow.id <= n + 1
    /\ q.open = p.open /\ q.opening = p.opening /\ q.nonce = p.nonce /\ q.submitting = p.submitting
    /\ q.cancellable = p.cancellable /\ q.blocked = p.blocked /\ q.stream = p.stream /\ q.audit = p.audit
    /\ ds = [i \in ID |-> ds[i]]
    /\ \A i \in ID : ds[i] = "pending" => i = n + 1 \/ cs[i] = "pending"
    /\ p.open /\ p.opening \notin lt => Free(p, ts) /\ \A i \in ID : ds[i] = "pending" => q.flow.id = i

LEMMA FlowMoves ==
  ASSUME NEW p, NEW q, NEW ts, NEW cs, NEW ds, NEW as, NEW ap, NEW rn, NEW n, NEW lt,
         Sound(p, ts, cs, as, ap, rn, n, lt), OnlyFlow(p, q, ts, cs, ds, n, lt)
  PROVE  Sound(q, ts, ds, as, ap, rn, n + 1, lt)
  <1> USE DEF OnlyFlow
  <1>0. Tasks(p, ts, n, lt) /\ FlowsOK(ts, cs, ap, rn, n) /\ n \in Nat /\ n + 1 \in Nat
    BY DEF Sound, Tasks
  <1>a. \A x \in ts : Active(x, q) <=> Active(x, p)
    BY SameActive, Zenon
  <1>n. \A x \in ts : x.id \in ID /\ x.id # n + 1 /\ TaskOK(x, p, n) /\ StreamOK(x, p, lt)
    BY <1>0 DEF Tasks, TaskOK, IsTask, ID
  <1>1. Tasks(q, ts, n + 1, lt)
    <2>1. ASSUME NEW x \in ts PROVE TaskOK(x, q, n + 1) /\ StreamOK(x, q, lt)
      <3>1. x.id <= n + 1
        BY <1>0, <1>n DEF TaskOK, ID
      <3>2. TaskOK(x, q, n + 1)
        BY <3>1, <1>a, <1>n, Zenon DEF TaskOK
      <3>3. StreamOK(x, q, lt)
        BY <1>a, <1>n, Zenon DEF StreamOK
      <3> QED BY <3>2, <3>3, Zenon
    <2> QED BY <1>0, <2>1, Zenon DEF Tasks
  <1>2. FlowsOK(ts, ds, ap, rn, n + 1)
    <2>0. \A i \in ID : i <= n => i <= n + 1 /\ i # n + 1
      BY <1>0, NewIsLater, Zenon
    <2>1. \A i \in ap : i \in ID /\ i <= n + 1 /\ ds[i] # "pending"
      BY <1>0, <2>0, Zenon DEF FlowsOK
    <2>2. \A i \in ID : ds[i] = "pending" => i <= n + 1
      BY <1>0 DEF FlowsOK, ID
    <2>3. \A x \in ts : x.kind = "run" => x.id \notin ap /\ ds[x.id] # "pending"
      BY <1>0, <1>n, Zenon DEF FlowsOK
    <2> QED BY <2>1, <2>2, <2>3, <1>0, Zenon DEF FlowsOK
  <1>3. ASSUME q.open, q.opening \notin lt PROVE HolderOK(q, ts, ds) /\ AuditsOK(q, ts, as)
    <2>1. HolderOK(p, ts, cs) /\ AuditsOK(p, ts, as) /\ Free(p, ts)
      BY <1>3, Zenon DEF Sound
    <2>2. HolderOK(q, ts, ds)
      BY <1>3, <2>1, <1>a, Zenon DEF HolderOK, Free, Idle
    <2>3. \A x \in ts : \A i \in ID : SettlesCard(x, p, i) => SettlesCard(x, q, i)
      BY <1>a, Zenon DEF SettlesCard
    <2>4. AuditsOK(q, ts, as)
      BY <2>1, <2>3, Zenon DEF AuditsOK
    <2> QED BY <2>2, <2>4, Zenon
  <1> QED BY <1>1, <1>2, <1>3, Zenon DEF Sound

(* u is a task that has just begun.                                        *)
Begun(u, p) ==
    /\ IsTask(u) /\ u.opening = p.opening /\ u.conn = "none" /\ ~u.aborted

(* runBackendPromptForPanel takes over the panel.                          *)
TakesOver(p, q, u, n) ==
    /\ IsChat(q) /\ q.flow.id = 0
    /\ p.open /\ q.open = p.open /\ q.opening = p.opening /\ q.nonce = p.nonce + 1 /\ q.submitting = TRUE
    /\ q.blocked = TRUE /\ q.cancellable = (u.kind = "chat") /\ q.audit = u.audit
    /\ Begun(u, p) /\ u.id = n + 1 /\ u.nonce = q.nonce /\ u.step = "resolving"
    /\ u.kind = "chat" \/ (u.kind = "run" /\ u.audit = 0)

(* ... and what the button that led to it does to the cards.               *)
Leaves(p, ts, cs, ds, as, bs, ap, bp, a, lt) ==
    /\ ds = [i \in ID |-> ds[i]] /\ \A i \in ID : ds[i] = "pending" => cs[i] = "pending"
    /\ p.opening \notin lt => Free(p, ts) /\ \A i \in ID : ds[i] # "pending"
    /\ ap \subseteq bp
    /\ \A i \in bp \ ap : i \in ID /\ cs[i] = "pending" /\ ds[i] # "pending"
    /\ \A i \in ID : bs[i] = "running" => as[i] = "running" \/ i = a

LEMMA PromptBegins ==
  ASSUME NEW p, NEW q, NEW ts, NEW u, NEW cs, NEW ds, NEW as, NEW bs, NEW ap, NEW bp, NEW rn, NEW n, NEW lt,
         Sound(p, ts, cs, as, ap, rn, n, lt), TakesOver(p, q, u, n),
         Leaves(p, ts, cs, ds, as, bs, ap, bp, u.audit, lt)
  PROVE  Sound(q, ts \cup {u}, ds, bs, bp, rn, n + 1, lt)
  <1> USE DEF TakesOver, Leaves
  <1> DEFINE us == ts \cup {u}
  <1>0. /\ Tasks(p, ts, n, lt) /\ FlowsOK(ts, cs, ap, rn, n) /\ n \in Nat /\ n + 1 \in Nat
        /\ p.nonce \in Nat /\ p.opening \in Nat
    BY DEF Sound, Tasks, IsChat
  <1>n. \A x \in ts : /\ x.id \in ID /\ x.id <= n /\ x.id # n + 1 /\ x.id <= n + 1 /\ ~Active(x, q)
                      /\ IsTask(x) /\ TaskOK(x, p, n) /\ StreamOK(x, p, lt)
                      /\ x.kind # "approval" => x.nonce # q.nonce /\ x.nonce <= q.nonce
    BY <1>0 DEF Tasks, TaskOK, IsTask, ID, Active
  <1>1. Tasks(q, us, n + 1, lt)
    <2>1. OwnNames(us)
      BY <1>0, <1>n DEF Tasks, OwnNames
    <2>2. TaskOK(u, q, n + 1) /\ StreamOK(u, q, lt)
      <3>1. u.id <= n + 1 /\ u.opening <= q.opening /\ u.nonce <= q.nonce
        BY <1>0 DEF Begun
      <3> QED BY <3>1, Zenon DEF Begun, TaskOK, StreamOK
    <2>3. ASSUME NEW x \in ts PROVE TaskOK(x, q, n + 1) /\ StreamOK(x, q, lt)
      <3>1. TaskOK(x, q, n + 1)
        BY <1>n, Zenon DEF TaskOK
      <3>2. CASE x.conn = "open"
        <4>1. x.opening \in lt \/ Active(x, p)
          BY <3>2, <1>n, Zenon DEF StreamOK
        <4>2. Active(x, p) => x.opening = p.opening
          BY <1>n, Zenon DEF TaskOK
        <4>3. Active(x, p) => p.opening \in lt
          BY Zenon DEF Free, Idle
        <4> QED BY <3>1, <4>1, <4>2, <4>3, Zenon DEF StreamOK
      <3> QED BY <3>1, <3>2, Zenon DEF StreamOK
    <2>4. q.flow.id <= n + 1
      BY <1>0
    <2> QED BY <2>1, <2>2, <2>3, <2>4, <1>0, Zenon DEF Tasks
  <1>2. FlowsOK(us, ds, bp, rn, n + 1)
    <2>1. \A i \in bp : i \in ID /\ i <= n /\ i <= n + 1 /\ i # n + 1 /\ ds[i] # "pending"
      BY <1>0, NewIsLater, Zenon DEF FlowsOK
    <2>2. \A i \in ID : ds[i] = "pending" => i <= n /\ i <= n + 1 /\ i # n + 1
      BY <1>0 DEF FlowsOK, ID
    <2>3. \A i \in ID : rn[i] <= IF i \in bp THEN 1 ELSE 0
      BY <1>0 DEF FlowsOK
    <2>4. ASSUME NEW x \in ts, x.kind = "run" PROVE x.id \notin bp /\ ds[x.id] # "pending"
      BY <1>0, <1>n, <2>4, Zenon DEF FlowsOK
    <2>5. u.kind = "run" => u.id \notin bp /\ ds[u.id] # "pending"
      BY <2>1, <2>2, Zenon DEF Begun, IsTask
    <2>6. \A x \in ts : x.kind = "approval" =>
             /\ x.id \in bp
             /\ x.step \in {"resolving", "planning", "executing", "confirming"} => rn[x.id] = 0
      BY <1>0, Zenon DEF FlowsOK
    <2> QED BY <2>1, <2>2, <2>3, <2>4, <2>5, <2>6, <1>0, Zenon DEF FlowsOK
  <1>3. ASSUME q.open, q.opening \notin lt PROVE HolderOK(q, us, ds) /\ AuditsOK(q, us, bs)
    <2>1. HolderOK(p, ts, cs) /\ AuditsOK(p, ts, as) /\ Free(p, ts) /\ \A i \in ID : ds[i] # "pending"
      BY <1>3, Zenon DEF Sound
    <2>2. Active(u, q)
      BY Zenon DEF Active
    <2>3. \A x \in ts : x.kind = "run" => x.opening # p.opening
      BY <2>1, Zenon DEF HolderOK, Free, Idle
    <2>4. HolderOK(q, us, ds)
      <3>1. \A x \in ts : ~(x.kind \in {"approval", "run"} /\ x.opening = q.opening)
        BY <2>1, <2>3, Zenon DEF Free
      <3>2. u.kind # "approval" /\ (u.kind = "run" => Active(u, q) /\ ~q.cancellable)
        BY <2>2, Zenon
      <3> QED BY <2>1, <3>1, <3>2, Zenon DEF HolderOK
    <2>5. \A x \in ts : \A i \in ID : SettlesCard(x, p, i) => SettlesCard(x, q, i)
      BY <2>1, Zenon DEF SettlesCard, Free, Idle
    <2>6. \A i \in ID : i = u.audit => SettlesCard(u, q, i)
      BY <2>2 DEF SettlesCard, ID
    <2>7. AuditsOK(q, us, bs)
      BY <2>1, <2>5, <2>6, Zenon DEF AuditsOK
    <2> QED BY <2>4, <2>7, Zenon
  <1> QED BY <1>1, <1>2, <1>3, Zenon DEF Sound

(* approvePendingPlanForPanel, for a flow that runs in the terminal.       *)
TakesFlow(p, q, u) ==
    /\ IsChat(q) /\ p.open /\ q.open = p.open /\ q.opening = p.opening /\ q.nonce = p.nonce
    /\ q.submitting = TRUE /\ q.blocked = TRUE /\ q.cancellable = FALSE
    /\ q.audit = p.audit /\ q.stream = p.stream /\ q.flow = p.flow
    /\ p.flow.id # 0 /\ Begun(u, p) /\ u.id = p.flow.id /\ u.kind = "approval" /\ u.audit = u.id

Approves(p, ts, u, cs, ds, as, bs, lt) ==
    /\ cs[p.flow.id] = "pending" /\ ds = [cs EXCEPT ![u.id] = "approved"]
    /\ p.opening \notin lt => Free(p, ts)
    /\ \A i \in ID : bs[i] = "running" => as[i] = "running" \/ i = u.audit

LEMMA ApprovalBegins ==
  ASSUME NEW p, NEW q, NEW ts, NEW u, NEW cs, NEW ds, NEW as, NEW bs, NEW ap, NEW rn, NEW n, NEW lt,
         Sound(p, ts, cs, as, ap, rn, n, lt), TakesFlow(p, q, u),
         Approves(p, ts, u, cs, ds, as, bs, lt)
  PROVE  Sound(q, ts \cup {u}, ds, bs, ap \cup {u.id}, rn, n + 1, lt)
  <1> DEFINE us == ts \cup {u}
  <1> DEFINE bp == ap \cup {u.id}
  <1> USE DEF TakesFlow, Approves
  <1>0. /\ Tasks(p, ts, n, lt) /\ FlowsOK(ts, cs, ap, rn, n) /\ n \in Nat /\ n + 1 \in Nat
        /\ p.nonce \in Nat /\ p.opening \in Nat
    BY DEF Sound, Tasks, IsChat
  <1>u. u.id \in ID /\ u.id \notin ap /\ u.id <= n /\ u.id <= n + 1
    BY <1>0, NewIsLater, Zenon DEF Begun, IsTask, FlowsOK
  <1>d. /\ ds = [i \in ID |-> ds[i]] /\ ds[u.id] = "approved"
        /\ \A i \in ID : ds[i] = "pending" => cs[i] = "pending" /\ i # u.id
    BY <1>0, <1>u, Zenon DEF FlowsOK
  <1>a. \A x \in ts : Active(x, q) <=> Active(x, p)
    BY SameActive, Zenon
  <1>b. ~Active(u, q)
    BY Zenon DEF Active
  <1>n. \A x \in ts : x.id \in ID /\ x.id <= n + 1 /\ IsTask(x) /\ TaskOK(x, p, n) /\ StreamOK(x, p, lt)
    BY <1>0 DEF Tasks, TaskOK, IsTask, ID
  <1>1. Tasks(q, us, n + 1, lt)
    <2>1. \A x \in ts : x.kind = "approval" => x.id # u.id
      BY <1>0, <1>u, Zenon DEF FlowsOK
    <2>2. OwnNames(us)
      BY <1>0, <2>1, Zenon DEF Tasks, OwnNames
    <2>3. TaskOK(u, q, n + 1) /\ StreamOK(u, q, lt)
      BY <1>0, <1>u, <1>b DEF Begun, TaskOK, StreamOK
    <2>4. ASSUME NEW x \in ts PROVE TaskOK(x, q, n + 1) /\ StreamOK(x, q, lt)
      BY <1>a, <1>n, Zenon DEF TaskOK, StreamOK
    <2>5. q.flow.id <= n + 1
      BY <1>u, Zenon
    <2> QED BY <2>2, <2>3, <2>4, <2>5, <1>0, Zenon DEF Tasks
  <1>2. FlowsOK(us, ds, bp, rn, n + 1)
    <2>0. \A i \in ID : i <= n => i <= n + 1
      BY <1>0, NewIsLater, Zenon
    <2>1. \A i \in bp : i \in ID /\ i <= n + 1 /\ ds[i] # "pending"
      BY <1>0, <1>u, <1>d, <2>0 DEF FlowsOK
    <2>2. \A i \in ID : ds[i] = "pending" => i <= n + 1
      BY <1>0, <1>d, <2>0, Zenon DEF FlowsOK
    <2>3. rn \in [ID -> Nat] /\ rn[u.id] = 0 /\ \A i \in ID : rn[i] <= IF i \in bp THEN 1 ELSE 0
      BY <1>0, <1>u DEF FlowsOK
    <2>4. ASSUME NEW x \in ts, x.kind = "run" PROVE x.id \notin bp /\ ds[x.id] # "pending"
      BY <1>0, <1>n, <1>d, <2>4 DEF FlowsOK
    <2>5. \A x \in ts : x.kind = "approval" =>
             /\ x.id \in bp
             /\ x.step \in {"resolving", "planning", "executing", "confirming"} => rn[x.id] = 0
      BY <1>0, Zenon DEF FlowsOK
    <2> QED BY <2>1, <2>2, <2>3, <2>4, <2>5, <1>d, Zenon DEF FlowsOK
  <1>3. ASSUME q.open, q.opening \notin lt PROVE HolderOK(q, us, ds) /\ AuditsOK(q, us, bs)
    <2>1. HolderOK(p, ts, cs) /\ AuditsOK(p, ts, as) /\ Free(p, ts)
      BY <1>3, Zenon DEF Sound
    <2>2. \A x \in ts : x.kind = "run" \/ x.kind = "approval" => x.opening # p.opening
      BY <2>1, Zenon DEF HolderOK, Free, Idle
    <2>3. Idle(q, us)
      BY <2>1, <1>a, <1>b, Zenon DEF Free, Idle
    <2>4. HolderOK(q, us, ds)
      BY <2>1, <2>2, <2>3, <1>d DEF HolderOK
    <2>5. \A x \in ts : \A i \in ID : SettlesCard(x, p, i) => SettlesCard(x, q, i)
      BY <1>a, Zenon DEF SettlesCard
    <2>6. AuditsOK(q, us, bs)
      BY <2>1, <2>5, Zenon DEF AuditsOK, SettlesCard
    <2> QED BY <2>4, <2>6, Zenon
  <1> QED BY <1>1, <1>2, <1>3, Zenon DEF Sound

-----------------------------------------------------------------------------
(* Cancelling, closing and opening: the nonce moves on, so no task stays   *)
(* active, and the stream of the active one is closed.                     *)

Follows(u, t) ==
    /\ IsTask(u) /\ u.id = t.id /\ u.kind = t.kind /\ u.nonce = t.nonce
    /\ u.opening = t.opening /\ u.audit = t.audit /\ u.step = t.step
    /\ u.conn = "open" => t.conn = "open"
    /\ t.kind = "approval" => u = t

Retired(us, ts, p) ==
    /\ OwnNames(us)
    /\ \A u \in us : \E t \in ts : Follows(u, t) /\ (u.conn = "open" => t.kind = "approval" \/ t.id # p.stream)
    /\ \A t \in ts : t.kind = "approval" => t \in us

LEMMA StreamClosed ==
  ASSUME NEW ts, OwnNames(ts), \A t \in ts : IsTask(t)
  PROVE  Retired(WithStreamClosed(ts), ts, chat)
  <1> DEFINE f(t) == IF t.kind # "approval" /\ t.id = chat.stream THEN [t EXCEPT !.conn = "closed"] ELSE t
  <1> DEFINE us == {f(t) : t \in ts}
  <1>1. ASSUME NEW t \in ts
        PROVE  Follows(f(t), t) /\ (f(t).conn = "open" => t.kind = "approval" \/ t.id # chat.stream)
    <2>1. IsTask(t)
      OBVIOUS
    <2>2. CASE t.kind # "approval" /\ t.id = chat.stream
      BY <2>1, <2>2, Zenon DEF IsTask, Follows, TaskField
    <2>3. CASE ~(t.kind # "approval" /\ t.id = chat.stream)
      BY <2>1, <2>3, Zenon DEF Follows
    <2> QED BY <2>2, <2>3, Zenon
  <1>2. \A t \in ts : t.kind = "approval" => f(t) = t
    OBVIOUS
  <1> HIDE DEF f
  <1>3. OwnNames(us)
    <2>1. SUFFICES ASSUME NEW t \in ts, NEW v \in ts
                   PROVE  /\ f(t).kind # "approval" /\ f(v).kind # "approval"
                             /\ (f(t).nonce = f(v).nonce \/ f(t).id = f(v).id) => f(t) = f(v)
                          /\ f(t).kind = "approval" /\ f(v).kind = "approval" /\ f(t).id = f(v).id => f(t) = f(v)
      BY DEF OwnNames
    <2> QED BY <1>1 DEF OwnNames, Follows
  <1>4. Retired(us, ts, chat)
    BY <1>1, <1>2, <1>3, Zenon DEF Retired
  <1> QED BY <1>4, Zenon DEF WithStreamClosed, f

LEMMA ActiveAborted ==
  ASSUME NEW ts, NEW us, NEW p, Retired(us, ts, p), \A t \in us : IsTask(t)
  PROVE  Retired(WithActiveAborted(us), ts, p)
  <1> DEFINE f(t) == IF isActiveSubmission(t)
                     THEN [t EXCEPT !.aborted = TRUE, !.conn = IF @ = "open" THEN "closed" ELSE @] ELSE t
  <1> DEFINE vs == {f(t) : t \in us}
  <1>1. ASSUME NEW t \in us PROVE Follows(f(t), t)
    <2>1. IsTask(t)
      OBVIOUS
    <2>2. CASE isActiveSubmission(t)
      BY <2>1, <2>2, Zenon DEF IsTask, Follows, TaskField, isActiveSubmission
    <2>3. CASE ~isActiveSubmission(t)
      BY <2>1, <2>3, Zenon DEF Follows
    <2> QED BY <2>2, <2>3, Zenon
  <1>2. \A t \in us : t.kind = "approval" => f(t) = t
    BY Zenon DEF isActiveSubmission
  <1> HIDE DEF f
  <1>3. OwnNames(vs)
    <2>1. SUFFICES ASSUME NEW t \in us, NEW v \in us
                   PROVE  /\ f(t).kind # "approval" /\ f(v).kind # "approval"
                             /\ (f(t).nonce = f(v).nonce \/ f(t).id = f(v).id) => f(t) = f(v)
                          /\ f(t).kind = "approval" /\ f(v).kind = "approval" /\ f(t).id = f(v).id => f(t) = f(v)
      BY Zenon DEF OwnNames
    <2> QED BY <1>1 DEF OwnNames, Follows, Retired
  <1>4. ASSUME NEW v \in vs
        PROVE  \E t \in ts : Follows(v, t) /\ (v.conn = "open" => t.kind = "approval" \/ t.id # p.stream)
    <2>1. PICK u \in us : v = f(u)
      OBVIOUS
    <2>2. PICK t \in ts : Follows(u, t) /\ (u.conn = "open" => t.kind = "approval" \/ t.id # p.stream)
      BY Zenon DEF Retired
    <2>3. Follows(v, u)
      BY <2>1, <1>1, Zenon
    <2>4. Follows(v, t)
      BY <2>2, <2>3, Zenon DEF Follows
    <2> QED BY <2>2, <2>3, <2>4, Zenon DEF Follows
  <1>5. Retired(vs, ts, p)
    BY <1>2, <1>3, <1>4, Zenon DEF Retired
  <1> QED BY <1>5, Zenon DEF WithActiveAborted, f

LEMMA NoneStaysActive ==
  ASSUME NEW p, NEW q, NEW ts, NEW us, NEW cs, NEW ds, NEW as, NEW ap, NEW rn, NEW n, NEW lt,
         Sound(p, ts, cs, as, ap, rn, n, lt), IsChat(q), q.nonce = p.nonce + 1, p.opening <= q.opening,
         q.flow.id <= n + 1, q.open => (q.blocked <=> q.submitting), Retired(us, ts, p),
         ds = [i \in ID |-> ds[i]], \A i \in ID : ds[i] = "pending" => cs[i] = "pending"
  PROVE  Tasks(q, us, n + 1, lt) /\ FlowsOK(us, ds, ap, rn, n + 1) /\ Idle(q, us)
  <1>0. /\ Tasks(p, ts, n, lt) /\ FlowsOK(ts, cs, ap, rn, n) /\ n \in Nat /\ n + 1 \in Nat
        /\ p.nonce \in Nat /\ p.opening \in Nat /\ q.opening \in Nat
    BY DEF Sound, Tasks, IsChat
  <1>n. \A i \in ID : i <= n => i <= n + 1
    BY <1>0, NewIsLater, Zenon
  <1>1. ASSUME NEW u \in us PROVE TaskOK(u, q, n + 1) /\ StreamOK(u, q, lt) /\ ~Active(u, q)
    <2>1. PICK t \in ts : Follows(u, t) /\ (u.conn = "open" => t.kind = "approval" \/ t.id # p.stream)
      BY Zenon DEF Retired
    <2>2. TaskOK(t, p, n) /\ StreamOK(t, p, lt) /\ IsTask(t)
      BY <1>0, Zenon DEF Tasks, TaskOK
    <2>3. t.kind # "approval" => t.nonce <= q.nonce /\ t.nonce # q.nonce
      BY <1>0, <2>2 DEF TaskOK, IsTask
    <2>4. ~Active(u, q)
      BY <2>1, <2>3, Zenon DEF Active, Follows
    <2>5. t.opening <= q.opening /\ t.id <= n + 1
      BY <1>0, <1>n, <2>2 DEF TaskOK, IsTask
    <2>6. TaskOK(u, q, n + 1)
      BY <2>1, <2>2, <2>3, <2>4, <2>5, Zenon DEF TaskOK, Follows
    <2>7. StreamOK(u, q, lt)
      BY <2>1, <2>2, Zenon DEF StreamOK, TaskOK, Follows
    <2> QED BY <2>4, <2>6, <2>7, Zenon
  <1>2. Tasks(q, us, n + 1, lt) /\ Idle(q, us)
    BY <1>0, <1>1, Zenon DEF Tasks, Idle, Retired
  <1>3. FlowsOK(us, ds, ap, rn, n + 1)
    <2>1. \A i \in ap : i \in ID /\ i <= n + 1 /\ ds[i] # "pending"
      BY <1>0, <1>n, Zenon DEF FlowsOK
    <2>2. \A i \in ID : ds[i] = "pending" => i <= n + 1
      BY <1>0, <1>n, Zenon DEF FlowsOK
    <2>3. ASSUME NEW u \in us
          PROVE  /\ u.kind = "run" => u.id \notin ap /\ ds[u.id] # "pending"
                 /\ u.kind = "approval" =>
                      /\ u.id \in ap
                      /\ u.step \in {"resolving", "planning", "executing", "confirming"} => rn[u.id] = 0
      <3>1. PICK t \in ts : Follows(u, t)
        BY Zenon DEF Retired
      <3>2. t.id \in ID
        BY <3>1, Zenon DEF Follows, IsTask
      <3> QED BY <1>0, <3>1, <3>2, Zenon DEF FlowsOK, Follows
    <2> QED BY <1>0, <2>1, <2>2, <2>3, Zenon DEF FlowsOK
  <1> QED BY <1>2, <1>3, Zenon

-----------------------------------------------------------------------------
(* The actions of the tasks.                                               *)

LEMMA TaskFacts ==
  ASSUME SubInv, NEW t \in tasks
  PROVE  /\ IsTask(t) /\ TaskOK(t, chat, acts) /\ t.id \in ID /\ t.id # 0
         /\ isActiveSubmission(t) <=> Active(t, chat)
         /\ IsChat(chat) /\ SamePanel(chat, chat)
         /\ service.ran \in [ID -> Nat]
  BY DEF SubInv, Sound, Tasks, TaskOK, IsTask, ID, FlowsOK, Active, isActiveSubmission, SamePanel

LEMMA AuditEnds ==
  ASSUME NEW as, NEW a
  PROVE  /\ failAudit(as, a) = [i \in ID |-> failAudit(as, a)[i]]
         /\ completeAudit(as, a) = [i \in ID |-> completeAudit(as, a)[i]]
         /\ \A i \in ID : /\ failAudit(as, a)[i] = "running" => as[i] = "running" /\ i # a
                          /\ completeAudit(as, a)[i] = "running" => as[i] = "running" /\ i # a
  BY Zenon DEF failAudit, completeAudit

(* t becomes u, and the panel stays as it is.                              *)
LEMMA MoveKeeps ==
  ASSUME SubInv, NEW t \in tasks, NEW u, TaskBecomes(t, u), Same(u, t), u.aborted = t.aborted,
         u.conn \in {t.conn, "done"}, t.kind = "approval" => u.conn = t.conn,
         chat' = chat, cards' = cards, late' = late, acts' = acts, approved' = approved,
         service' = [f \in ServiceField |-> service'[f]], service'.ran = service.ran,
         audits' = [i \in ID |-> audits'[i]],
         t.kind = "approval" /\ u.step \in {"resolving", "planning", "executing", "confirming"}
            => t.step \in {"resolving", "planning", "executing", "confirming"},
         \A i \in ID : audits'[i] = "running" => /\ audits[i] = "running"
                                                 /\ SettlesCard(t, chat, i) => SettlesCard(u, chat, i)
  PROVE  SubInv'
  <1>1. /\ Sound(chat, tasks, cards, audits, approved, service.ran, acts, late)
        /\ SamePanel(chat, chat) /\ service.ran \in [ID -> Nat]
    BY TaskFacts, Zenon DEF SubInv
  <1>2. t.kind = "approval" /\ u.step \in {"resolving", "planning", "executing", "confirming"} => service.ran[t.id] = 0
    BY <1>1, Zenon DEF Sound, FlowsOK
  <1>3. u.conn = "open" => u.conn = t.conn
    OBVIOUS
  <1>4. MovesOn(chat, chat, t, u, audits, audits', approved, service.ran, service.ran)
    BY <1>1, <1>2, <1>3, Zenon DEF MovesOn
  <1>5. Sound(chat, (tasks \ {t}) \cup {u}, cards, audits', approved, service.ran, acts, late)
    BY <1>1, <1>4, TaskMoves, Zenon
  <1> QED BY <1>5, Zenon DEF SubInv, TaskBecomes

Unmoved == UNCHANGED <<acts, approved>>

LEMMA ResolveKeeps ==
  ASSUME SubInv, NEW t \in tasks, resolveRuntimeContext(t), Unmoved
  PROVE  SubInv'
  <1>1. PICK s : s = IF t.kind = "run" THEN "sending" ELSE "connecting"
    OBVIOUS
  <1>2. IsTask(t) /\ TaskStepOf(t.kind, s) /\ t.kind # "approval" /\ t.step = "resolving"
    BY <1>1, TaskFacts, Zenon DEF resolveRuntimeContext, Step, IsTask, TaskStepOf
  <1>3. PICK u : u = [t EXCEPT !.step = s]
    BY Zenon
  <1>4. Same(u, t) /\ u.step = s /\ u.conn = t.conn /\ u.aborted = t.aborted
    BY <1>2, <1>3, Zenon DEF IsTask, Same, TaskField
  <1>5. TaskBecomes(t, u)
    BY <1>1, <1>3, Zenon DEF resolveRuntimeContext, Step
  <1>6. \A i \in ID : SettlesCard(t, chat, i) => SettlesCard(u, chat, i)
    BY <1>1, <1>2, <1>4, Zenon DEF SettlesCard, Same, Active
  <1> QED BY <1>2, <1>4, <1>5, <1>6, MoveKeeps, Zenon DEF resolveRuntimeContext, Unmoved, SubInv

LEMMA StreamTextKeeps ==
  ASSUME SubInv, NEW t \in tasks, StreamText(t), Unmoved
  PROVE  SubInv'
  BY Zenon DEF SubInv, StreamText, Unmoved

LEMMA StreamCompleteKeeps ==
  ASSUME SubInv, NEW t \in tasks, StreamComplete(t), Unmoved
  PROVE  SubInv'
  <1>1. /\ IsTask(t) /\ TaskStepOf(t.kind, "ended") /\ t.kind = "chat"
        /\ isActiveSubmission(t) <=> Active(t, chat)
    BY TaskFacts, Zenon DEF StreamComplete, IsTask, TaskStepOf
  <1>2. PICK u : u = [t EXCEPT !.step = "ended", !.conn = "done"]
    OBVIOUS
  <1>3. Same(u, t) /\ u.conn = "done" /\ u.aborted = t.aborted
    BY <1>1, <1>2, Zenon DEF IsTask, Same, TaskField
  <1>4. TaskBecomes(t, u)
    BY <1>2, Zenon DEF StreamComplete
  <1>5. /\ audits' = [i \in ID |-> audits'[i]]
        /\ \A i \in ID : audits'[i] = "running" => audits[i] = "running" /\ ~SettlesCard(t, chat, i)
    <2>1. CASE isActiveSubmission(t)
      BY <1>1, <2>1, AuditEnds DEF StreamComplete, SettlesCard
    <2>2. CASE ~isActiveSubmission(t)
      BY <1>1, <2>2, Zenon DEF StreamComplete, SettlesCard, SubInv
    <2> QED BY <2>1, <2>2, Zenon
  <1>6. service' = [f \in ServiceField |-> service'[f]] /\ service'.ran = service.ran
    BY Zenon DEF StreamComplete, SubInv, ServiceField
  <1> QED BY <1>1, <1>3, <1>4, <1>5, <1>6, MoveKeeps, Zenon DEF StreamComplete, Unmoved

LEMMA StreamErrorKeeps ==
  ASSUME SubInv, NEW t \in tasks, StreamError(t), Unmoved
  PROVE  SubInv'
  <1>1. /\ IsTask(t) /\ TaskStepOf(t.kind, "ended") /\ t.kind = "chat"
        /\ isActiveSubmission(t) <=> Active(t, chat)
    BY TaskFacts, Zenon DEF StreamError, IsTask, TaskStepOf
  <1>2. PICK u : u = [t EXCEPT !.step = "ended", !.conn = "done", !.errored = TRUE]
    OBVIOUS
  <1>3. Same(u, t) /\ u.conn = "done" /\ u.aborted = t.aborted
    BY <1>1, <1>2, Zenon DEF IsTask, Same, TaskField
  <1>4. TaskBecomes(t, u)
    BY <1>2, Zenon DEF StreamError
  <1>5. /\ audits' = [i \in ID |-> audits'[i]]
        /\ \A i \in ID : audits'[i] = "running" => audits[i] = "running" /\ ~SettlesCard(t, chat, i)
    <2>1. CASE isActiveSubmission(t)
      BY <1>1, <2>1, AuditEnds DEF StreamError, SettlesCard
    <2>2. CASE ~isActiveSubmission(t)
      BY <1>1, <2>2, Zenon DEF StreamError, SettlesCard, SubInv
    <2> QED BY <2>1, <2>2, Zenon
  <1>6. service' = [f \in ServiceField |-> service'[f]] /\ service'.ran = service.ran
    BY Zenon DEF StreamError, SubInv
  <1> QED BY <1>1, <1>3, <1>4, <1>5, <1>6, MoveKeeps, Zenon DEF StreamError, Unmoved

(* A step on the way of a task that runs in the terminal.                  *)
LEMMA StepKeeps ==
  ASSUME SubInv, NEW t \in tasks, NEW s, TaskBecomes(t, [t EXCEPT !.step = s]), TaskStepOf(t.kind, s), Unmoved,
         UNCHANGED <<chat, cards, audits, late>>,
         service' = [f \in ServiceField |-> service'[f]], service'.ran = service.ran,
         t.kind = "approval" /\ s \in {"resolving", "planning", "executing", "confirming"}
            => t.step \in {"resolving", "planning", "executing", "confirming"},
         t.kind # "chat" \/ t.conn = "closed" \/ t.step = "ended"
  PROVE  SubInv'
  <1>1. IsTask(t) /\ TaskOK(t, chat, acts)
    BY TaskFacts, Zenon
  <1>2. PICK u : u = [t EXCEPT !.step = s]
    OBVIOUS
  <1>3. Same(u, t) /\ u.step = s /\ u.conn = t.conn /\ u.aborted = t.aborted /\ TaskBecomes(t, u)
    BY <1>1, <1>2, Zenon DEF IsTask, Same, TaskField
  <1>4. \A i \in ID : SettlesCard(t, chat, i) => SettlesCard(u, chat, i)
    BY <1>1, <1>3, Zenon DEF SettlesCard, Same, TaskOK
  <1> QED BY <1>3, <1>4, MoveKeeps, Zenon DEF Unmoved, SubInv

LEMMA ExplainKeeps ==
  ASSUME SubInv, NEW t \in tasks, Explain(t), Unmoved
  PROVE  SubInv'
  <1>1. t.kind # "chat" /\ TaskStepOf(t.kind, "explained")
    BY TaskFacts, Zenon DEF Explain, Step, IsTask, TaskStepOf
  <1>2. service' = [f \in ServiceField |-> service'[f]] /\ service'.ran = service.ran
    BY Zenon DEF Explain, SubInv, ServiceField
  <1> QED BY <1>1, <1>2, StepKeeps, Zenon DEF Explain, Step

LEMMA StreamAbortedKeeps ==
  ASSUME SubInv, NEW t \in tasks, StreamAborted(t), Unmoved
  PROVE  SubInv'
  <1>1. t.kind = "chat" /\ TaskStepOf(t.kind, "ended")
    BY TaskFacts, Zenon DEF StreamAborted, Step, IsTask, TaskStepOf
  <1> QED BY <1>1, StepKeeps, Zenon DEF StreamAborted, Step, SubInv

LEMMA PlanExecutionKeeps ==
  ASSUME SubInv, NEW t \in tasks, PlanExecution(t), Unmoved
  PROVE  SubInv'
  <1>1. PICK s \in {"planning", "executing"} : TaskBecomes(t, [t EXCEPT !.step = s])
    BY Zenon DEF PlanExecution, Step
  <1>2. t.kind = "approval" /\ TaskStepOf(t.kind, s) /\ t.step \in {"resolving", "planning"}
    BY <1>1, Zenon DEF PlanExecution, Step, TaskStepOf
  <1> QED BY <1>1, <1>2, StepKeeps, Zenon DEF PlanExecution, SubInv

LEMMA ConfirmApprovalKeeps ==
  ASSUME SubInv, NEW t \in tasks, ConfirmApproval(t), Unmoved
  PROVE  SubInv'
  <1>1. IsTask(t) /\ t.kind = "approval" /\ TaskStepOf(t.kind, "executing") /\ t.step = "confirming"
    BY TaskFacts, Zenon DEF ConfirmApproval, IsTask, TaskStepOf
  <1>2. PICK u : u = [t EXCEPT !.step = "executing", !.token = TRUE]
    OBVIOUS
  <1>3. Same(u, t) /\ u.conn = t.conn /\ u.aborted = t.aborted
    BY <1>1, <1>2, Zenon DEF IsTask, Same, TaskField
  <1>4. TaskBecomes(t, u)
    BY <1>2, Zenon DEF ConfirmApproval
  <1>5. \A i \in ID : SettlesCard(t, chat, i) => SettlesCard(u, chat, i)
    BY <1>1, <1>3, Zenon DEF SettlesCard, Same
  <1> QED BY <1>1, <1>3, <1>4, <1>5, MoveKeeps, Zenon DEF ConfirmApproval, Unmoved, SubInv

LEMMA ExecuteApprovedKeeps ==
  ASSUME SubInv, NEW t \in tasks, ExecuteApproved(t), Unmoved
  PROVE  SubInv'
  <1>1. IsTask(t) /\ t.kind = "approval" /\ t.step = "executing" /\ t.id \in ID
    BY TaskFacts, Zenon DEF ExecuteApproved
  <1>2. CASE TaskBecomes(t, [t EXCEPT !.step = "confirming"]) /\ UNCHANGED service
    BY <1>1, <1>2, StepKeeps, Zenon DEF ExecuteApproved, TaskStepOf, SubInv
  <1>3. CASE service' = [service EXCEPT !.ran[t.id] = @ + 1] /\ TaskBecomes(t, [t EXCEPT !.step = "watching"])
    <2>1. PICK u : u = [t EXCEPT !.step = "watching"]
      BY Zenon
    <2>2. TaskStepOf(t.kind, "watching")
      BY <1>1, Zenon DEF TaskStepOf
    <2>3. Same(u, t) /\ u.step = "watching" /\ u.conn = t.conn /\ u.aborted = t.aborted
      BY <1>1, <2>1, <2>2, Zenon DEF IsTask, Same, TaskField
    <2>4. /\ Sound(chat, tasks, cards, audits, approved, service.ran, acts, late)
          /\ SamePanel(chat, chat) /\ service.ran \in [ID -> Nat]
      BY TaskFacts, Zenon DEF SubInv
    <2>5. service.ran[t.id] = 0 /\ t.id \in approved
      BY <2>4, <1>1, Zenon DEF Sound, FlowsOK
    <2>6. PICK sn : sn = service'.ran
      OBVIOUS
    <2>7. service' = [f \in ServiceField |-> service'[f]] /\ sn = [service.ran EXCEPT ![t.id] = @ + 1]
      BY <1>3, <2>6, Zenon DEF SubInv, ServiceField
    <2>8. sn \in [ID -> Nat] /\ sn[t.id] = 1 /\ \A i \in ID \ {t.id} : sn[i] = service.ran[i]
      BY <2>4, <2>5, <2>7, <1>1
    <2>9. \A i \in ID : SettlesCard(t, chat, i) => SettlesCard(u, chat, i)
      BY <1>1, <2>3, Zenon DEF SettlesCard, Same
    <2>10. MovesOn(chat, chat, t, u, audits, audits, approved, service.ran, sn)
      BY <1>1, <2>3, <2>4, <2>5, <2>8, <2>9, Zenon DEF MovesOn
    <2>11. Sound(chat, (tasks \ {t}) \cup {u}, cards, audits, approved, sn, acts, late)
      BY <2>4, <2>10, TaskMoves, Zenon
    <2>12. tasks' = (tasks \ {t}) \cup {u}
      BY <1>3, <2>1, Zenon DEF TaskBecomes
    <2> QED BY <2>6, <2>7, <2>11, <2>12, Zenon DEF SubInv, ExecuteApproved, Unmoved
  <1> QED BY <1>2, <1>3, Zenon DEF ExecuteApproved

(* The finally block.                                                      *)
LEMMA ReleasedFields ==
  ASSUME IsChat(chat)
  PROVE  Freed(chat, Released(chat)) /\ Released(chat).flow = chat.flow
  BY Zenon DEF IsChat, Released, Freed, ChatField

LEMMA FinishKeeps ==
  ASSUME SubInv, NEW t \in tasks, t.kind # "approval", Finish(t, chat), Unmoved,
         UNCHANGED <<cards, service, late>>, audits' = [i \in ID |-> audits'[i]],
         \A i \in ID : audits'[i] = "running" => audits[i] = "running" /\ ~SettlesCard(t, chat, i)
  PROVE  SubInv'
  <1>1. /\ Sound(chat, tasks, cards, audits, approved, service.ran, acts, late)
        /\ SamePanel(chat, chat) /\ IsChat(chat) /\ (isActiveSubmission(t) <=> Active(t, chat))
    BY TaskFacts, Zenon DEF SubInv
  <1>2. Ends(chat, chat', t, audits, audits')
    <2>1. CASE isActiveSubmission(t)
      BY <1>1, <2>1, ReleasedFields, Zenon DEF Finish, Ends
    <2>2. CASE ~isActiveSubmission(t)
      BY <1>1, <2>2, Zenon DEF Finish, Ends
    <2> QED BY <2>1, <2>2, Zenon
  <1>3. Sound(chat', tasks \ {t}, cards, audits', approved, service.ran, acts, late)
    BY <1>1, <1>2, TaskEnds, Zenon
  <1> QED BY <1>3, Zenon DEF SubInv, Finish, Unmoved

LEMMA AfterStreamKeeps ==
  ASSUME SubInv, NEW t \in tasks, AfterStream(t), Unmoved
  PROVE  SubInv'
  <1>1. t.kind = "chat" /\ TaskStepOf(t.kind, "fetching") /\ t.step = "ended"
    BY TaskFacts, Zenon DEF AfterStream, IsTask, TaskStepOf
  <1>2. CASE isActiveSubmission(t) /\ ~t.errored
    BY <1>1, <1>2, StepKeeps, Zenon DEF AfterStream, SubInv
  <1>3. CASE ~(isActiveSubmission(t) /\ ~t.errored)
    BY <1>1, <1>3, FinishKeeps, Zenon DEF AfterStream, SubInv, SettlesCard
  <1> QED BY <1>2, <1>3, Zenon

LEMMA WaitKeeps ==
  ASSUME SubInv, NEW t \in tasks, waitForTerminalOutput(t), Unmoved
  PROVE  SubInv'
  <1>1. t.kind # "chat" /\ TaskStepOf(t.kind, "explaining") /\ TaskOK(t, chat, acts)
    BY TaskFacts, Zenon DEF waitForTerminalOutput, IsTask, TaskStepOf
  <1>2. CASE t.aborted
    <2>1. t.kind # "approval"
      BY <1>1, <1>2, Zenon DEF TaskOK
    <2> QED BY <1>1, <1>2, <2>1, FinishKeeps, Zenon DEF waitForTerminalOutput, SubInv, SettlesCard
  <1>3. CASE ~t.aborted
    BY <1>1, <1>3, StepKeeps, Zenon DEF waitForTerminalOutput, SubInv
  <1> QED BY <1>2, <1>3, Zenon

LEMMA ApplySnapshotKeeps ==
  ASSUME SubInv, NEW t \in tasks, ApplySnapshot(t), Unmoved
  PROVE  SubInv'
  BY FinishKeeps, Zenon DEF ApplySnapshot, SubInv, SettlesCard

LEMMA PromptFailsKeeps ==
  ASSUME SubInv, NEW t \in tasks, PromptFails(t), Unmoved
  PROVE  SubInv'
  <1>1. isActiveSubmission(t) <=> Active(t, chat)
    BY TaskFacts, Zenon
  <1>2. /\ audits' = [i \in ID |-> audits'[i]]
        /\ \A i \in ID : audits'[i] = "running" => audits[i] = "running" /\ ~SettlesCard(t, chat, i)
    <2>1. CASE isActiveSubmission(t)
      BY <2>1, AuditEnds DEF PromptFails, SettlesCard
    <2>2. CASE ~isActiveSubmission(t)
      BY <1>1, <2>2, Zenon DEF PromptFails, SettlesCard, SubInv
    <2> QED BY <2>1, <2>2, Zenon
  <1> QED BY <1>2, FinishKeeps, Zenon DEF PromptFails

LEMMA ConnectKeeps ==
  ASSUME SubInv, NEW t \in tasks, Connect(t), Unmoved
  PROVE  SubInv'
  <1>1. /\ IsTask(t) /\ t.kind = "chat" /\ TaskStepOf(t.kind, "streaming") /\ t.step = "connecting"
        /\ isActiveSubmission(t) <=> Active(t, chat)
    BY TaskFacts, Zenon DEF Connect, IsTask, TaskStepOf
  <1>2. CASE isActiveSubmission(t)
    <2>1. PICK u : u = [t EXCEPT !.step = "streaming", !.conn = "open"]
      OBVIOUS
    <2>2. Same(u, t) /\ u.step = "streaming" /\ u.conn = "open" /\ u.aborted = t.aborted
      BY <1>1, <2>1, Zenon DEF IsTask, Same, TaskField
    <2>3. PICK q : q = [chat EXCEPT !.stream = t.id]
      BY Zenon
    <2>4. /\ Sound(chat, tasks, cards, audits, approved, service.ran, acts, late)
          /\ IsChat(chat) /\ service.ran \in [ID -> Nat]
      BY TaskFacts, Zenon DEF SubInv
    <2>5. SamePanel(chat, q) /\ q.stream = u.id
      BY <2>2, <2>3, <2>4, Zenon DEF IsChat, SamePanel, ChatField, Same
    <2>6. \A i \in ID : SettlesCard(t, chat, i) => SettlesCard(u, q, i)
      BY <1>1, <2>2, <2>5, Zenon DEF SettlesCard, Same, Active, SamePanel
    <2>7. MovesOn(chat, q, t, u, audits, audits, approved, service.ran, service.ran)
      BY <1>1, <1>2, <2>2, <2>4, <2>5, <2>6, Zenon DEF MovesOn
    <2>8. Sound(q, (tasks \ {t}) \cup {u}, cards, audits, approved, service.ran, acts, late)
      BY <2>4, <2>7, TaskMoves, Zenon
    <2>9. chat' = q /\ tasks' = (tasks \ {t}) \cup {u}
      BY <1>2, <2>1, <2>3, Zenon DEF Connect, TaskBecomes
    <2> QED BY <2>8, <2>9, Zenon DEF SubInv, Connect, Unmoved
  <1>3. CASE ~isActiveSubmission(t)
    BY <1>1, <1>3, FinishKeeps, Zenon DEF Connect, SubInv, SettlesCard
  <1> QED BY <1>2, <1>3, Zenon

LEMMA SendInputKeeps ==
  ASSUME SubInv, NEW t \in tasks, SendInput(t), Unmoved
  PROVE  SubInv'
  <1>1. t.kind = "run" /\ TaskStepOf(t.kind, "watching")
    BY Zenon DEF SendInput, TaskStepOf
  <1>2. CASE TaskBecomes(t, [t EXCEPT !.step = "watching"]) /\ UNCHANGED <<chat, cards, late>>
    BY <1>1, <1>2, StepKeeps, Zenon DEF SendInput, SubInv
  <1>3. CASE /\ Finish(t, [chat EXCEPT !.flow = [id |-> t.id, kind |-> "run"]])
             /\ cards' = [cards EXCEPT ![t.id] = "pending"]
             /\ NoteLate(t)
    <2>1. /\ Sound(chat, tasks, cards, audits, approved, service.ran, acts, late)
          /\ IsChat(chat) /\ (isActiveSubmission(t) <=> Active(t, chat)) /\ t.id \in ID
      BY TaskFacts, Zenon DEF SubInv
    <2>3. PICK r : r = [chat EXCEPT !.flow = [id |-> t.id, kind |-> "run"]]
      BY Zenon
    <2>4. /\ IsChat(r) /\ r.flow.id = t.id
          /\ r.open = chat.open /\ r.opening = chat.opening /\ r.nonce = chat.nonce
          /\ r.submitting = chat.submitting /\ r.blocked = chat.blocked
          /\ r.stream = chat.stream /\ r.audit = chat.audit
      BY <2>1, <2>3, Zenon DEF IsChat, ChatField, FlowField, FlowKind
    <2>5. Freed(r, Released(r)) /\ Released(r).flow = r.flow
      BY <2>4, Zenon DEF IsChat, Released, Freed, ChatField
    <2>6. late \subseteq late' /\ (t.opening < chat.opening => chat.opening \in late')
      BY <1>3, Zenon DEF NoteLate
    <2>7. AsksFirst(chat, chat', t, cards, cards', late, late')
      <3>1. chat' = IF isActiveSubmission(t) THEN Released(r) ELSE r
        BY <1>3, <2>3, Zenon DEF Finish
      <3>2. CASE isActiveSubmission(t)
        <4>1. Freed(chat, Released(r))
          BY <2>4, <2>5, Zenon DEF Freed
        <4> QED BY <1>1, <1>3, <2>1, <2>4, <2>5, <2>6, <3>1, <3>2, <4>1, Zenon DEF AsksFirst
      <3>3. CASE ~isActiveSubmission(t)
        BY <1>1, <1>3, <2>1, <2>4, <2>6, <3>1, <3>3, Zenon DEF AsksFirst
      <3> QED BY <3>2, <3>3, Zenon
    <2>8. Sound(chat', tasks \ {t}, cards', audits, approved, service.ran, acts, late')
      BY <2>1, <2>7, RunBecomesFlow, Zenon
    <2>9. tasks' = tasks \ {t}
      BY <1>3, Zenon DEF Finish
    <2> QED BY <2>8, <2>9, Zenon DEF SubInv, SendInput, Unmoved
  <1> QED BY <1>2, <1>3, Zenon DEF SendInput

LEMMA EndApprovalKeeps ==
  ASSUME SubInv, NEW t \in tasks, t.kind = "approval", EndApproval(t), Unmoved,
         UNCHANGED <<cards, service>>, audits' = [i \in ID |-> audits'[i]],
         \A i \in ID : audits'[i] = "running" => audits[i] = "running" /\ i # t.id
  PROVE  SubInv'
  <1>1. Sound(chat, tasks, cards, audits, approved, service.ran, acts, late) /\ IsChat(chat)
    BY TaskFacts, Zenon DEF SubInv
  <1>3. PICK q : q = chat'
    OBVIOUS
  <1>4. Freed(chat, q) /\ q.flow.id = 0 /\ q.stream = chat.stream /\ q.audit = chat.audit
    BY <1>1, <1>3, Zenon DEF EndApproval, clearPendingInteractionFlow, NoFlow, IsChat, ChatField, FlowField, Freed
  <1>5. late \subseteq late' /\ (t.opening < chat.opening => chat.opening \in late')
    BY Zenon DEF EndApproval, NoteLate
  <1>6. EndsApproval(chat, q, t, audits, audits', late, late')
    BY <1>4, <1>5, Zenon DEF EndsApproval
  <1>7. Sound(q, tasks \ {t}, cards, audits', approved, service.ran, acts, late')
    BY <1>1, <1>6, ApprovalEnds, Zenon
  <1>8. tasks' = tasks \ {t}
    BY Zenon DEF EndApproval
  <1> QED BY <1>3, <1>7, <1>8, Zenon DEF SubInv, Unmoved

LEMMA ApprovalDoneKeeps ==
  ASSUME SubInv, NEW t \in tasks, ApprovalDone(t), Unmoved
  PROVE  SubInv'
  BY AuditEnds, EndApprovalKeeps DEF ApprovalDone

LEMMA ApprovalFailsKeeps ==
  ASSUME SubInv, NEW t \in tasks, ApprovalFails(t), Unmoved
  PROVE  SubInv'
  BY AuditEnds, EndApprovalKeeps DEF ApprovalFails

-----------------------------------------------------------------------------
(* The actions of the operator.                                            *)

LEMMA PanelFacts ==
  ASSUME SubInv
  PROVE  /\ Sound(chat, tasks, cards, audits, approved, service.ran, acts, late)
         /\ IsChat(chat) /\ acts \in Nat /\ cards = [i \in ID |-> cards[i]]
  BY Zenon DEF SubInv, Sound, Tasks, FlowsOK

(* Nothing holds a panel that waits for a prompt or for a button.          *)
LEMMA WaitingIsFree ==
  ASSUME SubInv, chat.open, chat.opening \notin late,
         (~chat.submitting) \/ (chat.flow.id # 0 /\ cards[chat.flow.id] = "pending")
  PROVE  Free(chat, tasks)
  <1>1. HolderOK(chat, tasks, cards)
    BY Zenon DEF SubInv, Sound
  <1> QED BY <1>1, Zenon DEF HolderOK, Free

LEMMA TakenOver ==
  ASSUME IsChat(chat), chat.open, acts \in Nat, acts < MaxSubmits, MaxSubmits \in Nat,
         NEW kind \in {"chat", "run"}, NEW a, kind = "run" => a = 0,
         RunBackendPrompt(clearPendingInteractionFlow(chat), kind, a)
  PROVE  \E u : TakesOver(chat, chat', u, acts) /\ tasks' = tasks \cup {u} /\ u.audit = a
  <1>1. PICK q : q = chat'
    OBVIOUS
  <1>2. acts + 1 \in ID /\ chat.nonce + 1 \in Nat
    BY DEF ID, IsChat
  <1>3. /\ IsChat(q) /\ q.flow.id = 0 /\ q.open = chat.open /\ q.opening = chat.opening
        /\ q.nonce = chat.nonce + 1 /\ q.submitting = TRUE /\ q.blocked = TRUE
        /\ q.cancellable = (kind = "chat") /\ q.audit = a
    BY <1>1, <1>2, Zenon DEF RunBackendPrompt, clearPendingInteractionFlow, NoFlow, IsChat, ChatField, FlowField
  <1>4. PICK u : u = Task(NewID, kind, "resolving", a, q.nonce)
    OBVIOUS
  <1>5. tasks' = tasks \cup {u}
    BY <1>1, <1>4, Zenon DEF RunBackendPrompt
  <1>6. u.id = acts + 1 /\ u.kind = kind /\ u.nonce = q.nonce /\ u.step = "resolving" /\ u.audit = a
    BY <1>4, Zenon DEF Task, NewID
  <1>7. Begun(u, chat)
    BY <1>2, <1>3, <1>4, Zenon DEF Begun, IsTask, IsChat, TaskField, Task, NewID, TaskStepOf
  <1>8. TakesOver(chat, q, u, acts)
    BY <1>3, <1>6, <1>7, Zenon DEF TakesOver
  <1> QED BY <1>1, <1>5, <1>6, <1>8, Zenon

(* A prompt that goes to the backend, with the cards it leaves.            *)
LEMMA PromptKeeps ==
  ASSUME SubInv, MaxSubmits \in Nat, chat.open, OperatorActs, NEW kind \in {"chat", "run"}, NEW a, kind = "run" => a = 0,
         RunBackendPrompt(clearPendingInteractionFlow(chat), kind, a),
         audits' = [i \in ID |-> audits'[i]],
         Leaves(chat, tasks, cards, cards', audits, audits', approved, approved', a, late)
  PROVE  SubInv'
  <1>1. /\ Sound(chat, tasks, cards, audits, approved, service.ran, acts, late)
        /\ IsChat(chat) /\ acts \in Nat /\ acts < MaxSubmits /\ acts' = acts + 1 /\ UNCHANGED <<service, late>>
    BY PanelFacts, Zenon DEF OperatorActs
  <1>2. PICK u : TakesOver(chat, chat', u, acts) /\ tasks' = tasks \cup {u} /\ u.audit = a
    BY <1>1, TakenOver, Zenon
  <1>3. Sound(chat', tasks \cup {u}, cards', audits', approved', service.ran, acts + 1, late)
    BY <1>1, <1>2, PromptBegins, Zenon
  <1> QED BY <1>1, <1>2, <1>3, Zenon DEF SubInv

(* A flow that is opened, reclassified or dropped.                         *)
LEMMA FlowKeeps ==
  ASSUME SubInv, OperatorActs, OnlyFlow(chat, chat', tasks, cards, cards', acts, late),
         UNCHANGED <<tasks, audits, approved>>
  PROVE  SubInv'
  <1>1. Sound(chat, tasks, cards, audits, approved, service.ran, acts, late)
    BY PanelFacts, Zenon
  <1>2. Sound(chat', tasks, cards', audits, approved, service.ran, acts + 1, late)
    BY <1>1, FlowMoves, Zenon
  <1> QED BY <1>2, Zenon DEF SubInv, OperatorActs

LEMMA NoFlowIsClear ==
  ASSUME IsChat(chat), chat.flow = NoFlow
  PROVE  clearPendingInteractionFlow(chat) = chat
  BY Zenon DEF IsChat, ChatField, clearPendingInteractionFlow

(* With a pending flow, its card is the only one with buttons.             *)
LEMMA PendingIsFlow ==
  ASSUME SubInv, chat.open, chat.opening \notin late, NEW i \in ID, cards[i] = "pending"
  PROVE  chat.flow.id = i
  BY Zenon DEF SubInv, Sound, HolderOK

LEMMA SubmitsKeep ==
  ASSUME SubInv, MaxSubmits \in Nat, NEW kind, submitDraft(kind)
  PROVE  SubInv'
  <1>1. /\ OperatorActs /\ UNCHANGED <<approved, audits>> /\ chat.open /\ ~chat.submitting
        /\ chat.flow = NoFlow /\ chat.flow.id = 0
    BY DEF submitDraft, NoFlow
  <1>2. IsChat(chat) /\ acts \in Nat /\ cards = [i \in ID |-> cards[i]] /\ audits = [i \in ID |-> audits[i]]
    BY PanelFacts, Zenon DEF SubInv
  <1>3. chat.opening \notin late => Free(chat, tasks)
    BY <1>1, WaitingIsFree, Zenon
  <1>4. chat.opening \notin late => \A i \in ID : cards[i] # "pending"
    BY <1>1, PendingIsFlow DEF ID
  <1>5. CASE kind \in {"chat", "run"} /\ RunBackendPrompt(chat, kind, 0) /\ UNCHANGED cards
    <2>1. RunBackendPrompt(clearPendingInteractionFlow(chat), kind, 0)
      BY <1>1, <1>2, <1>5, NoFlowIsClear, Zenon
    <2>2. Leaves(chat, tasks, cards, cards', audits, audits', approved, approved', 0, late)
      BY <1>1, <1>2, <1>3, <1>4, <1>5, Zenon DEF Leaves
    <2> QED BY <1>1, <1>2, <1>5, <2>1, <2>2, PromptKeeps, Zenon
  <1>6. CASE /\ kind \in {"question", "plan", "terminal"}
             /\ chat' = [chat EXCEPT !.flow = [id |-> NewID, kind |-> kind]]
             /\ cards' = [cards EXCEPT ![NewID] = "pending"]
             /\ UNCHANGED tasks
    <2>1. NewID = acts + 1 /\ NewID \in ID
      BY <1>1, <1>2 DEF OperatorActs, NewID, ID
    <2>2. PICK q : q = chat'
      OBVIOUS
    <2>3. /\ IsChat(q) /\ q.flow.id = NewID
          /\ q.open = chat.open /\ q.opening = chat.opening /\ q.nonce = chat.nonce
          /\ q.submitting = chat.submitting /\ q.cancellable = chat.cancellable
          /\ q.blocked = chat.blocked /\ q.stream = chat.stream /\ q.audit = chat.audit
      BY <1>2, <1>6, <2>1, <2>2, Zenon DEF IsChat, ChatField, FlowField, FlowKind
    <2>4. PICK ds : ds = cards'
      OBVIOUS
    <2>5. ds = [i \in ID |-> ds[i]] /\ \A i \in ID : ds[i] = "pending" => i = NewID \/ cards[i] = "pending"
      BY <1>2, <1>6, <2>1, <2>4, Zenon
    <2>6. q.flow.id <= acts + 1
      BY <1>2, <2>1, <2>3
    <2>7. OnlyFlow(chat, q, tasks, cards, ds, acts, late)
      BY <1>3, <1>4, <2>1, <2>3, <2>5, <2>6, Zenon DEF OnlyFlow
    <2> QED BY <1>1, <1>6, <2>2, <2>4, <2>7, FlowKeeps, Zenon
  <1> QED BY <1>5, <1>6, Zenon DEF submitDraft

(* A button of the pending card: what the flow and its card become.        *)
Pressed(c) == [cards EXCEPT ![chat.flow.id] = c]

IsPressed(ds, c) ==
    /\ ds = [i \in ID |-> ds[i]] /\ chat.flow.id \in ID /\ ds[chat.flow.id] = c
    /\ \A i \in ID : ds[i] = "pending" => cards[i] = "pending"
    /\ chat.opening \notin late => Free(chat, tasks) /\ \A i \in ID : ds[i] # "pending"

LEMMA PressedCard ==
  ASSUME SubInv, Clickable, NEW c \in {"answered", "cancelled", "approved"}
  PROVE  IsPressed(Pressed(c), c)
  <1>1. chat.open /\ chat.flow.id # 0 /\ cards[chat.flow.id] = "pending"
    BY Zenon DEF Clickable
  <1>2. chat.flow.id \in ID /\ cards = [i \in ID |-> cards[i]]
    BY <1>1, PanelFacts, Zenon DEF IsChat
  <1>3. chat.opening \notin late => Free(chat, tasks) /\ \A i \in ID : cards[i] = "pending" => i = chat.flow.id
    BY <1>1, WaitingIsFree, PendingIsFlow, Zenon
  <1> QED BY <1>2, <1>3, Zenon DEF Pressed, IsPressed

LEMMA FlowFields ==
  ASSUME IsChat(chat), chat.flow.id # 0
  PROVE  /\ \A kind \in {"plan", "terminal"} :
              LET q == [chat EXCEPT !.flow.kind = kind]
              IN  /\ IsChat(q) /\ q.flow.id = chat.flow.id
                  /\ q.open = chat.open /\ q.opening = chat.opening /\ q.nonce = chat.nonce
                  /\ q.submitting = chat.submitting /\ q.cancellable = chat.cancellable
                  /\ q.blocked = chat.blocked /\ q.stream = chat.stream /\ q.audit = chat.audit
         /\ LET q == clearPendingInteractionFlow(chat)
            IN  /\ IsChat(q) /\ q.flow.id = 0
                /\ q.open = chat.open /\ q.opening = chat.opening /\ q.nonce = chat.nonce
                /\ q.submitting = chat.submitting /\ q.cancellable = chat.cancellable
                /\ q.blocked = chat.blocked /\ q.stream = chat.stream /\ q.audit = chat.audit
  <1>1. ASSUME NEW kind \in {"plan", "terminal"}, NEW q, q = [chat EXCEPT !.flow.kind = kind]
        PROVE  /\ IsChat(q) /\ q.flow.id = chat.flow.id
               /\ q.open = chat.open /\ q.opening = chat.opening /\ q.nonce = chat.nonce
               /\ q.submitting = chat.submitting /\ q.cancellable = chat.cancellable
               /\ q.blocked = chat.blocked /\ q.stream = chat.stream /\ q.audit = chat.audit
    BY <1>1, Zenon DEF IsChat, ChatField, FlowField, FlowKind
  <1>2. ASSUME NEW q, q = clearPendingInteractionFlow(chat)
        PROVE  /\ IsChat(q) /\ q.flow.id = 0
               /\ q.open = chat.open /\ q.opening = chat.opening /\ q.nonce = chat.nonce
               /\ q.submitting = chat.submitting /\ q.cancellable = chat.cancellable
               /\ q.blocked = chat.blocked /\ q.stream = chat.stream /\ q.audit = chat.audit
    BY <1>2, Zenon DEF IsChat, ChatField, FlowField, clearPendingInteractionFlow, NoFlow
  <1> QED BY <1>1, <1>2, Zenon

LEMMA AnswersKeep ==
  ASSUME SubInv, MaxSubmits \in Nat, NEW kind, answerQuestionnaire(kind)
  PROVE  SubInv'
  <1>1. /\ OperatorActs /\ UNCHANGED <<approved, audits>> /\ Clickable /\ chat.open /\ chat.flow.id # 0
        /\ cards[chat.flow.id] = "pending"
    BY Zenon DEF answerQuestionnaire, Clickable
  <1>2. IsChat(chat) /\ acts \in Nat /\ cards = [i \in ID |-> cards[i]] /\ audits = [i \in ID |-> audits[i]]
    BY PanelFacts, Zenon DEF SubInv
  <1>3. CASE /\ kind = "chat" /\ cards' = [cards EXCEPT ![chat.flow.id] = "answered"]
             /\ RunBackendPrompt(clearPendingInteractionFlow(chat), "chat", 0)
    <2>1. /\ cards' = [i \in ID |-> cards'[i]] /\ \A i \in ID : cards'[i] = "pending" => cards[i] = "pending"
          /\ chat.opening \notin late => Free(chat, tasks) /\ \A i \in ID : cards'[i] # "pending"
      <3>1. IsPressed(Pressed("answered"), "answered")
        BY <1>1, PressedCard, Zenon
      <3>2. cards' = Pressed("answered")
        BY <1>3, Zenon DEF Pressed
      <3> QED BY <3>1, <3>2, Zenon DEF IsPressed
    <2>2. Leaves(chat, tasks, cards, cards', audits, audits', approved, approved', 0, late)
      BY <1>1, <2>1, Zenon DEF Leaves
    <2> QED BY <1>1, <1>2, <1>3, <2>2, PromptKeeps, Zenon
  <1>4. CASE /\ kind \in {"plan", "terminal"} /\ chat' = [chat EXCEPT !.flow.kind = kind]
             /\ UNCHANGED <<cards, tasks>>
    <2>1. PICK q : q = chat'
      OBVIOUS
    <2>2. /\ IsChat(q) /\ q.flow.id = chat.flow.id
          /\ q.open = chat.open /\ q.opening = chat.opening /\ q.nonce = chat.nonce
          /\ q.submitting = chat.submitting /\ q.cancellable = chat.cancellable
          /\ q.blocked = chat.blocked /\ q.stream = chat.stream /\ q.audit = chat.audit
      BY <1>1, <1>2, <1>4, <2>1, FlowFields, Zenon
    <2>3. q.flow.id <= acts + 1
      <3>1. chat.flow.id \in ID /\ chat.flow.id <= acts
        BY <1>1, <1>2, PanelFacts, Zenon DEF IsChat, Sound, Tasks
      <3> QED BY <1>2, <2>2, <3>1, NewIsLater, Zenon
    <2>4. chat.opening \notin late =>
             Free(chat, tasks) /\ \A i \in ID : cards[i] = "pending" => chat.flow.id = i
      BY <1>1, WaitingIsFree, PendingIsFlow, Zenon
    <2>5. OnlyFlow(chat, q, tasks, cards, cards, acts, late)
      BY <1>2, <2>2, <2>3, <2>4, Zenon DEF OnlyFlow
    <2> QED BY <1>1, <1>4, <2>1, <2>5, FlowKeeps, Zenon
  <1> QED BY <1>3, <1>4, Zenon DEF answerQuestionnaire

LEMMA CancelPlanKeeps ==
  ASSUME SubInv, cancelPendingPlan
  PROVE  SubInv'
  <1>1. /\ OperatorActs /\ UNCHANGED <<approved, audits, tasks>> /\ Clickable /\ chat.flow.id # 0
        /\ cards' = [cards EXCEPT ![chat.flow.id] = "cancelled"]
        /\ chat' = clearPendingInteractionFlow(chat)
    BY Zenon DEF cancelPendingPlan, Clickable
  <1>2. IsChat(chat) /\ acts \in Nat
    BY PanelFacts, Zenon
  <1>3. PICK ds : ds = cards'
    OBVIOUS
  <1>4. /\ ds = [i \in ID |-> ds[i]] /\ \A i \in ID : ds[i] = "pending" => cards[i] = "pending"
        /\ chat.opening \notin late => Free(chat, tasks) /\ \A i \in ID : ds[i] # "pending"
    <2>1. IsPressed(Pressed("cancelled"), "cancelled")
      BY <1>1, PressedCard, Zenon
    <2>2. ds = Pressed("cancelled")
      BY <1>1, <1>3, Zenon DEF Pressed
    <2> QED BY <2>1, <2>2, Zenon DEF IsPressed
  <1>5. PICK q : q = chat'
    OBVIOUS
  <1>6. /\ IsChat(q) /\ q.flow.id = 0
        /\ q.open = chat.open /\ q.opening = chat.opening /\ q.nonce = chat.nonce
        /\ q.submitting = chat.submitting /\ q.cancellable = chat.cancellable
        /\ q.blocked = chat.blocked /\ q.stream = chat.stream /\ q.audit = chat.audit
    BY <1>1, <1>2, <1>5, FlowFields, Zenon
  <1>7. q.flow.id <= acts + 1
    BY <1>2, <1>6
  <1>8. OnlyFlow(chat, q, tasks, cards, ds, acts, late)
    BY <1>4, <1>6, <1>7, Zenon DEF OnlyFlow
  <1> QED BY <1>1, <1>3, <1>5, <1>8, FlowKeeps, Zenon

LEMMA TakenFlow ==
  ASSUME IsChat(chat), chat.open, chat.flow.id # 0, NEW s \in {"confirming", "resolving"},
         BeginApproval(chat, chat.flow.id, s)
  PROVE  \E u : TakesFlow(chat, chat', u) /\ tasks' = tasks \cup {u}
  <1>1. PICK q : q = chat'
    OBVIOUS
  <1>2. /\ IsChat(q) /\ q.open = chat.open /\ q.opening = chat.opening /\ q.nonce = chat.nonce
        /\ q.submitting = TRUE /\ q.blocked = TRUE /\ q.cancellable = FALSE
        /\ q.audit = chat.audit /\ q.stream = chat.stream /\ q.flow = chat.flow
    BY <1>1, Zenon DEF BeginApproval, IsChat, ChatField
  <1>3. PICK u : u = Task(chat.flow.id, "approval", s, chat.flow.id, 0)
    OBVIOUS
  <1>4. u.id = chat.flow.id /\ u.kind = "approval" /\ u.audit = u.id
    BY <1>3, Zenon DEF Task
  <1>5. Begun(u, chat)
    BY <1>3, Zenon DEF Begun, IsTask, IsChat, TaskField, Task, TaskStepOf
  <1>6. TakesFlow(chat, q, u)
    BY <1>2, <1>4, <1>5, Zenon DEF TakesFlow
  <1> QED BY <1>1, <1>3, <1>6, Zenon DEF BeginApproval

LEMMA ApproveKeeps ==
  ASSUME SubInv, MaxSubmits \in Nat, approvePendingPlan
  PROVE  SubInv'
  <1>1. /\ OperatorActs /\ Clickable /\ chat.open /\ chat.flow.id # 0 /\ cards[chat.flow.id] = "pending"
        /\ approved' = approved \cup {chat.flow.id}
        /\ cards' = [cards EXCEPT ![chat.flow.id] = "approved"]
        /\ audits' = [audits EXCEPT ![chat.flow.id] = "running"]
    BY Zenon DEF approvePendingPlan, Clickable
  <1>2. /\ IsChat(chat) /\ acts \in Nat /\ audits = [i \in ID |-> audits[i]]
        /\ Sound(chat, tasks, cards, audits, approved, service.ran, acts, late)
    BY PanelFacts, Zenon DEF SubInv
  <1>3. PICK ds : ds = cards'
    OBVIOUS
  <1>4. /\ ds = [i \in ID |-> ds[i]] /\ chat.flow.id \in ID /\ ds[chat.flow.id] = "approved"
        /\ \A i \in ID : ds[i] = "pending" => cards[i] = "pending"
        /\ chat.opening \notin late => Free(chat, tasks) /\ \A i \in ID : ds[i] # "pending"
    <2>1. IsPressed(Pressed("approved"), "approved")
      BY <1>1, PressedCard, Zenon
    <2>2. ds = Pressed("approved")
      BY <1>1, <1>3, Zenon DEF Pressed
    <2> QED BY <2>1, <2>2, Zenon DEF IsPressed
  <1>5. /\ audits' = [i \in ID |-> audits'[i]]
        /\ \A i \in ID : audits'[i] = "running" => audits[i] = "running" \/ i = chat.flow.id
    BY <1>1, <1>2, <1>4, Zenon
  <1>6. chat.flow.kind \in {"run", "terminal", "plan"}
    BY <1>1, <1>2, Zenon DEF approvePendingPlan, IsChat, FlowKind
  <1>7. CASE chat.flow.kind = "plan"
    <2>1. RunBackendPrompt(clearPendingInteractionFlow(chat), "chat", chat.flow.id)
      BY <1>7, Zenon DEF approvePendingPlan
    <2>2. Leaves(chat, tasks, cards, ds, audits, audits', approved, approved', chat.flow.id, late)
      BY <1>1, <1>4, <1>5, Zenon DEF Leaves
    <2> QED BY <1>1, <1>3, <1>5, <2>1, <2>2, PromptKeeps, Zenon
  <1>8. CASE chat.flow.kind \in {"run", "terminal"}
    <2>1. PICK s \in {"confirming", "resolving"} : BeginApproval(chat, chat.flow.id, s)
      BY <1>8, Zenon DEF approvePendingPlan
    <2>2. PICK u : TakesFlow(chat, chat', u) /\ tasks' = tasks \cup {u}
      BY <1>1, <1>2, <2>1, TakenFlow, Zenon
    <2>3. u.id = chat.flow.id /\ u.audit = chat.flow.id
      BY <2>2, Zenon DEF TakesFlow
    <2>4. Sound(chat', tasks \cup {u}, ds, audits', approved \cup {u.id}, service.ran, acts + 1, late)
      <3>1. Approves(chat, tasks, u, cards, ds, audits, audits', late)
        BY <1>1, <1>3, <1>4, <1>5, <2>3, Zenon DEF Approves
      <3> QED BY <1>2, <2>2, <3>1, ApprovalBegins, Zenon
    <2> QED BY <1>1, <1>3, <1>5, <2>2, <2>3, <2>4, Zenon DEF SubInv, OperatorActs
  <1> QED BY <1>6, <1>7, <1>8, Zenon

LEMMA PanelRetired ==
  ASSUME SubInv
  PROVE  Retired(WithStreamClosed(tasks), tasks, chat) /\ \A t \in WithStreamClosed(tasks) : IsTask(t)
  <1>1. OwnNames(tasks) /\ \A t \in tasks : IsTask(t)
    BY Zenon DEF SubInv, Sound, Tasks, TaskOK
  <1>2. Retired(WithStreamClosed(tasks), tasks, chat)
    BY <1>1, StreamClosed, Zenon
  <1> QED BY <1>2, Zenon DEF Retired, Follows

CancelledPanel ==
    [chat EXCEPT !.nonce = @ + 1, !.stream = 0, !.audit = 0, !.submitting = FALSE,
                  !.cancellable = FALSE, !.blocked = FALSE]

ClosedPanel ==
    [chat EXCEPT !.open = FALSE, !.nonce = @ + 1, !.stream = 0, !.audit = 0,
                  !.flow = NoFlow, !.blocked = FALSE, !.cancellable = FALSE]

LEMMA LeftFields ==
  ASSUME IsChat(chat), NEW q
  PROVE  /\ q = CancelledPanel =>
              /\ IsChat(q) /\ q.nonce = chat.nonce + 1 /\ q.opening = chat.opening /\ q.open = chat.open
              /\ q.flow = chat.flow /\ q.submitting = FALSE /\ q.blocked = FALSE
         /\ q = ClosedPanel =>
              /\ IsChat(q) /\ q.nonce = chat.nonce + 1 /\ q.opening = chat.opening /\ q.open = FALSE
              /\ q.flow.id = 0
  <1>1. ASSUME q = CancelledPanel
        PROVE  /\ q = [f \in ChatField |-> q[f]]
               /\ q.nonce = chat.nonce + 1 /\ q.opening = chat.opening /\ q.open = chat.open
               /\ q.flow = chat.flow /\ q.submitting = FALSE /\ q.blocked = FALSE
    BY <1>1, Zenon DEF IsChat, ChatField, CancelledPanel
  <1>2. ASSUME q = ClosedPanel
        PROVE  /\ q = [f \in ChatField |-> q[f]]
               /\ q.nonce = chat.nonce + 1 /\ q.opening = chat.opening /\ q.open = FALSE
               /\ q.flow = NoFlow
    BY <1>2, Zenon DEF IsChat, ChatField, ClosedPanel
  <1>3. NoFlow = [f \in FlowField |-> NoFlow[f]] /\ NoFlow.id = 0
    BY Zenon DEF NoFlow, FlowField
  <1>4. chat.nonce + 1 \in Nat /\ chat.opening \in Nat
    BY DEF IsChat
  <1>5. q = CancelledPanel => IsChat(q)
    BY <1>1, <1>4, Zenon DEF IsChat
  <1>6. q = ClosedPanel => IsChat(q)
    BY <1>2, <1>3, <1>4, Zenon DEF IsChat
  <1> QED BY <1>1, <1>2, <1>3, <1>5, <1>6, Zenon

LEMMA CancelsKeep ==
  ASSUME SubInv, cancelActiveSubmission
  PROVE  SubInv'
  <1>1. /\ OperatorActs /\ UNCHANGED <<approved, cards>> /\ chat.open /\ chat.cancellable
        /\ tasks' = WithStreamClosed(tasks) /\ audits' = failAudit(audits, chat.audit)
    BY Zenon DEF cancelActiveSubmission
  <1>2. /\ IsChat(chat) /\ acts \in Nat /\ cards = [i \in ID |-> cards[i]]
        /\ Sound(chat, tasks, cards, audits, approved, service.ran, acts, late) /\ chat.flow.id <= acts
    BY PanelFacts, Zenon DEF Sound, Tasks
  <1>3. PICK q : q = chat'
    OBVIOUS
  <1>4. /\ IsChat(q) /\ q.nonce = chat.nonce + 1 /\ q.opening = chat.opening /\ q.open = chat.open
        /\ q.flow = chat.flow /\ q.submitting = FALSE /\ q.blocked = FALSE
    <2>1. chat' = CancelledPanel
      BY Zenon DEF cancelActiveSubmission, CancelledPanel
    <2> QED BY <1>2, <1>3, <2>1, LeftFields, Zenon
  <1>5. chat.opening <= q.opening /\ q.flow.id <= acts + 1
    <2>1. chat.flow.id \in Nat
      BY <1>2 DEF IsChat, ID
    <2> QED BY <1>2, <1>4, <2>1 DEF IsChat
  <1>6. PICK us : us = tasks'
    OBVIOUS
  <1>7. Retired(us, tasks, chat)
    BY <1>1, <1>6, PanelRetired, Zenon
  <1>8. Tasks(q, us, acts + 1, late) /\ FlowsOK(us, cards, approved, service.ran, acts + 1) /\ Idle(q, us)
    BY <1>2, <1>4, <1>5, <1>7, NoneStaysActive, Zenon
  <1>9. ASSUME q.opening \notin late PROVE HolderOK(q, us, cards) /\ AuditsOK(q, us, audits')
    <2>1. HolderOK(chat, tasks, cards) /\ AuditsOK(chat, tasks, audits)
      BY <1>1, <1>2, <1>4, <1>9, Zenon DEF Sound
    <2>2. \A t \in tasks : t.kind \in {"approval", "run"} => t.opening # chat.opening
      BY <1>1, <2>1, Zenon DEF HolderOK
    <2>3. \A u \in us : u.kind \in {"approval", "run"} => u.opening # chat.opening
      BY <1>7, <2>2 DEF Retired, Follows
    <2>4. HolderOK(q, us, cards)
      BY <1>4, <1>8, <2>1, <2>3, Zenon DEF HolderOK
    <2>5. ASSUME NEW i \in ID, audits'[i] = "running" PROVE \E u \in us : SettlesCard(u, q, i)
      <3>1. audits[i] = "running" /\ i # chat.audit
        BY <1>1, <2>5, AuditEnds
      <3>2. PICK t \in tasks : SettlesCard(t, chat, i)
        BY <2>1, <3>1, Zenon DEF AuditsOK
      <3>3. TaskOK(t, chat, acts)
        BY <1>2, Zenon DEF Sound, Tasks
      <3>4. t.kind = "approval"
        BY <3>1, <3>2, <3>3, Zenon DEF SettlesCard, TaskOK
      <3> QED BY <1>7, <3>2, <3>4, Zenon DEF Retired, SettlesCard
    <2> QED BY <2>4, <2>5, Zenon DEF AuditsOK
  <1>10. audits' = [i \in ID |-> audits'[i]]
    BY <1>1, AuditEnds
  <1>11. Sound(q, us, cards, audits', approved, service.ran, acts + 1, late)
    BY <1>8, <1>9, Zenon DEF Sound
  <1> QED BY <1>1, <1>3, <1>6, <1>10, <1>11, Zenon DEF SubInv, OperatorActs

LEMMA CloseKeeps ==
  ASSUME SubInv, CloseSidebar
  PROVE  SubInv'
  <1>1. /\ OperatorActs /\ UNCHANGED <<approved, cards, audits>>
        /\ tasks' = WithActiveAborted(WithStreamClosed(tasks))
    BY Zenon DEF CloseSidebar
  <1>2. /\ IsChat(chat) /\ acts \in Nat /\ cards = [i \in ID |-> cards[i]]
        /\ Sound(chat, tasks, cards, audits, approved, service.ran, acts, late)
    BY PanelFacts, Zenon
  <1>3. PICK q : q = chat'
    OBVIOUS
  <1>4. IsChat(q) /\ q.nonce = chat.nonce + 1 /\ q.opening = chat.opening /\ q.open = FALSE /\ q.flow.id = 0
    <2>1. chat' = ClosedPanel
      BY Zenon DEF CloseSidebar, ClosedPanel
    <2> QED BY <1>2, <1>3, <2>1, LeftFields, Zenon
  <1>5. chat.opening <= q.opening /\ q.flow.id <= acts + 1
    BY <1>2, <1>4 DEF IsChat
  <1>6. PICK us : us = tasks'
    OBVIOUS
  <1>7. Retired(us, tasks, chat)
    BY <1>1, <1>6, PanelRetired, ActiveAborted, Zenon
  <1>8. Tasks(q, us, acts + 1, late) /\ FlowsOK(us, cards, approved, service.ran, acts + 1)
    BY <1>2, <1>4, <1>5, <1>7, NoneStaysActive, Zenon
  <1>9. Sound(q, us, cards, audits, approved, service.ran, acts + 1, late)
    BY <1>4, <1>8, Zenon DEF Sound
  <1> QED BY <1>1, <1>3, <1>6, <1>9, Zenon DEF SubInv, OperatorActs

LEMMA ResetFields ==
  ASSUME NEW o \in Nat, NEW k \in Nat
  PROVE  LET q == ResetPanel(o, k)
         IN  /\ IsChat(q) /\ q.nonce = k /\ q.opening = o /\ q.flow.id = 0 /\ q.open = TRUE
             /\ q.submitting = FALSE /\ q.blocked = FALSE
  BY Zenon DEF ResetPanel, IsChat, ChatField, FlowField, NoFlow

LEMMA OpenKeeps ==
  ASSUME SubInv, OpenSidebar
  PROVE  SubInv'
  <1>1. /\ OperatorActs /\ UNCHANGED approved /\ cards' = Blank /\ audits' = Blank
        /\ tasks' = WithStreamClosed(tasks)
    BY Zenon DEF OpenSidebar
  <1>2. /\ IsChat(chat) /\ acts \in Nat
        /\ Sound(chat, tasks, cards, audits, approved, service.ran, acts, late)
    BY PanelFacts, Zenon
  <1>3. PICK q : q = chat'
    OBVIOUS
  <1>4. /\ IsChat(q) /\ q.nonce = chat.nonce + 1 /\ q.opening = chat.opening + 1 /\ q.flow.id = 0
        /\ q.submitting = FALSE /\ q.blocked = FALSE
    <2>1. chat.opening + 1 \in Nat /\ chat.nonce + 1 \in Nat
      BY <1>2 DEF IsChat
    <2> QED BY <1>3, <2>1, ResetFields, Zenon DEF OpenSidebar
  <1>5. chat.opening <= q.opening /\ q.flow.id <= acts + 1
    BY <1>2, <1>4 DEF IsChat
  <1>6. PICK us : us = tasks'
    OBVIOUS
  <1>7. Retired(us, tasks, chat)
    BY <1>1, <1>6, PanelRetired, Zenon
  <1>8. Blank = [i \in ID |-> Blank[i]] /\ \A i \in ID : Blank[i] = "none"
    BY Zenon DEF Blank
  <1>9. Tasks(q, us, acts + 1, late) /\ FlowsOK(us, Blank, approved, service.ran, acts + 1) /\ Idle(q, us)
    BY <1>2, <1>4, <1>5, <1>7, <1>8, NoneStaysActive, Zenon
  <1>10. \A u \in us : u.opening # q.opening
    <2>1. \A t \in tasks : t.opening # q.opening
      BY <1>2, <1>4 DEF Sound, Tasks, TaskOK, IsTask, IsChat
    <2> QED BY <1>7, <2>1 DEF Retired, Follows
  <1>11. HolderOK(q, us, Blank) /\ AuditsOK(q, us, Blank)
    BY <1>4, <1>8, <1>9, <1>10, Zenon DEF HolderOK, AuditsOK
  <1>12. Sound(q, us, Blank, Blank, approved, service.ran, acts + 1, late)
    BY <1>9, <1>11, Zenon DEF Sound
  <1> QED BY <1>1, <1>3, <1>6, <1>8, <1>12, Zenon DEF SubInv, OperatorActs

-----------------------------------------------------------------------------
(* The theorems.                                                           *)

LEMMA SubInitKeeps ==
  ASSUME ChatInit
  PROVE  SubInv
  <1>1. PICK q : q = ResetPanel(1, 1)
    OBVIOUS
  <1>2. IsChat(q) /\ q.flow.id = 0 /\ q.submitting = FALSE /\ q.blocked = FALSE
    BY <1>1, Zenon DEF ResetPanel, IsChat, ChatField, FlowField, NoFlow
  <1>3. Blank = [i \in ID |-> Blank[i]] /\ \A i \in ID : Blank[i] = "none"
    BY Zenon DEF Blank
  <1>4. PICK rn : rn = [i \in ID |-> 0]
    BY Zenon
  <1>5. Tasks(q, {}, 0, {})
    BY <1>2 DEF Tasks, OwnNames
  <1>6. FlowsOK({}, Blank, {}, rn, 0)
    BY <1>3, <1>4 DEF FlowsOK
  <1>7. HolderOK(q, {}, Blank) /\ AuditsOK(q, {}, Blank)
    BY <1>2, <1>3, Zenon DEF HolderOK, AuditsOK, Idle
  <1>8. Sound(q, {}, Blank, Blank, {}, rn, 0, {})
    BY <1>5, <1>6, <1>7, Zenon DEF Sound
  <1>9. service.ran = rn /\ service = [f \in ServiceField |-> service[f]]
    BY <1>4, Zenon DEF ChatInit, ServiceField
  <1> QED BY <1>1, <1>3, <1>8, <1>9, Zenon DEF ChatInit, SubInv

LEMMA SubNextKeeps ==
  ASSUME SubInv, MaxSubmits \in Nat, [ChatNext]_chatVars
  PROVE  SubInv'
  <1>1. CASE Proceed
    <2>1. PICK t \in tasks : Continue(t) /\ UNCHANGED <<acts, failures, approved>>
      BY <1>1, Zenon DEF Proceed
    <2>2. Unmoved
      BY <2>1, Zenon DEF Unmoved
    <2> QED
      BY Zenon, <2>1, <2>2, ResolveKeeps, ConnectKeeps, StreamTextKeeps, StreamCompleteKeeps, StreamErrorKeeps,
         StreamAbortedKeeps, AfterStreamKeeps, SendInputKeeps, WaitKeeps, ExplainKeeps, ApplySnapshotKeeps,
         PlanExecutionKeeps, ConfirmApprovalKeeps, ExecuteApprovedKeeps, ApprovalDoneKeeps DEF Continue
  <1>2. CASE Fail
    <2>1. PICK t \in tasks : PromptFails(t) \/ ApprovalFails(t)
      BY <1>2, Zenon DEF Fail
    <2>2. Unmoved
      BY <1>2, Zenon DEF Fail, Unmoved
    <2> QED BY <2>1, <2>2, PromptFailsKeeps, ApprovalFailsKeeps, Zenon
  <1>3. CASE UNCHANGED chatVars
    BY <1>3, Zenon DEF chatVars, SubInv
  <1> QED
    BY Zenon, <1>1, <1>2, <1>3, SubmitsKeep, AnswersKeep, ApproveKeeps, CancelPlanKeeps, CancelsKeep,
       CloseKeeps, OpenKeeps DEF ChatNext

LEMMA SubInvAlways ==
  ASSUME MaxSubmits \in Nat
  PROVE  ChatSpec => []SubInv
  BY SubInitKeeps, SubNextKeeps, PTL DEF ChatSpec

(* The panel is blocked exactly while it is submitting, and a superseded   *)
(* submission never gives it back while the active one runs: BusyIsExact   *)
(* in every reachable state, for any number of actions, tasks and failures. *)
THEOREM BusyIsExactAlways ==
  ASSUME MaxSubmits \in Nat
  PROVE  ChatSpec => []BusyIsExact
  <1>1. SubInv => BusyIsExact
    BY Zenon DEF SubInv, Sound, Tasks, HolderOK, Idle, Active, BusyIsExact, isActiveSubmission, Disturbed
  <1> QED BY <1>1, SubInvAlways, PTL

(* No stream outlives its submission: NoLeakedStream in every reachable    *)
(* state, however cancelling, closing and connecting interleave.           *)
THEOREM NoLeakedStreamAlways ==
  ASSUME MaxSubmits \in Nat
  PROVE  ChatSpec => []NoLeakedStream
  <1>1. SubInv => NoLeakedStream
    BY Zenon DEF SubInv, Sound, Tasks, StreamOK, Active, NoLeakedStream, isActiveSubmission
  <1> QED BY <1>1, SubInvAlways, PTL

(* The cards say what happened and what can be done: CardsAreHonest in     *)
(* every reachable state, so a terminal command runs only for a flow the   *)
(* operator approved, and only once.                                       *)
THEOREM CardsAreHonestAlways ==
  ASSUME MaxSubmits \in Nat
  PROVE  ChatSpec => []CardsAreHonest
  <1>1. SubInv => RunsOnlyApproved
    BY Zenon DEF SubInv, Sound, FlowsOK, RunsOnlyApproved
  <1>2. SubInv => PendingCardIsFlow
    BY Zenon DEF SubInv, Sound, HolderOK, PendingCardIsFlow, Disturbed
  <1>3. SubInv => AuditsSettle
    BY Zenon DEF SubInv, Sound, AuditsOK, AuditsSettle, Disturbed
  <1>4. SubInv => CardsAreHonest
    BY <1>1, <1>2, <1>3, Zenon DEF CardsAreHonest
  <1> QED BY <1>4, SubInvAlways, PTL

-----------------------------------------------------------------------------
(* The conversations of the AI panel.                                      *)

CallField == {"op", "step", "target", "was", "epoch", "nonce", "list", "scope", "got", "n"}
PanelField == {"open", "epoch", "nonce", "listNonce", "thread", "activeID", "list", "archived",
               "scope", "provider", "loaded", "pending", "listPending", "submitting"}

(* A record with the fields of a call.                                     *)
IsCall(c) == c = [f \in CallField |-> c[f]]

(* A record with the fields of the panel.                                  *)
IsPanel(p) ==
    /\ p = [f \in PanelField |-> p[f]]
    /\ p.listNonce \in Nat /\ p.listPending \in BOOLEAN

(* A list request is on its way or answered, and not ahead of nonce n.     *)
CallOK(c, n) ==
    /\ IsCall(c)
    /\ c.op = "list" => c.step \in {"sent", "answered"} /\ c.list \in 1..n

(* No two list requests have the same nonce.                               *)
OwnNonce(cs) ==
    \A c, d \in cs : c.op = "list" /\ d.op = "list" /\ c.list = d.list => c = d

Spins(p, cs) == p.listPending <=> \E c \in cs : c.op = "list" /\ c.list = p.listNonce

Exact(p, cs) ==
    IsPanel(p) /\ (\A c \in cs : CallOK(c, p.listNonce)) /\ OwnNonce(cs) /\ Spins(p, cs)

ListInv == Exact(panel, calls)

-----------------------------------------------------------------------------
(* The panel's list fields stay, and so do the list requests.              *)
LEMMA OthersKeep ==
  ASSUME NEW p, NEW q, NEW cs, NEW ds, Exact(p, cs), IsPanel(q),
         q.listNonce = p.listNonce, q.listPending = p.listPending,
         \A d \in ds : d \in cs \/ (IsCall(d) /\ d.op # "list"),
         \A c \in cs : c.op = "list" => c \in ds
  PROVE  Exact(q, ds)
  <1>1. \A d \in ds : CallOK(d, q.listNonce)
    BY Zenon DEF Exact, CallOK
  <1>2. OwnNonce(ds)
    BY Zenon DEF Exact, OwnNonce
  <1>3. Spins(q, ds)
    BY Zenon DEF Exact, Spins
  <1> QED BY <1>1, <1>2, <1>3, Zenon DEF Exact

(* A list request moves on.                                                *)
LEMMA AnswerKeeps ==
  ASSUME NEW p, NEW cs, Exact(p, cs), NEW c \in cs, NEW d,
         IsCall(d), d.op = c.op, d.list = c.list,
         d.op = "list" => d.step \in {"sent", "answered"}
  PROVE  Exact(p, (cs \ {c}) \cup {d})
  <1> DEFINE ds == (cs \ {c}) \cup {d}
  <1>1. \A e \in ds : CallOK(e, p.listNonce)
    BY Zenon DEF Exact, CallOK
  <1>2. OwnNonce(ds)
    BY Zenon DEF Exact, OwnNonce
  <1>3. Spins(p, ds)
    BY Zenon DEF Exact, Spins
  <1> QED BY <1>1, <1>2, <1>3, Zenon DEF Exact

(* A new list request takes a new nonce and sets the spinner going.        *)
LEMMA RefreshKeeps ==
  ASSUME NEW p, NEW q, NEW cs, NEW ds, Exact(p, cs), IsPanel(q),
         q.listNonce = p.listNonce + 1, q.listPending = TRUE,
         NEW l, IsCall(l), l.op = "list", l.step = "sent", l.list = q.listNonce,
         l \in ds,
         \A d \in ds : d \in cs \/ d = l \/ (IsCall(d) /\ d.op # "list")
  PROVE  Exact(q, ds)
  <1>0. p.listNonce \in Nat
    BY Zenon DEF Exact, IsPanel
  <1>1. \A d \in ds : CallOK(d, q.listNonce)
    BY <1>0 DEF Exact, CallOK
  <1>2. \A c \in cs : c.op = "list" => c.list # q.listNonce
    BY <1>0 DEF Exact, CallOK
  <1>3. OwnNonce(ds)
    BY <1>2 DEF Exact, OwnNonce
  <1>4. Spins(q, ds)
    BY Zenon DEF Spins
  <1> QED BY <1>1, <1>3, <1>4, Zenon DEF Exact

(* An answered list request stops the spinner if it is the newest.         *)
LEMMA ListReceivedKeeps ==
  ASSUME NEW p, NEW q, NEW cs, Exact(p, cs), NEW c \in cs, c.op = "list", IsPanel(q),
         q.listNonce = p.listNonce,
         c.list = p.listNonce => q.listPending = FALSE,
         c.list # p.listNonce => q.listPending = p.listPending
  PROVE  Exact(q, cs \ {c})
  <1>1. \A d \in cs \ {c} : CallOK(d, q.listNonce)
    BY Zenon DEF Exact
  <1>2. OwnNonce(cs \ {c})
    BY Zenon DEF Exact, OwnNonce
  <1>3. Spins(q, cs \ {c})
    BY Zenon DEF Exact, OwnNonce, Spins
  <1> QED BY <1>1, <1>2, <1>3, Zenon DEF Exact

-----------------------------------------------------------------------------
(* What the helpers do to the fields of the panel that the list is about.  *)
SameList(p, q) == IsPanel(q) /\ q.listNonce = p.listNonce /\ q.listPending = p.listPending

LEMMA PanelHelpers ==
  ASSUME NEW p, IsPanel(p), NEW got
  PROVE  /\ SameList(p, applyConversationSnapshot(p, got))
         /\ SameList(p, setConversations(p, got))
         /\ SameList(p, Settled(p))
         /\ SameList(p, resetConversationSubmissionRuntime(p))
         /\ SameList(p, beginPanelStateEpoch(p))
  <1>1. SameList(p, applyConversationSnapshot(p, got))
    BY Zenon DEF IsPanel, PanelField, SameList, applyConversationSnapshot
  <1>2. SameList(p, setConversations(p, got))
    BY Zenon DEF IsPanel, PanelField, SameList, setConversations
  <1>3. SameList(p, Settled(p))
    BY Zenon DEF IsPanel, PanelField, SameList, Settled
  <1>4. SameList(p, resetConversationSubmissionRuntime(p))
    BY Zenon DEF IsPanel, PanelField, SameList, resetConversationSubmissionRuntime
  <1>5. SameList(p, beginPanelStateEpoch(p))
    BY Zenon DEF IsPanel, PanelField, SameList, beginPanelStateEpoch
  <1> QED BY <1>1, <1>2, <1>3, <1>4, <1>5, Zenon

LEMMA SubmissionEnded ==
  ASSUME NEW p, IsPanel(p), NEW c
  PROVE  SameList(p, EndSubmission(c, p))
  BY Zenon DEF IsPanel, PanelField, SameList, EndSubmission

LEMMA RefreshBegun ==
  ASSUME NEW p, IsPanel(p)
  PROVE  /\ IsPanel(BeginRefresh(p))
         /\ BeginRefresh(p).listNonce = p.listNonce + 1
         /\ BeginRefresh(p).listPending = TRUE
  <1> DEFINE q == BeginRefresh(p)
  <1>1. q.listNonce = p.listNonce + 1 /\ q.listPending = TRUE
    BY Zenon DEF IsPanel, PanelField, BeginRefresh
  <1>2. q = [f \in PanelField |-> q[f]]
    BY Zenon DEF IsPanel, BeginRefresh
  <1> HIDE DEF q
  <1>0. p.listNonce \in Nat
    BY Zenon DEF IsPanel
  <1>3. q.listNonce \in Nat
    BY <1>0, <1>1
  <1>4. q.listPending \in BOOLEAN
    BY <1>1, Zenon
  <1>5. IsPanel(q)
    BY <1>2, <1>3, <1>4, Zenon DEF IsPanel
  <1> QED BY <1>1, <1>5, Zenon DEF q

LEMMA SameListTrans ==
  ASSUME NEW p, NEW q, NEW r, SameList(p, q), SameList(q, r)
  PROVE  SameList(p, r)
  BY Zenon DEF SameList

(* The calls that are issued.                                              *)
LEMMA CallIssued ==
  ASSUME NEW op, NEW target, NEW p
  PROVE  IsCall(Call(op, target, p)) /\ Call(op, target, p).op = op
  BY Zenon DEF IsCall, CallField, Call

LEMMA ListIssued ==
  ASSUME NEW p, NEW scope
  PROVE  /\ IsCall(ListCall(p, scope)) /\ ListCall(p, scope).op = "list"
         /\ ListCall(p, scope).step = "sent" /\ ListCall(p, scope).list = p.listNonce
  BY Zenon DEF IsCall, CallField, ListCall

(* A call that moves on is the same request.                               *)
LEMMA CallMoves ==
  ASSUME NEW c, IsCall(c), NEW step, NEW got, NEW n, NEW target
  PROVE  /\ LET d == [c EXCEPT !.step = step, !.got = got] IN
              IsCall(d) /\ d.op = c.op /\ d.list = c.list /\ d.step = step
         /\ LET d == [c EXCEPT !.step = step] IN IsCall(d) /\ d.op = c.op
         /\ LET d == [c EXCEPT !.list = n] IN IsCall(d) /\ d.op = c.op
         /\ LET d == [c EXCEPT !.step = step, !.target = target, !.got = got] IN
              IsCall(d) /\ d.op = c.op
  BY Zenon DEF IsCall, CallField

-----------------------------------------------------------------------------
LEMMA InitList == Init => ListInv
  <1> SUFFICES ASSUME Init PROVE ListInv
    OBVIOUS
  <1> DEFINE p == BlankPanel(1, 1, 0)
             b == Call("bootstrap", None, panel)
             l == ListCall(panel, panel.scope)
  <1>1. panel = BeginRefresh(p) /\ calls = {b, l}
    BY Zenon DEF Init, Opened
  <1>2. IsPanel(p) /\ p.listNonce = 0
    BY Zenon DEF BlankPanel, IsPanel, PanelField
  <1>9. IsPanel(panel) /\ panel.listNonce = p.listNonce + 1 /\ panel.listPending = TRUE
    BY <1>1, <1>2, RefreshBegun, Zenon
  <1>3. IsPanel(panel) /\ panel.listNonce = 1 /\ panel.listPending = TRUE
    <2>1. panel.listNonce = 1
      BY <1>2, <1>9
    <2> QED BY <1>9, <2>1, Zenon
  <1>4. IsCall(b) /\ b.op = "bootstrap"
    BY CallIssued, Zenon
  <1>5. IsCall(l) /\ l.op = "list" /\ l.step = "sent" /\ l.list = 1
    BY <1>3, ListIssued
  <1> HIDE DEF p, b, l
  <1>6. \A c \in calls : CallOK(c, panel.listNonce)
    BY <1>1, <1>3, <1>4, <1>5 DEF CallOK
  <1>7. OwnNonce(calls)
    BY <1>1, <1>4, <1>5, Zenon DEF OwnNonce
  <1>8. Spins(panel, calls)
    BY <1>1, <1>3, <1>5, Zenon DEF Spins
  <1> QED BY <1>3, <1>6, <1>7, <1>8, Zenon DEF ListInv, Exact

(* One call is added, and the panel's list fields stay.                    *)
LEMMA IssueKeeps ==
  ASSUME ListInv, SameList(panel, panel'), NEW d, IsCall(d), d.op # "list",
         calls' = calls \cup {d}
  PROVE  ListInv'
  <1>1. Exact(panel, calls)
    BY Zenon DEF ListInv
  <1>2. IsPanel(panel') /\ panel'.listNonce = panel.listNonce /\ panel'.listPending = panel.listPending
    BY Zenon DEF SameList
  <1>3. Exact(panel', calls')
    BY <1>1, <1>2, OthersKeep
  <1> QED BY <1>3, Zenon DEF ListInv

(* A call other than a list request is over.                               *)
LEMMA DoneKeeps ==
  ASSUME ListInv, SameList(panel, panel'), NEW c \in calls, c.op # "list", Done(c)
  PROVE  ListInv'
  <1>1. Exact(panel, calls)
    BY Zenon DEF ListInv
  <1>2. IsPanel(panel') /\ panel'.listNonce = panel.listNonce /\ panel'.listPending = panel.listPending
    BY Zenon DEF SameList
  <1>3. calls' = calls \ {c}
    BY Zenon DEF Done
  <1>4. Exact(panel', calls')
    BY <1>1, <1>2, <1>3, OthersKeep
  <1> QED BY <1>4, Zenon DEF ListInv

(* A call other than a list request goes on.                               *)
LEMMA BecomesKeeps ==
  ASSUME ListInv, SameList(panel, panel'), NEW c \in calls, c.op # "list",
         NEW d, IsCall(d), d.op # "list", Becomes(c, d)
  PROVE  ListInv'
  <1>1. Exact(panel, calls)
    BY Zenon DEF ListInv
  <1>2. IsPanel(panel') /\ panel'.listNonce = panel.listNonce /\ panel'.listPending = panel.listPending
    BY Zenon DEF SameList
  <1>3. calls' = (calls \ {c}) \cup {d}
    BY Zenon DEF Becomes
  <1>4. Exact(panel', calls')
    BY <1>1, <1>2, <1>3, OthersKeep
  <1> QED BY <1>4, Zenon DEF ListInv

(* What is known of the panel and of a call in flight.                     *)
LEMMA InFlight ==
  ASSUME ListInv
  PROVE  /\ IsPanel(panel) /\ SameList(panel, panel)
         /\ \A c \in calls : IsCall(c) /\ (c.op = "list" => c.step \in {"sent", "answered"})
  BY Zenon DEF ListInv, Exact, CallOK, SameList

(* A list request is begun from a panel with the present nonce.            *)
LEMMA RefreshStep ==
  ASSUME ListInv, NEW p, IsPanel(p), p.listNonce = panel.listNonce,
         panel' = BeginRefresh(p), NEW scope,
         ListCall(panel', scope) \in calls',
         \A d \in calls' : d \in calls \/ d = ListCall(panel', scope) \/ (IsCall(d) /\ d.op # "list")
  PROVE  ListInv'
  <1> DEFINE l == ListCall(panel', scope)
  <1>1. Exact(panel, calls)
    BY Zenon DEF ListInv
  <1>2. IsPanel(panel') /\ panel'.listNonce = panel.listNonce + 1 /\ panel'.listPending = TRUE
    BY RefreshBegun, Zenon
  <1>3. IsCall(l) /\ l.op = "list" /\ l.step = "sent" /\ l.list = panel'.listNonce
    BY ListIssued, Zenon
  <1> HIDE DEF l
  <1>4. l \in calls' /\ \A d \in calls' : d \in calls \/ d = l \/ (IsCall(d) /\ d.op # "list")
    BY Zenon DEF l
  <1>5. Exact(panel', calls')
    BY <1>1, <1>2, <1>3, <1>4, RefreshKeeps, Zenon
  <1> QED BY <1>5, Zenon DEF ListInv

LEMMA OpenSidebarKeeps == ASSUME ListInv, OpenPanel PROVE ListInv'
  <1> DEFINE p == BlankPanel(panel.epoch + 1, panel.nonce + 1, panel.listNonce)
             b == Call("bootstrap", None, panel')
  <1>1. panel' = BeginRefresh(p) /\ calls' = calls \cup {b, ListCall(panel', panel'.scope)}
    BY Zenon DEF OpenPanel, Opened
  <1>2. panel.listNonce \in Nat
    BY InFlight, Zenon DEF IsPanel
  <1>3. IsPanel(p) /\ p.listNonce = panel.listNonce
    BY <1>2, Zenon DEF BlankPanel, IsPanel, PanelField
  <1>4. IsCall(b) /\ b.op # "list"
    BY CallIssued
  <1> HIDE DEF p, b
  <1>5. /\ ListCall(panel', panel'.scope) \in calls'
        /\ \A d \in calls' : \/ d \in calls \/ d = ListCall(panel', panel'.scope)
                             \/ (IsCall(d) /\ d.op # "list")
    BY <1>1, <1>4, Zenon
  <1> QED BY <1>1, <1>3, <1>5, RefreshStep, Zenon

LEMMA CloseSidebarKeeps == ASSUME ListInv, ClosePanel PROVE ListInv'
  <1>1. SameList(panel, panel') /\ calls' = calls
    BY InFlight, Zenon DEF ClosePanel, SameList, IsPanel, PanelField
  <1> QED BY <1>1, InFlight, OthersKeep, Zenon DEF ListInv, SameList

LEMMA ScopeKeeps ==
  ASSUME ListInv, NEW s \in Scope, updateConversationScope(s)
  PROVE  ListInv'
  <1> DEFINE p == [panel EXCEPT !.scope = s]
  <1>1. panel' = BeginRefresh(p) /\ calls' = calls \cup {ListCall(panel', s)}
    BY Zenon DEF updateConversationScope
  <1>2. IsPanel(p) /\ p.listNonce = panel.listNonce
    BY InFlight, Zenon DEF IsPanel, PanelField
  <1> HIDE DEF p
  <1> QED BY <1>1, <1>2, RefreshStep, Zenon

(* What switch, create and the mutations do before their first await.      *)
LEMMA BeginKeeps ==
  ASSUME ListInv, NEW op, op # "list", NEW c, BeginTransition(op, c)
  PROVE  ListInv'
  <1> DEFINE e == resetConversationSubmissionRuntime(panel)
             f == beginPanelStateEpoch(e)
             p == [f EXCEPT !.pending = TRUE]
             d == Call(op, c, p)
  <1>1. panel' = p /\ calls' = calls \cup {d}
    BY Zenon DEF BeginTransition
  <1>2. SameList(panel, e)
    BY InFlight, PanelHelpers, Zenon
  <1>3. SameList(e, f)
    BY <1>2, PanelHelpers, Zenon DEF SameList
  <1>4. SameList(f, p)
    <2> HIDE DEF f
    <2>1. IsPanel(f)
      BY <1>3, Zenon DEF SameList
    <2> QED BY <2>1, Zenon DEF SameList, IsPanel, PanelField
  <1>5. IsCall(d) /\ d.op # "list"
    BY CallIssued, Zenon
  <1> HIDE DEF e, f, p, d
  <1>6. SameList(panel, panel')
    BY <1>1, <1>2, <1>3, <1>4, SameListTrans, Zenon
  <1> QED BY <1>1, <1>5, <1>6, IssueKeeps, Zenon

LEMMA RenameKeeps == ASSUME ListInv, renameConversation PROVE ListInv'
  <1> DEFINE d == Call("rename", panel.thread, panel)
  <1>1. SameList(panel, panel')
    BY InFlight, Zenon DEF renameConversation, SameList, IsPanel, PanelField
  <1>2. IsCall(d) /\ d.op # "list"
    BY CallIssued
  <1>3. calls' = calls \cup {d}
    BY Zenon DEF renameConversation
  <1> HIDE DEF d
  <1> QED BY <1>1, <1>2, <1>3, IssueKeeps, Zenon

LEMMA SelectProviderKeeps ==
  ASSUME ListInv, NEW q \in Provider, selectProvider(q)
  PROVE  ListInv'
  <1> DEFINE d == Call("provider", q, beginPanelStateEpoch(panel))
  <1>1. panel' = beginPanelStateEpoch(panel) /\ calls' = calls \cup {d}
    BY Zenon DEF selectProvider
  <1>2. SameList(panel, panel')
    BY <1>1, InFlight, PanelHelpers, Zenon
  <1>3. IsCall(d) /\ d.op # "list"
    BY CallIssued
  <1> HIDE DEF d
  <1> QED BY <1>1, <1>2, <1>3, IssueKeeps, Zenon

LEMMA PreferencesKeep ==
  ASSUME ListInv, persistConversationContextPreferences
  PROVE  ListInv'
  <1> DEFINE c == Call("context", panel.activeID, panel)
             st == IF c.target = None THEN "fetch" ELSE "sent"
             d == [c EXCEPT !.step = st]
  <1>1. panel' = panel /\ calls' = calls \cup {d}
    BY Zenon DEF persistConversationContextPreferences
  <1>2. IsCall(c) /\ c.op = "context"
    BY CallIssued, Zenon
  <1> HIDE DEF c, st
  <1>3. IsCall(d) /\ d.op = c.op
    BY <1>2, CallMoves, Zenon
  <1> HIDE DEF d
  <1>4. d.op # "list"
    BY <1>2, <1>3, Zenon
  <1> QED BY <1>1, <1>3, <1>4, InFlight, IssueKeeps, Zenon

LEMMA SubmitKeeps == ASSUME ListInv, sendDraft PROVE ListInv'
  <1> DEFINE p == [panel EXCEPT !.nonce = @ + 1, !.submitting = TRUE]
             d == Call("prompt", None, p)
  <1>1. panel' = p /\ calls' = calls \cup {d}
    BY Zenon DEF sendDraft
  <1>2. SameList(panel, p)
    BY InFlight, Zenon DEF SameList, IsPanel, PanelField
  <1>3. IsCall(d) /\ d.op # "list"
    BY CallIssued
  <1> HIDE DEF p, d
  <1> QED BY <1>1, <1>2, <1>3, IssueKeeps, Zenon

LEMMA CancelKeeps == ASSUME ListInv, cancelAnswer PROVE ListInv'
  <1>1. SameList(panel, panel') /\ calls' = calls
    BY InFlight, Zenon DEF cancelAnswer, SameList, IsPanel, PanelField
  <1> QED BY <1>1, InFlight, OthersKeep, Zenon DEF ListInv, SameList

-----------------------------------------------------------------------------
(* The backend answers a request and leaves the panel alone.               *)
LEMMA AnswerStep ==
  ASSUME ListInv, NEW c \in calls, NEW step, NEW got, Answer(c, step, got),
         c.op = "list" => step \in {"sent", "answered"}, panel' = panel
  PROVE  ListInv'
  <1> DEFINE d == [c EXCEPT !.step = step, !.got = got]
  <1>1. calls' = (calls \ {c}) \cup {d}
    BY Zenon DEF Answer, Becomes
  <1>2. IsCall(d) /\ d.op = c.op /\ d.list = c.list /\ d.step = step
    <2>1. IsCall(c)
      BY InFlight, Zenon
    <2> QED BY <2>1, Zenon DEF IsCall, CallField
  <1> HIDE DEF d
  <1>3. d.op = "list" => d.step \in {"sent", "answered"}
    BY <1>2, Zenon
  <1>4. Exact(panel, (calls \ {c}) \cup {d})
    BY <1>2, <1>3, AnswerKeeps, Zenon DEF ListInv
  <1> QED BY <1>1, <1>4, Zenon DEF ListInv

(* Every step of the backend answers one request.                          *)
LEMMA BackendAnswers ==
  ASSUME ListInv, Backend
  PROVE  \E c \in calls : \E step, got :
           /\ Answer(c, step, got) /\ panel' = panel
           /\ c.op = "list" => step \in {"sent", "answered"}
  <1>1. PICK c \in calls :
          \/ /\ \/ CreateConversation(c) \/ ActivateConversation(c) \/ UpdateConversation(c)
                \/ DeleteConversation(c) \/ ArchiveConversation(c) \/ RestoreConversation(c)
                \/ ListConversations(c) \/ FetchConversation(c) \/ ActivateProvider(c) \/ StreamPrompt(c)
             /\ panel' = panel
          \/ (RequestFails(c) \/ ResponseLost(c)) /\ panel' = panel
    BY Zenon DEF Backend
  <1>2. c.op = "list" => c.step \in {"sent", "answered"}
    BY InFlight, Zenon
  <1>3. CASE CreateConversation(c)
    BY <1>1, <1>3, Zenon DEF CreateConversation
  <1>4. CASE ActivateConversation(c)
    BY <1>1, <1>4, Zenon DEF ActivateConversation
  <1>5. CASE UpdateConversation(c)
    BY <1>1, <1>5, Zenon DEF UpdateConversation
  <1>6. CASE DeleteConversation(c)
    BY <1>1, <1>6, Zenon DEF DeleteConversation
  <1>7. CASE ArchiveConversation(c)
    BY <1>1, <1>7, Zenon DEF ArchiveConversation
  <1>8. CASE RestoreConversation(c)
    BY <1>1, <1>8, Zenon DEF RestoreConversation
  <1>9. CASE ListConversations(c)
    BY <1>1, <1>2, <1>9, Zenon DEF ListConversations
  <1>10. CASE FetchConversation(c)
    BY <1>1, <1>2, <1>10, Zenon DEF FetchConversation
  <1>11. CASE ActivateProvider(c)
    BY <1>1, <1>11, Zenon DEF ActivateProvider
  <1>12. CASE StreamPrompt(c)
    BY <1>1, <1>12, Zenon DEF StreamPrompt
  <1>13. CASE RequestFails(c)
    BY <1>1, <1>2, <1>13, Zenon DEF RequestFails, After
  <1>14. CASE ResponseLost(c)
    BY <1>1, <1>2, <1>14, Zenon DEF ResponseLost
  <1> QED BY <1>1, <1>3, <1>4, <1>5, <1>6, <1>7, <1>8, <1>9, <1>10, <1>11, <1>12, <1>13, <1>14, Zenon

LEMMA BackendKeeps == ASSUME ListInv, Backend PROVE ListInv'
  BY BackendAnswers, AnswerStep, Zenon

-----------------------------------------------------------------------------
(* A continuation applies a snapshot and begins a list request.            *)
LEMMA ApplyStep ==
  ASSUME ListInv, NEW c \in calls, NEW p, SameList(panel, p), NEW rest,
         \A d \in rest : IsCall(d) /\ d.op # "list", ApplyAndRefresh(c, p, rest)
  PROVE  ListInv'
  <1> DEFINE more == {[d EXCEPT !.list = panel'.listNonce] : d \in rest}
  <1>1. /\ panel' = BeginRefresh(p)
        /\ calls' = (calls \ {c}) \cup {ListCall(panel', c.scope)} \cup more
    BY Zenon DEF ApplyAndRefresh
  <1>2. ASSUME NEW e \in more PROVE IsCall(e) /\ e.op # "list"
    <2>1. PICK d \in rest : e = [d EXCEPT !.list = panel'.listNonce]
      OBVIOUS
    <2>2. IsCall(d) /\ d.op # "list"
      OBVIOUS
    <2> QED BY <2>1, <2>2, Zenon DEF IsCall, CallField
  <1> HIDE DEF more
  <1>3. /\ ListCall(panel', c.scope) \in calls'
        /\ \A d \in calls' : d \in calls \/ d = ListCall(panel', c.scope) \/ (IsCall(d) /\ d.op # "list")
    BY <1>1, <1>2, Zenon
  <1> QED BY <1>1, <1>3, RefreshStep, Zenon DEF SameList

LEMMA TransitionReceived ==
  ASSUME ListInv, NEW c \in calls, ReceiveTransition(c)
  PROVE  ListInv'
  <1>1. c.op # "list" /\ IsCall(c)
    BY InFlight, Zenon DEF ReceiveTransition
  <1>2. CASE c.got.ok /\ c.epoch = panel.epoch
    <2> DEFINE p == applyConversationSnapshot(panel, c.got)
               d == [c EXCEPT !.step = "listing"]
    <2>1. ApplyAndRefresh(c, p, {d})
      BY <1>2, Zenon DEF ReceiveTransition
    <2>2. SameList(panel, p)
      BY InFlight, PanelHelpers, Zenon
    <2>3. IsCall(d) /\ d.op # "list"
      BY <1>1, Zenon DEF IsCall, CallField
    <2> HIDE DEF p, d
    <2>4. \A e \in {d} : IsCall(e) /\ e.op # "list"
      BY <2>3, Zenon
    <2> QED BY <2>1, <2>2, <2>4, ApplyStep, Zenon
  <1>3. CASE ~(c.got.ok /\ c.epoch = panel.epoch)
    <2>1. panel' = Settled(panel) /\ Done(c)
      BY <1>3, Zenon DEF ReceiveTransition
    <2>2. SameList(panel, panel')
      BY <2>1, InFlight, PanelHelpers, Zenon
    <2> QED BY <1>1, <2>1, <2>2, DoneKeeps, Zenon
  <1> QED BY <1>2, <1>3, Zenon

LEMMA TransitionFinished ==
  ASSUME ListInv, NEW c \in calls, FinishTransition(c)
  PROVE  ListInv'
  <1>1. c.op # "list"
    BY InFlight, Zenon DEF FinishTransition
  <1>2. panel' = Settled(panel) /\ Done(c)
    BY Zenon DEF FinishTransition
  <1>3. SameList(panel, panel')
    BY <1>2, InFlight, PanelHelpers, Zenon
  <1> QED BY <1>1, <1>2, <1>3, DoneKeeps, Zenon

LEMMA RenameReceived ==
  ASSUME ListInv, NEW c \in calls, ReceiveRename(c)
  PROVE  ListInv'
  <1>1. c.op # "list"
    BY Zenon DEF ReceiveRename
  <1>2. CASE c.got.ok
    <2> DEFINE a == applyConversationSnapshot(panel, c.got)
               p == Settled(a)
    <2>1. ApplyAndRefresh(c, p, {})
      BY <1>2, Zenon DEF ReceiveRename
    <2>2. SameList(panel, a)
      BY InFlight, PanelHelpers, Zenon
    <2>3. SameList(a, p)
      BY <2>2, PanelHelpers, Zenon DEF SameList
    <2> HIDE DEF a, p
    <2>4. SameList(panel, p)
      BY <2>2, <2>3, SameListTrans, Zenon
    <2> QED BY <2>1, <2>4, ApplyStep
  <1>3. CASE ~c.got.ok
    <2>1. panel' = Settled(panel) /\ Done(c)
      BY <1>3, Zenon DEF ReceiveRename
    <2>2. SameList(panel, panel')
      BY <2>1, InFlight, PanelHelpers, Zenon
    <2> QED BY <1>1, <2>1, <2>2, DoneKeeps, Zenon
  <1> QED BY <1>2, <1>3, Zenon

LEMMA MutationReceived ==
  ASSUME ListInv, NEW c \in calls, ReceiveMutation(c)
  PROVE  ListInv'
  <1>1. c.op # "list" /\ IsCall(c)
    BY InFlight, Zenon DEF ReceiveMutation, Mutation
  <1>2. CASE c.got.ok
    <2> DEFINE d == [c EXCEPT !.step = "relist"]
    <2>1. Becomes(c, d) /\ panel' = panel
      BY <1>2, Zenon DEF ReceiveMutation
    <2>2. IsCall(d) /\ d.op # "list"
      BY <1>1, Zenon DEF IsCall, CallField
    <2> HIDE DEF d
    <2> QED BY <1>1, <2>1, <2>2, InFlight, BecomesKeeps, Zenon
  <1>3. CASE ~c.got.ok
    <2>1. panel' = Settled(panel) /\ Done(c)
      BY <1>3, Zenon DEF ReceiveMutation
    <2>2. SameList(panel, panel')
      BY <2>1, InFlight, PanelHelpers, Zenon
    <2> QED BY <1>1, <2>1, <2>2, DoneKeeps, Zenon
  <1> QED BY <1>2, <1>3, Zenon

LEMMA MutationFinished ==
  ASSUME ListInv, NEW c \in calls, FinishMutation(c)
  PROVE  ListInv'
  <1> DEFINE a == IF c.was = c.target THEN applyConversationSnapshot(panel, c.got) ELSE panel
             b == setConversations(a, c.got)
  <1>1. c.op # "list" /\ Done(c)
    BY InFlight, Zenon DEF FinishMutation
  <1>2. panel' = Settled(b) \/ panel' = Settled(panel)
    BY Zenon DEF FinishMutation
  <1>3. SameList(panel, a)
    BY InFlight, PanelHelpers, Zenon
  <1> HIDE DEF a
  <1>4. SameList(a, b)
    BY <1>3, PanelHelpers, Zenon DEF SameList
  <1> HIDE DEF b
  <1>5. SameList(b, Settled(b)) /\ SameList(panel, Settled(panel))
    BY <1>4, InFlight, PanelHelpers, Zenon DEF SameList
  <1>6. SameList(panel, panel')
    BY <1>2, <1>3, <1>4, <1>5, SameListTrans, Zenon
  <1> QED BY <1>1, <1>6, DoneKeeps, Zenon

LEMMA ListReceived ==
  ASSUME ListInv, NEW c \in calls, ReceiveList(c)
  PROVE  ListInv'
  <1> DEFINE p == IF c.got.ok THEN setConversations(panel, c.got) ELSE panel
             q == [p EXCEPT !.listPending = FALSE]
  <1>1. c.op = "list" /\ calls' = calls \ {c}
    BY Zenon DEF ReceiveList, Done
  <1>2. panel' = IF c.list = panel.listNonce THEN q ELSE panel
    BY Zenon DEF ReceiveList
  <1>3. SameList(panel, p)
    BY InFlight, PanelHelpers, Zenon
  <1> HIDE DEF p
  <1>4. IsPanel(q) /\ q.listNonce = panel.listNonce /\ q.listPending = FALSE
    <2>1. IsPanel(p) /\ p.listNonce = panel.listNonce
      BY <1>3, Zenon DEF SameList
    <2> QED BY <2>1, Zenon DEF IsPanel, PanelField
  <1> HIDE DEF q
  <1>5. /\ IsPanel(panel') /\ panel'.listNonce = panel.listNonce
        /\ c.list = panel.listNonce => panel'.listPending = FALSE
        /\ c.list # panel.listNonce => panel'.listPending = panel.listPending
    BY <1>2, <1>4, InFlight, Zenon
  <1>6. Exact(panel', calls \ {c})
    BY <1>1, <1>5, ListReceivedKeeps, Zenon DEF ListInv
  <1> QED BY <1>1, <1>6, Zenon DEF ListInv

LEMMA BootstrapReceived ==
  ASSUME ListInv, NEW c \in calls, bootstrapAgentPanel(c)
  PROVE  ListInv'
  <1> DEFINE a == applyConversationSnapshot(panel, c.got)
             p == [a EXCEPT !.provider = c.got.provider, !.loaded = TRUE]
  <1>1. c.op # "list" /\ Done(c) /\ (panel' = p \/ panel' = panel)
    BY Zenon DEF bootstrapAgentPanel
  <1>2. SameList(panel, a)
    BY InFlight, PanelHelpers, Zenon
  <1> HIDE DEF a
  <1>3. SameList(a, p)
    <2>1. IsPanel(a)
      BY <1>2, Zenon DEF SameList
    <2> QED BY <2>1, Zenon DEF SameList, IsPanel, PanelField
  <1> HIDE DEF p
  <1>4. SameList(panel, panel')
    BY <1>1, <1>2, <1>3, InFlight, SameListTrans, Zenon
  <1> QED BY <1>1, <1>4, DoneKeeps, Zenon

LEMMA ProviderReceived ==
  ASSUME ListInv, NEW c \in calls, ReceiveProvider(c)
  PROVE  ListInv'
  <1> DEFINE p == [panel EXCEPT !.provider = c.got.provider]
  <1>1. c.op # "list" /\ Done(c) /\ (panel' = p \/ panel' = panel)
    BY Zenon DEF ReceiveProvider
  <1>2. SameList(panel, p)
    BY InFlight, Zenon DEF SameList, IsPanel, PanelField
  <1> HIDE DEF p
  <1>3. SameList(panel, panel')
    BY <1>1, <1>2, InFlight, Zenon
  <1> QED BY <1>1, <1>3, DoneKeeps, Zenon

LEMMA ContextFetched ==
  ASSUME ListInv, NEW c \in calls, ReceiveContextFetch(c)
  PROVE  ListInv'
  <1>1. c.op # "list" /\ IsCall(c)
    BY InFlight, Zenon DEF ReceiveContextFetch
  <1>2. CASE c.got.ok
    <2> DEFINE d == [c EXCEPT !.step = "sent", !.target = c.got.conv, !.got = NoAnswer]
    <2>1. Becomes(c, d) /\ panel' = applyConversationSnapshot(panel, c.got)
      BY <1>2, Zenon DEF ReceiveContextFetch
    <2>2. IsCall(d) /\ d.op # "list"
      BY <1>1, Zenon DEF IsCall, CallField
    <2>3. SameList(panel, panel')
      BY <2>1, InFlight, PanelHelpers, Zenon
    <2> HIDE DEF d
    <2> QED BY <1>1, <2>1, <2>2, <2>3, BecomesKeeps, Zenon
  <1>3. CASE ~c.got.ok
    <2>1. panel' = panel /\ Done(c)
      BY <1>3, Zenon DEF ReceiveContextFetch
    <2> QED BY <1>1, <2>1, InFlight, DoneKeeps, Zenon
  <1> QED BY <1>2, <1>3, Zenon

LEMMA ContextReceived ==
  ASSUME ListInv, NEW c \in calls, ReceiveContext(c)
  PROVE  ListInv'
  <1>1. c.op # "list"
    BY Zenon DEF ReceiveContext
  <1>2. CASE c.got.ok
    <2> DEFINE p == applyConversationSnapshot(panel, c.got)
    <2>1. ApplyAndRefresh(c, p, {})
      BY <1>2, Zenon DEF ReceiveContext
    <2>2. SameList(panel, p)
      BY InFlight, PanelHelpers, Zenon
    <2> HIDE DEF p
    <2> QED BY <2>1, <2>2, ApplyStep
  <1>3. CASE ~c.got.ok
    <2>1. panel' = panel /\ Done(c)
      BY <1>3, Zenon DEF ReceiveContext
    <2> QED BY <1>1, <2>1, InFlight, DoneKeeps, Zenon
  <1> QED BY <1>2, <1>3, Zenon

LEMMA PromptReceived ==
  ASSUME ListInv, NEW c \in calls, ReceivePrompt(c)
  PROVE  ListInv'
  <1>1. c.op # "list" /\ IsCall(c)
    BY InFlight, Zenon DEF ReceivePrompt
  <1>2. CASE c.got.ok /\ ownsSubmission(c)
    <2> DEFINE d == [c EXCEPT !.step = "fetch", !.got = NoAnswer]
    <2>1. ApplyAndRefresh(c, panel, {d})
      BY <1>2, Zenon DEF ReceivePrompt
    <2>2. IsCall(d) /\ d.op # "list"
      BY <1>1, Zenon DEF IsCall, CallField
    <2> HIDE DEF d
    <2>3. \A e \in {d} : IsCall(e) /\ e.op # "list"
      BY <2>2, Zenon
    <2> QED BY <2>1, <2>3, InFlight, ApplyStep, Zenon
  <1>3. CASE ~(c.got.ok /\ ownsSubmission(c))
    <2>1. panel' = EndSubmission(c, panel) /\ Done(c)
      BY <1>3, Zenon DEF ReceivePrompt
    <2>2. SameList(panel, panel')
      BY <2>1, InFlight, SubmissionEnded, Zenon
    <2> QED BY <1>1, <2>1, <2>2, DoneKeeps, Zenon
  <1> QED BY <1>2, <1>3, Zenon

LEMMA PromptFinished ==
  ASSUME ListInv, NEW c \in calls, FinishPrompt(c)
  PROVE  ListInv'
  <1> DEFINE p == IF c.got.ok THEN applyConversationSnapshot(panel, c.got) ELSE panel
  <1>1. c.op # "list" /\ Done(c) /\ panel' = EndSubmission(c, p)
    BY Zenon DEF FinishPrompt
  <1>2. SameList(panel, p)
    BY InFlight, PanelHelpers, Zenon
  <1> HIDE DEF p
  <1>3. SameList(p, panel')
    BY <1>1, <1>2, SubmissionEnded, Zenon DEF SameList
  <1>4. SameList(panel, panel')
    BY <1>2, <1>3, SameListTrans, Zenon
  <1> QED BY <1>1, <1>4, DoneKeeps, Zenon

LEMMA ReceiveKeeps == ASSUME ListInv, Receive PROVE ListInv'
  <1>1. PICK c \in calls :
          \/ ReceiveTransition(c) \/ FinishTransition(c) \/ ReceiveRename(c)
          \/ ReceiveMutation(c) \/ FinishMutation(c) \/ ReceiveList(c) \/ bootstrapAgentPanel(c)
          \/ ReceiveProvider(c) \/ ReceiveContextFetch(c) \/ ReceiveContext(c)
          \/ ReceivePrompt(c) \/ FinishPrompt(c)
    BY Zenon DEF Receive
  <1> QED BY Zenon, <1>1, TransitionReceived, TransitionFinished, RenameReceived, MutationReceived,
             MutationFinished, ListReceived, BootstrapReceived, ProviderReceived,
             ContextFetched, ContextReceived, PromptReceived, PromptFinished, Zenon

-----------------------------------------------------------------------------
LEMMA NextList == ASSUME ListInv, [Next]_vars PROVE ListInv'
  <1>1. CASE OpenPanel
    BY <1>1, OpenSidebarKeeps, Zenon
  <1>2. CASE ClosePanel
    BY <1>2, CloseSidebarKeeps, Zenon
  <1>3. ASSUME NEW s \in Scope, updateConversationScope(s) PROVE ListInv'
    BY <1>3, ScopeKeeps, Zenon
  <1>4. ASSUME NEW c \in Conv, switchConversation(c) PROVE ListInv'
    BY <1>4, BeginKeeps, Zenon DEF switchConversation
  <1>5. CASE createConversation
    BY <1>5, BeginKeeps, Zenon DEF createConversation
  <1>6. ASSUME NEW op \in Mutation, NEW c \in Conv, mutateConversation(op, c) PROVE ListInv'
    <2>1. op # "list"
      BY Zenon DEF Mutation
    <2> QED BY <1>6, <2>1, BeginKeeps, Zenon DEF mutateConversation
  <1>7. CASE renameConversation
    BY <1>7, RenameKeeps, Zenon
  <1>8. ASSUME NEW q \in Provider, selectProvider(q) PROVE ListInv'
    BY <1>8, SelectProviderKeeps, Zenon
  <1>9. CASE persistConversationContextPreferences
    BY <1>9, PreferencesKeep, Zenon
  <1>10. CASE sendDraft
    BY <1>10, SubmitKeeps, Zenon
  <1>11. CASE cancelAnswer
    BY <1>11, CancelKeeps, Zenon
  <1>12. CASE Backend
    BY <1>12, BackendKeeps, Zenon
  <1>13. CASE Receive
    BY <1>13, ReceiveKeeps, Zenon
  <1>14. CASE UNCHANGED vars
    BY <1>14, Zenon DEF vars, ListInv
  <1> QED BY Zenon, <1>1, <1>2, <1>3, <1>4, <1>5, <1>6, <1>7, <1>8, <1>9, <1>10, <1>11, <1>12, <1>13,
             <1>14, Zenon DEF Next

(* However operations, answers and failures interleave, the spinner turns  *)
(* exactly while the newest list request is out                            *)
(* (refreshConversationListForPanel): an answer to a superseded request    *)
(* does not stop it, and the newest always does.                           *)
THEOREM ListSpinnerIsExactAlways == Spec => []ListSpinnerIsExact
  <1>1. ListInv => ListSpinnerIsExact
    BY Zenon DEF ListInv, Exact, Spins, ListSpinnerIsExact
  <1> QED BY <1>1, InitList, NextList, PTL DEF Spec

-----------------------------------------------------------------------------
(* What the panel shows.  Below, a is the backend's active conversation.   *)

AnswerField == {"ok", "conv", "list", "archived", "active", "provider"}
BackendField == {"active", "recent", "archived", "used", "provider"}

(* The backend has done a transition that the panel has yet to follow.     *)
Moved(c) == c.op \in Transition /\ c.step \in {"answered", "relist", "relisted"} /\ c.got.ok

NoneMoved(cs) == \A c \in cs : ~Moved(c)

(* The awaits of each function.                                            *)
StepOf(op, step) ==
    \/ op \in {"switch", "create"} /\ step \in {"sent", "answered", "listing"}
    \/ op \in Mutation /\ step \in {"sent", "answered", "relist", "relisted"}
    \/ op \in {"rename", "provider", "bootstrap", "list"} /\ step \in {"sent", "answered"}
    \/ op \in {"context", "prompt"} /\ step \in {"sent", "answered", "fetch", "fetched"}

CallTyped(c, p) ==
    /\ StepOf(c.op, c.step) /\ c.epoch \in Nat /\ c.epoch <= p.epoch
    /\ c.got = [f \in AnswerField |-> c.got[f]]

(* At most one transition is in flight, the pending flag is up as long as  *)
(* it is, its answer will count, and nothing is in flight beside it that   *)
(* no counter orders.                                                      *)
Ordered(p, cs) ==
    \A c, d \in cs :
        /\ ~Unordered(c, d)
        /\ c.op \in Transition =>
              /\ p.pending /\ c.epoch = p.epoch
              /\ d.op \in Transition => d = c
              /\ d.op = "bootstrap" => d.epoch # p.epoch

(* What each call will tell the panel, if its answer still counts.         *)
Tells(c, p, cs, a) ==
    /\ c.op \in Mutation /\ c.step = "sent" =>
          c.was \in {None, a} /\ (c.was = None => p.thread = None) /\ c.target # None
    /\ c.op \in {"switch", "create"} /\ Moved(c) => c.got.conv = a
    /\ c.op \in Mutation /\ Moved(c) =>
          /\ c.was = c.target => c.got.conv = a
          /\ c.was # c.target => p.thread \in {None, a}
          /\ c.step = "relisted" => c.got.active = a
    /\ c.step \in {"relist", "relisted"} => c.got.ok
    /\ c.op = "rename" => c.target = a
    /\ c.op = "context" /\ c.step = "sent" => c.target = a
    /\ c.op \in {"rename", "context"} /\ c.step \in {"answered", "fetched"} /\ c.got.ok => c.got.conv = a
    /\ c.op = "prompt" /\ c.step = "fetched" /\ c.got.ok => c.got.conv = a
    /\ c.op = "bootstrap" /\ c.step = "answered" /\ c.got.ok /\ c.epoch = p.epoch => c.got.conv = a
    /\ c.op = "list" /\ c.step = "answered" /\ c.got.ok /\ c.list = p.listNonce /\ NoneMoved(cs) => c.got.active = a

(* The panel shows the active conversation, or it will.                    *)
ShowsLive(p, cs, a) ==
    NoneMoved(cs) => /\ {p.thread, p.activeID} \subseteq {None, a}
                     /\ p.activeID = None => p.thread = None

Live(p, cs, a) ==
    /\ p.epoch \in Nat /\ Ordered(p, cs) /\ ShowsLive(p, cs, a)
    /\ \A c \in cs : CallTyped(c, p) /\ Tells(c, p, cs, a)

(* A record with the fields of the backend.                                *)
IsBackend(b) == b = [f \in BackendField |-> b[f]]

LiveInv == ~missed => Live(panel, calls, backend.active) /\ IsBackend(backend)

-----------------------------------------------------------------------------
(* No two calls in flight are of the kind that no counter orders.          *)
Apart(cs) == \A c, d \in cs : ~Unordered(c, d)

(* A step that takes the panel no further than it was: what it drops and   *)
(* adds leaves the panel showing what it showed.                           *)
Moves(p, q, cs, ds, a) ==
    /\ Ordered(q, ds) /\ ShowsLive(q, ds, a)
    /\ q.epoch = p.epoch \/ q.epoch = p.epoch + 1
    /\ q.listNonce = p.listNonce \/ q.listNonce = p.listNonce + 1
    /\ q.thread = p.thread \/ q.thread = None
    /\ NoneMoved(ds) => NoneMoved(cs)
    /\ \A d \in ds : d \in cs \/ (CallTyped(d, q) /\ Tells(d, q, ds, a))

(* A step that brings the panel to the active conversation.                *)
Settles(p, q, cs, ds, a) ==
    /\ Ordered(q, ds) /\ ShowsLive(q, ds, a)
    /\ q.epoch = p.epoch
    /\ q.listNonce = p.listNonce \/ q.listNonce = p.listNonce + 1
    /\ \/ NoneMoved(cs) \/ q.listNonce = p.listNonce + 1
       \/ \A d \in ds : d.op # "list"
    /\ \A d \in ds : d.op \in Transition => d.step = "listing"
    /\ \A d \in ds : d \in cs \/ (CallTyped(d, q) /\ Tells(d, q, ds, a))

LEMMA MutationsAreTransitions == \A op \in Mutation : op \in Transition
  BY Zenon DEF Mutation, Transition

LEMMA TypedLater ==
  ASSUME NEW c, NEW p, NEW q, CallTyped(c, p), p.epoch \in Nat,
         q.epoch = p.epoch \/ q.epoch = p.epoch + 1
  PROVE  CallTyped(c, q)
  <1>1. c.epoch \in Nat /\ c.epoch <= p.epoch
    BY Zenon DEF CallTyped
  <1>2. c.epoch <= q.epoch
    BY <1>1
  <1> QED BY <1>2, Zenon DEF CallTyped

LEMMA MovesKeep ==
  ASSUME NEW p, NEW q, NEW cs, NEW ds, NEW a,
         Exact(p, cs), Live(p, cs, a), Moves(p, q, cs, ds, a)
  PROVE  Live(q, ds, a)
  <1> USE DEF Moves
  <1>1. p.epoch \in Nat /\ p.listNonce \in Nat
    BY Zenon DEF Live, Exact, IsPanel
  <1>2. q.epoch \in Nat
    BY <1>1
  <1>3. ASSUME NEW c \in cs, c \in ds PROVE CallTyped(c, q) /\ Tells(c, q, ds, a)
    <2>1. CallTyped(c, p) /\ Tells(c, p, cs, a)
      BY Zenon DEF Live
    <2>2. CallTyped(c, q)
      BY <1>1, <2>1, TypedLater, Zenon
    <2>3. c.epoch = q.epoch => c.epoch = p.epoch
      BY <1>1, <2>1 DEF CallTyped
    <2>4. c.op = "list" /\ c.list = q.listNonce => c.list = p.listNonce
      <3>1. c.op = "list" => c.list \in 1..p.listNonce
        BY Zenon DEF Exact, CallOK
      <3> QED BY <1>1, <3>1
    <2>5. Tells(c, q, ds, a)
      BY <2>1, <2>3, <2>4, Zenon DEF Tells
    <2> QED BY <2>2, <2>5, Zenon
  <1> QED BY <1>2, <1>3, Zenon DEF Live

LEMMA SettlesKeep ==
  ASSUME NEW p, NEW q, NEW cs, NEW ds, NEW a,
         Exact(p, cs), Live(p, cs, a), Settles(p, q, cs, ds, a)
  PROVE  Live(q, ds, a)
  <1>1. p.epoch \in Nat /\ p.listNonce \in Nat
    BY Zenon DEF Live, Exact, IsPanel
  <1>2. /\ Ordered(q, ds) /\ ShowsLive(q, ds, a) /\ q.epoch = p.epoch
        /\ \A d \in ds : d \in cs \/ (CallTyped(d, q) /\ Tells(d, q, ds, a))
    BY Zenon DEF Settles
  <1>3. ASSUME NEW c \in cs, c \in ds PROVE CallTyped(c, q) /\ Tells(c, q, ds, a)
    <2>1. CallTyped(c, p) /\ Tells(c, p, cs, a)
      BY Zenon DEF Live
    <2>2. CallTyped(c, q)
      BY <1>1, <1>2, <2>1, TypedLater, Zenon
    <2>4. c.op = "list" /\ c.list = q.listNonce => q.listNonce = p.listNonce /\ NoneMoved(cs)
      <3>1. c.op = "list" => c.list \in 1..p.listNonce
        BY Zenon DEF Exact, CallOK
      <3>2. c.op = "list" =>
              \/ NoneMoved(cs) /\ q.listNonce = p.listNonce
              \/ q.listNonce = p.listNonce + 1
        BY <1>3, Zenon DEF Settles
      <3> QED BY <1>1, <3>1, <3>2
    <2>5. ~Moved(c) /\ ~(c.op \in Transition /\ c.step = "sent")
      <3>1. c.op \in Transition => c.step = "listing"
        BY <1>3, Zenon DEF Settles
      <3> QED BY <3>1, Zenon DEF Moved
    <2>6. Tells(c, q, ds, a)
      BY <1>2, <2>1, <2>4, <2>5, MutationsAreTransitions, Zenon DEF Tells
    <2> QED BY <2>2, <2>6, Zenon
  <1> QED BY <1>1, <1>2, <1>3, Zenon DEF Live

(* Without a transition in flight nothing has to be ordered.               *)
LEMMA IdleIsOrdered ==
  ASSUME NEW q, NEW ds, \A d \in ds : d.op \notin Transition
  PROVE  Ordered(q, ds) /\ NoneMoved(ds)
  BY MutationsAreTransitions, Zenon DEF Ordered, Unordered, NoneMoved, Moved

LEMMA IdleWithoutPending ==
  ASSUME NEW p, NEW cs, NEW a, Live(p, cs, a), ~p.pending
  PROVE  \A c \in cs : c.op \notin Transition
  BY Zenon DEF Live, Ordered

LEMMA OrderedMore ==
  ASSUME NEW p, NEW q, NEW cs, NEW ds, Ordered(p, cs), Apart(ds),
         q.epoch = p.epoch, q.pending = p.pending,
         \A d \in ds : d \in cs \/ (d.op \notin Transition /\ d.op # "bootstrap")
  PROVE  Ordered(q, ds)
  BY Zenon DEF Ordered, Apart

LEMMA OrderedBecomes ==
  ASSUME NEW p, NEW q, NEW cs, NEW ds, Ordered(p, cs), Apart(ds),
         q.epoch = p.epoch, q.pending = p.pending,
         NEW c \in cs, NEW e, e.op = c.op, e.epoch = c.epoch,
         \A d \in ds : \/ d \in cs /\ d # c
                       \/ d = e
                       \/ d.op \notin Transition /\ d.op # "bootstrap"
  PROVE  Ordered(q, ds)
  BY Zenon DEF Ordered, Apart

-----------------------------------------------------------------------------
(* What the helpers do to the fields of the panel that show a conversation. *)
Views(p, thread, activeID, epoch, pending) ==
    p.thread = thread /\ p.activeID = activeID /\ p.epoch = epoch /\ p.pending = pending

LEMMA HelperViews ==
  ASSUME NEW p, IsPanel(p), NEW got, NEW c
  PROVE  /\ Views(applyConversationSnapshot(p, got), got.conv, got.conv, p.epoch, p.pending)
         /\ Views(setConversations(p, got), p.thread, got.active, p.epoch, p.pending)
         /\ Views(Settled(p), p.thread, p.activeID, p.epoch, FALSE)
         /\ Views(resetConversationSubmissionRuntime(p), p.thread, p.activeID, p.epoch, p.pending)
         /\ Views(beginPanelStateEpoch(p), p.thread, p.activeID, p.epoch + 1, p.pending)
         /\ Views(BeginRefresh(p), p.thread, p.activeID, p.epoch, p.pending)
         /\ Views(EndSubmission(c, p), p.thread, p.activeID, p.epoch, p.pending)
  <1>1. Views(applyConversationSnapshot(p, got), got.conv, got.conv, p.epoch, p.pending)
    BY Zenon DEF IsPanel, PanelField, Views, applyConversationSnapshot
  <1>2. Views(setConversations(p, got), p.thread, got.active, p.epoch, p.pending)
    BY Zenon DEF IsPanel, PanelField, Views, setConversations
  <1>3. Views(Settled(p), p.thread, p.activeID, p.epoch, FALSE)
    BY Zenon DEF IsPanel, PanelField, Views, Settled
  <1>4. Views(resetConversationSubmissionRuntime(p), p.thread, p.activeID, p.epoch, p.pending)
    BY Zenon DEF IsPanel, PanelField, Views, resetConversationSubmissionRuntime
  <1>5. Views(beginPanelStateEpoch(p), p.thread, p.activeID, p.epoch + 1, p.pending)
    BY Zenon DEF IsPanel, PanelField, Views, beginPanelStateEpoch
  <1>6. Views(BeginRefresh(p), p.thread, p.activeID, p.epoch, p.pending)
    BY Zenon DEF IsPanel, PanelField, Views, BeginRefresh
  <1>7. Views(EndSubmission(c, p), p.thread, p.activeID, p.epoch, p.pending)
    BY Zenon DEF IsPanel, PanelField, Views, EndSubmission
  <1> QED BY <1>1, <1>2, <1>3, <1>4, <1>5, <1>6, <1>7, Zenon

LEMMA RefreshViews ==
  ASSUME NEW p, IsPanel(p), NEW thread, NEW activeID, NEW epoch, NEW pending,
         Views(p, thread, activeID, epoch, pending)
  PROVE  /\ Views(BeginRefresh(p), thread, activeID, epoch, pending)
         /\ BeginRefresh(p).listNonce = p.listNonce + 1
  <1>1. Views(BeginRefresh(p), p.thread, p.activeID, p.epoch, p.pending)
    BY HelperViews, Zenon
  <1> QED BY <1>1, RefreshBegun, Zenon DEF Views

LEMMA NoAnswerTyped == NoAnswer = [f \in AnswerField |-> NoAnswer[f]] /\ NoAnswer.ok = FALSE
  BY Zenon DEF NoAnswer, AnswerField

LEMMA CallFields ==
  ASSUME NEW op, NEW target, NEW p, p.epoch \in Nat, StepOf(op, "sent")
  PROVE  LET d == Call(op, target, p) IN
           /\ d.op = op /\ d.step = "sent" /\ d.target = target /\ d.was = p.activeID
           /\ d.epoch = p.epoch /\ CallTyped(d, p)
  <1> DEFINE d == Call(op, target, p)
  <1>1. /\ d.op = op /\ d.step = "sent" /\ d.target = target /\ d.was = p.activeID
        /\ d.epoch = p.epoch /\ d.got = NoAnswer
    BY Zenon DEF Call
  <1> HIDE DEF d
  <1>2. CallTyped(d, p)
    BY <1>1, NoAnswerTyped DEF CallTyped
  <1> QED BY <1>1, <1>2, Zenon DEF d

LEMMA ListFields ==
  ASSUME NEW p, NEW scope, p.epoch \in Nat
  PROVE  LET l == ListCall(p, scope) IN l.op = "list" /\ l.step = "sent" /\ CallTyped(l, p)
  <1> DEFINE l == ListCall(p, scope)
  <1>1. l.op = "list" /\ l.step = "sent" /\ l.epoch = 0 /\ l.got = NoAnswer
    BY Zenon DEF ListCall
  <1> HIDE DEF l
  <1>2. CallTyped(l, p)
    BY <1>1, NoAnswerTyped DEF CallTyped, StepOf
  <1> QED BY <1>1, <1>2, Zenon DEF l

(* A request that is out tells nothing yet.                                *)
LEMMA SentTells ==
  ASSUME NEW d, d.step = "sent", d.op \notin Mutation, d.op \notin {"rename", "context"},
         NEW q, NEW ds, NEW a
  PROVE  Tells(d, q, ds, a)
  BY Zenon DEF Tells, Moved

(* The panel stays on its conversation, and calls are added.               *)
LEMMA CallsAdded ==
  ASSUME NEW p, NEW q, NEW cs, NEW ds, NEW a, Exact(p, cs), Live(p, cs, a), Ordered(q, ds),
         q.thread = p.thread, q.activeID = p.activeID,
         q.epoch = p.epoch \/ q.epoch = p.epoch + 1,
         q.listNonce = p.listNonce \/ q.listNonce = p.listNonce + 1,
         cs \subseteq ds,
         \A d \in ds : d \in cs \/ (CallTyped(d, q) /\ Tells(d, q, ds, a))
  PROVE  Live(q, ds, a)
  <1>1. NoneMoved(ds) => NoneMoved(cs)
    BY Zenon DEF NoneMoved
  <1>2. ShowsLive(q, ds, a)
    BY <1>1, Zenon DEF Live, ShowsLive
  <1>3. Moves(p, q, cs, ds, a)
    BY <1>1, <1>2, Zenon DEF Moves
  <1> QED BY <1>3, MovesKeep, Zenon

-----------------------------------------------------------------------------
(* The operator's actions, from a state in which Live holds, to one where  *)
(* nothing was missed.                                                     *)
LEMMA OpenSidebarLive ==
  ASSUME ListInv, NEW a, Live(panel, calls, a), OpenPanel, Apart(calls')
  PROVE  Live(panel', calls', a)
  <1> DEFINE k == BlankPanel(panel.epoch + 1, panel.nonce + 1, panel.listNonce)
             b == Call("bootstrap", None, panel')
             l == ListCall(panel', panel'.scope)
  <1>1. panel' = BeginRefresh(k) /\ calls' = calls \cup {b, l}
    BY Zenon DEF OpenPanel, Opened
  <1>2. panel.listNonce \in Nat /\ panel.epoch \in Nat
    BY InFlight, Zenon DEF IsPanel, Live
  <1>3. IsPanel(k) /\ Views(k, None, None, panel.epoch + 1, FALSE) /\ k.listNonce = panel.listNonce
    BY <1>2, Zenon DEF BlankPanel, IsPanel, PanelField, Views
  <1> HIDE DEF k
  <1>4. /\ Views(panel', None, None, panel.epoch + 1, FALSE)
        /\ panel'.listNonce = panel.listNonce + 1
    BY <1>1, <1>3, RefreshViews, Zenon
  <1>5. panel'.epoch = panel.epoch + 1 /\ panel'.epoch \in Nat
    BY <1>2, <1>4 DEF Views
  <1>6. b.op = "bootstrap" /\ b.step = "sent" /\ b.epoch = panel.epoch + 1 /\ CallTyped(b, panel')
    <2>1. StepOf("bootstrap", "sent")
      BY Zenon DEF StepOf
    <2> QED BY <1>5, <2>1, CallFields
  <1>7. l.op = "list" /\ l.step = "sent" /\ CallTyped(l, panel')
    BY <1>5, ListFields, Zenon
  <1> HIDE DEF b, l
  <1>8. \A d \in calls' : d.op \notin Transition
    <2>1. ASSUME NEW c \in calls, c.op \in Transition PROVE FALSE
      <3>1. c.epoch = panel.epoch
        BY <2>1, Zenon DEF Live, Ordered
      <3>2. Unordered(c, b)
        BY <1>2, <1>6, <2>1, <3>1 DEF Unordered
      <3> QED BY <1>1, <3>2, Zenon DEF Apart
    <2> QED BY <1>1, <1>6, <1>7, <2>1, Zenon DEF Transition
  <1>9. Tells(b, panel', calls', a) /\ Tells(l, panel', calls', a)
    BY <1>6, <1>7, SentTells, Zenon DEF Mutation
  <1>10. Ordered(panel', calls') /\ NoneMoved(calls)
    BY <1>1, <1>8, IdleIsOrdered, Zenon
  <1>11. ShowsLive(panel', calls', a)
    BY <1>4, Zenon DEF ShowsLive, Views
  <1>12. Moves(panel, panel', calls, calls', a)
    BY <1>1, <1>4, <1>6, <1>7, <1>9, <1>10, <1>11, Zenon DEF Moves, Views
  <1> QED BY <1>12, MovesKeep, Zenon DEF ListInv

LEMMA CloseSidebarLive ==
  ASSUME ListInv, NEW a, Live(panel, calls, a), ClosePanel
  PROVE  Live(panel', calls', a)
  <1>1. /\ Views(panel', panel.thread, panel.activeID, panel.epoch, panel.pending)
        /\ panel'.listNonce = panel.listNonce /\ calls' = calls
    BY InFlight, Zenon DEF ClosePanel, IsPanel, PanelField, Views
  <1>2. Ordered(panel', calls')
    BY <1>1, Zenon DEF Live, Ordered, Views
  <1> QED BY <1>1, <1>2, CallsAdded, Zenon DEF ListInv, Views

LEMMA CancelLive ==
  ASSUME ListInv, NEW a, Live(panel, calls, a), cancelAnswer
  PROVE  Live(panel', calls', a)
  <1>1. /\ Views(panel', panel.thread, panel.activeID, panel.epoch, panel.pending)
        /\ panel'.listNonce = panel.listNonce /\ calls' = calls
    BY InFlight, Zenon DEF cancelAnswer, IsPanel, PanelField, Views
  <1>2. Ordered(panel', calls')
    BY <1>1, Zenon DEF Live, Ordered, Views
  <1> QED BY <1>1, <1>2, CallsAdded, Zenon DEF ListInv, Views

LEMMA ScopeLive ==
  ASSUME ListInv, NEW a, Live(panel, calls, a), NEW s \in Scope, updateConversationScope(s),
         Apart(calls')
  PROVE  Live(panel', calls', a)
  <1> DEFINE k == [panel EXCEPT !.scope = s]
             l == ListCall(panel', s)
  <1>1. panel' = BeginRefresh(k) /\ calls' = calls \cup {l}
    BY Zenon DEF updateConversationScope
  <1>2. /\ IsPanel(k) /\ Views(k, panel.thread, panel.activeID, panel.epoch, panel.pending)
        /\ k.listNonce = panel.listNonce
    BY InFlight, Zenon DEF IsPanel, PanelField, Views
  <1> HIDE DEF k
  <1>3. /\ Views(panel', panel.thread, panel.activeID, panel.epoch, panel.pending)
        /\ panel'.listNonce = panel.listNonce + 1
    BY <1>1, <1>2, RefreshViews, Zenon
  <1>4. panel'.epoch \in Nat
    BY <1>3, Zenon DEF Views, Live
  <1>5. l.op = "list" /\ l.step = "sent" /\ CallTyped(l, panel')
    BY <1>4, ListFields, Zenon
  <1> HIDE DEF l
  <1>6. Tells(l, panel', calls', a)
    BY <1>5, SentTells, Zenon DEF Mutation
  <1>7. Ordered(panel', calls')
    BY <1>1, <1>3, <1>5, OrderedMore, Zenon DEF Live, Views, Transition
  <1> QED BY <1>1, <1>3, <1>5, <1>6, <1>7, CallsAdded, Zenon DEF ListInv, Views

(* Switch, create and the mutations begin when no transition is in flight. *)
LEMMA BeginLive ==
  ASSUME ListInv, NEW a, Live(panel, calls, a), NEW op \in Transition, NEW x,
         op \in Mutation => x # None, ~panel.pending, BeginTransition(op, x), Apart(calls')
  PROVE  Live(panel', calls', a)
  <1> DEFINE e == resetConversationSubmissionRuntime(panel)
             f == beginPanelStateEpoch(e)
             k == [f EXCEPT !.pending = TRUE]
             d == Call(op, x, panel')
  <1>1. panel' = k /\ calls' = calls \cup {d}
    BY Zenon DEF BeginTransition
  <1>2. SameList(panel, e) /\ Views(e, panel.thread, panel.activeID, panel.epoch, panel.pending)
    BY InFlight, PanelHelpers, HelperViews, Zenon
  <1> HIDE DEF e
  <1>3. SameList(e, f) /\ Views(f, e.thread, e.activeID, e.epoch + 1, e.pending)
    BY <1>2, PanelHelpers, HelperViews, Zenon DEF SameList
  <1> HIDE DEF f
  <1>4. SameList(f, k) /\ Views(k, f.thread, f.activeID, f.epoch, TRUE)
    <2>1. IsPanel(f)
      BY <1>3, Zenon DEF SameList
    <2> QED BY <2>1, Zenon DEF SameList, IsPanel, PanelField, Views
  <1> HIDE DEF k
  <1>5. /\ Views(panel', panel.thread, panel.activeID, panel.epoch + 1, TRUE)
        /\ panel'.listNonce = panel.listNonce
    BY <1>1, <1>2, <1>3, <1>4, Zenon DEF SameList, Views
  <1>6. panel.epoch \in Nat /\ panel'.epoch = panel.epoch + 1 /\ panel'.epoch \in Nat
    BY <1>5 DEF Views, Live
  <1>7. /\ d.op = op /\ d.step = "sent" /\ d.target = x /\ d.was = panel.activeID
        /\ d.epoch = panel'.epoch /\ CallTyped(d, panel')
    <2>1. StepOf(op, "sent")
      BY Zenon DEF StepOf, Transition, Mutation
    <2> QED BY <1>5, <1>6, <2>1, CallFields DEF Views
  <1> HIDE DEF d
  <1>8. \A c \in calls : c.op \notin Transition
    BY IdleWithoutPending, Zenon
  <1>9. NoneMoved(calls) /\ {panel.thread, panel.activeID} \subseteq {None, a}
                         /\ (panel.activeID = None => panel.thread = None)
    BY <1>8, IdleIsOrdered, Zenon DEF Live, ShowsLive
  <1>10. Tells(d, panel', calls', a)
    <2>1. d.op \notin {"rename", "context"}
      BY <1>7, Zenon DEF Transition
    <2> QED BY <1>5, <1>7, <1>9, <2>1, Zenon DEF Tells, Moved, Views
  <1>11. Ordered(panel', calls')
    <2>1. \A c \in calls : c.op = "bootstrap" => c.epoch # panel'.epoch
      <3>1. \A c \in calls : c.epoch \in Nat /\ c.epoch <= panel.epoch
        BY Zenon DEF Live, CallTyped
      <3> QED BY <1>6, <3>1
    <2>2. d.op # "bootstrap" /\ panel'.pending
      BY <1>5, <1>7, Zenon DEF Transition, Views
    <2> QED BY <1>1, <1>7, <1>8, <2>1, <2>2, Zenon DEF Ordered, Apart
  <1> QED BY <1>1, <1>5, <1>7, <1>10, <1>11, CallsAdded, Zenon DEF ListInv, Views

LEMMA RenameLive ==
  ASSUME ListInv, NEW a, Live(panel, calls, a), renameConversation
  PROVE  Live(panel', calls', a)
  <1> DEFINE d == Call("rename", panel.thread, panel)
  <1>1. /\ calls' = calls \cup {d} /\ ~panel.pending /\ panel.thread # None
        /\ panel' = [panel EXCEPT !.pending = TRUE]
    BY Zenon DEF renameConversation, Busy
  <1>2. /\ Views(panel', panel.thread, panel.activeID, panel.epoch, TRUE)
        /\ panel'.listNonce = panel.listNonce
    BY <1>1, InFlight, Zenon DEF IsPanel, PanelField, Views
  <1>3. d.op = "rename" /\ d.step = "sent" /\ d.target = panel.thread /\ CallTyped(d, panel)
    <2>1. StepOf("rename", "sent") /\ panel.epoch \in Nat
      BY Zenon DEF StepOf, Live
    <2> QED BY <2>1, CallFields
  <1> HIDE DEF d
  <1>4. \A c \in calls' : c.op \notin Transition
    BY <1>1, <1>3, IdleWithoutPending, Zenon DEF Transition
  <1>5. Ordered(panel', calls') /\ panel.thread = a
    <2>1. NoneMoved(calls)
      BY <1>1, <1>4, IdleIsOrdered, Zenon
    <2> QED BY <1>1, <1>4, <2>1, IdleIsOrdered, Zenon DEF Live, ShowsLive
  <1>6. CallTyped(d, panel')
    BY <1>2, <1>3, Zenon DEF CallTyped, Views
  <1>7. Tells(d, panel', calls', a)
    BY <1>3, <1>5, Zenon DEF Tells, Moved, Mutation
  <1> QED BY <1>1, <1>2, <1>5, <1>6, <1>7, CallsAdded, Zenon DEF ListInv, Views

LEMMA SelectProviderLive ==
  ASSUME ListInv, NEW a, Live(panel, calls, a), NEW q \in Provider, selectProvider(q)
  PROVE  Live(panel', calls', a)
  <1> DEFINE d == Call("provider", q, panel')
  <1>1. calls' = calls \cup {d} /\ ~panel.pending /\ panel' = beginPanelStateEpoch(panel)
    BY Zenon DEF selectProvider, Busy
  <1>2. Views(panel', panel.thread, panel.activeID, panel.epoch + 1, panel.pending)
    BY <1>1, InFlight, HelperViews, Zenon
  <1>3. panel'.listNonce = panel.listNonce
    BY <1>1, InFlight, PanelHelpers, Zenon DEF SameList
  <1>4. panel'.epoch \in Nat
    BY <1>2 DEF Views, Live
  <1>5. d.op = "provider" /\ d.step = "sent" /\ CallTyped(d, panel')
    <2>1. StepOf("provider", "sent")
      BY Zenon DEF StepOf
    <2> QED BY <1>4, <2>1, CallFields
  <1> HIDE DEF d
  <1>6. \A c \in calls' : c.op \notin Transition
    BY <1>1, <1>5, IdleWithoutPending, Zenon DEF Transition
  <1>7. Ordered(panel', calls')
    BY <1>6, IdleIsOrdered, Zenon
  <1>8. Tells(d, panel', calls', a)
    BY <1>5, SentTells, Zenon DEF Mutation
  <1> QED BY <1>1, <1>2, <1>3, <1>5, <1>7, <1>8, CallsAdded, Zenon DEF ListInv, Views

(* No transition is in flight beside a snapshot that is applied unchecked. *)
LEMMA UncheckedIsAlone ==
  ASSUME NEW cs, Apart(cs), NEW d \in cs,
         \/ d.op \in {"rename", "context"}
         \/ d.op = "prompt" /\ d.step \in {"fetch", "fetched"}
  PROVE  \A c \in cs : c.op \notin Transition
  BY Zenon DEF Apart, Unordered

LEMMA PreferencesLive ==
  ASSUME ListInv, NEW a, Live(panel, calls, a), persistConversationContextPreferences,
         Apart(calls')
  PROVE  Live(panel', calls', a)
  <1> DEFINE c == Call("context", panel.activeID, panel)
             st == IF c.target = None THEN "fetch" ELSE "sent"
             d == [c EXCEPT !.step = st]
  <1>1. panel' = panel /\ calls' = calls \cup {d}
    BY Zenon DEF persistConversationContextPreferences
  <1>2. IsCall(c)
    BY CallIssued, Zenon
  <1>3. c.op = "context" /\ c.target = panel.activeID /\ CallTyped(c, panel)
    <2>1. StepOf("context", "sent") /\ panel.epoch \in Nat
      BY Zenon DEF StepOf, Live
    <2> QED BY <2>1, CallFields
  <1>4. st \in {"fetch", "sent"} /\ (st = "sent" => panel.activeID # None)
    BY <1>3, Zenon
  <1> HIDE DEF c, st
  <1>5. /\ d.op = "context" /\ d.target = panel.activeID /\ d.step = st
        /\ d.epoch = c.epoch /\ d.got = c.got
    BY <1>2, <1>3, Zenon DEF IsCall, CallField
  <1> HIDE DEF d
  <1>6. CallTyped(d, panel')
    BY <1>1, <1>3, <1>4, <1>5, Zenon DEF CallTyped, StepOf
  <1>7. \A x \in calls' : x.op \notin Transition
    BY <1>1, <1>5, UncheckedIsAlone, Zenon
  <1>8. Ordered(panel', calls') /\ panel.activeID \in {None, a}
    <2>1. NoneMoved(calls)
      BY <1>1, <1>7, IdleIsOrdered, Zenon
    <2> QED BY <1>7, <2>1, IdleIsOrdered, Zenon DEF Live, ShowsLive
  <1>9. Tells(d, panel', calls', a)
    BY <1>4, <1>5, <1>8, Zenon DEF Tells, Moved, Mutation, Transition
  <1> QED BY <1>1, <1>6, <1>8, <1>9, CallsAdded, Zenon DEF ListInv

LEMMA SubmitLive ==
  ASSUME ListInv, NEW a, Live(panel, calls, a), sendDraft
  PROVE  Live(panel', calls', a)
  <1> DEFINE d == Call("prompt", None, panel')
  <1>1. /\ calls' = calls \cup {d} /\ ~panel.pending
        /\ panel' = [panel EXCEPT !.nonce = @ + 1, !.submitting = TRUE]
    BY Zenon DEF sendDraft, Busy
  <1>2. /\ Views(panel', panel.thread, panel.activeID, panel.epoch, panel.pending)
        /\ panel'.listNonce = panel.listNonce
    BY <1>1, InFlight, Zenon DEF IsPanel, PanelField, Views
  <1>3. panel'.epoch \in Nat
    BY <1>2, Zenon DEF Views, Live
  <1>4. d.op = "prompt" /\ d.step = "sent" /\ CallTyped(d, panel')
    <2>1. StepOf("prompt", "sent")
      BY Zenon DEF StepOf
    <2> QED BY <1>3, <2>1, CallFields
  <1> HIDE DEF d
  <1>5. Ordered(panel', calls')
    BY <1>1, <1>4, IdleWithoutPending, IdleIsOrdered, Zenon DEF Transition
  <1>6. Tells(d, panel', calls', a)
    BY <1>4, SentTells, Zenon DEF Mutation
  <1> QED BY <1>1, <1>2, <1>4, <1>5, <1>6, CallsAdded, Zenon DEF ListInv, Views

-----------------------------------------------------------------------------
(* The backend.                                                            *)
Answered(c, e, step, got) ==
    /\ e.op = c.op /\ e.epoch = c.epoch /\ e.list = c.list /\ e.was = c.was /\ e.target = c.target
    /\ e.step = step /\ e.got = got

IsAnswer(got) == got = [f \in AnswerField |-> got[f]]

LEMMA AnswerFields ==
  ASSUME NEW c, IsCall(c), NEW step, NEW got
  PROVE  Answered(c, [c EXCEPT !.step = step, !.got = got], step, got)
  BY Zenon DEF IsCall, CallField, Answered

LEMMA SnapshotFields ==
  ASSUME NEW conv, NEW b, NEW p
  PROVE  /\ IsAnswer(Snapshot(conv, b)) /\ Snapshot(conv, b).ok = TRUE /\ Snapshot(conv, b).conv = conv
         /\ LET s == [Snapshot(conv, b) EXCEPT !.provider = p] IN
              IsAnswer(s) /\ s.ok = TRUE /\ s.conv = conv
  BY Zenon DEF Snapshot, NoAnswer, AnswerField, IsAnswer

(* An answer does not bring two calls together that no counter orders.     *)
LEMMA AnswerApart ==
  ASSUME NEW cs, Apart(cs), NEW c \in cs, NEW e, e.op = c.op, e.epoch = c.epoch,
         e.op = "prompt" /\ e.step \in {"fetch", "fetched"} => c.step \in {"fetch", "fetched"}
  PROVE  Apart((cs \ {c}) \cup {e})
  BY Zenon DEF Apart, Unordered

(* The backend answers and the active conversation stays.                  *)
LEMMA AnswerLive ==
  ASSUME NEW p, NEW cs, NEW a, Exact(p, cs), Live(p, cs, a), NEW c \in cs, NEW e,
         e.op = c.op, e.epoch = c.epoch, CallTyped(e, p),
         Tells(e, p, (cs \ {c}) \cup {e}, a), Moved(c) => Moved(e),
         e.op = "prompt" /\ e.step \in {"fetch", "fetched"} => c.step \in {"fetch", "fetched"}
  PROVE  Live(p, (cs \ {c}) \cup {e}, a)
  <1> DEFINE ds == (cs \ {c}) \cup {e}
  <1>1. Ordered(p, cs) /\ Apart(cs) /\ ShowsLive(p, cs, a)
    BY Zenon DEF Live, Ordered, Apart
  <1>2. Apart(ds)
    BY <1>1, AnswerApart, Zenon
  <1>3. \A d \in ds : (d \in cs /\ d # c) \/ d = e
    OBVIOUS
  <1>4. Ordered(p, ds)
    BY <1>1, <1>2, <1>3, OrderedBecomes
  <1>5. NoneMoved(ds) => NoneMoved(cs)
    BY Zenon DEF NoneMoved
  <1>6. ShowsLive(p, ds, a)
    BY <1>1, <1>5, Zenon DEF ShowsLive
  <1>7. Moves(p, p, cs, ds, a)
    BY <1>3, <1>4, <1>5, <1>6, Zenon DEF Moves
  <1> QED BY <1>7, MovesKeep, Zenon

(* The backend does a transition: it is the only call that can change what *)
(* the panel shows, and its answer will.                                   *)
LEMMA TransitionLive ==
  ASSUME NEW p, NEW cs, NEW a, NEW b, Live(p, cs, a), NEW c \in cs,
         c.op \in Transition, c.step = "sent", NEW got, IsAnswer(got), got.ok = TRUE,
         NEW e, Answered(c, e, "answered", got),
         c.op \in {"switch", "create"} => got.conv = b,
         c.op \in Mutation => /\ c.was = c.target => got.conv = b
                              /\ c.target = a \/ b = a
  PROVE  Live(p, (cs \ {c}) \cup {e}, b)
  <1> DEFINE ds == (cs \ {c}) \cup {e}
  <1>1. Ordered(p, cs) /\ Apart(cs) /\ ShowsLive(p, cs, a) /\ p.epoch \in Nat
    BY Zenon DEF Live, Ordered, Apart
  <1>2. CallTyped(c, p) /\ Tells(c, p, cs, a)
    BY Zenon DEF Live
  <1>3. /\ e.op = c.op /\ e.epoch = c.epoch /\ e.step = "answered" /\ e.got = got
        /\ e.was = c.was /\ e.target = c.target
    BY Zenon DEF Answered
  <1>4. Moved(e) /\ e.op \in Transition
    BY <1>3, Zenon DEF Moved
  <1>5. Apart(ds)
    <2>1. e.op # "prompt"
      BY <1>4, Zenon DEF Transition
    <2> QED BY <1>1, <1>3, <2>1, AnswerApart, Zenon
  <1>6. Ordered(p, ds)
    <2>1. \A d \in ds : (d \in cs /\ d # c) \/ d = e
      OBVIOUS
    <2> QED BY <1>1, <1>3, <1>5, <2>1, OrderedBecomes
  <1>7. ~NoneMoved(ds)
    BY <1>4, Zenon DEF NoneMoved
  <1>8. CallTyped(e, p)
    BY <1>2, <1>3, Zenon DEF CallTyped, StepOf, IsAnswer
  <1>9. NoneMoved(cs)
    <2>1. ~Moved(c)
      BY Zenon DEF Moved
    <2>2. \A d \in cs : d # c => d.op \notin Transition
      BY <1>1, Zenon DEF Ordered
    <2> QED BY <2>1, <2>2, Zenon DEF NoneMoved, Moved
  <1>10. c.op \in Mutation /\ c.was # c.target => p.thread \in {None, b}
    <2>1. p.thread \in {None, a}
      BY <1>1, <1>9, Zenon DEF ShowsLive
    <2>2. c.op \in Mutation => c.was \in {None, a} /\ (c.was = None => p.thread = None)
      BY <1>2, Zenon DEF Tells
    <2> QED BY <2>1, <2>2, Zenon
  <1>11. Tells(e, p, ds, b)
    <2>1. e.op \notin {"rename", "context", "prompt", "bootstrap", "list"}
      BY <1>4, Zenon DEF Transition
    <2> QED BY <1>3, <1>10, <2>1, Zenon DEF Tells
  <1>12. ASSUME NEW d \in cs, d # c PROVE CallTyped(d, p) /\ Tells(d, p, ds, b)
    <2>1. CallTyped(d, p) /\ Tells(d, p, cs, a)
      BY Zenon DEF Live
    <2>2. d.op \notin Transition /\ (d.op = "bootstrap" => d.epoch # p.epoch)
      BY <1>1, <1>12, Zenon DEF Ordered
    <2>3. d.op \notin {"rename", "context"} /\ ~(d.op = "prompt" /\ d.step = "fetched")
      BY <1>1, Zenon DEF Apart, Unordered
    <2>4. d.op \notin Mutation /\ d.op \notin {"switch", "create"}
      BY <2>2, MutationsAreTransitions, Zenon DEF Transition
    <2> QED BY <1>7, <2>1, <2>2, <2>3, <2>4, Zenon DEF Tells
  <1>13. ShowsLive(p, ds, b)
    BY <1>7, Zenon DEF ShowsLive
  <1> QED BY <1>1, <1>6, <1>8, <1>11, <1>12, <1>13, Zenon DEF Live

LEMMA AnswerIs ==
  ASSUME ListInv, NEW c \in calls, NEW step, NEW got, Answer(c, step, got)
  PROVE  \E e : Answered(c, e, step, got) /\ calls' = (calls \ {c}) \cup {e}
  <1>1. IsCall(c)
    BY InFlight, Zenon
  <1> QED BY <1>1, AnswerFields, Zenon DEF Answer, Becomes

(* The request is refused or lost on its way: the backend stays.           *)
LEMMA RefusedLive ==
  ASSUME ListInv, NEW a, Live(panel, calls, a), NEW c \in calls, NEW step,
         \/ c.step = "sent" /\ step = "answered"
         \/ c.step = "fetch" /\ step = "fetched"
         \/ c.step \in {"answered", "fetched", "relisted"} /\ step = c.step /\ c.op \notin Transition,
         Answer(c, step, NoAnswer)
  PROVE  Live(panel, calls', a)
  <1>1. PICK e : Answered(c, e, step, NoAnswer) /\ calls' = (calls \ {c}) \cup {e}
    BY AnswerIs, Zenon
  <1>2. e.op = c.op /\ e.epoch = c.epoch /\ e.step = step /\ e.got = NoAnswer /\ e.target = c.target
    BY <1>1, Zenon DEF Answered
  <1>3. CallTyped(c, panel) /\ Tells(c, panel, calls, a)
    BY Zenon DEF Live
  <1>4. CallTyped(e, panel)
    <2>1. StepOf(e.op, e.step)
      BY <1>2, <1>3, Zenon DEF CallTyped, StepOf
    <2> QED BY <1>2, <1>3, <2>1, NoAnswerTyped, Zenon DEF CallTyped
  <1>5. ~Moved(c) /\ ~Moved(e) /\ ~e.got.ok
    BY <1>2, NoAnswerTyped, Zenon DEF Moved
  <1>6. step \in {"answered", "fetched"}
    BY <1>3, MutationsAreTransitions, Zenon DEF CallTyped, StepOf
  <1>7. Tells(e, panel, calls', a)
    BY <1>2, <1>3, <1>5, <1>6, Zenon DEF Tells
  <1>8. e.op = "prompt" /\ e.step \in {"fetch", "fetched"} => c.step \in {"fetch", "fetched"}
    BY <1>2, Zenon
  <1> QED BY <1>1, <1>2, <1>4, <1>5, <1>7, <1>8, AnswerLive, Zenon DEF ListInv

LEMMA CreateLive ==
  ASSUME ListInv, Live(panel, calls, backend.active), IsBackend(backend), NEW c \in calls,
         CreateConversation(c)
  PROVE  Live(panel, calls', backend'.active) /\ IsBackend(backend')
  <1> DEFINE got == Snapshot(Fresh, backend')
  <1>1. backend'.active = Fresh /\ IsBackend(backend')
    BY Zenon DEF CreateConversation, Created, IsBackend, BackendField
  <1>2. c.op = "create" /\ c.step = "sent" /\ Answer(c, "answered", got)
    BY Zenon DEF CreateConversation
  <1>3. IsAnswer(got) /\ got.ok = TRUE /\ got.conv = backend'.active
    BY <1>1, SnapshotFields, Zenon
  <1> HIDE DEF got
  <1>4. PICK e : Answered(c, e, "answered", got) /\ calls' = (calls \ {c}) \cup {e}
    BY <1>2, AnswerIs, Zenon
  <1>5. c.op \in Transition /\ c.op \notin Mutation
    BY <1>2, Zenon DEF Transition, Mutation
  <1> QED BY <1>1, <1>2, <1>3, <1>4, <1>5, TransitionLive, Zenon

LEMMA ActivateLive ==
  ASSUME ListInv, Live(panel, calls, backend.active), IsBackend(backend), NEW c \in calls,
         ActivateConversation(c)
  PROVE  Live(panel, calls', backend'.active) /\ IsBackend(backend')
  <1>1. c.op = "switch" /\ c.step = "sent"
    BY Zenon DEF ActivateConversation
  <1>2. CASE Exists(c.target)
    <2> DEFINE got == Snapshot(c.target, backend')
    <2>1. backend'.active = c.target /\ IsBackend(backend')
      BY <1>2, Zenon DEF ActivateConversation, IsBackend, BackendField
    <2>2. Answer(c, "answered", got)
      BY <1>2, Zenon DEF ActivateConversation
    <2>3. IsAnswer(got) /\ got.ok = TRUE /\ got.conv = backend'.active
      BY <2>1, SnapshotFields, Zenon
    <2> HIDE DEF got
    <2>4. PICK e : Answered(c, e, "answered", got) /\ calls' = (calls \ {c}) \cup {e}
      BY <2>2, AnswerIs, Zenon
    <2>5. c.op \in Transition /\ c.op \notin Mutation
      BY <1>1, Zenon DEF Transition, Mutation
    <2> QED BY <1>1, <2>1, <2>3, <2>4, <2>5, TransitionLive, Zenon
  <1>3. CASE ~Exists(c.target)
    <2>1. backend' = backend /\ Answer(c, "answered", NoAnswer)
      BY <1>3, Zenon DEF ActivateConversation
    <2> QED BY <1>1, <2>1, RefusedLive, Zenon
  <1> QED BY <1>2, <1>3, Zenon

(* A mutation that the backend carries out.                                *)
LEMMA MutationLive ==
  ASSUME ListInv, Live(panel, calls, backend.active), NEW c \in calls,
         c.op \in Mutation, c.step = "sent", NEW conv, NEW b,
         Answer(c, "answered", Snapshot(conv, b)), NEW x,
         c.was = c.target => conv = x, c.target = backend.active \/ x = backend.active
  PROVE  Live(panel, calls', x)
  <1> DEFINE got == Snapshot(conv, b)
  <1>1. IsAnswer(got) /\ got.ok = TRUE /\ got.conv = conv
    BY SnapshotFields, Zenon
  <1>2. PICK e : Answered(c, e, "answered", got) /\ calls' = (calls \ {c}) \cup {e}
    BY AnswerIs, Zenon
  <1> HIDE DEF got
  <1>3. c.op \in Transition /\ c.op \notin {"switch", "create"}
    BY Zenon DEF Transition, Mutation
  <1> QED BY <1>1, <1>2, <1>3, TransitionLive, Zenon

LEMMA SuccessorKeepsOthers ==
  ASSUME NEW b, IsBackend(b), NEW x, NEW candidates, NEW d \in Successor(b, x, candidates)
  PROVE  IsBackend(d) /\ (b.active = x \/ d.active = b.active)
  BY Zenon DEF Successor, Created, IsBackend, BackendField

LEMMA DeleteLive ==
  ASSUME ListInv, Live(panel, calls, backend.active), IsBackend(backend), NEW c \in calls,
         DeleteConversation(c)
  PROVE  Live(panel, calls', backend'.active) /\ IsBackend(backend')
  <1>1. c.op \in Mutation /\ c.step = "sent"
    BY Zenon DEF DeleteConversation, Mutation
  <1>2. CASE Exists(c.target) /\ Answer(c, "answered", Snapshot(backend'.active, backend'))
                              /\ \E candidates : backend' \in Successor([backend EXCEPT
                                     !.recent = @ \ {c.target}, !.archived = @ \ {c.target}],
                                     c.target, candidates)
    <2> DEFINE rest == [backend EXCEPT !.recent = @ \ {c.target}, !.archived = @ \ {c.target}]
    <2>1. IsBackend(rest) /\ rest.active = backend.active
      BY Zenon DEF IsBackend, BackendField
    <2> HIDE DEF rest
    <2>2. \E candidates : backend' \in Successor(rest, c.target, candidates)
      BY <1>2, Zenon DEF rest
    <2>3. IsBackend(backend') /\ (c.target = backend.active \/ backend'.active = backend.active)
      BY <2>1, <2>2, SuccessorKeepsOthers
    <2> QED BY <1>1, <1>2, <2>3, MutationLive, Zenon
  <1>3. CASE Answer(c, "answered", NoAnswer) /\ backend' = backend
    BY <1>1, <1>3, RefusedLive, Zenon
  <1> QED BY <1>2, <1>3, Zenon DEF DeleteConversation

LEMMA ArchiveLive ==
  ASSUME ListInv, Live(panel, calls, backend.active), IsBackend(backend), NEW c \in calls,
         ArchiveConversation(c)
  PROVE  Live(panel, calls', backend'.active) /\ IsBackend(backend')
  <1>1. c.op \in Mutation /\ c.step = "sent"
    BY Zenon DEF ArchiveConversation, Mutation
  <1>2. CASE Answer(c, "answered", Snapshot(backend'.active, backend'))
             /\ \E candidates : backend' \in Successor([backend EXCEPT
                    !.recent = @ \ {c.target}, !.archived = @ \cup {c.target}],
                    c.target, candidates)
    <2> DEFINE rest == [backend EXCEPT !.recent = @ \ {c.target}, !.archived = @ \cup {c.target}]
    <2>1. IsBackend(rest) /\ rest.active = backend.active
      BY Zenon DEF IsBackend, BackendField
    <2> HIDE DEF rest
    <2>2. \E candidates : backend' \in Successor(rest, c.target, candidates)
      BY <1>2, Zenon DEF rest
    <2>3. IsBackend(backend') /\ (c.target = backend.active \/ backend'.active = backend.active)
      BY <2>1, <2>2, SuccessorKeepsOthers
    <2> QED BY <1>1, <1>2, <2>3, MutationLive, Zenon
  <1>3. CASE Answer(c, "answered", Snapshot(backend.active, backend)) /\ backend' = backend
    BY <1>1, <1>3, MutationLive, Zenon
  <1>4. CASE Answer(c, "answered", NoAnswer) /\ backend' = backend
    BY <1>1, <1>4, RefusedLive, Zenon
  <1> QED BY <1>2, <1>3, <1>4, Zenon DEF ArchiveConversation

LEMMA RestoreLive ==
  ASSUME ListInv, Live(panel, calls, backend.active), IsBackend(backend), NEW c \in calls,
         RestoreConversation(c)
  PROVE  Live(panel, calls', backend'.active) /\ IsBackend(backend')
  <1>1. c.op \in Mutation /\ c.step = "sent"
    BY Zenon DEF RestoreConversation, Mutation
  <1>2. CASE /\ backend' = [backend EXCEPT !.recent = @ \cup {c.target}, !.archived = @ \ {c.target}]
             /\ Answer(c, "answered", Snapshot(c.target, backend'))
    <2>1. IsBackend(backend') /\ backend'.active = backend.active
      BY <1>2, Zenon DEF IsBackend, BackendField
    <2>2. c.was = c.target => c.target = backend.active
      <3>1. c.was \in {None, backend.active} /\ c.target # None
        BY <1>1, Zenon DEF Live, Tells
      <3> QED BY <3>1, Zenon
    <2> QED BY <1>1, <1>2, <2>1, <2>2, MutationLive, Zenon
  <1>3. CASE Answer(c, "answered", NoAnswer) /\ backend' = backend
    BY <1>1, <1>3, RefusedLive, Zenon
  <1> QED BY <1>2, <1>3, Zenon DEF RestoreConversation

LEMMA UpdateLive ==
  ASSUME ListInv, NEW a, Live(panel, calls, a), NEW c \in calls, UpdateConversation(c)
  PROVE  Live(panel, calls', a)
  <1>1. c.op \in {"rename", "context"} /\ c.step = "sent"
    BY Zenon DEF UpdateConversation
  <1>2. CASE Exists(c.target)
    <2> DEFINE got == Snapshot(c.target, backend)
    <2>1. Answer(c, "answered", got)
      BY <1>2, Zenon DEF UpdateConversation
    <2>2. CallTyped(c, panel) /\ c.target = a
      BY <1>1, Zenon DEF Live, Tells
    <2>3. IsAnswer(got) /\ got.conv = a
      BY <2>2, SnapshotFields, Zenon
    <2> HIDE DEF got
    <2>4. PICK e : Answered(c, e, "answered", got) /\ calls' = (calls \ {c}) \cup {e}
      BY <2>1, AnswerIs, Zenon
    <2>5. /\ e.op = c.op /\ e.epoch = c.epoch /\ e.step = "answered" /\ e.got = got
          /\ e.target = c.target
      BY <2>4, Zenon DEF Answered
    <2>6. CallTyped(e, panel)
      BY <1>1, <2>2, <2>3, <2>5, Zenon DEF CallTyped, StepOf, IsAnswer
    <2>7. Tells(e, panel, calls', a) /\ ~Moved(c) /\ e.op # "prompt"
      BY <1>1, <2>2, <2>3, <2>5, Zenon DEF Tells, Moved, Mutation, Transition
    <2> QED BY <2>4, <2>5, <2>6, <2>7, AnswerLive, Zenon DEF ListInv
  <1>3. CASE ~Exists(c.target)
    <2>1. Answer(c, "answered", NoAnswer)
      BY <1>3, Zenon DEF UpdateConversation
    <2> QED BY <1>1, <2>1, RefusedLive, Zenon
  <1> QED BY <1>2, <1>3, Zenon

LEMMA ListingLive ==
  ASSUME ListInv, Live(panel, calls, backend.active), NEW c \in calls, ListConversations(c)
  PROVE  Live(panel, calls', backend.active)
  <1> DEFINE a == backend.active
             next == IF c.op = "list" THEN "answered" ELSE "relisted"
             got == [c.got EXCEPT !.ok = TRUE, !.list = Listed(c.scope),
                                  !.archived = backend.archived, !.active = backend.active]
  <1>1. /\ c.step = "relist" \/ (c.op = "list" /\ c.step = "sent")
        /\ Answer(c, next, got)
    BY Zenon DEF ListConversations
  <1>2. CallTyped(c, panel) /\ Tells(c, panel, calls, a)
    BY Zenon DEF Live
  <1>3. IsAnswer(c.got)
    BY <1>2, Zenon DEF CallTyped, IsAnswer
  <1>4. IsAnswer(got) /\ got.ok = TRUE /\ got.conv = c.got.conv /\ got.active = a
    BY <1>3, Zenon DEF IsAnswer, AnswerField
  <1>5. \/ c.op = "list" /\ c.step = "sent" /\ next = "answered"
        \/ c.op \in Mutation /\ c.step = "relist" /\ next = "relisted" /\ Moved(c)
    <2>1. c.step = "relist" => c.op \in Mutation
      BY <1>2, Zenon DEF CallTyped, StepOf
    <2>2. c.step = "relist" => c.got.ok
      BY <1>2, Zenon DEF Tells
    <2>3. c.op \in Mutation => c.op # "list" /\ c.op \in Transition
      BY Zenon DEF Mutation, Transition
    <2> QED BY <1>1, <2>1, <2>2, <2>3, Zenon DEF Moved
  <1> HIDE DEF next, got
  <1>6. PICK e : Answered(c, e, next, got) /\ calls' = (calls \ {c}) \cup {e}
    BY <1>1, AnswerIs, Zenon
  <1>7. /\ e.op = c.op /\ e.epoch = c.epoch /\ e.step = next /\ e.got = got
        /\ e.was = c.was /\ e.target = c.target
    BY <1>6, Zenon DEF Answered
  <1>8. CallTyped(e, panel)
    BY <1>2, <1>4, <1>5, <1>7, Zenon DEF CallTyped, StepOf, IsAnswer
  <1>9. CASE c.op = "list"
    <2>1. c.op \notin Transition /\ c.op \notin Mutation
      BY <1>9, Zenon DEF Transition, Mutation
    <2>2. ~Moved(c) /\ e.op # "prompt" /\ next = "answered"
      BY <1>5, <1>7, <1>9, <2>1, Zenon DEF Moved
    <2>3. Tells(e, panel, calls', a)
      BY <1>4, <1>7, <1>9, <2>1, <2>2, Zenon DEF Tells
    <2> QED BY <1>6, <1>7, <1>8, <2>2, <2>3, AnswerLive, Zenon DEF ListInv
  <1>10. CASE c.op \in Mutation
    <2>1. c.op \in Transition /\ c.op \notin {"switch", "create", "rename", "context", "prompt", "bootstrap", "list"}
      BY <1>10, Zenon DEF Transition, Mutation
    <2>2. Moved(c) /\ next = "relisted"
      BY <1>5, <2>1, Zenon
    <2>3. Moved(e)
      BY <1>4, <1>7, <2>1, <2>2, Zenon DEF Moved
    <2>4. Tells(e, panel, calls', a)
      BY <1>2, <1>4, <1>7, <1>10, <2>1, <2>2, Zenon DEF Tells
    <2> QED BY <1>6, <1>7, <1>8, <2>1, <2>3, <2>4, AnswerLive, Zenon DEF ListInv
  <1> QED BY <1>5, <1>9, <1>10, Zenon

LEMMA FetchLive ==
  ASSUME ListInv, Live(panel, calls, backend.active), NEW c \in calls, FetchConversation(c)
  PROVE  Live(panel, calls', backend.active)
  <1> DEFINE a == backend.active
             next == IF c.op = "bootstrap" THEN "answered" ELSE "fetched"
             got == [Snapshot(backend.active, backend) EXCEPT !.provider = backend.provider]
  <1>1. /\ c.step = "fetch" \/ (c.op = "bootstrap" /\ c.step = "sent")
        /\ Answer(c, next, got)
    BY Zenon DEF FetchConversation
  <1>2. CallTyped(c, panel) /\ Tells(c, panel, calls, a)
    BY Zenon DEF Live
  <1>3. IsAnswer(got) /\ got.conv = a
    BY SnapshotFields, Zenon
  <1>4. \/ c.op = "bootstrap" /\ c.step = "sent" /\ next = "answered"
        \/ c.op \in {"context", "prompt"} /\ c.step = "fetch" /\ next = "fetched"
    BY <1>1, <1>2, Zenon DEF CallTyped, StepOf
  <1> HIDE DEF next, got
  <1>5. PICK e : Answered(c, e, next, got) /\ calls' = (calls \ {c}) \cup {e}
    BY <1>1, AnswerIs, Zenon
  <1>6. e.op = c.op /\ e.epoch = c.epoch /\ e.step = next /\ e.got = got
    BY <1>5, Zenon DEF Answered
  <1>7. CallTyped(e, panel)
    BY <1>2, <1>3, <1>4, <1>6, Zenon DEF CallTyped, StepOf, IsAnswer
  <1>8. c.op \notin Transition /\ c.op \notin Mutation
    BY <1>4, Zenon DEF Transition, Mutation
  <1>9. Tells(e, panel, calls', a) /\ ~Moved(c)
    BY <1>3, <1>4, <1>6, <1>8, Zenon DEF Tells, Moved
  <1>10. e.op = "prompt" /\ e.step \in {"fetch", "fetched"} => c.step \in {"fetch", "fetched"}
    BY <1>4, <1>6, Zenon
  <1> QED BY <1>5, <1>6, <1>7, <1>9, <1>10, AnswerLive, Zenon DEF ListInv

(* Neither a provider's answer nor the stream of a prompt shows a          *)
(* conversation.                                                           *)
LEMMA PlainAnswerLive ==
  ASSUME ListInv, NEW a, Live(panel, calls, a), NEW c \in calls,
         c.op \in {"provider", "prompt"}, c.step = "sent", NEW got, IsAnswer(got),
         Answer(c, "answered", got)
  PROVE  Live(panel, calls', a)
  <1>1. PICK e : Answered(c, e, "answered", got) /\ calls' = (calls \ {c}) \cup {e}
    BY AnswerIs, Zenon
  <1>2. e.op = c.op /\ e.epoch = c.epoch /\ e.step = "answered" /\ e.got = got
    BY <1>1, Zenon DEF Answered
  <1>3. CallTyped(e, panel)
    <2>1. CallTyped(c, panel)
      BY Zenon DEF Live
    <2> QED BY <1>2, <2>1, Zenon DEF CallTyped, StepOf, IsAnswer
  <1>4. Tells(e, panel, calls', a) /\ ~Moved(c)
    BY <1>2, Zenon DEF Tells, Moved, Mutation, Transition
  <1> QED BY <1>1, <1>2, <1>3, <1>4, AnswerLive, Zenon DEF ListInv

LEMMA BackendLive ==
  ASSUME ListInv, LiveInv, Backend, ~missed'
  PROVE  Live(panel', calls', backend'.active) /\ IsBackend(backend')
  <1>1. PICK c \in calls :
          \/ /\ \/ CreateConversation(c) \/ ActivateConversation(c) \/ UpdateConversation(c)
                \/ DeleteConversation(c) \/ ArchiveConversation(c) \/ RestoreConversation(c)
                \/ ListConversations(c) \/ FetchConversation(c) \/ ActivateProvider(c) \/ StreamPrompt(c)
             /\ panel' = panel /\ missed' = missed
          \/ (RequestFails(c) \/ ResponseLost(c)) /\ panel' = panel
    BY Zenon DEF Backend
  <1>2. panel' = panel /\ Live(panel, calls, backend.active) /\ IsBackend(backend)
    BY <1>1, Zenon DEF LiveInv, RequestFails, ResponseLost
  <1>3. CASE CreateConversation(c) \/ ActivateConversation(c) \/ DeleteConversation(c)
             \/ ArchiveConversation(c) \/ RestoreConversation(c)
    BY <1>2, <1>3, CreateLive, ActivateLive, DeleteLive, ArchiveLive, RestoreLive, Zenon
  <1>4. CASE UpdateConversation(c)
    BY <1>2, <1>4, UpdateLive, Zenon DEF UpdateConversation
  <1>5. CASE ListConversations(c)
    BY <1>2, <1>5, ListingLive, Zenon DEF ListConversations
  <1>6. CASE FetchConversation(c)
    BY <1>2, <1>6, FetchLive, Zenon DEF FetchConversation
  <1>7. CASE ActivateProvider(c)
    <2> DEFINE got == [NoAnswer EXCEPT !.ok = TRUE, !.provider = c.target]
    <2>1. c.op = "provider" /\ c.step = "sent" /\ Answer(c, "answered", got)
      BY <1>7, Zenon DEF ActivateProvider
    <2>2. IsAnswer(got)
      BY Zenon DEF IsAnswer, NoAnswer, AnswerField
    <2> HIDE DEF got
    <2>3. backend'.active = backend.active /\ IsBackend(backend')
      BY <1>2, <1>7, Zenon DEF ActivateProvider, IsBackend, BackendField
    <2> QED BY <1>2, <2>1, <2>2, <2>3, PlainAnswerLive, Zenon
  <1>8. CASE StreamPrompt(c)
    <2> DEFINE got == Snapshot(backend.active, backend)
    <2>1. c.op = "prompt" /\ c.step = "sent" /\ Answer(c, "answered", got) /\ backend' = backend
      BY <1>8, Zenon DEF StreamPrompt
    <2>2. IsAnswer(got)
      BY SnapshotFields, Zenon
    <2> HIDE DEF got
    <2> QED BY <1>2, <2>1, <2>2, PlainAnswerLive, Zenon
  <1>9. CASE RequestFails(c)
    <2>1. c.step \in {"sent", "fetch"} /\ Answer(c, After(c.step), NoAnswer) /\ backend' = backend
      BY <1>9, Zenon DEF RequestFails
    <2>2. After("sent") = "answered" /\ After("fetch") = "fetched"
      BY Zenon DEF After
    <2> QED BY <1>2, <2>1, <2>2, RefusedLive, Zenon
  <1>10. CASE ResponseLost(c)
    <2>1. /\ c.step \in {"answered", "fetched", "relisted"} /\ c.op \notin Transition
          /\ Answer(c, c.step, NoAnswer) /\ backend' = backend
      BY <1>10, Zenon DEF ResponseLost
    <2> QED BY <1>2, <2>1, RefusedLive, Zenon
  <1> QED BY <1>1, <1>3, <1>4, <1>5, <1>6, <1>7, <1>8, <1>9, <1>10, Zenon

-----------------------------------------------------------------------------
(* The continuations.  A call is over that the backend did nothing for, or *)
(* whose outcome the panel already shows.                                  *)
LEMMA OverLive ==
  ASSUME NEW p, NEW q, NEW cs, NEW a, Exact(p, cs), Live(p, cs, a), NEW c \in cs, ~Moved(c),
         Views(q, p.thread, p.activeID, p.epoch, q.pending), q.listNonce = p.listNonce,
         q.pending = p.pending \/ (\A d \in cs \ {c} : d.op \notin Transition)
  PROVE  Live(q, cs \ {c}, a)
  <1> DEFINE ds == cs \ {c}
  <1>1. Ordered(p, cs) /\ ShowsLive(p, cs, a)
    BY Zenon DEF Live
  <1>2. Ordered(q, ds)
    <2>1. CASE q.pending = p.pending
      BY <1>1, <2>1, Zenon DEF Ordered, Views
    <2>2. CASE \A d \in ds : d.op \notin Transition
      BY <2>2, IdleIsOrdered, Zenon
    <2> QED BY <2>1, <2>2, Zenon
  <1>3. NoneMoved(ds) => NoneMoved(cs)
    BY Zenon DEF NoneMoved
  <1>4. ShowsLive(q, ds, a)
    BY <1>1, <1>3, Zenon DEF ShowsLive, Views
  <1>5. Moves(p, q, cs, ds, a)
    BY <1>2, <1>3, <1>4, Zenon DEF Moves, Views
  <1> QED BY <1>5, MovesKeep, Zenon

(* The panel turns to the active conversation while no transition is in    *)
(* flight.                                                                 *)
LEMMA ShownLive ==
  ASSUME NEW p, NEW q, NEW cs, NEW ds, NEW a, Exact(p, cs), Live(p, cs, a),
         \A c \in cs : c.op \notin Transition,
         q.thread = a, q.activeID = a, q.epoch = p.epoch,
         q.listNonce = p.listNonce \/ q.listNonce = p.listNonce + 1,
         \A d \in ds : \/ d \in cs
                       \/ d.op \notin Transition /\ CallTyped(d, q) /\ Tells(d, q, ds, a)
  PROVE  Live(q, ds, a)
  <1>1. \A d \in ds : d.op \notin Transition
    OBVIOUS
  <1>2. Ordered(q, ds) /\ NoneMoved(cs)
    BY <1>1, IdleIsOrdered, Zenon
  <1>3. ShowsLive(q, ds, a)
    BY Zenon DEF ShowsLive
  <1>4. Settles(p, q, cs, ds, a)
    BY <1>1, <1>2, <1>3, Zenon DEF Settles
  <1> QED BY <1>4, SettlesKeep, Zenon

(* What is known of a call in flight.                                      *)
LEMMA LiveCall ==
  ASSUME NEW a, Live(panel, calls, a), NEW c \in calls
  PROVE  /\ StepOf(c.op, c.step) /\ Tells(c, panel, calls, a) /\ CallTyped(c, panel)
         /\ Apart(calls)
         /\ c.op \in Transition =>
               c.epoch = panel.epoch /\ \A d \in calls \ {c} : d.op \notin Transition
  BY Zenon DEF Live, CallTyped, Ordered, Apart

(* A transition ends: it failed, or the panel followed it before.          *)
LEMMA TransitionOver ==
  ASSUME ListInv, NEW a, Live(panel, calls, a), NEW c \in calls, c.op \in Transition, ~Moved(c),
         panel' = Settled(panel), Done(c)
  PROVE  Live(panel', calls', a)
  <1>1. Views(panel', panel.thread, panel.activeID, panel.epoch, panel'.pending)
    <2>1. Views(panel', panel.thread, panel.activeID, panel.epoch, FALSE)
      BY InFlight, HelperViews, Zenon
    <2> QED BY <2>1, Zenon DEF Views
  <1>2. panel'.listNonce = panel.listNonce
    BY InFlight, PanelHelpers, Zenon DEF SameList
  <1>3. \A d \in calls \ {c} : d.op \notin Transition
    BY LiveCall, Zenon
  <1>4. Live(panel', calls \ {c}, a)
    BY <1>1, <1>2, <1>3, OverLive, Zenon DEF ListInv
  <1> QED BY <1>4, Zenon DEF Done

LEMMA TransitionReceivedLive ==
  ASSUME ListInv, NEW a, Live(panel, calls, a), NEW c \in calls, ReceiveTransition(c), Apart(calls')
  PROVE  Live(panel', calls', a)
  <1>1. c.op \in {"switch", "create"} /\ c.step = "answered" /\ c.op \in Transition
    BY Zenon DEF ReceiveTransition, Transition
  <1>2. Tells(c, panel, calls, a) /\ CallTyped(c, panel) /\ c.epoch = panel.epoch
    BY <1>1, LiveCall, Zenon
  <1>3. CASE c.got.ok
    <2> DEFINE k == applyConversationSnapshot(panel, c.got)
               l == ListCall(panel', c.scope)
               d == [c EXCEPT !.step = "listing"]
               e == [d EXCEPT !.list = panel'.listNonce]
    <2>1. panel' = BeginRefresh(k) /\ calls' = (calls \ {c}) \cup {l} \cup {e}
      BY <1>2, <1>3, Zenon DEF ReceiveTransition, ApplyAndRefresh
    <2>2. c.got.conv = a
      BY <1>1, <1>2, <1>3, Zenon DEF Tells, Moved
    <2>3. Views(k, a, a, panel.epoch, panel.pending) /\ IsPanel(k) /\ k.listNonce = panel.listNonce
      BY <2>2, InFlight, PanelHelpers, HelperViews, Zenon DEF SameList
    <2> HIDE DEF k
    <2>4. Views(panel', a, a, panel.epoch, panel.pending) /\ panel'.listNonce = panel.listNonce + 1
      BY <2>1, <2>3, RefreshViews, Zenon
    <2>5. e.op = c.op /\ e.epoch = c.epoch /\ e.step = "listing" /\ e.got = c.got
      <3>1. IsCall(c)
        BY InFlight, Zenon
      <3> QED BY <3>1, Zenon DEF IsCall, CallField
    <2>6. panel'.epoch = panel.epoch /\ panel'.epoch \in Nat
      BY <2>4, Zenon DEF Views, Live
    <2>7. l.op = "list" /\ l.step = "sent" /\ CallTyped(l, panel')
      BY <2>6, ListFields, Zenon
    <2> HIDE DEF d, e, l
    <2>8. Tells(l, panel', calls', a)
      BY <2>7, SentTells, Zenon DEF Mutation
    <2>9. CallTyped(e, panel')
      BY <1>1, <1>2, <2>5, <2>6, Zenon DEF CallTyped, StepOf
    <2>10. Tells(e, panel', calls', a)
      BY <1>1, <2>5, Zenon DEF Tells, Moved, Mutation
    <2>11. Ordered(panel', calls')
      <3>1. l.op \notin Transition /\ l.op # "bootstrap"
        BY <2>7, Zenon DEF Transition
      <3>2. Ordered(panel, calls) /\ panel'.pending = panel.pending
        BY <2>4, Zenon DEF Live, Views
      <3>3. \A x \in calls' : \/ x \in calls /\ x # c
                              \/ x = e
                              \/ x.op \notin Transition /\ x.op # "bootstrap"
        BY <2>1, <3>1, Zenon
      <3> QED BY <2>5, <2>6, <3>2, <3>3, OrderedBecomes
    <2>12. \A x \in calls' : x.op \in Transition => x.step = "listing"
      <3>1. \A x \in calls \ {c} : x.op \notin Transition
        BY <1>1, LiveCall, Zenon
      <3> QED BY <2>1, <2>5, <2>7, <3>1, Zenon DEF Transition
    <2>13. ShowsLive(panel', calls', a)
      BY <2>4, Zenon DEF ShowsLive, Views
    <2>14. Settles(panel, panel', calls, calls', a)
      BY <2>1, <2>4, <2>6, <2>7, <2>8, <2>9, <2>10, <2>11, <2>12, <2>13, Zenon DEF Settles
    <2> QED BY <2>14, SettlesKeep, Zenon DEF ListInv
  <1>4. CASE ~c.got.ok
    <2>1. panel' = Settled(panel) /\ Done(c) /\ ~Moved(c)
      BY <1>4, Zenon DEF ReceiveTransition, Moved
    <2> QED BY <1>1, <2>1, TransitionOver, Zenon
  <1> QED BY <1>3, <1>4, Zenon

LEMMA TransitionFinishedLive ==
  ASSUME ListInv, NEW a, Live(panel, calls, a), NEW c \in calls, FinishTransition(c)
  PROVE  Live(panel', calls', a)
  <1>1. c.op \in Transition /\ ~Moved(c)
    BY LiveCall, Zenon DEF FinishTransition, StepOf, Transition, Moved
  <1> QED BY <1>1, TransitionOver, Zenon DEF FinishTransition

LEMMA MutationReceivedLive ==
  ASSUME ListInv, NEW a, Live(panel, calls, a), NEW c \in calls, ReceiveMutation(c)
  PROVE  Live(panel', calls', a)
  <1>1. c.op \in Mutation /\ c.step = "answered" /\ c.op \in Transition
    BY MutationsAreTransitions, Zenon DEF ReceiveMutation
  <1>2. CASE c.got.ok
    <2> DEFINE e == [c EXCEPT !.step = "relist"]
    <2>1. calls' = (calls \ {c}) \cup {e} /\ panel' = panel
      BY <1>2, Zenon DEF ReceiveMutation, Becomes
    <2>2. Answered(c, e, "relist", c.got)
      <3>1. IsCall(c)
        BY InFlight, Zenon
      <3> QED BY <3>1, Zenon DEF IsCall, CallField, Answered
    <2> HIDE DEF e
    <2>3. /\ e.op = c.op /\ e.epoch = c.epoch /\ e.step = "relist" /\ e.got = c.got
          /\ e.was = c.was /\ e.target = c.target
      BY <2>2, Zenon DEF Answered
    <2>4. CallTyped(c, panel) /\ Tells(c, panel, calls, a)
      BY LiveCall, Zenon
    <2>5. CallTyped(e, panel)
      BY <1>1, <2>3, <2>4, Zenon DEF CallTyped, StepOf
    <2>6. Moved(c) /\ Moved(e)
      BY <1>1, <1>2, <2>3, Zenon DEF Moved
    <2>7. e.op \notin {"switch", "create", "rename", "context", "prompt", "bootstrap", "list"}
      BY <1>1, <2>3, Zenon DEF Mutation
    <2>8. Tells(e, panel, calls', a)
      BY <1>1, <1>2, <2>3, <2>4, <2>6, <2>7, Zenon DEF Tells
    <2> QED BY <2>1, <2>3, <2>5, <2>6, <2>7, <2>8, AnswerLive, Zenon DEF ListInv
  <1>3. CASE ~c.got.ok
    <2>1. panel' = Settled(panel) /\ Done(c) /\ ~Moved(c)
      BY <1>3, Zenon DEF ReceiveMutation, Moved
    <2> QED BY <1>1, <2>1, TransitionOver, Zenon
  <1> QED BY <1>2, <1>3, Zenon

LEMMA MutationFinishedLive ==
  ASSUME ListInv, NEW a, Live(panel, calls, a), NEW c \in calls, FinishMutation(c)
  PROVE  Live(panel', calls', a)
  <1> DEFINE k == IF c.was = c.target THEN applyConversationSnapshot(panel, c.got) ELSE panel
             m == setConversations(k, c.got)
  <1>1. c.step = "relisted" /\ calls' = calls \ {c}
    BY Zenon DEF FinishMutation, Done
  <1>2. c.op \in Mutation /\ c.op \in Transition /\ c.got.ok /\ Moved(c)
    <2>1. c.op \in Mutation /\ c.got.ok
      BY <1>1, LiveCall, Zenon DEF StepOf, Tells
    <2> QED BY <1>1, <2>1, MutationsAreTransitions, Zenon DEF Moved
  <1>3. /\ c.was = c.target => c.got.conv = a
        /\ c.was # c.target => panel.thread \in {None, a}
        /\ c.got.active = a
    BY <1>1, <1>2, LiveCall, Zenon DEF Tells
  <1>4. panel' = Settled(m)
    <2>1. c.epoch = panel.epoch
      BY <1>2, LiveCall, Zenon
    <2> QED BY <1>2, <2>1, Zenon DEF FinishMutation
  <1>5. SameList(panel, k) /\ k.thread \in {None, a} /\ k.epoch = panel.epoch
    <2>1. CASE c.was = c.target
      BY <1>3, <2>1, InFlight, PanelHelpers, HelperViews, Zenon DEF Views
    <2>2. CASE c.was # c.target
      BY <1>3, <2>2, InFlight, Zenon
    <2> QED BY <2>1, <2>2, Zenon
  <1> HIDE DEF k
  <1>6. SameList(k, m) /\ Views(m, k.thread, a, k.epoch, k.pending)
    BY <1>3, <1>5, PanelHelpers, HelperViews, Zenon DEF SameList
  <1> HIDE DEF m
  <1>7. SameList(m, panel') /\ Views(panel', m.thread, m.activeID, m.epoch, FALSE)
    BY <1>4, <1>6, PanelHelpers, HelperViews, Zenon DEF SameList
  <1>8. /\ panel'.thread \in {None, a} /\ panel'.activeID = a /\ panel'.epoch = panel.epoch
        /\ panel'.listNonce = panel.listNonce
    BY <1>5, <1>6, <1>7, Zenon DEF SameList, Views
  <1>9. \A d \in calls' : d.op \notin Transition /\ d.op # "list"
    <2>1. \A d \in calls \ {c} : d.op \notin Transition
      BY <1>2, LiveCall, Zenon
    <2>2. \A d \in calls : ~Unordered(c, d)
      BY LiveCall, Zenon DEF Apart
    <2> QED BY <1>1, <1>2, <2>1, <2>2, Zenon DEF Unordered
  <1>10. Ordered(panel', calls')
    BY <1>9, IdleIsOrdered, Zenon
  <1>11. ShowsLive(panel', calls', a)
    BY <1>8, Zenon DEF ShowsLive
  <1>12. Settles(panel, panel', calls, calls', a)
    BY <1>1, <1>8, <1>9, <1>10, <1>11, Zenon DEF Settles
  <1> QED BY <1>12, SettlesKeep, Zenon DEF ListInv

LEMMA ListReceivedLive ==
  ASSUME ListInv, NEW a, Live(panel, calls, a), NEW c \in calls, ReceiveList(c)
  PROVE  Live(panel', calls', a)
  <1> DEFINE k == setConversations(panel, c.got)
             m == IF c.got.ok THEN k ELSE panel
             n == [m EXCEPT !.listPending = FALSE]
             ds == calls \ {c}
  <1>1. c.op = "list" /\ c.step = "answered" /\ calls' = ds
    BY Zenon DEF ReceiveList, Done
  <1>2. ~Moved(c)
    BY <1>1, Zenon DEF Moved, Transition
  <1>3. CASE c.list = panel.listNonce /\ c.got.ok
    <2>1. panel' = [k EXCEPT !.listPending = FALSE]
      BY <1>3, Zenon DEF ReceiveList
    <2>2. SameList(panel, k) /\ Views(k, panel.thread, c.got.active, panel.epoch, panel.pending)
      BY InFlight, PanelHelpers, HelperViews, Zenon
    <2> HIDE DEF k
    <2>3. /\ Views(panel', panel.thread, c.got.active, panel.epoch, panel.pending)
          /\ panel'.listNonce = panel.listNonce
      BY <2>1, <2>2, Zenon DEF SameList, IsPanel, PanelField, Views
    <2>4. NoneMoved(ds) => NoneMoved(calls)
      BY <1>2, Zenon DEF NoneMoved
    <2>5. NoneMoved(calls) => c.got.active = a
      BY <1>1, <1>3, LiveCall, Zenon DEF Tells
    <2>6. ShowsLive(panel', ds, a)
      BY <2>3, <2>4, <2>5, Zenon DEF Live, ShowsLive, Views
    <2>7. Ordered(panel', ds)
      BY <2>3, Zenon DEF Live, Ordered, Views
    <2>8. Moves(panel, panel', calls, ds, a)
      BY <2>3, <2>4, <2>6, <2>7, Zenon DEF Moves, Views
    <2> QED BY <1>1, <2>8, MovesKeep, Zenon DEF ListInv
  <1>4. CASE ~(c.list = panel.listNonce /\ c.got.ok)
    <2>1. panel' = panel \/ panel' = [panel EXCEPT !.listPending = FALSE]
      BY <1>4, Zenon DEF ReceiveList
    <2>2. /\ Views(panel', panel.thread, panel.activeID, panel.epoch, panel.pending)
          /\ panel'.listNonce = panel.listNonce
      BY <2>1, InFlight, Zenon DEF IsPanel, PanelField, Views
    <2> QED BY <1>1, <1>2, <2>2, OverLive, Zenon DEF ListInv, Views
  <1> QED BY <1>3, <1>4, Zenon

(* An answer that changes nothing the panel shows.                         *)
LEMMA PlainOver ==
  ASSUME ListInv, NEW a, Live(panel, calls, a), NEW c \in calls, c.op \notin Transition, Done(c),
         Views(panel', panel.thread, panel.activeID, panel.epoch, panel.pending),
         panel'.listNonce = panel.listNonce
  PROVE  Live(panel', calls', a)
  <1>1. ~Moved(c) /\ calls' = calls \ {c}
    BY Zenon DEF Moved, Done
  <1> QED BY <1>1, OverLive, Zenon DEF ListInv, Views

(* A snapshot of the active conversation is applied, and the call is over. *)
LEMMA PlainShown ==
  ASSUME ListInv, NEW a, Live(panel, calls, a), NEW c \in calls,
         \A d \in calls : d.op \notin Transition, Done(c), NEW pending,
         Views(panel', a, a, panel.epoch, pending), panel'.listNonce = panel.listNonce
  PROVE  Live(panel', calls', a)
  <1>1. calls' = calls \ {c}
    BY Zenon DEF Done
  <1> QED BY <1>1, ShownLive, Zenon DEF ListInv, Views

(* A snapshot of the active conversation is applied, and the list is read. *)
LEMMA ShownAndListed ==
  ASSUME ListInv, NEW a, Live(panel, calls, a), NEW c \in calls,
         \A d \in calls : d.op \notin Transition, NEW k, IsPanel(k), NEW pending,
         Views(k, a, a, panel.epoch, pending), k.listNonce = panel.listNonce,
         ApplyAndRefresh(c, k, {})
  PROVE  Live(panel', calls', a)
  <1> DEFINE l == ListCall(panel', c.scope)
  <1>1. panel' = BeginRefresh(k) /\ calls' = (calls \ {c}) \cup {l}
    BY Zenon DEF ApplyAndRefresh
  <1>2. Views(panel', a, a, panel.epoch, pending) /\ panel'.listNonce = panel.listNonce + 1
    BY <1>1, RefreshViews, Zenon
  <1>3. panel'.epoch \in Nat
    BY <1>2, Zenon DEF Views, Live
  <1>4. l.op = "list" /\ l.step = "sent" /\ CallTyped(l, panel')
    BY <1>3, ListFields, Zenon
  <1> HIDE DEF l
  <1>5. Tells(l, panel', calls', a) /\ l.op \notin Transition
    BY <1>4, SentTells, Zenon DEF Mutation, Transition
  <1> QED BY <1>1, <1>2, <1>4, <1>5, ShownLive, Zenon DEF ListInv, Views

LEMMA RenameReceivedLive ==
  ASSUME ListInv, NEW a, Live(panel, calls, a), NEW c \in calls, ReceiveRename(c)
  PROVE  Live(panel', calls', a)
  <1>1. c.op = "rename" /\ c.step = "answered"
    BY Zenon DEF ReceiveRename
  <1>2. \A d \in calls : d.op \notin Transition
    BY <1>1, LiveCall, UncheckedIsAlone, Zenon
  <1>3. CASE c.got.ok
    <2> DEFINE k == applyConversationSnapshot(panel, c.got)
               m == Settled(k)
    <2>1. ApplyAndRefresh(c, m, {})
      BY <1>3, Zenon DEF ReceiveRename
    <2>2. c.got.conv = a
      BY <1>1, <1>3, LiveCall, Zenon DEF Tells
    <2>3. SameList(panel, k) /\ Views(k, a, a, panel.epoch, panel.pending)
      BY <2>2, InFlight, PanelHelpers, HelperViews, Zenon
    <2> HIDE DEF k
    <2>4. SameList(k, m) /\ Views(m, k.thread, k.activeID, k.epoch, FALSE)
      BY <2>3, PanelHelpers, HelperViews, Zenon DEF SameList
    <2> HIDE DEF m
    <2>5. IsPanel(m) /\ m.listNonce = panel.listNonce /\ Views(m, a, a, panel.epoch, FALSE)
      BY <2>3, <2>4, Zenon DEF SameList, Views
    <2> QED BY <1>2, <2>1, <2>5, ShownAndListed, Zenon
  <1>4. CASE ~c.got.ok
    <2>1. panel' = Settled(panel) /\ calls' = calls \ {c} /\ ~Moved(c)
      BY <1>4, Zenon DEF ReceiveRename, Done, Moved
    <2>2. SameList(panel, panel') /\ Views(panel', panel.thread, panel.activeID, panel.epoch, FALSE)
      BY <2>1, InFlight, PanelHelpers, HelperViews, Zenon
    <2>3. /\ Views(panel', panel.thread, panel.activeID, panel.epoch, panel'.pending)
          /\ panel'.listNonce = panel.listNonce
      BY <2>2, Zenon DEF SameList, Views
    <2> QED BY <1>2, <2>1, <2>3, OverLive, Zenon DEF ListInv
  <1> QED BY <1>3, <1>4, Zenon

LEMMA BootstrapReceivedLive ==
  ASSUME ListInv, NEW a, Live(panel, calls, a), NEW c \in calls, bootstrapAgentPanel(c)
  PROVE  Live(panel', calls', a)
  <1>1. c.op = "bootstrap" /\ c.step = "answered" /\ Done(c)
    BY Zenon DEF bootstrapAgentPanel
  <1>2. CASE c.got.ok /\ c.epoch = panel.epoch
    <2> DEFINE k == applyConversationSnapshot(panel, c.got)
    <2>1. panel' = [k EXCEPT !.provider = c.got.provider, !.loaded = TRUE]
      BY <1>2, Zenon DEF bootstrapAgentPanel
    <2>2. c.got.conv = a
      BY <1>1, <1>2, LiveCall, Zenon DEF Tells
    <2>3. \A d \in calls : d.op \notin Transition
      BY <1>1, <1>2, Zenon DEF Live, Ordered
    <2>4. SameList(panel, k) /\ Views(k, a, a, panel.epoch, panel.pending)
      BY <2>2, InFlight, PanelHelpers, HelperViews, Zenon
    <2> HIDE DEF k
    <2>5. Views(panel', a, a, panel.epoch, panel.pending) /\ panel'.listNonce = panel.listNonce
      BY <2>1, <2>4, Zenon DEF SameList, IsPanel, PanelField, Views
    <2> QED BY <1>1, <2>3, <2>5, PlainShown, Zenon
  <1>3. CASE ~(c.got.ok /\ c.epoch = panel.epoch)
    <2>1. panel' = panel /\ c.op \notin Transition
      BY <1>1, <1>3, Zenon DEF bootstrapAgentPanel, Transition
    <2> QED BY <1>1, <2>1, PlainOver, Zenon DEF Views
  <1> QED BY <1>2, <1>3, Zenon

LEMMA ProviderReceivedLive ==
  ASSUME ListInv, NEW a, Live(panel, calls, a), NEW c \in calls, ReceiveProvider(c)
  PROVE  Live(panel', calls', a)
  <1>1. c.op \notin Transition /\ Done(c)
    BY Zenon DEF ReceiveProvider, Transition
  <1>2. /\ Views(panel', panel.thread, panel.activeID, panel.epoch, panel.pending)
        /\ panel'.listNonce = panel.listNonce
    BY InFlight, Zenon DEF ReceiveProvider, IsPanel, PanelField, Views
  <1> QED BY <1>1, <1>2, PlainOver, Zenon

LEMMA ContextFetchedLive ==
  ASSUME ListInv, NEW a, Live(panel, calls, a), NEW c \in calls, ReceiveContextFetch(c)
  PROVE  Live(panel', calls', a)
  <1>1. c.op = "context" /\ c.step = "fetched" /\ c.op \notin Transition
    BY Zenon DEF ReceiveContextFetch, Transition
  <1>2. CASE c.got.ok
    <2> DEFINE e == [c EXCEPT !.step = "sent", !.target = c.got.conv, !.got = NoAnswer]
    <2>1. calls' = (calls \ {c}) \cup {e} /\ panel' = applyConversationSnapshot(panel, c.got)
      BY <1>2, Zenon DEF ReceiveContextFetch, Becomes
    <2>2. c.got.conv = a /\ CallTyped(c, panel)
      BY <1>1, <1>2, LiveCall, Zenon DEF Tells
    <2>3. \A d \in calls : d.op \notin Transition
      BY <1>1, LiveCall, UncheckedIsAlone, Zenon
    <2>4. SameList(panel, panel') /\ Views(panel', a, a, panel.epoch, panel.pending)
      BY <2>1, <2>2, InFlight, PanelHelpers, HelperViews, Zenon
    <2>5. /\ e.op = "context" /\ e.step = "sent" /\ e.target = a /\ e.got = NoAnswer
          /\ e.epoch = c.epoch
      <3>1. IsCall(c)
        BY InFlight, Zenon
      <3> QED BY <1>1, <2>2, <3>1, Zenon DEF IsCall, CallField
    <2> HIDE DEF e
    <2>6. CallTyped(e, panel')
      BY <2>2, <2>4, <2>5, NoAnswerTyped, Zenon DEF CallTyped, StepOf, Views
    <2>7. Tells(e, panel', calls', a) /\ e.op \notin Transition
      BY <2>5, Zenon DEF Tells, Moved, Mutation, Transition
    <2> QED BY <2>1, <2>3, <2>4, <2>6, <2>7, ShownLive, Zenon DEF ListInv, SameList, Views
  <1>3. CASE ~c.got.ok
    <2>1. panel' = panel /\ Done(c)
      BY <1>3, Zenon DEF ReceiveContextFetch
    <2> QED BY <1>1, <2>1, PlainOver, Zenon DEF Views
  <1> QED BY <1>2, <1>3, Zenon

LEMMA ContextReceivedLive ==
  ASSUME ListInv, NEW a, Live(panel, calls, a), NEW c \in calls, ReceiveContext(c)
  PROVE  Live(panel', calls', a)
  <1>1. c.op = "context" /\ c.step = "answered" /\ c.op \notin Transition
    BY Zenon DEF ReceiveContext, Transition
  <1>2. CASE c.got.ok
    <2> DEFINE k == applyConversationSnapshot(panel, c.got)
    <2>1. ApplyAndRefresh(c, k, {})
      BY <1>2, Zenon DEF ReceiveContext
    <2>2. c.got.conv = a
      BY <1>1, <1>2, LiveCall, Zenon DEF Tells
    <2>3. \A d \in calls : d.op \notin Transition
      BY <1>1, LiveCall, UncheckedIsAlone, Zenon
    <2>4. SameList(panel, k) /\ Views(k, a, a, panel.epoch, panel.pending)
      BY <2>2, InFlight, PanelHelpers, HelperViews, Zenon
    <2> HIDE DEF k
    <2> QED BY <2>1, <2>3, <2>4, ShownAndListed, Zenon DEF SameList
  <1>3. CASE ~c.got.ok
    <2>1. panel' = panel /\ Done(c)
      BY <1>3, Zenon DEF ReceiveContext
    <2> QED BY <1>1, <2>1, PlainOver, Zenon DEF Views
  <1> QED BY <1>2, <1>3, Zenon

LEMMA PromptReceivedLive ==
  ASSUME ListInv, NEW a, Live(panel, calls, a), NEW c \in calls, ReceivePrompt(c), Apart(calls')
  PROVE  Live(panel', calls', a)
  <1>1. c.op = "prompt" /\ c.step = "answered" /\ c.op \notin Transition
    BY Zenon DEF ReceivePrompt, Transition
  <1>2. CASE c.got.ok /\ ownsSubmission(c)
    <2> DEFINE l == ListCall(panel', c.scope)
               d == [c EXCEPT !.step = "fetch", !.got = NoAnswer]
               e == [d EXCEPT !.list = panel'.listNonce]
               ds == (calls \ {c}) \cup {l} \cup {e}
    <2>1. panel' = BeginRefresh(panel) /\ calls' = ds
      BY <1>2, Zenon DEF ReceivePrompt, ApplyAndRefresh
    <2>2. /\ Views(panel', panel.thread, panel.activeID, panel.epoch, panel.pending)
          /\ panel'.listNonce = panel.listNonce + 1
      BY <2>1, InFlight, HelperViews, RefreshBegun, Zenon
    <2>3. panel'.epoch = panel.epoch /\ panel'.epoch \in Nat
      BY <2>2, Zenon DEF Views, Live
    <2>4. l.op = "list" /\ l.step = "sent" /\ CallTyped(l, panel')
      BY <2>3, ListFields, Zenon
    <2>5. e.op = "prompt" /\ e.step = "fetch" /\ e.got = NoAnswer /\ e.epoch = c.epoch
      <3>1. IsCall(c)
        BY InFlight, Zenon
      <3> QED BY <1>1, <3>1, Zenon DEF IsCall, CallField
    <2> HIDE DEF l, d, e
    <2>6. CallTyped(e, panel')
      <3>1. CallTyped(c, panel)
        BY LiveCall, Zenon
      <3> QED BY <2>3, <2>5, <3>1, NoAnswerTyped, Zenon DEF CallTyped, StepOf
    <2>7. Tells(l, panel', calls', a) /\ Tells(e, panel', calls', a)
      BY <2>4, <2>5, SentTells, Zenon DEF Tells, Moved, Mutation, Transition
    <2>8. \A x \in calls' : x.op \notin Transition
      BY <2>1, <2>5, UncheckedIsAlone, Zenon
    <2>9. Ordered(panel', calls') /\ NoneMoved(calls)
      <3>1. \A x \in calls : x.op \notin Transition
        BY <1>1, <2>1, <2>8, Zenon
      <3> QED BY <2>8, <3>1, IdleIsOrdered, Zenon
    <2>10. ShowsLive(panel', calls', a)
      BY <2>2, <2>9, Zenon DEF Live, ShowsLive, Views
    <2>11. Moves(panel, panel', calls, calls', a)
      BY <2>1, <2>2, <2>4, <2>6, <2>7, <2>9, <2>10, Zenon DEF Moves, Views
    <2> QED BY <2>11, MovesKeep, Zenon DEF ListInv
  <1>3. CASE ~(c.got.ok /\ ownsSubmission(c))
    <2>1. panel' = EndSubmission(c, panel) /\ Done(c)
      BY <1>3, Zenon DEF ReceivePrompt
    <2>2. SameList(panel, panel')
      BY <2>1, InFlight, SubmissionEnded, Zenon
    <2>3. Views(panel', panel.thread, panel.activeID, panel.epoch, panel.pending)
      BY <2>1, InFlight, HelperViews, Zenon
    <2> QED BY <1>1, <2>1, <2>2, <2>3, PlainOver, Zenon DEF SameList
  <1> QED BY <1>2, <1>3, Zenon

LEMMA PromptFinishedLive ==
  ASSUME ListInv, NEW a, Live(panel, calls, a), NEW c \in calls, FinishPrompt(c)
  PROVE  Live(panel', calls', a)
  <1> DEFINE k == IF c.got.ok THEN applyConversationSnapshot(panel, c.got) ELSE panel
  <1>1. c.op = "prompt" /\ c.step = "fetched" /\ c.op \notin Transition /\ Done(c)
        /\ panel' = EndSubmission(c, k)
    BY Zenon DEF FinishPrompt, Transition
  <1>2. CASE c.got.ok
    <2>1. c.got.conv = a
      BY <1>1, <1>2, LiveCall, Zenon DEF Tells
    <2>2. \A d \in calls : d.op \notin Transition
      BY <1>1, LiveCall, UncheckedIsAlone, Zenon
    <2>3. SameList(panel, k) /\ Views(k, a, a, panel.epoch, panel.pending)
      BY <1>2, <2>1, InFlight, PanelHelpers, HelperViews, Zenon
    <2> HIDE DEF k
    <2>4. SameList(k, panel') /\ Views(panel', k.thread, k.activeID, k.epoch, k.pending)
      BY <1>1, <2>3, SubmissionEnded, HelperViews, Zenon DEF SameList
    <2>5. Views(panel', a, a, panel.epoch, panel.pending) /\ panel'.listNonce = panel.listNonce
      BY <2>3, <2>4, Zenon DEF SameList, Views
    <2> QED BY <1>1, <2>2, <2>5, PlainShown, Zenon
  <1>3. CASE ~c.got.ok
    <2>1. panel' = EndSubmission(c, panel)
      BY <1>1, <1>3, Zenon
    <2>2. SameList(panel, panel')
      BY <2>1, InFlight, SubmissionEnded, Zenon
    <2>3. Views(panel', panel.thread, panel.activeID, panel.epoch, panel.pending)
      BY <2>1, InFlight, HelperViews, Zenon
    <2> QED BY <1>1, <2>2, <2>3, PlainOver, Zenon DEF SameList
  <1> QED BY <1>2, <1>3, Zenon

LEMMA ReceiveLive ==
  ASSUME ListInv, NEW a, Live(panel, calls, a), Receive, Apart(calls')
  PROVE  Live(panel', calls', a)
  <1>1. PICK c \in calls :
          \/ ReceiveTransition(c) \/ FinishTransition(c) \/ ReceiveRename(c)
          \/ ReceiveMutation(c) \/ FinishMutation(c) \/ ReceiveList(c) \/ bootstrapAgentPanel(c)
          \/ ReceiveProvider(c) \/ ReceiveContextFetch(c) \/ ReceiveContext(c)
          \/ ReceivePrompt(c) \/ FinishPrompt(c)
    BY Zenon DEF Receive
  <1> QED BY Zenon, <1>1, TransitionReceivedLive, TransitionFinishedLive, RenameReceivedLive,
             MutationReceivedLive, MutationFinishedLive, ListReceivedLive, BootstrapReceivedLive,
             ProviderReceivedLive, ContextFetchedLive, ContextReceivedLive, PromptReceivedLive,
             PromptFinishedLive, Zenon

-----------------------------------------------------------------------------
LEMMA InitLive == Init => LiveInv
  <1> SUFFICES ASSUME Init PROVE LiveInv
    OBVIOUS
  <1> DEFINE k == BlankPanel(1, 1, 0)
             b == Call("bootstrap", None, panel)
             l == ListCall(panel, panel.scope)
  <1>1. panel = BeginRefresh(k) /\ calls = {b, l}
    BY Zenon DEF Init, Opened
  <1>2. IsPanel(k) /\ Views(k, None, None, 1, FALSE)
    BY Zenon DEF BlankPanel, IsPanel, PanelField, Views
  <1> HIDE DEF k
  <1>3. Views(panel, None, None, 1, FALSE)
    BY <1>1, <1>2, RefreshViews, Zenon
  <1>4. panel.epoch \in Nat
    BY <1>3 DEF Views
  <1>5. b.op = "bootstrap" /\ b.step = "sent" /\ CallTyped(b, panel)
    <2>1. StepOf("bootstrap", "sent")
      BY Zenon DEF StepOf
    <2> QED BY <1>4, <2>1, CallFields
  <1>6. l.op = "list" /\ l.step = "sent" /\ CallTyped(l, panel)
    BY <1>4, ListFields, Zenon
  <1> HIDE DEF b, l
  <1>7. Ordered(panel, calls)
    BY <1>1, <1>5, <1>6, IdleIsOrdered, Zenon DEF Transition
  <1>8. ShowsLive(panel, calls, backend.active)
    BY <1>3, Zenon DEF ShowsLive, Views
  <1>9. \A c \in calls : Tells(c, panel, calls, backend.active)
    BY <1>1, <1>5, <1>6, SentTells, Zenon DEF Mutation
  <1>10. IsBackend(backend)
    <2>1. PICK x, y : backend = [active |-> x, recent |-> First, archived |-> {}, used |-> First,
                                 provider |-> y]
      BY Zenon DEF Init
    <2> QED BY <2>1, Zenon DEF IsBackend, BackendField
  <1> QED BY <1>1, <1>4, <1>5, <1>6, <1>7, <1>8, <1>9, <1>10, Zenon DEF LiveInv, Live

(* What holds of a step after which nothing was missed.                    *)
LEMMA NothingMissed ==
  ASSUME NoteMissed, ~missed'
  PROVE  ~missed /\ Apart(calls')
  BY Zenon DEF NoteMissed, Apart

LEMMA NextLive == ASSUME ListInv, LiveInv, [Next]_vars PROVE LiveInv'
  <1> SUFFICES ASSUME ~missed'
               PROVE  Live(panel', calls', backend'.active) /\ IsBackend(backend')
    BY Zenon DEF LiveInv
  <1> DEFINE a == backend.active
  <1>0. ASSUME ~missed PROVE Live(panel, calls, a) /\ IsBackend(backend)
    BY <1>0, Zenon DEF LiveInv
  <1> HIDE DEF a
  <1>e. SUFFICES ASSUME ~Backend PROVE Live(panel', calls', a) /\ IsBackend(backend) /\ backend' = backend
    <2>1. CASE Backend
      BY <2>1, BackendLive, Zenon
    <2> QED BY <2>1, Zenon DEF a
  <1>1. CASE OpenPanel
    <2>1. NoteMissed /\ backend' = backend
      BY <1>1, Zenon DEF OpenPanel
    <2> QED BY <1>0, <1>1, <2>1, NothingMissed, OpenSidebarLive, Zenon
  <1>2. CASE ClosePanel \/ cancelAnswer
    <2>1. missed' = missed /\ backend' = backend
      BY <1>2, Zenon DEF ClosePanel, cancelAnswer
    <2> QED BY <1>0, <1>2, <2>1, CloseSidebarLive, CancelLive, Zenon
  <1>3. ASSUME NEW s \in Scope, updateConversationScope(s)
        PROVE  Live(panel', calls', a) /\ IsBackend(backend) /\ backend' = backend
    <2>1. NoteMissed /\ backend' = backend
      BY <1>3, Zenon DEF updateConversationScope
    <2> QED BY <1>0, <1>3, <2>1, NothingMissed, ScopeLive, Zenon
  <1>4. ASSUME NEW op \in Transition, NEW x, op \in Mutation => x # None, ~panel.pending,
               BeginTransition(op, x), NoteMissed, backend' = backend
        PROVE  Live(panel', calls', a) /\ IsBackend(backend) /\ backend' = backend
    BY <1>0, <1>4, NothingMissed, BeginLive, Zenon
  <1>5. ASSUME NEW c \in Conv, switchConversation(c)
        PROVE  Live(panel', calls', a) /\ IsBackend(backend) /\ backend' = backend
    <2>1. "switch" \in Transition /\ "switch" \notin Mutation
      BY Zenon DEF Transition, Mutation
    <2>2. ~panel.pending /\ BeginTransition("switch", c) /\ NoteMissed /\ backend' = backend
      BY <1>5, Zenon DEF switchConversation, Busy
    <2> QED BY <1>4, <2>1, <2>2, Zenon
  <1>6. CASE createConversation
    <2>1. "create" \in Transition /\ "create" \notin Mutation
      BY Zenon DEF Transition, Mutation
    <2>2. ~panel.pending /\ BeginTransition("create", None) /\ NoteMissed /\ backend' = backend
      BY <1>6, Zenon DEF createConversation, Busy
    <2> QED BY <1>4, <2>1, <2>2, Zenon
  <1>7. ASSUME NEW op \in Mutation, NEW c \in Conv, mutateConversation(op, c)
        PROVE  Live(panel', calls', a) /\ IsBackend(backend) /\ backend' = backend
    <2>1. op \in Transition /\ c # None
      BY MutationsAreTransitions, ConvAssumption, Zenon
    <2>2. ~panel.pending /\ BeginTransition(op, c) /\ NoteMissed /\ backend' = backend
      BY <1>7, Zenon DEF mutateConversation, Busy
    <2> QED BY <1>4, <2>1, <2>2, Zenon
  <1>8. CASE renameConversation
    <2>1. NoteMissed /\ backend' = backend
      BY <1>8, Zenon DEF renameConversation
    <2> QED BY <1>0, <1>8, <2>1, NothingMissed, RenameLive, Zenon
  <1>9. ASSUME NEW q \in Provider, selectProvider(q)
        PROVE  Live(panel', calls', a) /\ IsBackend(backend) /\ backend' = backend
    <2>1. NoteMissed /\ backend' = backend
      BY <1>9, Zenon DEF selectProvider
    <2> QED BY <1>0, <1>9, <2>1, NothingMissed, SelectProviderLive, Zenon
  <1>10. CASE persistConversationContextPreferences
    <2>1. NoteMissed /\ backend' = backend
      BY <1>10, Zenon DEF persistConversationContextPreferences
    <2> QED BY <1>0, <1>10, <2>1, NothingMissed, PreferencesLive, Zenon
  <1>11. CASE sendDraft
    <2>1. NoteMissed /\ backend' = backend
      BY <1>11, Zenon DEF sendDraft
    <2> QED BY <1>0, <1>11, <2>1, NothingMissed, SubmitLive, Zenon
  <1>12. CASE Receive
    <2>1. NoteMissed /\ backend' = backend
      BY <1>12, Zenon DEF Receive
    <2> QED BY <1>0, <1>12, <2>1, NothingMissed, ReceiveLive, Zenon
  <1>13. CASE UNCHANGED vars
    BY <1>0, <1>13, Zenon DEF vars
  <1> QED BY <1>e, <1>1, <1>2, <1>3, <1>5, <1>6, <1>7, <1>8, <1>9, <1>10, <1>11, <1>12, <1>13,
             Zenon DEF Next

(* However the operations of the panel overlap and their answers are       *)
(* reordered or fail, once every answer is in the thread it shows and the  *)
(* id it acts on are the backend's active conversation (the panel-state    *)
(* epoch, the list nonce and the pending flag of use-agent-panel.ts),      *)
(* unless two operations overlapped that no counter orders (Unordered) or  *)
(* the answer of a transition was lost.                                    *)
THEOREM ShowsLiveConversationAlways == Spec => []ShowsLiveConversation
  <1>1. ListInv /\ LiveInv => ShowsLiveConversation
    BY Zenon DEF LiveInv, Live, ShowsLive, NoneMoved, ShowsLiveConversation, Quiet
  <1>2. Init => ListInv /\ LiveInv
    BY InitList, InitLive, Zenon
  <1>3. ListInv /\ LiveInv /\ [Next]_vars => (ListInv /\ LiveInv)'
    BY NextList, NextLive, Zenon
  <1> QED BY <1>1, <1>2, <1>3, PTL DEF Spec
=============================================================================
