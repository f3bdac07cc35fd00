------------------------------ MODULE ToolRuntime ------------------------------
(***************************************************************************)
(* The execution of tools (core/toolruntime): approvals that are asked     *)
(* for, confirmed and used once, the policy decision, the tool itself and  *)
(* the audit record, for requests that run side by side.                   *)
(*                                                                         *)
(* A request is a call of Executor.Execute.  It asks for one of Requests,  *)
(* or to confirm (safety.confirm) the approval that an earlier call, which *)
(* names it, was asked for; the token a confirmation returns is named by   *)
(* the confirming call.  The intent a grant is bound to                    *)
(* (executionIntentHash) is what is asked for and the agent's mode: the    *)
(* hash covers tool, input, context, role and mode, and not the prompt     *)
(* profile, which the policy looks at as well.                             *)
(***************************************************************************)
EXTENDS Policy

CONSTANTS
  Calls,      \* requests to the tool runtime
  Requests,   \* what they can ask for, besides confirmations
  Effect,     \* what each does: "run", or "trust"/"untrust" a rule
  Context,    \* the policy context of each, without overlay and approval
  ConfirmContext,
  Profiles,   \* the agent's prompt profiles
  Modes,      \* its roles and work modes
  Overlay,    \* the policy overlays of both
  Config,     \* the policy configuration at startup
  Rule,       \* the trusted rule that "trust" adds, under an id of its own
  Named,      \* the id of the rule that "untrust" removes
  TTL,        \* lifetime of approvals and grants (10 minutes)
  MaxTime,    \* bound: the clock
  None

ASSUME RuntimeAssumption ==
  /\ Calls \cap Requests = {} /\ None \notin Calls \cup Requests
  /\ Effect \in [Requests -> {"run", "trust", "untrust"}]
  /\ TTL \in Nat /\ MaxTime \in Nat

Targets == Requests \cup Calls

VARIABLES
  clock,
  profile,    \* the agent's active prompt profile
  mode,       \* and its active role and mode
  cfg,        \* the policy store
  pending,    \* approvals to confirm
  grants,     \* tokens to use
  call,       \* the requests
  log         \* the audit log

vars == <<clock, profile, mode, cfg, pending, grants, call, log>>

NoCall == [pc |-> "idle", target |-> None, profile |-> None, mode |-> None, token |-> None, verdict |-> "none",
           used |-> None, reason |-> "none", at |-> 0, confirmed |-> 0, ok |-> FALSE, unlogged |-> FALSE]

Init ==
  /\ clock = 0
  /\ profile \in Profiles /\ mode \in Modes
  /\ cfg = Config
  /\ pending = {} /\ grants = {}
  /\ call = [c \in Calls |-> NoCall]
  /\ log = <<>>

At(c, pc) == call[c].pc = pc
Key(c) == <<call[c].target, call[c].mode>>

(* The policy context that prepare builds, with the overlay of the         *)
(* selection the call took.                                                *)
PolicyContext(c, approved) ==
  LET base == IF call[c].target \in Calls THEN ConfirmContext ELSE Context[call[c].target]
  IN  [tool |-> base.tool, summary |-> base.summary, words |-> base.words, widgets |-> base.widgets,
       workspace |-> base.workspace, repo |-> base.repo, paths |-> base.paths,
       capabilities |-> base.capabilities, tier |-> base.tier, mutating |-> base.mutating,
       needsRoots |-> base.needsRoots, checksIgnore |-> base.checksIgnore,
       approved |-> approved,
       overlay |-> MergeOverlays(MergeOverlays(NoOverlay, Overlay[call[c].profile]), Overlay[call[c].mode])]

(* What a client was told: approvals it was asked for, and tokens.         *)
AskedFor == {c \in Calls : At(c, "done") /\ call[c].reason \notin {"none", "pass", "capability_denied", "mismatch"}}
Tokens == {c \in Calls : At(c, "done") /\ call[c].target \in Calls /\ call[c].ok}

Unexpired(records) == {r \in records : clock <= r.expires}

-----------------------------------------------------------------------------
(* ExecuteTool takes the mode; prepare decodes and plans.                  *)
Begin(c, t, token) ==
  /\ At(c, "idle")
  /\ t \in Requests \cup AskedFor /\ token \in Tokens \cup {None}
  /\ call' = [call EXCEPT ![c] = [NoCall EXCEPT !.pc = "verify", !.target = t, 
                                           !.profile = profile, !.mode = mode, !.token = token]]
  /\ UNCHANGED <<clock, profile, mode, cfg, pending, grants, log>>

(* Unknown tool, missing context, or an input that does not decode.        *)
PrepareFails(c) ==
  /\ At(c, "verify")
  /\ call' = [call EXCEPT ![c].pc = "done"]
  /\ UNCHANGED <<clock, profile, mode, cfg, pending, grants, log>>

(* Variant: a token is spent by any request that shows it.                *)
VerifySpendsAlways(c) ==
  LET live == Unexpired(grants)
      shown == {g \in live : g.token = call[c].token} IN
  /\ At(c, "verify")
  /\ pending' = Unexpired(pending)
  /\ grants' = live \ shown
  /\ \/ /\ shown = {}
        /\ call' = [call EXCEPT ![c] = [@ EXCEPT !.pc = "evaluate", !.verdict = "missing"]]
     \/ \E g \in shown :
        /\ g.key = Key(c)
        /\ call' = [call EXCEPT ![c] = [@ EXCEPT !.pc = "evaluate", !.verdict = "granted", !.used = g.id, !.at = clock]]
     \/ \E g \in shown :
        /\ g.key # Key(c)
        /\ call' = [call EXCEPT ![c] = [@ EXCEPT !.pc = "evaluate", !.verdict = "mismatch"]]
  /\ UNCHANGED <<clock, profile, mode, cfg, log>>

(* Variant: a token is good for any request.                              *)
VerifyAnyIntent(c) ==
  LET live == Unexpired(grants)
      shown == {g \in live : g.token = call[c].token} IN
  /\ At(c, "verify")
  /\ pending' = Unexpired(pending)
  /\ \/ /\ shown = {}
        /\ grants' = live
        /\ call' = [call EXCEPT ![c] = [@ EXCEPT !.pc = "evaluate", !.verdict = "missing"]]
     \/ \E g \in shown :
        /\ grants' = live \ {g}
        /\ call' = [call EXCEPT ![c] = [@ EXCEPT !.pc = "evaluate", !.verdict = "granted", !.used = g.id, !.at = clock]]
  /\ UNCHANGED <<clock, profile, mode, cfg, log>>

(* approvalStore.Verify: expired records go; a token that was granted for  *)
(* this intent is spent.                                                   *)
Verify(c) ==
  LET live == Unexpired(grants)
      shown == {g \in live : g.token = call[c].token} IN
  /\ At(c, "verify")
  /\ pending' = Unexpired(pending)
  /\ \/ /\ shown = {}
        /\ grants' = live
        /\ call' = [call EXCEPT ![c] = [@ EXCEPT !.pc = "evaluate", !.verdict = "missing"]]
     \/ \E g \in shown :
        /\ g.key = Key(c)
        /\ grants' = live \ {g}
        /\ call' = [call EXCEPT ![c] = [@ EXCEPT !.pc = "evaluate", !.verdict = "granted", !.used = g.id, !.at = clock]]
     \/ \E g \in shown :
        /\ g.key # Key(c)
        /\ grants' = live
        /\ call' = [call EXCEPT ![c] = [@ EXCEPT !.pc = "evaluate", !.verdict = "mismatch"]]
  /\ UNCHANGED <<clock, profile, mode, cfg, log>>

(* policy.Evaluate on the policy of this moment, then Execute's early      *)
(* returns.                                                                *)
EvaluatePolicy(c) ==
  LET d == Evaluate(cfg, PolicyContext(c, call[c].verdict = "granted"))
      mismatch == call[c].verdict = "mismatch" IN
  /\ At(c, "evaluate")
  /\ call' = [call EXCEPT ![c] = [@ EXCEPT !.reason = IF mismatch THEN "mismatch" ELSE d.reason,
       !.pc = IF mismatch THEN "audit"
                 ELSE IF d.confirm THEN "create" ELSE IF d.allowed THEN "execute" ELSE "audit"]]
  /\ UNCHANGED <<clock, profile, mode, cfg, pending, grants, log>>

(* approvalStore.Create.                                                  *)
Create(c) ==
  /\ At(c, "create")
  /\ pending' = Unexpired(pending) \cup {[id |-> c, key |-> Key(c), expires |-> clock + TTL]}
  /\ grants' = Unexpired(grants)
  /\ call' = [call EXCEPT ![c].pc = "audit"]
  /\ UNCHANGED <<clock, profile, mode, cfg, log>>

-----------------------------------------------------------------------------
(* approvalStore.Confirm, the tool behind safety.confirm: the approval     *)
(* becomes a grant, or is no longer there.                                 *)
Confirm(c) ==
  LET found == {p \in Unexpired(pending) : p.id = call[c].target} IN
  /\ At(c, "execute") /\ call[c].target \in Calls
  /\ pending' = Unexpired(pending) \ found
  /\ grants' = Unexpired(grants) \cup
                 {[token |-> c, id |-> p.id, key |-> p.key, expires |-> clock + TTL] : p \in found}
  /\ call' = [call EXCEPT ![c] = [@ EXCEPT !.pc = "audit", !.ok = found # {}, !.confirmed = clock]]
  /\ UNCHANGED <<clock, profile, mode, cfg, log>>

(* The policy store saves the configuration before it replaces it.        *)
AddTrustedRule(c) == [cfg EXCEPT !.trusted = Append(@, [Rule EXCEPT !.id = c])]
RemoveTrustedRule == [cfg EXCEPT !.trusted = SelectSeq(@, LAMBDA r : r.id # Named)]

(* Any other tool.                                                         *)
Execute(c) ==
  /\ At(c, "execute") /\ call[c].target \in Requests
  /\ cfg' = CASE Effect[call[c].target] = "trust" -> AddTrustedRule(c)
              [] Effect[call[c].target] = "untrust" -> RemoveTrustedRule
              [] OTHER -> cfg
  /\ call' = [call EXCEPT ![c] = [@ EXCEPT !.pc = "audit", !.ok = TRUE]]
  /\ UNCHANGED <<clock, profile, mode, pending, grants, log>>

ExecuteFails(c) ==
  /\ At(c, "execute") /\ call[c].target \in Requests
  /\ call' = [call EXCEPT ![c].pc = "audit"]
  /\ UNCHANGED <<clock, profile, mode, cfg, pending, grants, log>>

(* appendAudit, the last thing before the response.  An event is named by  *)
(* the call it records.  An error of the log is dropped.                   *)
AppendAudit(c) ==
  /\ At(c, "audit")
  /\ log' = Append(log, c)
  /\ call' = [call EXCEPT ![c].pc = "done"]
  /\ UNCHANGED <<clock, profile, mode, cfg, pending, grants>>

AppendAuditFails(c) ==
  /\ At(c, "audit")
  /\ call' = [call EXCEPT ![c] = [@ EXCEPT !.pc = "done", !.unlogged = TRUE]]
  /\ UNCHANGED <<clock, profile, mode, cfg, pending, grants, log>>

-----------------------------------------------------------------------------
SetActiveProfile(p) ==
  /\ p # profile /\ profile' = p
  /\ UNCHANGED <<clock, mode, cfg, pending, grants, call, log>>

(* SetActiveRole and SetActiveMode.                                        *)
SetActiveMode(m) ==
  /\ m # mode /\ mode' = m
  /\ UNCHANGED <<clock, profile, cfg, pending, grants, call, log>>

Tick ==
  /\ clock < MaxTime /\ clock' = clock + 1
  /\ UNCHANGED <<profile, mode, cfg, pending, grants, call, log>>

(* The core dies and starts again: approvals and grants are in memory, the *)
(* policy, the agent's selection and the audit log are on disk.            *)
Restart ==
  /\ pending' = {} /\ grants' = {}
  /\ call' = [c \in Calls |-> IF call[c].pc \in {"idle", "done"} THEN call[c] ELSE [call[c] EXCEPT !.pc = "lost"]]
  /\ UNCHANGED <<clock, profile, mode, cfg, log>>

Next ==
  \/ \E c \in Calls :
       \/ \E t \in Targets, token \in Calls \cup {None} : Begin(c, t, token)
       \/ PrepareFails(c) \/ Verify(c) \/ EvaluatePolicy(c) \/ Create(c)
       \/ Confirm(c) \/ Execute(c) \/ ExecuteFails(c) \/ AppendAudit(c) \/ AppendAuditFails(c)
  \/ \E p \in Profiles : SetActiveProfile(p)
  \/ \E m \in Modes : SetActiveMode(m)
  \/ Tick \/ Restart

Spec == Init /\ [][Next]_vars

-----------------------------------------------------------------------------
PCs == {"idle", "verify", "evaluate", "create", "execute", "audit", "done", "lost"}
Keys == Targets \X Modes
Reasons ==
  {"none", "mismatch", "pass", "capability_denied", "allowed_root_confirmation_required",
   "ignore_rule_confirmation_required", "approval_required"}
CallRecords ==
  [pc : PCs, target : Targets \cup {None}, profile : Profiles \cup {None}, mode : Modes \cup {None},
   token : Calls \cup {None}, verdict : {"none", "missing", "granted", "mismatch"},
   used : Calls \cup {None}, reason : Reasons, at : 0..MaxTime, confirmed : 0..MaxTime,
   ok : BOOLEAN, unlogged : BOOLEAN]

(* The variables have their types; in particular every approval and every  *)
(* grant is for a request in a mode of the agent.                          *)
TypeOK ==
  /\ clock \in 0..MaxTime /\ profile \in Profiles /\ mode \in Modes
  /\ pending \subseteq [id : Calls, key : Keys, expires : Nat]
  /\ grants \subseteq [token : Calls, id : Calls, key : Keys, expires : Nat]
  /\ call \in [Calls -> CallRecords]
  /\ log \in Seq(Calls)

(* An approval stands for one execution: no two requests use the same one, *)
(* and one that was used can be neither confirmed nor used again.          *)
SingleUse ==
  \A c \in Calls : call[c].used # None =>
     /\ \A d \in Calls : call[d].used = call[c].used => d = c
     /\ \A p \in pending : p.id # call[c].used
     /\ \A g \in grants : g.id # call[c].used

(* A request that uses an approval is the one that was asked to be         *)
(* approved, in the same mode, and the approval was confirmed, at most TTL *)
(* before.                                                                 *)
ApprovedAsAsked ==
  \A c \in Calls : call[c].used # None =>
     /\ Key(call[c].used) = Key(c)
     /\ \E d \in Calls : /\ call[d].target = call[c].used /\ call[d].ok /\ d = call[c].token
                         /\ call[c].at <= call[d].confirmed + TTL

(* Nothing destructive is executed without an approval of its own.         *)
DestructiveIsApproved ==
  \A c \in Calls :
     /\ At(c, "execute") \/ call[c].ok
     /\ Tier(PolicyContext(c, FALSE)) = "destructive"
     => call[c].used # None

(* A retry that does not match leaves the token to the approved intent:    *)
(* a grant goes away when it expires, is used for its intent, or the core  *)
(* stops.                                                                  *)
MismatchKeepsToken ==
  [][\A g \in grants \ grants' :
        \/ g.expires < clock
        \/ \E c \in Calls : call'[c].used = g.id /\ Key(c) = g.key
        \/ \A c \in Calls : call'[c] = call[c] \/ call'[c].pc = "lost"]_vars

(* The event of call d comes after the one of c, or c's was dropped.       *)
LoggedBefore(c, d) ==
  call[c].unlogged \/ \A j \in 1..Len(log) : log[j] = d => \E i \in 1..(j - 1) : log[i] = c

(* The audit log tells the chain in order: an execution that used an       *)
(* approval comes after the confirmation of it, which comes after the      *)
(* blocked request.                                                        *)
AuditChain ==
  \A c \in Calls : call[c].used # None =>
     /\ LoggedBefore(call[c].used, call[c].token)
     /\ LoggedBefore(call[c].token, c)
     /\ LoggedBefore(call[c].used, c)

(* An approval is what it claims to be: of one execution, of the request   *)
(* that was asked about, needed by everything destructive, and told by the *)
(* audit log.                                                              *)
ApprovalsAreSound == SingleUse /\ ApprovedAsAsked /\ DestructiveIsApproved /\ AuditChain
=============================================================================
