--------------------------- MODULE ToolRuntimeProofs ---------------------------
(***************************************************************************)
(* Proofs about Policy, that its pipeline of stages decides as the         *)
(* documents say, for any rules, roots, paths and overlays; and about      *)
(* ToolRuntime, for any number of concurrent requests, any tools, agent    *)
(* selections, policies and lifetimes of approvals.                        *)
(*                                                                         *)
(* The properties of the runtime are not inductive by themselves: that an  *)
(* approval is used once rests on where an approval can be (pending, in    *)
(* one grant, or used), that it is for the right intent rests on the       *)
(* request it names not changing any more, and the order of the audit log  *)
(* rests on clients learning of approvals and tokens from answers, which   *)
(* come after the events.  RuntimeInv says all of it.                      *)
(***************************************************************************)
EXTENDS ToolRuntime, TLAPS, WellFoundedInduction

(* The client has the response of a request that got past prepare.        *)
Answered(c) == At(c, "done") /\ call[c].reason # "none"

(* What a request was, and what became of it, no longer changes.           *)
Fixed(c) == call[c].pc \in {"audit", "done", "lost"}

(* The progress of a request agrees with what was written about it.        *)
ProgressOK(c) ==
  /\ call[c].pc \in {"idle", "verify"} => call[c].reason = "none" /\ call[c].used = None
  /\ call[c].pc \in {"create", "execute", "audit"} => call[c].reason # "none"
  /\ call[c].ok => Fixed(c) /\ call[c].reason # "none"
  /\ call[c].verdict = "granted" => call[c].used # None

(* A confirmation is of an answered request, and a token is from an        *)
(* answered confirmation.                                                  *)
RequestOK(c) ==
  /\ call[c].pc # "idle" => call[c].target \in Targets /\ call[c].mode \in Modes
  /\ call[c].target \in Calls => Answered(call[c].target)
  /\ call[c].token # None => Answered(call[c].token) /\ call[call[c].token].target \in Calls

CallInv == \A c \in Calls : ProgressOK(c) /\ RequestOK(c)

UsedInv ==
  \A c \in Calls : call[c].used # None =>
     /\ call[c].token # None
     /\ call[call[c].token].ok /\ call[call[c].token].target = call[c].used
     /\ Key(call[c].used) = Key(c)
     /\ call[c].at <= call[call[c].token].confirmed + TTL

PendingInv == \A p \in pending : Fixed(p.id) /\ p.key = Key(p.id)

GrantInv ==
  \A g \in grants :
     /\ Fixed(g.token) /\ call[g.token].ok /\ call[g.token].target = g.id
     /\ g.key = Key(g.id) /\ g.expires = call[g.token].confirmed + TTL
     /\ \A p \in pending : p.id # g.id
     /\ \A h \in grants : h.id = g.id => h = g

(* The requests whose answers a request builds on: the one it confirms,    *)
(* the confirmation whose token it shows, and the one that was approved.   *)
Told(c) == {call[c].target, call[c].token, call[c].used} \cap Calls

LogInv ==
  /\ \A i \in 1..Len(log) : At(log[i], "done")
  /\ \A c \in Calls : Answered(c) => call[c].unlogged \/ \E i \in 1..Len(log) : log[i] = c
  /\ \A c \in Calls : \A x \in Told(c) : LoggedBefore(x, c)

RuntimeInv ==
  TypeOK /\ CallInv /\ UsedInv /\ PendingInv /\ GrantInv /\ SingleUse /\ DestructiveIsApproved /\ LogInv

-----------------------------------------------------------------------------
(* The verdict of the policy is one of its reasons.                        *)
LEMMA ReasonType ==
  ASSUME NEW conf, NEW ctx
  PROVE  /\ Evaluate(conf, ctx).reason \in Reasons
         /\ Evaluate(conf, ctx).allowed \in BOOLEAN /\ Evaluate(conf, ctx).confirm \in BOOLEAN
         /\ Evaluate(conf, ctx).confirm => Evaluate(conf, ctx).reason # "pass"
         /\ Evaluate(conf, ctx).reason # "none"
<1>1. /\ CapabilityStage(conf, ctx) \in {"pass", "capability_denied"}
      /\ AllowedRootsStage(conf, ctx) \in {"pass", "allowed_root_confirmation_required"}
      /\ ApprovalStage(conf, ctx) \in {"pass", "approval_required"}
  BY Zenon DEF CapabilityStage, AllowedRootsStage, ApprovalStage
<1>2. IgnoreRulesStage(conf, ctx) \in {"pass", "ignore_rule_confirmation_required"}
  BY Zenon DEF IgnoreRulesStage
<1>3. Reason(conf, ctx) \in Reasons \ {"none", "mismatch"}
  BY <1>1, <1>2 DEF Reason, Reasons
<1> QED
  BY ZenonT(60), <1>3 DEF Evaluate, Reasons

(* The policy lets a destructive operation pass only when it is approved.  *)
LEMMA DestructiveNeedsApproval ==
  ASSUME NEW conf, NEW ctx, Evaluate(conf, ctx).allowed, Tier(ctx) = "destructive"
  PROVE  ctx.approved
<1>1. ApprovalStage(conf, ctx) = "pass"
  BY Zenon DEF Evaluate, Reason
<1>2. ~AutoApproved(conf, ctx)
  BY Zenon DEF AutoApproved
<1> QED
  BY <1>1, <1>2 DEF ApprovalStage

-----------------------------------------------------------------------------
(* The policy itself, for any configuration and any execution.             *)

(* A set of numbers that is not empty has a least one.                     *)
LEMMA LeastNumber ==
  ASSUME NEW T \in SUBSET Nat, T # {}
  PROVE  \E x \in T : \A y \in T : x <= y
<1>1. PICK R : R = OpToRel(<, Nat)
  BY Zenon
<1>2. IsWellFoundedOn(R, Nat)
  BY <1>1, NatLessThanWellFounded, Zenon
<1>3. PICK x \in T : \A y \in T : ~ (<<y, x>> \in R)
  BY <1>2, WFMin, Zenon
<1>4. \A y, z \in Nat : y < z => <<y, z>> \in R
  BY <1>1, Zenon DEF OpToRel
<1>5. ASSUME NEW y \in T PROVE x <= y
  <2>1. x \in Nat /\ y \in Nat
    OBVIOUS
  <2>2. ~(y < x)
    BY <1>3, <1>4, <2>1, Zenon
  <2> QED
    BY <2>1, <2>2
<1> QED
  BY <1>5

(* A path is under a root when the root is one of its prefixes.            *)
LEMMA RootsArePrefixes ==
  ASSUME NEW Component, NEW p \in Seq(Component), NEW roots \in SUBSET Seq(Component)
  PROVE  PathAllowed(p, roots) <=> \E r \in roots : \E n \in 1..Len(p) : SubSeq(p, 1, n) = r
<1>1. ASSUME NEW r \in roots, r # <<>>, Len(r) <= Len(p), SubSeq(p, 1, Len(r)) = r
      PROVE  \E n \in 1..Len(p) : SubSeq(p, 1, n) = r
  <2>1. Len(r) \in 1..Len(p)
    BY <1>1
  <2> QED
    BY <1>1, <2>1, Zenon
<1>2. ASSUME NEW r \in roots, NEW n \in 1..Len(p), SubSeq(p, 1, n) = r
      PROVE  r # <<>> /\ Len(r) <= Len(p) /\ SubSeq(p, 1, Len(r)) = r
  <2>1. Len(SubSeq(p, 1, n)) = n
    OBVIOUS
  <2> QED
    BY <1>2, <2>1
<1> QED
  BY <1>1, <1>2 DEF PathAllowed

(* Of the ignore rules that apply, the first decides: none denies unless   *)
(* one before it, which does not deny, applies as well.                    *)
LEMMA FirstRuleDecides ==
  ASSUME NEW Rules, NEW rules \in Seq(Rules), NEW x
  PROVE  (\E rule \in FirstApplicable(rules, x) : rule.mode = "deny")
         <=> ~(\A i \in 1..Len(rules) :
                 IgnoreRuleApplies(rules[i], x) /\ rules[i].mode = "deny" =>
                    \E j \in 1..(i - 1) : IgnoreRuleApplies(rules[j], x) /\ rules[j].mode # "deny")
<1> DEFINE hits == {i \in 1..Len(rules) : IgnoreRuleApplies(rules[i], x)}
           first == {i \in hits : \A j \in hits : i <= j}
<1>0. FirstApplicable(rules, x) = {rules[i] : i \in first}
  BY Zenon DEF FirstApplicable
<1>1. Len(rules) \in Nat
  OBVIOUS
<1>2. hits \in SUBSET Nat
  BY <1>1
<1>3. \A i \in hits : i \in 1..Len(rules) /\ IgnoreRuleApplies(rules[i], x)
  OBVIOUS
<1>4. \A i \in 1..Len(rules) : IgnoreRuleApplies(rules[i], x) => i \in hits
  OBVIOUS
<1> HIDE DEF hits
<1>5. ASSUME NEW i \in first, rules[i].mode = "deny",
             \A k \in 1..Len(rules) :
                 IgnoreRuleApplies(rules[k], x) /\ rules[k].mode = "deny" =>
                    \E j \in 1..(k - 1) : IgnoreRuleApplies(rules[j], x) /\ rules[j].mode # "deny"
      PROVE  FALSE
  <2>1. i \in 1..Len(rules) /\ IgnoreRuleApplies(rules[i], x)
    BY <1>3
  <2>2. PICK j \in 1..(i - 1) : IgnoreRuleApplies(rules[j], x)
    BY <1>5, <2>1
  <2>3. j \in 1..Len(rules) /\ j < i
    BY <1>1, <2>1
  <2>4. i <= j
    BY <1>4, <2>2, <2>3
  <2> QED
    BY <2>1, <2>3, <2>4
<1>6. ASSUME NEW i \in 1..Len(rules), IgnoreRuleApplies(rules[i], x), rules[i].mode = "deny",
             \A k \in first : rules[k].mode # "deny"
      PROVE  \E j \in 1..(i - 1) : IgnoreRuleApplies(rules[j], x) /\ rules[j].mode # "deny"
  <2>1. i \in hits
    BY <1>4, <1>6
  <2>2. PICK m \in hits : \A j \in hits : m <= j
    BY <1>2, <2>1, LeastNumber
  <2>3. m \in first /\ m <= i
    BY <2>1, <2>2
  <2>4. rules[m].mode # "deny" /\ m # i
    BY <1>6, <2>3
  <2>5. m \in 1..Len(rules) /\ IgnoreRuleApplies(rules[m], x)
    BY <1>3
  <2>6. m \in 1..(i - 1)
    BY <1>1, <2>3, <2>4, <2>5
  <2> QED
    BY <2>4, <2>5, <2>6
<1>7. (\E rule \in FirstApplicable(rules, x) : rule.mode = "deny") <=> \E i \in first : rules[i].mode = "deny"
  BY <1>0, Zenon
<1> HIDE DEF first
<1> QED
  BY Zenon, <1>5, <1>6, <1>7

(* The policy allows an execution exactly when every stage permits it, for *)
(* any lists of rules, roots, paths and overlays.                          *)
THEOREM PolicyAllowsThePermitted ==
  ASSUME NEW Component, NEW Rules, NEW k, NEW x,
         k.roots \in SUBSET Seq(Component), x.paths \in SUBSET Seq(Component),
         k.ignore \in Seq(Rules)
  PROVE  AllowedIffPermitted(k, x)
<1>1. Evaluate(k, x).allowed <=> Reason(k, x) = "pass"
  BY Zenon DEF Evaluate
<1>2. /\ CapabilityStage(k, x) \in {"pass", "capability_denied"}
      /\ AllowedRootsStage(k, x) \in {"pass", "allowed_root_confirmation_required"}
      /\ IgnoreRulesStage(k, x) \in {"pass", "ignore_rule_confirmation_required"}
      /\ ApprovalStage(k, x) \in {"pass", "approval_required"}
  BY Zenon DEF CapabilityStage, AllowedRootsStage, IgnoreRulesStage, ApprovalStage
<1>3. Reason(k, x) = "pass" <=> /\ CapabilityStage(k, x) = "pass" /\ AllowedRootsStage(k, x) = "pass"
                               /\ IgnoreRulesStage(k, x) = "pass" /\ ApprovalStage(k, x) = "pass"
  BY <1>2 DEF Reason
<1>4. CapabilityStage(k, x) = "pass" <=>
        \A c \in x.capabilities : (c \in k.capabilities \/ c \in x.overlay.add) /\ c \notin x.overlay.remove
  BY DEF CapabilityStage, EffectiveCapabilities
<1>5. AllowedRootsStage(k, x) = "pass" <=>
        \/ x.approved
        \/ x.needsRoots => \A p \in x.paths : \E r \in k.roots : \E n \in 1..Len(p) : SubSeq(p, 1, n) = r
  <2>1. \A p \in x.paths : PathAllowed(p, k.roots) <=> \E r \in k.roots : \E n \in 1..Len(p) : SubSeq(p, 1, n) = r
    BY RootsArePrefixes
  <2>2. AllowedRootsStage(k, x) = "pass" <=>
          ~(x.needsRoots /\ \E p \in x.paths : ~PathAllowed(p, k.roots) /\ ~x.approved)
    BY DEF AllowedRootsStage
  <2> QED
    BY Zenon, <2>1, <2>2
<1>6. IgnoreRulesStage(k, x) = "pass" <=>
        \/ x.approved
        \/ x.checksIgnore =>
             \A i \in 1..Len(k.ignore) :
                IgnoreRuleApplies(k.ignore[i], x) /\ k.ignore[i].mode = "deny" =>
                   \E j \in 1..(i - 1) : IgnoreRuleApplies(k.ignore[j], x) /\ k.ignore[j].mode # "deny"
  <2>1. IgnoreRulesStage(k, x) = "pass" <=>
          ~(/\ x.checksIgnore /\ ~x.approved
            /\ \E rule \in FirstApplicable(k.ignore, x) : rule.mode = "deny")
    BY DEF IgnoreRulesStage
  <2> QED
    BY <2>1, FirstRuleDecides, Zenon
<1>7. ApprovalStage(k, x) = "pass" <=>
        \/ x.approved
        \/ Rank(Tier(x)) < Rank("dangerous")
        \/ /\ Tier(x) = "dangerous" /\ ~x.overlay.noAuto
           /\ \E i \in 1..Len(k.trusted) : TrustedRuleApplies(k.trusted[i], x)
  <2>1. Rank(Tier(x)) < Rank("dangerous") <=> Tier(x) \notin {"dangerous", "destructive"}
    BY DEF Rank
  <2>2. ApprovalStage(k, x) = "pass" <=>
          ~(Tier(x) \in {"dangerous", "destructive"} /\ ~x.approved /\ ~AutoApproved(k, x))
    BY DEF ApprovalStage
  <2> QED
    BY Zenon, <2>1, <2>2 DEF AutoApproved
<1> QED
  BY Zenon, <1>1, <1>3, <1>4, <1>5, <1>6, <1>7 DEF AllowedIffPermitted, Permitted

(* A destructive operation is allowed only when it is approved.            *)
THEOREM PolicyIsNeverSilent ==
  ASSUME NEW k, NEW x
  PROVE  DestructiveNeverSilent(k, x)
BY DestructiveNeedsApproval, Zenon DEF DestructiveNeverSilent

(* One more trusted rule, whatever it is and whatever rules are there,     *)
(* changes a verdict only by sparing a dangerous operation its approval.   *)
THEOREM TrustSparesOnlyApproval ==
  ASSUME NEW Rules, NEW k, NEW x, NEW rule \in Rules,
         k = [f \in {"roots", "capabilities", "trusted", "ignore"} |-> k[f]],
         k.trusted \in Seq(Rules)
  PROVE  TrustOnlyReducesApproval(k, x, rule)
<1>1. PICK l : l = [k EXCEPT !.trusted = Append(@, rule)]
  BY Zenon
<1>2. /\ l.roots = k.roots /\ l.capabilities = k.capabilities /\ l.ignore = k.ignore
      /\ l.trusted = Append(k.trusted, rule)
  BY <1>1
<1>3. /\ CapabilityStage(l, x) = CapabilityStage(k, x)
      /\ AllowedRootsStage(l, x) = AllowedRootsStage(k, x)
      /\ IgnoreRulesStage(l, x) = IgnoreRulesStage(k, x)
  BY <1>2, Zenon DEF CapabilityStage, AllowedRootsStage, IgnoreRulesStage
<1>4. AutoApproved(k, x) => AutoApproved(l, x)
  <2>1. \A i \in 1..Len(k.trusted) : i \in 1..Len(l.trusted) /\ l.trusted[i] = k.trusted[i]
    BY <1>2
  <2> QED
    BY <2>1, Zenon DEF AutoApproved
<1>5. AutoApproved(l, x) => Tier(x) # "destructive"
  BY Zenon DEF AutoApproved
<1>6. \/ ApprovalStage(l, x) = ApprovalStage(k, x)
      \/ ApprovalStage(k, x) = "approval_required" /\ Tier(x) = "dangerous" /\ ApprovalStage(l, x) = "pass"
  BY <1>4, <1>5 DEF ApprovalStage
<1>7. \/ Reason(l, x) = Reason(k, x)
      \/ Reason(k, x) = "approval_required" /\ Tier(x) = "dangerous" /\ Reason(l, x) = "pass"
  BY <1>3, <1>6 DEF Reason
<1>8. \A c : Evaluate(c, x) = [allowed |-> Reason(c, x) = "pass",
                              confirm |-> Reason(c, x) \notin {"pass", "capability_denied"},
                              reason |-> Reason(c, x), tier |-> Tier(x)]
  BY Zenon DEF Evaluate
<1>9. \/ Evaluate(l, x) = Evaluate(k, x)
      \/ Evaluate(k, x).reason = "approval_required" /\ Tier(x) = "dangerous" /\ Evaluate(l, x).allowed
  <2>1. CASE Reason(l, x) = Reason(k, x)
    BY <1>8, <2>1, Zenon
  <2>2. CASE Reason(k, x) = "approval_required" /\ Tier(x) = "dangerous" /\ Reason(l, x) = "pass"
    BY <2>2, Zenon DEF Evaluate
  <2> QED
    BY <1>7, <2>1, <2>2
<1> QED
  BY <1>1, <1>9, Zenon DEF TrustOnlyReducesApproval

-----------------------------------------------------------------------------
(* An overlay as the agent's profiles, roles and modes carry one.          *)
IsOverlay(o) == o.minTier \in Tiers \cup {Unset} /\ o.escalate \in Nat

(* What the loop of EffectiveApprovalTier computes step by step, and its   *)
(* closed form: three tiers up is the top, wherever one starts.            *)
Climbs(up, start, e) == up = [n \in 0..e |-> IF n = 0 THEN start ELSE EscalateTier(up[n - 1])]

Climbed(start, n) ==
  IF n = 0 THEN start
  ELSE IF n = 1 THEN EscalateTier(start)
  ELSE IF n = 2 THEN EscalateTier(EscalateTier(start))
  ELSE "destructive"

LEMMA EscalationHasATop ==
  ASSUME NEW start, NEW e \in Nat, NEW up, Climbs(up, start, e)
  PROVE  up[e] = Climbed(start, e)
<1>1. \A t : EscalateTier(EscalateTier(EscalateTier(t))) = "destructive"
  BY DEF EscalateTier
<1>2. \A n \in 0..e : up[n] = IF n = 0 THEN start ELSE EscalateTier(up[n - 1])
  BY DEF Climbs
<1>3. CASE e \in 0..2
  BY <1>2, <1>3 DEF Climbed
<1>4. CASE e > 2
  <2>1. /\ e \in 0..e /\ e - 1 \in 0..e /\ (e - 1) - 1 \in 0..e
        /\ e # 0 /\ e - 1 # 0 /\ (e - 1) - 1 # 0
    BY <1>4
  <2>2. /\ up[e] = EscalateTier(up[e - 1])
        /\ up[e - 1] = EscalateTier(up[(e - 1) - 1])
        /\ up[(e - 1) - 1] = EscalateTier(up[((e - 1) - 1) - 1])
    BY <1>2, <2>1
  <2>3. up[e] = "destructive"
    BY <1>1, <2>2
  <2> QED
    BY <1>4, <2>3 DEF Climbed
<1> QED
  BY <1>3, <1>4

(* The closed form is a solution of the loop's equation.                   *)
LEMMA EscalationIsDefined ==
  ASSUME NEW start, NEW e \in Nat
  PROVE  Climbs([n \in 0..e |-> Climbed(start, n)], start, e)
<1>1. EscalateTier("destructive") = "destructive"
  BY DEF EscalateTier
<1>2. EscalateTier(EscalateTier(EscalateTier(start))) = "destructive"
  BY DEF EscalateTier
<1>3. ASSUME NEW n \in 0..e, n # 0 PROVE n - 1 \in 0..e /\ Climbed(start, n) = EscalateTier(Climbed(start, n - 1))
  BY <1>1, <1>2, <1>3 DEF Climbed
<1>4. Climbed(start, 0) = start
  BY DEF Climbed
<1> QED
  BY <1>3, <1>4 DEF Climbs

(* The rank of the tier that an overlay makes of a tool's.                 *)
Lifted(base, o, mutating) ==
  IF mutating /\ Rank(o.minTier) > Rank(base) THEN Rank(o.minTier) ELSE Rank(base)

LEMMA TierRank ==
  ASSUME NEW base \in Tiers, NEW o, IsOverlay(o), NEW mutating \in BOOLEAN
  PROVE  LET r == Lifted(base, o, mutating) + o.escalate IN
         Rank(EffectiveApprovalTier(base, o, mutating)) = IF r > 3 THEN 3 ELSE r
<1> DEFINE start == IF mutating /\ o.minTier # Unset THEN MaxTier(base, o.minTier) ELSE base
           up == CHOOSE f : f = [n \in 0..o.escalate |-> IF n = 0 THEN start ELSE EscalateTier(f[n - 1])]
<1>0. o.escalate \in Nat /\ o.minTier \in Tiers \cup {Unset}
  BY DEF IsOverlay
<1>1. start \in Tiers /\ Rank(start) = Lifted(base, o, mutating)
  BY <1>0 DEF MaxTier, Rank, Tiers, Unset, Lifted
<1>2. EffectiveApprovalTier(base, o, mutating) = up[o.escalate]
  BY DEF EffectiveApprovalTier
<1> HIDE DEF start
<1>3. Climbs(up, start, o.escalate)
  <2>1. \E f : Climbs(f, start, o.escalate)
    BY <1>0, EscalationIsDefined, Zenon
  <2> QED
    BY <2>1, Zenon DEF Climbs
<1> HIDE DEF up
<1>4. up[o.escalate] = Climbed(start, o.escalate)
  BY <1>0, <1>3, EscalationHasATop, Zenon
<1>5. LET r == Rank(start) + o.escalate IN Rank(up[o.escalate]) = IF r > 3 THEN 3 ELSE r
  BY <1>0, <1>1, <1>4 DEF Rank, Tiers, EscalateTier, Climbed
<1> QED
  BY <1>1, <1>2, <1>5

(* What an overlay asks for, another asks for as well.                     *)
Covers(o, alone) ==
  /\ Rank(alone.minTier) <= Rank(o.minTier) /\ alone.escalate <= o.escalate
  /\ alone.noAuto => o.noAuto
  /\ alone.remove \subseteq o.remove

(* A merge covers both of its parts.                                       *)
LEMMA MergeCovers ==
  ASSUME NEW a, NEW b, IsOverlay(a), IsOverlay(b)
  PROVE  /\ IsOverlay(MergeOverlays(a, b))
         /\ Covers(MergeOverlays(a, b), a) /\ Covers(MergeOverlays(a, b), b)
<1>1. PICK o : o = MergeOverlays(a, b)
  OBVIOUS
<1>2. /\ o.remove = a.remove \cup b.remove
      /\ o.noAuto = (a.noAuto \/ b.noAuto)
      /\ o.minTier = IF b.minTier # Unset THEN MaxTier(a.minTier, b.minTier) ELSE a.minTier
      /\ o.escalate = IF b.escalate > a.escalate THEN b.escalate ELSE a.escalate
  BY <1>1 DEF MergeOverlays
<1>3. /\ o.minTier \in Tiers \cup {Unset}
      /\ Rank(a.minTier) <= Rank(o.minTier) /\ Rank(b.minTier) <= Rank(o.minTier)
  BY <1>2 DEF IsOverlay, MaxTier, Rank, Tiers, Unset
<1>4. o.escalate \in Nat /\ a.escalate <= o.escalate /\ b.escalate <= o.escalate
  BY <1>2 DEF IsOverlay
<1> QED
  BY <1>1, <1>2, <1>3, <1>4, Zenon DEF IsOverlay, Covers

(* The effective profile is at least as strict as the prompt profile, the  *)
(* role and the mode it is merged from, for any overlays and any tool.     *)
THEOREM ProfileIsAsStrictAsItsParts ==
  ASSUME NEW p, NEW r, NEW m, IsOverlay(p), IsOverlay(r), IsOverlay(m),
         NEW alone \in {p, r, m},
         NEW base \in Tiers, NEW mutating \in BOOLEAN, NEW capabilities
  PROVE  MergedIsAsStrict(EffectivePolicyProfile(p, r, m), alone, base, mutating, capabilities)
<1>1. IsOverlay(NoOverlay)
  BY DEF IsOverlay, NoOverlay
<1>2. PICK o1 : o1 = MergeOverlays(NoOverlay, p)
  OBVIOUS
<1>3. PICK o2 : o2 = MergeOverlays(o1, r)
  OBVIOUS
<1>4. PICK o : o = MergeOverlays(o2, m)
  OBVIOUS
<1>5. o = EffectivePolicyProfile(p, r, m)
  BY <1>2, <1>3, <1>4 DEF EffectivePolicyProfile
<1>6. IsOverlay(o1) /\ Covers(o1, p)
  BY <1>1, <1>2, MergeCovers
<1>7. IsOverlay(o2) /\ Covers(o2, o1) /\ Covers(o2, r)
  BY <1>3, <1>6, MergeCovers
<1>8. IsOverlay(o) /\ Covers(o, o2) /\ Covers(o, m)
  BY <1>4, <1>7, MergeCovers
<1>9. \A t : Rank(t) \in Nat
  BY DEF Rank
<1>10. IsOverlay(alone) /\ Covers(o, alone)
  BY <1>6, <1>7, <1>8, <1>9 DEF Covers, IsOverlay
<1>11. Lifted(base, alone, mutating) <= Lifted(base, o, mutating)
  BY <1>9, <1>10 DEF Lifted, Covers
<1>12. Rank(EffectiveApprovalTier(base, alone, mutating)) <= Rank(EffectiveApprovalTier(base, o, mutating))
  <2>1. Lifted(base, alone, mutating) \in Nat /\ Lifted(base, o, mutating) \in Nat
    BY <1>9 DEF Lifted
  <2>2. alone.escalate <= o.escalate /\ alone.escalate \in Nat /\ o.escalate \in Nat
    BY <1>8, <1>10 DEF Covers, IsOverlay
  <2> QED
    BY <1>8, <1>10, <1>11, <2>1, <2>2, TierRank
<1>13. /\ alone.noAuto => o.noAuto
       /\ EffectiveCapabilities(capabilities, o) \cap alone.remove = {}
  BY <1>10 DEF Covers, EffectiveCapabilities
<1> QED
  BY <1>5, <1>12, <1>13 DEF MergedIsAsStrict

-----------------------------------------------------------------------------
(* The record of a request that has not begun has its fields' types.       *)
LEMMA NoCallType == NoCall \in CallRecords
BY RuntimeAssumption DEF NoCall, CallRecords, PCs, Reasons

(* The runtime starts with the right types.                                *)
LEMMA InitTypes == Init => TypeOK
BY NoCallType, RuntimeAssumption DEF Init, TypeOK

(* What the steps write into the record of a call.                         *)
LEMMA CallRecordUpdates ==
  ASSUME NEW r \in CallRecords, NEW q \in PCs
  PROVE  /\ [r EXCEPT !.pc = q] \in CallRecords
         /\ [r EXCEPT !.pc = q, !.verdict = "missing"] \in CallRecords
         /\ [r EXCEPT !.pc = q, !.verdict = "mismatch"] \in CallRecords
         /\ \A d \in Calls, n \in 0..MaxTime :
               [r EXCEPT !.pc = q, !.verdict = "granted", !.used = d, !.at = n] \in CallRecords
         /\ \A x \in Reasons : [r EXCEPT !.reason = x, !.pc = q] \in CallRecords
         /\ \A b \in BOOLEAN, n \in 0..MaxTime : [r EXCEPT !.pc = q, !.ok = b, !.confirmed = n] \in CallRecords
         /\ [r EXCEPT !.pc = q, !.ok = TRUE] \in CallRecords
         /\ [r EXCEPT !.pc = q, !.unlogged = TRUE] \in CallRecords
<1>1. ASSUME NEW s \in CallRecords
      PROVE  /\ \A x \in PCs : [s EXCEPT !.pc = x] \in CallRecords
             /\ \A v \in {"missing", "mismatch", "granted"} : [s EXCEPT !.verdict = v] \in CallRecords
             /\ \A d \in Calls : [s EXCEPT !.used = d] \in CallRecords
             /\ \A n \in 0..MaxTime : [s EXCEPT !.at = n] \in CallRecords
             /\ \A x \in Reasons : [s EXCEPT !.reason = x] \in CallRecords
             /\ \A n \in 0..MaxTime : [s EXCEPT !.confirmed = n] \in CallRecords
             /\ \A b \in BOOLEAN : [s EXCEPT !.ok = b] \in CallRecords
             /\ [s EXCEPT !.unlogged = TRUE] \in CallRecords
  <2>1. ASSUME NEW x \in PCs PROVE [s EXCEPT !.pc = x] \in CallRecords
    BY DEF CallRecords
  <2>2. ASSUME NEW v \in {"missing", "mismatch", "granted"} PROVE [s EXCEPT !.verdict = v] \in CallRecords
    BY DEF CallRecords
  <2>3. ASSUME NEW d \in Calls PROVE [s EXCEPT !.used = d] \in CallRecords
    BY DEF CallRecords
  <2>4. ASSUME NEW n \in 0..MaxTime PROVE [s EXCEPT !.at = n] \in CallRecords
    BY DEF CallRecords
  <2>5. ASSUME NEW x \in Reasons PROVE [s EXCEPT !.reason = x] \in CallRecords
    BY DEF CallRecords
  <2>6. ASSUME NEW n \in 0..MaxTime PROVE [s EXCEPT !.confirmed = n] \in CallRecords
    BY DEF CallRecords
  <2>7. ASSUME NEW b \in BOOLEAN PROVE [s EXCEPT !.ok = b] \in CallRecords
    BY DEF CallRecords
  <2>8. [s EXCEPT !.unlogged = TRUE] \in CallRecords
    BY Zenon DEF CallRecords
  <2> QED
    BY <2>1, <2>2, <2>3, <2>4, <2>5, <2>6, <2>7, <2>8
<1> DEFINE moved == [r EXCEPT !.pc = q]
           found == [moved EXCEPT !.verdict = "granted"]
<1>2. moved \in CallRecords
  BY ZenonT(60), <1>1
<1>3. found \in CallRecords
  BY ZenonT(60), <1>1, <1>2
<1>4. ASSUME NEW d \in Calls, NEW n \in 0..MaxTime
      PROVE  [[found EXCEPT !.used = d] EXCEPT !.at = n] \in CallRecords
  <2>1. [found EXCEPT !.used = d] \in CallRecords
    BY ZenonT(60), <1>1, <1>3
  <2> QED
    BY ZenonT(60), <1>1, <2>1
<1>5. ASSUME NEW b \in BOOLEAN, NEW n \in 0..MaxTime
      PROVE  [[moved EXCEPT !.ok = b] EXCEPT !.confirmed = n] \in CallRecords
  <2>1. [moved EXCEPT !.ok = b] \in CallRecords
    BY ZenonT(60), <1>1, <1>2
  <2> QED
    BY ZenonT(60), <1>1, <2>1
<1>6. ASSUME NEW x \in Reasons PROVE [[r EXCEPT !.reason = x] EXCEPT !.pc = q] \in CallRecords
  BY ZenonT(60), <1>1
<1> QED
  BY ZenonT(60), <1>1, <1>2, <1>4, <1>5, <1>6

(* Dropping expired records adds none.                                     *)
LEMMA UnexpiredSubset == ASSUME NEW S PROVE Unexpired(S) \subseteq S
BY DEF Unexpired

(* Every step keeps the types.  That an approval is for a request in a     *)
(* mode needs to know that a call past "idle" has both.                    *)
LEMMA TypeStep == TypeOK /\ CallInv /\ [Next]_vars => TypeOK'
<1> SUFFICES ASSUME TypeOK, CallInv, [Next]_vars PROVE TypeOK'
  OBVIOUS
<1> USE RuntimeAssumption
<1>0. /\ call \in [Calls -> CallRecords] /\ clock \in 0..MaxTime
      /\ \A p \in pending : p \in [id : Calls, key : Keys, expires : Nat]
      /\ \A g \in grants : g \in [token : Calls, id : Calls, key : Keys, expires : Nat]
  BY DEF TypeOK
<1>pc. {"evaluate", "audit", "done"} \subseteq PCs
  BY DEF PCs
<1>set. ASSUME NEW c \in Calls, NEW s \in CallRecords, call' = [call EXCEPT ![c] = s]
        PROVE  call' \in [Calls -> CallRecords]
  BY <1>0, <1>set
<1>1. ASSUME NEW c \in Calls, NEW t \in Targets, NEW token \in Calls \cup {None}, Begin(c, t, token)
      PROVE  TypeOK'
  <2>1. [NoCall EXCEPT !.pc = "verify", !.target = t, !.profile = profile, !.mode = mode, !.token = token] \in CallRecords
    BY ZenonT(60), NoCallType DEF CallRecords, PCs, TypeOK
  <2>2. call' \in [Calls -> CallRecords]
    BY <1>0, <1>1, <2>1 DEF Begin
  <2> QED
    BY <1>1, <2>2 DEF TypeOK, Begin
<1>2. ASSUME NEW c \in Calls, PrepareFails(c) PROVE TypeOK'
  <2>1. call' \in [Calls -> CallRecords]
    BY <1>0, <1>2 DEF PrepareFails, CallRecords, PCs
  <2> QED
    BY <1>2, <2>1 DEF TypeOK, PrepareFails
<1>3. ASSUME NEW c \in Calls, Verify(c) PROVE TypeOK'
  <2>1. Unexpired(grants) \subseteq grants /\ Unexpired(pending) \subseteq pending
    BY UnexpiredSubset
  <2>2. \A g \in grants : [call[c] EXCEPT !.pc = "evaluate", !.verdict = "granted", !.used = g.id, !.at = clock] \in CallRecords
    BY ZenonT(60), <1>0, <1>pc, CallRecordUpdates
  <2>3. /\ [call[c] EXCEPT !.pc = "evaluate", !.verdict = "missing"] \in CallRecords
        /\ [call[c] EXCEPT !.pc = "evaluate", !.verdict = "mismatch"] \in CallRecords
    BY ZenonT(60), <1>0, <1>pc, CallRecordUpdates
  <2>4. \E s \in CallRecords : call' = [call EXCEPT ![c] = s]
    BY <1>3, <2>1, <2>2, <2>3, Zenon DEF Verify
  <2>5. grants' \subseteq grants /\ pending' \subseteq pending
    BY ZenonT(60), <1>3, <2>1 DEF Verify
  <2> QED
    BY ZenonT(60), <1>3, <1>set, <2>4, <2>5 DEF TypeOK, Verify
<1>4. ASSUME NEW c \in Calls, EvaluatePolicy(c) PROVE TypeOK'
  <2> DEFINE d == Evaluate(cfg, PolicyContext(c, call[c].verdict = "granted"))
  <2>1. d.reason \in Reasons /\ "mismatch" \in Reasons
    BY ReasonType DEF Reasons
  <2> HIDE DEF d
  <2>2. \A q \in PCs, r \in Reasons : [call[c] EXCEPT !.reason = r, !.pc = q] \in CallRecords
    BY ZenonT(60), <1>0, CallRecordUpdates
  <2>3. \E q \in PCs, r \in Reasons : call' = [call EXCEPT ![c] = [call[c] EXCEPT !.reason = r, !.pc = q]]
    BY ZenonT(60), <1>0, <1>4, <2>1 DEF EvaluatePolicy, PCs, d
  <2>4. \E s \in CallRecords : call' = [call EXCEPT ![c] = s]
    BY <2>2, <2>3, Zenon
  <2> QED
    BY <1>4, <1>set, <2>4 DEF TypeOK, EvaluatePolicy
<1>5. ASSUME NEW c \in Calls, Create(c) PROVE TypeOK'
  <2>1. call' \in [Calls -> CallRecords]
    BY <1>0, <1>5 DEF Create, CallRecords, PCs
  <2>2. Key(c) \in Keys
    BY <1>5 DEF Create, At, CallInv, RequestOK, Key, Keys
  <2>3. [id |-> c, key |-> Key(c), expires |-> clock + TTL] \in [id : Calls, key : Keys, expires : Nat]
    BY <1>0, <2>2
  <2> QED
    BY <1>5, <2>1, <2>3, UnexpiredSubset DEF TypeOK, Create
<1>6. ASSUME NEW c \in Calls, Confirm(c) PROVE TypeOK'
  <2>1. \E s \in CallRecords : call' = [call EXCEPT ![c] = s]
    <3>1. call[c] \in CallRecords /\ "audit" \in PCs
      BY <1>0 DEF PCs
    <3>2. \A b \in BOOLEAN : [call[c] EXCEPT !.pc = "audit", !.ok = b, !.confirmed = clock] \in CallRecords
      BY ZenonT(60), <1>0, <3>1, CallRecordUpdates
    <3> QED
      BY ZenonT(60), <1>6, <3>2 DEF Confirm
  <2>2. \A p \in pending : [token |-> c, id |-> p.id, key |-> p.key, expires |-> clock + TTL]
                              \in [token : Calls, id : Calls, key : Keys, expires : Nat]
    BY <1>0
  <2>3. pending' \subseteq pending /\ \A g \in grants' : g \in [token : Calls, id : Calls, key : Keys, expires : Nat]
    BY <1>0, <1>6, <2>2, UnexpiredSubset DEF Confirm
  <2> QED
    BY ZenonT(60), <1>6, <1>set, <2>1, <2>3 DEF TypeOK, Confirm
<1>7. ASSUME NEW c \in Calls, Execute(c) PROVE TypeOK'
  <2>1. [call[c] EXCEPT !.pc = "audit", !.ok = TRUE] \in CallRecords
    BY ZenonT(60), <1>0, <1>pc, CallRecordUpdates
  <2>2. call' \in [Calls -> CallRecords]
    BY <1>0, <1>7, <2>1 DEF Execute
  <2> QED
    BY <1>7, <2>2 DEF TypeOK, Execute
<1>8. ASSUME NEW c \in Calls, ExecuteFails(c) PROVE TypeOK'
  <2>1. call' \in [Calls -> CallRecords]
    BY <1>0, <1>8 DEF ExecuteFails, CallRecords, PCs
  <2> QED
    BY <1>8, <2>1 DEF TypeOK, ExecuteFails
<1>9. ASSUME NEW c \in Calls, AppendAudit(c) \/ AppendAuditFails(c) PROVE TypeOK'
  <2>1. /\ [call[c] EXCEPT !.pc = "done"] \in CallRecords
        /\ [call[c] EXCEPT !.pc = "done", !.unlogged = TRUE] \in CallRecords
    BY ZenonT(60), <1>0, <1>pc, CallRecordUpdates
  <2>0. log' = log \/ log' = Append(log, c)
    BY <1>9, Zenon DEF AppendAudit, AppendAuditFails
  <2>2. log' \in Seq(Calls)
    BY <2>0 DEF TypeOK
  <2>3. \E s \in CallRecords : call' = [call EXCEPT ![c] = s]
    BY <1>9, <2>1, Zenon DEF AppendAudit, AppendAuditFails
  <2>4. call' \in [Calls -> CallRecords]
    BY ZenonT(60), <1>set, <2>3
  <2> QED
    BY <1>9, <2>2, <2>4 DEF TypeOK, AppendAudit, AppendAuditFails
<1>10. CASE \E p \in Profiles : SetActiveProfile(p)
  BY <1>10 DEF TypeOK, SetActiveProfile
<1>11. CASE \E m \in Modes : SetActiveMode(m)
  BY <1>11 DEF TypeOK, SetActiveMode
<1>12. CASE Tick
  BY <1>12 DEF TypeOK, Tick
<1>13. CASE Restart
  <2>1. call' \in [Calls -> CallRecords]
    BY <1>0, <1>13 DEF Restart, CallRecords, PCs
  <2> QED
    BY <1>13, <2>1 DEF TypeOK, Restart
<1>14. CASE UNCHANGED vars
  BY <1>14 DEF TypeOK, vars
<1> QED
  BY <1>1, <1>2, <1>3, <1>4, <1>5, <1>6, <1>7, <1>8, <1>9, <1>10, <1>11, <1>12, <1>13, <1>14 DEF Next

-----------------------------------------------------------------------------
(* What a step leaves alone.                                               *)
SameOthers(c) == \A d \in Calls \ {c} : call'[d] = call[d]
SameRequest(c) ==
  /\ call'[c].target = call[c].target /\ call'[c].token = call[c].token
  /\ call'[c].profile = call[c].profile /\ call'[c].mode = call[c].mode
SameUse(c) == call'[c].verdict = call[c].verdict /\ call'[c].used = call[c].used /\ call'[c].at = call[c].at
SameResult(c) == call'[c].ok = call[c].ok /\ call'[c].confirmed = call[c].confirmed
SameReason(c) == call'[c].reason = call[c].reason
SameLogged(c) == call'[c].unlogged = call[c].unlogged

(* The record of a call has all its fields.                                *)
LEMMA CallDomain ==
  ASSUME TypeOK, NEW c \in Calls
  PROVE  /\ call = [d \in Calls |-> call[d]]
         /\ DOMAIN call[c] = {"pc", "target", "profile", "mode", "token", "verdict", "used", "reason",
                              "at", "confirmed", "ok", "unlogged"}
BY DEF TypeOK, CallRecords

(* What each step of Execute writes into the record of its call.           *)
LEMMA BeginEffect ==
  ASSUME TypeOK, NEW c \in Calls, NEW t, NEW token, Begin(c, t, token)
  PROVE  /\ At(c, "idle") /\ call'[c].pc = "verify" /\ call'[c].target = t /\ call'[c].token = token
         /\ call'[c].profile = profile /\ call'[c].mode = mode
         /\ call'[c].verdict = "none" /\ call'[c].used = None /\ call'[c].reason = "none"
         /\ call'[c].ok = FALSE /\ SameOthers(c)
BY CallDomain DEF Begin, NoCall, SameOthers

(* A failed prepare answers the request as it is.                          *)
LEMMA PrepareFailsEffect ==
  ASSUME TypeOK, NEW c \in Calls, PrepareFails(c)
  PROVE  /\ At(c, "verify") /\ call'[c].pc = "done" /\ SameOthers(c)
         /\ SameRequest(c) /\ SameUse(c) /\ SameResult(c) /\ SameReason(c) /\ SameLogged(c)
BY CallDomain DEF PrepareFails, SameOthers, SameRequest, SameUse, SameResult, SameReason, SameLogged

(* A tool that ran is a success of its request.                            *)
LEMMA ExecuteEffect ==
  ASSUME TypeOK, NEW c \in Calls, Execute(c)
  PROVE  /\ At(c, "execute") /\ call'[c].pc = "audit" /\ SameOthers(c)
         /\ SameRequest(c) /\ SameUse(c) /\ call'[c].ok /\ call'[c].confirmed = call[c].confirmed
         /\ SameReason(c) /\ SameLogged(c)
BY CallDomain DEF Execute, SameOthers, SameRequest, SameUse, SameResult, SameReason, SameLogged

(* safety.confirm succeeds when the approval is still there.               *)
LEMMA ConfirmEffect ==
  ASSUME TypeOK, NEW c \in Calls, Confirm(c)
  PROVE  /\ At(c, "execute") /\ call'[c].pc = "audit" /\ SameOthers(c)
         /\ SameRequest(c) /\ SameUse(c) /\ call'[c].confirmed = clock
         /\ call'[c].ok = (\E p \in Unexpired(pending) : p.id = call[c].target)
         /\ SameReason(c) /\ SameLogged(c)
BY ZenonT(60), CallDomain DEF Confirm, SameOthers, SameRequest, SameUse, SameResult, SameReason, SameLogged

(* A tool that failed is no success.                                       *)
LEMMA ExecuteFailsEffect ==
  ASSUME TypeOK, NEW c \in Calls, ExecuteFails(c)
  PROVE  /\ At(c, "execute") /\ call'[c].pc = "audit" /\ SameOthers(c)
         /\ SameRequest(c) /\ SameUse(c) /\ SameResult(c) /\ SameReason(c) /\ SameLogged(c)
BY CallDomain DEF ExecuteFails, SameOthers, SameRequest, SameUse, SameResult, SameReason, SameLogged

(* Asking for an approval leaves the request to be audited.                *)
LEMMA CreateEffect ==
  ASSUME TypeOK, NEW c \in Calls, Create(c)
  PROVE  /\ At(c, "create") /\ call'[c].pc = "audit" /\ SameOthers(c)
         /\ SameRequest(c) /\ SameUse(c) /\ SameResult(c) /\ SameReason(c) /\ SameLogged(c)
BY CallDomain DEF Create, SameOthers, SameRequest, SameUse, SameResult, SameReason, SameLogged

(* The audit answers the request.                                          *)
LEMMA AppendAuditEffect ==
  ASSUME TypeOK, NEW c \in Calls, AppendAudit(c)
  PROVE  /\ At(c, "audit") /\ call'[c].pc = "done" /\ SameOthers(c)
         /\ SameRequest(c) /\ SameUse(c) /\ SameResult(c) /\ SameReason(c) /\ SameLogged(c)
BY CallDomain DEF AppendAudit, SameOthers, SameRequest, SameUse, SameResult, SameReason, SameLogged

(* A dropped audit event is remembered.                                    *)
LEMMA AppendAuditFailsEffect ==
  ASSUME TypeOK, NEW c \in Calls, AppendAuditFails(c)
  PROVE  /\ At(c, "audit") /\ call'[c].pc = "done" /\ SameOthers(c) /\ call'[c].unlogged
         /\ SameRequest(c) /\ SameUse(c) /\ SameResult(c) /\ SameReason(c)
BY CallDomain DEF AppendAuditFails, SameOthers, SameRequest, SameUse, SameResult, SameReason

(* The policy gives a reason, and lets execute only what it allows.        *)
LEMMA EvaluatePolicyEffect ==
  ASSUME TypeOK, NEW c \in Calls, EvaluatePolicy(c)
  PROVE  /\ At(c, "evaluate") /\ SameOthers(c)
         /\ SameRequest(c) /\ SameUse(c) /\ SameResult(c) /\ SameLogged(c)
         /\ call'[c].pc \in {"audit", "create", "execute"} /\ call'[c].reason # "none"
         /\ call'[c].pc = "execute" => Evaluate(cfg, PolicyContext(c, call[c].verdict = "granted")).allowed
<1> DEFINE d == Evaluate(cfg, PolicyContext(c, call[c].verdict = "granted"))
<1>1. d.reason # "none"
  BY ReasonType
<1> HIDE DEF d
<1>2. At(c, "evaluate") /\ SameOthers(c) /\ SameRequest(c) /\ SameUse(c) /\ SameResult(c) /\ SameLogged(c)
  BY CallDomain DEF EvaluatePolicy, SameOthers, SameRequest, SameUse, SameResult, SameLogged
<1>3. /\ call'[c].reason = IF call[c].verdict = "mismatch" THEN "mismatch" ELSE d.reason
      /\ call'[c].pc = IF call[c].verdict = "mismatch" THEN "audit"
                       ELSE IF d.confirm THEN "create" ELSE IF d.allowed THEN "execute" ELSE "audit"
  BY CallDomain DEF EvaluatePolicy, d
<1> QED
  BY <1>1, <1>2, <1>3 DEF d

(* The call of approvalStore.Verify: no approval is used, or the one of    *)
(* the token the request shows, which was for the request's intent.        *)
Grants(c, g) ==
  /\ g \in grants /\ clock <= g.expires /\ g.token = call[c].token /\ g.key = Key(c)
  /\ g \notin grants' /\ call'[c].used = g.id /\ call'[c].at = clock

(* Verify spends at most the grant of the token that is shown.             *)
LEMMA VerifyEffect ==
  ASSUME TypeOK, NEW c \in Calls, Verify(c)
  PROVE  /\ At(c, "verify") /\ call'[c].pc = "evaluate" /\ SameOthers(c)
         /\ SameRequest(c) /\ SameResult(c) /\ SameReason(c) /\ SameLogged(c)
         /\ grants' \subseteq grants /\ pending' \subseteq pending
         /\ \A g \in grants \ grants' : g.expires < clock \/ Grants(c, g)
         /\ \/ call'[c].used = call[c].used /\ call'[c].verdict # "granted"
            \/ \E g \in grants : Grants(c, g)
<1> DEFINE live == Unexpired(grants)
           shown == {g \in live : g.token = call[c].token}
<1>0. /\ At(c, "verify") /\ pending' = Unexpired(pending)
      /\ live \subseteq grants /\ shown \subseteq live /\ \A g \in live : clock <= g.expires
      /\ \A g \in grants \ live : ~(clock <= g.expires)
  BY Zenon DEF Verify, Unexpired
<1>e. \A g \in grants \ live : g.expires < clock
  BY <1>0, RuntimeAssumption DEF TypeOK
<1>1. CASE /\ grants' = live
           /\ \E v \in {"missing", "mismatch"} :
                call' = [call EXCEPT ![c] = [call[c] EXCEPT !.pc = "evaluate", !.verdict = v]]
  <2>1. /\ call'[c].pc = "evaluate" /\ SameOthers(c) /\ SameRequest(c) /\ SameResult(c) /\ SameReason(c)
        /\ SameLogged(c) /\ call'[c].used = call[c].used /\ call'[c].verdict # "granted"
    BY <1>1, CallDomain DEF SameOthers, SameRequest, SameResult, SameReason, SameLogged
  <2> QED
    BY <1>0, <1>e, <1>1, <2>1 DEF Unexpired
<1>2. CASE \E g \in shown :
             /\ g.key = Key(c) /\ grants' = live \ {g}
             /\ call' = [call EXCEPT ![c] = [call[c] EXCEPT !.pc = "evaluate", !.verdict = "granted", !.used = g.id, !.at = clock]]
  <2>1. PICK g \in shown :
             /\ g.key = Key(c) /\ grants' = live \ {g}
             /\ call' = [call EXCEPT ![c] = [call[c] EXCEPT !.pc = "evaluate", !.verdict = "granted", !.used = g.id, !.at = clock]]
    BY ZenonT(60), <1>2
  <2>2. /\ call'[c].pc = "evaluate" /\ SameOthers(c) /\ SameRequest(c) /\ SameResult(c) /\ SameReason(c)
        /\ SameLogged(c) /\ call'[c].used = g.id /\ call'[c].at = clock
    BY <2>1, CallDomain DEF SameOthers, SameRequest, SameResult, SameReason, SameLogged
  <2>3. Grants(c, g)
    BY <1>0, <2>1, <2>2 DEF Grants
  <2>4. \A h \in grants \ grants' : h.expires < clock \/ Grants(c, h)
    BY <1>0, <1>e, <2>1, <2>3
  <2> QED
    BY <1>0, <2>1, <2>2, <2>3, <2>4 DEF Unexpired
<1> QED
  BY <1>1, <1>2, Zenon DEF Verify

(* A restart loses the requests that are not answered.                     *)
LEMMA RestartEffect ==
  ASSUME TypeOK, NEW c \in Calls, Restart
  PROVE  \/ call[c].pc \in {"idle", "done"} /\ call'[c] = call[c]
         \/ /\ call[c].pc \notin {"idle", "done"} /\ call'[c].pc = "lost" /\ SameRequest(c)
            /\ SameUse(c) /\ SameResult(c) /\ SameReason(c) /\ SameLogged(c)
BY CallDomain DEF Restart, SameRequest, SameUse, SameResult, SameReason, SameLogged

-----------------------------------------------------------------------------
(* What no step changes: the request a call is, the approval it uses once  *)
(* it is past Verify, its result once it is Fixed, and all of it at the    *)
(* end.                                                                    *)
Stays(d) ==
  /\ ~At(d, "idle") => SameRequest(d) /\ call'[d].pc # "idle"
  /\ call[d].pc \notin {"idle", "verify"} => SameUse(d) /\ call'[d].pc \notin {"idle", "verify"}
  /\ Fixed(d) => SameResult(d) /\ SameReason(d) /\ call'[d].pc \in {"audit", "done", "lost"}
  /\ At(d, "done") => call'[d] = call[d]

(* A step of another call leaves all of it.                                *)
LEMMA StaysWhenSame == ASSUME NEW d, call'[d] = call[d] PROVE Stays(d)
BY DEF Stays, SameRequest, SameUse, SameResult, SameReason, Fixed, At

(* No step of any call changes what Stays names.                           *)
LEMMA StepStays ==
  ASSUME TypeOK, [Next]_vars, NEW d \in Calls
  PROVE  Stays(d)
<1> USE DEF At, Fixed
<1>1. ASSUME NEW c \in Calls, NEW t, NEW token, Begin(c, t, token) PROVE Stays(d)
  BY ZenonT(60), <1>1, BeginEffect, StaysWhenSame DEF SameOthers, Stays
<1>2. ASSUME NEW c \in Calls, PrepareFails(c) PROVE Stays(d)
  BY <1>2, PrepareFailsEffect, StaysWhenSame DEF SameOthers, Stays
<1>3. ASSUME NEW c \in Calls, Verify(c) PROVE Stays(d)
  BY <1>3, VerifyEffect, StaysWhenSame DEF SameOthers, Stays
<1>4. ASSUME NEW c \in Calls, EvaluatePolicy(c) PROVE Stays(d)
  BY <1>4, EvaluatePolicyEffect, StaysWhenSame DEF SameOthers, Stays
<1>5. ASSUME NEW c \in Calls, Create(c) PROVE Stays(d)
  BY <1>5, CreateEffect, StaysWhenSame DEF SameOthers, Stays
<1>6. ASSUME NEW c \in Calls, Confirm(c) PROVE Stays(d)
  BY ZenonT(60), <1>6, ConfirmEffect, StaysWhenSame DEF SameOthers, Stays
<1>7. ASSUME NEW c \in Calls, Execute(c) PROVE Stays(d)
  BY <1>7, ExecuteEffect, StaysWhenSame DEF SameOthers, Stays
<1>8. ASSUME NEW c \in Calls, ExecuteFails(c) PROVE Stays(d)
  BY <1>8, ExecuteFailsEffect, StaysWhenSame DEF SameOthers, Stays
<1>9. ASSUME NEW c \in Calls, AppendAudit(c) PROVE Stays(d)
  BY <1>9, AppendAuditEffect, StaysWhenSame DEF SameOthers, Stays
<1>10. ASSUME NEW c \in Calls, AppendAuditFails(c) PROVE Stays(d)
  BY <1>10, AppendAuditFailsEffect, StaysWhenSame DEF SameOthers, Stays
<1>11. CASE Restart
  BY <1>11, RestartEffect, StaysWhenSame DEF Stays
<1>12. CASE UNCHANGED call
  BY <1>12, StaysWhenSame
<1> QED
  BY <1>1, <1>2, <1>3, <1>4, <1>5, <1>6, <1>7, <1>8, <1>9, <1>10, <1>11, <1>12
     DEF Next, SetActiveProfile, SetActiveMode, Tick, vars

(* What was said of an answered, a fixed or a used request holds on.       *)
LEMMA AnsweredStays ==
  ASSUME TypeOK, [Next]_vars, NEW d \in Calls, Answered(d)
  PROVE  Answered(d)' /\ call'[d] = call[d]
BY StepStays DEF Stays, Answered, At

(* A fixed request keeps its intent, its approval and its result.          *)
LEMMA FixedStays ==
  ASSUME TypeOK, [Next]_vars, NEW d \in Calls, Fixed(d)
  PROVE  Fixed(d)' /\ SameRequest(d) /\ SameUse(d) /\ SameResult(d) /\ SameReason(d) /\ Key(d)' = Key(d)
BY StepStays DEF Stays, Fixed, At, Key, SameRequest

-----------------------------------------------------------------------------
(* Every step keeps the progress of every request consistent.              *)
LEMMA ProgressStep ==
  ASSUME TypeOK, CallInv, [Next]_vars, NEW d \in Calls
  PROVE  ProgressOK(d)'
<1> USE DEF At, Fixed
<1>0. ProgressOK(d)
  BY DEF CallInv
<1>s. ASSUME call'[d] = call[d] PROVE ProgressOK(d)'
  BY <1>0, <1>s DEF ProgressOK
<1>1. ASSUME NEW c \in Calls, NEW t, NEW token, Begin(c, t, token) PROVE ProgressOK(d)'
  BY ZenonT(60), <1>1, <1>s, BeginEffect DEF SameOthers, ProgressOK
<1>2. ASSUME NEW c \in Calls, PrepareFails(c) PROVE ProgressOK(d)'
  BY <1>0, <1>2, <1>s, PrepareFailsEffect DEF SameOthers, ProgressOK, SameUse, SameResult, SameReason
<1>3. ASSUME NEW c \in Calls, Verify(c) PROVE ProgressOK(d)'
  <2>1. ASSUME NEW g \in grants, Grants(c, g) PROVE call'[c].used \in Calls
    BY <2>1 DEF Grants, TypeOK
  <2> QED
    BY <1>0, <1>3, <1>s, <2>1, VerifyEffect, RuntimeAssumption DEF SameOthers, ProgressOK, SameResult, SameReason
<1>4. ASSUME NEW c \in Calls, EvaluatePolicy(c) PROVE ProgressOK(d)'
  BY <1>0, <1>4, <1>s, EvaluatePolicyEffect DEF SameOthers, ProgressOK, SameUse, SameResult
<1>5. ASSUME NEW c \in Calls, Create(c) PROVE ProgressOK(d)'
  BY <1>0, <1>5, <1>s, CreateEffect DEF SameOthers, ProgressOK, SameUse, SameResult, SameReason
<1>6. ASSUME NEW c \in Calls, Confirm(c) PROVE ProgressOK(d)'
  BY ZenonT(60), <1>0, <1>6, <1>s, ConfirmEffect DEF SameOthers, ProgressOK, SameUse, SameReason
<1>7. ASSUME NEW c \in Calls, Execute(c) PROVE ProgressOK(d)'
  BY <1>0, <1>7, <1>s, ExecuteEffect DEF SameOthers, ProgressOK, SameUse, SameReason
<1>8. ASSUME NEW c \in Calls, ExecuteFails(c) PROVE ProgressOK(d)'
  BY <1>0, <1>8, <1>s, ExecuteFailsEffect DEF SameOthers, ProgressOK, SameUse, SameResult, SameReason
<1>9. ASSUME NEW c \in Calls, AppendAudit(c) PROVE ProgressOK(d)'
  BY <1>0, <1>9, <1>s, AppendAuditEffect DEF SameOthers, ProgressOK, SameUse, SameResult, SameReason
<1>10. ASSUME NEW c \in Calls, AppendAuditFails(c) PROVE ProgressOK(d)'
  BY <1>0, <1>10, <1>s, AppendAuditFailsEffect DEF SameOthers, ProgressOK, SameUse, SameResult, SameReason
<1>11. CASE Restart
  BY <1>0, <1>11, <1>s, RestartEffect DEF ProgressOK, SameUse, SameResult, SameReason
<1>12. CASE UNCHANGED call
  BY <1>12, <1>s
<1> QED
  BY <1>1, <1>2, <1>3, <1>4, <1>5, <1>6, <1>7, <1>8, <1>9, <1>10, <1>11, <1>12
     DEF Next, SetActiveProfile, SetActiveMode, Tick, vars

(* Only Begin moves an idle call.                                          *)
LEMMA IdleSteps ==
  ASSUME TypeOK, [Next]_vars, NEW d \in Calls, At(d, "idle")
  PROVE  \/ call'[d] = call[d]
         \/ \E t \in Targets, token \in Calls \cup {None} : Begin(d, t, token)
<1> USE DEF At
<1>1. ASSUME NEW c \in Calls, NEW t \in Targets, NEW token \in Calls \cup {None}, Begin(c, t, token)
      PROVE  call'[d] = call[d] \/ Begin(d, t, token)
  BY ZenonT(60), <1>1, BeginEffect DEF SameOthers
<1>2. ASSUME NEW c \in Calls,
             \/ PrepareFails(c) \/ Verify(c) \/ EvaluatePolicy(c) \/ Create(c) \/ Confirm(c)
             \/ Execute(c) \/ ExecuteFails(c) \/ AppendAudit(c) \/ AppendAuditFails(c)
      PROVE  call'[d] = call[d]
  <2>1. SameOthers(c)
    BY ZenonT(60), <1>2, PrepareFailsEffect, VerifyEffect, EvaluatePolicyEffect, CreateEffect, ConfirmEffect,
       ExecuteEffect, ExecuteFailsEffect, AppendAuditEffect, AppendAuditFailsEffect
  <2>2. c # d
    BY ZenonT(60), <1>2, PrepareFailsEffect, VerifyEffect, EvaluatePolicyEffect, CreateEffect, ConfirmEffect,
       ExecuteEffect, ExecuteFailsEffect, AppendAuditEffect, AppendAuditFailsEffect
  <2> QED
    BY <2>1, <2>2 DEF SameOthers
<1>3. CASE Restart
  BY <1>3, RestartEffect
<1>4. CASE UNCHANGED call
  BY <1>4
<1> QED
  BY <1>1, <1>2, <1>3, <1>4 DEF Next, SetActiveProfile, SetActiveMode, Tick, vars

(* Every step keeps what requests say of other requests.                   *)
LEMMA RequestStep ==
  ASSUME TypeOK, CallInv, [Next]_vars, NEW d \in Calls
  PROVE  RequestOK(d)'
<1>0. RequestOK(d)
  BY DEF CallInv
<1>t. call[d].token \in Calls \cup {None}
  BY DEF TypeOK, CallRecords
<1>1. CASE SameRequest(d) /\ (call[d].pc = "idle" => call'[d].pc = "idle")
  <2>1. ASSUME NEW x \in Calls, x = call[d].target PROVE Answered(x)'
    <3>1. Answered(x)
      BY <1>0, <2>1 DEF RequestOK
    <3> QED
      BY <3>1, AnsweredStays
  <2>2. ASSUME NEW x \in Calls, x = call[d].token, x # None PROVE Answered(x)' /\ call'[x].target \in Calls
    <3>1. Answered(x) /\ call[x].target \in Calls
      BY <1>0, <2>2 DEF RequestOK
    <3> QED
      BY <3>1, AnsweredStays
  <2> QED
    BY <1>0, <1>t, <1>1, <2>1, <2>2 DEF RequestOK, SameRequest, Answered, At
<1>2. CASE \E t \in Targets, token \in Calls \cup {None} : Begin(d, t, token)
  <2>1. PICK t \in Targets, token \in Calls \cup {None} : Begin(d, t, token)
    BY <1>2
  <2>2. call'[d].target = t /\ call'[d].token = token /\ call'[d].mode = mode
    BY ZenonT(60), <2>1, BeginEffect
  <2>0. t \in Requests \cup AskedFor /\ token \in Tokens \cup {None}
    BY <2>1 DEF Begin
  <2>3. ASSUME t \in Calls PROVE Answered(t)'
    <3>1. Answered(t)
      BY <2>0, <2>3, RuntimeAssumption DEF AskedFor, Answered
    <3> QED
      BY <2>3, <3>1, AnsweredStays
  <2>4. ASSUME token # None PROVE Answered(token)' /\ call'[token].target \in Calls
    <3>1. token \in Calls /\ At(token, "done") /\ call[token].target \in Calls /\ call[token].ok
      BY <2>0, <2>4 DEF Tokens
    <3>2. Answered(token)
      BY <3>1 DEF CallInv, ProgressOK, Answered
    <3> QED
      BY <3>1, <3>2, AnsweredStays
  <2> QED
    BY <2>2, <2>3, <2>4 DEF RequestOK, TypeOK, Answered, At
<1> QED
  BY <1>1, <1>2, IdleSteps, StepStays DEF Stays, SameRequest, At

-----------------------------------------------------------------------------
(* Approvals: each pending one is of a request that will not change, each  *)
(* grant is of a confirmation and for what was asked, and the approval of  *)
(* a grant is neither pending nor in another grant.                        *)
LEMMA PendingStep ==
  ASSUME TypeOK, PendingInv, [Next]_vars
  PROVE  PendingInv'
<1>0. ASSUME NEW p \in pending PROVE Fixed(p.id)' /\ p.key = Key(p.id)'
  <2>1. p.id \in Calls /\ Fixed(p.id) /\ p.key = Key(p.id)
    BY DEF PendingInv, TypeOK
  <2> DEFINE d == p.id
  <2>2. d \in Calls /\ Fixed(d)
    BY <2>1
  <2> HIDE DEF d
  <2>3. Fixed(d)' /\ Key(d)' = Key(d)
    BY <2>2, FixedStays
  <2> QED
    BY <2>1, <2>3 DEF d
<1>1. CASE \E c \in Calls : Create(c)
  <2>1. PICK c \in Calls : Create(c)
    BY <1>1
  <2>2. Fixed(c)' /\ Key(c)' = Key(c)
    BY <2>1, CreateEffect DEF Fixed, Key, SameRequest
  <2>3. \A p \in pending' : p \in pending \/ p = [id |-> c, key |-> Key(c), expires |-> clock + TTL]
    BY <2>1, UnexpiredSubset DEF Create
  <2>4. ASSUME NEW p, p = [id |-> c, key |-> Key(c), expires |-> clock + TTL]
        PROVE  Fixed(p.id)' /\ p.key = Key(p.id)'
    <3>1. p.id = c /\ p.key = Key(c)
      BY <2>4
    <3> QED
      BY <2>2, <3>1
  <2> QED
    BY <1>0, <2>3, <2>4 DEF PendingInv
<1>2. CASE pending' \subseteq pending
  BY <1>0, <1>2 DEF PendingInv
<1> QED
  BY ZenonT(60), <1>1, <1>2, UnexpiredSubset
     DEF Next, Begin, PrepareFails, Verify, EvaluatePolicy, Confirm, Execute, ExecuteFails, AppendAudit,
         AppendAuditFails, SetActiveProfile, SetActiveMode, Tick, Restart, vars

(* The approval of a grant is of an answered request.                      *)
LEMMA GrantedRequest ==
  ASSUME TypeOK, CallInv, GrantInv, NEW g \in grants
  PROVE  g.token \in Calls /\ g.id \in Calls /\ Answered(g.id)
<1>1. g.token \in Calls /\ g.id \in Calls /\ call[g.token].target = g.id
  BY DEF TypeOK, GrantInv
<1>2. RequestOK(g.token)
  BY <1>1 DEF CallInv
<1> QED
  BY <1>1, <1>2 DEF RequestOK

(* What a grant says stays true as long as it is there.                    *)
LEMMA GrantStays ==
  ASSUME TypeOK, CallInv, GrantInv, [Next]_vars, NEW g \in grants
  PROVE  /\ Fixed(g.token)' /\ call'[g.token].ok /\ call'[g.token].target = g.id
         /\ g.key = Key(g.id)' /\ g.expires = call'[g.token].confirmed + TTL
<1> DEFINE k == g.token
           d == g.id
<1>1. /\ k \in Calls /\ d \in Calls /\ Answered(d)
      /\ Fixed(k) /\ call[k].ok /\ call[k].target = d /\ g.key = Key(d) /\ g.expires = call[k].confirmed + TTL
  BY GrantedRequest DEF GrantInv
<1> HIDE DEF k, d
<1>2. Fixed(k)' /\ SameRequest(k) /\ SameResult(k)
  BY <1>1, FixedStays
<1>3. call'[d] = call[d]
  BY <1>1, AnsweredStays
<1>4. /\ Fixed(k)' /\ call'[k].ok /\ call'[k].target = d
      /\ g.key = Key(d)' /\ g.expires = call'[k].confirmed + TTL
  BY <1>1, <1>2, <1>3 DEF SameRequest, SameResult, Key
<1> QED
  BY <1>4 DEF k, d

(* Every step keeps the grants consistent: an approval is in one place.    *)
LEMMA GrantStep ==
  ASSUME TypeOK, CallInv, PendingInv, GrantInv, [Next]_vars
  PROVE  GrantInv'
<1>1. CASE \E c \in Calls : Create(c)
  <2>1. PICK c \in Calls : Create(c)
    BY <1>1
  <2>2. grants' \subseteq grants
    BY <2>1, UnexpiredSubset DEF Create
  <2>3. \A p \in pending' : p \in pending \/ p.id = c
    BY <2>1, UnexpiredSubset DEF Create
  <2>4. At(c, "create")
    BY <2>1, CreateEffect
  <2>5. ASSUME NEW g \in grants PROVE \A p \in pending' : p.id # g.id
    BY <2>3, <2>4, GrantedRequest DEF GrantInv, Answered, At
  <2> QED
    BY <2>2, <2>5, GrantStays DEF GrantInv
<1>2. CASE \E c \in Calls : Confirm(c)
  <2>1. PICK c \in Calls : Confirm(c)
    BY <1>2
  <2> DEFINE found == {p \in Unexpired(pending) : p.id = call[c].target}
             new(p) == [token |-> c, id |-> p.id, key |-> p.key, expires |-> clock + TTL]
  <2>2. /\ pending' = Unexpired(pending) \ found
        /\ grants' = Unexpired(grants) \cup {new(p) : p \in found}
    BY <2>1 DEF Confirm
  <2>3. /\ Fixed(c)' /\ call'[c].target = call[c].target /\ call'[c].confirmed = clock
        /\ call'[c].ok = (\E p \in Unexpired(pending) : p.id = call[c].target)
    BY ZenonT(60), <2>1, ConfirmEffect DEF Fixed, SameRequest
  <2>4. \A p \in found : p \in pending /\ p.id = call[c].target /\ p.id \in Calls /\ p.key = Key(p.id)
    BY UnexpiredSubset DEF PendingInv, TypeOK
  <2>5. ASSUME NEW p \in found
        PROVE  /\ Fixed(c)' /\ call'[c].ok /\ call'[c].target = p.id
               /\ p.key = Key(p.id)' /\ clock + TTL = call'[c].confirmed + TTL
    <3>1. PICK d \in Calls : d = p.id
      BY <2>4
    <3>2. Fixed(d) /\ p.key = Key(d)
      BY <2>4, <3>1 DEF PendingInv
    <3>3. p.key = Key(d)'
      BY <3>2, FixedStays
    <3> QED
      BY <2>3, <2>4, <3>1, <3>3
  <2>6. \A p \in pending' : p \in pending /\ p.id # call[c].target
    BY <2>2, UnexpiredSubset
  <2>7. \A g \in grants' : g \in grants \/ \E p \in found : g = new(p)
    BY <2>2, UnexpiredSubset
  <2>8. \A p, q \in found : new(p) = new(q)
    BY <2>4
  <2>9. \A p \in found : \A g \in grants : g.id # p.id
    BY <2>4 DEF GrantInv
  <2>10. ASSUME NEW g \in grants, NEW h \in grants', h.id = g.id PROVE h = g
    BY <2>7, <2>9, <2>10 DEF GrantInv
  <2>11. ASSUME NEW p \in found, NEW h \in grants', h.id = p.id PROVE h = new(p)
    BY ZenonT(60), <2>7, <2>8, <2>9, <2>11
  <2>12. ASSUME NEW g \in grants
         PROVE  /\ \A p \in pending' : p.id # g.id
                /\ \A h \in grants' : h.id = g.id => h = g
    BY <2>6, <2>10 DEF GrantInv
  <2>13. ASSUME NEW g, NEW p \in found, g = new(p)
         PROVE  /\ Fixed(g.token)' /\ call'[g.token].ok /\ call'[g.token].target = g.id
                /\ g.key = Key(g.id)' /\ g.expires = call'[g.token].confirmed + TTL
                /\ \A q \in pending' : q.id # g.id
                /\ \A h \in grants' : h.id = g.id => h = g
    <3>1. g.token = c /\ g.id = p.id /\ g.key = p.key /\ g.expires = clock + TTL
      BY <2>13
    <3>2. g.key = Key(g.id)'
      BY <2>5, <3>1
    <3>3. \A h \in grants' : h.id = g.id => h = g
      BY <2>11, <2>13, <3>1
    <3> HIDE DEF new
    <3> QED
      BY <2>4, <2>5, <2>6, <3>1, <3>2, <3>3
  <2> HIDE DEF new, found
  <2> QED
    BY <2>7, <2>12, <2>13, GrantStays DEF GrantInv
<1>3. CASE pending' \subseteq pending /\ grants' \subseteq grants
  BY <1>3, GrantStays DEF GrantInv
<1>4. ASSUME NEW c \in Calls, Verify(c) PROVE pending' \subseteq pending /\ grants' \subseteq grants
  BY <1>4, VerifyEffect
<1> QED
  BY ZenonT(60), <1>1, <1>2, <1>3, <1>4
     DEF Next, Begin, PrepareFails, EvaluatePolicy, Execute, ExecuteFails, AppendAudit,
         AppendAuditFails, SetActiveProfile, SetActiveMode, Tick, Restart, vars

-----------------------------------------------------------------------------
(* A call that uses an approval used it before, or Verify granted it.      *)
LEMMA UseSteps ==
  ASSUME TypeOK, CallInv, [Next]_vars, NEW d \in Calls, call'[d].used # None
  PROVE  \/ call[d].used # None /\ SameUse(d) /\ SameRequest(d)
         \/ Verify(d) /\ \E g \in grants : Grants(d, g)
<1> USE DEF At
<1>0. /\ ProgressOK(d)
      /\ call[d].pc \notin {"idle", "verify"} => SameUse(d) /\ SameRequest(d)
  BY StepStays DEF CallInv, Stays
<1>s. ASSUME call'[d] = call[d] PROVE SameUse(d) /\ SameRequest(d)
  BY <1>s DEF SameUse, SameRequest
<1>1. CASE At(d, "idle")
  <2>1. ASSUME NEW t, NEW token, Begin(d, t, token) PROVE FALSE
    BY ZenonT(60), <2>1, BeginEffect
  <2> QED
    BY <1>s, <1>0, <1>1, <2>1, IdleSteps DEF ProgressOK
<1>2. CASE At(d, "verify")
  <2>1. ASSUME NEW c \in Calls, NEW t, NEW token, Begin(c, t, token) PROVE call'[d] = call[d]
    BY ZenonT(60), <1>2, <2>1, BeginEffect DEF SameOthers
  <2>2. ASSUME NEW c \in Calls, PrepareFails(c) PROVE call'[d].used = call[d].used
    BY <2>2, PrepareFailsEffect DEF SameOthers, SameUse
  <2>3. ASSUME NEW c \in Calls, Verify(c)
        PROVE  call'[d].used = call[d].used \/ (Verify(d) /\ \E g \in grants : Grants(d, g))
    BY <2>3, VerifyEffect DEF SameOthers
  <2>4. ASSUME NEW c \in Calls,
               \/ EvaluatePolicy(c) \/ Create(c) \/ Confirm(c)
               \/ Execute(c) \/ ExecuteFails(c) \/ AppendAudit(c) \/ AppendAuditFails(c)
        PROVE  call'[d] = call[d]
    <3>1. SameOthers(c)
      BY ZenonT(60), <2>4, EvaluatePolicyEffect, CreateEffect, ConfirmEffect,
         ExecuteEffect, ExecuteFailsEffect, AppendAuditEffect, AppendAuditFailsEffect
    <3>2. c # d
      BY ZenonT(60), <1>2, <2>4, EvaluatePolicyEffect, CreateEffect, ConfirmEffect,
         ExecuteEffect, ExecuteFailsEffect, AppendAuditEffect, AppendAuditFailsEffect
    <3> QED
      BY <3>1, <3>2 DEF SameOthers
  <2>5. CASE Restart
    BY <1>0, <1>2, <2>5, RestartEffect DEF ProgressOK, SameUse
  <2>6. CASE UNCHANGED call
    BY <1>s, <2>6, <1>0, <1>2 DEF ProgressOK
  <2>7. call[d].used = None
    BY <1>0, <1>2 DEF ProgressOK
  <2> QED
    BY <2>1, <2>2, <2>3, <2>4, <2>5, <2>6, <2>7 DEF Next, SetActiveProfile, SetActiveMode, Tick, vars
<1> QED
  BY <1>0, <1>1, <1>2 DEF SameUse

(* The approval a call uses is of an answered request.                     *)
LEMMA UsedRequest ==
  ASSUME TypeOK, CallInv, UsedInv, NEW d \in Calls, call[d].used # None
  PROVE  /\ call[d].token \in Calls /\ Answered(call[d].token)
         /\ call[d].used \in Calls /\ Answered(call[d].used)
<1>1. call[d].token \in Calls /\ call[d].used \in Calls /\ call[call[d].token].target = call[d].used
  BY DEF UsedInv, TypeOK, CallRecords
<1>2. RequestOK(d) /\ RequestOK(call[d].token) /\ call[d].token # None
  BY <1>1 DEF CallInv, UsedInv
<1> QED
  BY <1>1, <1>2 DEF RequestOK

(* Every step keeps a used approval the right one.                         *)
LEMMA UsedStep ==
  ASSUME TypeOK, CallInv, UsedInv, GrantInv, [Next]_vars
  PROVE  UsedInv'
<1> SUFFICES ASSUME NEW d \in Calls, call'[d].used # None
             PROVE  /\ call'[d].token # None
                    /\ call'[call'[d].token].ok /\ call'[call'[d].token].target = call'[d].used
                    /\ Key(call[d].used)' = Key(d)'
                    /\ call'[d].at <= call'[call'[d].token].confirmed + TTL
  BY DEF UsedInv
<1>1. CASE call[d].used # None /\ SameUse(d) /\ SameRequest(d)
  <2>1. PICK k \in Calls, u \in Calls : k = call[d].token /\ u = call[d].used
    BY <1>1, UsedRequest
  <2>2. call'[k] = call[k] /\ call'[u] = call[u]
    BY <1>1, <2>1, UsedRequest, AnsweredStays
  <2>3. /\ k # None /\ call[k].ok /\ call[k].target = u /\ Key(u) = Key(d)
        /\ call[d].at <= call[k].confirmed + TTL
    BY <1>1, <2>1 DEF UsedInv
  <2>4. Key(u)' = Key(u) /\ Key(d)' = Key(d)
    BY <1>1, <2>2 DEF Key, SameRequest
  <2>5. call'[d].token = k /\ call'[d].used = u /\ call'[d].at = call[d].at
    BY <1>1, <2>1 DEF SameUse, SameRequest
  <2> QED
    BY <2>2, <2>3, <2>4, <2>5 DEF Key
<1>2. CASE Verify(d) /\ \E g \in grants : Grants(d, g)
  <2>1. PICK g \in grants : Grants(d, g)
    BY <1>2
  <2>2. PICK k \in Calls, u \in Calls : k = g.token /\ u = g.id
    BY GrantedRequest
  <2>3. /\ call'[k].ok /\ call'[k].target = u /\ g.key = Key(u)' /\ g.expires = call'[k].confirmed + TTL
    BY <2>2, GrantStays
  <2>4. /\ clock <= g.expires /\ call'[d].token = k /\ g.key = Key(d)'
        /\ call'[d].used = u /\ call'[d].at = clock
    BY <1>2, <2>1, <2>2, VerifyEffect DEF Grants, SameRequest, Key
  <2> QED
    BY <2>2, <2>3, <2>4, RuntimeAssumption DEF Key
<1> QED
  BY <1>1, <1>2, UseSteps

(* Every step keeps an approval from being used twice.                     *)
LEMMA SingleUseStep ==
  ASSUME TypeOK, CallInv, UsedInv, PendingInv, GrantInv, SingleUse, [Next]_vars
  PROVE  SingleUse'
(* An approval that is used is neither created nor confirmed again.        *)
<1>1. ASSUME NEW d \in Calls, call[d].used # None
      PROVE  /\ \A p \in pending' : p.id # call[d].used
             /\ \A g \in grants' : g.id # call[d].used
  <2>0. (\A p \in pending : p.id # call[d].used) /\ (\A g \in grants : g.id # call[d].used)
    BY <1>1 DEF SingleUse
  <2>1. ASSUME NEW c \in Calls, Create(c) PROVE call[d].used # c
    BY <1>1, <2>1, CreateEffect, UsedRequest DEF Answered, At
  <2>2. ASSUME NEW c \in Calls, Create(c) PROVE \A p \in pending' : p \in pending \/ p.id = c
    BY <2>2, UnexpiredSubset DEF Create
  <2>3. \A p \in pending' : p.id # call[d].used
    <3>1. CASE pending' \subseteq pending
      BY <2>0, <3>1
    <3>2. ASSUME NEW c \in Calls, Verify(c) PROVE pending' \subseteq pending
      BY <3>2, VerifyEffect
    <3>3. ASSUME NEW c \in Calls, Confirm(c) PROVE pending' \subseteq pending
      BY <3>3, UnexpiredSubset DEF Confirm
    <3> QED
      BY ZenonT(60), <2>0, <2>1, <2>2, <3>1, <3>2, <3>3
         DEF Next, Begin, PrepareFails, EvaluatePolicy, Execute, ExecuteFails, AppendAudit,
             AppendAuditFails, SetActiveProfile, SetActiveMode, Tick, Restart, vars
  <2>4. \A g \in grants' : g \in grants \/ \E p \in pending : g.id = p.id
    <3>1. CASE grants' \subseteq grants
      BY <3>1
    <3>2. ASSUME NEW c \in Calls, Verify(c) PROVE grants' \subseteq grants
      BY <3>2, VerifyEffect
    <3>3. ASSUME NEW c \in Calls, Create(c) PROVE grants' \subseteq grants
      BY <3>3, UnexpiredSubset DEF Create
    <3>4. ASSUME NEW c \in Calls, Confirm(c), NEW g \in grants' PROVE g \in grants \/ \E p \in pending : g.id = p.id
      BY <3>4, UnexpiredSubset DEF Confirm
    <3> QED
      BY ZenonT(60), <3>1, <3>2, <3>3, <3>4
         DEF Next, Begin, PrepareFails, EvaluatePolicy, Execute, ExecuteFails, AppendAudit,
             AppendAuditFails, SetActiveProfile, SetActiveMode, Tick, Restart, vars
  <2> QED
    BY <2>0, <2>3, <2>4
(* The approval of a grant is used by nobody else, and is gone.            *)
<1>2. ASSUME NEW d \in Calls, Verify(d), NEW g \in grants, Grants(d, g)
      PROVE  /\ call'[d].used = g.id /\ (\A c \in Calls : call[c].used # g.id)
             /\ (\A p \in pending' : p.id # g.id) /\ (\A h \in grants' : h.id # g.id)
  <2>1. pending' \subseteq pending /\ grants' \subseteq grants
    BY <1>2, VerifyEffect
  <2>2. call'[d].used = g.id /\ g \notin grants' /\ g.id \in Calls
    BY <1>2, GrantedRequest DEF Grants
  <2>3. \A c \in Calls : call[c].used # g.id
    BY <2>2, RuntimeAssumption DEF SingleUse
  <2> QED
    BY <2>1, <2>2, <2>3 DEF GrantInv
<1>3. ASSUME NEW d \in Calls, call'[d].used # None
      PROVE  /\ \A p \in pending' : p.id # call'[d].used
             /\ \A g \in grants' : g.id # call'[d].used
  BY <1>1, <1>2, <1>3, UseSteps DEF SameUse
<1>4. ASSUME NEW c \in Calls, NEW d \in Calls, call'[c].used # None, call'[d].used = call'[c].used
      PROVE  d = c
  <2>1. ASSUME NEW a \in Calls, NEW b \in Calls, Verify(a), NEW g \in grants, Grants(a, g),
               call[b].used # None, SameUse(b)
        PROVE  call'[b].used # call'[a].used
    BY <1>2, <2>1 DEF SameUse
  <2>2. CASE call[c].used # None /\ SameUse(c) /\ call[d].used # None /\ SameUse(d)
    BY <1>4, <2>2 DEF SameUse, SingleUse
  <2>3. CASE Verify(c) /\ Verify(d)
    BY <2>3, VerifyEffect DEF SameOthers, At
  <2> QED
    BY <1>4, <2>1, <2>2, <2>3, UseSteps
<1> QED
  BY <1>3, <1>4 DEF SingleUse

(* The tier of a request does not depend on what became of it.             *)
LEMMA TierStays ==
  ASSUME NEW d, SameRequest(d)
  PROVE  Tier(PolicyContext(d, FALSE))' = Tier(PolicyContext(d, FALSE))
<1>1. PolicyContext(d, FALSE)' = PolicyContext(d, FALSE)
  BY DEF PolicyContext, SameRequest
<1> QED
  BY ZenonT(60), <1>1

(* An approval does not change the tier.                                   *)
LEMMA TierOfApproved ==
  ASSUME NEW d, NEW b
  PROVE  /\ Tier(PolicyContext(d, b)) = Tier(PolicyContext(d, FALSE))
         /\ PolicyContext(d, b).approved = b
BY Zenon DEF PolicyContext, Tier

(* Every step keeps destructive operations approved.                       *)
LEMMA DestructiveStep ==
  ASSUME TypeOK, CallInv, DestructiveIsApproved, [Next]_vars
  PROVE  DestructiveIsApproved'
<1> SUFFICES ASSUME NEW d \in Calls, call'[d].pc = "execute" \/ call'[d].ok,
                    Tier(PolicyContext(d, FALSE))' = "destructive"
             PROVE  call'[d].used # None
  BY Zenon DEF DestructiveIsApproved, At
<1> USE DEF At
<1>k. ASSUME SameRequest(d), SameUse(d), call[d].pc = "execute" \/ call[d].ok PROVE call'[d].used # None
  BY ZenonT(60), <1>k, TierStays DEF DestructiveIsApproved, SameUse
<1>s. ASSUME call'[d] = call[d] PROVE call'[d].used # None
  BY <1>s, <1>k DEF SameRequest, SameUse
<1>1. ASSUME NEW c \in Calls, NEW t, NEW token, Begin(c, t, token) PROVE call'[d].used # None
  BY ZenonT(60), <1>1, <1>s, BeginEffect DEF SameOthers
<1>2. ASSUME NEW c \in Calls, EvaluatePolicy(c) PROVE call'[d].used # None
  <2>1. CASE c = d
    <3> DEFINE b == call[d].verdict = "granted"
    <3>1. SameRequest(d) /\ SameUse(d) /\ SameResult(d) /\ At(d, "evaluate")
      BY <1>2, <2>1, EvaluatePolicyEffect
    <3>2. CASE call'[d].pc = "execute"
      <4>1. Evaluate(cfg, PolicyContext(d, b)).allowed
        BY <1>2, <2>1, <3>2, EvaluatePolicyEffect
      <4> HIDE DEF b
      <4>2. Tier(PolicyContext(d, b)) = "destructive"
        BY ZenonT(60), <3>1, TierStays, TierOfApproved
      <4>3. PolicyContext(d, b).approved
        BY <4>1, <4>2, DestructiveNeedsApproval
      <4>4. PolicyContext(d, b).approved = b
        BY ZenonT(60), TierOfApproved
      <4>5. call[d].verdict = "granted"
        BY <4>3, <4>4, Zenon DEF b
      <4> QED
        BY <3>1, <4>5 DEF CallInv, ProgressOK, SameUse
    <3> QED
      BY <1>k, <3>1, <3>2 DEF SameResult
  <2> QED
    BY <1>2, <1>s, <2>1, EvaluatePolicyEffect DEF SameOthers
<1>3. ASSUME NEW c \in Calls, Verify(c) PROVE call'[d].used # None
  <2>1. c = d => ~call[d].ok
    BY <1>3, VerifyEffect DEF CallInv, ProgressOK, Fixed
  <2> QED
    BY <1>3, <1>s, <2>1, VerifyEffect DEF SameOthers, SameResult
<1>4. ASSUME NEW c \in Calls, PrepareFails(c) PROVE call'[d].used # None
  BY <1>4, <1>k, <1>s, PrepareFailsEffect DEF SameOthers, SameResult
<1>5. ASSUME NEW c \in Calls, Create(c) PROVE call'[d].used # None
  BY <1>5, <1>k, <1>s, CreateEffect DEF SameOthers, SameResult
<1>6. ASSUME NEW c \in Calls, Confirm(c) PROVE call'[d].used # None
  BY ZenonT(60), <1>6, <1>k, <1>s, ConfirmEffect DEF SameOthers
<1>7. ASSUME NEW c \in Calls, Execute(c) PROVE call'[d].used # None
  BY <1>7, <1>k, <1>s, ExecuteEffect DEF SameOthers
<1>8. ASSUME NEW c \in Calls, ExecuteFails(c) PROVE call'[d].used # None
  BY <1>8, <1>k, <1>s, ExecuteFailsEffect DEF SameOthers
<1>9. ASSUME NEW c \in Calls, AppendAudit(c) PROVE call'[d].used # None
  BY <1>9, <1>k, <1>s, AppendAuditEffect DEF SameOthers, SameResult
<1>10. ASSUME NEW c \in Calls, AppendAuditFails(c) PROVE call'[d].used # None
  BY <1>10, <1>k, <1>s, AppendAuditFailsEffect DEF SameOthers, SameResult
<1>11. CASE Restart
  BY <1>11, <1>k, <1>s, RestartEffect DEF SameResult
<1>12. CASE UNCHANGED call
  BY <1>12, <1>s
<1> QED
  BY ZenonT(60), <1>1, <1>2, <1>3, <1>4, <1>5, <1>6, <1>7, <1>8, <1>9, <1>10, <1>11, <1>12
     DEF Next, SetActiveProfile, SetActiveMode, Tick, vars

-----------------------------------------------------------------------------
(* The audit log.  An event is appended for a call that is not answered    *)
(* yet, so that whatever the call had been told is in front of it.         *)
LEMMA LogSteps ==
  ASSUME TypeOK, [Next]_vars
  PROVE  \/ /\ log' = log
            /\ \A d \in Calls : call[d].pc = "audit" /\ call'[d].pc = "done" => call'[d].unlogged
         \/ \E c \in Calls : AppendAudit(c)
<1> USE DEF At
<1> DEFINE Goal == \A d \in Calls : call[d].pc = "audit" /\ call'[d].pc = "done" => call'[d].unlogged
<1>1. ASSUME NEW c \in Calls, NEW t, NEW token, Begin(c, t, token) PROVE Goal
  BY ZenonT(60), <1>1, BeginEffect DEF SameOthers
<1>2. ASSUME NEW c \in Calls, PrepareFails(c) PROVE Goal
  BY <1>2, PrepareFailsEffect DEF SameOthers
<1>3. ASSUME NEW c \in Calls, Verify(c) PROVE Goal
  BY <1>3, VerifyEffect DEF SameOthers
<1>4. ASSUME NEW c \in Calls, EvaluatePolicy(c) PROVE Goal
  BY <1>4, EvaluatePolicyEffect DEF SameOthers
<1>5. ASSUME NEW c \in Calls, Create(c) PROVE Goal
  BY <1>5, CreateEffect DEF SameOthers
<1>6. ASSUME NEW c \in Calls, Confirm(c) PROVE Goal
  BY ZenonT(60), <1>6, ConfirmEffect DEF SameOthers
<1>7. ASSUME NEW c \in Calls, Execute(c) PROVE Goal
  BY <1>7, ExecuteEffect DEF SameOthers
<1>8. ASSUME NEW c \in Calls, ExecuteFails(c) PROVE Goal
  BY <1>8, ExecuteFailsEffect DEF SameOthers
<1>9. ASSUME NEW c \in Calls, AppendAuditFails(c) PROVE Goal
  BY <1>9, AppendAuditFailsEffect DEF SameOthers
<1>10. ASSUME Restart PROVE Goal
  BY <1>10, RestartEffect
<1>11. ASSUME UNCHANGED call PROVE Goal
  BY <1>11
<1> HIDE DEF Goal
<1>12. log' = log \/ \E c \in Calls : AppendAudit(c)
  BY Zenon DEF Next, Begin, PrepareFails, Verify, EvaluatePolicy, Create, Confirm, Execute, ExecuteFails,
         AppendAuditFails, SetActiveProfile, SetActiveMode, Tick, Restart, vars
<1>13. Goal \/ \E c \in Calls : AppendAudit(c)
  BY <1>1, <1>2, <1>3, <1>4, <1>5, <1>6, <1>7, <1>8, <1>9, <1>10, <1>11
     DEF Next, SetActiveProfile, SetActiveMode, Tick, vars
<1> QED
  BY <1>12, <1>13 DEF Goal

(* Only the audit makes an answered call of one that was not.              *)
LEMMA AnswerSteps ==
  ASSUME TypeOK, CallInv, [Next]_vars, NEW d \in Calls, Answered(d)'
  PROVE  Answered(d) \/ call[d].pc = "audit"
<1> USE DEF At, Answered
<1>0. ProgressOK(d)
  BY DEF CallInv
<1>s. ASSUME call'[d] = call[d] PROVE Answered(d)
  BY <1>s
<1>1. CASE call[d].pc \in {"audit", "done"}
  BY <1>1, StepStays DEF Stays, Fixed, SameReason
<1>2. CASE call[d].pc \notin {"audit", "done"}
  <2> USE <1>2
  <2>1. ASSUME NEW c \in Calls, NEW t, NEW token, Begin(c, t, token) PROVE Answered(d)
    BY ZenonT(60), <1>s, <2>1, BeginEffect DEF SameOthers
  <2>2. ASSUME NEW c \in Calls, PrepareFails(c) PROVE Answered(d)
    BY <1>0, <1>s, <2>2, PrepareFailsEffect DEF SameOthers, SameReason, ProgressOK
  <2>3. ASSUME NEW c \in Calls,
               \/ Verify(c) \/ EvaluatePolicy(c) \/ Create(c) \/ Confirm(c) \/ Execute(c) \/ ExecuteFails(c)
        PROVE  Answered(d)
    <3>1. SameOthers(c) /\ call'[c].pc # "done"
      BY ZenonT(60), <2>3, VerifyEffect, EvaluatePolicyEffect, CreateEffect, ConfirmEffect, ExecuteEffect, ExecuteFailsEffect
    <3> QED
      BY <1>s, <3>1 DEF SameOthers
  <2>4. ASSUME NEW c \in Calls, AppendAudit(c) \/ AppendAuditFails(c) PROVE Answered(d)
    BY <1>s, <2>4, AppendAuditEffect, AppendAuditFailsEffect DEF SameOthers
  <2>5. CASE Restart
    BY <1>s, <2>5, RestartEffect
  <2>6. CASE UNCHANGED call
    BY <1>s, <2>6
  <2> QED
    BY ZenonT(60), <2>1, <2>2, <2>3, <2>4, <2>5, <2>6 DEF Next, SetActiveProfile, SetActiveMode, Tick, vars
<1> QED
  BY <1>1, <1>2

(* A request builds on answered requests only.                             *)
LEMMA ToldAnswered ==
  ASSUME TypeOK, CallInv, UsedInv, NEW c \in Calls, NEW x \in Told(c)
  PROVE  Answered(x)
<1>1. RequestOK(c)
  BY DEF CallInv
<1>2. x \in Calls
  BY DEF Told
<1>3. CASE x = call[c].used
  BY <1>2, <1>3, UsedRequest, RuntimeAssumption
<1> QED
  BY <1>1, <1>2, <1>3, RuntimeAssumption DEF Told, RequestOK

(* Every step keeps the order of the audit log.                            *)
LEMMA LogStep ==
  ASSUME TypeOK, CallInv, UsedInv, LogInv, [Next]_vars
  PROVE  LogInv'
<1>0. log \in Seq(Calls) /\ Len(log) \in Nat /\ \A i \in 1..Len(log) : log[i] \in Calls /\ call[log[i]].pc = "done"
  BY DEF TypeOK, LogInv, At
<1>d. ASSUME NEW c \in Calls, call[c].pc = "done" PROVE call'[c] = call[c]
  BY <1>d, StepStays DEF Stays, At
<1>t. ASSUME NEW c \in Calls, NEW x \in Told(c) PROVE Answered(x) /\ x \in Calls /\ call'[x] = call[x]
  BY ToldAnswered, AnsweredStays DEF Told
<1>1. CASE /\ log' = log
           /\ \A d \in Calls : call[d].pc = "audit" /\ call'[d].pc = "done" => call'[d].unlogged
  <2>1. \A i \in 1..Len(log') : call'[log'[i]].pc = "done"
    BY <1>0, <1>1, <1>d
  <2>2. ASSUME NEW c \in Calls, Answered(c)'
        PROVE  call'[c].unlogged \/ \E i \in 1..Len(log') : log'[i] = c
    BY <1>1, <1>d, <2>2, AnswerSteps DEF LogInv, Answered, At
  <2>3. ASSUME NEW c \in Calls, NEW x \in Told(c)' PROVE LoggedBefore(x, c)'
    <3>1. CASE call[c].pc = "done"
      <4>1. x \in Told(c)
        BY <1>d, <2>3, <3>1 DEF Told
      <4> QED
        BY <1>1, <1>t, <4>1 DEF LogInv, LoggedBefore
    <3>2. CASE call[c].pc # "done"
      BY <1>0, <1>1, <3>2 DEF LoggedBefore
    <3> QED
      BY <3>1, <3>2
  <2> QED
    BY <2>1, <2>2, <2>3 DEF LogInv, At
<1>2. ASSUME NEW a \in Calls, AppendAudit(a) PROVE LogInv'
  <2>1. log' = Append(log, a)
    BY <1>2 DEF AppendAudit
  <2>2. /\ Len(log') = Len(log) + 1 /\ log'[Len(log) + 1] = a
        /\ \A i \in 1..Len(log) : log'[i] = log[i]
    BY <1>0, <2>1
  <2>3. call[a].pc = "audit" /\ call'[a].pc = "done" /\ SameOthers(a) /\ SameRequest(a) /\ SameUse(a)
    BY <1>2, AppendAuditEffect DEF At
  <2>4. \A j \in 1..Len(log') : j \in 1..Len(log) \/ j = Len(log) + 1
    BY <1>0, <2>2
  <2>5. \A i \in 1..Len(log') : call'[log'[i]].pc = "done"
    BY <1>0, <1>d, <2>2, <2>3, <2>4
  <2>6. ASSUME NEW c \in Calls, Answered(c)'
        PROVE  call'[c].unlogged \/ \E i \in 1..Len(log') : log'[i] = c
    <3>1. CASE c = a
      BY <1>0, <2>2, <3>1
    <3>2. CASE c # a
      <4>1. call'[c] = call[c]
        BY <2>3, <3>2 DEF SameOthers
      <4>2. Answered(c)
        BY <2>6, <4>1 DEF Answered, At
      <4> QED
        BY <1>0, <2>2, <4>1, <4>2 DEF LogInv
    <3> QED
      BY <3>1, <3>2
  <2>7. ASSUME NEW c \in Calls, NEW x \in Told(c)' PROVE LoggedBefore(x, c)'
    <3>1. CASE call[c].pc = "done"
      <4>1. x \in Told(c)
        BY <1>d, <2>7, <3>1 DEF Told
      <4>2. call'[x].unlogged = call[x].unlogged
        BY <1>t, <4>1
      <4>3. LoggedBefore(x, c)
        BY <4>1 DEF LogInv
      <4>4. ASSUME NEW j \in 1..Len(log'), log'[j] = c PROVE j \in 1..Len(log) /\ log[j] = c
        BY <2>2, <2>3, <2>4, <3>1, <4>4
      <4>5. ASSUME NEW j \in 1..Len(log), NEW i \in 1..(j - 1) PROVE i \in 1..Len(log) /\ log'[i] = log[i]
        BY <1>0, <2>2
      <4> QED
        BY <4>2, <4>3, <4>4, <4>5 DEF LoggedBefore
    <3>2. CASE c = a
      <4>1. x \in Told(a)
        BY <2>3, <2>7, <3>2 DEF Told, SameRequest, SameUse
      <4>2. Answered(x) /\ call'[x].unlogged = call[x].unlogged /\ x \in Calls
        BY <1>t, <4>1
      <4>3. call[x].unlogged \/ \E i \in 1..Len(log) : log[i] = x
        BY ZenonT(60), <4>2 DEF LogInv
      <4>4. ASSUME NEW j \in 1..Len(log'), log'[j] = a PROVE j = Len(log) + 1
        BY <1>0, <2>2, <2>3, <2>4, <4>4
      <4>5. \A i \in 1..Len(log) : i \in 1..((Len(log) + 1) - 1)
        BY <1>0
      <4> QED
        BY <2>2, <3>2, <4>2, <4>3, <4>4, <4>5 DEF LoggedBefore
    <3>3. CASE c # a /\ call[c].pc # "done"
      <4>1. \A j \in 1..Len(log') : log'[j] # c
        BY <1>0, <2>2, <2>4, <3>3
      <4> QED
        BY <4>1 DEF LoggedBefore
    <3> QED
      BY <3>1, <3>2, <3>3
  <2> QED
    BY <2>5, <2>6, <2>7 DEF LogInv, At
<1> QED
  BY <1>1, <1>2, LogSteps

-----------------------------------------------------------------------------
(* The runtime starts in the invariant.                                    *)
LEMMA InvInit == Init => RuntimeInv
<1> SUFFICES ASSUME Init PROVE RuntimeInv
  OBVIOUS
<1>1. \A c \in Calls : call[c] = NoCall
  BY DEF Init
<1>2. /\ NoCall.pc = "idle" /\ NoCall.reason = "none" /\ NoCall.used = None /\ NoCall.ok = FALSE
      /\ NoCall.verdict = "none" /\ NoCall.target = None /\ NoCall.token = None
  BY DEF NoCall
<1>3. pending = {} /\ grants = {} /\ log = <<>>
  BY DEF Init
<1>4. CallInv
  BY <1>1, <1>2, RuntimeAssumption DEF CallInv, ProgressOK, RequestOK, Fixed
<1>5. UsedInv /\ SingleUse /\ DestructiveIsApproved
  BY ZenonT(60), <1>1, <1>2 DEF UsedInv, SingleUse, DestructiveIsApproved, At
<1>6. PendingInv /\ GrantInv
  BY <1>3 DEF PendingInv, GrantInv
<1>7. LogInv
  BY <1>1, <1>2, <1>3, RuntimeAssumption DEF LogInv, Told, Answered, At
<1> QED
  BY InitTypes, <1>4, <1>5, <1>6, <1>7 DEF RuntimeInv

(* Every step keeps the invariant.                                         *)
LEMMA InvStep == RuntimeInv /\ [Next]_vars => RuntimeInv'
<1> SUFFICES ASSUME RuntimeInv, [Next]_vars PROVE RuntimeInv'
  OBVIOUS
<1>0. TypeOK /\ CallInv /\ UsedInv /\ PendingInv /\ GrantInv /\ SingleUse /\ DestructiveIsApproved /\ LogInv
  BY DEF RuntimeInv
<1>1. TypeOK'
  BY <1>0, TypeStep
<1>2. CallInv'
  BY <1>0, ProgressStep, RequestStep DEF CallInv
<1>3. UsedInv' /\ PendingInv' /\ GrantInv' /\ SingleUse'
  BY <1>0, UsedStep, PendingStep, GrantStep, SingleUseStep
<1>4. DestructiveIsApproved' /\ LogInv'
  BY <1>0, DestructiveStep, LogStep
<1> QED
  BY <1>1, <1>2, <1>3, <1>4 DEF RuntimeInv

(* The inductive invariant of the tool runtime: approvals, grants, calls   *)
(* and the audit log agree after every step of Execute.                    *)
THEOREM RuntimeInvariant == Spec => []RuntimeInv
BY InvInit, InvStep, PTL DEF Spec

(* Calls, approvals and grants keep their types; in particular every       *)
(* approval that approvalStore keeps is for an intent of a request.        *)
THEOREM RuntimeTypes == Spec => []TypeOK
<1>1. RuntimeInv => TypeOK
  BY DEF RuntimeInv
<1> QED
  BY <1>1, RuntimeInvariant, PTL

(* However many requests run side by side, an approval that Verify grants  *)
(* is used by one request and never confirmed or used again.               *)
THEOREM ApprovalsAreSingleUse == Spec => []SingleUse
<1>1. RuntimeInv => SingleUse
  BY DEF RuntimeInv
<1> QED
  BY <1>1, RuntimeInvariant, PTL

(* Whatever the policy, the overlays and the trusted rules: an operation   *)
(* whose tier is destructive is executed only with an approval.            *)
THEOREM DestructiveNeverSilently == Spec => []DestructiveIsApproved
<1>1. RuntimeInv => DestructiveIsApproved
  BY DEF RuntimeInv
<1> QED
  BY <1>1, RuntimeInvariant, PTL

(* A request that Verify lets pass is the one that was asked about, was    *)
(* confirmed by the call its token names, and shows it in time.            *)
THEOREM ApprovalsAreForTheIntent == Spec => []ApprovedAsAsked
<1>1. RuntimeInv => ApprovedAsAsked
  <2> SUFFICES ASSUME RuntimeInv, NEW c \in Calls, call[c].used # None
               PROVE  /\ Key(call[c].used) = Key(c)
                      /\ \E d \in Calls : /\ call[d].target = call[c].used /\ call[d].ok /\ d = call[c].token
                                          /\ call[c].at <= call[d].confirmed + TTL
    BY DEF ApprovedAsAsked
  <2>1. call[c].token \in Calls
    BY UsedRequest DEF RuntimeInv
  <2> QED
    BY <2>1 DEF RuntimeInv, UsedInv
<1> QED
  BY <1>1, RuntimeInvariant, PTL

(* The audit log has the events of a blocked request, its confirmation and *)
(* its execution in that order, unless the log failed for one of them.     *)
THEOREM AuditTellsTheChain == Spec => []AuditChain
<1>1. RuntimeInv => AuditChain
  <2> SUFFICES ASSUME RuntimeInv, NEW c \in Calls, call[c].used # None
               PROVE  /\ LoggedBefore(call[c].used, call[c].token)
                      /\ LoggedBefore(call[c].token, c)
                      /\ LoggedBefore(call[c].used, c)
    BY DEF AuditChain
  <2>1. call[c].token \in Calls /\ call[c].used \in Calls
    BY UsedRequest DEF RuntimeInv
  <2>2. call[call[c].token].target = call[c].used
    BY DEF RuntimeInv, UsedInv
  <2>3. call[c].used \in Told(c) /\ call[c].token \in Told(c) /\ call[c].used \in Told(call[c].token)
    BY <2>1, <2>2 DEF Told
  <2> QED
    BY <2>1, <2>3 DEF RuntimeInv, LogInv
<1> QED
  BY <1>1, RuntimeInvariant, PTL

(* approvalStore drops a grant only when it has expired, when the intent   *)
(* it is for uses it, or with the process.                                 *)
THEOREM MismatchesKeepTokens == Spec => MismatchKeepsToken
<1>1. TypeOK /\ [Next]_vars =>
        [\A g \in grants \ grants' :
            \/ g.expires < clock
            \/ \E c \in Calls : call'[c].used = g.id /\ Key(c) = g.key
            \/ \A c \in Calls : call'[c] = call[c] \/ call'[c].pc = "lost"]_vars
  <2> SUFFICES ASSUME TypeOK, Next, NEW g \in grants \ grants'
               PROVE  \/ g.expires < clock
                      \/ \E c \in Calls : call'[c].used = g.id /\ Key(c) = g.key
                      \/ \A c \in Calls : call'[c] = call[c] \/ call'[c].pc = "lost"
    OBVIOUS
  <2>0. g \notin Unexpired(grants) => g.expires < clock
    BY RuntimeAssumption DEF Unexpired, TypeOK
  <2>1. ASSUME NEW c \in Calls, Verify(c)
        PROVE  g.expires < clock \/ (call'[c].used = g.id /\ Key(c) = g.key)
    BY <2>1, VerifyEffect DEF Grants
  <2>2. ASSUME NEW c \in Calls, Create(c) \/ Confirm(c) PROVE g \notin Unexpired(grants)
    BY <2>2 DEF Create, Confirm
  <2>3. CASE Restart
    BY <2>3, RestartEffect
  <2> QED
    BY ZenonT(60), <2>0, <2>1, <2>2, <2>3
       DEF Next, Begin, PrepareFails, EvaluatePolicy, Execute, ExecuteFails, AppendAudit,
           AppendAuditFails, SetActiveProfile, SetActiveMode, Tick
<1> QED
  BY <1>1, RuntimeTypes, PTL DEF Spec, MismatchKeepsToken

(* All of it together, for any tools, policy and agent selections.         *)
THEOREM ApprovalsAreSoundAlways == Spec => []ApprovalsAreSound
<1>1. SingleUse /\ ApprovedAsAsked /\ DestructiveIsApproved /\ AuditChain => ApprovalsAreSound
  BY DEF ApprovalsAreSound
<1> QED
  BY <1>1, ApprovalsAreSingleUse, ApprovalsAreForTheIntent, DestructiveNeverSilently, AuditTellsTheChain, PTL
=============================================================================
