-------------------------------- MODULE Policy --------------------------------
(***************************************************************************)
(* The policy decision on a tool execution: core/policy (pipeline.go and   *)
(* the stage_*.go files) and the merge of the agent's overlays             *)
(* (core/agent/types.go).                                                  *)
(*                                                                         *)
(* A path is the sequence of its components.  A matcher, whether exact,    *)
(* glob or regex, is the set of values it matches; a summary is the set of *)
(* words found in it.  A tool always has one of the four tiers: the        *)
(* definitions name one and plugin manifests default to "safe".            *)
(***************************************************************************)
EXTENDS Integers, Sequences, FiniteSets

Tiers == {"safe", "moderate", "dangerous", "destructive"}
Unset == "unset"

Rank(tier) ==
  CASE tier = "moderate" -> 1
    [] tier = "dangerous" -> 2
    [] tier = "destructive" -> 3
    [] OTHER -> 0

MaxTier(current, next) == IF Rank(next) > Rank(current) THEN next ELSE current

EscalateTier(tier) ==
  CASE tier = "safe" -> "moderate"
    [] tier = "moderate" -> "dangerous"
    [] OTHER -> "destructive"

-----------------------------------------------------------------------------
(* An overlay: capabilities added and removed, the least tier of a         *)
(* mutation, the number of tiers to go up, and no auto-approval.           *)

(* mergeOverlays, one overlay at a time.                                   *)
MergeOverlays(a, b) ==
  [add |-> a.add \cup b.add,
   remove |-> a.remove \cup b.remove,
   minTier |-> IF b.minTier # Unset THEN MaxTier(a.minTier, b.minTier) ELSE a.minTier,
   escalate |-> IF b.escalate > a.escalate THEN b.escalate ELSE a.escalate,
   noAuto |-> a.noAuto \/ b.noAuto]

NoOverlay == [add |-> {}, remove |-> {}, minTier |-> Unset, escalate |-> 0, noAuto |-> FALSE]

EffectivePolicyProfile(profile, role, mode) ==
  MergeOverlays(MergeOverlays(MergeOverlays(NoOverlay, profile), role), mode)

EffectiveCapabilities(base, overlay) == (base \cup overlay.add) \ overlay.remove

EffectiveApprovalTier(base, overlay, mutating) ==
  LET start == IF mutating /\ overlay.minTier # Unset THEN MaxTier(base, overlay.minTier) ELSE base
      up[n \in 0..overlay.escalate] == IF n = 0 THEN start ELSE EscalateTier(up[n - 1])
  IN  up[overlay.escalate]

-----------------------------------------------------------------------------
ScopeMatches(rule, ctx) ==
  \/ rule.scope = "global"
  \/ rule.scope = "workspace" /\ rule.ref # Unset /\ rule.ref = ctx.workspace
  \/ rule.scope = "repo" /\ rule.ref # Unset /\ rule.ref = ctx.repo

IgnoreRuleApplies(rule, ctx) ==
  /\ rule.enabled /\ ScopeMatches(rule, ctx)
  /\ \E p \in ctx.paths : <<p[Len(p)]>> \in rule.match \/ p \in rule.match

MatchStructured(rule, ctx) ==
  /\ rule.tools = {} \/ ctx.tool \in rule.tools
  /\ rule.widgets = {} \/ ctx.widgets \cap rule.widgets # {}
  /\ rule.words \subseteq ctx.words

TrustedRuleApplies(rule, ctx) ==
  /\ rule.enabled /\ ScopeMatches(rule, ctx)
  /\ CASE rule.subject = "tool" -> ctx.tool \in rule.match
       [] rule.subject = "command" -> ctx.summary \in rule.match
       [] rule.subject = "path" -> ctx.paths \cap rule.match # {}
       [] rule.subject = "structured" -> MatchStructured(rule, ctx)

(* The rule that decides: the first that applies.                          *)
FirstApplicable(rules, ctx) ==
  LET hits == {i \in 1..Len(rules) : IgnoreRuleApplies(rules[i], ctx)}
  IN  {rules[i] : i \in {i \in hits : \A j \in hits : i <= j}}

PathAllowed(path, roots) ==
  \E r \in roots : r # <<>> /\ Len(r) <= Len(path) /\ SubSeq(path, 1, Len(r)) = r

-----------------------------------------------------------------------------
(* The stages.  Each either stops the pipeline with its verdict or lets    *)
(* the next one look; "pass" is the verdict of a stage that does not stop. *)
CapabilityStage(cfg, ctx) ==
  IF ctx.capabilities \subseteq EffectiveCapabilities(cfg.capabilities, ctx.overlay)
  THEN "pass" ELSE "capability_denied"

AllowedRootsStage(cfg, ctx) ==
  IF ctx.needsRoots /\ \E p \in ctx.paths : ~PathAllowed(p, cfg.roots) /\ ~ctx.approved
  THEN "allowed_root_confirmation_required" ELSE "pass"

(* Variant: an enabled deny rule asks nobody.                             *)
IgnoreRulesStageSkipped(cfg, ctx) == "pass"

IgnoreRulesStage(cfg, ctx) ==
  IF /\ ctx.checksIgnore /\ ~ctx.approved
     /\ \E rule \in FirstApplicable(cfg.ignore, ctx) : rule.mode = "deny"
  THEN "ignore_rule_confirmation_required" ELSE "pass"

Tier(ctx) == EffectiveApprovalTier(ctx.tier, ctx.overlay, ctx.mutating)

(* trustedRulesStage only sets this.                                       *)
AutoApproved(cfg, ctx) ==
  /\ \E i \in 1..Len(cfg.trusted) : TrustedRuleApplies(cfg.trusted[i], ctx)
  /\ ~ctx.overlay.noAuto /\ Tier(ctx) # "destructive"

ApprovalStage(cfg, ctx) ==
  IF Tier(ctx) \in {"dangerous", "destructive"} /\ ~ctx.approved /\ ~AutoApproved(cfg, ctx)
  THEN "approval_required" ELSE "pass"

(* pipeline.run: the verdict of the first stage that stops.                *)
Reason(cfg, ctx) ==
  IF CapabilityStage(cfg, ctx) # "pass" THEN CapabilityStage(cfg, ctx)
  ELSE IF AllowedRootsStage(cfg, ctx) # "pass" THEN AllowedRootsStage(cfg, ctx)
  ELSE IF IgnoreRulesStage(cfg, ctx) # "pass" THEN IgnoreRulesStage(cfg, ctx)
  ELSE ApprovalStage(cfg, ctx)

Evaluate(cfg, ctx) ==
  LET reason == Reason(cfg, ctx) IN
  [allowed |-> reason = "pass",
   confirm |-> reason \notin {"pass", "capability_denied"},
   reason |-> reason,
   tier |-> Tier(ctx)]

-----------------------------------------------------------------------------
(* What the policy promises, stage by stage: an approval stands for every  *)
(* confirmation but gives no capability, the first ignore rule that applies *)
(* decides, and only dangerous operations may be trusted.                  *)
Permitted(cfg, ctx) ==
  /\ \A c \in ctx.capabilities :
        (c \in cfg.capabilities \/ c \in ctx.overlay.add) /\ c \notin ctx.overlay.remove
  /\ \/ ctx.approved
     \/ /\ ctx.needsRoots => \A p \in ctx.paths : \E r \in cfg.roots : \E n \in 1..Len(p) : SubSeq(p, 1, n) = r
        /\ ctx.checksIgnore =>
             \A i \in 1..Len(cfg.ignore) :
                IgnoreRuleApplies(cfg.ignore[i], ctx) /\ cfg.ignore[i].mode = "deny" =>
                   \E j \in 1..(i - 1) : IgnoreRuleApplies(cfg.ignore[j], ctx) /\ cfg.ignore[j].mode # "deny"
        /\ \/ Rank(Tier(ctx)) < Rank("dangerous")
           \/ /\ Tier(ctx) = "dangerous" /\ ~ctx.overlay.noAuto
              /\ \E i \in 1..Len(cfg.trusted) : TrustedRuleApplies(cfg.trusted[i], ctx)

(* policy.Evaluate allows exactly what the policy promises.                *)
AllowedIffPermitted(cfg, ctx) == Evaluate(cfg, ctx).allowed <=> Permitted(cfg, ctx)

(* Destructive operations never become silent, whatever rules are trusted. *)
DestructiveNeverSilent(cfg, ctx) ==
  Tier(ctx) = "destructive" /\ Evaluate(cfg, ctx).allowed => ctx.approved

(* A trusted rule more spares the approval of a dangerous operation and    *)
(* nothing else: boundaries that were not passed before are not passed     *)
(* after.                                                                  *)
TrustOnlyReducesApproval(cfg, ctx, rule) ==
  LET before == Evaluate(cfg, ctx)
      after == Evaluate([cfg EXCEPT !.trusted = Append(@, rule)], ctx) IN
  \/ after = before
  \/ before.reason = "approval_required" /\ Tier(ctx) = "dangerous" /\ after.allowed

(* An overlay merged from others is at least as strict as one of them is   *)
(* alone, in tier and in what it takes away.                               *)
MergedIsAsStrict(merged, alone, base, mutating, capabilities) ==
  /\ Rank(EffectiveApprovalTier(base, alone, mutating)) <= Rank(EffectiveApprovalTier(base, merged, mutating))
  /\ alone.noAuto => merged.noAuto
  /\ EffectiveCapabilities(capabilities, merged) \cap alone.remove = {}
=============================================================================
