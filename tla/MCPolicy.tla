------------------------------- MODULE MCPolicy -------------------------------
(***************************************************************************)
(* Policy over bounded inputs: a behaviour is one question, a policy       *)
(* configuration and a tool execution, and the answers are compared with   *)
(* what the policy promises.                                               *)
(***************************************************************************)
EXTENDS Policy

VARIABLES
  cfg,     \* the policy configuration
  ctx,     \* the execution it is asked about
  roles    \* the overlays of the agent's role and mode

vars == <<cfg, ctx, roles>>

Repo == <<"repo">>
InRepo == <<"repo", "main.go">>
Key == <<"repo", "server.pem">>
Outside == <<"etc", "hosts">>

IgnoreRules ==
  { [scope |-> "global", ref |-> Unset, enabled |-> TRUE, mode |-> "deny", match |-> {<<"server.pem">>}],
    [scope |-> "repo", ref |-> Repo, enabled |-> TRUE, mode |-> "redact", match |-> {Key, Outside}],
    [scope |-> "workspace", ref |-> "ws2", enabled |-> TRUE, mode |-> "deny", match |-> {InRepo}] }

TrustedRules ==
  { [scope |-> "global", ref |-> Unset, enabled |-> TRUE, subject |-> "tool", match |-> {"read"}],
    [scope |-> "workspace", ref |-> "ws1", enabled |-> TRUE, subject |-> "path", match |-> {InRepo, Key}],
    [scope |-> "workspace", ref |-> Unset, enabled |-> TRUE, subject |-> "command", match |-> {"run it"}],
    [scope |-> "repo", ref |-> Repo, enabled |-> TRUE, subject |-> "structured",
     tools |-> {}, widgets |-> {"w1"}, words |-> {"run"}],
    [scope |-> "global", ref |-> Unset, enabled |-> FALSE, subject |-> "tool", match |-> {"read"}] }

Overlays ==
  { NoOverlay,
    [NoOverlay EXCEPT !.minTier = "dangerous", !.noAuto = TRUE],
    [NoOverlay EXCEPT !.minTier = "moderate", !.escalate = 1],
    [NoOverlay EXCEPT !.escalate = 2, !.add = {"write"}],
    [NoOverlay EXCEPT !.minTier = "moderate", !.remove = {"read"}] }

IgnoreLists == {<<>>} \cup {<<r>> : r \in IgnoreRules} \cup {<<r, s>> \in IgnoreRules \X IgnoreRules : r # s}

(* The overlays that are asked about under every boundary; the others are  *)
(* asked about where there is none.                                        *)
Few ==
  { NoOverlay,
    [NoOverlay EXCEPT !.minTier = "dangerous", !.noAuto = TRUE],
    [NoOverlay EXCEPT !.escalate = 2, !.add = {"write"}] }

Init ==
  /\ roles \in Overlays \X Overlays
  /\ cfg \in [roots : {{}, {Repo}}, capabilities : {{"read"}}, trusted : {<<>>}, ignore : IgnoreLists]
  /\ ctx \in
       [tool : {"read"}, summary : {"run it"}, words : {{"run", "it"}}, widgets : {{"w1"}},
        workspace : {"ws1"}, repo : {Repo},
        paths : {{}, {Key}, {InRepo, Outside}}, capabilities : {{"read"}, {"read", "write"}},
        tier : Tiers, mutating : BOOLEAN, needsRoots : BOOLEAN, checksIgnore : BOOLEAN,
        approved : {FALSE}, overlay : {EffectivePolicyProfile(NoOverlay, roles[1], roles[2])}]
  /\ \/ roles \in Few \X Few
     \/ cfg.roots = {} /\ cfg.ignore = <<>> /\ ctx.paths = {} /\ ~ctx.needsRoots /\ ~ctx.checksIgnore

(* The same question again, with a trusted rule more ...                   *)
AddTrustedRule ==
  /\ cfg.trusted = <<>> /\ ~ctx.approved
  /\ \E r \in TrustedRules : cfg' = [cfg EXCEPT !.trusted = Append(@, r)]
  /\ UNCHANGED <<ctx, roles>>

(* ... or with a valid approval.                                           *)
Approve ==
  /\ ~ctx.approved /\ cfg.trusted = <<>>
  /\ ctx' = [ctx EXCEPT !.approved = TRUE]
  /\ UNCHANGED <<cfg, roles>>

Next == AddTrustedRule \/ Approve

Spec == Init /\ [][Next]_vars

-----------------------------------------------------------------------------
(* What the policy promises to the tool runtime: Evaluate allows exactly   *)
(* what the stages permit, nothing destructive passes silently, a trusted  *)
(* rule opens no boundary, and the merged profile is as strict as the role *)
(* and the mode are alone.                                                 *)
PolicyPromises ==
  /\ AllowedIffPermitted(cfg, ctx)
  /\ DestructiveNeverSilent(cfg, ctx)
  /\ cfg.trusted = <<>> => \A r \in TrustedRules : TrustOnlyReducesApproval(cfg, ctx, r)
  /\ \A i \in 1..2 : MergedIsAsStrict(ctx.overlay, roles[i], ctx.tier, ctx.mutating, cfg.capabilities)
=============================================================================
