----------------------------- MODULE MCToolRuntime -----------------------------
(* ToolRuntime with dangerous tools, a trusted rule for them, tools that   *)
(* add and remove one, and agent selections that make them destructive or  *)
(* switch trusted rules off.                                               *)
EXTENDS ToolRuntime, TLC

CONSTANTS Asked   \* the requests that are made

Tool(name) ==
  [tool |-> name, summary |-> name, words |-> {name}, widgets |-> {}, workspace |-> "ws1", repo |-> <<"repo">>,
   paths |-> {}, capabilities |-> {"cap"}, tier |-> "dangerous", mutating |-> TRUE,
   needsRoots |-> FALSE, checksIgnore |-> FALSE]

MCRequests == Asked
MCEffect == [r \in Asked |-> CASE r = "trust" -> "trust" [] r = "untrust" -> "untrust" [] OTHER -> "run"]
MCContext == [r \in Asked |-> Tool(r)]
MCConfirmContext == [Tool("safety.confirm") EXCEPT !.tier = "safe", !.mutating = FALSE, !.capabilities = {"policy"}]

MCOverlay ==
  [s \in Profiles \cup Modes |->
     CASE s = "hardened" -> [NoOverlay EXCEPT !.minTier = "dangerous", !.noAuto = TRUE]
       [] s = "escalated" -> [NoOverlay EXCEPT !.escalate = 1]
       [] OTHER -> NoOverlay]

MCRule == [id |-> Named, scope |-> "global", ref |-> Unset, enabled |-> TRUE, subject |-> "tool", match |-> {"input", "trust", "untrust"}]

Trusting == [roots |-> {}, capabilities |-> {"cap", "policy"}, trusted |-> <<MCRule>>, ignore |-> <<>>]

\* Bound: histories with a request that adds a rule keep the profile and take
\* no time; selections of the mode and restarts still happen in them.
TrustingIsBrief ==
  (\E c \in Calls : call[c].target = "trust") => profile = "balanced" /\ clock = 0

Symmetry == Permutations(Calls)
=============================================================================
