\* Three requests, for tools that remove the trusted rule they pass by or add
\* one, or to confirm them, under selections of the agent that make them
\* destructive or switch trust off; approvals that last one tick of two.
CONSTANTS
  c1 = c1
  c2 = c2
  c3 = c3
  Calls = {c1, c2, c3}
  None = None
  Named = Named
  Asked = {"trust", "untrust"}
  Requests <- MCRequests
  Effect <- MCEffect
  Context <- MCContext
  ConfirmContext <- MCConfirmContext
  Profiles = {"balanced", "hardened"}
  Modes = {"implement", "escalated"}
  Overlay <- MCOverlay
  Config <- Trusting
  Rule <- MCRule
  TTL = 1
  MaxTime = 2
SYMMETRY Symmetry
CONSTRAINT TrustingIsBrief
SPECIFICATION Spec
INVARIANTS ApprovalsAreSound
PROPERTIES MismatchKeepsToken
CHECK_DEADLOCK FALSE
