\* Two conversations and two providers, three operations on them, or four where
\* the last meets an older function and nothing fails, two in flight; six
\* operations on the submissions of one conversation.
CONSTANTS
    Conv = {c1, c2, c3, c4, c5, c6}
    First = {c1, c2}
    Provider = {p1, p2}
    None = None
    MaxOps = 4
    MaxCalls = 2
    MaxFails = 1
    MaxSubmits = 6
    MaxTasks = 2
    MaxFailures = 1
SPECIFICATION MCSpec
INVARIANTS ListSpinnerIsExact 
INVARIANTS BusyIsExact  
PROPERTIES AgentGoesOn
CHECK_DEADLOCK FALSE
