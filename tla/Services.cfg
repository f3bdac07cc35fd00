\* Three mixes of requests on an ssh widget; two requests, the sweep and two
\* processes of an MCP server; three conversations, two answers and two
\* requests for one, with two operations on conversations and one failure.
CONSTANTS
  c1 = c1
  c2 = c2
  c3 = c3
  c4 = c4
  c5 = c5
  Primary = widget
  None = none
  Null = null
  Calls = {c1, c2, c3, c4, c5}
  Scenarios <- Safe
  Remote = TRUE
  Conv = {v1, v2, v3}
  Msg = {m1, m2}
  Asks = {a1, a2}
  MaxDeltas = 2
  MaxConvOps = 2
  MaxFails = 1
  Requests = {r1, r2}
  Sweeper = sweeper
  MaxProcs = 2
  MaxMcpOps = 3
SYMMETRY Interchangeable
SPECIFICATION MCSpec
INVARIANTS  McpIsSound ConversationsAreSound
CHECK_DEADLOCK FALSE
