\* Two sessions, two streams, two launches, a ring of two chunks, a channel of one.
CONSTANTS
  sa = sa
  sb = sb
  u1 = u1
  u2 = u2
  c1 = c1
  c2 = c2
  c3 = c3
  Primary = widget
  Sessions = {sa, sb}
  Subs = {u1, u2}
  Froms = {0, 2}
  Ring = 2
  SubCap = 1
  MaxRuns = 2
  MaxChunks = 3
  None = None
SPECIFICATION MCSpec
 
PROPERTIES NoSendOnClosed 
CHECK_DEADLOCK FALSE
