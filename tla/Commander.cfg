SPECIFICATION Spec
CONSTANTS
  Name <- MCName
  Folder = 1
  Hidden <- MCHidden
  Size <- MCSize
  Fresh <- MCFresh
  Binary <- MCBinary
  Session <- MCSession
  None = None
  MaxTasks = 3
INVARIANTS PaneIsProjection LoadsAreOrdered OneMutation
PROPERTIES LoadingEnds StateIsSaved
CHECK_DEADLOCK FALSE
