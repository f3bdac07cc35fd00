SPECIFICATION Spec
CONSTANTS
  Name <- MCName
  Folder = 1
  Hidden <- MCHidden
  Size <- MCSize
  Fresh <- MCFresh
  Binary <- MCBinary
  Session <- MCTransferSession
  None = None
  MaxTasks = 3
INVARIANTS OverwritesWhatWasShown
CHECK_DEADLOCK FALSE
