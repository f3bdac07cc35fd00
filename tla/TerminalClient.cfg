CONSTANTS
  None = None
  MaxOps = 3
  MaxFails = 1
  MaxRuns = 2
  MaxOut = 1
  MaxStreams = 3
  MaxTasks = 2
SPECIFICATION Spec
INVARIANTS
  BusyHasOwner
  OneStream
  
  StreamOrSignal
CHECK_DEADLOCK FALSE
PROPERTIES ReconnectSettles
