\* A service that starts, serves, loses its broker and is stopped at any moment.
SPECIFICATION Spec
CONSTANTS
  None = None
  Available = Available
  Topics = {"state", "fw", "rpc"}
  MaxSessions = 2
  MaxEvents = 1
  MaxSignals = 1
  MaxRejections = 1
INVARIANTS
  RemovedAtExit
CHECK_DEADLOCK FALSE
