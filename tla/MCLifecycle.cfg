\* A service that starts, serves, loses its broker and is stopped at any moment.
SPECIFICATION FairSpec
CONSTANTS
  None = None
  Available = Available
  Topics = {"state", "fw", "rpc"}
  MaxSessions = 2
  MaxEvents = 1
  MaxSignals = 1
  MaxRejections = 1
INVARIANTS
  IInv
  ConsumerHasLastWord
  TopicsCleared
  ClearsConfirmed
PROPERTIES
  ShownAgain
  StopEnds
CHECK_DEADLOCK FALSE
