\* Requests of two clients, repeated at any time, over a link that breaks.
SPECIFICATION FairSpec
CONSTANTS
  Methods = {"Update"}
  MaxCalls = 3
  MaxSessions = 2
  Requests <- ThreeRequests
  MaxRequests = 3
INVARIANTS
  IInv
  NeverTwice
  ProcessingMatches
  AnsweredOnce
  DeafOnlyIfCalledOffline
PROPERTIES
  RequestsEnd
  ServiceKept
CHECK_DEADLOCK FALSE
