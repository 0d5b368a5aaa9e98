\* A request that comes while there is no connection, in one of two sessions.
SPECIFICATION Spec
CONSTANTS
  Methods = {"Update"}
  MaxCalls = 2
  MaxSessions = 2
  Requests <- ThreeRequests
  MaxRequests = 2
PROPERTIES
  Resubscribed
CHECK_DEADLOCK FALSE
