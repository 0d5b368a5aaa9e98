\* Two clients start and stop two scans in two parts; a cancelled call drops the
\* answer it has (Python 3.12 and later).
SPECIFICATION Spec
CONSTANTS
  p1 = p1  p2 = p2  t1 = t1  s1 = s1  s2 = s2  c1 = c1  c2 = c2
  SerialPorts = {p1}
  TcpPorts = {t1}
  Malformed = {}
  UartConfigs = 1
  FastConfigs = 1
  NumIds = 1
  Serials = {s1}
  MaxBacklog = 1
  MaxRounds = 2
  OooCounts = {0}
  KeepsAnswer = FALSE
  FastReplies <- OneDevice
  Clients = {c1, c2}
  ScanTypes = {"default"}
  NoPort = NoPort
  Requests <- NamesNone
  PortLists <- AllPorts
  Preserve = {FALSE}
  MaxScans = 2
INVARIANTS
  NoOrphanTasks
PROPERTIES
  ServiceKept
  StopMeansStopped
  NothingNewAfterStop
