\* Every scan ends, every Stop is answered, every update is published, where a
\* cancelled call keeps the answer it has (Python 3.9 to 3.11), whether the request
\* names its port or not.
SPECIFICATION FairSpec
CONSTANTS
  p1 = p1  p2 = p2  t1 = t1  s1 = s1  s2 = s2  c1 = c1  c2 = c2
  SerialPorts = {p1}
  TcpPorts = {t1}
  Malformed = {}
  UartConfigs = 1
  FastConfigs = 1
  NumIds = 1
  Serials = {s1}
  MaxBacklog = 1
  MaxRounds = 1
  OooCounts = {0}
  KeepsAnswer = TRUE
  FastReplies <- NoDevice
  Clients = {c1, c2}
  ScanTypes = {"default"}
  NoPort = NoPort
  Requests <- NamesOneOrNone
  PortLists <- AllPorts
  Preserve = {FALSE}
  MaxScans = 1
PROPERTIES
  ScanEnds
  StopAnswered
  StatePublished
