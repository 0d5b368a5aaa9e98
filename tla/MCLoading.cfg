\* Stop, or an error answer, while the scan task waits for the list of ports.
SPECIFICATION Spec
CONSTANTS
  p1 = p1  p2 = p2  t1 = t1  s1 = s1  s2 = s2  c1 = c1  c2 = c2
  SerialPorts = {p1}
  TcpPorts = {}
  Malformed = {}
  UartConfigs = 1
  FastConfigs = 1
  NumIds = 1
  Serials = {s1}
  MaxBacklog = 1
  MaxRounds = 1
  OooCounts = {0}
  KeepsAnswer = FALSE
  FastReplies <- NoDevice
  Clients = {c1}
  ScanTypes = {"standard"}
  NoPort = NoPort
  Requests <- NamesNone
  PortLists <- AllPorts
  Preserve = {FALSE}
  MaxScans = 1
INVARIANTS
  OverIsIdle
