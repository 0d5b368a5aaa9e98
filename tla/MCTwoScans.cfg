\* Two one-by-one or bootloader scans of a serial and a TCP port: the same device at
\* both ports and at several settings, failing ports, Stop at any time, and a second
\* scan that may keep what the first one found.
SPECIFICATION HSpec
CONSTANTS
  p1 = p1  p2 = p2  t1 = t1  s1 = s1  s2 = s2  c1 = c1  c2 = c2
  SerialPorts = {p1}
  TcpPorts = {t1}
  Malformed = {}
  UartConfigs = 2
  FastConfigs = 1
  NumIds = 1
  Serials = {s1}
  MaxBacklog = 1
  MaxRounds = 1
  OooCounts = {0}
  KeepsAnswer = FALSE
  FastReplies <- NoDevice
  Clients = {c1}
  ScanTypes = {"standard", "bootloader"}
  NoPort = NoPort
  Requests <- NamesNone
  PortLists <- AllPorts
  Preserve = {TRUE, FALSE}
  MaxScans = 2
INVARIANTS
  IInv
  DevicesMatchFound
  FoundOnce
  FailedPortsReported
PROPERTIES
  FreshScanShowsNothing
