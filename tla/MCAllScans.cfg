\* Scans of every type on lists of up to two of three ports or on the port the request
\* names, with ports that fail, a TCP port whose number is malformed, a request without a
\* path, and ids to try first.
SPECIFICATION HSpec
CONSTANTS
  p1 = p1  p2 = p2  t1 = t1  s1 = s1  s2 = s2  c1 = c1  c2 = c2
  SerialPorts = {p1}
  TcpPorts = {t1, p2}
  Malformed = {p2}
  UartConfigs = 2
  FastConfigs = 1
  NumIds = 2
  Serials = {s1}
  MaxBacklog = 1
  MaxRounds = 2
  OooCounts = {0, 1}
  KeepsAnswer = FALSE
  FastReplies <- OneDevice
  Clients = {c1}
  ScanTypes = {"extended", "bootloader", "default"}
  NoPort = NoPort
  Requests <- NamesOneOrNone
  PortLists <- UpToTwoPorts
  Preserve = {FALSE}
  MaxScans = 1
INVARIANTS
  EndIsPublished
  ProgressReachesEnd
  ScannedPortsShown
  FailedPortsReported
PROPERTIES
  ProgressNeverDrops
  OnlyForward
