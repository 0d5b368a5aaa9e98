\* A scan of a serial port and of a TCP port whose text after the colon is no number.
SPECIFICATION HSpec
CONSTANTS
  p1 = p1  p2 = p2  t1 = t1  s1 = s1  s2 = s2  c1 = c1  c2 = c2
  SerialPorts = {p1}
  TcpPorts = {t1}
  Malformed = {t1}
  UartConfigs = 1
  FastConfigs = 1
  NumIds = 1
  Serials = {s1}
  MaxBacklog = 1
  MaxRounds = 1
  OooCounts = {0}
  KeepsAnswer = FALSE
  FastReplies <- NoDevice
  Clients = {c1}
  ScanTypes = {"extended", "standard", "bootloader"}
  NoPort = NoPort
  Requests <- NamesOneOrNone
  PortLists <- AllPorts
  Preserve = {FALSE}
  MaxScans = 1
INVARIANTS
  EveryFailureReported
