SPECIFICATION FairSpec
CONSTANTS
  NULL = NULL
  Pid = {p1, p2, p3}
  NoPid = NoPid
  NTty = 2
  Tty <- MCTty
  TtyOn = {0}
  root = root
  dev = dev
  Path = {root, dev}
  IFS = IFS
  RC = RC
  ORPHAN = ORPHAN
  NoImage = NoImage
  Faults = {"orphan", "port"}
  Client = {c1, c2}
  How = {halt, reboot}
  HALT = halt
  NoHow = NoHow
  NoClient = NoClient
  StartupScript <- PivotStartup
  ShutdownScript <- StartingShutdown
  Garbage = {}
  RcEnabled = FALSE
INVARIANTS
  RequestsConserved
PROPERTIES
  PortService
  HowWasRequested
  BootCompletes
  ShutdownCompletes
  RequestsServed
CHECK_DEADLOCK FALSE
