SPECIFICATION FairSpec
CONSTANTS
  NULL = NULL
  Pid = {p1, p2, p3, p4}
  NoPid = NoPid
  NTty = 1
  Tty <- MCTty
  TtyOn = {0}
  root = root
  dev = dev
  Path = {root}
  IFS = IFS
  RC = RC
  ORPHAN = ORPHAN
  NoImage = NoImage
  Faults = {}
  Client = {c1}
  How = {halt, reboot}
  HALT = halt
  NoHow = NoHow
  NoClient = NoClient
  StartupScript <- ShortStartup
  ShutdownScript <- StartingShutdown
  Garbage = {}
  RcEnabled = FALSE
PROPERTIES
  ZombiesCollected
CHECK_DEADLOCK FALSE
