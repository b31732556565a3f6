SPECIFICATION Spec
CONSTANTS
  NULL = NULL
  Pid = {p1, p2, p3, p4, p5}
  NoPid = NoPid
  NTty = 1
  Tty <- MCTty
  TtyOn = {0}
  root = root
  dev = dev
  Path = {root}
  IFS = IFS
  RC = RC
  ORPHAN = ORPHAN
  NoImage = NoImage
  Faults = {"stop"}
  Client = {c1}
  How = {halt, reboot}
  HALT = halt
  NoHow = NoHow
  NoClient = NoClient
  StartupScript <- ShortStartup
  ShutdownScript <- StartingShutdown
  Garbage = {}
  RcEnabled = TRUE
SYMMETRY PidSymmetry
INVARIANTS
  OneLoginPerLine
CHECK_DEADLOCK FALSE
