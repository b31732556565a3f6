SPECIFICATION Spec
CONSTANTS
  NULL = NULL
  Pid = {p1, p2, p3}
  NoPid = NoPid
  NTty = 2
  Tty <- MCTty
  TtyOn = {0, 1}
  root = root
  dev = dev
  Path = {root}
  IFS = IFS
  RC = RC
  ORPHAN = ORPHAN
  NoImage = NoImage
  Faults = {"fork"}
  Client = {c1}
  How = {halt, reboot}
  HALT = halt
  NoHow = NoHow
  NoClient = NoClient
  StartupScript <- ShortStartup
  ShutdownScript <- StartingShutdown
  Garbage = {}
  RcEnabled = FALSE
SYMMETRY PidSymmetry
INVARIANTS
  GivesUpOnlyIdle
CHECK_DEADLOCK FALSE
