SPECIFICATION Spec
CONSTANTS
  NULL = NULL
  Pid = {p1, p2, p3, p4}
  NoPid = NoPid
  NTty = 2
  Tty <- MCTty
  TtyOn = {0, 1}
  root = root
  dev = dev
  Path = {root}
  IFS = IFS
  RC = RC
  ORPHAN = ORPHAN
  NoImage = NoImage
  Faults = {"fork", "orphan", "crash", "ifs", "nohup", "memory", "io"}
  Client = {c1}
  How = {halt, reboot}
  HALT = halt
  NoHow = NoHow
  NoClient = NoClient
  StartupScript <- ShortStartup
  ShutdownScript <- StartingShutdown
  Garbage <- CutLines
  RcEnabled = FALSE
SYMMETRY PidSymmetry
INVARIANTS
  TypeOK
  SessionOwnsProcess
  LoginsTracked
  CleanPoweroff
  StartLoopAdvances
  ShutdownScriptLoaded
  LoginInv
PROPERTIES
  NoLoginAfterShutdown
  LifeSpec
CHECK_DEADLOCK FALSE
