SPECIFICATION FairSpec
CONSTANTS
  Client = {c1, c2}
  NoClient = NoClient
  Size = {0, 2, 3}
  ARG_MAX = 2
  Faults = {"args", "port", "sigaction", "getmsg", "readmsg"}
  Program = "sysinfo"
INVARIANTS
  ServerInv
PROPERTIES
  ServiceLive
  TermEnds
CHECK_DEADLOCK FALSE
