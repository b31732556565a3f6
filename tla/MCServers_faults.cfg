SPECIFICATION Spec
CONSTANTS
  Client = {c1, c2, c3}
  NoClient = NoClient
  Size <- MCSize
  ARG_MAX = 2
  Faults = {"args", "port", "sigaction", "register", "getmsg"}
  Program = "nettcpip"
SYMMETRY ClientSymmetry
INVARIANTS
  RequestsHeld
PROPERTIES
  ServiceSafety
CHECK_DEADLOCK FALSE
