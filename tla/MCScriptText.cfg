SPECIFICATION FairSpec
CONSTANTS
  Letter = {"a", "b", "c", "s", "w", "p", "m", "o"}
  START = "s"
  WAITFOR = "w"
  MKNOD = "m"
  DEVICE = {"b", "c"}
  Arity <- MCArity
  LINEBUF = 10
  ARG_SZ = 5
  NULL = NULL
  Input <- MCInput
INVARIANTS
  TypeOK
  ArgvTerminated
  OverrunByLongLines
PROPERTIES
  AsWritten
  ScriptEnds
CHECK_DEADLOCK FALSE
