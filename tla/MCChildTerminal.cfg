SPECIFICATION Spec
CONSTANTS
  Char = {"a", "b", "t", "blank", "tab"}
  BLANK = "blank"
  TAB = "tab"
  NULL = NULL
  Ttyent <- MCTtyent
  Faults = {"root", "memory", "setsid", "open", "F_DUPFD", "TIOCSCTTY", "dup2", "exec"}
  OPEN_MAX = 6
  HIGH = 4
INVARIANTS
  TypeOK
  ArgvFits
  ArgvAsWritten
  ImageControlsTerminal
  StandardIsTerminal
  OnlyTerminalAdded
CHECK_DEADLOCK FALSE
