SPECIFICATION Spec
CONSTANTS
  Task = {t1}
  Closer = {c1, c2}
  None = None
  GroupTimed = TRUE
  OwnDeadline = {}
  Cpu = {t1}
  Async = {}
  Isolated = {}
  FailFast = TRUE
  CancelPending = {c1}
  MaxCloses = 2
INVARIANTS ConvergedIsJoined
PROPERTIES ConvergedStays
CHECK_DEADLOCK FALSE
