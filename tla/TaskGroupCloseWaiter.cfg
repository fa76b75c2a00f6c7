SPECIFICATION Spec
CONSTANTS
  Task = {t1}
  Closer = {c1, c2}
  None = None
  GroupTimed = FALSE
  OwnDeadline = {}
  Cpu = {}
  Async = {}
  Isolated = {}
  FailFast = TRUE
  CancelPending = {c1}
  MaxCloses = 2
INVARIANTS CleanCloseIsJoined
CHECK_DEADLOCK FALSE
