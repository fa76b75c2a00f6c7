SPECIFICATION FairSpec
CONSTANTS
  Task = {t1}
  Closer = {c1}
  None = None
  GroupTimed = TRUE
  OwnDeadline = {}
  Cpu = {}
  Async = {t1}
  Isolated = {}
  FailFast = TRUE
  CancelPending = {}
  MaxCloses = 2
PROPERTIES CancelSettles EndedSettles GroupDeadlineEnforced
CHECK_DEADLOCK FALSE
