SPECIFICATION Spec
CONSTANTS
  Task = {t1, t2}
  Closer = {}
  None = None
  GroupTimed = TRUE
  OwnDeadline = {t1}
  Cpu = {t2}
  Async = {}
  Isolated = {t2}
  FailFast = TRUE
  CancelPending = {}
  MaxCloses = 1
INVARIANTS TypeOK NoLateSuccess CancelReachesEveryChild FailFastReachesSiblings
PROPERTIES TerminalIsFinal
CHECK_DEADLOCK FALSE
