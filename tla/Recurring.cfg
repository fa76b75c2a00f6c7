SPECIFICATION FairSpec
CONSTANTS
  Child = {c1}
  None = None
  Timed = {c1}
  FailFast = TRUE
  Capacity = 1
  Permits = 2
  MaxCloses = 1
INVARIANTS TypeOK NoBacklog ConvergedIsQuiet
PROPERTIES EndedFallsSilent
CHECK_DEADLOCK FALSE
