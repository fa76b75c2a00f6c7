SPECIFICATION Spec
CONSTANTS
  Cycle = {c1}
  None = None
  MethodReconciles = FALSE
  MaxCheckpoints = 1
INVARIANTS NotAppliedIsNotCompleted
CHECK_DEADLOCK FALSE
