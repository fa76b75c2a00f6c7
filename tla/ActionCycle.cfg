SPECIFICATION RecoverySpec
CONSTANTS
  Cycle = {c1, c2}
  None = None
  MethodReconciles = TRUE
  MaxCheckpoints = 3
INVARIANTS TypeOK AtMostOnce JournalIsProven EffectIsCovered ConsumedOnce
PROPERTIES DecidedSettles ImplementsEffectLog
CHECK_DEADLOCK FALSE
