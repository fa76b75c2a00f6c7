SPECIFICATION Spec
CONSTANTS
  Child = {p1, p2, p3, p4}
  None = None
  Durable = TRUE
  MaxAttempts = 3
INVARIANTS TypeOK AtMostOneChild ChildIsKnown IndexIsTruthful
CHECK_DEADLOCK FALSE
