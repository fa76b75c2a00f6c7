SPECIFICATION Spec
CONSTANTS
  World = {w1, w2, w3, w4}
  Absent = Absent
  Partial = Partial
  Port = {p1, p2}
  MaxFaults = 3
INVARIANTS TypeOK WorldSurvives SessionOnOwedWorld
PROPERTIES PendingIsRecovered
