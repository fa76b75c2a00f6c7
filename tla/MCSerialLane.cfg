SPECIFICATION FairSpec
CONSTANTS
  u1 = u1
  u2 = u2
  p1 = p1
  q1 = q1
  l1 = l1
  l2 = l2
  w1 = w1
  None = None
  Lane = {l1, l2}
  Worker = {w1}
  Coalescing = {u1, u2}
  Capacity = 1
  MaxPermits = 2
  MaxCloses = 2
  Submission <- MCSubmission
  LaneOf <- MCLaneOf
  Created <- MCCreated
  WorkerOf <- MCWorkerOf
INVARIANTS TypeOK OneToken NoStaleCall PermitsMatchWork
PROPERTIES DrainedIsFinal AcceptedSettles
CHECK_DEADLOCK FALSE
