SPECIFICATION FairSpec
CONSTANTS
  a1 = a1
  b1 = b1
  b2 = b2
  c1 = c1
  low = low
  critical = critical
  reject = reject
  t1 = t1
  t2 = t2
  gpu = gpu
  io = io
  cpu = cpu
  None = None
  Stale = Stale
  Tenant = {t1, t2}
  Resource = {gpu}
  Lane = {io, cpu}
  Rejecting = {reject}
  MaxTotal = 2
  MaxGroup = 1
  MaxTenant = 1
  MaxResource = 1
  Request <- MCRequest
  Group <- MCGroup
  GroupOf <- MCGroupOf
  LaneOf <- MCLaneOf
  TenantOf <- MCTenantOf
  ResourceOf <- MCResourceOf
  RankOf <- MCRankOf
  LaneLimit <- MCLaneLimit
INVARIANTS TypeOK WithinBudget CountersMatchLeases
PROPERTIES NoBarging NoStarvation
CHECK_DEADLOCK FALSE
