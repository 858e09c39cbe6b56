CONSTANTS
  t1 = t1
  t2 = t2
  t3 = t3
  p1 = p1
  p2 = p2
  p3 = p3
  p4 = p4
  p5 = p5
  Tokens = {t1, t2, t3}
  Pools = {p1, p2, p3, p4, p5}
  PoolsOf <- TwoRoutes
  MaxCapital = 10
  FeeBudget = 1
  Deposit = 1
  MaxStale = 0
  MaxSims = 0
  Minute = 0
  PollTicks = 2
  MaxLocal = 0
  MaxCount = 2
SPECIFICATION Spec
INVARIANT NoChangeForgotten
PROPERTY ChangeFollowed
CHECK_DEADLOCK FALSE
