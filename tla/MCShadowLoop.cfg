CONSTANTS
  t1 = t1
  t2 = t2
  t3 = t3
  p1 = p1
  p2 = p2
  p3 = p3
  p4 = p4
  p5 = p5
  Tokens = {t1, t2}
  Pools = {p1, p2, p3}
  PoolsOf <- OneRoute
  MaxCapital = 20
  FeeBudget = 1
  Deposit = 1
  MaxStale = 1
  MaxSims = 2
  Minute = 2
  PollTicks = 1
  MaxLocal = 1
  MaxCount = 2
SPECIFICATION Spec
INVARIANTS TypeOK NeverRefused ProbeSettled SimsPerWindow EpisodesFaithful
SYMMETRY Alike
CHECK_DEADLOCK FALSE
