CONSTANTS
  t1 = t1
  p1 = p1
  p2 = p2
  Tokens = {t1}
  Pools = {p1, p2}
  PoolsOf <- OneRoute
  MaxCapital = 20
  FeeBudget = 1
  Deposit = 1
  MaxStale = 1
  MaxSims = 2
  Minute = 2
  PollTicks = 1
  MaxLocal = 2
  MaxCount = 2
SPECIFICATION EpisodesSpec
INVARIANT LocalProbeOncePerEpisode
CHECK_DEADLOCK FALSE
