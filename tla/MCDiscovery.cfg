SPECIFICATION Spec
CONSTANTS
  r1 = r1
  r2 = r2
  p1 = p1
  p2 = p2
  c1 = c1
  c2 = c2
  cursor1 = cursor1
  cursor2 = cursor2
  None = None
  Unreadable = Unreadable
  Runs <- McRuns
  Setups <- McSetups
  Inventories <- McInventories
  Pages <- McPages
  Wsol <- McWsol
  Item <- McItem
  DefaultRoutesPerMint = 2
  Cap = 3
  PageSize = 2
  KeysPerRequest = 2
  MinInterval = 2
  MaxRetries = 1
  ApiBudget = 4
  Backoffs <- McBackoffs
  MaxCrashes = 1
CONSTRAINT
  OneAtATime
INVARIANT
  ShortlistIsHonest
PROPERTY
  RateHolds
  CoverageKept
