CONSTANTS
  Ids = {i1, i2, i3}
  Pools = {p1, p2}
  Mints = {m1, m2, m3}
  InitialCapital = 20
  Configs <- MCConfigs
  Amounts <- MCAmounts
  Fees <- MCFees
  Deposits <- MCDeposits
  Profits <- MCProfits
  MaxCapital = 5
SPECIFICATION Spec
INVARIANTS TypeOK PositionsConsistent WorstCaseCovered CapacityHonest FallbackStands
CONSTRAINT CapitalBound
SYMMETRY Alike
