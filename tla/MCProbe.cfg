SPECIFICATION Spec
CONSTANTS
    FeeRateDenominator = 20
    MaxFeeBasisPoints = 20
    BpsDenominator = 20
    U64Max = 132
    Pools <- MCPools
    Info <- MCInfo
    Snapshots <- MCSnapshots
    Amounts <- MCAmounts
    Grid <- MCGrid
    MaxCapital = 12
    RefineSteps = 3
    MinQuoteReserve = 14
    MaxSteps = 3
    Fund = 20
    BaseFee = 2
    PriorityFee = 1
    JitoTip = 0
    AtaRent = 5
    UvaRent = 4
    Surprises = {0, 1}
    r1 = r1  p1 = p1  r2 = r2  p2 = p2  r3 = r3  t1 = t1  t2 = t2
INVARIANTS
    NoPoolPaysForNothing
    ExactOutCovers
    SizeIsBest
    ProbeHonoursQuote
    CompleteIsTrue
    DepositsReturn
PROPERTIES
    ConstantNeverFalls
CHECK_DEADLOCK FALSE
