CONSTANTS
  MaxU64 = 2
  Instructions <- MCInstructions
  Transactions <- MCTransactions
  Owner <- MCOwner
  TokenData <- MCTokenData
  PoolData <- MCPoolData
SPECIFICATION LegsSpec
INVARIANTS TypeOK LegsPlayTheirRoles BuiltLegsFit
PROPERTY ImplementsAtomicCircuit
