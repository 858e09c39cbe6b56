--------------------------- MODULE MCCapitalLedger ---------------------------
EXTENDS ProbeReservation, TLC

MCAmounts == {0, 3, 6}
MCFees == {-1, 0, 2}
MCDeposits == {0, 4}
MCProfits == {-3, 2}

\* Of 20 lamports the episode cap takes 9 and the operating reserve 5.  The
\* aggregate cap binds first when it is 13, the reserve when it is 16.
MCConfigs ==
  [maxEpisode : {450000}, maxAggregateOpen : {650000, 800000},
   reserve : {250000}, maxConcurrent : {2}, hypothetical : BOOLEAN]

\* Profits could pile up for ever.
CapitalBound == capital <= 24

Alike == Permutations(Ids) \cup Permutations(Pools) \cup Permutations(Mints)
==============================================================================
