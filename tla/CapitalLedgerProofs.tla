------------------------ MODULE CapitalLedgerProofs ------------------------
(***************************************************************************)
(* The ledger is safe for every configuration, every set of arguments and  *)
(* any number of probes.  The sum of the open positions is the cardinality *)
(* of a set of lamports, so it changes by FS_Product and FS_Union; the     *)
(* caps survive a settlement because a position loses no more than it      *)
(* releases and a fraction of the capital shrinks by no more than the      *)
(* capital does.                                                           *)
(***************************************************************************)
EXTENDS ProbeReservation, FiniteSetTheorems, TLAPS

\* Earmarked of any function from ids to positions.
EarmarkedOf(q) == UNION {{i} \X (1..Need(q[i])) : i \in DOMAIN q}

-----------------------------------------------------------------------------
\* One more position adds exactly its own lamports to the sum.
LEMMA OneMorePosition ==
  ASSUME NEW q, NEW r, NEW i, i \notin DOMAIN q,
         DOMAIN r = DOMAIN q \cup {i},
         \A j \in DOMAIN q : r[j] = q[j],
         Need(r[i]) \in Nat,
         IsFiniteSet(EarmarkedOf(q))
  PROVE  /\ IsFiniteSet(EarmarkedOf(r))
         /\ Cardinality(EarmarkedOf(r)) = Cardinality(EarmarkedOf(q)) + Need(r[i])
<1> DEFINE n == Need(r[i])
           new == {i} \X (1..n)
<1>1. IsFiniteSet({i}) /\ Cardinality({i}) = 1
  BY FS_Singleton
<1>2. IsFiniteSet(1..n) /\ Cardinality(1..n) = n
  <2>1. 0 \in Int /\ 1 \in Int /\ n \in Nat  OBVIOUS
  <2>2. IsFiniteSet(1..n) /\ Cardinality(1..n) = IF 1 > n THEN 0 ELSE n - 1 + 1
    BY <2>1, FS_Interval
  <2> QED  BY <2>1, <2>2
<1>3. IsFiniteSet(new) /\ Cardinality(new) = n
  <2>1. IsFiniteSet(new) /\ Cardinality(new) = Cardinality({i}) * Cardinality(1..n)
    BY <1>1, <1>2, FS_Product
  <2> QED  BY <2>1, <1>1, <1>2
<1>4. EarmarkedOf(r) = EarmarkedOf(q) \cup new
  <2> HIDE DEF n
  <2>1. \A j \in DOMAIN q : {j} \X (1..Need(r[j])) = {j} \X (1..Need(q[j]))
    BY DEF Need
  <2>2. new = {i} \X (1..Need(r[i]))  BY DEF n
  <2> HIDE DEF new
  <2> QED  BY <2>1, <2>2 DEF EarmarkedOf
<1>5. EarmarkedOf(q) \cap new = {}
  BY DEF EarmarkedOf
<1>6. Cardinality({}) = 0  BY FS_EmptySet
<1>7. /\ IsFiniteSet(EarmarkedOf(q) \cup new)
      /\ Cardinality(EarmarkedOf(q) \cup new) =
           Cardinality(EarmarkedOf(q)) + Cardinality(new)
             - Cardinality(EarmarkedOf(q) \cap new)
  BY <1>3, FS_Union
<1>8. Cardinality(EarmarkedOf(q)) \in Nat  BY FS_CardinalityType
<1> HIDE DEF new
<1>9. Cardinality(EarmarkedOf(q) \cup new) = Cardinality(EarmarkedOf(q)) + n
  <2>1. Cardinality(EarmarkedOf(q) \cap new) = 0  BY <1>5, <1>6
  <2>2. n \in Nat  OBVIOUS
  <2> HIDE DEF n
  <2> QED  BY <2>1, <2>2, <1>3, <1>7, <1>8
<1> QED  BY <1>4, <1>7, <1>9

LEMMA MillionIsPositive == Million \in Nat /\ Million > 0
BY SMT DEF Million

\* Integer division, by what defines it.
LEMMA Division ==
  ASSUME NEW x \in Nat, NEW m \in Nat, m > 0
  PROVE  /\ x \div m \in Nat
         /\ m * (x \div m) <= x
         /\ x < m * (x \div m) + m
BY SMT

\* A multiple that fits under a number fits under its quotient.
LEMMA QuotientIsLargest ==
  ASSUME NEW x \in Nat, NEW m \in Nat, m > 0, NEW q \in Nat, m * q <= x
  PROVE  q <= x \div m
<1> DEFINE p == x \div m
<1>1. p \in Nat /\ x < m * p + m  BY Division
<1> HIDE DEF p
<1> SUFFICES ASSUME q > p PROVE FALSE  BY <1>1 DEF p
<1>2. PICK e \in Nat : q = p + 1 + e
  <2>1. q - p - 1 \in Nat  BY <1>1
  <2>2. q = p + 1 + (q - p - 1)  BY <1>1
  <2> QED  BY <2>1, <2>2
<1>3. m * q = m * p + m + m * e  BY <1>1, <1>2
<1>4. m * e \in Nat /\ m * p \in Nat  BY <1>1, <1>2
<1> QED  BY <1>1, <1>3, <1>4

\* A fraction of a larger capital is larger, and by no more than the
\* difference of the capitals.
LEMMA FractionGrowth ==
  ASSUME NEW c \in Nat, NEW d \in Nat, c <= d, NEW f \in 0..Million
  PROVE  /\ (c * f) \div Million \in Nat
         /\ (d * f) \div Million \in Nat
         /\ (c * f) \div Million <= (d * f) \div Million
         /\ (d * f) \div Million <= (c * f) \div Million + (d - c)
<1>1. PICK m \in Nat : m = Million /\ m > 0  BY MillionIsPositive
<1>2. f \in Nat /\ f <= m  BY <1>1
<1>3. PICK x \in Nat : x = c * f  BY <1>2
<1>4. PICK k \in Nat : k = d - c  OBVIOUS
<1>5. PICK y \in Nat : y = k * f  BY <1>2
<1>6. d * f = x + y
  <2>1. d = c + k  BY <1>4
  <2>2. (c + k) * f = c * f + k * f  BY <1>2
  <2> QED  BY <2>1, <2>2, <1>3, <1>5
<1>7. y <= m * k
  <2>1. PICK g \in Nat : m = f + g
    <3>1. m - f \in Nat /\ m = f + (m - f)  BY <1>2
    <3> QED  BY <3>1
  <2>2. m * k = k * f + k * g  BY <2>1, <1>2
  <2>3. k * g \in Nat  BY <2>1
  <2> QED  BY <2>2, <2>3, <1>5
<1> DEFINE q == x \div m
           p == (x + y) \div m
<1>8. q \in Nat /\ m * q <= x /\ x < m * q + m  BY <1>1, Division
<1>9. p \in Nat /\ m * p <= x + y
  <2>1. x + y \in Nat  OBVIOUS
  <2> QED  BY <1>1, <2>1, Division
<1>10. \A n \in Nat : m * n <= x + y => n <= p
  <2>1. x + y \in Nat  OBVIOUS
  <2> QED  BY <1>1, <2>1, QuotientIsLargest
<1> HIDE DEF q, p
<1>11. q <= p
  <2>1. m * q <= x + y  BY <1>8
  <2> QED  BY <1>8, <2>1, <1>10
<1>12. p <= q + k
  <2> SUFFICES ASSUME p > q + k PROVE FALSE  BY <1>8, <1>9
  <2>1. PICK e \in Nat : p = q + k + 1 + e
    <3>1. p - q - k - 1 \in Nat  BY <1>8, <1>9
    <3>2. p = q + k + 1 + (p - q - k - 1)  BY <1>8, <1>9
    <3> QED  BY <3>1, <3>2
  <2>2. m * p = m * q + m * k + m + m * e  BY <2>1, <1>8
  <2>3. m * e \in Nat /\ m * q \in Nat /\ m * k \in Nat  BY <2>1, <1>8
  <2> QED  BY <2>2, <2>3, <1>7, <1>8, <1>9
<1> QED  BY <1>1, <1>3, <1>4, <1>6, <1>8, <1>9, <1>11, <1>12 DEF q, p

LEMMA FractionRange ==
  ASSUME NEW c \in Nat, NEW f \in 0..Million
  PROVE  (c * f) \div Million \in 0..c
<1>1. PICK m \in Nat : m = Million /\ m > 0  BY MillionIsPositive
<1>2. 0 * f = 0  BY <1>1
<1>3. 0 \div m = 0
  <2>1. 0 \div m \in Nat /\ m * (0 \div m) <= 0  BY <1>1, Division
  <2>2. 0 \div m > 0 => m * (0 \div m) > 0  BY <1>1, <2>1
  <2> QED  BY <2>1, <2>2, <1>1
<1>4. /\ (c * f) \div Million \in Nat
      /\ (c * f) \div Million <= (0 * f) \div Million + (c - 0)
  <2>1. 0 \in Nat /\ 0 <= c  OBVIOUS
  <2> QED  BY <2>1, FractionGrowth
<1> QED  BY <1>1, <1>2, <1>3, <1>4

\* A settlement that costs the capital no more than it releases leaves the
\* remaining positions inside both caps of what is left.
LEMMA CapsSurvive ==
  ASSUME NEW c \in Nat, NEW d \in Int, NEW n \in Nat, NEW l \in Nat,
         NEW a \in 0..Million, NEW r \in 0..Million,
         d >= c - n, n <= l,
         l <= (c * a) \div Million,
         l <= c - (c * r) \div Million
  PROVE  /\ d \in Nat
         /\ l - n <= (d * a) \div Million
         /\ l - n <= d - (d * r) \div Million
<1>1. (c * r) \div Million \in 0..c  BY FractionRange
<1>2. d \in Nat  BY <1>1
<1>3. CASE c <= d
  <2>1. /\ (c * a) \div Million \in Nat
        /\ (d * a) \div Million \in Nat
        /\ (c * a) \div Million <= (d * a) \div Million
    BY <1>2, <1>3, FractionGrowth
  <2>2. /\ (c * r) \div Million \in Nat
        /\ (d * r) \div Million \in Nat
        /\ (d * r) \div Million <= (c * r) \div Million + (d - c)
    BY <1>2, <1>3, FractionGrowth
  <2> QED  BY <1>2, <2>1, <2>2
<1>4. CASE d < c
  <2>0. d <= c  BY <1>2, <1>4
  <2>1. /\ (c * a) \div Million \in Nat
        /\ (d * a) \div Million \in Nat
        /\ (c * a) \div Million <= (d * a) \div Million + (c - d)
    BY <1>2, <2>0, FractionGrowth
  <2>2. /\ (c * r) \div Million \in Nat
        /\ (d * r) \div Million \in Nat
        /\ (d * r) \div Million <= (c * r) \div Million
    BY <1>2, <2>0, FractionGrowth
  <2> QED  BY <1>2, <2>1, <2>2
<1> QED  BY <1>2, <1>3, <1>4

-----------------------------------------------------------------------------
\* The inductive invariant.  The caps need the sum: only because the counter
\* is the sum does a settled position release no more than is locked, and
\* only then can the capital not go negative.
LInv ==
  /\ TypeOK
  /\ IsFiniteSet(Earmarked)
  /\ LockedIsSum
  /\ WorstCaseCovered
  /\ NoConflicts

LEMMA ConfigFractions ==
  ASSUME cfg \in Configs
  PROVE  /\ cfg.maxEpisode \in 0..Million
         /\ cfg.maxAggregateOpen \in 0..Million
         /\ cfg.reserve \in 0..Million
         /\ cfg.maxConcurrent \in Nat
BY LedgerAssumption DEF Config

\* The need of a valid position is a natural number.
LEMMA NeedOfValid ==
  ASSUME NEW p \in Probe, Valid(p)
  PROVE  /\ p.amountIn \in Int /\ p.feeBudget \in Int /\ p.deposit \in Int
         /\ p.id \in Ids
         /\ Need(p) \in Nat
         /\ p.amountIn + p.feeBudget <= Need(p)
<1>1. p.amountIn \in Amounts /\ p.feeBudget \in Fees /\ p.deposit \in Deposits /\ p.id \in Ids
  BY DEF Probe
<1>2. p.amountIn \in Int /\ p.feeBudget \in Int /\ p.deposit \in Int
  BY <1>1, LedgerAssumption
<1> QED  BY <1>1, <1>2 DEF Valid, Need

LEMMA InitEstablishes == Init => LInv
<1> SUFFICES ASSUME Init PROVE LInv  OBVIOUS
<1>1. DOMAIN pending = {}  BY DEF Init
<1>2. Earmarked = {}  BY <1>1 DEF Earmarked, Lamports
<1>3. IsFiniteSet({}) /\ Cardinality({}) = 0  BY FS_EmptySet
<1>4. TypeOK  BY <1>1, LedgerAssumption DEF Init, TypeOK
<1>5. WorstCaseCovered
  <2>1. capital \in Nat /\ locked = 0  BY LedgerAssumption DEF Init
  <2>2. Frac(cfg.maxAggregateOpen) \in 0..capital /\ Frac(cfg.reserve) \in 0..capital
    BY <2>1, ConfigFractions, FractionRange DEF Init, Frac
  <2> QED  BY <2>1, <2>2 DEF WorstCaseCovered
<1>6. NoConflicts
  <2>1. cfg.maxConcurrent \in Nat  BY ConfigFractions DEF Init
  <2> QED  BY <1>1, <1>3, <2>1 DEF NoConflicts
<1> QED  BY <1>2, <1>3, <1>4, <1>5, <1>6 DEF LInv, LockedIsSum, Init

LEMMA EarmarkedOfPending == Earmarked = EarmarkedOf(pending)
BY DEF Earmarked, EarmarkedOf, Lamports

LEMMA EarmarkedOfNext ==
  ASSUME NEW q, q = pending'
  PROVE  Earmarked' = EarmarkedOf(q)
BY DEF Earmarked, EarmarkedOf, Lamports, Need

LEMMA ReservePreserves ==
  ASSUME LInv, NEW p \in Probe, Reserve(p)
  PROVE  LInv'
<1>1. PICK q : q = pending'  OBVIOUS
<1> USE <1>1
<1>2. /\ DOMAIN q = DOMAIN pending \cup {p.id}
      /\ p.id \notin DOMAIN pending
      /\ q[p.id] = p
      /\ \A j \in DOMAIN pending : q[j] = pending[j]
  BY DEF Reserve, Admissible
<1>3. Valid(p) /\ Need(p) \in Nat /\ p.id \in Ids
  BY NeedOfValid DEF Reserve
<1>4. cfg' = cfg /\ capital' = capital /\ locked' = locked + Need(p)
  BY DEF Reserve
<1>5. TypeOK'
  <2>1. \A j \in DOMAIN q : q[j] \in Probe /\ q[j].id = j /\ Valid(q[j])
    BY <1>2, <1>3 DEF LInv, TypeOK
  <2> QED  BY <1>2, <1>3, <1>4, <2>1 DEF LInv, TypeOK, Valid
<1>6. IsFiniteSet(Earmarked)' /\ LockedIsSum'
  <2>1. IsFiniteSet(EarmarkedOf(pending)) /\ locked = Cardinality(EarmarkedOf(pending))
    BY EarmarkedOfPending DEF LInv, LockedIsSum
  <2>2. /\ IsFiniteSet(EarmarkedOf(q))
        /\ Cardinality(EarmarkedOf(q)) = Cardinality(EarmarkedOf(pending)) + Need(p)
    BY <1>2, <1>3, <2>1, OneMorePosition
  <2>3. Earmarked' = EarmarkedOf(q)  BY EarmarkedOfNext
  <2> QED  BY <1>4, <2>1, <2>2, <2>3 DEF LockedIsSum
<1>7. WorstCaseCovered'
  BY <1>4 DEF Reserve, WithinCaps, WorstCaseCovered, Frac
<1>8. NoConflicts'
  <2>1. IsFiniteSet(DOMAIN pending)
    BY LedgerAssumption, FS_Subset DEF LInv, TypeOK
  <2>2. Cardinality(DOMAIN q) = Cardinality(DOMAIN pending) + 1
    BY <1>2, <2>1, FS_AddElement
  <2>3. Cardinality(DOMAIN q) <= cfg.maxConcurrent
    <3>1. Cardinality(DOMAIN pending) \in Nat  BY <2>1, FS_CardinalityType
    <3>2. cfg.maxConcurrent \in Nat  BY ConfigFractions DEF LInv, TypeOK
    <3>3. Cardinality(DOMAIN pending) < cfg.maxConcurrent
      BY DEF Reserve, Admissible
    <3> QED  BY <2>2, <3>1, <3>2, <3>3
  <2>4. \A j \in DOMAIN pending : p.pools \cap pending[j].pools = {} /\ p.mint # pending[j].mint
    BY DEF Reserve, Admissible, Clash
  <2>5. \A i, j \in DOMAIN q : i # j =>
          q[i].pools \cap q[j].pools = {} /\ q[i].mint # q[j].mint
    BY <1>2, <2>4 DEF LInv, NoConflicts
  <2> QED  BY <1>4, <2>3, <2>5 DEF NoConflicts
<1> QED  BY <1>5, <1>6, <1>7, <1>8 DEF LInv

LEMMA SettlePreserves ==
  ASSUME LInv, NEW i \in Ids, NEW status \in Statuses, NEW pnl \in Profits,
         NEW fee \in FeesPaid, Settle(i, status, pnl, fee)
  PROVE  LInv'
<1>1. PICK q : q = pending'  OBVIOUS
<1> USE <1>1
<1>2. /\ i \in DOMAIN pending
      /\ DOMAIN q = DOMAIN pending \ {i}
      /\ \A j \in DOMAIN q : pending[j] = q[j]
  BY DEF Settle
<1> DEFINE n == Need(pending[i])
<1>3. /\ pending[i] \in Probe /\ Valid(pending[i])
      /\ n \in Nat
      /\ pending[i].amountIn \in Int /\ pending[i].feeBudget \in Int
      /\ pending[i].amountIn + pending[i].feeBudget <= n
  BY <1>2, NeedOfValid DEF LInv, TypeOK
<1>4. cfg' = cfg /\ locked' = locked - n
  BY DEF Settle, Released, Need
<1>5. /\ IsFiniteSet(EarmarkedOf(q))
      /\ Cardinality(EarmarkedOf(q)) \in Nat
      /\ locked = Cardinality(EarmarkedOf(q)) + n
  <2>1. IsFiniteSet(EarmarkedOf(pending)) /\ locked = Cardinality(EarmarkedOf(pending))
    BY EarmarkedOfPending DEF LInv, LockedIsSum
  <2>2. EarmarkedOf(q) \subseteq EarmarkedOf(pending)
    BY <1>2 DEF EarmarkedOf
  <2>3. IsFiniteSet(EarmarkedOf(q))  BY <2>1, <2>2, FS_Subset
  <2>4. i \notin DOMAIN q /\ DOMAIN pending = DOMAIN q \cup {i}  BY <1>2
  <2>5. Cardinality(EarmarkedOf(pending)) = Cardinality(EarmarkedOf(q)) + n
    <3>1. PICK r : r = pending  OBVIOUS
    <3>2. i \notin DOMAIN q /\ DOMAIN r = DOMAIN q \cup {i}  BY <2>4, <3>1
    <3>3. \A j \in DOMAIN q : r[j] = q[j]  BY <1>2, <3>1
    <3>4. Need(r[i]) \in Nat  BY <1>3, <3>1
    <3> HIDE <1>1
    <3>5. Cardinality(EarmarkedOf(r)) = Cardinality(EarmarkedOf(q)) + Need(r[i])
      BY <2>3, <3>2, <3>3, <3>4, OneMorePosition
    <3> QED  BY <3>1, <3>5
  <2>6. Cardinality(EarmarkedOf(q)) \in Nat  BY <2>3, FS_CardinalityType
  <2> QED  BY <2>1, <2>3, <2>5, <2>6
<1>6. IsFiniteSet(Earmarked)' /\ LockedIsSum'
  <2>1. Earmarked' = EarmarkedOf(q)  BY EarmarkedOfNext
  <2> HIDE DEF n
  <2> QED  BY <1>3, <1>4, <1>5, <2>1 DEF LockedIsSum
<1>7. capital' \in Int /\ capital' >= capital - n
  <2>1. capital \in Nat  BY DEF LInv, TypeOK
  <2>2. fee \in Int /\ fee >= 0 /\ pnl \in Int
    BY LedgerAssumption DEF FeesPaid
  <2>3. fee <= pending[i].feeBudget /\ pnl >= -pending[i].amountIn
    BY DEF Settle
  <2>4. pending[i].amountIn > 0  BY <1>3 DEF Valid
  <2>5. capital' = capital \/ capital' = capital + Result(status, pnl, fee)
    BY DEF Settle
  <2>6. Result(status, pnl, fee) = pnl - fee \/ Result(status, pnl, fee) = 0 - fee
    BY DEF Result
  <2> HIDE DEF n
  <2> QED  BY <1>3, <2>1, <2>2, <2>3, <2>4, <2>5, <2>6
<1>8. /\ capital' \in Nat
      /\ locked - n <= (capital' * cfg.maxAggregateOpen) \div Million
      /\ locked - n <= capital' - (capital' * cfg.reserve) \div Million
  <2>1. capital \in Nat /\ locked \in Nat /\ cfg \in Configs  BY DEF LInv, TypeOK
  <2>2. cfg.maxAggregateOpen \in 0..Million /\ cfg.reserve \in 0..Million
    BY <2>1, ConfigFractions
  <2>3. /\ locked <= (capital * cfg.maxAggregateOpen) \div Million
        /\ locked <= capital - (capital * cfg.reserve) \div Million
    BY DEF LInv, WorstCaseCovered, Frac
  <2>4. n <= locked
    <3> HIDE DEF n
    <3> QED  BY <1>3, <1>5, <2>1
  <2>5. PICK d \in Int : d = capital'  BY <1>7
  <2>6. d >= capital - n  BY <2>5, <1>7
  <2> HIDE DEF n
  <2>7. /\ d \in Nat
        /\ locked - n <= (d * cfg.maxAggregateOpen) \div Million
        /\ locked - n <= d - (d * cfg.reserve) \div Million
    BY <1>3, <2>1, <2>2, <2>3, <2>4, <2>6, CapsSurvive
  <2> QED  BY <2>5, <2>7
<1>9. WorstCaseCovered'
  <2> HIDE DEF n
  <2> QED  BY <1>4, <1>8 DEF WorstCaseCovered, Frac
<1>10. TypeOK'
  <2>1. locked' \in Nat
    <3> HIDE DEF n
    <3> QED  BY <1>3, <1>4, <1>5
  <2>2. DOMAIN q \subseteq Ids
    BY <1>2 DEF LInv, TypeOK
  <2>3. \A j \in DOMAIN q : q[j] \in Probe /\ q[j].id = j /\ Valid(q[j])
    BY <1>2 DEF LInv, TypeOK
  <2>4. cfg' \in Configs  BY <1>4 DEF LInv, TypeOK
  <2> QED  BY <1>8, <2>1, <2>2, <2>3, <2>4 DEF TypeOK, Valid
<1>11. NoConflicts'
  <2>1. IsFiniteSet(DOMAIN pending)
    BY LedgerAssumption, FS_Subset DEF LInv, TypeOK
  <2>2. /\ IsFiniteSet(DOMAIN q)
        /\ Cardinality(DOMAIN q) <= Cardinality(DOMAIN pending)
    BY <1>2, <2>1, FS_Subset
  <2>3. Cardinality(DOMAIN q) <= cfg.maxConcurrent
    <3>1. Cardinality(DOMAIN pending) \in Nat /\ Cardinality(DOMAIN q) \in Nat
      BY <2>1, <2>2, FS_CardinalityType
    <3>2. cfg.maxConcurrent \in Nat  BY ConfigFractions DEF LInv, TypeOK
    <3>3. Cardinality(DOMAIN pending) <= cfg.maxConcurrent  BY DEF LInv, NoConflicts
    <3> QED  BY <2>2, <3>1, <3>2, <3>3
  <2>4. \A k, j \in DOMAIN q : k # j =>
          q[k].pools \cap q[j].pools = {} /\ q[k].mint # q[j].mint
    BY <1>2 DEF LInv, NoConflicts
  <2> QED  BY <1>4, <2>3, <2>4 DEF NoConflicts
<1> QED  BY <1>6, <1>9, <1>10, <1>11 DEF LInv

LEMMA StutterPreserves ==
  ASSUME LInv, UNCHANGED vars
  PROVE  LInv'
<1>1. Earmarked' = Earmarked
  BY DEF Earmarked, Lamports, Need, vars
<1> QED
  BY <1>1 DEF LInv, vars, TypeOK, Valid, LockedIsSum, WorstCaseCovered, Frac, NoConflicts

\* The ledger is safe whatever is asked of it, in any order.
THEOREM LedgerSafety == Spec => []LInv
<1>1. LInv /\ [Next]_vars => LInv'
  <2> SUFFICES ASSUME LInv, [Next]_vars PROVE LInv'  OBVIOUS
  <2>1. ASSUME NEW p \in Probe, Reserve(p) PROVE LInv'
    BY <2>1, ReservePreserves
  <2>2. ASSUME NEW p \in Probe, Reject(p) PROVE LInv'
    BY <2>2, StutterPreserves DEF Reject
  <2>3. ASSUME NEW i \in Ids, NEW status \in Statuses, NEW pnl \in Profits,
               NEW fee \in FeesPaid, Settle(i, status, pnl, fee)
        PROVE  LInv'
    BY <2>3, SettlePreserves
  <2>4. ASSUME NEW i \in Ids, SettleUnknown(i) PROVE LInv'
    BY <2>4, StutterPreserves DEF SettleUnknown
  <2>5. CASE UNCHANGED vars  BY <2>5, StutterPreserves
  <2> QED  BY <2>1, <2>2, <2>3, <2>4, <2>5 DEF Next
<1> QED  BY <1>1, InitEstablishes, PTL DEF Spec

\* The counter of locked lamports is exactly the sum of the open positions,
\* through any order of reservations, settlements and reused ids.
THEOREM LockedExact == Spec => []LockedIsSum
<1>1. LInv => LockedIsSum  BY DEF LInv
<1> QED  BY <1>1, LedgerSafety, PTL

\* Neither the aggregate cap nor the operating reserve is ever touched, even
\* when settled losses shrink the capital they are fractions of.
THEOREM CapsCovered == Spec => []WorstCaseCovered
<1>1. LInv => WorstCaseCovered  BY DEF LInv
<1> QED  BY <1>1, LedgerSafety, PTL

\* Open positions never share a pool or a mint, and are never too many.
THEOREM ConflictFree == Spec => []NoConflicts
<1>1. LInv => NoConflicts  BY DEF LInv
<1> QED  BY <1>1, LedgerSafety, PTL

\* The book of open positions adds up and holds no two that conflict.
THEOREM PositionsAreConsistent == Spec => []PositionsConsistent
<1>1. LockedIsSum /\ NoConflicts => PositionsConsistent  BY DEF PositionsConsistent
<1> QED  BY <1>1, LockedExact, ConflictFree, PTL

\* F7: in every reachable state the capacity told to the sizer is exactly
\* what reserve() has room for.
THEOREM CapacityIsHonest == Spec => []CapacityHonest
<1>1. LInv => CapacityHonest
  <2> SUFFICES ASSUME LInv, NEW amount \in Amounts, NEW fee \in Fees,
                      NEW deposit \in Deposits
      PROVE  LET p == [amountIn |-> amount, feeBudget |-> fee, deposit |-> deposit] IN
             Valid(p) => (WithinCaps(p) <=> amount <= CapacityFor(fee, deposit))
    BY DEF CapacityHonest
  <2>1. amount \in Int /\ fee \in Int /\ deposit \in Int  BY LedgerAssumption
  <2>2. capital \in Nat /\ locked \in Nat /\ cfg \in Configs  BY DEF LInv, TypeOK
  <2>3. /\ Frac(cfg.maxEpisode) \in 0..capital
        /\ Frac(cfg.maxAggregateOpen) \in 0..capital
        /\ Frac(cfg.reserve) \in 0..capital
    BY <2>2, ConfigFractions, FractionRange DEF Frac
  <2> QED
    BY <2>1, <2>2, <2>3
    DEF Valid, WithinCaps, Need, CapacityFor, LedgerBudget, AtLeastZero, Smaller
<1> QED  BY <1>1, LedgerSafety, PTL

(***************************************************************************)
(* Type correctness of the ledger: its balances, counts and configuration  *)
(* stay what openEpisode and settle assume of them.                        *)
(***************************************************************************)
THEOREM TypeCorrect == Spec => []TypeOK
<1>1. LInv => TypeOK  BY DEF LInv
<1> QED  BY <1>1, LedgerSafety, PTL

-----------------------------------------------------------------------------
(***************************************************************************)
(* The fallback of reserveBestSize() is granted in every state of the      *)
(* ledger, for every capital, configuration and argument: capacityFor() is *)
(* exactly what reserve() has room for, and nothing else in reserve()      *)
(* depends on the amount.                                                  *)
(***************************************************************************)

\* Room for an amount is the capacity, whatever the amount.
LEMMA RoomIsCapacity ==
  ASSUME LInv, NEW p \in Probe, NEW a \in Int, Valid(p), a > 0
  PROVE  WithinCaps(Sized(p, a)) <=> a <= CapacityFor(p.feeBudget, p.deposit)
<1>1. p.feeBudget \in Int /\ p.deposit \in Int
  BY LedgerAssumption DEF Probe
<1>2. capital \in Nat /\ locked \in Nat /\ cfg \in Configs
  BY DEF LInv, TypeOK
<1>3. /\ Frac(cfg.maxEpisode) \in 0..capital
      /\ Frac(cfg.maxAggregateOpen) \in 0..capital
      /\ Frac(cfg.reserve) \in 0..capital
  BY <1>2, ConfigFractions, FractionRange DEF Frac
<1>4. /\ Sized(p, a).amountIn = a
      /\ Sized(p, a).feeBudget = p.feeBudget
      /\ Sized(p, a).deposit = p.deposit
  BY DEF Sized, Probe
<1>5. Need(Sized(p, a)) = a + p.feeBudget + p.deposit
  BY <1>4 DEF Need
<1> QED
  BY <1>1, <1>2, <1>3, <1>5
  DEF Valid, WithinCaps, CapacityFor, LedgerBudget, AtLeastZero, Smaller

\* The other tests of reserve() do not see the amount.
LEMMA SizedLike ==
  ASSUME NEW p \in Probe, NEW a \in Int, Valid(p), a > 0
  PROVE  /\ Valid(Sized(p, a))
         /\ Admissible(Sized(p, a)) <=> Admissible(p)
         /\ a = p.amountIn => Sized(p, a) = p
<1>1. /\ Sized(p, a).amountIn = a
      /\ Sized(p, a).feeBudget = p.feeBudget
      /\ Sized(p, a).deposit = p.deposit
      /\ Sized(p, a).id = p.id
      /\ Sized(p, a).pools = p.pools
      /\ Sized(p, a).mint = p.mint
  BY DEF Sized, Probe
<1>2. a = p.amountIn => Sized(p, a) = p
  BY DEF Sized, Probe
<1>3. Valid(Sized(p, a))
  BY <1>1 DEF Valid
<1>4. \A q : Clash(Sized(p, a), q) <=> Clash(p, q)
  BY <1>1 DEF Clash
<1>5. Admissible(Sized(p, a)) <=> Admissible(p)
  BY <1>1, <1>4 DEF Admissible
<1> QED  BY <1>2, <1>3, <1>5

\* F7: whatever was asked of the ledger before, the retry after a refusal for
\* the amount is granted, what is built is what is reserved, and no smaller
\* size the ledger would grant is given up unless the pools offer none.
THEOREM FallbackIsGranted == Spec => []FallbackStands
<1>1. LInv => FallbackStands
  <2> SUFFICES ASSUME LInv, NEW p \in Probe, Valid(p), NEW found \in Findable(CapLamports(p))
               PROVE  LET r == ReserveBestSize(p, found) IN
                        /\ r.retried => r.ok
                        /\ r.ok => Granted(Sized(p, r.chosen)) /\ r.chosen <= p.amountIn
                        /\ RefusedForCap(p) /\ ~r.ok =>
                             found = NoSize \/ \A a \in Forgone(p) : ~Granted(Sized(p, a))
    BY DEF FallbackStands
  <2> DEFINE Retried == Searched(p) /\ found # NoSize
             Second == Granted(Sized(p, found))
             Ok == Granted(p) \/ (Retried /\ Second)
             Chosen == IF Retried /\ Second THEN found ELSE p.amountIn
  <2>1. /\ ReserveBestSize(p, found).retried = Retried
        /\ ReserveBestSize(p, found).ok = Ok
        /\ ReserveBestSize(p, found).chosen = Chosen
    BY DEF ReserveBestSize
  <2>2. found \in Int /\ p.amountIn \in Int /\ p.amountIn > 0
    <3>1. p.amountIn \in Amounts  BY DEF Probe
    <3>2. found \in Amounts \cup {NoSize}  BY DEF Findable
    <3>3. Amounts \subseteq Int  BY LedgerAssumption
    <3>4. p.amountIn > 0  BY DEF Valid
    <3>5. found \in Int  BY <3>2, <3>3 DEF NoSize
    <3> QED  BY <3>1, <3>3, <3>4, <3>5
  <2>3. found # NoSize => found > 0 /\ found <= CapLamports(p)
    BY DEF Findable
  <2>4. capital \in Nat /\ locked \in Nat /\ cfg \in Configs
    BY DEF LInv, TypeOK
  <2>5. CapacityFor(p.feeBudget, p.deposit) \in Int
    <3>1. p.feeBudget \in Int /\ p.deposit \in Int
      BY LedgerAssumption DEF Probe
    <3>2. /\ Frac(cfg.maxEpisode) \in 0..capital
          /\ Frac(cfg.maxAggregateOpen) \in 0..capital
          /\ Frac(cfg.reserve) \in 0..capital
      BY <2>4, ConfigFractions, FractionRange DEF Frac
    <3> QED  BY <2>4, <3>1, <3>2 DEF CapacityFor, LedgerBudget, AtLeastZero, Smaller
  <2>6. CapLamports(p) \in Int /\ CapLamports(p) <= CapacityFor(p.feeBudget, p.deposit)
    BY <2>5, MaxCapitalAssumption DEF CapLamports, Smaller
  <2>7. Retried => Second /\ found < p.amountIn
    <3> SUFFICES ASSUME Searched(p), found # NoSize PROVE Second /\ found < p.amountIn
      OBVIOUS
    <3>1. found > 0 /\ found <= CapacityFor(p.feeBudget, p.deposit) /\ found < p.amountIn
      BY <2>2, <2>3, <2>5, <2>6 DEF Searched
    <3>2. WithinCaps(Sized(p, found))
      BY <2>2, <3>1, RoomIsCapacity
    <3>3. Admissible(p)
      BY DEF Searched, RefusedForCap
    <3> QED  BY <2>2, <3>1, <3>2, <3>3, SizedLike DEF Granted
  <2>8. Ok => Granted(Sized(p, Chosen)) /\ Chosen <= p.amountIn
    <3>1. CASE Retried
      BY <2>2, <2>7, <3>1
    <3>2. CASE ~Retried /\ Granted(p)
      BY <2>2, <3>2, SizedLike
    <3> QED  BY <3>1, <3>2
  <2>9. ASSUME RefusedForCap(p), ~Ok, found # NoSize, NEW a \in Forgone(p)
        PROVE  ~Granted(Sized(p, a))
    <3>1. ~Searched(p)
      BY <2>7, <2>9
    <3>2. p.amountIn > CapacityFor(p.feeBudget, p.deposit)
      <4>1. ~WithinCaps(Sized(p, p.amountIn))
        BY <2>2, <2>9, SizedLike DEF RefusedForCap
      <4> QED  BY <2>2, <2>5, <4>1, RoomIsCapacity
    <3>3. CapLamports(p) <= 0
      BY <2>2, <2>5, <2>6, <2>9, <3>1, <3>2 DEF Searched
    <3>4. a \in Int /\ a > 0 /\ a <= MaxCapital
      BY <2>2 DEF Forgone
    <3>5. ~(a <= CapacityFor(p.feeBudget, p.deposit))
      BY <2>5, <3>3, <3>4, MaxCapitalAssumption DEF CapLamports, Smaller
    <3>6. ~WithinCaps(Sized(p, a))
      BY <3>4, <3>5, RoomIsCapacity
    <3> QED  BY <3>6 DEF Granted
  <2> QED  BY <2>1, <2>7, <2>8, <2>9
<1> QED  BY <1>1, LedgerSafety, PTL
=============================================================================
