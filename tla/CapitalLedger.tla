--------------------------- MODULE CapitalLedger ---------------------------
(***************************************************************************)
(* The capital ledger of src/accounting/capital.ts: money is reserved for  *)
(* a probe when it is decided and released when it is settled, under an    *)
(* episode cap, an aggregate cap, an operating reserve, a concurrency      *)
(* limit and a ban on sharing a pool or a mint.  Every method is           *)
(* synchronous, so an action is one call.  Time stamps, the journal and    *)
(* the statistics are left out.                                            *)
(***************************************************************************)
EXTENDS Integers, FiniteSets

CONSTANTS
  Ids,             \* probe identifiers
  Pools, Mints,
  InitialCapital,  \* cfg.capitalLamports
  Configs,         \* the rest of cfg: the configurations to consider
  Amounts, Fees, Deposits,  \* arguments of reserve(), bad ones included
  Profits          \* realised results of a filled circuit

Million == 1000000

\* The fractions reach the code's arithmetic as Math.round(fraction * 1e6).
Config == [maxEpisode : 0..Million, maxAggregateOpen : 0..Million,
           reserve : 0..Million, maxConcurrent : Nat, hypothetical : BOOLEAN]

\* The fractions the constructor accepts, and arguments that are integers.
ASSUME LedgerAssumption ==
  /\ InitialCapital \in Nat
  /\ Configs \subseteq Config
  /\ IsFiniteSet(Ids)
  /\ Amounts \subseteq Int /\ Fees \subseteq Int /\ Deposits \subseteq Int
  /\ Profits \subseteq Int

VARIABLES
  cfg,
  capital,
  pending,  \* open positions, by id
  locked    \* lockedAmount

vars == <<cfg, capital, pending, locked>>

\* The argument of reserve(), which is also the position it records.
Probe == [id : Ids, amountIn : Amounts, feeBudget : Fees, deposit : Deposits,
          pools : SUBSET Pools, mint : Mints]

Init ==
  /\ cfg \in Configs
  /\ capital = InitialCapital
  /\ pending = [i \in {} |-> 0]
  /\ locked = 0

-----------------------------------------------------------------------------
\* A fraction of the current capital.  BigInt division truncates, which is
\* \div because capital never goes negative (WorstCaseCovered).
Frac(ppm) == (capital * ppm) \div Million

Smaller(a, b) == IF a <= b THEN a ELSE b
AtLeastZero(a) == IF a > 0 THEN a ELSE 0

\* What a new position may lock, all told.
LedgerBudget ==
  AtLeastZero(Smaller(Frac(cfg.maxEpisode),
                      Smaller(Frac(cfg.maxAggregateOpen) - locked,
                              capital - Frac(cfg.reserve) - locked)))

\* A faulty variant (the defect F7 reports): the deposit is forgotten.
CapacityWithoutDeposit(fee, deposit) == AtLeastZero(LedgerBudget - fee)

\* The largest amount reserve() would grant now.
CapacityFor(fee, deposit) == AtLeastZero(LedgerBudget - fee - deposit)

\* The deposit of the accounts to create comes back, and is locked meanwhile.
Need(p) == p.amountIn + p.feeBudget + p.deposit

\* A faulty variant: only a shared pool AND a shared mint are a conflict.
ClashOnBoth(p, q) == p.pools \cap q.pools # {} /\ p.mint = q.mint

Clash(p, q) == p.pools \cap q.pools # {} \/ p.mint = q.mint

Valid(p) == p.amountIn > 0 /\ p.feeBudget >= 0 /\ p.deposit >= 0

\* Every refusal that does not depend on the size asked for: DUPLICATE_ID,
\* CONCURRENCY, POOL_CONFLICT and MINT_CONFLICT.
Admissible(p) ==
  /\ p.id \notin DOMAIN pending
  /\ Cardinality(DOMAIN pending) < cfg.maxConcurrent
  /\ \A i \in DOMAIN pending : ~Clash(p, pending[i])

\* A faulty variant: the reserve is tested for this position alone.
WithinCapsAlone(p) ==
  /\ Need(p) <= Frac(cfg.maxEpisode)
  /\ locked + Need(p) <= Frac(cfg.maxAggregateOpen)
  /\ Need(p) <= capital - Frac(cfg.reserve)

\* EPISODE_CAP, AGGREGATE_CAP and RESERVE_FLOOR.
WithinCaps(p) ==
  /\ Need(p) <= Frac(cfg.maxEpisode)
  /\ locked + Need(p) <= Frac(cfg.maxAggregateOpen)
  /\ locked + Need(p) <= capital - Frac(cfg.reserve)

-----------------------------------------------------------------------------
Reserve(p) ==
  /\ Valid(p) /\ Admissible(p) /\ WithinCaps(p)
  /\ pending' = [i \in DOMAIN pending \cup {p.id} |->
                   IF i = p.id THEN p ELSE pending[i]]
  /\ locked' = locked + Need(p)
  /\ UNCHANGED <<cfg, capital>>

\* reject(): nothing but the statistics and the journal.
Reject(p) ==
  /\ ~(Valid(p) /\ Admissible(p) /\ WithinCaps(p))
  /\ UNCHANGED vars

\* What a settlement adds to the capital outside hypothetical mode.
Result(status, pnl, fee) == (IF status = "FILLED" THEN pnl ELSE 0) - fee

\* A faulty variant: the deposit is never released.
ReleasedWithoutDeposit(p) == p.amountIn + p.feeBudget

Released(p) == p.amountIn + p.feeBudget + p.deposit

\* A faulty variant: the position stays open and can be settled again.
SettleKeeping(i, status, pnl, fee) ==
  /\ i \in DOMAIN pending
  /\ locked' = locked - Released(pending[i])
  /\ UNCHANGED <<cfg, capital, pending>>

\* The circuit is atomic: it costs at most its network fee, and when it is
\* filled it loses at most what it was given.
Settle(i, status, pnl, fee) ==
  /\ i \in DOMAIN pending
  /\ fee <= pending[i].feeBudget
  /\ pnl >= -pending[i].amountIn
  /\ pending' = [j \in DOMAIN pending \ {i} |-> pending[j]]
  /\ locked' = locked - Released(pending[i])
  /\ capital' = IF cfg.hypothetical THEN capital ELSE capital + Result(status, pnl, fee)
  /\ UNCHANGED cfg

\* SETTLE_UNKNOWN_POSITION is thrown before anything changes.
SettleUnknown(i) == i \notin DOMAIN pending /\ UNCHANGED vars

Statuses == {"FILLED", "REVERTED", "NOT_LANDED"}
FeesPaid == {f \in Fees : f >= 0}

Next ==
  \/ \E p \in Probe : Reserve(p) \/ Reject(p)
  \/ \E i \in Ids :
       \/ \E status \in Statuses, pnl \in Profits, fee \in FeesPaid :
            Settle(i, status, pnl, fee)
       \/ SettleUnknown(i)

Spec == Init /\ [][Next]_vars

-----------------------------------------------------------------------------
\* The types of the variables; a recorded position is a valid one.
TypeOK ==
  /\ cfg \in Configs
  /\ capital \in Nat
  /\ locked \in Nat
  /\ DOMAIN pending \subseteq Ids
  /\ \A i \in DOMAIN pending :
       pending[i] \in Probe /\ pending[i].id = i /\ Valid(pending[i])

\* The lamports of the open positions, each labelled with its position.
Lamports(i) == {i} \X (1..Need(pending[i]))
Earmarked == UNION {Lamports(i) : i \in DOMAIN pending}

\* The running counter lockedAmount never drifts from the positions it sums
\* over, through any order of reservations, settlements and reused ids: the
\* sum is taken by counting every locked lamport once.
LockedIsSum == locked = Cardinality(Earmarked)

\* However the open positions end, the caps granted at their decisions keep
\* holding: a loss shrinks the capital that the caps of the OTHER open
\* positions are fractions of, and still neither the aggregate cap nor the
\* operating reserve is ever touched.
WorstCaseCovered ==
  /\ locked <= Frac(cfg.maxAggregateOpen)
  /\ locked <= capital - Frac(cfg.reserve)

\* Two open positions share no pool and no mint, and are never too many,
\* with ids coming back after settlements.
NoConflicts ==
  /\ Cardinality(DOMAIN pending) <= cfg.maxConcurrent
  /\ \A i, j \in DOMAIN pending : i # j =>
       /\ pending[i].pools \cap pending[j].pools = {}
       /\ pending[i].mint # pending[j].mint

\* The book of open positions is sound: it adds up, and no two of its
\* positions would be simulated as if alone.
PositionsConsistent == LockedIsSum /\ NoConflicts

\* F7: capacityFor() is the honest cap of a sizer.  In every state, whatever
\* the fee and the deposit, the sizes reserve() has room for are exactly
\* those up to capacityFor().
CapacityHonest ==
  \A amount \in Amounts, fee \in Fees, deposit \in Deposits :
    LET p == [amountIn |-> amount, feeBudget |-> fee, deposit |-> deposit] IN
    Valid(p) => (WithinCaps(p) <=> amount <= CapacityFor(fee, deposit))
=============================================================================
