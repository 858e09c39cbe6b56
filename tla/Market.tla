------------------------------- MODULE Market -------------------------------
(***************************************************************************)
(* The pools of a market, on which others trade, and the circuits through  *)
(* them: which exist, what one earns at a size and which size is chosen.   *)
(* A circuit buys a token for WSOL on one pool and sells it on another.    *)
(***************************************************************************)
EXTENDS PoolAdapters, FiniteSetsExt, SequencesExt

CONSTANTS
    Pools,            \* the addresses of the pools
    Info,             \* the description of every pool
    Snapshots,        \* the decoded states each pool may be seen in
    Amounts,          \* the amounts others trade
    Grid,             \* the sizes of the configured grid
    MaxCapital,       \* the cap a size is searched under
    RefineSteps,
    MinQuoteReserve,  \* discovery.minQuoteReserveLamports
    MaxSteps          \* bound on the swaps applied in a behaviour

ASSUME MarketAssumption ==
    /\ MaxCapital \in Nat /\ RefineSteps \in Nat /\ MaxSteps \in Nat
    /\ Grid \subseteq Int /\ Amounts \subseteq Nat
    /\ \A p \in Pools : Info[p].extensions \subseteq Extension

-----------------------------------------------------------------------------
\* The numbers of a description and of a decoded state are unsigned, but the
\* virtual reserve; what a vault holds is what a token account can.  A mint
\* whose transfer fee is above the whole is not parsed.
TransferFeeTier == [epoch : Nat, maxFee : Nat, bps : 0 .. MaxFeeBasisPoints]
TransferFeeConfig ==
    {NoFee} \cup [charged : {TRUE}, older : TransferFeeTier, newer : TransferFeeTier]
FeeSchedule == [lp : Nat, protocol : Nat, creator : Nat]

Described(i) ==
    /\ i.transferFee \in [Side -> TransferFeeConfig]
    /\ IF IsRay(i)
       THEN i.rates \in [trade : Nat, creator : Nat, protocol : Nat, fund : Nat]
       ELSE /\ i.virtual \in Int
            /\ i.tiers \in Seq([threshold : Nat, fees : FeeSchedule]) /\ Len(i.tiers) > 0
            /\ i.flatFees \in FeeSchedule /\ i.creatorFeeBps \in Nat

PoolState(i, d) ==
    /\ DOMAIN d = {"vault", "owed", "epoch", "now", "hash"}
    /\ d.vault \in [Side -> U64]
    /\ d.owed \in [Side -> [protocol : U64, fund : U64, creator : U64]]
    /\ d.epoch \in Nat

ASSUME PoolsAssumption ==
    \A p \in Pools : Described(Info[p]) /\ \A d \in Snapshots[p] : PoolState(Info[p], d)

VARIABLES
    pools,     \* the decoded state of every pool
    flow       \* what the traders of each pool received from it, net, by side

-----------------------------------------------------------------------------
(***************************************************************************)
(* routing/circuit.ts.  These are functions of the pools they are given.   *)
(***************************************************************************)
KeptPools(ps) == {p \in Pools : /\ ValidatePool(Info[p], ps[p])
                                /\ Reserve(Info[p], ps[p], "wsol") >= MinQuoteReserve}

EnumerateCircuits(kept) ==
    {c \in [a : kept, b : kept] : c.a # c.b /\ Info[c.a].token = Info[c.b].token}

EvaluateCircuit(ps, c, amountIn) ==
    LET Sold(qa, qb) ==
          IF amountIn > 0 /\ qa.ok /\ qa.out > 0 /\ qb.ok
          THEN [ok |-> TRUE, amountIn |-> amountIn, quoteA |-> qa, quoteB |-> qb,
                pnl |-> qb.out - qa.amountIn]
          ELSE Refused
        Bought(qa) == Sold(qa, QuoteExactIn(Info[c.b], ps[c.b], "token", qa.out))
    IN  Bought(QuoteExactIn(Info[c.a], ps[c.a], "wsol", amountIn))

\* A faulty variant: the last size that earns something stands.
BetterThanNothing(r, best) == r.ok /\ r.pnl > 0

\* The zero trade is always a candidate, and of sizes as good the first stands.
Better(r, best) == r.ok /\ r.pnl > (IF best.ok THEN best.pnl ELSE 0)

Consider(best, r) == IF Better(r, best) THEN r ELSE best

\* The sizes of the grid that are tried, once each.
Sizes == {g \in Grid : g > 0 /\ g <= MaxCapital}

\* In ascending order.
GridSizes ==
    CHOOSE s \in [1 .. Cardinality(Sizes) -> Sizes] : \A m, n \in DOMAIN s : m < n => s[m] < s[n]

\* A size with what it earns; above the cap nothing is evaluated.
Evaluated(ps, c, x) == IF x > MaxCapital THEN Refused ELSE EvaluateCircuit(ps, c, x)

\* One step of the refinement: of the two points that divide the range in
\* three, with what they earn, the worse one bounds what is searched next.
Narrowed(s, m1, m2, r1, r2) ==
    LET best == Consider(Consider(s.best, r1), r2)
        Pnl(r) == IF r.ok THEN r.pnl ELSE -U64Max
    IN  IF s.hi - s.lo <= 1 THEN s
        ELSE IF Pnl(r1) < Pnl(r2) THEN [best |-> best, lo |-> m1, hi |-> s.hi]
        ELSE [best |-> best, lo |-> s.lo, hi |-> m2]

Narrow(ps, c, s) ==
    LET third == (s.hi - s.lo) \div 3
        Between(m1, m2) == Narrowed(s, m1, m2, Evaluated(ps, c, m1), Evaluated(ps, c, m2))
    IN  Between(s.lo + third, s.hi - third)

\* The best size of the grid.
Swept(ps, c) ==
    LET sweep[n \in 0 .. Cardinality(Sizes)] ==
            IF n = 0 THEN Refused
            ELSE Consider(sweep[n - 1], Evaluated(ps, c, GridSizes[n]))
    IN  sweep[Cardinality(Sizes)]

\* The neighbours of the best size of the grid, between which it is refined.
Around(coarse) ==
    LET at == CHOOSE n \in DOMAIN GridSizes : GridSizes[n] = coarse.amountIn
    IN  [best |-> coarse,
         lo |-> IF at > 1 THEN GridSizes[at - 1] ELSE coarse.amountIn \div 2,
         hi |-> IF at < Cardinality(Sizes) THEN GridSizes[at + 1]
                ELSE Min({2 * coarse.amountIn, MaxCapital})]

Refined(ps, c, range) ==
    LET refine[n \in 0 .. RefineSteps] == IF n = 0 THEN range ELSE Narrow(ps, c, refine[n - 1])
    IN  refine[RefineSteps].best

SizeCircuit(ps, c) ==
    LET Sized(coarse) == IF coarse.ok THEN Refined(ps, c, Around(coarse)) ELSE Refused
    IN  Sized(Swept(ps, c))

-----------------------------------------------------------------------------
MarketInit ==
    /\ pools \in [Pools -> UNION {Snapshots[p] : p \in Pools}]
    /\ \A p \in Pools : pools[p] \in Snapshots[p]
    /\ flow = [p \in Pools |-> [s \in Side |-> 0]]

\* How many swaps were applied: the hash of a pool is its snapshot and they follow.
Swaps == MapThenSumSet(LAMBDA p : Len(pools[p].hash) - 1, Pools)

\* PumpSwap's adapter leaves it to the token program that a vault does not overflow.
TokenProgramAccepts(i, d) == IsRay(i) \/ \A s \in Side : d.vault[s] <= U64Max

\* Someone trades on a pool: the swap its adapter quotes and accepts.
Trade(p, from, amount) ==
    /\ ValidatePool(Info[p], pools[p])
    /\ Swaps < MaxSteps
    /\ \E q \in {QuoteExactIn(Info[p], pools[p], from, amount)} : q.ok /\
         \E next \in {ApplySwap(Info[p], pools[p], q)} :
            /\ next.ok /\ TokenProgramAccepts(Info[p], next.pool)
            /\ pools' = [pools EXCEPT ![p] = next.pool]
            /\ flow' = [flow EXCEPT ![p][from] = @ - q.amountIn, ![p][Other(from)] = @ + q.out]

\* Of one of the amounts, or of all that a pool gave so far.
SomeTrade ==
    \E p \in Pools, from \in Side :
        \E amount \in Amounts \cup {flow[p][from]} : amount > 0 /\ Trade(p, from, amount)

-----------------------------------------------------------------------------
\* No vault falls below zero or rises above what a token account holds; what
\* a Raydium pool owes is an amount too.
PoolsOK == \A p \in Pools : PoolState(Info[p], pools[p])

\* A pool prices a trade on what it is sent, unless it is PumpSwap's and its
\* mint withholds a transfer fee: a sale is then priced on the gross amount.
PricesWhatItGets(i) == IsRay(i) \/ ~i.transferFee.token.charged

(***************************************************************************)
(* No sequence of swaps on one pool, whoever makes them and in whatever    *)
(* order, takes something from it without giving anything: roundings, fees *)
(* taken on either side, the unit PumpSwap leaves off the curve, the       *)
(* virtual reserve and Raydium's transfer fees all work for the pool,      *)
(* unless it is PumpSwap's and sent a token that withholds a fee.  No      *)
(* vault is overdrawn or overflows on the way.                             *)
(***************************************************************************)
NoPoolPaysForNothing ==
    /\ PoolsOK
    /\ \A p \in Pools :
        /\ PricesWhatItGets(Info[p])
        /\ \A s \in Side : flow[p][s] >= 0
        => \A s \in Side : flow[p][s] = 0

\* A reserve a pool prices with, and the product of the two.
PricedReserve(i, d, side) ==
    IF IsRay(i) \/ side = "token" THEN Reserve(i, d, side)
    ELSE EffectiveQuoteReserve(PumpState(i, d))

Priced(i, d) == PricedReserve(i, d, "wsol") * PricedReserve(i, d, "token")

\* It does not fall in a step.
NoneFalls ==
    \A p \in Pools :
        pools'[p] # pools[p] /\ PricesWhatItGets(Info[p])
        => Priced(Info[p], pools'[p]) >= Priced(Info[p], pools[p])

(***************************************************************************)
(* No swap lowers the product a pool prices with, unless PumpSwap is sent  *)
(* a token that withholds a fee (PricesWhatItGets): the curve, the fees    *)
(* and their shares are all rounded for the pool, on both exchanges.       *)
(***************************************************************************)
ConstantNeverFalls == [][NoneFalls]_pools

(***************************************************************************)
(* Sending what quoteExactOut asks for an amount is accepted and brings at *)
(* least that amount: the inverse rounds against the trader at each of its *)
(* steps.  A config whose rates are above the whole is none a pool may     *)
(* have: the shares of a fee could then outgrow an amount.                 *)
(***************************************************************************)
ExactOutCovers ==
    \A p \in Pools, from \in Side, wanted \in Amounts :
        LET i == Info[p]
            inverse == SimulateSwapBaseOutput(i, pools[p], from, wanted)
            forward == SimulateSwapBaseInput(i, pools[p], from, inverse.transfer)
        IN  IsRay(i) /\ RatesSound(i) /\ inverse.ok => forward.ok /\ forward.received >= wanted
=============================================================================
