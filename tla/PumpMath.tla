------------------------------- MODULE PumpMath -------------------------------
(***************************************************************************)
(* The swap arithmetic of a PumpSwap pool and the choice of its fees.  A   *)
(* state of the arithmetic is [base, quote, virtual]: the two vaults and   *)
(* the virtual reserve that is added to the quote vault for pricing only.  *)
(* A schedule is [lp, protocol, creator], in basis points.                 *)
(***************************************************************************)
EXTENDS Integers, Sequences

CONSTANT BpsDenominator       \* ten thousand in the program

ASSUME BpsAssumption == BpsDenominator \in Nat \ {0}

NoTrade == [ok |-> FALSE]

FeeCeil(amount, bps) == (amount * bps + BpsDenominator - 1) \div BpsDenominator

EffectiveQuoteReserve(s) == s.quote + s.virtual

Priceable(s) == s.virtual >= 0 /\ EffectiveQuoteReserve(s) > 0 /\ s.base > 0

\* A faulty variant: the input is not part of the reserve it is priced against.
CurveOutputBefore(input, reserveIn, reserveOut) == (reserveOut * input) \div reserveIn

CurveOutput(input, reserveIn, reserveOut) == (reserveOut * input) \div (reserveIn + input)

\* The three fees on an amount of the quote mint, each rounded up.
FeesOn(amount, fees) ==
    [lp |-> FeeCeil(amount, fees.lp), protocol |-> FeeCeil(amount, fees.protocol),
     creator |-> FeeCeil(amount, fees.creator)]

Total(f) == f.lp + f.protocol + f.creator

(***************************************************************************)
(* buy(base_amount_out): what has to be paid for an exact amount.          *)
(***************************************************************************)
BuyBaseInput(s, fees, baseOut) ==
    LET rest == s.base - baseOut
        quoteIn == (EffectiveQuoteReserve(s) * baseOut + rest - 1) \div rest
        f == FeesOn(quoteIn, fees)
    IN  IF Priceable(s) /\ baseOut > 0 /\ baseOut < s.base
        THEN [ok |-> TRUE, quoteIn |-> quoteIn, fees |-> f, userQuoteIn |-> quoteIn + Total(f)]
        ELSE NoTrade

(***************************************************************************)
(* buy_exact_quote_in(budget).  When rounding up the fees exceeds the      *)
(* budget, the excess is taken from the amount that is traded and the fees *)
(* are not computed again.  One unit less than that amount is on the curve.*)
(***************************************************************************)
BuyQuoteInput(s, fees, budget) ==
    LET floor == (budget * BpsDenominator) \div (BpsDenominator + Total(fees))
        f == FeesOn(floor, fees)
        excess == floor + Total(f) - budget
        effective == IF excess > 0 THEN floor - excess ELSE floor
        baseOut == CurveOutput(effective - 1, EffectiveQuoteReserve(s), s.base)
    IN  IF Priceable(s) /\ budget > 0 /\ effective > 1 /\ baseOut > 0
        THEN [ok |-> TRUE, effective |-> effective, fees |-> f,
              total |-> effective + Total(f), baseOut |-> baseOut]
        ELSE NoTrade

PaidByVault(s, amount) == amount <= s.quote

(***************************************************************************)
(* sell(base_amount_in).  The virtual reserve prices a sale and cannot pay *)
(* it: what leaves the pool is capped by the real vault.                   *)
(***************************************************************************)
SellBaseInput(s, fees, baseIn) ==
    LET quoteOut == CurveOutput(baseIn, s.base, EffectiveQuoteReserve(s))
        f == FeesOn(quoteOut, fees)
    IN  IF Priceable(s) /\ baseIn > 0 /\ PaidByVault(s, quoteOut - f.lp) /\ quoteOut > Total(f)
        THEN [ok |-> TRUE, quoteOut |-> quoteOut, fees |-> f, userQuoteOut |-> quoteOut - Total(f)]
        ELSE NoTrade

-----------------------------------------------------------------------------
\* fee is NoFee of the other exchange's arithmetic, or a tier [bps, maxFee].
TransferFeeAmount(amount, tier) ==
    LET raw == (amount * tier.bps + BpsDenominator - 1) \div BpsDenominator
    IN  IF raw > tier.maxFee THEN tier.maxFee ELSE raw

\* A faulty variant: the newer tier's fee, whatever the epoch.
TransferFeeAmountNewer(amount, config) ==
    IF config.charged THEN TransferFeeAmount(amount, config.newer) ELSE 0

\* The larger of the two scheduled tiers' fees on this very amount.
TransferFeeAmountWorstCase(amount, config) ==
    IF ~config.charged THEN 0
    ELSE LET older == TransferFeeAmount(amount, config.older)
             newer == TransferFeeAmount(amount, config.newer)
         IN  IF older > newer THEN older ELSE newer

-----------------------------------------------------------------------------
PoolMarketCap(s, supply) == (EffectiveQuoteReserve(s) * supply) \div s.base

\* tiers is a sequence of [threshold, fees], in the order of the account.
CalculateFeeTier(tiers, marketCap) ==
    LET reached == {i \in DOMAIN tiers : tiers[i].threshold <= marketCap}
    IN  IF marketCap < tiers[1].threshold \/ reached = {} THEN tiers[1].fees
        ELSE tiers[CHOOSE i \in reached : \A j \in reached : j <= i].fees

(***************************************************************************)
(* The schedule of a pool in a state: the tiers by market capitalisation   *)
(* for a canonical pool, the flat fees for another; the pool's own creator *)
(* rate when the program allows one; no creator fee without a creator.     *)
(* Only a quote in WSOL reaches a trade, so the tiers of stable and exotic *)
(* quote mints are left out.                                               *)
(***************************************************************************)
SelectFeeSchedule(i, s) ==
    LET base == IF i.canonical THEN CalculateFeeTier(i.tiers, PoolMarketCap(s, i.supply))
                               ELSE i.flatFees
        creator == IF i.creatorFeeConfigurable /\ i.creatorFeeBps > 0
                   THEN i.creatorFeeBps ELSE base.creator
    IN  [lp |-> base.lp, protocol |-> base.protocol,
         creator |-> IF i.hasCoinCreator THEN creator ELSE 0]
=============================================================================
