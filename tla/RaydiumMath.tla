----------------------------- MODULE RaydiumMath -----------------------------
(***************************************************************************)
(* The swap arithmetic of a Raydium constant-product pool, as the engine   *)
(* ports it from the on-chain program: fees, the curve in both directions  *)
(* and the Token-2022 transfer fee.  Where the program returns None or     *)
(* panics the port returns null or throws, and the caller turns either     *)
(* into a rejected quote; here both are the record Refused, so that        *)
(* which of the two it was is left out.                                    *)
(***************************************************************************)
EXTENDS Integers

CONSTANTS
    FeeRateDenominator,   \* FEE_RATE_DENOMINATOR, a million in the program
    MaxFeeBasisPoints,    \* MAX_FEE_BASIS_POINTS of a transfer fee
    U64Max                \* the largest amount of a token account

ASSUME FeeAssumption ==
    /\ FeeRateDenominator \in Nat \ {0}
    /\ MaxFeeBasisPoints \in Nat \ {0}
    /\ U64Max \in Nat \ {0} /\ FeeRateDenominator <= U64Max

U64 == 0 .. U64Max

\* u128 has twice the bits of u64.
U128 == 0 .. (U64Max + 1) * (U64Max + 1) - 1

\* What a checked operation returns when it fails.
Null == -1

Refused == [ok |-> FALSE]

FeeCeilDiv(amount, num, den) ==
    IF den # 0 /\ amount * num \in U128 /\ amount * num + den \in U128
    THEN (amount * num + den - 1) \div den
    ELSE Null

FeeFloorDiv(amount, num, den) ==
    IF den # 0 /\ amount * num \in U128
    THEN (amount * num) \div den
    ELSE Null

\* tradingFee and creatorFeeOf: what is taken from an amount is rounded up.
TradingFee(amount, rate) == FeeCeilDiv(amount, rate, FeeRateDenominator)

\* protocolFeeOf and fundFeeOf: a share carved out of the trade fee, rounded down.
ShareOf(tradeFee, rate) == FeeFloorDiv(tradeFee, rate, FeeRateDenominator)

SplitCreatorFee(total, tradeRate, creatorRate) ==
    FeeFloorDiv(total, creatorRate, tradeRate + creatorRate)

\* A faulty variant: the fee is a share of what is left after it.
PreFeeAmountOnTop(post, rate) == FeeCeilDiv(post, FeeRateDenominator + rate, FeeRateDenominator)

CalculatePreFeeAmount(post, rate) ==
    IF rate = 0 THEN post
    ELSE IF rate < FeeRateDenominator
         THEN FeeCeilDiv(post, FeeRateDenominator, FeeRateDenominator - rate)
         ELSE Null

SwapBaseInputWithoutFees(input, reserveIn, reserveOut) ==
    IF input * reserveOut \in U128 /\ reserveIn + input \in U128 \ {0}
    THEN (input * reserveOut) \div (reserveIn + input)
    ELSE Null

SwapBaseOutputWithoutFees(output, reserveIn, reserveOut) ==
    IF reserveIn * output \in U128 /\ output < reserveOut
    THEN (reserveIn * output + reserveOut - output - 1) \div (reserveOut - output)
    ELSE Null

\* The fields of a result that both directions compute alike once the amounts
\* on the curve and the two fees are known.
CurveResult(input, output, lessFees, swapped, trade, creator, reserveIn, reserveOut, r) ==
    LET protocol == ShareOf(trade, r.protocol)
        fund == ShareOf(trade, r.fund)
    IN  IF Null \notin {protocol, fund} /\ reserveIn + lessFees \in U128 /\ swapped <= reserveOut
        THEN [ok |-> TRUE, input |-> input, output |-> output, lessFees |-> lessFees,
              swapped |-> swapped, trade |-> trade, protocol |-> protocol, fund |-> fund,
              creator |-> creator,
              newIn |-> reserveIn + lessFees, newOut |-> reserveOut - swapped]
        ELSE Refused

(***************************************************************************)
(* The creator's fee is taken with the trade fee, from the input, or alone *)
(* from the output.                                                        *)
(***************************************************************************)
CurveSwapBaseInput(input, reserveIn, reserveOut, r, onInput) ==
    LET total == TradingFee(input, IF onInput THEN r.trade + r.creator ELSE r.trade)
        split == IF onInput THEN SplitCreatorFee(total, r.trade, r.creator) ELSE 0
        swapped == SwapBaseInputWithoutFees(input - total, reserveIn, reserveOut)
        taken == IF onInput THEN 0 ELSE TradingFee(swapped, r.creator)
    IN  IF /\ total # Null /\ split # Null /\ total <= input
           /\ swapped # Null /\ taken # Null /\ taken <= swapped
        THEN CurveResult(input, swapped - taken, input - total, swapped,
                         total - split, split + taken, reserveIn, reserveOut, r)
        ELSE Refused

CurveSwapBaseOutput(output, reserveIn, reserveOut, r, onInput) ==
    LET gross == IF onInput THEN output ELSE CalculatePreFeeAmount(output, r.creator)
        lessFees == SwapBaseOutputWithoutFees(gross, reserveIn, reserveOut)
        input == CalculatePreFeeAmount(lessFees, IF onInput THEN r.trade + r.creator
                                                            ELSE r.trade)
        split == IF onInput THEN SplitCreatorFee(input - lessFees, r.trade, r.creator) ELSE 0
    IN  IF gross # Null /\ lessFees # Null /\ input # Null /\ split # Null
        THEN CurveResult(input, output, lessFees, gross, input - lessFees - split,
                         split + (gross - output), reserveIn, reserveOut, r)
        ELSE Refused

-----------------------------------------------------------------------------
(***************************************************************************)
(* Token-2022.  A mint's config is NoFee or its two tiers, each            *)
(* [epoch, maxFee, bps].                                                   *)
(***************************************************************************)
NoFee == [charged |-> FALSE]

EpochFeeTier(config, epoch) ==
    IF epoch >= config.newer.epoch THEN config.newer ELSE config.older

CalculateFee(tier, pre) ==
    LET raw == (pre * tier.bps + MaxFeeBasisPoints - 1) \div MaxFeeBasisPoints
    IN  IF tier.bps = 0 \/ pre = 0 THEN 0
        ELSE IF raw > U64Max THEN Null
        ELSE IF raw < tier.maxFee THEN raw
        ELSE tier.maxFee

TransferFeePreFeeAmount(tier, post) ==
    LET rest == MaxFeeBasisPoints - tier.bps
        raw == (post * MaxFeeBasisPoints + rest - 1) \div rest
        pre == IF rest = 0 \/ raw - post >= tier.maxFee THEN post + tier.maxFee ELSE raw
    IN  IF rest < 0 THEN Null
        ELSE IF tier.bps = 0 THEN post
        ELSE IF post = 0 THEN 0
        ELSE IF pre > U64Max THEN Null
        ELSE pre

GetTransferFee(config, epoch, pre) ==
    IF config.charged THEN CalculateFee(EpochFeeTier(config, epoch), pre) ELSE 0

\* The fee to add so that post arrives; Null when the program would refuse.
\* A config of NoFee stands for a legacy mint, which accepts post = 0 too, and
\* for a Token-2022 mint that charges nothing: no caller passes zero.
GetTransferInverseFee(config, epoch, post) ==
    IF ~config.charged THEN 0
    ELSE LET tier == EpochFeeTier(config, epoch)
             pre == TransferFeePreFeeAmount(tier, post)
             fee == IF pre = Null THEN Null ELSE CalculateFee(tier, pre)
         IN  IF post = 0 THEN Null
             ELSE IF tier.bps = MaxFeeBasisPoints THEN tier.maxFee
             ELSE IF fee # Null /\ post + fee <= U64Max /\ CalculateFee(tier, post + fee) = fee
                  THEN fee
             ELSE Null
=============================================================================
