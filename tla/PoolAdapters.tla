----------------------------- MODULE PoolAdapters -----------------------------
(***************************************************************************)
(* The two pool adapters behind one interface: validatePool, quoteExactIn  *)
(* and applySwap.  An adapter is pure.  It is given the description i of a  *)
(* pool (what no swap changes: fee rates, switches, mints) and a decoded   *)
(* state d:                                                                *)
(*                                                                         *)
(*   vault  the raw amount of each vault, by side                          *)
(*   owed   Raydium only: per side, the fees in the vault that belong to   *)
(*          the protocol, the fund and the creator                         *)
(*   epoch, now   derived from the snapshot, for the fees and the opening  *)
(*   hash   stands for stateHash: the snapshot and every swap applied to   *)
(*          it since, so that two histories never have the same            *)
(*                                                                         *)
(* A pool has two sides, named by mint: "wsol" and "token".  Addresses,    *)
(* owners and derived accounts are equal to what they must be or are not:  *)
(* i.mismatches is the set of those that are not.                          *)
(***************************************************************************)
EXTENDS RaydiumMath, PumpMath

Side == {"wsol", "token"}
Other(side) == IF side = "wsol" THEN "token" ELSE "wsol"

\* The creator's fee is on both mints, or on one of the two only.
CreatorFeeOn == {"both"} \cup Side

\* What a mint's extensions may be, by type and where it matters by their state.
Extension == {"TransferFeeConfig", "MetadataPointer", "TokenMetadata",
              "InterestBearingConfig", "ScaledUiAmount", "Pausable", "Paused",
              "NonTransferable", "DefaultFrozen", "TransferHook", "HookWithoutProgram",
              "PermanentDelegate", "TransferFeeInvalid"}

\* The extensions a Raydium pool's mint may have, whatever their state.
AllowedExtensions == {"TransferFeeConfig", "MetadataPointer", "TokenMetadata",
                      "InterestBearingConfig", "ScaledUiAmount"}

\* token2022Gate: what makes PumpSwap's adapter reject a mint, here the state counts.
GateRejects(i) ==
    i.extensions \cap {"NonTransferable", "Paused", "DefaultFrozen", "TransferHook",
                       "TransferFeeInvalid"}

\* A pool without a creator's fee enabled has none, whatever its config says.
RatesOf(i) == [i.rates EXCEPT !.creator = IF i.enableCreatorFee THEN @ ELSE 0]

Owed(owed, side) == owed[side].protocol + owed[side].fund + owed[side].creator

VaultAmountWithoutFee(vault, owed) ==
    IF \A s \in Side : Owed(owed, s) \in U64 /\ Owed(owed, s) <= vault[s]
    THEN [ok |-> TRUE, reserve |-> [s \in Side |-> vault[s] - Owed(owed, s)]]
    ELSE Refused

\* A faulty variant: the amount arrives in a vault of any size.
CreditedUnchecked(balance, amount) == amount >= 0

\* A transfer into a token account whose balance stays one.
Credited(balance, amount) == balance + amount \in U64

\* swap_base_input, step by step up to the token moves; the gate on status and
\* opening time is RayGate's.
SimulateSwapBaseInput(i, d, from, amountIn) ==
    LET to == Other(from)
        feeIn == GetTransferFee(i.transferFee[from], d.epoch, amountIn)
        without == VaultAmountWithoutFee(d.vault, d.owed)
        onInput == i.creatorFeeOn \in {"both", from}
        Swapped(actual, x, y, c) ==
            LET feeOut == GetTransferFee(i.transferFee[to], d.epoch, c.output)
            IN  IF /\ x * y \in U128
                   /\ c.ok /\ c.newIn * c.newOut \in U128 /\ c.output \in U64
                   /\ feeOut # Null /\ feeOut < c.output
                   /\ {c.protocol, c.fund, c.creator} \subseteq U64
                   /\ c.newIn * c.newOut >= x * y
                   /\ Credited(d.vault[from], actual)
                   /\ c.output <= d.vault[to]
                THEN [ok |-> TRUE, actual |-> actual, curve |-> c,
                      received |-> c.output - feeOut, onInput |-> onInput]
                ELSE Refused
        Sent(actual, x, y) ==
            Swapped(actual, x, y, CurveSwapBaseInput(actual, x, y, RatesOf(i), onInput))
    IN  IF /\ amountIn \in U64 /\ feeIn # Null /\ amountIn > feeIn
           /\ without.ok /\ i.creatorFeeOn \in CreatorFeeOn
        THEN Sent(amountIn - feeIn, without.reserve[from], without.reserve[to])
        ELSE Refused

\* swap_base_output: what must be sent for received to arrive.
SimulateSwapBaseOutput(i, d, from, received) ==
    LET to == Other(from)
        feeOut == GetTransferInverseFee(i.transferFee[to], d.epoch, received)
        without == VaultAmountWithoutFee(d.vault, d.owed)
        onInput == i.creatorFeeOn \in {"both", from}
        Paid(sent, x, y, c, feeIn) ==
            IF /\ c.ok /\ c.newIn * c.newOut \in U128 /\ c.input \in U64 \ {0}
               /\ feeIn # Null /\ c.input + feeIn \in U64
               /\ c.output = sent /\ c.newIn * c.newOut >= x * y
               /\ Credited(d.vault[from], c.input) /\ sent <= d.vault[to]
            THEN [ok |-> TRUE, transfer |-> c.input + feeIn]
            ELSE Refused
        Curved(sent, x, y, c) ==
            Paid(sent, x, y, c, GetTransferInverseFee(i.transferFee[from], d.epoch, c.input))
        Asked(sent, x, y) ==
            IF sent \in U64 THEN Curved(sent, x, y, CurveSwapBaseOutput(sent, x, y, RatesOf(i), onInput))
                            ELSE Refused
    IN  IF /\ received \in U64 \ {0} /\ feeOut # Null
           /\ without.ok /\ i.creatorFeeOn \in CreatorFeeOn
        THEN Asked(received + feeOut, without.reserve[from], without.reserve[to])
        ELSE Refused

\* update_fees: the protocol's and the fund's shares on the side of the input,
\* the creator's where it was taken.
ApplyFeeUpdate(owed, from, onInput, c) ==
    LET creatorSide == IF onInput THEN from ELSE Other(from)
        shared == [owed EXCEPT ![from].protocol = @ + c.protocol, ![from].fund = @ + c.fund]
    IN  [shared EXCEPT ![creatorSide].creator = @ + c.creator]

RayGate(i, d) == ~i.swapDisabled /\ i.openTime <= d.now

RayQuote(i, d, from, amountIn) ==
    LET Quoted(r) ==
          IF RayGate(i, d) /\ r.ok
          THEN [ok |-> TRUE, from |-> from, amountIn |-> amountIn, out |-> r.received,
                inDelta |-> r.actual, outDelta |-> r.curve.output, hash |-> d.hash]
          ELSE Refused
    IN  Quoted(SimulateSwapBaseInput(i, d, from, amountIn))

\* The swap is computed again and the quote must be what comes out.
RayApply(i, d, q) ==
    LET Applied(r) ==
          LET vault == [d.vault EXCEPT ![q.from] = @ + r.actual,
                                       ![Other(q.from)] = @ - r.curve.output]
              owed == ApplyFeeUpdate(d.owed, q.from, r.onInput, r.curve)
          IN  IF /\ q.ok /\ q.hash = d.hash /\ r.ok
                 /\ <<r.received, r.actual, r.curve.output>> = <<q.out, q.inDelta, q.outDelta>>
                 /\ VaultAmountWithoutFee(vault, owed).ok
              THEN [ok |-> TRUE,
                    pool |-> [d EXCEPT !.vault = vault, !.owed = owed,
                                       !.hash = Append(@, <<q.from, q.amountIn>>)]]
              ELSE Refused
    IN  Applied(SimulateSwapBaseInput(i, d, q.from, q.amountIn))

\* A faulty variant: the shares of the trade fee are not compared with the whole.
RatesBelowOne(i) == i.rates.trade + i.rates.creator < FeeRateDenominator

RatesSound(i) ==
    /\ i.rates.trade + i.rates.creator < FeeRateDenominator
    /\ i.rates.protocol + i.rates.fund <= FeeRateDenominator

RayValid(i, d) ==
    /\ i.mismatches = {}
    /\ RayGate(i, d)
    /\ i.creatorFeeOn \in CreatorFeeOn
    /\ i.extensions \subseteq AllowedExtensions
    /\ VaultAmountWithoutFee(d.vault, d.owed).ok
    /\ 0 \notin {VaultAmountWithoutFee(d.vault, d.owed).reserve[s] : s \in Side}
    /\ RatesSound(i)

-----------------------------------------------------------------------------
PumpState(i, d) == [base |-> d.vault.token, quote |-> d.vault.wsol, virtual |-> i.virtual]

Schedule(i, s) == SelectFeeSchedule(i, s)

\* A purchase debits what the budget comes to and no more; the transfer fee
\* of the token is taken from what is received.
PumpBuyQuote(i, d, budget) ==
    LET s == PumpState(i, d)
        Quoted(r) ==
          IF s.base > 0 /\ "buy" \notin i.disabled /\ GateRejects(i) = {} /\ r.ok
          THEN [ok |-> TRUE, from |-> "wsol", amountIn |-> r.total,
                out |-> r.baseOut - TransferFeeAmountWorstCase(r.baseOut, i.transferFee.token),
                inDelta |-> r.effective + r.fees.lp, outDelta |-> r.baseOut, hash |-> d.hash]
          ELSE Refused
    IN  Quoted(BuyQuoteInput(s, Schedule(i, s), budget))

\* A sale is priced on the gross amount, though the vault receives the net one.
PumpSellQuote(i, d, amountIn) ==
    LET s == PumpState(i, d)
        Quoted(r) ==
          IF s.base > 0 /\ "sell" \notin i.disabled /\ GateRejects(i) = {} /\ r.ok
          THEN [ok |-> TRUE, from |-> "token", amountIn |-> amountIn, out |-> r.userQuoteOut,
                inDelta |-> amountIn - TransferFeeAmountWorstCase(amountIn, i.transferFee.token),
                outDelta |-> r.quoteOut - r.fees.lp, hash |-> d.hash]
          ELSE Refused
    IN  Quoted(SellBaseInput(s, Schedule(i, s), amountIn))

PumpQuote(i, d, from, amountIn) ==
    IF from = "wsol" THEN PumpBuyQuote(i, d, amountIn) ELSE PumpSellQuote(i, d, amountIn)

\* The deltas of the quote are moved; the state it was computed on is not compared.
PumpApply(i, d, q) ==
    LET vault == [d.vault EXCEPT ![q.from] = @ + q.inDelta, ![Other(q.from)] = @ - q.outDelta]
    IN  IF q.ok /\ q.hash[1] = d.hash[1] /\ \A s \in Side : vault[s] >= 0
        THEN [ok |-> TRUE,
              pool |-> [d EXCEPT !.vault = vault, !.hash = Append(@, <<q.from, q.amountIn>>)]]
        ELSE Refused

\* Whether a purchase with this budget debits at most amountIn.
BudgetFits(i, d, budget, amountIn) ==
    LET s == PumpState(i, d)
        Fits(r) == r.ok /\ r.total <= amountIn
    IN  Fits(BuyQuoteInput(s, Schedule(i, s), budget))

\* The budget of a purchase that debits at most amountIn.
SpendableBudgetFor(i, d, amountIn) ==
    IF BudgetFits(i, d, amountIn + 1, amountIn) THEN amountIn + 1
    ELSE IF BudgetFits(i, d, amountIn, amountIn) THEN amountIn ELSE Null

PumpValid(i, d) ==
    /\ i.mismatches = {}
    /\ i.disabled = {}
    /\ GateRejects(i) = {}
    /\ Priceable(PumpState(i, d))

-----------------------------------------------------------------------------
\* The adapter of a pool, by its kind.
IsRay(i) == i.kind = "raydium_cpmm"

ValidatePool(i, d) == IF IsRay(i) THEN RayValid(i, d) ELSE PumpValid(i, d)

QuoteExactIn(i, d, from, amountIn) ==
    IF IsRay(i) THEN RayQuote(i, d, from, amountIn) ELSE PumpQuote(i, d, from, amountIn)

ApplySwap(i, d, q) == IF IsRay(i) THEN RayApply(i, d, q) ELSE PumpApply(i, d, q)

Reserve(i, d, side) ==
    IF IsRay(i) THEN VaultAmountWithoutFee(d.vault, d.owed).reserve[side] ELSE d.vault[side]
=============================================================================
