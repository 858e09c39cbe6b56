----------------------------- MODULE ProbeProofs -----------------------------
(***************************************************************************)
(* The product a pool prices with never falls and no trader takes from a   *)
(* pool without giving; the size that is chosen is the best of the grid; a *)
(* probe on pools that did not move earns what was quoted, and its         *)
(* accounts are right.  All of it for any denominators and widths, pools,  *)
(* fees, grids, caps, deposits and surprises, and any sequence of trades.  *)
(***************************************************************************)
EXTENDS Probe, FiniteSetTheorems, WellFoundedInduction, TLAPS

-----------------------------------------------------------------------------
(* Arithmetic.                                                             *)

\* Integer division, by what defines it.
LEMMA Quotient ==
  ASSUME NEW x \in Nat, NEW m \in Nat \ {0}
  PROVE  x \div m \in Nat /\ m * (x \div m) <= x
BY SMT

\* Multiplying by a natural number keeps the order.
LEMMA Monotone ==
  ASSUME NEW a \in Int, NEW b \in Int, NEW c \in Nat, a >= b
  PROVE  a * c >= b * c
<1>1. (a - b) * c >= 0
  BY SMT
<1>2. (a - b) * c = a * c - b * c
  BY SMT
<1> QED
  BY <1>1, <1>2, SMT

\* The product of two natural numbers is one.
LEMMA ProductOfNaturals ==
  ASSUME NEW a \in Nat, NEW b \in Nat
  PROVE  a * b \in Nat
BY SMT

\* A quotient is at most what it is not larger than when multiplied.
LEMMA QuotientBelow ==
  ASSUME NEW x \in Nat, NEW m \in Nat \ {0}, NEW b \in Nat, x <= m * b
  PROVE  x \div m <= b
<1> DEFINE q == x \div m
<1>1. q \in Nat /\ m * q <= m * b
  BY Quotient
<1> HIDE DEF q
<1>2. SUFFICES ASSUME q >= b + 1 PROVE FALSE
  BY <1>1 DEF q
<1>3. m * q >= m * (b + 1)
  <2>1. q * m >= (b + 1) * m
    BY <1>1, <1>2, Monotone
  <2> QED
    BY <1>1, <2>1, SMT
<1>4. m * (b + 1) = m * b + m
  BY SMT
<1>5. m * b \in Nat /\ m * q \in Nat
  BY <1>1, ProductOfNaturals
<1> QED
  BY <1>1, <1>3, <1>4, <1>5

\* A share of an amount is at most the amount.
LEMMA Part ==
  ASSUME NEW t \in Nat, NEW a \in Nat, NEW m \in Nat \ {0}, a <= m
  PROVE  (t * a) \div m \in Nat /\ (t * a) \div m <= t
<1>1. t * a \in Nat /\ t * a <= m * t
  <2>1. m * t >= a * t
    BY Monotone
  <2>2. a * t = t * a /\ t * a \in Nat /\ m * t \in Nat
    BY ProductOfNaturals, SMT
  <2> QED
    BY <2>1, <2>2
<1> QED
  BY <1>1, Quotient, QuotientBelow

\* Two shares that are no more than the whole, each rounded down.
LEMMA TwoParts ==
  ASSUME NEW t \in Nat, NEW a \in Nat, NEW b \in Nat, NEW m \in Nat \ {0}, a + b <= m
  PROVE  (t * a) \div m + (t * b) \div m <= t
<1> DEFINE p == (t * a) \div m
           q == (t * b) \div m
<1>1. /\ t * a \in Nat /\ t * b \in Nat
      /\ p \in Nat /\ q \in Nat /\ m * p <= t * a /\ m * q <= t * b
  BY ProductOfNaturals, Quotient
<1> HIDE DEF p, q
<1>2. m * p + m * q <= t * (a + b)
  <2>1. t * (a + b) = t * a + t * b
    BY SMT
  <2>2. m * p \in Nat /\ m * q \in Nat
    BY <1>1, ProductOfNaturals
  <2> QED
    BY <1>1, <2>1, <2>2
<1>3. t * (a + b) <= m * t
  <2>1. m * t >= (a + b) * t
    BY Monotone
  <2> QED
    BY <2>1, SMT
<1>4. SUFFICES ASSUME p + q >= t + 1 PROVE FALSE
  BY <1>1 DEF p, q
<1>5. (p + q) * m >= (t + 1) * m
  BY <1>1, <1>4, Monotone
<1>6. (p + q) * m = m * p + m * q /\ (t + 1) * m = m * t + m
  BY <1>1, SMT
<1> QED
  BY <1>1, <1>2, <1>3, <1>5, <1>6, ProductOfNaturals

\* A nonempty set of natural numbers has a least element.
LEMMA HasLeast ==
  ASSUME NEW T \in SUBSET Nat, T # {}
  PROVE  \E x \in T : \A y \in T : x <= y
<1> DEFINE R == OpToRel(<, Nat)
<1>1. IsWellFoundedOn(R, Nat)
  BY NatLessThanWellFounded
<1>2. \A x, y \in Nat : x < y => <<x, y>> \in R
  BY DEF OpToRel
<1> HIDE DEF R
<1>3. PICK x \in T : \A y \in T : ~(<<y, x>> \in R)
  BY <1>1, WFMin
<1>4. \A y \in T : ~(y < x)
  BY <1>2, <1>3
<1> QED
  BY <1>4

\* A nonempty set of indices has a greatest one.
LEMMA HasGreatest ==
  ASSUME NEW n \in Nat, NEW T \in SUBSET (1..n), T # {}
  PROVE  \E x \in T : \A y \in T : y <= x
<1> DEFINE M == {n - x : x \in T}
<1>1. \A x \in T : x \in 1..n /\ n - x \in Nat
  OBVIOUS
<1>2. M \in SUBSET Nat /\ M # {}
  BY <1>1
<1>3. PICK m \in M : \A y \in M : m <= y
  <2> HIDE DEF M
  <2> QED
    BY <1>2, HasLeast
<1>4. PICK x \in T : m = n - x
  BY <1>3
<1>5. \A y \in T : n - x <= n - y
  BY <1>3, <1>4
<1> QED
  BY <1>1, <1>5

-----------------------------------------------------------------------------
(* Fees and transfer fees.                                                 *)

\* A fee that is rounded up, unless it overflows.
LEMMA CeilIsNatural ==
  ASSUME NEW amount \in Nat, NEW num \in Nat, NEW den \in Nat
  PROVE  FeeCeilDiv(amount, num, den) = Null \/ FeeCeilDiv(amount, num, den) \in Nat
<1>1. CASE den # 0
  <2>1. amount * num + den - 1 \in Nat
    BY <1>1, ProductOfNaturals
  <2> QED
    BY <1>1, <2>1, Quotient DEF FeeCeilDiv
<1> QED
  BY <1>1 DEF FeeCeilDiv

\* A share that is rounded down is a part of the amount.
LEMMA FloorIsPart ==
  ASSUME NEW amount \in Nat, NEW num \in Nat, NEW den \in Nat, num <= den,
         FeeFloorDiv(amount, num, den) # Null
  PROVE  FeeFloorDiv(amount, num, den) \in 0..amount
BY Part DEF FeeFloorDiv

\* A tier's fee on an amount.
LEMMA TierFee ==
  ASSUME NEW tier \in TransferFeeTier, NEW amount \in Nat, CalculateFee(tier, amount) # Null
  PROVE  CalculateFee(tier, amount) \in Nat
<1>1. tier.bps \in Nat /\ tier.maxFee \in Nat
  BY DEF TransferFeeTier
<1>2. amount * tier.bps + MaxFeeBasisPoints - 1 \in Nat
  BY <1>1, ProductOfNaturals, FeeAssumption
<1>3. (amount * tier.bps + MaxFeeBasisPoints - 1) \div MaxFeeBasisPoints \in Nat
  BY <1>2, Quotient, FeeAssumption
<1> QED
  BY <1>1, <1>3 DEF CalculateFee

\* The transfer fee of an epoch on an amount.
LEMMA TransferFeeIsNatural ==
  ASSUME NEW config \in TransferFeeConfig, NEW epoch \in Nat, NEW amount \in Nat,
         GetTransferFee(config, epoch, amount) # Null
  PROVE  GetTransferFee(config, epoch, amount) \in Nat
<1>1. CASE config.charged
  <2>1. config.older \in TransferFeeTier /\ config.newer \in TransferFeeTier
    <3>1. config # NoFee
      BY <1>1 DEF NoFee
    <3>2. config \in [charged : {TRUE}, older : TransferFeeTier, newer : TransferFeeTier]
      BY <3>1 DEF TransferFeeConfig
    <3> QED
      BY <3>2
  <2>2. EpochFeeTier(config, epoch) \in TransferFeeTier
    BY <2>1 DEF EpochFeeTier
  <2> QED
    BY <1>1, <2>2, TierFee DEF GetTransferFee
<1>2. CASE ~config.charged
  BY <1>2 DEF GetTransferFee
<1> QED
  BY <1>1, <1>2

-----------------------------------------------------------------------------
(* A swap on a Raydium pool.                                               *)

\* The rates of a Raydium pool's config.
Rates == [trade : Nat, creator : Nat, protocol : Nat, fund : Nat]

\* What the curve takes and gives, fees included: what stays with the pool is
\* at least the new reserve of the input, and the new reserve of the output.
CurveKept(input, x, y, onInput, c) ==
  /\ c.protocol \in Nat /\ c.fund \in Nat /\ c.creator \in Nat /\ c.newOut \in Nat
  /\ c.output \in Int /\ c.newIn \in Int
  /\ x + input - c.protocol - c.fund - (IF onInput THEN c.creator ELSE 0) >= c.newIn
  /\ y - c.output - (IF onInput THEN 0 ELSE c.creator) = c.newOut

LEMMA CurveKeeps ==
  ASSUME NEW input \in Nat, NEW x \in Nat, NEW y \in Nat, NEW r \in Rates,
         NEW onInput \in BOOLEAN, NEW c, c = CurveSwapBaseInput(input, x, y, r, onInput),
         r.protocol + r.fund <= FeeRateDenominator, c.ok
  PROVE  CurveKept(input, x, y, onInput, c)
<1> DEFINE total == TradingFee(input, IF onInput THEN r.trade + r.creator ELSE r.trade)
           split == IF onInput THEN SplitCreatorFee(total, r.trade, r.creator) ELSE 0
           swapped == SwapBaseInputWithoutFees(input - total, x, y)
           taken == IF onInput THEN 0 ELSE TradingFee(swapped, r.creator)
           protocol == ShareOf(total - split, r.protocol)
           fund == ShareOf(total - split, r.fund)
<1>1. /\ r.trade \in Nat /\ r.creator \in Nat /\ r.protocol \in Nat /\ r.fund \in Nat
      /\ FeeRateDenominator \in Nat \ {0}
  BY FeeAssumption DEF Rates
<1>2. /\ total # Null /\ split # Null /\ total <= input
      /\ swapped # Null /\ taken # Null /\ taken <= swapped
      /\ c = CurveResult(input, swapped - taken, input - total, swapped,
                         total - split, split + taken, x, y, r)
  BY DEF CurveSwapBaseInput, Refused
<1>3. /\ protocol # Null /\ fund # Null /\ swapped <= y
      /\ c.output = swapped - taken /\ c.creator = split + taken
      /\ c.protocol = protocol /\ c.fund = fund
      /\ c.newIn = x + (input - total) /\ c.newOut = y - swapped
  <2> HIDE DEF total, split, swapped, taken
  <2> QED
    BY <1>2 DEF CurveResult, Refused
<1>4. total \in Nat
  <2> DEFINE rate == IF onInput THEN r.trade + r.creator ELSE r.trade
  <2>1. rate \in Nat
    BY <1>1
  <2>2. total = FeeCeilDiv(input, rate, FeeRateDenominator)
    BY DEF TradingFee
  <2> HIDE DEF rate, total
  <2> QED
    BY <1>1, <1>2, <2>1, <2>2, CeilIsNatural
<1> HIDE DEF total
<1>5. split \in 0..total
  <2>1. CASE onInput
    BY <1>1, <1>2, <1>4, <2>1, FloorIsPart DEF SplitCreatorFee
  <2>2. CASE ~onInput
    BY <1>4, <2>2
  <2> QED
    BY <2>1, <2>2
<1>6. swapped \in Nat
  <2>1. (input - total) * y \in Nat /\ x + (input - total) \in Nat
    BY <1>2, <1>4, ProductOfNaturals
  <2> QED
    BY <1>2, <2>1, Quotient DEF SwapBaseInputWithoutFees
<1> HIDE DEF split, swapped
<1>7. taken \in Nat
  BY <1>1, <1>2, <1>6, CeilIsNatural DEF TradingFee
<1>8. total - split \in Nat
  BY <1>4, <1>5
<1> DEFINE trade == total - split
<1>9. /\ protocol = (trade * r.protocol) \div FeeRateDenominator
      /\ fund = (trade * r.fund) \div FeeRateDenominator
  BY <1>3 DEF ShareOf, FeeFloorDiv
<1>10. protocol \in Nat /\ fund \in Nat /\ protocol + fund <= trade
  <2>1. r.protocol <= FeeRateDenominator /\ r.fund <= FeeRateDenominator
    BY <1>1
  <2> HIDE DEF trade, protocol, fund
  <2>2. trade \in Nat
    BY <1>8 DEF trade
  <2> QED
    BY <1>1, <1>9, <2>1, <2>2, Part, TwoParts
<1> HIDE DEF protocol, fund
<1>11. onInput => taken = 0
  OBVIOUS
<1>12. ~onInput => split = 0
  BY DEF split
<1> HIDE DEF taken
<1>13. split \in Nat
  BY <1>4, <1>5
<1> QED
  BY <1>2, <1>3, <1>4, <1>6, <1>7, <1>10, <1>11, <1>12, <1>13 DEF CurveKept

\* What a vault holds is the reserve and what is owed from it.
LEMMA ReserveIsRest ==
  ASSUME NEW i, NEW d, IsRay(i), PoolState(i, d), VaultAmountWithoutFee(d.vault, d.owed).ok,
         NEW s \in Side
  PROVE  /\ VaultAmountWithoutFee(d.vault, d.owed).reserve[s] = d.vault[s] - Owed(d.owed, s)
         /\ d.vault[s] - Owed(d.owed, s) \in Nat
         /\ d.vault[s] \in Nat /\ Owed(d.owed, s) \in Nat
<1>1. /\ d.vault[s] \in Nat
      /\ d.owed[s].protocol \in Nat /\ d.owed[s].fund \in Nat /\ d.owed[s].creator \in Nat
  BY DEF PoolState, U64
<1>2. \A t \in Side : Owed(d.owed, t) \in U64 /\ Owed(d.owed, t) <= d.vault[t]
  BY DEF VaultAmountWithoutFee, Refused
<1>3. VaultAmountWithoutFee(d.vault, d.owed).reserve[s] = d.vault[s] - Owed(d.owed, s)
  BY <1>2 DEF VaultAmountWithoutFee
<1>4. Owed(d.owed, s) \in Nat
  BY <1>1 DEF Owed
<1> QED
  BY <1>1, <1>2, <1>3, <1>4

\* The simulation of a swap that succeeds: the program's own checks on it and
\* what the curve says.
LEMMA SimulationKeeps ==
  ASSUME NEW i, NEW d, Described(i), IsRay(i), PoolState(i, d), RatesSound(i),
         NEW from \in Side, NEW amount \in Nat,
         NEW r, r = SimulateSwapBaseInput(i, d, from, amount), r.ok
  PROVE  LET to == Other(from)
             x == d.vault[from] - Owed(d.owed, from)
             y == d.vault[to] - Owed(d.owed, to)
             c == r.curve
         IN  /\ VaultAmountWithoutFee(d.vault, d.owed).ok
             /\ r.onInput \in BOOLEAN
             /\ r.actual \in Nat /\ r.received \in Nat
             /\ c.protocol \in Nat /\ c.fund \in Nat /\ c.creator \in Nat
             /\ c.newOut \in Nat /\ c.newIn \in Int /\ c.output \in U64
             /\ x + r.actual - c.protocol - c.fund - (IF r.onInput THEN c.creator ELSE 0) >= c.newIn
             /\ y - c.output - (IF r.onInput THEN 0 ELSE c.creator) = c.newOut
             /\ c.newIn * c.newOut >= x * y
             /\ d.vault[from] + r.actual \in U64
             /\ c.output <= d.vault[to]
             /\ r.actual <= amount /\ r.received <= c.output
<1> DEFINE to == Other(from)
           feeIn == GetTransferFee(i.transferFee[from], d.epoch, amount)
           actual == amount - feeIn
           without == VaultAmountWithoutFee(d.vault, d.owed)
           x == without.reserve[from]
           y == without.reserve[to]
           onInput == i.creatorFeeOn \in {"both", from}
           c == CurveSwapBaseInput(actual, x, y, RatesOf(i), onInput)
           feeOut == GetTransferFee(i.transferFee[to], d.epoch, c.output)
<1>1. /\ feeIn # Null /\ amount > feeIn /\ without.ok
      /\ c.ok /\ c.output \in U64 /\ feeOut # Null /\ feeOut < c.output
      /\ c.newIn * c.newOut >= x * y
      /\ Credited(d.vault[from], actual) /\ c.output <= d.vault[to]
      /\ r = [ok |-> TRUE, actual |-> actual, curve |-> c, received |-> c.output - feeOut,
              onInput |-> onInput]
  <2> DEFINE sendable == /\ amount \in U64 /\ feeIn # Null /\ amount > feeIn
                         /\ without.ok /\ i.creatorFeeOn \in CreatorFeeOn
             allowed == /\ x * y \in U128
                        /\ c.ok /\ c.newIn * c.newOut \in U128 /\ c.output \in U64
                        /\ feeOut # Null /\ feeOut < c.output
                        /\ {c.protocol, c.fund, c.creator} \subseteq U64
                        /\ c.newIn * c.newOut >= x * y
                        /\ Credited(d.vault[from], actual)
                        /\ c.output <= d.vault[to]
             result == [ok |-> TRUE, actual |-> actual, curve |-> c,
                        received |-> c.output - feeOut, onInput |-> onInput]
  <2>1. r = IF sendable THEN IF allowed THEN result ELSE Refused ELSE Refused
    BY Zenon DEF SimulateSwapBaseInput
  <2>2. sendable /\ allowed /\ r = result
    <3> HIDE DEF sendable, allowed, result
    <3> QED
      BY <2>1 DEF Refused
  <2> QED
    BY <2>2, Zenon
<1>2. /\ r.actual = actual /\ r.curve = c /\ r.received = c.output - feeOut
      /\ r.onInput = onInput
  <2> HIDE DEF actual, c, feeOut, onInput
  <2> QED
    BY <1>1
<1>3. /\ to \in Side
      /\ i.transferFee[from] \in TransferFeeConfig /\ i.transferFee[to] \in TransferFeeConfig
      /\ d.epoch \in Nat
  BY DEF Described, Other, Side, PoolState
<1>4. feeIn \in Nat
  BY <1>1, <1>3, TransferFeeIsNatural
<1>5. actual \in Nat /\ actual <= amount
  <2> HIDE DEF feeIn
  <2> QED
    BY <1>1, <1>4
<1>6. /\ x = d.vault[from] - Owed(d.owed, from) /\ x \in Nat
      /\ y = d.vault[to] - Owed(d.owed, to) /\ y \in Nat
  <2> HIDE DEF to
  <2> QED
    BY <1>1, <1>3, ReserveIsRest
<1>7. RatesOf(i) \in Rates /\ RatesOf(i).protocol + RatesOf(i).fund <= FeeRateDenominator
  <2>1. i.rates \in Rates
    BY DEF Described, Rates
  <2>2. /\ RatesOf(i) \in Rates
        /\ RatesOf(i).protocol = i.rates.protocol /\ RatesOf(i).fund = i.rates.fund
    BY <2>1 DEF RatesOf, Rates
  <2> QED
    BY <2>2 DEF RatesSound
<1> HIDE DEF to, actual, x, y
<1>8. onInput \in BOOLEAN
  OBVIOUS
<1> HIDE DEF onInput
<1>9. /\ {c.protocol, c.fund, c.creator, c.newOut} \subseteq Nat
      /\ c.output \in Int /\ c.newIn \in Int
      /\ x + actual - c.protocol - c.fund - (IF onInput THEN c.creator ELSE 0) >= c.newIn
      /\ y - c.output - (IF onInput THEN 0 ELSE c.creator) = c.newOut
  <2>0. c.ok
    BY <1>1
  <2>1. c = CurveSwapBaseInput(actual, x, y, RatesOf(i), onInput)
    OBVIOUS
  <2> DEFINE rates == RatesOf(i)
  <2>2. x \in Nat /\ y \in Nat
    BY <1>6
  <2>3. rates \in Rates /\ rates.protocol + rates.fund <= FeeRateDenominator
    BY <1>7
  <2>4. c = CurveSwapBaseInput(actual, x, y, rates, onInput)
    BY <2>1
  <2> HIDE DEF c, rates
  <2>5. CurveKept(actual, x, y, onInput, c)
    BY <2>0, <1>5, <1>8, <2>2, <2>3, <2>4, CurveKeeps
  <2> QED
    BY <2>5 DEF CurveKept
<1> HIDE DEF c
<1>10. feeOut \in Nat
  <2>1. c.output \in Nat
    BY <1>1, FeeAssumption DEF U64
  <2> QED
    BY <1>1, <1>3, <2>1, TransferFeeIsNatural
<1> HIDE DEF feeOut
<1>11. r.received \in Nat /\ r.received <= c.output
  BY <1>1, <1>2, <1>9, <1>10
<1>12. /\ r.actual <= amount
       /\ VaultAmountWithoutFee(d.vault, d.owed).ok /\ r.onInput \in BOOLEAN /\ r.actual \in Nat
       /\ d.vault[from] + r.actual \in U64 /\ c.output <= d.vault[to] /\ c.output \in U64
  BY <1>1, <1>2, <1>5, <1>8 DEF Credited
<1>13. /\ c.protocol \in Nat /\ c.fund \in Nat /\ c.creator \in Nat /\ c.newOut \in Nat
  BY <1>9
<1>14. c.newIn * c.newOut >= (d.vault[from] - Owed(d.owed, from)) * (d.vault[to] - Owed(d.owed, to))
  BY <1>1, <1>6
<1> QED
  BY <1>2, <1>6, <1>9, <1>11, <1>12, <1>13, <1>14 DEF to

\* What a swap does to the reserves a pool prices with: none grows by more
\* than was given, none shrinks by less than was received.
Backed(i, d, next, from, given, got) ==
  /\ \A s \in Side : PricedReserve(i, d, s) \in Nat \ {0} /\ PricedReserve(i, next, s) \in Nat
  /\ PricedReserve(i, next, from) <= PricedReserve(i, d, from) + given
  /\ PricedReserve(i, next, Other(from)) <= PricedReserve(i, d, Other(from)) - got
  /\ Priced(i, next) >= Priced(i, d)

\* A swap that a Raydium adapter quotes and applies: the state stays one, and
\* the product of the reserves does not fall.
LEMMA RaySwapKeeps ==
  ASSUME NEW i, NEW d, Described(i), IsRay(i), PoolState(i, d), RayValid(i, d),
         NEW from \in Side, NEW amount \in Nat,
         NEW q, q = RayQuote(i, d, from, amount), q.ok,
         NEW n, n = RayApply(i, d, q), n.ok
  PROVE  /\ q.amountIn = amount /\ q.out \in Int
         /\ PoolState(i, n.pool)
         /\ Backed(i, d, n.pool, from, amount, q.out)
<1> DEFINE to == Other(from)
           r == SimulateSwapBaseInput(i, d, from, amount)
           c == r.curve
           vault == [d.vault EXCEPT ![from] = @ + r.actual, ![to] = @ - c.output]
           owed == ApplyFeeUpdate(d.owed, from, r.onInput, c)
           x == d.vault[from] - Owed(d.owed, from)
           y == d.vault[to] - Owed(d.owed, to)
<1>1. r.ok /\ q.from = from /\ q.amountIn = amount /\ q.out = r.received
  <2>1. q = IF RayGate(i, d) /\ r.ok
            THEN [ok |-> TRUE, from |-> from, amountIn |-> amount, out |-> r.received,
                  inDelta |-> r.actual, outDelta |-> c.output, hash |-> d.hash]
            ELSE Refused
    BY DEF RayQuote
  <2> HIDE DEF r
  <2> QED
    BY <2>1 DEF Refused
<1>2. /\ VaultAmountWithoutFee(vault, owed).ok
      /\ n.pool = [d EXCEPT !.vault = vault, !.owed = owed,
                            !.hash = Append(@, <<from, amount>>)]
  <2>1. n = IF /\ q.ok /\ q.hash = d.hash /\ r.ok
               /\ <<r.received, r.actual, c.output>> = <<q.out, q.inDelta, q.outDelta>>
               /\ VaultAmountWithoutFee(vault, owed).ok
            THEN [ok |-> TRUE,
                  pool |-> [d EXCEPT !.vault = vault, !.owed = owed,
                                     !.hash = Append(@, <<from, amount>>)]]
            ELSE Refused
    <3> HIDE DEF r
    <3>1. r = SimulateSwapBaseInput(i, d, q.from, q.amountIn)
      BY <1>1 DEF r
    <3> QED
      BY <1>1, <3>1 DEF RayApply
  <2> HIDE DEF r, vault, owed
  <2> QED
    BY <2>1 DEF Refused
<1>3. RatesSound(i)
  BY DEF RayValid
<1>4. /\ VaultAmountWithoutFee(d.vault, d.owed).ok
      /\ r.onInput \in BOOLEAN
      /\ r.actual \in Nat /\ r.received \in Nat
      /\ c.protocol \in Nat /\ c.fund \in Nat /\ c.creator \in Nat
      /\ c.newOut \in Nat /\ c.newIn \in Int /\ c.output \in U64
      /\ x + r.actual - c.protocol - c.fund - (IF r.onInput THEN c.creator ELSE 0) >= c.newIn
      /\ y - c.output - (IF r.onInput THEN 0 ELSE c.creator) = c.newOut
      /\ c.newIn * c.newOut >= x * y
      /\ d.vault[from] + r.actual \in U64
      /\ c.output <= d.vault[to]
      /\ r.actual <= amount /\ r.received <= c.output
  <2> HIDE DEF r
  <2>1. r = SimulateSwapBaseInput(i, d, from, amount)
    BY DEF r
  <2> QED
    BY <1>1, <1>3, <2>1, SimulationKeeps
<1> HIDE DEF r, c
<1>5. to \in Side /\ to # from /\ Side = {from, to}
  BY DEF Other, Side
<1> HIDE DEF to
<1>6. /\ d.vault \in [Side -> U64] /\ d.owed \in [Side -> [protocol : U64, fund : U64, creator : U64]]
      /\ DOMAIN d = {"vault", "owed", "epoch", "now", "hash"} /\ d.epoch \in Nat
  BY DEF PoolState
<1>7. \A s \in Side : /\ d.vault[s] \in Nat /\ d.vault[s] <= U64Max
                      /\ d.owed[s] \in [protocol : U64, fund : U64, creator : U64]
                      /\ d.owed[s].protocol \in Nat /\ d.owed[s].fund \in Nat
                      /\ d.owed[s].creator \in Nat
                      /\ Owed(d.owed, s) \in Nat
  <2> SUFFICES ASSUME NEW s \in Side
               PROVE  /\ d.vault[s] \in Nat /\ d.vault[s] <= U64Max
                      /\ d.owed[s] \in [protocol : U64, fund : U64, creator : U64]
                      /\ d.owed[s].protocol \in Nat /\ d.owed[s].fund \in Nat
                      /\ d.owed[s].creator \in Nat
                      /\ Owed(d.owed, s) \in Nat
    OBVIOUS
  <2>1. /\ d.vault[s] \in U64 /\ d.owed[s] \in [protocol : U64, fund : U64, creator : U64]
    BY <1>6
  <2> QED
    BY <2>1, FeeAssumption DEF U64, Owed
<1> DEFINE ownedIn == Owed(d.owed, from)
           ownedOut == Owed(d.owed, to)
<1>7a. /\ d.vault[from] \in Nat /\ d.vault[to] \in Nat
       /\ ownedIn = d.owed[from].protocol + d.owed[from].fund + d.owed[from].creator
       /\ ownedOut = d.owed[to].protocol + d.owed[to].fund + d.owed[to].creator
       /\ d.owed[from].protocol \in Nat /\ d.owed[from].fund \in Nat
       /\ d.owed[from].creator \in Nat
       /\ d.owed[to].protocol \in Nat /\ d.owed[to].fund \in Nat
       /\ d.owed[to].creator \in Nat
       /\ ownedIn \in Nat /\ ownedOut \in Nat
  BY <1>5, <1>7 DEF Owed
<1>8. /\ vault \in [Side -> U64]
      /\ vault[from] = d.vault[from] + r.actual /\ vault[to] = d.vault[to] - c.output
  <2>1. d.vault[to] - c.output \in U64
    BY <1>4, <1>5, <1>7, FeeAssumption DEF U64
  <2> QED
    BY <1>4, <1>5, <1>6, <2>1
<1>9. /\ owed \in [Side -> [protocol : Nat, fund : Nat, creator : Nat]]
      /\ Owed(owed, from) = Owed(d.owed, from) + c.protocol + c.fund
                              + (IF r.onInput THEN c.creator ELSE 0)
      /\ Owed(owed, to) = Owed(d.owed, to) + (IF r.onInput THEN 0 ELSE c.creator)
  <2> DEFINE Fees == [protocol : Nat, fund : Nat, creator : Nat]
             shared == [d.owed EXCEPT ![from].protocol = @ + c.protocol, ![from].fund = @ + c.fund]
             side == IF r.onInput THEN from ELSE to
  <2>1. d.owed \in [Side -> Fees]
    BY <1>6, <1>7, FeeAssumption DEF U64
  <2>2. /\ shared \in [Side -> Fees]
        /\ shared[from].protocol = d.owed[from].protocol + c.protocol
        /\ shared[from].fund = d.owed[from].fund + c.fund
        /\ shared[from].creator = d.owed[from].creator
        /\ shared[to] = d.owed[to]
    BY <1>4, <1>5, <1>7, <2>1
  <2>3. owed = [shared EXCEPT ![side].creator = @ + c.creator]
    BY DEF ApplyFeeUpdate, to
  <2> HIDE DEF shared, owed
  <2>4. CASE r.onInput
    <3>1. /\ owed \in [Side -> Fees]
          /\ owed[from].protocol = shared[from].protocol /\ owed[from].fund = shared[from].fund
          /\ owed[from].creator = shared[from].creator + c.creator
          /\ owed[to] = shared[to]
      BY <1>4, <1>5, <2>2, <2>3, <2>4
    <3> QED
      BY <1>4, <1>7a, <2>2, <2>4, <3>1 DEF Owed
  <2>5. CASE ~r.onInput
    <3>1. /\ owed \in [Side -> Fees]
          /\ owed[from] = shared[from]
          /\ owed[to].protocol = shared[to].protocol /\ owed[to].fund = shared[to].fund
          /\ owed[to].creator = shared[to].creator + c.creator
      BY <1>4, <1>5, <2>2, <2>3, <2>5
    <3>2. Owed(owed, from) = ownedIn + c.protocol + c.fund
      BY SMTT(30), <1>4, <1>7a, <2>2, <3>1 DEF Owed
    <3>3. Owed(owed, to) = ownedOut + c.creator
      BY <1>4, <1>7a, <2>2, <3>1 DEF Owed
    <3> HIDE DEF ownedIn, ownedOut
    <3>4. /\ Owed(owed, from) = ownedIn + c.protocol + c.fund + (IF r.onInput THEN c.creator ELSE 0)
          /\ Owed(owed, to) = ownedOut + (IF r.onInput THEN 0 ELSE c.creator)
      BY <1>4, <1>7a, <2>5, <3>2, <3>3
    <3> QED
      BY <3>1, <3>4 DEF ownedIn, ownedOut
  <2> QED
    BY <1>4, <2>4, <2>5
<1> HIDE DEF vault, owed
<1>10. \A s \in Side : /\ Owed(owed, s) \in U64
                       /\ VaultAmountWithoutFee(vault, owed).reserve[s] = vault[s] - Owed(owed, s)
                       /\ VaultAmountWithoutFee(d.vault, d.owed).reserve[s] = d.vault[s] - Owed(d.owed, s)
  BY <1>2, <1>4 DEF VaultAmountWithoutFee, Refused
<1>11. owed \in [Side -> [protocol : U64, fund : U64, creator : U64]]
  <2> SUFFICES ASSUME NEW s \in Side
               PROVE  owed[s] \in [protocol : U64, fund : U64, creator : U64]
    BY <1>9
  <2>1. /\ owed[s] \in [protocol : Nat, fund : Nat, creator : Nat]
        /\ owed[s].protocol + owed[s].fund + owed[s].creator \in U64
    BY <1>9, <1>10 DEF Owed
  <2>2. /\ owed[s].protocol \in U64 /\ owed[s].fund \in U64 /\ owed[s].creator \in U64
    BY <2>1, FeeAssumption DEF U64
  <2> QED
    BY <2>1, <2>2
<1>12. /\ n.pool.vault = vault /\ n.pool.owed = owed /\ n.pool.epoch = d.epoch
       /\ DOMAIN n.pool = {"vault", "owed", "epoch", "now", "hash"}
  BY <1>2, <1>6
<1>13. PoolState(i, n.pool)
  BY <1>6, <1>8, <1>11, <1>12 DEF PoolState
<1> DEFINE xx == vault[from] - Owed(owed, from)
           yy == vault[to] - Owed(owed, to)
<1>13a. /\ xx \in Int /\ xx >= c.newIn /\ yy = c.newOut
        /\ x \in Int /\ y \in Int
        /\ xx <= x + amount /\ yy <= y - r.received
  <2> DEFINE owing == Owed(owed, from)
             owingOut == Owed(owed, to)
             creatorIn == IF r.onInput THEN c.creator ELSE 0
             creatorOut == IF r.onInput THEN 0 ELSE c.creator
  <2>1. /\ owing = ownedIn + c.protocol + c.fund + creatorIn
        /\ owingOut = ownedOut + creatorOut
    BY <1>9
  <2>2. /\ vault[from] = d.vault[from] + r.actual /\ vault[to] = d.vault[to] - c.output
    BY <1>8
  <2>3. /\ xx = vault[from] - owing /\ yy = vault[to] - owingOut
        /\ x = d.vault[from] - ownedIn /\ y = d.vault[to] - ownedOut
    OBVIOUS
  <2>4. /\ x + r.actual - c.protocol - c.fund - creatorIn >= c.newIn
        /\ y - c.output - creatorOut = c.newOut
    BY <1>4
  <2>5. c.output \in Nat
    BY <1>4, FeeAssumption DEF U64
  <2>6. /\ creatorIn \in Nat /\ creatorOut \in Nat
        /\ r.actual \in Nat /\ c.protocol \in Nat /\ c.fund \in Nat
        /\ c.newOut \in Nat /\ c.newIn \in Int
        /\ r.actual <= amount /\ r.received <= c.output /\ r.received \in Int
    BY <1>4
  <2> HIDE DEF owing, owingOut, creatorIn, creatorOut, xx, yy, x, y, ownedIn, ownedOut
  <2> QED
    BY <1>7a, <2>1, <2>2, <2>3, <2>4, <2>5, <2>6
<1>14. xx * yy >= x * y
  <2>1. xx \in Int /\ xx >= c.newIn /\ yy = c.newOut
    BY <1>13a
  <2>2. xx * c.newOut >= c.newIn * c.newOut
    BY <1>4, <2>1, Monotone
  <2>3. xx * c.newOut \in Int /\ c.newIn * c.newOut \in Int /\ x * y \in Int
    BY <1>4, <1>13a
  <2> HIDE DEF xx, yy, x, y
  <2> QED
    BY <1>4, <2>1, <2>2, <2>3
<1>15. /\ PricedReserve(i, n.pool, from) = xx /\ PricedReserve(i, n.pool, to) = yy
       /\ PricedReserve(i, d, from) = x /\ PricedReserve(i, d, to) = y
  BY <1>5, <1>10, <1>12 DEF PricedReserve, Reserve
<1>16. xx \in Nat /\ yy \in Nat /\ x \in Nat \ {0} /\ y \in Nat \ {0}
  <2>1. \A s \in Side : d.vault[s] - Owed(d.owed, s) \in Nat \ {0}
    <3>1. 0 \notin {VaultAmountWithoutFee(d.vault, d.owed).reserve[s] : s \in Side}
      BY DEF RayValid
    <3> QED
      BY <1>4, <1>10, <3>1, ReserveIsRest
  <2>2. \A s \in Side : vault[s] - Owed(owed, s) \in Nat
    BY <1>2, <1>12, <1>13, ReserveIsRest
  <2> QED
    BY <1>5, <2>1, <2>2
<1> HIDE DEF xx, yy, x, y
<1>17. Priced(i, n.pool) >= Priced(i, d)
  <2>1. CASE from = "wsol"
    <3>1. to = "token"
      BY <2>1 DEF to, Other
    <3> QED
      BY <1>14, <1>15, <2>1, <3>1 DEF Priced
  <2>2. CASE from = "token"
    <3>1. to = "wsol" /\ xx * yy = yy * xx /\ x * y = y * x
      BY <1>16, <2>2, SMT DEF to, Other
    <3> QED
      BY <1>14, <1>15, <2>2, <3>1 DEF Priced
  <2> QED
    BY <2>1, <2>2 DEF Side
<1>18. Backed(i, d, n.pool, from, amount, q.out)
  <2>1. to = Other(from)
    BY DEF to
  <2> QED
    BY <1>1, <1>5, <1>13a, <1>15, <1>16, <1>17, <2>1 DEF Backed
<1> QED
  BY <1>1, <1>4, <1>13, <1>18

-----------------------------------------------------------------------------
(* A swap on a PumpSwap pool.                                              *)

\* What the curve gives leaves the product where it was or above.
LEMMA CurveOutputKeeps ==
  ASSUME NEW input \in Nat, NEW x \in Nat, NEW y \in Nat, x + input > 0,
         NEW o, o = CurveOutput(input, x, y)
  PROVE  o \in Nat /\ o <= y /\ (x + input) * (y - o) >= x * y
<1>1. x + input \in Nat \ {0} /\ y * input \in Nat
  BY ProductOfNaturals
<1>2. o = (y * input) \div (x + input)
  BY DEF CurveOutput
<1>3. o \in Nat /\ (x + input) * o <= y * input
  BY <1>1, <1>2, Quotient
<1>4. (x + input) * y = x * y + y * input /\ x * y \in Nat
  BY ProductOfNaturals, SMT
<1>5. o <= y
  <2>1. y * input <= (x + input) * y
    BY <1>1, <1>4
  <2> QED
    BY <1>1, <1>2, <2>1, QuotientBelow
<1>6. (x + input) * (y - o) = (x + input) * y - (x + input) * o
  BY <1>1, <1>3, SMT
<1>7. (x + input) * o \in Nat /\ (x + input) * y \in Nat
  BY <1>1, <1>3, ProductOfNaturals
<1> QED
  BY <1>1, <1>3, <1>4, <1>5, <1>6, <1>7

\* A fee of PumpSwap is rounded up.
LEMMA FeeIsNatural ==
  ASSUME NEW amount \in Nat, NEW bps \in Nat
  PROVE  FeeCeil(amount, bps) \in Nat
<1>1. amount * bps + BpsDenominator - 1 \in Nat
  BY ProductOfNaturals, BpsAssumption
<1> QED
  BY <1>1, Quotient, BpsAssumption DEF FeeCeil

\* The fees on an amount are a schedule's worth of amounts.
LEMMA FeesAreNatural ==
  ASSUME NEW amount \in Nat, NEW fees \in FeeSchedule
  PROVE  /\ FeesOn(amount, fees) \in FeeSchedule
         /\ FeesOn(amount, fees).lp \in Nat /\ Total(FeesOn(amount, fees)) \in Nat
         /\ FeesOn(amount, fees).lp <= Total(FeesOn(amount, fees))
<1>1. FeesOn(amount, fees) \in FeeSchedule
  <2>1. fees.lp \in Nat /\ fees.protocol \in Nat /\ fees.creator \in Nat
    BY DEF FeeSchedule
  <2>2. /\ FeeCeil(amount, fees.lp) \in Nat /\ FeeCeil(amount, fees.protocol) \in Nat
        /\ FeeCeil(amount, fees.creator) \in Nat
    BY <2>1, FeeIsNatural
  <2> QED
    BY <2>2 DEF FeesOn, FeeSchedule
<1> QED
  BY <1>1 DEF Total, FeeSchedule

\* The tier is one of the account's, whatever the market capitalisation.
LEMMA TierOfAccount ==
  ASSUME NEW tiers \in Seq([threshold : Nat, fees : FeeSchedule]), Len(tiers) > 0, NEW marketCap
  PROVE  CalculateFeeTier(tiers, marketCap) \in FeeSchedule
<1> DEFINE reached == {i \in DOMAIN tiers : tiers[i].threshold <= marketCap}
           greatest == CHOOSE i \in reached : \A j \in reached : j <= i
<1>1. /\ Len(tiers) \in Nat /\ DOMAIN tiers = 1..Len(tiers) /\ 1 \in DOMAIN tiers
      /\ \A i \in DOMAIN tiers : tiers[i].fees \in FeeSchedule
  <2> DEFINE tier == [threshold : Nat, fees : FeeSchedule]
  <2> HIDE DEF tier
  <2>1. tiers \in Seq(tier)
    BY DEF tier
  <2>2. /\ Len(tiers) \in Nat /\ DOMAIN tiers = 1..Len(tiers)
        /\ \A i \in DOMAIN tiers : tiers[i] \in tier
    BY <2>1
  <2>3. \A t \in tier : t.fees \in FeeSchedule
    BY DEF tier
  <2> QED
    BY <2>2, <2>3
<1>2. reached # {} => greatest \in DOMAIN tiers
  <2> SUFFICES ASSUME reached # {} PROVE greatest \in DOMAIN tiers
    OBVIOUS
  <2>1. reached \in SUBSET (1..Len(tiers)) /\ reached \subseteq DOMAIN tiers
    BY <1>1
  <2> HIDE DEF reached
  <2>2. \E i \in reached : \A j \in reached : j <= i
    BY <1>1, <2>1, HasGreatest
  <2>3. greatest \in reached
    BY <2>2
  <2> HIDE DEF greatest
  <2> QED
    BY <2>1, <2>3
<1>3. CalculateFeeTier(tiers, marketCap) =
        IF marketCap < tiers[1].threshold \/ reached = {} THEN tiers[1].fees
        ELSE tiers[greatest].fees
  BY DEF CalculateFeeTier
<1> HIDE DEF reached, greatest
<1> QED
  BY <1>1, <1>2, <1>3

\* The schedule of a pool, tiered or flat, with its creator's rate or without.
LEMMA ScheduleIsFees ==
  ASSUME NEW i, NEW s, Described(i), ~IsRay(i)
  PROVE  Schedule(i, s) \in FeeSchedule
<1> DEFINE base == IF i.canonical THEN CalculateFeeTier(i.tiers, PoolMarketCap(s, i.supply))
                                  ELSE i.flatFees
<1>1. /\ i.tiers \in Seq([threshold : Nat, fees : FeeSchedule]) /\ Len(i.tiers) > 0
      /\ i.flatFees \in FeeSchedule /\ i.creatorFeeBps \in Nat
  BY DEF Described
<1>2. base \in FeeSchedule
  BY <1>1, TierOfAccount
<1>3. Schedule(i, s) =
        [lp |-> base.lp, protocol |-> base.protocol,
         creator |-> IF i.hasCoinCreator
                     THEN IF i.creatorFeeConfigurable /\ i.creatorFeeBps > 0
                          THEN i.creatorFeeBps ELSE base.creator
                     ELSE 0]
  BY DEF Schedule, SelectFeeSchedule
<1> HIDE DEF base
<1> QED
  BY <1>1, <1>2, <1>3 DEF FeeSchedule

\* The transfer fee a quote assumes, none for a mint that charges none.
LEMMA WorstCaseIsNatural ==
  ASSUME NEW config \in TransferFeeConfig, NEW amount \in Nat
  PROVE  /\ TransferFeeAmountWorstCase(amount, config) \in Nat
         /\ ~config.charged => TransferFeeAmountWorstCase(amount, config) = 0
<1>1. CASE config.charged
  <2>1. config # NoFee
    BY <1>1 DEF NoFee
  <2>2. config.older \in TransferFeeTier /\ config.newer \in TransferFeeTier
    BY <2>1 DEF TransferFeeConfig
  <2>3. \A tier \in TransferFeeTier : TransferFeeAmount(amount, tier) \in Nat
    <3> TAKE tier \in TransferFeeTier
    <3>1. tier.bps \in Nat /\ tier.maxFee \in Nat
      BY DEF TransferFeeTier
    <3>2. amount * tier.bps + BpsDenominator - 1 \in Nat
      BY <3>1, ProductOfNaturals, BpsAssumption
    <3>3. (amount * tier.bps + BpsDenominator - 1) \div BpsDenominator \in Nat
      BY <3>2, Quotient, BpsAssumption
    <3> QED
      BY <3>1, <3>3 DEF TransferFeeAmount
  <2> QED
    BY <1>1, <2>2, <2>3 DEF TransferFeeAmountWorstCase
<1>2. CASE ~config.charged
  BY <1>2 DEF TransferFeeAmountWorstCase
<1> QED
  BY <1>1, <1>2

\* A purchase: one unit less than what is paid goes through the curve, and
\* the pool's own fee comes on top.
LEMMA BuyKeeps ==
  ASSUME NEW s, s.base \in Nat, s.quote \in Nat, s.virtual \in Int,
         NEW fees \in FeeSchedule, NEW budget \in Nat,
         NEW r, r = BuyQuoteInput(s, fees, budget), r.ok
  PROVE  /\ s.virtual \in Nat /\ EffectiveQuoteReserve(s) > 0 /\ s.base > 0
         /\ r.effective \in Nat /\ r.fees.lp \in Nat /\ r.total \in Nat
         /\ r.effective + r.fees.lp <= r.total
         /\ r.baseOut \in Nat /\ r.baseOut <= s.base
         /\ (EffectiveQuoteReserve(s) + r.effective + r.fees.lp) * (s.base - r.baseOut)
              >= EffectiveQuoteReserve(s) * s.base
<1> DEFINE floor == (budget * BpsDenominator) \div (BpsDenominator + Total(fees))
           f == FeesOn(floor, fees)
           excess == floor + Total(f) - budget
           effective == IF excess > 0 THEN floor - excess ELSE floor
           y == EffectiveQuoteReserve(s)
           baseOut == CurveOutput(effective - 1, y, s.base)
<1>1. /\ Priceable(s) /\ effective > 1
      /\ r.effective = effective /\ r.fees = f /\ r.total = effective + Total(f)
      /\ r.baseOut = baseOut
  <2>1. r = IF Priceable(s) /\ budget > 0 /\ effective > 1 /\ baseOut > 0
            THEN [ok |-> TRUE, effective |-> effective, fees |-> f,
                  total |-> effective + Total(f), baseOut |-> baseOut]
            ELSE NoTrade
    BY Zenon DEF BuyQuoteInput
  <2> HIDE DEF f, effective, baseOut
  <2> QED
    BY <2>1 DEF NoTrade
<1>2. floor \in Nat
  <2>1. Total(fees) \in Nat
    BY DEF Total, FeeSchedule
  <2>2. budget * BpsDenominator \in Nat /\ BpsDenominator + Total(fees) \in Nat \ {0}
    BY <2>1, ProductOfNaturals, BpsAssumption
  <2> QED
    BY <2>2, Quotient
<1> HIDE DEF floor
<1>3. f.lp \in Nat /\ Total(f) \in Nat /\ f.lp <= Total(f)
  BY <1>2, FeesAreNatural
<1> HIDE DEF f
<1>4. effective \in Nat /\ effective - 1 \in Nat
  BY <1>1, <1>2, <1>3
<1> HIDE DEF effective
<1>5. y \in Nat /\ y > 0 /\ s.virtual \in Nat /\ s.base > 0
  BY <1>1 DEF Priceable, EffectiveQuoteReserve
<1> HIDE DEF y
<1>6. /\ baseOut \in Nat /\ baseOut <= s.base
      /\ (y + (effective - 1)) * (s.base - baseOut) >= y * s.base
  <2>1. y + (effective - 1) > 0
    BY <1>4, <1>5
  <2> QED
    BY <1>4, <1>5, <2>1, CurveOutputKeeps
<1> HIDE DEF baseOut
<1>7. (y + effective + f.lp) * (s.base - baseOut) >= (y + (effective - 1)) * (s.base - baseOut)
  <2>1. s.base - baseOut \in Nat /\ y + effective + f.lp >= y + (effective - 1)
    BY <1>3, <1>4, <1>5, <1>6
  <2> QED
    BY <1>3, <1>4, <1>5, <2>1, Monotone
<1>8. /\ (y + effective + f.lp) * (s.base - baseOut) \in Int
      /\ (y + (effective - 1)) * (s.base - baseOut) \in Int /\ y * s.base \in Int
  BY <1>3, <1>4, <1>5, <1>6
<1>9. (y + effective + f.lp) * (s.base - baseOut) >= y * s.base
  BY <1>6, <1>7, <1>8
<1>10. effective + Total(f) \in Nat
  BY <1>3, <1>4
<1>11. effective + f.lp <= effective + Total(f)
  BY <1>3, <1>4
<1> QED
  BY <1>1, <1>3, <1>4, <1>5, <1>6, <1>9, <1>10, <1>11 DEF y

\* A sale: what the curve gives is split into fees and the user's part, and
\* the pool's own fee stays.
LEMMA SellKeeps ==
  ASSUME NEW s, s.base \in Nat, s.quote \in Nat, s.virtual \in Int,
         NEW fees \in FeeSchedule, NEW amount \in Nat,
         NEW r, r = SellBaseInput(s, fees, amount), r.ok
  PROVE  /\ s.virtual \in Nat /\ EffectiveQuoteReserve(s) > 0 /\ s.base > 0
         /\ r.quoteOut \in Nat /\ r.fees.lp \in Nat /\ r.userQuoteOut \in Nat
         /\ r.userQuoteOut <= r.quoteOut - r.fees.lp
         /\ (EffectiveQuoteReserve(s) - r.quoteOut + r.fees.lp) * (s.base + amount)
              >= EffectiveQuoteReserve(s) * s.base
<1> DEFINE y == EffectiveQuoteReserve(s)
           out == CurveOutput(amount, s.base, y)
           f == FeesOn(out, fees)
<1>1. /\ Priceable(s) /\ out > Total(f)
      /\ r.quoteOut = out /\ r.fees = f /\ r.userQuoteOut = out - Total(f)
  <2>1. r = IF Priceable(s) /\ amount > 0 /\ PaidByVault(s, out - f.lp) /\ out > Total(f)
            THEN [ok |-> TRUE, quoteOut |-> out, fees |-> f, userQuoteOut |-> out - Total(f)]
            ELSE NoTrade
    BY Zenon DEF SellBaseInput
  <2> HIDE DEF f, out
  <2> QED
    BY <2>1 DEF NoTrade
<1>2. y \in Nat /\ y > 0 /\ s.virtual \in Nat /\ s.base > 0
  BY <1>1 DEF Priceable, EffectiveQuoteReserve
<1> HIDE DEF y
<1>3. out \in Nat /\ out <= y /\ (s.base + amount) * (y - out) >= s.base * y
  <2>1. s.base + amount > 0
    BY <1>2
  <2> QED
    BY <1>2, <2>1, CurveOutputKeeps
<1> HIDE DEF out
<1>4. f.lp \in Nat /\ Total(f) \in Nat /\ f.lp <= Total(f)
  BY <1>3, FeesAreNatural
<1> HIDE DEF f
<1>5. (y - out + f.lp) * (s.base + amount) >= (y - out) * (s.base + amount)
  <2>1. y - out + f.lp >= y - out /\ s.base + amount \in Nat
    BY <1>2, <1>3, <1>4
  <2> QED
    BY <1>2, <1>3, <1>4, <2>1, Monotone
<1>6. (y - out) * (s.base + amount) = (s.base + amount) * (y - out) /\ s.base * y = y * s.base
  BY <1>2, <1>3, SMT
<1>7. /\ (y - out + f.lp) * (s.base + amount) \in Int
      /\ (s.base + amount) * (y - out) \in Int /\ s.base * y \in Int
  BY <1>2, <1>3, <1>4
<1>8. (y - out + f.lp) * (s.base + amount) >= y * s.base
  BY <1>3, <1>5, <1>6, <1>7
<1>9. out - Total(f) \in Nat /\ out - Total(f) <= out - f.lp
  BY <1>1, <1>3, <1>4
<1> QED
  BY <1>1, <1>2, <1>3, <1>4, <1>8, <1>9 DEF y

\* A swap that PumpSwap's adapter quotes and applies: the state stays one, and
\* the product it prices with does not fall unless the mint charges a fee.
LEMMA PumpSwapKeeps ==
  ASSUME NEW i, NEW d, Described(i), ~IsRay(i), PoolState(i, d),
         NEW from \in Side, NEW amount \in Nat,
         NEW q, q = PumpQuote(i, d, from, amount), q.ok,
         NEW n, n = PumpApply(i, d, q), n.ok, TokenProgramAccepts(i, n.pool)
  PROVE  /\ q.amountIn \in Int /\ q.out \in Int
         /\ PoolState(i, n.pool)
         /\ ~i.transferFee["token"].charged => Backed(i, d, n.pool, from, q.amountIn, q.out)
<1> DEFINE s == PumpState(i, d)
           fees == Schedule(i, s)
           config == i.transferFee["token"]
           y == EffectiveQuoteReserve(s)
           vault == [d.vault EXCEPT ![q.from] = @ + q.inDelta, ![Other(q.from)] = @ - q.outDelta]
<1>1. /\ d.vault \in [Side -> Nat] /\ DOMAIN d = {"vault", "owed", "epoch", "now", "hash"}
      /\ d.owed \in [Side -> [protocol : U64, fund : U64, creator : U64]] /\ d.epoch \in Nat
      /\ i.virtual \in Int /\ config \in TransferFeeConfig /\ fees \in FeeSchedule
  <2>1. d.vault \in [Side -> U64] /\ U64 \subseteq Nat
    BY FeeAssumption DEF PoolState, U64
  <2>2. d.vault \in [Side -> Nat]
    BY <2>1
  <2> QED
    BY <2>2, ScheduleIsFees DEF PoolState, Described, Side
<1>2. /\ d.vault["wsol"] \in Nat /\ d.vault["token"] \in Nat
      /\ s.base = d.vault["token"] /\ s.quote = d.vault["wsol"] /\ s.virtual = i.virtual
      /\ s.base \in Nat /\ s.quote \in Nat /\ s.virtual \in Int
      /\ y = d.vault["wsol"] + i.virtual
  BY <1>1 DEF PumpState, Side, EffectiveQuoteReserve
<1>3. /\ n.pool = [d EXCEPT !.vault = vault, !.hash = Append(@, <<q.from, q.amountIn>>)]
      /\ \A t \in Side : vault[t] >= 0
  <2>1. n = IF q.ok /\ q.hash[1] = d.hash[1] /\ \A t \in Side : vault[t] >= 0
            THEN [ok |-> TRUE,
                  pool |-> [d EXCEPT !.vault = vault, !.hash = Append(@, <<q.from, q.amountIn>>)]]
            ELSE Refused
    BY DEF PumpApply
  <2> HIDE DEF vault
  <2> QED
    BY <2>1 DEF Refused
<1>4. /\ n.pool.vault = vault /\ n.pool.owed = d.owed /\ n.pool.epoch = d.epoch
      /\ DOMAIN n.pool = {"vault", "owed", "epoch", "now", "hash"}
  <2> HIDE DEF vault
  <2> QED
    BY <1>1, <1>3
<1> DEFINE Vaults(given, got) ==
             /\ i.virtual \in Nat /\ y > 0 /\ s.base > 0
             /\ (vault["wsol"] + i.virtual) * vault["token"] >= y * s.base
             /\ IF from = "wsol"
                THEN /\ vault["wsol"] + i.virtual <= y + given
                     /\ vault["token"] <= s.base - got
                ELSE /\ vault["token"] <= s.base + given
                     /\ vault["wsol"] + i.virtual <= y - got
<1>5. SUFFICES /\ q.amountIn \in Int /\ q.out \in Int /\ q.inDelta \in Int /\ q.outDelta \in Int
               /\ q.from \in Side
               /\ ~config.charged => Vaults(q.amountIn, q.out)
  <2> SUFFICES ASSUME q.inDelta \in Int, q.outDelta \in Int, q.from \in Side
               PROVE  /\ PoolState(i, n.pool)
                      /\ Vaults(q.amountIn, q.out) => Backed(i, d, n.pool, from, q.amountIn, q.out)
    <3> HIDE DEF Vaults
    <3> QED
      OBVIOUS
  <2>1. vault \in [Side -> U64]
    <3>1. Other(q.from) \in Side
      BY DEF Other, Side
    <3>2. vault \in [Side -> Int]
      BY <1>1, <3>1
    <3>3. \A t \in Side : vault[t] <= U64Max
      BY <1>4 DEF TokenProgramAccepts
    <3> HIDE DEF vault
    <3> QED
      BY <1>3, <3>2, <3>3, FeeAssumption DEF U64
  <2> HIDE DEF vault
  <2>2. PoolState(i, n.pool)
    BY <1>1, <1>4, <2>1 DEF PoolState
  <2>3. /\ PricedReserve(i, d, "wsol") = y /\ PricedReserve(i, d, "token") = s.base
        /\ PricedReserve(i, n.pool, "wsol") = vault["wsol"] + i.virtual
        /\ PricedReserve(i, n.pool, "token") = vault["token"]
    BY <1>2, <1>4 DEF PricedReserve, Reserve, EffectiveQuoteReserve, PumpState
  <2>4. vault["wsol"] \in Nat /\ vault["token"] \in Nat
    BY <2>1, FeeAssumption DEF Side, U64
  <2>5. ASSUME Vaults(q.amountIn, q.out)
        PROVE  Backed(i, d, n.pool, from, q.amountIn, q.out)
    <3>1. Priced(i, n.pool) >= Priced(i, d)
      BY <2>3, <2>5 DEF Priced
    <3>2. /\ y \in Nat \ {0} /\ s.base \in Nat \ {0} /\ vault["wsol"] + i.virtual \in Nat
      BY <1>2, <2>4, <2>5
    <3> HIDE DEF y, s
    <3>3. \A t \in Side : /\ PricedReserve(i, d, t) \in Nat \ {0}
                          /\ PricedReserve(i, n.pool, t) \in Nat
      BY <2>3, <2>4, <3>2 DEF Side
    <3>4. /\ PricedReserve(i, n.pool, from) <= PricedReserve(i, d, from) + q.amountIn
          /\ PricedReserve(i, n.pool, Other(from)) <= PricedReserve(i, d, Other(from)) - q.out
      <4>1. CASE from = "wsol"
        BY <2>3, <2>5, <4>1 DEF Other
      <4>2. CASE from = "token"
        BY <2>3, <2>5, <4>2 DEF Other
      <4> QED
        BY <4>1, <4>2 DEF Side
    <3> QED
      BY <3>1, <3>3, <3>4 DEF Backed
  <2> QED
    BY <2>2, <2>5
<1> HIDE DEF vault
<1>6. CASE from = "wsol"
  <2> DEFINE r == BuyQuoteInput(s, fees, amount)
             withheld == TransferFeeAmountWorstCase(r.baseOut, config)
  <2>1. /\ r.ok /\ q.from = "wsol" /\ q.amountIn = r.total /\ q.out = r.baseOut - withheld
        /\ q.inDelta = r.effective + r.fees.lp /\ q.outDelta = r.baseOut
    <3>1. q = PumpBuyQuote(i, d, amount)
      BY <1>6 DEF PumpQuote
    <3>2. q = IF s.base > 0 /\ "buy" \notin i.disabled /\ GateRejects(i) = {} /\ r.ok
              THEN [ok |-> TRUE, from |-> "wsol", amountIn |-> r.total,
                    out |-> r.baseOut - withheld,
                    inDelta |-> r.effective + r.fees.lp, outDelta |-> r.baseOut, hash |-> d.hash]
              ELSE Refused
      BY <3>1, Zenon DEF PumpBuyQuote
    <3> HIDE DEF r, withheld
    <3> QED
      BY <3>2 DEF Refused
  <2>2. /\ s.virtual \in Nat /\ y > 0 /\ s.base > 0
        /\ r.effective \in Nat /\ r.fees.lp \in Nat /\ r.total \in Nat
        /\ r.effective + r.fees.lp <= r.total
        /\ r.baseOut \in Nat /\ r.baseOut <= s.base
        /\ (y + r.effective + r.fees.lp) * (s.base - r.baseOut) >= y * s.base
    <3> HIDE DEF r, s, fees
    <3>1. r = BuyQuoteInput(s, fees, amount)
      BY DEF r
    <3> QED
      BY <1>1, <1>2, <2>1, <3>1, BuyKeeps
  <2> HIDE DEF r, s, fees
  <2>3. withheld \in Nat
    BY <1>1, <2>2, WorstCaseIsNatural
  <2>4. /\ vault["wsol"] = d.vault["wsol"] + (r.effective + r.fees.lp)
        /\ vault["token"] = d.vault["token"] - r.baseOut
    BY <1>1, <2>1 DEF vault, Other, Side
  <2>5. vault["wsol"] + i.virtual = y + r.effective + r.fees.lp
    <3> HIDE DEF y
    <3> QED
      BY <1>1, <1>2, <2>2, <2>4
  <2> HIDE DEF y, withheld
  <2>6. Vaults(q.amountIn, q.out)
    <3>1. /\ vault["wsol"] + i.virtual <= y + q.amountIn /\ vault["token"] <= s.base - q.out
      BY <1>2, <2>1, <2>2, <2>3, <2>4, <2>5
    <3>2. (vault["wsol"] + i.virtual) * vault["token"] >= y * s.base
      BY <1>2, <2>2, <2>4, <2>5
    <3> QED
      BY <1>2, <1>6, <2>2, <3>1, <3>2
  <2> HIDE DEF Vaults
  <2> QED
    BY <1>2, <1>6, <2>1, <2>2, <2>3, <2>6
<1>7. CASE from = "token"
  <2> DEFINE r == SellBaseInput(s, fees, amount)
             withheld == TransferFeeAmountWorstCase(amount, config)
  <2>1. /\ r.ok /\ q.from = "token" /\ q.amountIn = amount /\ q.out = r.userQuoteOut
        /\ q.inDelta = amount - withheld /\ q.outDelta = r.quoteOut - r.fees.lp
    <3>1. q = PumpSellQuote(i, d, amount)
      BY <1>7 DEF PumpQuote
    <3>2. q = IF s.base > 0 /\ "sell" \notin i.disabled /\ GateRejects(i) = {} /\ r.ok
              THEN [ok |-> TRUE, from |-> "token", amountIn |-> amount, out |-> r.userQuoteOut,
                    inDelta |-> amount - withheld,
                    outDelta |-> r.quoteOut - r.fees.lp, hash |-> d.hash]
              ELSE Refused
      BY <3>1, Zenon DEF PumpSellQuote
    <3> HIDE DEF r, withheld
    <3> QED
      BY <3>2 DEF Refused
  <2>2. /\ s.virtual \in Nat /\ y > 0 /\ s.base > 0
        /\ r.quoteOut \in Nat /\ r.fees.lp \in Nat /\ r.userQuoteOut \in Int
        /\ r.userQuoteOut <= r.quoteOut - r.fees.lp
        /\ (y - r.quoteOut + r.fees.lp) * (s.base + amount) >= y * s.base
    <3> HIDE DEF r, s, fees
    <3>1. r = SellBaseInput(s, fees, amount)
      BY DEF r
    <3> QED
      BY <1>1, <1>2, <2>1, <3>1, SellKeeps
  <2> HIDE DEF r, s, fees
  <2>3. withheld \in Nat /\ (~config.charged => withheld = 0)
    BY <1>1, WorstCaseIsNatural
  <2>4. /\ vault["token"] = d.vault["token"] + (amount - withheld)
        /\ vault["wsol"] = d.vault["wsol"] - (r.quoteOut - r.fees.lp)
    BY <1>1, <2>1 DEF vault, Other, Side
  <2>5. vault["wsol"] + i.virtual = y - r.quoteOut + r.fees.lp
    <3> HIDE DEF y
    <3> QED
      BY <1>1, <1>2, <2>2, <2>4
  <2> HIDE DEF y, withheld
  <2>6. ~config.charged => vault["token"] = s.base + amount
    BY <1>2, <2>3, <2>4
  <2>7. ~config.charged => Vaults(q.amountIn, q.out)
    <3> SUFFICES ASSUME ~config.charged PROVE Vaults(q.amountIn, q.out)
      OBVIOUS
    <3>1. /\ vault["token"] <= s.base + q.amountIn /\ vault["wsol"] + i.virtual <= y - q.out
      BY <1>2, <2>1, <2>2, <2>5, <2>6
    <3>2. (vault["wsol"] + i.virtual) * vault["token"] >= y * s.base
      BY <2>2, <2>5, <2>6
    <3>3. from # "wsol"
      BY <1>7
    <3> QED
      BY <1>2, <2>2, <3>1, <3>2, <3>3
  <2> HIDE DEF Vaults
  <2> QED
    BY <1>2, <1>7, <2>1, <2>2, <2>3, <2>7
<1> QED
  BY <1>6, <1>7 DEF Side

-----------------------------------------------------------------------------
(* The market.                                                             *)

\* What the traders of a pool have received of it, net, is covered: there was a
\* state of the pool with a product no larger from which its reserves grew by
\* what was given at most and shrank by what was received at least.
Covered(i, d, f) ==
    \/ \A s \in Side : f[s] = 0
    \/ \E before \in [Side -> Nat \ {0}] :
        /\ \A s \in Side : /\ PricedReserve(i, d, s) \in Nat
                           /\ PricedReserve(i, d, s) <= before[s] - f[s]
        /\ Priced(i, d) >= before["wsol"] * before["token"]

\* The state before the first trade serves for all that follow.
LEMMA CoveredStep ==
  ASSUME NEW i, NEW d, NEW next, NEW from \in Side, NEW given \in Int, NEW got \in Int,
         NEW f \in [Side -> Int], Covered(i, d, f), Backed(i, d, next, from, given, got)
  PROVE  Covered(i, next, [f EXCEPT ![from] = @ - given, ![Other(from)] = @ + got])
<1> DEFINE g == [f EXCEPT ![from] = @ - given, ![Other(from)] = @ + got]
           reserve == [s \in Side |-> PricedReserve(i, d, s)]
<1>1. /\ Other(from) \in Side /\ Other(from) # from /\ Side = {from, Other(from)}
  BY DEF Other, Side
<1>2. /\ g[from] = f[from] - given /\ g[Other(from)] = f[Other(from)] + got
      /\ f[from] \in Int /\ f[Other(from)] \in Int
  BY <1>1
<1>3. /\ \A s \in Side : PricedReserve(i, d, s) \in Nat \ {0} /\ PricedReserve(i, next, s) \in Nat
      /\ PricedReserve(i, next, from) <= PricedReserve(i, d, from) + given
      /\ PricedReserve(i, next, Other(from)) <= PricedReserve(i, d, Other(from)) - got
      /\ Priced(i, next) >= Priced(i, d)
  BY DEF Backed
<1>4. PICK before \in [Side -> Nat \ {0}] :
        /\ \A s \in Side : PricedReserve(i, d, s) <= before[s] - f[s]
        /\ Priced(i, d) >= before["wsol"] * before["token"]
  <2>1. CASE \A s \in Side : f[s] = 0
    <3>1. reserve \in [Side -> Nat \ {0}] /\ \A s \in Side : reserve[s] = PricedReserve(i, d, s)
      BY <1>3
    <3>2. \A s \in Side : PricedReserve(i, d, s) <= reserve[s] - f[s]
      BY <1>3, <2>1, <3>1
    <3>3. Priced(i, d) = reserve["wsol"] * reserve["token"] /\ Priced(i, d) \in Int
      BY <1>3, <3>1 DEF Priced, Side
    <3> HIDE DEF reserve
    <3> QED
      BY <3>1, <3>2, <3>3
  <2> QED
    BY <2>1 DEF Covered
<1>5. Priced(i, next) \in Int /\ Priced(i, d) \in Int /\ before["wsol"] * before["token"] \in Int
  BY <1>3 DEF Priced, Side
<1>6. Priced(i, next) >= before["wsol"] * before["token"]
  BY <1>3, <1>4, <1>5
<1> HIDE DEF g
<1>7. \A s \in Side : PricedReserve(i, next, s) <= before[s] - g[s]
  <2>1. PricedReserve(i, next, from) <= before[from] - g[from]
    BY <1>1, <1>2, <1>3, <1>4
  <2>2. PricedReserve(i, next, Other(from)) <= before[Other(from)] - g[Other(from)]
    BY <1>1, <1>2, <1>3, <1>4
  <2> QED
    BY <1>1, <2>1, <2>2
<1> QED
  BY <1>3, <1>6, <1>7 DEF Covered, g

\* A product that did not fall leaves nothing for whoever gave nothing.
LEMMA CoveredPays ==
  ASSUME NEW i, NEW d, NEW f \in [Side -> Int], Covered(i, d, f), \A s \in Side : f[s] >= 0
  PROVE  \A s \in Side : f[s] = 0
<1> SUFFICES ASSUME ~\A s \in Side : f[s] = 0 PROVE FALSE
  OBVIOUS
<1>1. PICK before \in [Side -> Nat \ {0}] :
        /\ \A s \in Side : /\ PricedReserve(i, d, s) \in Nat
                           /\ PricedReserve(i, d, s) <= before[s] - f[s]
        /\ Priced(i, d) >= before["wsol"] * before["token"]
  BY DEF Covered
<1> DEFINE x == before["wsol"]
           y == before["token"]
           e == PricedReserve(i, d, "wsol")
           b == PricedReserve(i, d, "token")
<1>2. /\ x \in Nat \ {0} /\ y \in Nat \ {0} /\ e \in Nat /\ b \in Nat
      /\ e <= x - f["wsol"] /\ b <= y - f["token"] /\ e * b >= x * y
      /\ f["wsol"] \in Nat /\ f["token"] \in Nat
      /\ f["wsol"] # 0 \/ f["token"] # 0
  BY <1>1 DEF Side, Priced
<1> HIDE DEF x, y, e, b
<1>3. e <= x /\ b <= y /\ (e <= x - 1 \/ b <= y - 1)
  BY <1>2
<1>4. x * b >= e * b
  BY <1>2, <1>3, Monotone
<1>5. y * x >= b * x
  BY <1>2, <1>3, Monotone
<1>6. x * b = b * x /\ x * y = y * x /\ x * b \in Int /\ e * b \in Int /\ x * y \in Int
  BY <1>2, SMT
<1>7. x * b = x * y /\ e * b = x * b
  BY <1>2, <1>4, <1>5, <1>6
<1>8. CASE b <= y - 1
  <2>1. (y - 1) * x >= b * x
    BY <1>2, <1>8, Monotone
  <2>2. (y - 1) * x = y * x - x
    BY <1>2, SMT
  <2> QED
    BY <1>2, <1>6, <1>7, <2>1, <2>2
<1>9. CASE e <= x - 1
  <2>1. (x - 1) * b >= e * b
    BY <1>2, <1>9, Monotone
  <2>2. (x - 1) * b = x * b - b
    BY <1>2, SMT
  <2>3. b = 0
    BY <1>2, <1>6, <1>7, <2>1, <2>2
  <2>4. CASE b <= y - 1
    BY <1>8, <2>4
  <2> QED
    BY <1>2, <2>3, <2>4
<1> QED
  BY <1>3, <1>8, <1>9

\* The pools are states an adapter could have decoded; what was received and
\* given is a number, and covered.
Inv ==
    /\ DOMAIN pools = Pools /\ PoolsOK
    /\ flow \in [Pools -> [Side -> Int]]
    /\ \A p \in Pools : PricesWhatItGets(Info[p]) => Covered(Info[p], pools[p], flow[p])

\* A trade moves one pool by a swap that its adapter quoted and accepted.
LEMMA TradeKeeps ==
  ASSUME Inv, NEW p \in Pools, NEW from \in Side, NEW amount \in Nat, Trade(p, from, amount)
  PROVE  Inv' /\ NoneFalls
<1> DEFINE i == Info[p]
           d == pools[p]
<1>1. PICK q \in {QuoteExactIn(i, d, from, amount)} :
        q.ok /\ \E next \in {ApplySwap(i, d, q)} :
                  /\ next.ok /\ TokenProgramAccepts(i, next.pool)
                  /\ pools' = [pools EXCEPT ![p] = next.pool]
                  /\ flow' = [flow EXCEPT ![p][from] = @ - q.amountIn,
                                          ![p][Other(from)] = @ + q.out]
  BY DEF Trade
<1>2. PICK n \in {ApplySwap(i, d, q)} :
        /\ n.ok /\ TokenProgramAccepts(i, n.pool)
        /\ pools' = [pools EXCEPT ![p] = n.pool]
        /\ flow' = [flow EXCEPT ![p][from] = @ - q.amountIn, ![p][Other(from)] = @ + q.out]
  BY <1>1
<1>3. /\ DOMAIN pools = Pools /\ \A o \in Pools : PoolState(Info[o], pools[o])
      /\ flow \in [Pools -> [Side -> Int]]
      /\ \A o \in Pools : PricesWhatItGets(Info[o]) => Covered(Info[o], pools[o], flow[o])
  BY DEF Inv, PoolsOK
<1>4. /\ Described(i) /\ PoolState(i, d) /\ ValidatePool(i, d)
      /\ q = QuoteExactIn(i, d, from, amount) /\ q.ok /\ n = ApplySwap(i, d, q) /\ n.ok
      /\ TokenProgramAccepts(i, n.pool)
  BY <1>1, <1>2, <1>3, PoolsAssumption DEF Trade
<1>5. /\ q.amountIn \in Int /\ q.out \in Int /\ PoolState(i, n.pool)
      /\ PricesWhatItGets(i) => Backed(i, d, n.pool, from, q.amountIn, q.out)
  <2>1. CASE IsRay(i)
    <3>1. /\ q = RayQuote(i, d, from, amount) /\ n = RayApply(i, d, q) /\ RayValid(i, d)
      BY <1>4, <2>1 DEF QuoteExactIn, ApplySwap, ValidatePool
    <3>2. /\ q.amountIn = amount /\ q.out \in Int /\ PoolState(i, n.pool)
          /\ Backed(i, d, n.pool, from, amount, q.out)
      BY <1>4, <2>1, <3>1, RaySwapKeeps
    <3> QED
      BY <3>2
  <2>2. CASE ~IsRay(i)
    <3>1. /\ q = PumpQuote(i, d, from, amount) /\ n = PumpApply(i, d, q)
      BY <1>4, <2>2 DEF QuoteExactIn, ApplySwap
    <3>2. /\ q.amountIn \in Int /\ q.out \in Int /\ PoolState(i, n.pool)
          /\ ~i.transferFee["token"].charged =>
               Backed(i, d, n.pool, from, q.amountIn, q.out)
      BY <1>4, <2>2, <3>1, PumpSwapKeeps
    <3> QED
      BY <2>2, <3>2 DEF PricesWhatItGets
  <2> QED
    BY <2>1, <2>2
<1>6. flow' \in [Pools -> [Side -> Int]]
  <2>1. Other(from) \in Side
    BY DEF Other, Side
  <2>2. flow[p] \in [Side -> Int]
    BY <1>3
  <2>3. [flow[p] EXCEPT ![from] = @ - q.amountIn] \in [Side -> Int]
    BY <1>5, <2>2
  <2> QED
    BY <1>2, <1>3, <1>5, <2>1, <2>2, <2>3
<1>7. DOMAIN pools' = Pools /\ pools'[p] = n.pool /\ \A o \in Pools \ {p} : pools'[o] = pools[o]
  BY <1>2, <1>3
<1>8. \A o \in Pools : PoolState(Info[o], pools'[o])
  BY <1>3, <1>5, <1>7
<1>9. ASSUME NEW o \in Pools, PricesWhatItGets(Info[o])
      PROVE  Covered(Info[o], pools'[o], flow'[o])
  <2>1. CASE o = p
    <3>1. flow'[p] = [flow[p] EXCEPT ![from] = @ - q.amountIn, ![Other(from)] = @ + q.out]
      BY <1>2, <1>3
    <3>2. flow[p] \in [Side -> Int] /\ Covered(i, d, flow[p])
      BY <1>3, <1>9, <2>1
    <3>3. Backed(i, d, n.pool, from, q.amountIn, q.out)
      BY <1>5, <1>9, <2>1
    <3>4. Covered(i, n.pool, [flow[p] EXCEPT ![from] = @ - q.amountIn, ![Other(from)] = @ + q.out])
      <4> HIDE DEF i, d
      <4> QED
        BY <1>5, <3>2, <3>3, CoveredStep
    <3> QED
      BY <1>7, <2>1, <3>1, <3>4
  <2>2. CASE o # p
    <3>1. flow'[o] = flow[o]
      BY <1>2, <1>3, <2>2
    <3> QED
      BY <1>3, <1>7, <1>9, <2>2, <3>1
  <2> QED
    BY <2>1, <2>2
<1>10. Inv'
  BY <1>6, <1>7, <1>8, <1>9 DEF Inv, PoolsOK
<1>11. ASSUME NEW o \in Pools, pools'[o] # pools[o], PricesWhatItGets(Info[o])
       PROVE  Priced(Info[o], pools'[o]) >= Priced(Info[o], pools[o])
  <2>1. o = p
    BY <1>7, <1>11
  <2> QED
    BY <1>5, <1>7, <1>11, <2>1 DEF Backed
<1> QED
  BY <1>10, <1>11 DEF NoneFalls

\* Every step is a trade or leaves the pools alone.
LEMMA StepKeeps ==
  ASSUME Inv, [Next]_vars
  PROVE  Inv' /\ (UNCHANGED pools \/ NoneFalls)
<1>1. CASE UNCHANGED <<pools, flow>>
  BY <1>1 DEF Inv, PoolsOK
<1>2. CASE Interfere
  <2>0. PICK p \in Pools, from \in Side :
          \E amount \in Amounts \cup {flow[p][from]} : amount > 0 /\ Trade(p, from, amount)
    BY <1>2 DEF Interfere, SomeTrade
  <2>1. PICK amount \in Amounts \cup {flow[p][from]} : amount > 0 /\ Trade(p, from, amount)
    BY <2>0
  <2>2. flow[p][from] \in Int /\ Amounts \subseteq Nat
    BY MarketAssumption DEF Inv
  <2>3. amount \in Nat
    BY <2>1, <2>2
  <2> QED
    BY <2>1, <2>3, TradeKeeps
<1>3. CASE \E c \in [a : Pools, b : Pools] : Size(c)
  BY <1>1, <1>3 DEF Size
<1>4. CASE \E surprise \in Surprises : LocalProbe(surprise)
  BY <1>1, <1>4 DEF LocalProbe
<1>5. CASE Recover
  BY <1>1, <1>5, Zenon DEF Recover
<1>6. CASE Proceed
  BY <1>1, <1>6 DEF Proceed
<1> QED
  BY <1>1, <1>2, <1>3, <1>4, <1>5, <1>6 DEF Next, vars

\* Nobody has traded on a snapshot.
LEMMA InitKeeps == Init => Inv
<1> SUFFICES ASSUME Init PROVE Inv
  OBVIOUS
<1>1. /\ DOMAIN pools = Pools /\ PoolsOK
      /\ flow = [p \in Pools |-> [s \in Side |-> 0]]
  BY PoolsAssumption DEF Init, MarketInit, PoolsOK
<1>2. \A p \in Pools : Covered(Info[p], pools[p], flow[p])
  BY <1>1 DEF Covered
<1> QED
  BY <1>1, <1>2 DEF Inv

(***************************************************************************)
(* From snapshots of pools as the adapters decode them, whatever others    *)
(* trade: no vault falls below zero, and those of a Raydium pool hold what *)
(* a token account can.                                                    *)
(***************************************************************************)
THEOREM PoolsStayOK == Spec => []PoolsOK
<1>1. Init => Inv
  BY InitKeeps
<1>2. Inv /\ [Next]_vars => Inv'
  BY StepKeeps
<1>3. Inv => PoolsOK
  BY DEF Inv
<1> QED
  BY <1>1, <1>2, <1>3, PTL DEF Spec

(***************************************************************************)
(* Whoever trades on a pool, in whatever order and amounts, has given it   *)
(* something if it received something, unless the token withholds a fee    *)
(* from what PumpSwap is sent.                                             *)
(***************************************************************************)
THEOREM TradersPay == Spec => []NoPoolPaysForNothing
<1>1. Init => Inv
  BY InitKeeps
<1>2. Inv /\ [Next]_vars => Inv'
  BY StepKeeps
<1>3. Inv => NoPoolPaysForNothing
  <2> SUFFICES ASSUME Inv, NEW p \in Pools, PricesWhatItGets(Info[p]),
                      \A s \in Side : flow[p][s] >= 0
               PROVE  \A s \in Side : flow[p][s] = 0
    BY DEF Inv, NoPoolPaysForNothing
  <2>1. flow[p] \in [Side -> Int] /\ Covered(Info[p], pools[p], flow[p])
    BY DEF Inv
  <2> QED
    BY <2>1, CoveredPays
<1> QED
  BY <1>1, <1>2, <1>3, PTL DEF Spec

(***************************************************************************)
(* A swap on either exchange never lowers the product the pool prices      *)
(* with, unless the token withholds a fee from what PumpSwap is sent: the  *)
(* roundings of the curve, of the fees and of their shares are all for the *)
(* pool, for any reserves, rates, widths and amounts.                      *)
(***************************************************************************)
THEOREM ConstantHolds == Spec => ConstantNeverFalls
<1>1. Init => Inv
  BY InitKeeps
<1>2. Inv /\ [Next]_vars => Inv'
  BY StepKeeps
<1>3. Inv /\ [Next]_vars => [NoneFalls]_pools
  BY StepKeeps
<1> QED
  BY <1>1, <1>2, <1>3, PTL DEF Spec, ConstantNeverFalls

-----------------------------------------------------------------------------
(* The deposits.                                                           *)

\* The lamports of at most two accounts, whatever the order they are added in.
LEMMA LamportsOfTwo ==
  ASSUME NEW S, NEW a, NEW b, S \subseteq {a, b}, a # b, a.lamports \in Nat, b.lamports \in Nat
  PROVE  LamportsOf(S) \in Nat
<1> DEFINE Step(it, s) == IF s = {} THEN 0
                          ELSE (CHOOSE x \in s : TRUE).lamports
                               + it[s \ {CHOOSE x \in s : TRUE}]
           sum == CHOOSE it : it = [s \in SUBSET S |-> Step(it, s)]
           Of(x, s) == IF x \in s THEN x.lamports ELSE 0
           both == [s \in SUBSET S |-> Of(a, s) + Of(b, s)]
<1>1. LamportsOf(S) = sum[S]
  BY DEF LamportsOf, MapThenSumSet, MapThenFoldSet
<1>2. both = [s \in SUBSET S |-> Step(both, s)]
  <2>1. ASSUME NEW s \in SUBSET S PROVE both[s] = Step(both, s)
    <3>1. CASE s = {}
      BY <3>1
    <3>2. CASE s # {}
      <4> DEFINE x == CHOOSE x \in s : TRUE
                 rest == s \ {x}
      <4>1. x \in s /\ (x = a \/ x = b) /\ rest \in SUBSET S
        BY <3>2
      <4> HIDE DEF x
      <4>2. Of(x, s) = x.lamports /\ Of(x, rest) = 0
        BY <4>1
      <4>3. \A y \in {a, b} : y # x => Of(y, s) = Of(y, rest)
        OBVIOUS
      <4>4. both[s] = Of(a, s) + Of(b, s) /\ both[rest] = Of(a, rest) + Of(b, rest)
        BY <4>1
      <4>5. \A y \in {a, b} : Of(y, s) \in Nat /\ Of(y, rest) \in Nat
        OBVIOUS
      <4> HIDE DEF Of, both, rest
      <4>6. both[s] = x.lamports + both[rest]
        BY <4>1, <4>2, <4>3, <4>4, <4>5
      <4> QED
        BY <3>2, <4>6 DEF x, rest
    <3> QED
      BY <3>1, <3>2
  <2>2. both = [s \in SUBSET S |-> both[s]]
    OBVIOUS
  <2> HIDE DEF both, Step
  <2>3. [s \in SUBSET S |-> both[s]] = [s \in SUBSET S |-> Step(both, s)]
    BY <2>1
  <2> QED
    BY <2>2, <2>3
<1>3. sum = [s \in SUBSET S |-> Step(sum, s)]
  <2> HIDE DEF both, Step
  <2> QED
    BY <1>2
<1> HIDE DEF sum
<1>4. \A s \in SUBSET S : sum[s] = Step(sum, s)
  <2> HIDE DEF Step
  <2> QED
    BY <1>3
<1>5. sum[{}] = 0
  BY <1>4
<1>6. \A y \in {a, b} : {y} \in SUBSET S => sum[{y}] = y.lamports + 0
  <2> SUFFICES ASSUME NEW y \in {a, b}, {y} \in SUBSET S PROVE sum[{y}] = y.lamports + 0
    OBVIOUS
  <2>1. (CHOOSE x \in {y} : TRUE) = y /\ {y} \ {y} = {}
    OBVIOUS
  <2> QED
    BY <1>4, <1>5, <2>1
<1>7. \A s \in SUBSET S : s # {} => sum[s] \in Nat
  <2> SUFFICES ASSUME NEW s \in SUBSET S, s # {} PROVE sum[s] \in Nat
    OBVIOUS
  <2> DEFINE x == CHOOSE x \in s : TRUE
  <2>1. x \in s /\ x.lamports \in Nat /\ (s \ {x} = {} \/ \E y \in {a, b} : s \ {x} = {y})
    OBVIOUS
  <2>2. sum[s \ {x}] \in Nat
    BY <1>5, <1>6, <2>1
  <2>3. sum[s] = x.lamports + sum[s \ {x}]
    BY <1>4
  <2> HIDE DEF x
  <2> QED
    BY <2>1, <2>2, <2>3
<1> HIDE DEF Step, Of, both
<1>8. S \in SUBSET S
  OBVIOUS
<1>9. sum[S] \in Nat
  BY <1>5, <1>7, <1>8
<1> QED
  BY <1>1, <1>9

\* What the exchanges may create for the user, and that each of it is looked for.
LEMMA DepositsAreLamports ==
  ASSUME NEW c
  PROVE  /\ CreatedAccounts(c) = Deposits(c)
         /\ LamportsOf(Deposits(c)) \in Nat
<1> DEFINE ata == [kind |-> "intermediate_ata", lamports |-> AtaRent]
           uva == [kind |-> "user_volume_accumulator", lamports |-> UvaRent]
<1>1. /\ ata.lamports \in Nat /\ uva.lamports \in Nat
      /\ ata.kind = "intermediate_ata" /\ uva.kind = "user_volume_accumulator"
  BY ProbeAssumption
<1>2. Deposits(c) \subseteq {ata, uva}
  BY DEF Deposits
<1>3. ata # uva
  BY <1>1
<1> HIDE DEF ata, uva
<1> QED
  BY <1>1, <1>2, <1>3, LamportsOfTwo DEF CreatedAccounts, DepositCandidates

-----------------------------------------------------------------------------
(* The grid.                                                               *)

\* A sequence that lists a set in ascending order.
Ascends(s, n, S) ==
  /\ s \in [1..n -> S]
  /\ \A k, m \in 1..n : k < m => s[k] < s[m]
  /\ \A x \in S : \E k \in 1..n : s[k] = x

\* A set whose members are below a bound, with a member above them all.
LEMMA AscendsOnce ==
  ASSUME NEW n \in Nat, NEW S \in SUBSET Int, NEW g \in S,
         \A x \in S \ {g} : x < g, NEW t, Ascends(t, n, S \ {g})
  PROVE  \E s : Ascends(s, n + 1, S)
<1> DEFINE s == [k \in 1..(n + 1) |-> IF k = n + 1 THEN g ELSE t[k]]
<1>1. /\ t \in [1..n -> S \ {g}]
      /\ \A k, m \in 1..n : k < m => t[k] < t[m]
      /\ \A x \in S \ {g} : \E k \in 1..n : t[k] = x
  BY DEF Ascends
<1>2. \A k \in 1..(n + 1) : k # n + 1 => k \in 1..n
  OBVIOUS
<1>3. s \in [1..(n + 1) -> S]
  BY <1>1, <1>2
<1>4. s[n + 1] = g /\ \A k \in 1..n : k \in 1..(n + 1) /\ s[k] = t[k]
  OBVIOUS
<1> HIDE DEF s
<1>5. ASSUME NEW k \in 1..(n + 1), NEW m \in 1..(n + 1), k < m PROVE s[k] < s[m]
  <2>1. k \in 1..n /\ s[k] = t[k] /\ t[k] \in S \ {g}
    BY <1>1, <1>2, <1>4, <1>5
  <2>2. CASE m = n + 1
    BY <1>4, <2>1, <2>2
  <2>3. CASE m # n + 1
    <3>1. m \in 1..n
      BY <1>2, <2>3
    <3> QED
      BY <1>1, <1>4, <1>5, <2>1, <3>1
  <2> QED
    BY <2>2, <2>3
<1>6. ASSUME NEW x \in S PROVE \E k \in 1..(n + 1) : s[k] = x
  <2>1. n + 1 \in 1..(n + 1)
    OBVIOUS
  <2>2. CASE x = g
    BY <1>4, <2>1, <2>2
  <2>3. CASE x # g
    BY <1>1, <1>4, <2>3
  <2> QED
    BY <2>2, <2>3
<1> QED
  BY <1>3, <1>5, <1>6 DEF Ascends

\* Every set of numbers up to a bound can be listed in ascending order.
LEMMA CanAscend ==
  ASSUME NEW b \in Nat, NEW S \in SUBSET (1..b)
  PROVE  \E s : Ascends(s, Cardinality(S), S)
<1> DEFINE Bad == {n \in Nat : \E T \in SUBSET (1..b) :
                                  Cardinality(T) = n /\ ~\E s : Ascends(s, n, T)}
<1>1. IsFiniteSet(1..b)
  BY FS_Interval
<1>2. \A T \in SUBSET (1..b) : IsFiniteSet(T) /\ Cardinality(T) \in Nat
  BY <1>1, FS_Subset, FS_CardinalityType
<1>3. SUFFICES ASSUME Bad # {} PROVE FALSE
  BY <1>2
<1>4. PICK n \in Bad : \A m \in Bad : n <= m
  <2>1. Bad \in SUBSET Nat
    OBVIOUS
  <2> HIDE DEF Bad
  <2> QED
    BY <1>3, <2>1, HasLeast
<1>5. PICK T \in SUBSET (1..b) : Cardinality(T) = n /\ ~\E s : Ascends(s, n, T)
  OBVIOUS
<1>6. n \in Nat /\ \A m \in Nat : m < n => m \notin Bad
  BY <1>4
<1>7. T # {}
  <2> SUFFICES ASSUME T = {} PROVE FALSE
    OBVIOUS
  <2>1. n = 0
    BY <1>5, FS_EmptySet
  <2>2. Ascends(<< >>, 0, T)
    BY DEF Ascends
  <2> QED
    BY <1>5, <2>1, <2>2
<1>8. PICK g \in T : \A x \in T : x <= g
  BY <1>7, HasGreatest
<1>9. T \ {g} \in SUBSET (1..b) /\ Cardinality(T \ {g}) = n - 1 /\ n - 1 \in Nat
  <2>1. IsFiniteSet(T)
    BY <1>2
  <2>2. Cardinality(T \ {g}) = Cardinality(T) - 1
    BY <2>1, FS_RemoveElement
  <2>3. Cardinality(T \ {g}) \in Nat
    BY <1>2
  <2> QED
    BY <1>5, <2>2, <2>3
<1>10. PICK t : Ascends(t, n - 1, T \ {g})
  BY <1>6, <1>9
<1>11. \E s : Ascends(s, (n - 1) + 1, T)
  <2>1. T \in SUBSET Int /\ \A x \in T \ {g} : x < g
    BY <1>8
  <2> QED
    BY <1>9, <1>10, <2>1, AscendsOnce
<1>12. (n - 1) + 1 = n
  BY <1>6
<1> QED
  BY <1>5, <1>11, <1>12

\* GridSizes lists the sizes of the grid within the cap, every one of them.
LEMMA GridIsListed ==
  /\ Cardinality(Sizes) \in Nat /\ DOMAIN GridSizes = 1..Cardinality(Sizes)
  /\ \A n \in 1..Cardinality(Sizes) : GridSizes[n] \in Sizes
  /\ \A g \in Sizes : \E n \in 1..Cardinality(Sizes) : GridSizes[n] = g
  /\ Sizes \subseteq 1..MaxCapital
<1> DEFINE N == Cardinality(Sizes)
<1>1. Sizes \in SUBSET (1..MaxCapital) /\ MaxCapital \in Nat
  <2>1. MaxCapital \in Nat /\ Grid \subseteq Int
    BY MarketAssumption
  <2>2. \A g \in Sizes : g \in Int /\ g > 0 /\ g <= MaxCapital
    BY <2>1 DEF Sizes
  <2>3. \A g \in Int : g > 0 /\ g <= MaxCapital => g \in 1..MaxCapital
    BY <2>1
  <2> QED
    BY <2>1, <2>2, <2>3
<1>2. IsFiniteSet(Sizes) /\ N \in Nat
  <2>1. IsFiniteSet(1..MaxCapital)
    BY <1>1, FS_Interval
  <2> QED
    BY <1>1, <2>1, FS_Subset, FS_CardinalityType
<1>3. PICK t : Ascends(t, N, Sizes)
  BY <1>1, CanAscend
<1> DEFINE Sorted(s) == \A m, n \in DOMAIN s : m < n => s[m] < s[n]
<1>4. t \in [1..N -> Sizes] /\ Sorted(t)
  BY <1>3 DEF Ascends
<1>5. GridSizes \in [1..N -> Sizes] /\ Sorted(GridSizes)
  <2>1. GridSizes = CHOOSE s \in [1..N -> Sizes] : Sorted(s)
    BY DEF GridSizes
  <2> HIDE DEF Sorted, N
  <2> QED
    BY <1>4, <2>1
<1>6. \A g \in Sizes : \E n \in 1..N : GridSizes[n] = g
  <2>1. \A m, n \in 1..N : m # n => GridSizes[m] # GridSizes[n]
    <3>1. \A n \in 1..N : GridSizes[n] \in Sizes
      BY <1>5
    <3>2. \A g \in Sizes : g \in Int
      BY <1>1
    <3>3. DOMAIN GridSizes = 1..N /\ \A n \in 1..N : n \in Int
      BY <1>5
    <3>4. \A m, n \in 1..N : m < n => GridSizes[m] < GridSizes[n]
      BY <1>5, <3>3
    <3> HIDE DEF N, Sorted
    <3> QED
      BY <3>1, <3>2, <3>3, <3>4
  <2>2. GridSizes \in Injection(1..N, Sizes)
    BY <1>5, <2>1 DEF Injection, IsInjective
  <2>3. IsFiniteSet(1..N) /\ Cardinality(1..N) = N
    BY <1>2, FS_Interval
  <2>4. GridSizes \in Surjection(1..N, Sizes)
    BY <1>2, <2>2, <2>3, FS_Injection
  <2> QED
    BY <2>4 DEF Surjection
<1> QED
  BY <1>1, <1>2, <1>5, <1>6

-----------------------------------------------------------------------------
(* A purchase: what its budget is split into.                              *)

Floor(fees, budget) == (budget * BpsDenominator) \div (BpsDenominator + Total(fees))

FeesOnFloor(fees, budget) == Total(FeesOn(Floor(fees, budget), fees))

\* What is traded, and what is paid for it with the fees.
OnCurve(fees, budget) ==
  IF Floor(fees, budget) + FeesOnFloor(fees, budget) > budget
  THEN budget - FeesOnFloor(fees, budget) ELSE Floor(fees, budget)

Paid(fees, budget) ==
  IF Floor(fees, budget) + FeesOnFloor(fees, budget) > budget
  THEN budget ELSE Floor(fees, budget) + FeesOnFloor(fees, budget)

Bought(s, traded) == CurveOutput(traded - 1, EffectiveQuoteReserve(s), s.base)

\* What is paid is what is traded and the fees on it, or the budget if less.
LEMMA PurchaseParts ==
  ASSUME NEW s, NEW fees \in FeeSchedule, NEW budget \in Nat
  PROVE  /\ Floor(fees, budget) \in Nat /\ FeesOnFloor(fees, budget) \in Nat
         /\ Total(fees) \in Nat
         /\ BuyQuoteInput(s, fees, budget).ok <=>
              /\ Priceable(s) /\ budget > 0 /\ OnCurve(fees, budget) > 1
              /\ Bought(s, OnCurve(fees, budget)) > 0
         /\ BuyQuoteInput(s, fees, budget).ok =>
              /\ BuyQuoteInput(s, fees, budget).baseOut = Bought(s, OnCurve(fees, budget))
              /\ BuyQuoteInput(s, fees, budget).total = Paid(fees, budget)
<1> DEFINE r == BuyQuoteInput(s, fees, budget)
           floor == Floor(fees, budget)
           f == FeesOnFloor(fees, budget)
           excess == floor + f - budget
           effective == IF excess > 0 THEN floor - excess ELSE floor
           baseOut == CurveOutput(effective - 1, EffectiveQuoteReserve(s), s.base)
           trades == Priceable(s) /\ budget > 0 /\ effective > 1 /\ baseOut > 0
<1>1. r = IF trades
          THEN [ok |-> TRUE, effective |-> effective, fees |-> FeesOn(floor, fees),
                total |-> effective + f, baseOut |-> baseOut]
          ELSE NoTrade
  BY Zenon DEF BuyQuoteInput, Floor, FeesOnFloor
<1>2. Total(fees) \in Nat
  BY DEF Total, FeeSchedule
<1>3. floor \in Nat
  <2>1. budget * BpsDenominator \in Nat /\ BpsDenominator + Total(fees) \in Nat \ {0}
    BY <1>2, ProductOfNaturals, BpsAssumption
  <2> QED
    BY <2>1, Quotient DEF Floor
<1>4. f \in Nat
  BY <1>3, FeesAreNatural DEF FeesOnFloor
<1>5. r.ok <=> trades
  <2> HIDE DEF r, trades
  <2> QED
    BY <1>1 DEF NoTrade
<1>6. r.ok => r.baseOut = baseOut /\ r.total = effective + f
  <2> HIDE DEF r, trades, effective, baseOut, f, floor
  <2> QED
    BY <1>1, <1>5
<1>7. effective = OnCurve(fees, budget) /\ effective + f = Paid(fees, budget)
  <2>1. OnCurve(fees, budget) = IF floor + f > budget THEN budget - f ELSE floor
    BY DEF OnCurve
  <2>2. Paid(fees, budget) = IF floor + f > budget THEN budget ELSE floor + f
    BY DEF Paid
  <2> HIDE DEF floor, f
  <2> QED
    BY <1>3, <1>4, <2>1, <2>2
<1>8. baseOut = Bought(s, OnCurve(fees, budget))
  BY <1>7 DEF Bought
<1> HIDE DEF effective, baseOut
<1> QED
  BY <1>2, <1>3, <1>4, <1>5, <1>6, <1>7, <1>8

\* When a purchase succeeds, what it brings and what it takes.
Purchase(s, fees, budget, r) ==
  /\ r.ok <=> /\ Priceable(s) /\ budget > 0 /\ OnCurve(fees, budget) > 1
              /\ Bought(s, OnCurve(fees, budget)) > 0
  /\ r.ok => /\ r.baseOut = Bought(s, OnCurve(fees, budget))
             /\ r.total = Paid(fees, budget)

LEMMA BuysAsPaid ==
  ASSUME NEW s, NEW fees \in FeeSchedule, NEW budget \in Nat
  PROVE  Purchase(s, fees, budget, BuyQuoteInput(s, fees, budget))
<1> DEFINE r == BuyQuoteInput(s, fees, budget)
<1>1. r.ok <=> /\ Priceable(s) /\ budget > 0 /\ OnCurve(fees, budget) > 1
               /\ Bought(s, OnCurve(fees, budget)) > 0
  BY Zenon, PurchaseParts
<1>2. r.ok => /\ r.baseOut = Bought(s, OnCurve(fees, budget))
              /\ r.total = Paid(fees, budget)
  BY Zenon, PurchaseParts
<1> HIDE DEF r
<1>3. Purchase(s, fees, budget, r)
  BY <1>1, <1>2 DEF Purchase
<1> QED
  BY <1>3 DEF r

\* A purchase never takes more than its budget.
LEMMA WithinBudget ==
  ASSUME NEW s, NEW fees \in FeeSchedule, NEW budget \in Nat,
         BuyQuoteInput(s, fees, budget).ok
  PROVE  /\ BuyQuoteInput(s, fees, budget).total \in Nat
         /\ BuyQuoteInput(s, fees, budget).total <= budget
<1> DEFINE floor == Floor(fees, budget)
           f == FeesOnFloor(fees, budget)
<1>1. floor \in Nat /\ f \in Nat
  BY PurchaseParts
<1>2. BuyQuoteInput(s, fees, budget).total = Paid(fees, budget)
  BY PurchaseParts
<1>3. Paid(fees, budget) = IF floor + f > budget THEN budget ELSE floor + f
  BY DEF Paid
<1> HIDE DEF floor, f
<1> QED
  BY <1>1, <1>2, <1>3

-----------------------------------------------------------------------------
(* A circuit's quotes are numbers.                                         *)

\* A pool as an adapter decodes it, with the rates that validatePool() asks for.
SoundPool(i, d) == Described(i) /\ PoolState(i, d) /\ (IsRay(i) => RatesSound(i))

\* What PumpSwap prices with.
LEMMA PumpNumbers ==
  ASSUME NEW i, NEW d, SoundPool(i, d), ~IsRay(i)
  PROVE  /\ PumpState(i, d).base \in Nat /\ PumpState(i, d).quote \in Nat
         /\ PumpState(i, d).virtual \in Int
         /\ Schedule(i, PumpState(i, d)) \in FeeSchedule
         /\ i.transferFee["token"] \in TransferFeeConfig
         /\ i.transferFee.token = i.transferFee["token"]
         /\ d.epoch \in Nat /\ d.vault["wsol"] \in Nat /\ d.vault["token"] \in Nat
<1>1. d.vault \in [Side -> Nat] /\ i.virtual \in Int /\ d.epoch \in Nat
  BY FeeAssumption DEF SoundPool, PoolState, Described, U64
<1>2. i.transferFee["token"] \in TransferFeeConfig
  BY DEF SoundPool, Described, Side
<1>3. Schedule(i, PumpState(i, d)) \in FeeSchedule
  BY ScheduleIsFees DEF SoundPool
<1> QED
  BY <1>1, <1>2, <1>3 DEF PumpState, Side

\* A quote asks for no more than the amount it was made for.
LEMMA QuoteIsNumbers ==
  ASSUME NEW i, NEW d, SoundPool(i, d), NEW from \in Side, NEW amount \in Nat,
         NEW q, q = QuoteExactIn(i, d, from, amount), q.ok
  PROVE  q.amountIn \in Nat /\ q.amountIn <= amount /\ q.out \in Int
<1>1. CASE IsRay(i)
  <2> DEFINE r == SimulateSwapBaseInput(i, d, from, amount)
  <2>1. r.ok /\ q.amountIn = amount /\ q.out = r.received
    <3>1. q = IF RayGate(i, d) /\ r.ok
              THEN [ok |-> TRUE, from |-> from, amountIn |-> amount, out |-> r.received,
                    inDelta |-> r.actual, outDelta |-> r.curve.output, hash |-> d.hash]
              ELSE Refused
      BY <1>1, Zenon DEF QuoteExactIn, RayQuote
    <3> HIDE DEF r
    <3> QED
      BY <3>1 DEF Refused
  <2>2. r.received \in Nat
    <3>1. Described(i) /\ PoolState(i, d) /\ RatesSound(i)
      BY <1>1 DEF SoundPool
    <3>2. r = SimulateSwapBaseInput(i, d, from, amount)
      OBVIOUS
    <3> HIDE DEF r
    <3> QED
      BY <1>1, <2>1, <3>1, <3>2, SimulationKeeps
  <2> HIDE DEF r
  <2> QED
    BY <2>1, <2>2
<1>2. CASE ~IsRay(i) /\ from = "wsol"
  <2> DEFINE s == PumpState(i, d)
             fees == Schedule(i, s)
             r == BuyQuoteInput(s, fees, amount)
             worst == TransferFeeAmountWorstCase(r.baseOut, i.transferFee.token)
  <2>1. r.ok /\ q.amountIn = r.total /\ q.out = r.baseOut - worst
    <3>1. q = IF s.base > 0 /\ "buy" \notin i.disabled /\ GateRejects(i) = {} /\ r.ok
              THEN [ok |-> TRUE, from |-> "wsol", amountIn |-> r.total,
                    out |-> r.baseOut - worst,
                    inDelta |-> r.effective + r.fees.lp, outDelta |-> r.baseOut, hash |-> d.hash]
              ELSE Refused
      BY <1>2, Zenon DEF QuoteExactIn, PumpQuote, PumpBuyQuote
    <3> HIDE DEF r, worst
    <3> QED
      BY <3>1 DEF Refused
  <2>2. s.base \in Nat /\ s.quote \in Nat /\ s.virtual \in Int /\ fees \in FeeSchedule
    BY <1>2, PumpNumbers
  <2>3. r.total \in Nat /\ r.total <= amount
    <3> HIDE DEF s, fees
    <3> QED
      BY <2>1, <2>2, WithinBudget
  <2>4. r.baseOut \in Nat
    <3>1. r = BuyQuoteInput(s, fees, amount)
      OBVIOUS
    <3> HIDE DEF s, fees, r
    <3> QED
      BY <2>1, <2>2, <3>1, BuyKeeps
  <2>5. worst \in Nat
    <3>1. i.transferFee.token \in TransferFeeConfig
      BY <1>2, PumpNumbers
    <3> HIDE DEF r
    <3> QED
      BY <2>4, <3>1, WorstCaseIsNatural
  <2> HIDE DEF r, worst
  <2> QED
    BY <2>1, <2>3, <2>4, <2>5
<1>3. CASE ~IsRay(i) /\ from = "token"
  <2> DEFINE s == PumpState(i, d)
             fees == Schedule(i, s)
             r == SellBaseInput(s, fees, amount)
  <2>1. r.ok /\ q.amountIn = amount /\ q.out = r.userQuoteOut
    <3>1. q = IF s.base > 0 /\ "sell" \notin i.disabled /\ GateRejects(i) = {} /\ r.ok
              THEN [ok |-> TRUE, from |-> "token", amountIn |-> amount, out |-> r.userQuoteOut,
                    inDelta |-> amount - TransferFeeAmountWorstCase(amount, i.transferFee.token),
                    outDelta |-> r.quoteOut - r.fees.lp, hash |-> d.hash]
              ELSE Refused
      BY <1>3, Zenon DEF QuoteExactIn, PumpQuote, PumpSellQuote
    <3> HIDE DEF r
    <3> QED
      BY <3>1 DEF Refused
  <2>2. s.base \in Nat /\ s.quote \in Nat /\ s.virtual \in Int /\ fees \in FeeSchedule
    BY <1>3, PumpNumbers
  <2>3. r.userQuoteOut \in Int
    <3>1. r = SellBaseInput(s, fees, amount)
      OBVIOUS
    <3> HIDE DEF s, fees, r
    <3> QED
      BY <2>1, <2>2, <3>1, SellKeeps
  <2> HIDE DEF r
  <2> QED
    BY <2>1, <2>3
<1> QED
  BY <1>1, <1>2, <1>3 DEF Side

\* What a circuit that earns something at a size is made of.
LEMMA CircuitParts ==
  ASSUME NEW ps, NEW c, NEW x, NEW e, e = EvaluateCircuit(ps, c, x), e.ok
  PROVE  /\ x > 0 /\ e.amountIn = x
         /\ e.quoteA = QuoteExactIn(Info[c.a], ps[c.a], "wsol", x) /\ e.quoteA.ok
         /\ e.quoteA.out > 0
         /\ e.quoteB = QuoteExactIn(Info[c.b], ps[c.b], "token", e.quoteA.out) /\ e.quoteB.ok
         /\ e.pnl = e.quoteB.out - e.quoteA.amountIn
<1> DEFINE qa == QuoteExactIn(Info[c.a], ps[c.a], "wsol", x)
           qb == QuoteExactIn(Info[c.b], ps[c.b], "token", qa.out)
           earns == x > 0 /\ qa.ok /\ qa.out > 0 /\ qb.ok
<1>1. e = IF earns THEN [ok |-> TRUE, amountIn |-> x, quoteA |-> qa, quoteB |-> qb,
                         pnl |-> qb.out - qa.amountIn]
                   ELSE Refused
  BY Zenon DEF EvaluateCircuit
<1>2. /\ earns /\ e.amountIn = x /\ e.quoteA = qa /\ e.quoteB = qb
      /\ e.pnl = qb.out - qa.amountIn
  <2> HIDE DEF earns, qa, qb
  <2> QED
    BY <1>1 DEF Refused
<1> HIDE DEF qb
<1> QED
  BY <1>2 DEF qb

\* Both pools of a circuit are sound.
SoundCircuit(ps, c) ==
  c.a \in Pools /\ c.b \in Pools /\ SoundPool(Info[c.a], ps[c.a]) /\ SoundPool(Info[c.b], ps[c.b])

\* A circuit takes and gives numbers, and no more than its size.
LEMMA CircuitIsNumbers ==
  ASSUME NEW ps, NEW c, SoundCircuit(ps, c), NEW x \in Int,
         NEW e, e = EvaluateCircuit(ps, c, x), e.ok
  PROVE  /\ x \in Nat \ {0} /\ e.amountIn = x
         /\ e.quoteA.amountIn \in Nat /\ e.quoteA.amountIn <= x
         /\ e.quoteA.out \in Nat \ {0} /\ e.quoteB.out \in Int
         /\ e.pnl \in Int /\ e.pnl = e.quoteB.out - e.quoteA.amountIn
<1>1. /\ x > 0 /\ e.amountIn = x
      /\ e.quoteA = QuoteExactIn(Info[c.a], ps[c.a], "wsol", x) /\ e.quoteA.ok
      /\ e.quoteA.out > 0
      /\ e.quoteB = QuoteExactIn(Info[c.b], ps[c.b], "token", e.quoteA.out) /\ e.quoteB.ok
      /\ e.pnl = e.quoteB.out - e.quoteA.amountIn
  BY CircuitParts
<1>2. "wsol" \in Side /\ "token" \in Side /\ x \in Nat
  BY <1>1 DEF Side
<1>3. e.quoteA.amountIn \in Nat /\ e.quoteA.amountIn <= x /\ e.quoteA.out \in Int
  BY <1>1, <1>2, QuoteIsNumbers DEF SoundCircuit
<1>4. e.quoteA.out \in Nat
  BY <1>1, <1>3
<1>5. e.quoteB.out \in Int
  BY <1>1, <1>2, <1>4, QuoteIsNumbers DEF SoundCircuit
<1> QED
  BY <1>1, <1>2, <1>3, <1>4, <1>5

-----------------------------------------------------------------------------
(* Loops.                                                                  *)

\* What holds at first and is kept by every round holds of all rounds.
LEMMA EveryRound ==
  ASSUME NEW N \in Nat, NEW G, 0 \in G, \A n \in 1..N : n - 1 \in G => n \in G
  PROVE  \A n \in 0..N : n \in G
<1> DEFINE Bad == {n \in 0..N : n \notin G}
<1>1. SUFFICES ASSUME Bad # {} PROVE FALSE
  OBVIOUS
<1>2. PICK n \in Bad : \A m \in Bad : n <= m
  <2>1. Bad \in SUBSET Nat
    OBVIOUS
  <2> HIDE DEF Bad
  <2> QED
    BY <1>1, <2>1, HasLeast
<1>3. n \in 0..N /\ n \notin G
  OBVIOUS
<1>4. n # 0 /\ n \in 1..N /\ n - 1 \in 0..N
  BY <1>3
<1>5. n - 1 \notin Bad
  BY <1>2, <1>4
<1> QED
  BY <1>3, <1>4, <1>5

\* The values a loop went through, one round after another.
Rounds(f, n, S, first, step) ==
  /\ f \in [0..n -> S]
  /\ f[0] = first
  /\ \A k \in 1..n : f[k] = step[<<k, f[k - 1]>>]

\* A loop over values of a set exists.
LEMMA LoopRuns ==
  ASSUME NEW N \in Nat, NEW S, NEW first \in S, NEW step \in [(1..N) \X S -> S]
  PROVE  \E f : Rounds(f, N, S, first, step)
<1> DEFINE G == {n \in 0..N : \E f : Rounds(f, n, S, first, step)}
<1>1. 0 \in G
  <2>1. Rounds([k \in 0..0 |-> first], 0, S, first, step)
    BY DEF Rounds
  <2> QED
    BY <2>1
<1>2. ASSUME NEW n \in 1..N, n - 1 \in G PROVE n \in G
  <2>1. PICK f : Rounds(f, n - 1, S, first, step)
    BY <1>2
  <2> DEFINE g == [k \in 0..n |-> IF k = n THEN step[<<n, f[n - 1]>>] ELSE f[k]]
  <2>2. /\ f \in [0..(n - 1) -> S] /\ f[0] = first
        /\ \A k \in 1..(n - 1) : f[k] = step[<<k, f[k - 1]>>]
    BY <2>1 DEF Rounds
  <2>3. n \in Nat /\ n >= 1 /\ n \in 1..N /\ n - 1 \in 0..(n - 1)
    BY <1>2
  <2>4. step[<<n, f[n - 1]>>] \in S
    <3>1. f[n - 1] \in S
      BY <2>2, <2>3
    <3>2. <<n, f[n - 1]>> \in (1..N) \X S
      BY <2>3, <3>1
    <3> QED
      BY <3>2
  <2>5. \A k \in 0..n : k # n => k \in 0..(n - 1)
    BY <2>3
  <2>6. g \in [0..n -> S]
    BY <2>2, <2>4, <2>5
  <2>7. g[n] = step[<<n, f[n - 1]>>] /\ \A k \in 0..(n - 1) : g[k] = f[k]
    BY <2>3
  <2> HIDE DEF g
  <2>8. g[0] = first
    BY <2>2, <2>3, <2>7
  <2>9. ASSUME NEW k \in 1..n PROVE g[k] = step[<<k, g[k - 1]>>]
    <3>1. k - 1 \in 0..(n - 1) /\ g[k - 1] = f[k - 1]
      BY <2>3, <2>7
    <3>2. CASE k = n
      BY <2>7, <3>1, <3>2
    <3>3. CASE k # n
      <4>1. k \in 1..(n - 1) /\ k \in 0..(n - 1)
        BY <2>3, <3>3
      <4> QED
        BY <2>2, <2>7, <3>1, <4>1
    <3> QED
      BY <3>2, <3>3
  <2>10. Rounds(g, n, S, first, step)
    BY <2>6, <2>8, <2>9 DEF Rounds
  <2> QED
    BY <1>2, <2>10
<1>3. \A n \in 0..N : n \in G
  <2> HIDE DEF G
  <2> QED
    BY <1>1, <1>2, EveryRound
<1>4. N \in 0..N
  OBVIOUS
<1> QED
  BY <1>3, <1>4

-----------------------------------------------------------------------------
(* The size.                                                               *)

\* What sizeCircuit() can come to: nothing, or the circuit at some size.
Results(ps, c) == {Refused} \cup {EvaluateCircuit(ps, c, x) : x \in Int}

\* No more than the cap is evaluated.
LEMMA EvaluatedIsResult ==
  ASSUME NEW ps, NEW c, NEW x \in Int
  PROVE  /\ Evaluated(ps, c, x) \in Results(ps, c)
         /\ Evaluated(ps, c, x).ok => /\ x <= MaxCapital
                                      /\ Evaluated(ps, c, x) = EvaluateCircuit(ps, c, x)
         /\ x <= MaxCapital => Evaluated(ps, c, x) = EvaluateCircuit(ps, c, x)
BY MarketAssumption DEF Evaluated, Results, Refused

\* A size that earns something within the cap.
Earning(ps, c, r) ==
  \E x \in Int : /\ x <= MaxCapital
                 /\ r = EvaluateCircuit(ps, c, x) /\ r.ok /\ r.pnl > 0

\* Considering a size never makes the best one worse.
LEMMA ConsiderKeeps ==
  ASSUME NEW ps, NEW c, SoundCircuit(ps, c), NEW best, NEW x \in Int,
         NEW r, r = Evaluated(ps, c, x), best = Refused \/ Earning(ps, c, best),
         NEW n, n = Consider(best, r)
  PROVE  /\ n = Refused \/ Earning(ps, c, n)
         /\ best.ok => n.ok /\ n.pnl >= best.pnl
         /\ r.ok /\ r.pnl > 0 => n.ok /\ n.pnl >= r.pnl
<1>1. r.ok => x <= MaxCapital /\ r = EvaluateCircuit(ps, c, x) /\ r.pnl \in Int
  <2>1. r.ok => x <= MaxCapital /\ r = EvaluateCircuit(ps, c, x)
    BY EvaluatedIsResult
  <2> QED
    BY <2>1, CircuitIsNumbers
<1>2. best.ok => best.pnl \in Int /\ best.pnl > 0 /\ best # Refused
  BY CircuitIsNumbers DEF Earning, Refused
<1>3. ~best.ok => best = Refused
  BY DEF Earning
<1>4. n = IF r.ok /\ r.pnl > (IF best.ok THEN best.pnl ELSE 0) THEN r ELSE best
  BY DEF Consider, Better
<1>5. CASE r.ok /\ r.pnl > (IF best.ok THEN best.pnl ELSE 0)
  <2>1. n = r /\ r.pnl > 0
    BY <1>1, <1>2, <1>4, <1>5
  <2>2. Earning(ps, c, r)
    BY <1>1, <1>5, <2>1 DEF Earning
  <2> QED
    BY <1>1, <1>2, <1>5, <2>1, <2>2
<1>6. CASE ~(r.ok /\ r.pnl > (IF best.ok THEN best.pnl ELSE 0))
  <2>1. n = best
    BY <1>4, <1>6
  <2>2. r.ok /\ r.pnl > 0 => best.ok /\ best.pnl >= r.pnl
    BY <1>1, <1>2, <1>6
  <2> QED
    BY <1>2, <2>1, <2>2
<1> QED
  BY <1>5, <1>6

\* The sweep over the grid comes to nothing, or to a size that earns something
\* and no less than any of the grid.
LEMMA SweptIsBest ==
  ASSUME NEW ps, NEW c, SoundCircuit(ps, c), NEW best, best = Swept(ps, c)
  PROVE  /\ best = Refused \/ (Earning(ps, c, best) /\ best.amountIn \in Sizes)
         /\ \A g \in Sizes :
              LET r == EvaluateCircuit(ps, c, g)
              IN  r.ok /\ r.pnl > 0 => best.ok /\ best.pnl >= r.pnl
<1> DEFINE N == Cardinality(Sizes)
           S == Results(ps, c)
           At(n) == Evaluated(ps, c, GridSizes[n])
           Body(f) == [n \in 0..N |-> IF n = 0 THEN Refused ELSE Consider(f[n - 1], At(n))]
           sweep == CHOOSE f : f = Body(f)
<1>1. best = sweep[N]
  BY DEF Swept
<1>2. /\ N \in Nat
      /\ \A n \in 1..N : /\ GridSizes[n] \in Sizes /\ GridSizes[n] \in Int
                          /\ GridSizes[n] <= MaxCapital
      /\ \A g \in Sizes : \E n \in 1..N : GridSizes[n] = g
  BY GridIsListed, MarketAssumption
<1> HIDE DEF N
<1>3. \E f : f = Body(f)
  <2> DEFINE step == [p \in (1..N) \X S |-> Consider(p[2], At(p[1]))]
  <2>1. Refused \in S
    BY DEF Results
  <2>2. ASSUME NEW p \in (1..N) \X S PROVE Consider(p[2], At(p[1])) \in S
    <3>1. p[1] \in 1..N /\ p[2] \in S
      OBVIOUS
    <3>2. At(p[1]) \in S
      BY <1>2, <3>1, EvaluatedIsResult
    <3> HIDE DEF At, S
    <3> QED
      BY <3>1, <3>2 DEF Consider
  <2>3. step \in [(1..N) \X S -> S]
    <3> HIDE DEF S, At
    <3> QED
      BY <2>2
  <2>4. \A n \in 1..N, v \in S : step[<<n, v>>] = Consider(v, At(n))
    <3> HIDE DEF S, At
    <3> QED
      OBVIOUS
  <2> HIDE DEF step, S
  <2>5. PICK f : Rounds(f, N, S, Refused, step)
    BY <1>2, <2>1, <2>3, LoopRuns
  <2>6. /\ f \in [0..N -> S] /\ f[0] = Refused
        /\ \A k \in 1..N : f[k] = step[<<k, f[k - 1]>>]
    BY <2>5 DEF Rounds
  <2>7. ASSUME NEW n \in 0..N, n # 0 PROVE f[n] = Consider(f[n - 1], At(n))
    <3>1. n \in 1..N /\ n - 1 \in 0..N
      BY <1>2, <2>7
    <3>2. f[n - 1] \in S
      BY <2>6, <3>1
    <3> QED
      BY <2>4, <2>6, <3>1, <3>2
  <2>8. f = [n \in 0..N |-> f[n]]
    BY <2>6
  <2>9. \A n \in 0..N : f[n] = IF n = 0 THEN Refused ELSE Consider(f[n - 1], At(n))
    BY <2>6, <2>7
  <2> HIDE DEF At
  <2>10. f = Body(f)
    BY <2>8, <2>9
  <2> QED
    BY <2>10
<1>4. sweep = Body(sweep)
  <2> HIDE DEF Body
  <2> QED
    BY <1>3
<1> HIDE DEF sweep
<1>5. /\ sweep[0] = Refused
      /\ \A n \in 1..N : sweep[n] = Consider(sweep[n - 1], At(n))
  <2>1. \A n \in 0..N : sweep[n] = IF n = 0 THEN Refused ELSE Consider(sweep[n - 1], At(n))
    <3> HIDE DEF At
    <3> QED
      BY <1>4
  <2>2. 0 \in 0..N /\ \A n \in 1..N : n \in 0..N /\ n # 0
    BY <1>2
  <2> HIDE DEF At
  <2> QED
    BY <2>1, <2>2
<1> DEFINE OfGrid(v) == v = Refused \/ (Earning(ps, c, v) /\ v.amountIn \in Sizes)
           BestOf(v, n) == \A k \in 1..n : At(k).ok /\ At(k).pnl > 0 => v.ok /\ v.pnl >= At(k).pnl
           G == {n \in 0..N : OfGrid(sweep[n]) /\ BestOf(sweep[n], n)}
<1>6. 0 \in G
  BY <1>2, <1>5
<1>7. ASSUME NEW n \in 1..N, n - 1 \in G PROVE n \in G
  <2> DEFINE before == sweep[n - 1]
             r == At(n)
             after == sweep[n]
  <2>1. OfGrid(before) /\ BestOf(before, n - 1) /\ n \in 0..N /\ n \in Nat
    BY <1>2, <1>7
  <2>2. after = Consider(before, r)
    BY <1>5
  <2>3. r = Evaluated(ps, c, GridSizes[n]) /\ GridSizes[n] \in Int
    BY <1>2
  <2>4. before = Refused \/ Earning(ps, c, before)
    BY <2>1
  <2>5. /\ after = Refused \/ Earning(ps, c, after)
        /\ before.ok => after.ok /\ after.pnl >= before.pnl
        /\ r.ok /\ r.pnl > 0 => after.ok /\ after.pnl >= r.pnl
    <3> HIDE DEF before, r, after
    <3> QED
      BY <2>2, <2>3, <2>4, ConsiderKeeps
  <2>6. OfGrid(after)
    <3>1. CASE after = before
      BY <2>1, <3>1
    <3>2. CASE after # before
      <4>1. after = r /\ r.ok
        BY <2>2, <3>2 DEF Consider, Better
      <4>2. r = EvaluateCircuit(ps, c, GridSizes[n])
        BY <2>3, <4>1, EvaluatedIsResult
      <4>3. r.amountIn = GridSizes[n]
        <5> HIDE DEF r
        <5> QED
          BY <4>1, <4>2, CircuitParts
      <4>4. after # Refused /\ after.amountIn \in Sizes
        BY <1>2, <4>1, <4>3 DEF Refused
      <4> QED
        BY <2>5, <4>4
    <3> QED
      BY <3>1, <3>2
  <2>7. BestOf(after, n)
    <3> SUFFICES ASSUME NEW k \in 1..n, At(k).ok, At(k).pnl > 0
                 PROVE  after.ok /\ after.pnl >= At(k).pnl
      OBVIOUS
    <3>1. CASE k = n
      BY <2>5, <3>1
    <3>2. CASE k # n
      <4>1. k \in 1..(n - 1) /\ k \in 1..N
        BY <1>2, <2>1, <3>2
      <4>2. before.ok /\ before.pnl >= At(k).pnl
        BY <2>1, <4>1
      <4>3. after.ok /\ after.pnl >= before.pnl
        BY <2>5, <4>2
      <4>4. Earning(ps, c, before) /\ Earning(ps, c, after)
        BY <2>4, <2>5, <4>2, <4>3 DEF Refused
      <4>5. before.pnl \in Int /\ after.pnl \in Int
        BY <4>4, CircuitIsNumbers DEF Earning
      <4>6. At(k).pnl \in Int
        <5>1. GridSizes[k] \in Int /\ At(k) = EvaluateCircuit(ps, c, GridSizes[k])
          BY <1>2, <4>1, EvaluatedIsResult
        <5> DEFINE e == At(k)
        <5>2. e = EvaluateCircuit(ps, c, GridSizes[k]) /\ e.ok
          BY <5>1
        <5>3. e.pnl \in Int
          <6> HIDE DEF e
          <6> QED
            BY <5>1, <5>2, CircuitIsNumbers
        <5> QED
          BY <5>3
      <4> HIDE DEF before, after, At
      <4> QED
        BY <4>2, <4>3, <4>5, <4>6
    <3> QED
      BY <3>1, <3>2
  <2> HIDE DEF OfGrid, BestOf
  <2> QED
    BY <2>1, <2>6, <2>7
<1>8. \A n \in 0..N : n \in G
  <2> HIDE DEF G
  <2> QED
    BY <1>2, <1>6, <1>7, EveryRound
<1>9. N \in 0..N
  BY <1>2
<1>10. OfGrid(best) /\ BestOf(best, N)
  BY <1>1, <1>8, <1>9
<1>11. ASSUME NEW g \in Sizes, EvaluateCircuit(ps, c, g).ok, EvaluateCircuit(ps, c, g).pnl > 0
       PROVE  best.ok /\ best.pnl >= EvaluateCircuit(ps, c, g).pnl
  <2>1. PICK n \in 1..N : GridSizes[n] = g
    BY <1>2
  <2>2. At(n) = EvaluateCircuit(ps, c, g)
    BY <1>2, <2>1, EvaluatedIsResult
  <2> QED
    BY <1>10, <1>11, <2>2
<1> QED
  BY <1>10, <1>11

\* What the refinement works on: the best size so far and the range that is left.
Ranges(ps, c) == [best : Results(ps, c), lo : Int, hi : Int]

\* A third of a range.
LEMMA Third ==
  ASSUME NEW x \in Int
  PROVE  x \div 3 \in Int
BY SMT

\* One step of the refinement.
LEMMA NarrowKeeps ==
  ASSUME NEW ps, NEW c, NEW s \in Ranges(ps, c), NEW n, n = Narrow(ps, c, s)
  PROVE  /\ n \in Ranges(ps, c)
         /\ SoundCircuit(ps, c) /\ Earning(ps, c, s.best)
              => Earning(ps, c, n.best) /\ n.best.pnl >= s.best.pnl
<1> DEFINE third == (s.hi - s.lo) \div 3
           m1 == s.lo + third
           m2 == s.hi - third
           r1 == Evaluated(ps, c, m1)
           r2 == Evaluated(ps, c, m2)
           one == Consider(s.best, r1)
           two == Consider(one, r2)
           Pnl(r) == IF r.ok THEN r.pnl ELSE -U64Max
<1>1. s.best \in Results(ps, c) /\ s.lo \in Int /\ s.hi \in Int
  BY DEF Ranges
<1>2. m1 \in Int /\ m2 \in Int
  <2>1. third \in Int
    BY <1>1, Third
  <2> HIDE DEF third
  <2> QED
    BY <1>1, <2>1
<1>3. r1 \in Results(ps, c) /\ r2 \in Results(ps, c)
  <2> HIDE DEF m1, m2
  <2> QED
    BY <1>2, EvaluatedIsResult
<1>4. two \in Results(ps, c)
  <2> HIDE DEF r1, r2
  <2> QED
    BY <1>1, <1>3 DEF Consider
<1>5. \/ n = s
      \/ n = [best |-> two, lo |-> m1, hi |-> s.hi]
      \/ n = [best |-> two, lo |-> s.lo, hi |-> m2]
  <2>1. n = IF s.hi - s.lo <= 1 THEN s
            ELSE IF Pnl(r1) < Pnl(r2) THEN [best |-> two, lo |-> m1, hi |-> s.hi]
            ELSE [best |-> two, lo |-> s.lo, hi |-> m2]
    BY Zenon DEF Narrow, Narrowed
  <2> HIDE DEF two, m1, m2, r1, r2, Pnl
  <2> QED
    BY <2>1
<1> HIDE DEF m1, m2
<1>6. n \in Ranges(ps, c)
  <2> HIDE DEF two
  <2> QED
    BY <1>1, <1>2, <1>4, <1>5 DEF Ranges
<1>7. ASSUME SoundCircuit(ps, c), Earning(ps, c, s.best)
      PROVE  Earning(ps, c, n.best) /\ n.best.pnl >= s.best.pnl
  <2>0. s.best.ok
    BY <1>7 DEF Earning
  <2>1. /\ one = Refused \/ Earning(ps, c, one)
        /\ one.ok /\ one.pnl >= s.best.pnl
    <3> DEFINE best == s.best
    <3>1. best = Refused \/ Earning(ps, c, best)
      BY <1>7
    <3>2. best.ok /\ one = Consider(best, r1) /\ r1 = Evaluated(ps, c, m1)
      BY <2>0
    <3>3. one.ok /\ one.pnl >= best.pnl /\ (one = Refused \/ Earning(ps, c, one))
      <4> HIDE DEF best, one, r1
      <4> QED
        BY <1>2, <1>7, <3>1, <3>2, ConsiderKeeps
    <3> QED
      BY <3>3
  <2> HIDE DEF one
  <2>2. /\ two = Refused \/ Earning(ps, c, two)
        /\ two.ok /\ two.pnl >= one.pnl
    <3>1. two = Consider(one, r2) /\ r2 = Evaluated(ps, c, m2)
      OBVIOUS
    <3> HIDE DEF two, r2
    <3> QED
      BY <1>2, <1>7, <2>1, <3>1, ConsiderKeeps
  <2> HIDE DEF two
  <2>3. Earning(ps, c, one) /\ Earning(ps, c, two)
    BY <2>1, <2>2 DEF Refused
  <2>4. s.best.pnl \in Int /\ one.pnl \in Int /\ two.pnl \in Int
    BY <1>7, <2>3, CircuitIsNumbers DEF Earning
  <2>5. two.pnl >= s.best.pnl
    BY <2>1, <2>2, <2>4
  <2>6. n.best = s.best \/ n.best = two
    BY <1>5
  <2>7. s.best.pnl >= s.best.pnl
    BY <2>4
  <2> QED
    BY <1>7, <2>3, <2>5, <2>6, <2>7
<1> QED
  BY <1>6, <1>7

\* Between its neighbours on the grid, or half and twice the size.
LEMMA AroundIsRange ==
  ASSUME NEW ps, NEW c, NEW coarse \in Results(ps, c), coarse.amountIn \in Sizes
  PROVE  Around(coarse) \in Ranges(ps, c) /\ Around(coarse).best = coarse
<1> DEFINE N == Cardinality(Sizes)
           at == CHOOSE n \in DOMAIN GridSizes : GridSizes[n] = coarse.amountIn
           lo == IF at > 1 THEN GridSizes[at - 1] ELSE coarse.amountIn \div 2
           hi == IF at < N THEN GridSizes[at + 1] ELSE Min({2 * coarse.amountIn, MaxCapital})
<1>1. /\ N \in Nat /\ DOMAIN GridSizes = 1..N
      /\ \A n \in 1..N : GridSizes[n] \in Int
      /\ \E n \in 1..N : GridSizes[n] = coarse.amountIn
      /\ coarse.amountIn \in Nat
  <2>1. \A g \in Sizes : g \in Nat
    BY GridIsListed, MarketAssumption
  <2>2. N \in Nat /\ DOMAIN GridSizes = 1..N
    BY GridIsListed
  <2>3. \A n \in 1..N : GridSizes[n] \in Sizes
    BY GridIsListed
  <2>4. \E n \in 1..N : GridSizes[n] = coarse.amountIn
    BY GridIsListed
  <2> QED
    BY <2>1, <2>2, <2>3, <2>4
<1> HIDE DEF N
<1>2. at \in 1..N
  BY <1>1
<1> HIDE DEF at
<1>3. lo \in Int
  <2>1. at > 1 => at - 1 \in 1..N
    BY <1>1, <1>2
  <2>2. coarse.amountIn \div 2 \in Int
    BY <1>1, SMT
  <2> QED
    BY <1>1, <2>1, <2>2
<1>4. hi \in Int
  <2>1. at < N => at + 1 \in 1..N
    BY <1>1, <1>2
  <2>2. ASSUME NEW x \in Int, NEW y \in Int PROVE Min({x, y}) \in Int
    <3>1. \E z \in {x, y} : \A w \in {x, y} : z <= w
      BY <2>2
    <3>2. Min({x, y}) \in {x, y}
      BY <3>1 DEF Min
    <3> QED
      BY <3>2
  <2>3. 2 * coarse.amountIn \in Int /\ MaxCapital \in Int
    BY <1>1, MarketAssumption
  <2>4. Min({2 * coarse.amountIn, MaxCapital}) \in Int
    BY <2>2, <2>3
  <2> QED
    BY <1>1, <2>1, <2>4
<1>5. Around(coarse) = [best |-> coarse, lo |-> lo, hi |-> hi]
  BY DEF Around, N, at
<1> HIDE DEF lo, hi
<1> QED
  BY <1>3, <1>4, <1>5 DEF Ranges

\* The refinement ends with a size that earns no less than the one it began with.
LEMMA RefinedIsBetter ==
  ASSUME NEW ps, NEW c, SoundCircuit(ps, c), NEW range \in Ranges(ps, c),
         Earning(ps, c, range.best), NEW best, best = Refined(ps, c, range)
  PROVE  Earning(ps, c, best) /\ best.pnl >= range.best.pnl
<1> DEFINE S == Ranges(ps, c)
           Body(f) == [n \in 0..RefineSteps |-> IF n = 0 THEN range ELSE Narrow(ps, c, f[n - 1])]
           refine == CHOOSE f : f = Body(f)
<1>1. best = refine[RefineSteps].best
  BY DEF Refined
<1>2. RefineSteps \in Nat
  BY MarketAssumption
<1>3. \E f : f = Body(f)
  <2> DEFINE step == [p \in (1..RefineSteps) \X S |-> Narrow(ps, c, p[2])]
  <2>1. step \in [(1..RefineSteps) \X S -> S]
    <3>1. \A p \in (1..RefineSteps) \X S : Narrow(ps, c, p[2]) \in S
      BY NarrowKeeps
    <3> HIDE DEF S
    <3> QED
      BY <3>1
  <2>2. \A n \in 1..RefineSteps, v \in S : step[<<n, v>>] = Narrow(ps, c, v)
    <3> HIDE DEF S
    <3> QED
      OBVIOUS
  <2> HIDE DEF step, S
  <2>3. PICK f : Rounds(f, RefineSteps, S, range, step)
    BY <1>2, <2>1, LoopRuns DEF S
  <2>4. /\ f \in [0..RefineSteps -> S] /\ f[0] = range
        /\ \A k \in 1..RefineSteps : f[k] = step[<<k, f[k - 1]>>]
    BY <2>3 DEF Rounds
  <2>5. ASSUME NEW n \in 0..RefineSteps, n # 0 PROVE f[n] = Narrow(ps, c, f[n - 1])
    <3>1. n \in 1..RefineSteps /\ n - 1 \in 0..RefineSteps
      BY <1>2, <2>5
    <3>2. f[n - 1] \in S
      BY <2>4, <3>1
    <3> QED
      BY <2>2, <2>4, <3>1, <3>2
  <2>6. f = [n \in 0..RefineSteps |-> f[n]]
    BY <2>4
  <2>7. \A n \in 0..RefineSteps : f[n] = IF n = 0 THEN range ELSE Narrow(ps, c, f[n - 1])
    BY <2>4, <2>5
  <2>8. f = Body(f)
    BY <2>6, <2>7
  <2> QED
    BY <2>8
<1>4. refine = Body(refine)
  <2> HIDE DEF Body
  <2> QED
    BY <1>3
<1> HIDE DEF refine
<1>5. /\ refine[0] = range
      /\ \A n \in 1..RefineSteps : refine[n] = Narrow(ps, c, refine[n - 1])
  <2>1. \A n \in 0..RefineSteps :
          refine[n] = IF n = 0 THEN range ELSE Narrow(ps, c, refine[n - 1])
    BY <1>4
  <2>2. 0 \in 0..RefineSteps /\ \A n \in 1..RefineSteps : n \in 0..RefineSteps /\ n # 0
    BY <1>2
  <2> QED
    BY <2>1, <2>2
<1> DEFINE Fine(v) == /\ v \in S /\ Earning(ps, c, v.best)
                      /\ v.best.pnl \in Int /\ v.best.pnl >= range.best.pnl
           G == {n \in 0..RefineSteps : Fine(refine[n])}
<1>6. \A r : Earning(ps, c, r) => r.pnl \in Int
  BY CircuitIsNumbers DEF Earning
<1>7. 0 \in G
  <2>1. Fine(range)
    BY <1>6
  <2> HIDE DEF Fine
  <2> QED
    BY <1>2, <1>5, <2>1
<1>8. ASSUME NEW n \in 1..RefineSteps, n - 1 \in G PROVE n \in G
  <2> DEFINE before == refine[n - 1]
             after == refine[n]
  <2>1. /\ before \in S /\ Earning(ps, c, before.best)
        /\ before.best.pnl \in Int /\ before.best.pnl >= range.best.pnl
    BY <1>8
  <2>2. after = Narrow(ps, c, before)
    BY <1>5
  <2> HIDE DEF before, after
  <2>3. /\ after \in S /\ Earning(ps, c, after.best) /\ after.best.pnl >= before.best.pnl
    BY <2>1, <2>2, NarrowKeeps
  <2>4. after.best.pnl \in Int /\ range.best.pnl \in Int
    BY <1>6, <2>3
  <2>5. Fine(after)
    BY <2>1, <2>3, <2>4
  <2>6. n \in 0..RefineSteps
    BY <1>2, <1>8
  <2> HIDE DEF Fine
  <2> QED
    BY <2>5, <2>6 DEF after
<1>9. \A n \in 0..RefineSteps : n \in G
  <2> HIDE DEF G
  <2> QED
    BY <1>2, <1>7, <1>8, EveryRound
<1>10. RefineSteps \in 0..RefineSteps
  BY <1>2
<1>11. Fine(refine[RefineSteps])
  <2> HIDE DEF Fine
  <2> QED
    BY <1>9, <1>10
<1> QED
  BY <1>1, <1>11

\* The size that is chosen.
LEMMA SizeIsSound ==
  ASSUME NEW ps, NEW c, SoundCircuit(ps, c), NEW best, best = SizeCircuit(ps, c), best.ok
  PROVE  /\ Earning(ps, c, best)
         /\ \A g \in Sizes :
              LET r == EvaluateCircuit(ps, c, g)
              IN  r.ok => r.pnl <= best.pnl
<1> DEFINE coarse == Swept(ps, c)
<1>1. best = IF coarse.ok THEN Refined(ps, c, Around(coarse)) ELSE Refused
  BY DEF SizeCircuit
<1>2. coarse.ok
  <2> HIDE DEF coarse
  <2> QED
    BY <1>1 DEF Refused
<1>3. /\ Earning(ps, c, coarse) /\ coarse.amountIn \in Sizes
      /\ \A g \in Sizes :
           LET r == EvaluateCircuit(ps, c, g)
           IN  r.ok /\ r.pnl > 0 => coarse.pnl >= r.pnl
  BY <1>2, SweptIsBest DEF Refused
<1> HIDE DEF coarse
<1>4. coarse \in Results(ps, c)
  BY <1>3 DEF Earning, Results
<1>5. Around(coarse) \in Ranges(ps, c) /\ Around(coarse).best = coarse
  BY <1>3, <1>4, AroundIsRange
<1>6. best = Refined(ps, c, Around(coarse))
  BY <1>1, <1>2
<1> DEFINE range == Around(coarse)
<1>7. Earning(ps, c, best) /\ best.pnl >= coarse.pnl
  <2>1. range \in Ranges(ps, c) /\ Earning(ps, c, range.best) /\ range.best = coarse
    BY <1>3, <1>5
  <2>2. best = Refined(ps, c, range)
    BY <1>6
  <2> HIDE DEF range
  <2> QED
    BY <2>1, <2>2, RefinedIsBetter
<1>8. ASSUME NEW g \in Sizes, EvaluateCircuit(ps, c, g).ok
      PROVE  EvaluateCircuit(ps, c, g).pnl <= best.pnl
  <2> DEFINE r == EvaluateCircuit(ps, c, g)
  <2>1. g \in Int
    BY MarketAssumption DEF Sizes
  <2>2. r.pnl \in Int
    <3>1. r = EvaluateCircuit(ps, c, g) /\ r.ok
      BY <1>8
    <3> HIDE DEF r
    <3> QED
      BY <2>1, <3>1, CircuitIsNumbers
  <2>3. best.pnl \in Int /\ coarse.pnl \in Int /\ coarse.pnl > 0
    BY <1>3, <1>7, CircuitIsNumbers DEF Earning
  <2>4. r.pnl > 0 => coarse.pnl >= r.pnl
    BY <1>3, <1>8
  <2> HIDE DEF r
  <2> QED
    BY <1>7, <2>2, <2>3, <2>4 DEF r
<1> QED
  BY <1>7, <1>8

-----------------------------------------------------------------------------
(* What is executed.                                                       *)

\* A fee that is rounded up is no more than the amount it is taken from.
LEMMA CeilWithin ==
  ASSUME NEW amount \in Nat, NEW m \in Nat \ {0}, NEW bps \in 0..m
  PROVE  /\ (amount * bps + m - 1) \div m \in Nat
         /\ (amount * bps + m - 1) \div m <= amount
<1>1. amount * bps \in Nat /\ amount * bps <= m * amount
  <2>1. m * amount >= bps * amount
    BY Monotone
  <2>2. bps * amount = amount * bps /\ amount * bps \in Nat
    BY ProductOfNaturals, SMT
  <2> QED
    BY <2>1, <2>2
<1> DEFINE x == amount * bps + m - 1
           q == x \div m
<1>2. x \in Nat /\ x < m * amount + m
  BY <1>1, ProductOfNaturals
<1> HIDE DEF x
<1>3. q \in Nat /\ m * q <= x
  BY <1>2, Quotient
<1> HIDE DEF q
<1>4. q <= amount
  <2> SUFFICES ASSUME q >= amount + 1 PROVE FALSE
    BY <1>3
  <2>1. q * m >= (amount + 1) * m
    BY <1>3, Monotone
  <2>2. (amount + 1) * m = m * amount + m /\ q * m = m * q /\ m * q \in Nat /\ m * amount \in Nat
    BY <1>3, ProductOfNaturals, SMT
  <2> QED
    BY <1>2, <1>3, <2>1, <2>2
<1> QED
  BY <1>3, <1>4 DEF x, q

\* The tiers of a mint that charges a transfer fee.
LEMMA Tiers ==
  ASSUME NEW config \in TransferFeeConfig, config.charged
  PROVE  /\ config.older \in TransferFeeTier /\ config.newer \in TransferFeeTier
         /\ \A epoch : EpochFeeTier(config, epoch) \in {config.older, config.newer}
<1>1. config # NoFee
  BY DEF NoFee
<1>2. config \in [charged : {TRUE}, older : TransferFeeTier, newer : TransferFeeTier]
  BY <1>1 DEF TransferFeeConfig
<1> QED
  BY <1>2 DEF EpochFeeTier

\* The transfer fee of an epoch is a part of the amount.
LEMMA TransferFeeWithin ==
  ASSUME NEW config \in TransferFeeConfig, NEW epoch \in Nat, NEW amount \in Nat,
         GetTransferFee(config, epoch, amount) # Null
  PROVE  GetTransferFee(config, epoch, amount) \in 0..amount
<1>1. CASE config.charged
  <2> DEFINE tier == EpochFeeTier(config, epoch)
             raw == (amount * tier.bps + MaxFeeBasisPoints - 1) \div MaxFeeBasisPoints
  <2>1. tier.bps \in 0..MaxFeeBasisPoints /\ tier.maxFee \in Nat
    BY <1>1, Tiers DEF TransferFeeTier
  <2>2. GetTransferFee(config, epoch, amount) = CalculateFee(tier, amount)
    BY <1>1 DEF GetTransferFee
  <2> HIDE DEF tier
  <2>3. raw \in Nat /\ raw <= amount
    BY <2>1, FeeAssumption, CeilWithin
  <2>4. CalculateFee(tier, amount) =
          IF tier.bps = 0 \/ amount = 0 THEN 0
          ELSE IF raw > U64Max THEN Null
          ELSE IF raw < tier.maxFee THEN raw
          ELSE tier.maxFee
    BY DEF CalculateFee
  <2> HIDE DEF raw
  <2> QED
    BY <2>1, <2>2, <2>3, <2>4 DEF Null
<1>2. CASE ~config.charged
  BY <1>2 DEF GetTransferFee
<1> QED
  BY <1>1, <1>2

\* A leg that succeeds takes, brings and withholds amounts.
LEMMA ExecutedIsNumbers ==
  ASSUME NEW p \in Pools, SoundPool(Info[p], pools[p]), NEW from \in Side, NEW amount \in Nat,
         NEW minOut, NEW e, e = Executed(p, from, amount, minOut), e.ok
  PROVE  e.debit \in Nat /\ e.credit \in Nat /\ e.withheld \in Nat
<1> DEFINE i == Info[p]
           d == pools[p]
           s == PumpState(i, d)
<1>1. CASE IsRay(i)
  <2> DEFINE r == SimulateSwapBaseInput(i, d, from, amount)
  <2>1. /\ r.ok /\ e.debit = amount /\ e.credit = r.received
        /\ e.withheld = r.curve.output - r.received
    <3>1. e = IF RayGate(i, d) /\ r.ok /\ r.received >= minOut
              THEN [ok |-> TRUE, debit |-> amount, credit |-> r.received,
                    withheld |-> r.curve.output - r.received]
              ELSE Refused
      BY <1>1, Zenon DEF Executed
    <3> HIDE DEF r
    <3> QED
      BY <3>1 DEF Refused
  <2>2. r.received \in Nat /\ r.curve.output \in Nat /\ r.received <= r.curve.output
    <3>1. Described(i) /\ PoolState(i, d) /\ RatesSound(i)
      BY <1>1 DEF SoundPool
    <3>2. r = SimulateSwapBaseInput(i, d, from, amount)
      OBVIOUS
    <3>3. r.received \in Nat /\ r.curve.output \in U64 /\ r.received <= r.curve.output
      <4> HIDE DEF r
      <4> QED
        BY <1>1, <2>1, <3>1, <3>2, SimulationKeeps
    <3> QED
      BY <3>3, FeeAssumption DEF U64
  <2> HIDE DEF r
  <2> QED
    BY <2>1, <2>2
<1>2. CASE ~IsRay(i) /\ from = "wsol"
  <2> DEFINE fees == Schedule(i, s)
             r == BuyQuoteInput(s, fees, amount)
             w == GetTransferFee(i.transferFee.token, d.epoch, r.baseOut)
  <2>1. r.ok /\ w # Null /\ e.debit = r.total /\ e.credit = r.baseOut - w /\ e.withheld = w
    <3>1. e = IF r.ok /\ r.baseOut >= minOut /\ w # Null
              THEN [ok |-> TRUE, debit |-> r.total, credit |-> r.baseOut - w, withheld |-> w]
              ELSE Refused
      BY <1>2, Zenon DEF Executed
    <3> HIDE DEF r, w
    <3> QED
      BY <3>1 DEF Refused
  <2>2. s.base \in Nat /\ s.quote \in Nat /\ s.virtual \in Int /\ fees \in FeeSchedule
    BY <1>2, PumpNumbers
  <2>3. r.total \in Nat /\ r.baseOut \in Nat
    <3>1. r = BuyQuoteInput(s, fees, amount)
      OBVIOUS
    <3> HIDE DEF s, fees, r
    <3> QED
      BY <2>1, <2>2, <3>1, BuyKeeps
  <2>4. w \in 0..r.baseOut
    <3>1. i.transferFee.token \in TransferFeeConfig /\ d.epoch \in Nat
      BY <1>2, PumpNumbers
    <3> HIDE DEF r
    <3> QED
      BY <2>1, <2>3, <3>1, TransferFeeWithin
  <2> HIDE DEF r, w
  <2> QED
    BY <2>1, <2>3, <2>4
<1>3. CASE ~IsRay(i) /\ from = "token"
  <2> DEFINE fees == Schedule(i, s)
             r == SellBaseInput(s, fees, amount)
  <2>1. r.ok /\ e.debit = amount /\ e.credit = r.userQuoteOut /\ e.withheld = 0
    <3>1. e = IF r.ok /\ r.userQuoteOut >= minOut
              THEN [ok |-> TRUE, debit |-> amount, credit |-> r.userQuoteOut, withheld |-> 0]
              ELSE Refused
      BY <1>3, Zenon DEF Executed
    <3> HIDE DEF r
    <3> QED
      BY <3>1 DEF Refused
  <2>2. s.base \in Nat /\ s.quote \in Nat /\ s.virtual \in Int /\ fees \in FeeSchedule
    BY <1>3, PumpNumbers
  <2>3. r.userQuoteOut \in Nat
    <3>1. r = SellBaseInput(s, fees, amount)
      OBVIOUS
    <3> HIDE DEF s, fees, r
    <3> QED
      BY <2>1, <2>2, <3>1, SellKeeps
  <2> HIDE DEF r
  <2> QED
    BY <2>1, <2>3
<1> QED
  BY <1>1, <1>2, <1>3 DEF Side

-----------------------------------------------------------------------------
(* The report.                                                             *)

\* The plan is a size of a sound circuit, and the best of the grid.
PlanOK ==
  /\ DOMAIN plan.seen = {plan.circuit.a, plan.circuit.b}
  /\ SoundCircuit(plan.seen, plan.circuit)
  /\ Earning(plan.seen, plan.circuit, plan.eval)
  /\ \A g \in Sizes :
       LET r == EvaluateCircuit(plan.seen, plan.circuit, g)
       IN  r.ok => r.pnl <= plan.eval.pnl

\* PumpSwap's instruction could be built.
Built == ~IsRay(Info[plan.circuit.a]) => LegAArgument(plan.eval, plan.circuit.a) # Null

\* What the plan says of its own amounts.
LEMMA PlanIsNumbers ==
  ASSUME PlanOK
  PROVE  /\ plan.circuit.a \in Pools /\ plan.circuit.b \in Pools
         /\ plan.eval.ok /\ plan.eval.amountIn \in Nat \ {0} /\ plan.eval.amountIn <= MaxCapital
         /\ plan.eval = EvaluateCircuit(plan.seen, plan.circuit, plan.eval.amountIn)
         /\ plan.eval.quoteA.amountIn \in Nat
         /\ plan.eval.quoteA.amountIn <= plan.eval.amountIn
         /\ plan.eval.quoteA.out \in Nat \ {0} /\ plan.eval.quoteB.out \in Int
         /\ plan.eval.pnl = plan.eval.quoteB.out - plan.eval.quoteA.amountIn
         /\ plan.eval.pnl \in Int /\ plan.eval.pnl > 0
<1>1. PICK x \in Int : /\ x <= MaxCapital
                       /\ plan.eval = EvaluateCircuit(plan.seen, plan.circuit, x)
                       /\ plan.eval.ok /\ plan.eval.pnl > 0
  BY DEF PlanOK, Earning
<1>2. SoundCircuit(plan.seen, plan.circuit)
  BY DEF PlanOK
<1> QED
  BY <1>1, <1>2, CircuitIsNumbers DEF SoundCircuit

\* The argument of the first leg is an amount, whatever the exchange.
LEMMA ArgumentIsAmount ==
  ASSUME PlanOK, Built
  PROVE  LegAArgument(plan.eval, plan.circuit.a) \in Nat
<1>1. plan.eval.quoteA.amountIn \in Nat
  BY PlanIsNumbers
<1> QED
  BY <1>1 DEF LegAArgument, Built, SpendableBudgetFor

\* The pools of the circuit are sound whenever they are looked at again.
LEMMA StillSound ==
  ASSUME PlanOK, Inv
  PROVE  /\ SoundPool(Info[plan.circuit.a], pools[plan.circuit.a])
         /\ SoundPool(Info[plan.circuit.b], pools[plan.circuit.b])
BY PlanIsNumbers, PoolsAssumption DEF PlanOK, SoundCircuit, SoundPool, Inv, PoolsOK

\* Either leg fails and the run with it, or they exchange these amounts.
LEMMA DirectParts ==
  ASSUME NEW a, a = Executed(plan.circuit.a, "wsol", LegAArgument(plan.eval, plan.circuit.a),
                             plan.eval.quoteA.out),
         NEW b, b = Executed(plan.circuit.b, "token", plan.eval.quoteA.out, plan.eval.quoteB.out)
  PROVE  /\ RunDirect.ok <=> /\ a.ok /\ a.debit <= plan.eval.amountIn
                             /\ plan.eval.quoteA.out <= a.credit /\ b.ok
         /\ RunDirect.ok => RunDirect = [ok |-> TRUE, base |-> b.credit - a.debit,
                                         inter |-> a.credit - b.debit, withheld |-> a.withheld]
<1> DEFINE runs == /\ a.ok /\ a.debit <= plan.eval.amountIn
                   /\ plan.eval.quoteA.out <= a.credit /\ b.ok
<1>1. RunDirect = IF runs THEN [ok |-> TRUE, base |-> b.credit - a.debit,
                                inter |-> a.credit - b.debit, withheld |-> a.withheld]
                  ELSE Refused
  BY Zenon DEF RunDirect
<1> HIDE DEF runs
<1>2. RunDirect.ok <=> runs
  BY <1>1 DEF Refused
<1> QED
  BY <1>1, <1>2 DEF runs

\* A leg of tokens takes what it was given, and brings what was asked at least.
LEMMA SaleTakesAll ==
  ASSUME NEW p, NEW amount, NEW minOut,
         NEW e, e = Executed(p, "token", amount, minOut), e.ok
  PROVE  e.debit = amount /\ e.credit >= minOut
<1> DEFINE i == Info[p]
           d == pools[p]
           s == PumpState(i, d)
<1>1. CASE IsRay(i)
  <2> DEFINE r == SimulateSwapBaseInput(i, d, "token", amount)
  <2>1. e = IF RayGate(i, d) /\ r.ok /\ r.received >= minOut
            THEN [ok |-> TRUE, debit |-> amount, credit |-> r.received,
                  withheld |-> r.curve.output - r.received]
            ELSE Refused
    BY <1>1, Zenon DEF Executed
  <2> HIDE DEF r
  <2> QED
    BY <2>1 DEF Refused
<1>2. CASE ~IsRay(i)
  <2> DEFINE r == SellBaseInput(s, Schedule(i, s), amount)
  <2>1. e = IF r.ok /\ r.userQuoteOut >= minOut
            THEN [ok |-> TRUE, debit |-> amount, credit |-> r.userQuoteOut, withheld |-> 0]
            ELSE Refused
    <3>1. "token" # "wsol"
      OBVIOUS
    <3> QED
      BY <1>2, <3>1, Zenon DEF Executed
  <2> HIDE DEF r
  <2> QED
    BY <2>1 DEF Refused
<1> QED
  BY <1>1, <1>2

\* What a run of both legs leaves the user with, when it does not fail.
Ran(run) ==
  run.ok => /\ run.base \in Int /\ plan.eval.amountIn + run.base \in Nat
            /\ run.inter \in Nat /\ run.withheld \in Nat
            /\ plan.eval.amountIn + run.base >= plan.eval.quoteB.out

LEMMA DirectIsNumbers ==
  ASSUME PlanOK, Built, Inv
  PROVE  Ran(RunDirect)
<1> DEFINE argument == LegAArgument(plan.eval, plan.circuit.a)
           a == Executed(plan.circuit.a, "wsol", argument, plan.eval.quoteA.out)
           b == Executed(plan.circuit.b, "token", plan.eval.quoteA.out, plan.eval.quoteB.out)
<1>1. /\ plan.circuit.a \in Pools /\ plan.circuit.b \in Pools
      /\ plan.eval.amountIn \in Nat /\ plan.eval.quoteA.out \in Nat /\ plan.eval.quoteB.out \in Int
  BY PlanIsNumbers
<1>2. argument \in Nat
  BY ArgumentIsAmount
<1> SUFFICES ASSUME RunDirect.ok PROVE Ran(RunDirect)
  BY DEF Ran
<1>3. /\ a.ok /\ a.debit <= plan.eval.amountIn /\ plan.eval.quoteA.out <= a.credit /\ b.ok
      /\ RunDirect = [ok |-> TRUE, base |-> b.credit - a.debit, inter |-> a.credit - b.debit,
                      withheld |-> a.withheld]
  BY DirectParts
<1>4. a.debit \in Nat /\ a.credit \in Nat /\ a.withheld \in Nat
  <2>1. "wsol" \in Side
    BY DEF Side
  <2>2. a = Executed(plan.circuit.a, "wsol", argument, plan.eval.quoteA.out)
    OBVIOUS
  <2> HIDE DEF a, argument
  <2> QED
    BY <1>1, <1>2, <1>3, <2>1, <2>2, StillSound, ExecutedIsNumbers
<1>5. b.credit \in Nat /\ b.debit = plan.eval.quoteA.out /\ b.credit >= plan.eval.quoteB.out
  <2>1. "token" \in Side
    BY DEF Side
  <2>2. b = Executed(plan.circuit.b, "token", plan.eval.quoteA.out, plan.eval.quoteB.out)
    OBVIOUS
  <2> HIDE DEF b
  <2> QED
    BY <1>1, <1>3, <2>1, <2>2, StillSound, ExecutedIsNumbers, SaleTakesAll
<1> HIDE DEF a, b
<1>6. /\ b.credit - a.debit \in Int /\ plan.eval.amountIn + (b.credit - a.debit) \in Nat
      /\ plan.eval.amountIn + (b.credit - a.debit) >= plan.eval.quoteB.out
      /\ a.credit - b.debit \in Nat
  BY <1>1, <1>3, <1>4, <1>5
<1> QED
  BY <1>3, <1>4, <1>6 DEF Ran

\* What a report says of the wallet, of the accounts and of itself.
Accounted(r) ==
  LET earned == r.wallet.base - plan.eval.amountIn
      spent == Fund - r.wallet.sol
      deposits == LamportsOf(Deposits(plan.circuit))
  IN  /\ r.wallet \in [{"sol", "base", "inter", "withheld"} -> Nat]
      /\ r = [made |-> TRUE, ok |-> r.ok, created |-> r.created, verdict |-> r.verdict,
              wallet |-> r.wallet, matchesQuote |-> r.matchesQuote, acct |-> r.acct,
              recovery |-> NoRecovery]
      /\ r.acct = [net |-> r.acct.net, locked |-> r.acct.locked, liquid |-> r.acct.liquid,
                   unexplained |-> r.acct.unexplained, complete |-> r.acct.complete]
      /\ r.ok \in BOOLEAN /\ r.acct.complete \in BOOLEAN
      /\ IF r.ok
         THEN /\ r.created = Deposits(plan.circuit)
              /\ r.acct.net = earned - ExternalCosts
              /\ r.acct.locked = deposits
              /\ r.acct.liquid = earned - spent
              /\ r.acct.complete <=> spent - ExternalCosts - deposits = 0
         ELSE r.created = {} /\ ~r.acct.complete

\* The costs are amounts, and what a failed transaction costs is in the fund.
LEMMA CostsAreAmounts ==
  /\ Fund \in Nat /\ BaseFee \in Nat /\ PriorityFee \in Nat /\ JitoTip \in Nat
  /\ ExternalCosts \in Nat /\ BaseFee + PriorityFee \in Nat
  /\ BaseFee + PriorityFee <= Fund /\ Surprises \subseteq Nat
BY ProbeAssumption DEF ExternalCosts

\* A report on a run is accounted for, and what was sold brought what was asked.
LEMMA ReportIsAccounted ==
  ASSUME PlanOK, NEW run, Ran(run), NEW s \in Surprises, NEW r, r = Report(run, s)
  PROVE  /\ Accounted(r)
         /\ r.ok => r.wallet.base >= plan.eval.quoteB.out
<1> DEFINE fees == BaseFee + PriorityFee
           deposits == LamportsOf(Deposits(plan.circuit))
           native == -(fees + deposits + s)
           created == CreatedAccounts(plan.circuit)
<1>1. r = IF run.ok /\ -native <= Fund
          THEN [made |-> TRUE, ok |-> TRUE, created |-> created, verdict |-> Verdict,
                wallet |-> [sol |-> Fund + native, base |-> plan.eval.amountIn + run.base,
                            inter |-> run.inter, withheld |-> run.withheld],
                matchesQuote |-> run.base = plan.eval.pnl /\ run.inter = 0,
                acct |-> ReconcileAttempt(run.base, -native, LamportsOf(created),
                                          run.base, native, FALSE),
                recovery |-> NoRecovery]
          ELSE [made |-> TRUE, ok |-> FALSE, created |-> {}, verdict |-> Verdict,
                wallet |-> [sol |-> Fund - fees, base |-> plan.eval.amountIn,
                            inter |-> 0, withheld |-> 0],
                matchesQuote |-> FALSE,
                acct |-> ReconcileAttempt(plan.eval.pnl, 0, 0, plan.eval.pnl, 0, TRUE),
                recovery |-> NoRecovery]
  BY Zenon DEF Report
<1>2. /\ plan.eval.amountIn \in Nat /\ s \in Nat /\ Fund \in Nat /\ fees \in Nat /\ fees <= Fund
      /\ ExternalCosts \in Nat
  BY PlanIsNumbers, CostsAreAmounts
<1>3. created = Deposits(plan.circuit) /\ deposits \in Nat
  BY DepositsAreLamports
<1> HIDE DEF fees, created, deposits
<1>4. native \in Int /\ -native = fees + deposits + s
  BY <1>2, <1>3
<1>5. CASE run.ok /\ -native <= Fund
  <2>1. /\ run.base \in Int /\ plan.eval.amountIn + run.base \in Nat
        /\ run.inter \in Nat /\ run.withheld \in Nat
        /\ plan.eval.amountIn + run.base >= plan.eval.quoteB.out
    BY <1>5 DEF Ran
  <2> DEFINE w == [sol |-> Fund + native, base |-> plan.eval.amountIn + run.base,
                   inter |-> run.inter, withheld |-> run.withheld]
             unexplained == -native - ExternalCosts - deposits
             acct == [net |-> run.base - ExternalCosts, locked |-> deposits,
                      liquid |-> run.base + native, unexplained |-> unexplained,
                      complete |-> ~FALSE /\ unexplained = 0]
  <2>2. acct = ReconcileAttempt(run.base, -native, LamportsOf(created), run.base, native, FALSE)
    BY <1>3, Zenon DEF ReconcileAttempt, deposits
  <2>3. r = [made |-> TRUE, ok |-> TRUE, created |-> created, verdict |-> Verdict,
             wallet |-> w, matchesQuote |-> run.base = plan.eval.pnl /\ run.inter = 0,
             acct |-> acct, recovery |-> NoRecovery]
    BY <1>1, <1>5, <2>2
  <2>4. w \in [{"sol", "base", "inter", "withheld"} -> Nat]
    <3>1. Fund + native \in Nat
      BY <1>2, <1>4, <1>5
    <3> HIDE DEF native
    <3> QED
      BY <2>1, <3>1
  <2>5. w.base - plan.eval.amountIn = run.base /\ Fund - w.sol = -native
    BY <1>2, <1>4, <2>1
  <2>6. /\ r.ok /\ r.ok \in BOOLEAN /\ r.wallet = w /\ r.acct = acct /\ r.created = created
        /\ r = [made |-> TRUE, ok |-> r.ok, created |-> r.created, verdict |-> r.verdict,
                wallet |-> r.wallet, matchesQuote |-> r.matchesQuote, acct |-> r.acct,
                recovery |-> NoRecovery]
    <3> HIDE DEF w, acct
    <3> QED
      BY <2>3
  <2>7. /\ acct.net = run.base - ExternalCosts /\ acct.locked = deposits
        /\ acct.liquid = run.base + native
        /\ (acct.complete <=> unexplained = 0) /\ acct.complete \in BOOLEAN
        /\ acct = [net |-> acct.net, locked |-> acct.locked, liquid |-> acct.liquid,
                   unexplained |-> acct.unexplained, complete |-> acct.complete]
    <3> HIDE DEF unexplained, native
    <3> QED
      OBVIOUS
  <2>8. w.base >= plan.eval.quoteB.out
    BY <2>1
  <2> HIDE DEF w, acct
  <2>9. acct.liquid = run.base - (-native)
    BY <1>4, <2>1, <2>7
  <2> HIDE DEF native
  <2>10. Accounted(r)
    BY <1>3, <2>4, <2>5, <2>6, <2>7, <2>9 DEF Accounted, deposits, unexplained
  <2> QED
    BY <2>6, <2>8, <2>10
<1>6. CASE ~(run.ok /\ -native <= Fund)
  <2> DEFINE w == [sol |-> Fund - fees, base |-> plan.eval.amountIn, inter |-> 0, withheld |-> 0]
             acct == ReconcileAttempt(plan.eval.pnl, 0, 0, plan.eval.pnl, 0, TRUE)
  <2>1. r = [made |-> TRUE, ok |-> FALSE, created |-> {}, verdict |-> Verdict,
             wallet |-> w, matchesQuote |-> FALSE, acct |-> acct,
             recovery |-> NoRecovery]
    BY <1>1, <1>6
  <2>2. w \in [{"sol", "base", "inter", "withheld"} -> Nat]
    BY <1>2
  <2>3. /\ ~acct.complete /\ acct.complete \in BOOLEAN
        /\ acct = [net |-> acct.net, locked |-> acct.locked, liquid |-> acct.liquid,
                   unexplained |-> acct.unexplained, complete |-> acct.complete]
    BY DEF ReconcileAttempt
  <2> HIDE DEF w, acct
  <2> QED
    BY <2>1, <2>2, <2>3 DEF Accounted
<1> QED
  BY <1>5, <1>6

\* After a recovery, where the lamports of a complete report are.
Returned(r) ==
  r.ok /\ r.acct.complete =>
    LET moved == r.wallet.sol + r.wallet.base - Fund - plan.eval.amountIn
        left == r.wallet.inter + r.wallet.withheld
    IN  /\ moved = r.acct.liquid + r.recovery.netRecovered
        /\ IF r.recovery.closed = r.created
           THEN left = 0 /\ moved = r.acct.net - BaseFee
           ELSE left > 0 /\ r.recovery.closed = {}
                /\ moved = r.acct.net - r.acct.locked - BaseFee

LEMMA RecoveredIsReturned ==
  ASSUME PlanOK, NEW r, Accounted(r), NEW n, n = Recovered(r)
  PROVE  Returned(n)
<1> DEFINE closes == CloseSucceeds(r.wallet)
           change == (IF closes THEN LamportsOf(r.created) ELSE 0) - BaseFee
           closed == IF closes THEN r.created ELSE {}
           recovery == [closed |-> closed, netRecovered |-> NetRecovered(closes, change)]
           deposits == LamportsOf(Deposits(plan.circuit))
           earned == r.wallet.base - plan.eval.amountIn
           spent == Fund - r.wallet.sol
<1>1. CASE ~r.ok
  <2>1. r.created = {} /\ ~r.acct.complete
    BY <1>1 DEF Accounted
  <2>2. n = r
    BY <2>1, Zenon DEF Recovered
  <2> QED
    BY <1>1, <2>2 DEF Returned
<1>2. CASE r.ok
  <2>1. /\ r.wallet \in [{"sol", "base", "inter", "withheld"} -> Nat]
        /\ DOMAIN r = {"made", "ok", "created", "verdict", "wallet", "matchesQuote", "acct",
                      "recovery"}
        /\ r.created = Deposits(plan.circuit) /\ r.acct.net = earned - ExternalCosts
        /\ r.acct.locked = deposits /\ r.acct.liquid = earned - spent
        /\ r.acct.complete <=> spent - ExternalCosts - deposits = 0
    BY <1>2 DEF Accounted
  <2>2. r.created # {}
    BY <2>1 DEF Deposits
  <2>3. n = [r EXCEPT !.wallet.sol = @ + change, !.recovery = recovery]
    BY <2>2, Zenon DEF Recovered
  <2>4. /\ n.ok = r.ok /\ n.created = r.created
        /\ n.wallet = [r.wallet EXCEPT !.sol = @ + change] /\ n.acct = r.acct
        /\ n.recovery = recovery
    <3> HIDE DEF change, recovery
    <3> QED
      BY <2>1, <2>3
  <2>5. /\ n.acct.net = r.acct.net /\ n.acct.locked = r.acct.locked
        /\ n.acct.liquid = r.acct.liquid /\ n.acct.complete = r.acct.complete
        /\ n.recovery.closed = closed /\ n.recovery.netRecovered = NetRecovered(closes, change)
    <3> HIDE DEF closed, change, closes
    <3> QED
      BY <2>4
  <2>6. /\ n.wallet.sol = r.wallet.sol + change /\ n.wallet.base = r.wallet.base
        /\ n.wallet.inter = r.wallet.inter /\ n.wallet.withheld = r.wallet.withheld
    <3> HIDE DEF change
    <3> QED
      BY <2>1, <2>4
  <2>7. /\ r.wallet.sol \in Nat /\ r.wallet.base \in Nat /\ r.wallet.inter \in Nat
        /\ r.wallet.withheld \in Nat /\ deposits \in Nat /\ BaseFee \in Nat
        /\ plan.eval.amountIn \in Nat /\ ExternalCosts \in Nat /\ Fund \in Nat
    BY <2>1, PlanIsNumbers, DepositsAreLamports, CostsAreAmounts
  <2>8. change = (IF closes THEN deposits ELSE 0) - BaseFee
    BY <2>1
  <2>9. NetRecovered(closes, change) = change
    BY <2>7, <2>8 DEF NetRecovered
  <2> HIDE DEF change, recovery, deposits
  <2> SUFFICES ASSUME n.acct.complete PROVE Returned(n)
    BY DEF Returned
  <2>10. spent - ExternalCosts - deposits = 0
    BY <2>1, <2>5
  <2>11. CASE closes
    <3>1. r.wallet.inter = 0 /\ r.wallet.withheld = 0
      BY <2>11 DEF CloseSucceeds
    <3>2. closed = r.created /\ change = deposits - BaseFee
      BY <2>8, <2>11
    <3> QED
      BY <2>1, <2>4, <2>5, <2>6, <2>7, <2>9, <2>10, <3>1, <3>2 DEF Returned
  <2>12. CASE ~closes
    <3>1. r.wallet.inter # 0 \/ r.wallet.withheld # 0
      BY <2>12 DEF CloseSucceeds
    <3>2. closed = {} /\ change = -BaseFee /\ closed # r.created
      BY <2>2, <2>7, <2>8, <2>12
    <3>3. n.wallet.inter + n.wallet.withheld > 0
      BY <2>6, <2>7, <3>1
    <3>4. n.recovery.closed # n.created /\ n.recovery.closed = {}
      BY <2>4, <2>5, <3>2
    <3> DEFINE moved == n.wallet.sol + n.wallet.base - Fund - plan.eval.amountIn
    <3>5. /\ moved = n.acct.liquid + n.recovery.netRecovered
          /\ moved = n.acct.net - n.acct.locked - BaseFee
      BY <2>1, <2>5, <2>6, <2>7, <2>9, <2>10, <3>2
    <3> QED
      BY <3>3, <3>4, <3>5 DEF Returned
  <2> QED
    BY <2>11, <2>12
<1> QED
  BY <1>1, <1>2 DEF Accounted

-----------------------------------------------------------------------------
(* The probe.                                                              *)

PInv ==
  /\ Inv
  /\ stage \in {"idle", "sized", "probed", "recovered"}
  /\ stage # "idle" => PlanOK
  /\ stage = "probed" => Accounted(report) /\ (report.ok => report.wallet.base >= plan.eval.quoteB.out)
  /\ stage = "recovered" => Returned(report)

\* A circuit of kept pools is sound.
LEMMA KeptIsSound ==
  ASSUME Inv, NEW c \in EnumerateCircuits(KeptPools(pools))
  PROVE  SoundCircuit(pools, c)
<1>1. c.a \in KeptPools(pools) /\ c.b \in KeptPools(pools)
  BY DEF EnumerateCircuits
<1>2. ASSUME NEW p \in KeptPools(pools)
      PROVE  p \in Pools /\ SoundPool(Info[p], pools[p])
  <2>1. p \in Pools /\ ValidatePool(Info[p], pools[p])
    BY DEF KeptPools
  <2>2. IsRay(Info[p]) => RatesSound(Info[p])
    BY <2>1 DEF ValidatePool, RayValid
  <2> QED
    BY <2>1, <2>2, PoolsAssumption DEF SoundPool, Inv, PoolsOK
<1> QED
  BY <1>1, <1>2 DEF SoundCircuit

\* A size is planned on the pools as they are seen.
LEMMA SizeKeeps ==
  ASSUME Inv, NEW c, Size(c)
  PROVE  PlanOK'
<1>1. c \in EnumerateCircuits(KeptPools(pools))
  BY DEF Size
<1>2. PICK best \in {SizeCircuit(pools, c)} :
        /\ best.ok
        /\ plan' = [made |-> TRUE, circuit |-> c, eval |-> best,
                    seen |-> [p \in {c.a, c.b} |-> pools[p]]]
  BY DEF Size
<1> DEFINE seen == [p \in {c.a, c.b} |-> pools[p]]
<1>3. plan'.circuit = c /\ plan'.eval = best /\ plan'.seen = seen
  <2> HIDE DEF seen
  <2> QED
    BY <1>2 DEF seen
<1>4. SoundCircuit(pools, c)
  BY <1>1, KeptIsSound
<1>5. best = SizeCircuit(pools, c) /\ best.ok
  BY <1>2
<1> HIDE DEF seen
<1>6. /\ Earning(pools, c, best)
      /\ \A g \in Sizes :
           LET r == EvaluateCircuit(pools, c, g)
           IN  r.ok => r.pnl <= best.pnl
  BY <1>4, <1>5, SizeIsSound
<1>7. seen[c.a] = pools[c.a] /\ seen[c.b] = pools[c.b] /\ DOMAIN seen = {c.a, c.b}
  BY DEF seen
<1>8. ASSUME NEW x PROVE EvaluateCircuit(pools, c, x) = EvaluateCircuit(seen, c, x)
  BY <1>7, Zenon DEF EvaluateCircuit
<1>9. Earning(seen, c, best)
  BY <1>6, <1>8 DEF Earning
<1>10. \A g \in Sizes :
         LET r == EvaluateCircuit(seen, c, g)
         IN  r.ok => r.pnl <= best.pnl
  BY <1>6, <1>8
<1>11. SoundCircuit(seen, c)
  BY <1>4, <1>7 DEF SoundCircuit
<1> QED
  BY <1>3, <1>7, <1>9, <1>10, <1>11 DEF PlanOK

LEMMA ProbeInit == Init => PInv
BY InitKeeps DEF Init, PInv

\* Every step of the probe keeps the accounts right.
LEMMA ProbeStep ==
  ASSUME PInv, [Next]_vars
  PROVE  PInv'
<1>1. Inv'
  BY StepKeeps DEF PInv
<1>2. CASE UNCHANGED vars
  BY <1>1, <1>2 DEF vars, PInv, PlanOK, Accounted, Returned
<1>3. CASE Interfere
  <2>1. stage \in {"idle", "sized"} /\ UNCHANGED <<stage, plan, report>>
    BY <1>3 DEF Interfere
  <2> QED
    BY <1>1, <2>1 DEF PInv, PlanOK
<1>4. ASSUME NEW c \in [a : Pools, b : Pools], Size(c) PROVE PInv'
  <2>1. PlanOK'
    BY <1>4, SizeKeeps DEF PInv
  <2>2. stage' = "sized"
    BY <1>4 DEF Size
  <2> QED
    BY <1>1, <2>1, <2>2 DEF PInv
<1>5. ASSUME NEW s \in Surprises, LocalProbe(s) PROVE PInv'
  <2>1. /\ stage = "sized" /\ stage' = "probed" /\ report' = Report(RunDirect, s)
        /\ UNCHANGED <<pools, plan>> /\ Built
    BY <1>5 DEF LocalProbe, Built
  <2>2. PlanOK /\ Inv
    BY <2>1 DEF PInv
  <2>3. PlanOK'
    BY <2>1, <2>2 DEF PlanOK
  <2> DEFINE r == Report(RunDirect, s)
             run == RunDirect
  <2>4. Ran(run)
    BY <2>1, <2>2, DirectIsNumbers
  <2>5. r = Report(run, s)
    OBVIOUS
  <2>6. Accounted(r) /\ (r.ok => r.wallet.base >= plan.eval.quoteB.out)
    <3> HIDE DEF r, run
    <3> QED
      BY <2>2, <2>4, <2>5, ReportIsAccounted
  <2>7. report' = r
    BY <2>1
  <2> HIDE DEF r, run
  <2>8. Accounted(report)' /\ (report'.ok => report'.wallet.base >= plan'.eval.quoteB.out)
    BY <2>1, <2>6, <2>7 DEF Accounted
  <2> QED
    BY <1>1, <2>1, <2>3, <2>8 DEF PInv
<1>6. CASE Recover
  <2>1. /\ stage = "probed" /\ stage' = "recovered" /\ report' = Recovered(report)
        /\ UNCHANGED <<pools, plan>>
    BY <1>6, Zenon DEF Recover
  <2>2. PlanOK /\ Accounted(report)
    BY <2>1 DEF PInv
  <2>3. PlanOK'
    BY <2>1, <2>2 DEF PlanOK
  <2> DEFINE n == Recovered(report)
  <2>4. Returned(n)
    <3>1. n = Recovered(report)
      OBVIOUS
    <3> HIDE DEF n
    <3> QED
      BY <2>2, <3>1, RecoveredIsReturned
  <2>5. report' = n
    BY <2>1
  <2> HIDE DEF n
  <2>6. Returned(report)'
    BY <2>1, <2>4, <2>5 DEF Returned
  <2> QED
    BY <1>1, <2>1, <2>3, <2>6 DEF PInv
<1>7. CASE Proceed
  BY <1>1, <1>7 DEF Proceed, PInv
<1> QED
  BY <1>2, <1>3, <1>4, <1>5, <1>6, <1>7 DEF Next

(***************************************************************************)
(* For any pools, fees, grid, cap and number of refinements, the size that *)
(* is chosen earns something within the cap, and no size of the grid       *)
(* within the cap earns more.                                              *)
(***************************************************************************)
THEOREM ChosenIsBest == Spec => []SizeIsBest
<1>1. PInv => SizeIsBest
  <2> SUFFICES ASSUME PInv, stage = "sized" PROVE SizeIsBest
    BY DEF SizeIsBest
  <2>1. PlanOK
    BY DEF PInv
  <2>2. /\ plan.eval.amountIn \in Nat /\ plan.eval.amountIn <= MaxCapital
        /\ plan.eval.quoteA.amountIn \in Nat
        /\ plan.eval.quoteA.amountIn <= plan.eval.amountIn /\ plan.eval.pnl > 0
        /\ MaxCapital \in Nat
    BY <2>1, PlanIsNumbers, MarketAssumption
  <2>3. ASSUME NEW g \in Grid, g <= MaxCapital,
               EvaluateCircuit(plan.seen, plan.circuit, g).ok
        PROVE  EvaluateCircuit(plan.seen, plan.circuit, g).pnl <= plan.eval.pnl
    <3> DEFINE r == EvaluateCircuit(plan.seen, plan.circuit, g)
    <3>1. r = EvaluateCircuit(plan.seen, plan.circuit, g) /\ r.ok
      BY <2>3
    <3>2. g > 0
      <4> HIDE DEF r
      <4> QED
        BY <3>1, CircuitParts
    <3>3. g \in Sizes
      BY <2>3, <3>2 DEF Sizes
    <3> QED
      BY <2>1, <2>3, <3>3 DEF PlanOK
  <2>4. plan.eval.quoteA.amountIn <= MaxCapital
    BY <2>2
  <2> QED
    BY <2>2, <2>3, <2>4 DEF SizeIsBest
<1> QED
  BY <1>1, ProbeInit, ProbeStep, PTL DEF Spec

(***************************************************************************)
(* Whatever others trade before a probe and whatever the exchanges charge, *)
(* a report calls itself complete exactly when every lamport is explained, *)
(* and the wallet then moved by what it says.                              *)
(***************************************************************************)
THEOREM CompleteReports == Spec => []CompleteIsTrue
<1>1. PInv => CompleteIsTrue
  <2> SUFFICES ASSUME PInv, stage = "probed" PROVE CompleteIsTrue
    BY DEF CompleteIsTrue
  <2> DEFINE w == report.wallet
             acct == report.acct
             deposits == LamportsOf(Deposits(plan.circuit))
             earned == w.base - plan.eval.amountIn
             spent == Fund - w.sol
             moved == w.sol + w.base - Fund - plan.eval.amountIn
  <2>1. PlanOK /\ Accounted(report)
    BY DEF PInv
  <2>2. /\ w \in [{"sol", "base", "inter", "withheld"} -> Nat]
        /\ ~report.ok => ~acct.complete
        /\ report.ok => /\ acct.net = earned - ExternalCosts /\ acct.locked = deposits
                        /\ acct.liquid = earned - spent
                        /\ acct.complete <=> spent - ExternalCosts - deposits = 0
    BY <2>1, Zenon DEF Accounted
  <2>3. /\ w.sol \in Nat /\ w.base \in Nat /\ deposits \in Nat /\ Fund \in Nat
        /\ plan.eval.amountIn \in Nat /\ ExternalCosts \in Nat
    BY <2>1, <2>2, PlanIsNumbers, DepositsAreLamports, CostsAreAmounts
  <2> HIDE DEF w, acct, deposits
  <2>4. spent - ExternalCosts - deposits = 0 <=> w.sol + ExternalCosts + deposits = Fund
    BY <2>3
  <2>5. acct.complete <=> report.ok /\ w.sol + ExternalCosts + deposits = Fund
    <3> HIDE DEF spent
    <3> QED
      BY <2>2, <2>4
  <2>6. acct.complete => /\ moved = acct.liquid /\ moved = acct.net - acct.locked
                         /\ acct.locked = deposits
    BY <2>2, <2>3, <2>5
  <2> QED
    BY <2>2, <2>5, <2>6 DEF CompleteIsTrue, w, acct, deposits
<1> QED
  BY <1>1, ProbeInit, ProbeStep, PTL DEF Spec

(***************************************************************************)
(* After the recovery of a complete report every deposit is back, or none  *)
(* is because tokens of the intermediate mint are left.                    *)
(***************************************************************************)
THEOREM DepositsComeBack == Spec => []DepositsReturn
<1>1. PInv => DepositsReturn
  BY DEF PInv, Returned, DepositsReturn
<1> QED
  BY <1>1, ProbeInit, ProbeStep, PTL DEF Spec

-----------------------------------------------------------------------------
(* The budget of a purchase.                                               *)

\* A quotient rounds down, and keeps the order.
LEMMA QuotientRounds ==
  ASSUME NEW x \in Nat, NEW y \in Nat, NEW m \in Nat \ {0}, x <= y
  PROVE  x < m * (x \div m) + m /\ x \div m <= y \div m
<1>1. x < m * (x \div m) + m /\ y < m * (y \div m) + m
  BY SMT
<1> DEFINE p == x \div m
           q == y \div m
<1>2. p \in Nat /\ q \in Nat /\ m * p <= x
  BY Quotient
<1>3. y < m * q + m
  BY <1>1
<1> HIDE DEF p, q
<1>4. p <= q
  <2> SUFFICES ASSUME p >= q + 1 PROVE FALSE
    BY <1>2
  <2>1. p * m >= (q + 1) * m
    BY <1>2, Monotone
  <2>2. p * m = m * p /\ (q + 1) * m = m * q + m /\ m * p \in Nat /\ m * q \in Nat
    BY <1>2, ProductOfNaturals, SMT
  <2> QED
    BY <1>2, <1>3, <2>1, <2>2
<1> QED
  BY <1>1, <1>4 DEF p, q

\* A fee of PumpSwap is a share or more, and grows with the amount.
LEMMA FeeCeilGrows ==
  ASSUME NEW x \in Nat, NEW y \in Nat, NEW bps \in Nat, x <= y
  PROVE  /\ FeeCeil(x, bps) \in Nat /\ FeeCeil(x, bps) <= FeeCeil(y, bps)
         /\ BpsDenominator * FeeCeil(x, bps) >= x * bps
<1>1. x * bps \in Nat /\ y * bps \in Nat /\ x * bps <= y * bps /\ BpsDenominator \in Nat \ {0}
  BY ProductOfNaturals, Monotone, BpsAssumption
<1> DEFINE a == x * bps
           b == y * bps
           m == BpsDenominator
           q == (a + m - 1) \div m
<1> HIDE DEF a, b, m
<1>2. /\ a + m - 1 \in Nat /\ b + m - 1 \in Nat /\ a + m - 1 <= b + m - 1 /\ m \in Nat \ {0}
      /\ a \in Nat
  BY <1>1 DEF a, b, m
<1>3. a + m - 1 < m * q + m /\ q <= (b + m - 1) \div m
  BY <1>2, QuotientRounds
<1>4. q \in Nat
  BY <1>2, Quotient
<1> HIDE DEF q
<1>5. m * q \in Nat
  BY <1>2, <1>4, ProductOfNaturals
<1>6. m * q >= a
  BY <1>2, <1>3, <1>5
<1> QED
  BY <1>3, <1>4, <1>6 DEF FeeCeil, a, b, m, q

\* So do the fees of a schedule together.
LEMMA FeesGrow ==
  ASSUME NEW x \in Nat, NEW y \in Nat, x <= y, NEW fees \in FeeSchedule
  PROVE  /\ Total(FeesOn(x, fees)) \in Nat
         /\ Total(FeesOn(x, fees)) <= Total(FeesOn(y, fees))
         /\ BpsDenominator * Total(FeesOn(x, fees)) >= x * Total(fees)
<1> DEFINE X(bps) == FeeCeil(x, bps)
           Y(bps) == FeeCeil(y, bps)
<1>1. fees.lp \in Nat /\ fees.protocol \in Nat /\ fees.creator \in Nat
  BY DEF FeeSchedule
<1>2. \A bps \in Nat : /\ X(bps) \in Nat /\ Y(bps) \in Nat /\ X(bps) <= Y(bps)
                        /\ BpsDenominator * X(bps) >= x * bps
  <2> SUFFICES ASSUME NEW bps \in Nat
               PROVE  /\ X(bps) \in Nat /\ Y(bps) \in Nat /\ X(bps) <= Y(bps)
                      /\ BpsDenominator * X(bps) >= x * bps
    OBVIOUS
  <2>1. y <= y
    OBVIOUS
  <2>2. FeeCeil(y, bps) \in Nat
    BY <2>1, FeeCeilGrows
  <2>3. /\ FeeCeil(x, bps) \in Nat /\ FeeCeil(x, bps) <= FeeCeil(y, bps)
        /\ BpsDenominator * FeeCeil(x, bps) >= x * bps
    BY FeeCeilGrows
  <2> QED
    BY <2>2, <2>3
<1>3. /\ Total(FeesOn(x, fees)) = X(fees.lp) + X(fees.protocol) + X(fees.creator)
      /\ Total(FeesOn(y, fees)) = Y(fees.lp) + Y(fees.protocol) + Y(fees.creator)
      /\ Total(fees) = fees.lp + fees.protocol + fees.creator
  BY DEF Total, FeesOn
<1> HIDE DEF X, Y
<1> DEFINE a == X(fees.lp)
           b == X(fees.protocol)
           c == X(fees.creator)
           m == BpsDenominator
<1>4. /\ a \in Nat /\ b \in Nat /\ c \in Nat /\ m \in Nat
      /\ m * a >= x * fees.lp /\ m * b >= x * fees.protocol /\ m * c >= x * fees.creator
  BY <1>1, <1>2, BpsAssumption
<1> HIDE DEF a, b, c, m
<1>5. m * (a + b + c) = m * a + m * b + m * c
  BY <1>4, SMT
<1>6. x * (fees.lp + fees.protocol + fees.creator)
        = x * fees.lp + x * fees.protocol + x * fees.creator
  BY <1>1, SMT
<1>7. /\ m * a \in Nat /\ m * b \in Nat /\ m * c \in Nat
      /\ x * fees.lp \in Nat /\ x * fees.protocol \in Nat /\ x * fees.creator \in Nat
  BY <1>1, <1>4, ProductOfNaturals
<1>8. m * (a + b + c) >= x * (fees.lp + fees.protocol + fees.creator)
  BY <1>4, <1>5, <1>6, <1>7
<1> QED
  BY <1>1, <1>2, <1>3, <1>8 DEF a, b, c, m

\* The floor of a budget is the largest amount that fits with its fees, in proportion.
LEMMA FloorIsLargest ==
  ASSUME NEW fees \in FeeSchedule, NEW b \in Nat, NEW x \in Nat,
         (BpsDenominator + Total(fees)) * x <= b * BpsDenominator
  PROVE  x <= Floor(fees, b)
<1> DEFINE m == BpsDenominator + Total(fees)
           y == b * BpsDenominator
           q == y \div m
<1>1. Total(fees) \in Nat /\ m \in Nat \ {0} /\ y \in Nat /\ m * x <= y
  <2>1. Total(fees) \in Nat
    BY DEF Total, FeeSchedule
  <2> QED
    BY <2>1, BpsAssumption, ProductOfNaturals
<1>2. q = Floor(fees, b)
  BY DEF Floor
<1> HIDE DEF m, y
<1>3. y < m * q + m /\ q \in Nat
  BY <1>1, QuotientRounds, Quotient
<1> HIDE DEF q
<1>4. SUFFICES ASSUME x >= q + 1 PROVE FALSE
  BY <1>2, <1>3
<1>5. x * m >= (q + 1) * m
  BY <1>1, <1>3, <1>4, Monotone
<1>6. x * m = m * x /\ (q + 1) * m = m * q + m /\ m * x \in Nat /\ m * q \in Nat
  BY <1>1, <1>3, ProductOfNaturals, SMT
<1> QED
  BY <1>1, <1>3, <1>5, <1>6

\* What was paid with a budget buys the same again as a budget, and one unit
\* more buys the same or takes more.
LEMMA PaidIsEnough ==
  ASSUME NEW fees \in FeeSchedule, NEW B \in Nat, NEW T, T = Paid(fees, B)
  PROVE  /\ T \in Nat /\ T <= B
         /\ Paid(fees, T) = T /\ OnCurve(fees, T) = OnCurve(fees, B)
         /\ Paid(fees, T + 1) <= T =>
              Paid(fees, T + 1) = T /\ OnCurve(fees, T + 1) = OnCurve(fees, B)
<1> DEFINE m == BpsDenominator
           f == Total(fees)
           G(x) == Total(FeesOn(x, fees))
           Fl(b) == Floor(fees, b)
<1>1. /\ f \in Nat /\ m \in Nat \ {0}
      /\ \A b \in Nat : /\ Fl(b) \in Nat /\ (m + f) * Fl(b) <= b * m
  <2>1. f \in Nat
    BY DEF Total, FeeSchedule
  <2>2. ASSUME NEW b \in Nat PROVE Fl(b) \in Nat /\ (m + f) * Fl(b) <= b * m
    <3>1. b * m \in Nat /\ m + f \in Nat \ {0}
      BY <2>1, ProductOfNaturals, BpsAssumption
    <3> DEFINE y == b * m
               n == m + f
    <3>2. Fl(b) = y \div n
      BY DEF Floor
    <3> HIDE DEF y, n
    <3>3. y \div n \in Nat /\ n * (y \div n) <= y
      BY <3>1, Quotient DEF y, n
    <3> QED
      BY <3>2, <3>3 DEF y, n
  <2> QED
    BY <2>1, <2>2, BpsAssumption
<1>2. \A b, x \in Nat : (m + f) * x <= b * m => x <= Fl(b)
  BY FloorIsLargest
<1>3. \A x, y \in Nat : x <= y => G(x) \in Nat /\ G(x) <= G(y) /\ m * G(x) >= x * f
  BY FeesGrow
<1>4. \A b : /\ OnCurve(fees, b) = IF Fl(b) + G(Fl(b)) > b THEN b - G(Fl(b)) ELSE Fl(b)
             /\ Paid(fees, b) = IF Fl(b) + G(Fl(b)) > b THEN b ELSE Fl(b) + G(Fl(b))
  BY DEF OnCurve, Paid, FeesOnFloor
<1> HIDE DEF m, f, G, Fl
<1>9. \A b \in Nat : Fl(b) \in Nat /\ G(Fl(b)) \in Nat
  <2>1. \A x \in Nat : x <= x
    OBVIOUS
  <2> QED
    BY <1>1, <1>3, <2>1
<1>5. \A b, c \in Nat : b <= c => Fl(b) <= Fl(c) /\ G(Fl(b)) <= G(Fl(c))
  <2> SUFFICES ASSUME NEW b \in Nat, NEW c \in Nat, b <= c
               PROVE  Fl(b) <= Fl(c) /\ G(Fl(b)) <= G(Fl(c))
    OBVIOUS
  <2>1. b * m <= c * m /\ b * m \in Nat /\ c * m \in Nat
    BY <1>1, Monotone, ProductOfNaturals
  <2>2. (m + f) * Fl(b) <= b * m /\ Fl(b) \in Nat /\ Fl(c) \in Nat /\ m + f \in Nat
    BY <1>1
  <2>3. (m + f) * Fl(b) <= c * m
    <3>1. (m + f) * Fl(b) \in Nat
      BY <2>2, ProductOfNaturals
    <3> QED
      BY <2>1, <2>2, <3>1
  <2>4. Fl(b) <= Fl(c)
    BY <1>2, <2>2, <2>3
  <2> QED
    BY <1>3, <2>2, <2>4
<1> DEFINE floor == Fl(B)
           fee == G(floor)
<1>6. floor \in Nat /\ fee \in Nat
  BY <1>1, <1>3
<1>7. CASE floor + fee > B
  <2>1. T = B
    BY <1>4, <1>7
  <2>2. Paid(fees, B + 1) > B
    <3>1. B + 1 \in Nat /\ Fl(B + 1) \in Nat /\ G(Fl(B + 1)) \in Nat
      BY <1>9
    <3>2. Fl(B + 1) >= floor /\ G(Fl(B + 1)) >= fee
      BY <1>5, <3>1
    <3>3. Fl(B + 1) + G(Fl(B + 1)) > B
      BY <1>6, <1>7, <3>1, <3>2
    <3>4. Paid(fees, B + 1) = IF Fl(B + 1) + G(Fl(B + 1)) > B + 1 THEN B + 1
                              ELSE Fl(B + 1) + G(Fl(B + 1))
      BY <1>4
    <3> QED
      BY <3>1, <3>3, <3>4
  <2>3. Paid(fees, B + 1) \in Nat
    <3>1. B + 1 \in Nat /\ Fl(B + 1) \in Nat /\ G(Fl(B + 1)) \in Nat
      BY <1>9
    <3>2. Paid(fees, B + 1) = IF Fl(B + 1) + G(Fl(B + 1)) > B + 1 THEN B + 1
                              ELSE Fl(B + 1) + G(Fl(B + 1))
      BY <1>4
    <3> QED
      BY <3>1, <3>2
  <2>4. ~(Paid(fees, B + 1) <= B)
    BY <2>2, <2>3
  <2>5. B <= B
    OBVIOUS
  <2>6. Paid(fees, B) = B
    BY <2>1
  <2> QED
    BY <2>1, <2>4, <2>5, <2>6
<1>8. CASE ~(floor + fee > B)
  <2>1. T = floor + fee /\ T \in Nat /\ T <= B /\ OnCurve(fees, B) = floor
    BY <1>4, <1>6, <1>8
  <2>2. floor <= Fl(T)
    <3>1. m * fee >= floor * f
      BY <1>3, <1>6
    <3>2. /\ (m + f) * floor = m * floor + floor * f
          /\ T * m = m * floor + m * fee
      BY <1>1, <1>6, <2>1, SMT
    <3>3. m * floor \in Nat /\ floor * f \in Nat /\ m * fee \in Nat
      BY <1>1, <1>6, ProductOfNaturals
    <3>4. (m + f) * floor <= T * m
      BY <3>1, <3>2, <3>3
    <3> QED
      BY <1>2, <1>6, <2>1, <3>4
  <2>3. Fl(T) = floor
    <3>1. Fl(T) <= floor /\ Fl(T) \in Nat
      BY <1>1, <1>5, <2>1
    <3> QED
      BY <1>6, <2>2, <3>1
  <2>4. Paid(fees, T) = T /\ OnCurve(fees, T) = floor
    BY <1>4, <1>6, <2>1, <2>3
  <2>5. ASSUME Paid(fees, T + 1) <= T
        PROVE  Paid(fees, T + 1) = T /\ OnCurve(fees, T + 1) = floor
    <3> DEFINE up == Fl(T + 1)
               more == G(up)
    <3>1. T + 1 \in Nat /\ up \in Nat /\ more \in Nat
      BY <1>9, <2>1
    <3>2. up >= floor /\ more >= fee
      <4>1. Fl(T) <= up /\ G(Fl(T)) <= more
        BY <1>5, <2>1, <3>1
      <4> QED
        BY <2>3, <4>1
    <3>3. /\ Paid(fees, T + 1) = IF up + more > T + 1 THEN T + 1 ELSE up + more
          /\ OnCurve(fees, T + 1) = IF up + more > T + 1 THEN (T + 1) - more ELSE up
      BY <1>4, Zenon
    <3> HIDE DEF up, more, floor, fee
    <3>4. ~(up + more > T + 1) /\ up + more <= T
      BY <2>1, <2>5, <3>1, <3>3
    <3>5. up = floor /\ more = fee
      BY <1>6, <2>1, <3>1, <3>2, <3>4
    <3> QED
      BY <2>1, <3>3, <3>4, <3>5
  <2> QED
    BY <2>1, <2>4, <2>5
<1> QED
  BY <1>6, <1>7, <1>8

\* The budget that an instruction is given buys what was quoted, for what was quoted.
LEMMA BudgetIsHonoured ==
  ASSUME NEW i, NEW d, SoundPool(i, d), ~IsRay(i), NEW B \in Nat,
         NEW r, r = BuyQuoteInput(PumpState(i, d), Schedule(i, PumpState(i, d)), B), r.ok,
         NEW budget, budget = SpendableBudgetFor(i, d, r.total),
         NEW again, again = BuyQuoteInput(PumpState(i, d), Schedule(i, PumpState(i, d)), budget)
  PROVE  /\ budget \in Nat /\ again.ok /\ again.total = r.total /\ again.baseOut = r.baseOut
         /\ r.total <= B
<1> DEFINE s == PumpState(i, d)
           fees == Schedule(i, s)
           T == r.total
           Buy(b) == BuyQuoteInput(s, fees, b)
<1>1. fees \in FeeSchedule
  BY PumpNumbers
<1> HIDE DEF s, fees
<1>2. /\ Priceable(s) /\ OnCurve(fees, B) > 1 /\ Bought(s, OnCurve(fees, B)) > 0
      /\ r.baseOut = Bought(s, OnCurve(fees, B)) /\ T = Paid(fees, B)
  <2>1. r = Buy(B)
    BY DEF s, fees
  <2> QED
    BY <1>1, <2>1, PurchaseParts
<1> HIDE DEF T
<1>3. /\ T \in Nat /\ T <= B /\ Paid(fees, T) = T /\ OnCurve(fees, T) = OnCurve(fees, B)
      /\ Paid(fees, T + 1) <= T => Paid(fees, T + 1) = T /\ OnCurve(fees, T + 1) = OnCurve(fees, B)
  BY <1>1, <1>2, PaidIsEnough
<1>4. T > 0
  <2> DEFINE floor == Floor(fees, B)
             f == FeesOnFloor(fees, B)
  <2>1. floor \in Nat /\ f \in Nat
    BY <1>1, PurchaseParts
  <2>2. /\ T = IF floor + f > B THEN B ELSE floor + f
        /\ OnCurve(fees, B) = IF floor + f > B THEN B - f ELSE floor
    BY <1>2 DEF Paid, OnCurve
  <2> HIDE DEF floor, f
  <2> QED
    BY <1>2, <2>1, <2>2
<1>5. ASSUME NEW b \in Nat, b > 0, OnCurve(fees, b) = OnCurve(fees, B), Paid(fees, b) = T
      PROVE  Buy(b).ok /\ Buy(b).baseOut = r.baseOut /\ Buy(b).total = T
  <2>1. /\ Buy(b).ok <=> /\ Priceable(s) /\ b > 0 /\ OnCurve(fees, b) > 1
                         /\ Bought(s, OnCurve(fees, b)) > 0
        /\ Buy(b).ok => /\ Buy(b).baseOut = Bought(s, OnCurve(fees, b))
                        /\ Buy(b).total = Paid(fees, b)
    <3>1. Purchase(s, fees, b, Buy(b))
      BY <1>1, BuysAsPaid
    <3> HIDE DEF Buy
    <3> QED
      BY <3>1 DEF Purchase
  <2> HIDE DEF Buy
  <2>2. Buy(b).ok
    BY <1>2, <1>5, <2>1
  <2> QED
    BY <1>2, <1>5, <2>1, <2>2
<1>6. Buy(T).ok /\ Buy(T).baseOut = r.baseOut /\ Buy(T).total = T
  BY <1>3, <1>4, <1>5
<1>7. BudgetFits(i, d, T, T)
  <2>1. Buy(T).ok /\ Buy(T).total <= T
    BY <1>3, <1>6
  <2> QED
    BY <2>1 DEF BudgetFits, s, fees
<1>8. CASE BudgetFits(i, d, T + 1, T)
  <2>1. Buy(T + 1).ok /\ Buy(T + 1).total <= T
    BY <1>8 DEF BudgetFits, s, fees
  <2>2. T + 1 \in Nat /\ T + 1 > 0
    BY <1>3
  <2>3. Paid(fees, T + 1) <= T
    <3>1. Purchase(s, fees, T + 1, Buy(T + 1))
      BY <1>1, <2>2, BuysAsPaid
    <3> HIDE DEF Buy
    <3> QED
      BY <2>1, <3>1 DEF Purchase
  <2>4. Buy(T + 1).ok /\ Buy(T + 1).baseOut = r.baseOut /\ Buy(T + 1).total = T
    BY <1>3, <1>5, <2>2, <2>3
  <2>5. budget = T + 1
    BY <1>8 DEF SpendableBudgetFor, T
  <2>6. again = Buy(T + 1)
    BY <2>5 DEF s, fees
  <2> HIDE DEF Buy
  <2> QED
    BY <1>3, <2>2, <2>4, <2>5, <2>6 DEF T
<1>9. CASE ~BudgetFits(i, d, T + 1, T)
  <2>1. budget = T
    BY <1>7, <1>9 DEF SpendableBudgetFor, T
  <2>2. again = Buy(T)
    BY <2>1 DEF s, fees
  <2> HIDE DEF Buy
  <2> QED
    BY <1>3, <1>6, <2>1, <2>2 DEF T
<1> QED
  BY <1>8, <1>9

\* The transfer fee of any epoch is at most the one a quote assumes, and can be
\* computed on any amount a token account holds.
LEMMA WorstCaseIsWorst ==
  ASSUME NEW config \in TransferFeeConfig, NEW epoch \in Nat, NEW amount \in U64
  PROVE  /\ GetTransferFee(config, epoch, amount) \in Nat
         /\ GetTransferFee(config, epoch, amount) # Null
         /\ GetTransferFee(config, epoch, amount) <= TransferFeeAmountWorstCase(amount, config)
         /\ ~config.charged => GetTransferFee(config, epoch, amount) = 0
<1>1. CASE ~config.charged
  BY <1>1 DEF GetTransferFee, TransferFeeAmountWorstCase, Null
<1>2. CASE config.charged
  <2>1. amount \in Nat /\ amount <= U64Max /\ U64Max \in Nat
    BY FeeAssumption DEF U64
  <2>2. ASSUME NEW tier \in TransferFeeTier
        PROVE  /\ CalculateFee(tier, amount) \in Nat
               /\ CalculateFee(tier, amount) <= TransferFeeAmount(amount, tier)
               /\ TransferFeeAmount(amount, tier) \in Nat
    <3> DEFINE raw == (amount * tier.bps + MaxFeeBasisPoints - 1) \div MaxFeeBasisPoints
    <3>1. tier.bps \in 0..MaxFeeBasisPoints /\ tier.maxFee \in Nat
      BY DEF TransferFeeTier
    <3>2. raw \in Nat /\ raw <= amount
      BY <2>1, <3>1, FeeAssumption, CeilWithin
    <3>3. CalculateFee(tier, amount) =
            IF tier.bps = 0 \/ amount = 0 THEN 0
            ELSE IF raw > U64Max THEN Null
            ELSE IF raw < tier.maxFee THEN raw
            ELSE tier.maxFee
      BY DEF CalculateFee
    <3>4. TransferFeeAmount(amount, tier) = IF raw > tier.maxFee THEN tier.maxFee ELSE raw
      BY ProbeAssumption DEF TransferFeeAmount
    <3> HIDE DEF raw
    <3> QED
      BY <2>1, <3>1, <3>2, <3>3, <3>4
  <2>3. /\ config.older \in TransferFeeTier /\ config.newer \in TransferFeeTier
        /\ EpochFeeTier(config, epoch) \in {config.older, config.newer}
    BY <1>2, Tiers
  <2>4. GetTransferFee(config, epoch, amount) = CalculateFee(EpochFeeTier(config, epoch), amount)
    BY <1>2 DEF GetTransferFee
  <2> DEFINE older == TransferFeeAmount(amount, config.older)
             newer == TransferFeeAmount(amount, config.newer)
  <2>5. TransferFeeAmountWorstCase(amount, config) = IF older > newer THEN older ELSE newer
    BY <1>2 DEF TransferFeeAmountWorstCase
  <2>6. /\ CalculateFee(config.older, amount) \in Nat /\ CalculateFee(config.newer, amount) \in Nat
        /\ CalculateFee(config.older, amount) <= older /\ older \in Nat
        /\ CalculateFee(config.newer, amount) <= newer /\ newer \in Nat
    BY <2>2, <2>3
  <2> HIDE DEF older, newer
  <2>7. CASE EpochFeeTier(config, epoch) = config.older
    BY <1>2, <2>4, <2>5, <2>6, <2>7 DEF Null
  <2>8. CASE EpochFeeTier(config, epoch) = config.newer
    BY <1>2, <2>4, <2>5, <2>6, <2>8 DEF Null
  <2> QED
    BY <2>3, <2>7, <2>8
<1> QED
  BY <1>1, <1>2

-----------------------------------------------------------------------------
(* The legs on pools that did not move.                                    *)

\* The amount a first leg is given: the size itself, or a budget that buys the same.
SameAmount(i, d, x, amount) ==
  IF IsRay(i) THEN amount = x
  ELSE LET s == PumpState(i, d)
           Buy(b) == BuyQuoteInput(s, Schedule(i, s), b)
       IN  /\ Buy(amount).ok /\ Buy(amount).baseOut = Buy(x).baseOut
           /\ Buy(amount).total = Buy(x).total

\* A first leg succeeds, takes what was quoted and brings that or more.
LEMMA FirstLeg ==
  ASSUME NEW p \in Pools, SoundPool(Info[p], pools[p]), NEW x \in Nat,
         NEW q, q = QuoteExactIn(Info[p], pools[p], "wsol", x), q.ok,
         NEW amount \in Nat, SameAmount(Info[p], pools[p], x, amount),
         NEW e, e = Executed(p, "wsol", amount, q.out)
  PROVE  /\ e.ok /\ e.debit = q.amountIn
         /\ e.credit \in Nat /\ e.credit >= q.out /\ e.credit <= pools[p].vault.token
         /\ BringsTheQuote(p) => e.credit = q.out
<1> DEFINE i == Info[p]
           d == pools[p]
           s == PumpState(i, d)
<1>1. CASE IsRay(i)
  <2> DEFINE r == SimulateSwapBaseInput(i, d, "wsol", x)
  <2>0. amount = x
    BY <1>1 DEF SameAmount
  <2>1. RayGate(i, d) /\ r.ok /\ q.amountIn = x /\ q.out = r.received
    <3>1. q = IF RayGate(i, d) /\ r.ok
              THEN [ok |-> TRUE, from |-> "wsol", amountIn |-> x, out |-> r.received,
                    inDelta |-> r.actual, outDelta |-> r.curve.output, hash |-> d.hash]
              ELSE Refused
      BY <1>1, Zenon DEF QuoteExactIn, RayQuote
    <3> HIDE DEF r
    <3> QED
      BY <3>1 DEF Refused
  <2>2. e = IF RayGate(i, d) /\ r.ok /\ r.received >= q.out
            THEN [ok |-> TRUE, debit |-> x, credit |-> r.received,
                  withheld |-> r.curve.output - r.received]
            ELSE Refused
    BY <1>1, <2>0, Zenon DEF Executed
  <2>3. r.received \in Nat /\ r.curve.output \in Nat /\ r.received <= r.curve.output
        /\ r.curve.output <= d.vault["token"] /\ d.vault["token"] \in Nat
    <3>1. Described(i) /\ PoolState(i, d) /\ RatesSound(i)
      BY <1>1 DEF SoundPool
    <3>2. r = SimulateSwapBaseInput(i, d, "wsol", x)
      OBVIOUS
    <3>3. "wsol" \in Side /\ Other("wsol") = "token" /\ "token" \in Side
      BY DEF Side, Other
    <3>4. /\ r.received \in Nat /\ r.curve.output \in U64 /\ r.received <= r.curve.output
          /\ r.curve.output <= d.vault["token"]
      <4> HIDE DEF r
      <4> QED
        BY <1>1, <2>1, <3>1, <3>2, <3>3, SimulationKeeps
    <3>5. d.vault["token"] \in U64
      BY <3>1, <3>3 DEF PoolState
    <3> QED
      BY <3>4, <3>5, FeeAssumption DEF U64
  <2> HIDE DEF r
  <2>4. r.received >= q.out
    BY <2>1, <2>3
  <2>5. e.ok /\ e.debit = x /\ e.credit = r.received
    BY <2>1, <2>2, <2>4
  <2> QED
    BY <2>1, <2>3, <2>5
<1>2. CASE ~IsRay(i)
  <2> DEFINE fees == Schedule(i, s)
             r == BuyQuoteInput(s, fees, amount)
             seen == BuyQuoteInput(s, fees, x)
             config == i.transferFee.token
             worst == TransferFeeAmountWorstCase(seen.baseOut, config)
             w == GetTransferFee(config, d.epoch, r.baseOut)
  <2>1. seen.ok /\ q.amountIn = seen.total /\ q.out = seen.baseOut - worst
    <3>1. q = IF s.base > 0 /\ "buy" \notin i.disabled /\ GateRejects(i) = {} /\ seen.ok
              THEN [ok |-> TRUE, from |-> "wsol", amountIn |-> seen.total,
                    out |-> seen.baseOut - worst,
                    inDelta |-> seen.effective + seen.fees.lp, outDelta |-> seen.baseOut,
                    hash |-> d.hash]
              ELSE Refused
      BY <1>2, Zenon DEF QuoteExactIn, PumpQuote, PumpBuyQuote
    <3> HIDE DEF seen, worst
    <3> QED
      BY <3>1 DEF Refused
  <2>2. r.ok /\ r.baseOut = seen.baseOut /\ r.total = seen.total
    BY <1>2 DEF SameAmount
  <2>3. e = IF r.ok /\ r.baseOut >= q.out /\ w # Null
            THEN [ok |-> TRUE, debit |-> r.total, credit |-> r.baseOut - w, withheld |-> w]
            ELSE Refused
    BY <1>2, Zenon DEF Executed
  <2>4. s.base \in Nat /\ s.quote \in Nat /\ s.virtual \in Int /\ fees \in FeeSchedule
    BY <1>2, PumpNumbers
  <2>5. seen.baseOut \in Nat /\ seen.baseOut <= s.base
    <3>1. seen = BuyQuoteInput(s, fees, x)
      OBVIOUS
    <3> HIDE DEF s, fees, seen
    <3> QED
      BY <2>1, <2>4, <3>1, BuyKeeps
  <2>6. s.base = d.vault["token"] /\ d.vault["token"] \in U64
    BY DEF PumpState, SoundPool, PoolState, Side
  <2>7. seen.baseOut \in U64
    <3> HIDE DEF s, seen
    <3> QED
      BY <2>5, <2>6, FeeAssumption DEF U64
  <2>8. /\ w \in Nat /\ w # Null /\ w <= worst /\ worst \in Nat
        /\ ~config.charged => w = 0 /\ worst = 0
    <3>1. config \in TransferFeeConfig /\ d.epoch \in Nat
      BY <1>2, PumpNumbers
    <3>2. w = GetTransferFee(config, d.epoch, seen.baseOut)
      BY <2>2
    <3> HIDE DEF r, seen, w, config
    <3> QED
      BY <2>5, <2>7, <3>1, <3>2, WorstCaseIsWorst, WorstCaseIsNatural
  <2>9. w <= r.baseOut
    <3>1. config \in TransferFeeConfig /\ d.epoch \in Nat
      BY <1>2, PumpNumbers
    <3> HIDE DEF r, seen, config
    <3> QED
      BY <2>2, <2>5, <2>8, <3>1, TransferFeeWithin
  <2>10. BringsTheQuote(p) => ~config.charged
    BY <1>2 DEF BringsTheQuote
  <2> HIDE DEF s, fees, r, seen, config, worst, w
  <2>11. r.baseOut >= q.out
    BY <2>1, <2>2, <2>5, <2>8
  <2>12. e.ok /\ e.debit = r.total /\ e.credit = r.baseOut - w
    BY <2>2, <2>3, <2>8, <2>11
  <2>13. e.credit \in Nat /\ e.credit >= q.out /\ e.credit <= s.base
    BY <2>1, <2>2, <2>4, <2>5, <2>8, <2>9, <2>12
  <2>14. s.base = pools[p].vault.token
    BY <2>6
  <2>15. BringsTheQuote(p) => e.credit = q.out
    BY <2>1, <2>2, <2>5, <2>8, <2>10, <2>12
  <2> QED
    BY <2>1, <2>2, <2>12, <2>13, <2>14, <2>15
<1> QED
  BY <1>1, <1>2

\* A second leg of the amount that was quoted brings what was quoted.
LEMMA SecondLeg ==
  ASSUME NEW p \in Pools, SoundPool(Info[p], pools[p]), NEW x \in Nat,
         NEW q, q = QuoteExactIn(Info[p], pools[p], "token", x), q.ok,
         NEW minOut \in Int, minOut <= q.out,
         NEW e, e = Executed(p, "token", x, minOut)
  PROVE  e.ok /\ e.debit = x /\ e.credit = q.out
<1> DEFINE i == Info[p]
           d == pools[p]
           s == PumpState(i, d)
<1>0. q.out \in Int
  BY QuoteIsNumbers DEF Side
<1>1. CASE IsRay(i)
  <2> DEFINE r == SimulateSwapBaseInput(i, d, "token", x)
  <2>1. RayGate(i, d) /\ r.ok /\ q.out = r.received
    <3>1. q = IF RayGate(i, d) /\ r.ok
              THEN [ok |-> TRUE, from |-> "token", amountIn |-> x, out |-> r.received,
                    inDelta |-> r.actual, outDelta |-> r.curve.output, hash |-> d.hash]
              ELSE Refused
      BY <1>1, Zenon DEF QuoteExactIn, RayQuote
    <3> HIDE DEF r
    <3> QED
      BY <3>1 DEF Refused
  <2>2. e = IF RayGate(i, d) /\ r.ok /\ r.received >= minOut
            THEN [ok |-> TRUE, debit |-> x, credit |-> r.received,
                  withheld |-> r.curve.output - r.received]
            ELSE Refused
    BY <1>1, Zenon DEF Executed
  <2> HIDE DEF r
  <2>3. r.received >= minOut
    BY <1>0, <2>1
  <2> QED
    BY <2>1, <2>2, <2>3
<1>2. CASE ~IsRay(i)
  <2> DEFINE r == SellBaseInput(s, Schedule(i, s), x)
  <2>1. r.ok /\ q.out = r.userQuoteOut
    <3>1. q = IF s.base > 0 /\ "sell" \notin i.disabled /\ GateRejects(i) = {} /\ r.ok
              THEN [ok |-> TRUE, from |-> "token", amountIn |-> x, out |-> r.userQuoteOut,
                    inDelta |-> x - TransferFeeAmountWorstCase(x, i.transferFee.token),
                    outDelta |-> r.quoteOut - r.fees.lp, hash |-> d.hash]
              ELSE Refused
      <4>1. "token" # "wsol"
        OBVIOUS
      <4> QED
        BY <1>2, <4>1, Zenon DEF QuoteExactIn, PumpQuote, PumpSellQuote
    <3> HIDE DEF r
    <3> QED
      BY <3>1 DEF Refused
  <2>2. e = IF r.ok /\ r.userQuoteOut >= minOut
            THEN [ok |-> TRUE, debit |-> x, credit |-> r.userQuoteOut, withheld |-> 0]
            ELSE Refused
    <3>1. "token" # "wsol"
      OBVIOUS
    <3> QED
      BY <1>2, <3>1, Zenon DEF Executed
  <2> HIDE DEF r
  <2>3. r.userQuoteOut >= minOut
    BY <1>0, <2>1
  <2> QED
    BY <2>1, <2>2, <2>3
<1> QED
  BY <1>1, <1>2

-----------------------------------------------------------------------------
(* What a Raydium pool serves.                                             *)

\* A share that is rounded up.
CeilDiv(a, n, m) == (a * n + m - 1) \div m

\* It is at most what covers it, and it covers what it rounds.
LEMMA CeilCovers ==
  ASSUME NEW a \in Nat, NEW n \in Nat, NEW m \in Nat \ {0}
  PROVE  /\ CeilDiv(a, n, m) \in Nat /\ a * n <= m * CeilDiv(a, n, m)
         /\ \A b \in Nat : a * n <= m * b => CeilDiv(a, n, m) <= b
<1> DEFINE x == a * n
           q == (x + m - 1) \div m
<1>1. x \in Nat
  BY ProductOfNaturals
<1>2. q = CeilDiv(a, n, m)
  BY DEF CeilDiv
<1> HIDE DEF x
<1>3. x + m - 1 \in Nat
  BY <1>1
<1>4. q \in Nat /\ m * q <= x + m - 1 /\ x + m - 1 < m * q + m
  <2>1. x + m - 1 <= x + m - 1
    BY <1>3
  <2> QED
    BY <1>3, <2>1, Quotient, QuotientRounds
<1> HIDE DEF q
<1>5. m * q \in Nat
  BY <1>4, ProductOfNaturals
<1>6. x <= m * q
  BY <1>1, <1>4, <1>5
<1>7. ASSUME NEW b \in Nat, x <= m * b PROVE q <= b
  <2> SUFFICES ASSUME q >= b + 1 PROVE FALSE
    BY <1>4
  <2>1. q * m >= (b + 1) * m
    BY <1>4, Monotone
  <2>2. q * m = m * q /\ (b + 1) * m = m * b + m /\ m * b \in Nat
    BY <1>4, ProductOfNaturals, SMT
  <2> QED
    BY <1>1, <1>4, <1>5, <1>7, <2>1, <2>2
<1> QED
  BY <1>2, <1>4, <1>6, <1>7 DEF x

\* What is left of a larger amount after a fee is no less.
LEMMA RestGrows ==
  ASSUME NEW a \in Nat, NEW b \in Nat, a <= b, NEW m \in Nat \ {0}, NEW n \in 0..m
  PROVE  /\ CeilDiv(a, n, m) \in 0..a /\ CeilDiv(b, n, m) \in 0..b
         /\ a - CeilDiv(a, n, m) <= b - CeilDiv(b, n, m)
<1> DEFINE p == CeilDiv(a, n, m)
           q == CeilDiv(b, n, m)
           more == b - a
<1>1. n \in Nat /\ n <= m /\ more \in Nat
  OBVIOUS
<1>2. p \in Nat /\ q \in Nat /\ p <= a /\ q <= b
  BY CeilWithin DEF CeilDiv
<1>3. a * n <= m * p
  BY <1>1, CeilCovers
<1>4. more * n <= m * more
  <2>1. m * more >= n * more
    BY <1>1, Monotone
  <2>2. n * more = more * n
    BY <1>1, SMT
  <2> QED
    BY <2>1, <2>2
<1>5. b * n = a * n + more * n
  BY <1>1, SMT
<1> HIDE DEF p, more
<1>6. m * (p + more) = m * p + m * more
  BY <1>1, <1>2, SMT
<1>7. /\ a * n \in Nat /\ more * n \in Nat /\ m * p \in Nat /\ m * more \in Nat
  BY <1>1, <1>2, ProductOfNaturals
<1>8. b * n <= m * (p + more)
  BY <1>3, <1>4, <1>5, <1>6, <1>7
<1>9. q <= p + more
  <2>1. p + more \in Nat
    BY <1>1, <1>2
  <2> QED
    BY <1>1, <1>8, <2>1, CeilCovers
<1> HIDE DEF q
<1> QED
  BY <1>2, <1>9 DEF p, q, more

\* A quotient is the largest number that fits.
LEMMA QuotientAbove ==
  ASSUME NEW x \in Nat, NEW m \in Nat \ {0}, NEW b \in Nat, m * b <= x
  PROVE  b <= x \div m
<1> DEFINE q == x \div m
<1>1. q \in Nat /\ x < m * q + m
  <2>1. x <= x
    OBVIOUS
  <2> QED
    BY <2>1, Quotient, QuotientRounds
<1> HIDE DEF q
<1>2. SUFFICES ASSUME b >= q + 1 PROVE FALSE
  BY <1>1 DEF q
<1>3. b * m >= (q + 1) * m
  BY <1>1, <1>2, Monotone
<1>4. b * m = m * b /\ (q + 1) * m = m * q + m /\ m * b \in Nat /\ m * q \in Nat
  BY <1>1, ProductOfNaturals, SMT
<1> QED
  BY <1>1, <1>3, <1>4

\* What the curve gives for an amount, and for a larger one.
Drawn(z, x, y) == (z * y) \div (x + z)

LEMMA DrawnKeeps ==
  ASSUME NEW z \in Nat, NEW x \in Nat, NEW y \in Nat, x + z # 0
  PROVE  /\ Drawn(z, x, y) \in 0..y
         /\ (x + z) * (y - Drawn(z, x, y)) >= x * y
         /\ \A w \in Nat : w <= y /\ x * w <= z * (y - w) => w <= Drawn(z, x, y)
<1> DEFINE m == x + z
           q == Drawn(z, x, y)
<1>1. m \in Nat \ {0} /\ z * y \in Nat /\ x * y \in Nat
  BY ProductOfNaturals
<1>2. m * y = x * y + z * y
  BY SMT
<1>3. q = (z * y) \div m
  BY DEF Drawn
<1> HIDE DEF m, q
<1>4. q \in Nat /\ m * q <= z * y
  BY <1>1, <1>3, Quotient
<1>5. q <= y
  BY <1>1, <1>2, <1>3, QuotientBelow
<1>6. m * (y - q) >= x * y
  <2>1. m * (y - q) = m * y - m * q
    BY <1>1, <1>4, SMT
  <2>2. m * q \in Nat /\ m * y \in Nat
    BY <1>1, <1>4, ProductOfNaturals
  <2> QED
    BY <1>1, <1>2, <1>4, <2>1, <2>2
<1>7. ASSUME NEW w \in Nat, w <= y, x * w <= z * (y - w) PROVE w <= q
  <2>1. m * w = x * w + z * w
    BY SMT DEF m
  <2>2. z * (y - w) = z * y - z * w
    BY SMT
  <2>3. x * w \in Nat /\ z * w \in Nat
    BY ProductOfNaturals
  <2>4. m * w <= z * y
    BY <1>1, <1>7, <2>1, <2>2, <2>3
  <2> QED
    BY <1>1, <1>3, <2>4, QuotientAbove
<1> QED
  BY <1>4, <1>5, <1>6, <1>7 DEF m, q

LEMMA DrawnGrows ==
  ASSUME NEW z \in Nat, NEW more \in Nat, z <= more, NEW x \in Nat, NEW y \in Nat, x + z # 0
  PROVE  Drawn(z, x, y) <= Drawn(more, x, y)
<1> DEFINE q == Drawn(z, x, y)
<1>1. q \in 0..y /\ (x + z) * (y - q) >= x * y
  BY DrawnKeeps
<1> HIDE DEF q
<1>2. /\ (x + z) * (y - q) = x * y - x * q + z * (y - q)
      /\ y - q \in Nat /\ q \in Nat
  <2>1. y - q \in Nat /\ q \in Nat
    BY <1>1
  <2>2. (x + z) * (y - q) = x * (y - q) + z * (y - q)
    BY <2>1, SMT
  <2>3. x * (y - q) = x * y - x * q
    BY <2>1, SMT
  <2> QED
    BY <2>1, <2>2, <2>3
<1>3. x * y \in Nat /\ x * q \in Nat /\ z * (y - q) \in Nat /\ more * (y - q) \in Nat
  BY <1>2, ProductOfNaturals
<1>4. x * q <= z * (y - q)
  BY <1>1, <1>2, <1>3
<1>5. more * (y - q) >= z * (y - q)
  BY <1>2, Monotone
<1>6. x * q <= more * (y - q)
  BY <1>3, <1>4, <1>5
<1>7. x + more # 0
  OBVIOUS
<1>8. \A w \in Nat : w <= y /\ x * w <= more * (y - w) => w <= Drawn(more, x, y)
  BY <1>7, DrawnKeeps
<1>9. q <= Drawn(more, x, y)
  BY <1>1, <1>2, <1>6, <1>8
<1> QED
  BY <1>9 DEF q

\* Products of amounts fit the wider type.
LEMMA ProductsFit ==
  ASSUME NEW a \in U64, NEW b \in U64, NEW c \in U64
  PROVE  a * b \in U128 /\ a * b + c \in U128
<1> DEFINE u == U64Max
<1>1. u \in Nat /\ a \in Nat /\ b \in Nat /\ c \in Nat /\ a <= u /\ b <= u /\ c <= u
  BY FeeAssumption DEF U64
<1>2. (u + 1) * (u + 1) - 1 = u * u + u + u
  BY <1>1, SMT
<1>3. u * b >= a * b /\ u * u >= b * u
  BY <1>1, Monotone
<1>4. b * u = u * b /\ a * b \in Nat /\ u * b \in Nat /\ u * u \in Nat
  BY <1>1, ProductOfNaturals, SMT
<1>5. a * b <= u * u
  BY <1>3, <1>4
<1> HIDE DEF u
<1>6. a * b \in 0 .. (u + 1) * (u + 1) - 1 /\ a * b + c \in 0 .. (u + 1) * (u + 1) - 1
  BY <1>1, <1>2, <1>4, <1>5
<1> QED
  BY <1>6 DEF U128, u

\* So that a fee on an amount is rounded up, and a share of it down.
LEMMA FeesFit ==
  ASSUME NEW a \in U64, NEW n \in U64
  PROVE  /\ FeeCeilDiv(a, n, FeeRateDenominator) = CeilDiv(a, n, FeeRateDenominator)
         /\ \A den \in Nat \ {0} : FeeFloorDiv(a, n, den) = (a * n) \div den
<1>1. FeeRateDenominator \in U64 /\ FeeRateDenominator # 0
  BY FeeAssumption DEF U64
<1>2. a * n \in U128 /\ a * n + FeeRateDenominator \in U128
  BY <1>1, ProductsFit
<1> QED
  BY <1>1, <1>2 DEF FeeCeilDiv, FeeFloorDiv, CeilDiv

\* What is left of an amount after a fee, and what the curve gives in the end.
Left(a, rate) == a - CeilDiv(a, rate, FeeRateDenominator)

Rate(r, onInput) == IF onInput THEN r.trade + r.creator ELSE r.trade

Given(input, x, y, r, onInput) ==
  LET drawn == Drawn(Left(input, Rate(r, onInput)), x, y)
  IN  IF onInput THEN drawn ELSE Left(drawn, r.creator)

SoundRates(r) ==
  /\ r \in Rates
  /\ r.trade + r.creator < FeeRateDenominator /\ r.protocol + r.fund <= FeeRateDenominator

LEMMA RatesAreAmounts ==
  ASSUME NEW r, SoundRates(r), NEW onInput \in BOOLEAN
  PROVE  /\ {r.trade, r.creator, r.protocol, r.fund, Rate(r, onInput)} \subseteq 0..FeeRateDenominator
         /\ {r.trade, r.creator, r.protocol, r.fund, Rate(r, onInput)} \subseteq U64
         /\ FeeRateDenominator \in Nat \ {0}
<1>1. /\ r.trade \in Nat /\ r.creator \in Nat /\ r.protocol \in Nat /\ r.fund \in Nat
      /\ FeeRateDenominator \in Nat \ {0} /\ FeeRateDenominator <= U64Max /\ U64Max \in Nat
  BY FeeAssumption DEF SoundRates, Rates
<1>2. /\ r.trade \in 0..FeeRateDenominator /\ r.creator \in 0..FeeRateDenominator
      /\ r.protocol \in 0..FeeRateDenominator /\ r.fund \in 0..FeeRateDenominator
      /\ Rate(r, onInput) \in 0..FeeRateDenominator
  BY <1>1 DEF SoundRates, Rate
<1> QED
  BY <1>1, <1>2 DEF U64

LEMMA LeftGrows ==
  ASSUME NEW a \in Nat, NEW b \in Nat, a <= b, NEW rate \in 0..FeeRateDenominator
  PROVE  Left(a, rate) \in 0..a /\ Left(b, rate) \in 0..b /\ Left(a, rate) <= Left(b, rate)
<1>1. FeeRateDenominator \in Nat \ {0}
  BY FeeAssumption
<1>2. /\ CeilDiv(a, rate, FeeRateDenominator) \in 0..a
      /\ CeilDiv(b, rate, FeeRateDenominator) \in 0..b
      /\ a - CeilDiv(a, rate, FeeRateDenominator) <= b - CeilDiv(b, rate, FeeRateDenominator)
  BY <1>1, RestGrows
<1> QED
  BY <1>2 DEF Left

\* The curve serves every amount that the vault can take, unless the pool is
\* empty or its config has no rates to split a fee by.
Servable(input, x, y, r, onInput) ==
  /\ input \in U64 /\ x \in Nat /\ x + input \in U64 /\ y \in U64
  /\ SoundRates(r)
  /\ onInput => r.trade + r.creator # 0
  /\ x + Left(input, Rate(r, onInput)) # 0

LEMMA CurveServes ==
  ASSUME NEW input, NEW x, NEW y, NEW r, NEW onInput \in BOOLEAN,
         Servable(input, x, y, r, onInput),
         NEW c, c = CurveSwapBaseInput(input, x, y, r, onInput)
  PROVE  /\ c.ok /\ c.output = Given(input, x, y, r, onInput) /\ c.output \in 0..y
         /\ {c.protocol, c.fund, c.creator} \subseteq U64
         /\ c.newIn * c.newOut \in U128 /\ c.newIn * c.newOut >= x * y
<1> DEFINE D == FeeRateDenominator
           rate == Rate(r, onInput)
           total == CeilDiv(input, rate, D)
           z == input - total
           split == IF onInput THEN (total * r.creator) \div (r.trade + r.creator) ELSE 0
           swapped == Drawn(z, x, y)
           taken == IF onInput THEN 0 ELSE CeilDiv(swapped, r.creator, D)
           trade == total - split
<1>1. /\ input \in Nat /\ x \in Nat /\ y \in Nat /\ input <= U64Max /\ x + input <= U64Max
      /\ y <= U64Max /\ U64Max \in Nat /\ D \in Nat \ {0}
      /\ input \in U64 /\ y \in U64 /\ x \in U64
  BY FeeAssumption DEF Servable, U64
<1>2. /\ rate \in 0..D /\ r.creator \in 0..D /\ r.protocol \in 0..D /\ r.fund \in 0..D
      /\ rate \in U64 /\ r.creator \in U64 /\ r.protocol \in U64 /\ r.fund \in U64
      /\ r.trade \in Nat /\ r.creator \in Nat
  BY RatesAreAmounts DEF Servable, SoundRates, Rates
<1>3. TradingFee(input, IF onInput THEN r.trade + r.creator ELSE r.trade) = total
  BY <1>1, <1>2, FeesFit DEF TradingFee, Rate
<1>4. total \in 0..input /\ z \in 0..input /\ z = Left(input, rate)
  <2>1. input <= input
    BY <1>1
  <2>2. total \in 0..input
    BY <1>1, <1>2, <2>1, RestGrows
  <2> HIDE DEF total
  <2>3. z \in 0..input
    BY <1>1, <2>2
  <2> QED
    BY <2>2, <2>3 DEF Left, total
<1>5. x + z \in Nat \ {0} /\ x + z \in U64 /\ z \in U64 /\ total \in U64
  <2>1. x + z # 0
    BY <1>4 DEF Servable
  <2> HIDE DEF z, total
  <2> QED
    BY <1>1, <1>4, <2>1 DEF U64
<1> HIDE DEF D, rate, total, z
<1>6. split \in 0..total /\ (onInput => SplitCreatorFee(total, r.trade, r.creator) = split)
  <2>1. CASE onInput
    <3>1. r.trade + r.creator \in Nat \ {0} /\ r.creator <= r.trade + r.creator
      BY <1>2, <2>1 DEF Servable
    <3>2. total \in Nat
      BY <1>1, <1>4
    <3>3. (total * r.creator) \div (r.trade + r.creator) \in 0..total
      <4> DEFINE m == r.trade + r.creator
                 n == r.creator
      <4>1. m \in Nat \ {0} /\ n \in Nat /\ n <= m
        BY <1>2, <3>1
      <4> HIDE DEF m, n
      <4>2. (total * n) \div m \in Nat /\ (total * n) \div m <= total
        BY <3>2, <4>1, Part
      <4>3. (total * n) \div m \in 0..total
        BY <3>2, <4>2
      <4> QED
        BY <4>3 DEF m, n
    <3>4. FeeFloorDiv(total, r.creator, r.trade + r.creator)
            = (total * r.creator) \div (r.trade + r.creator)
      BY <1>2, <1>5, <3>1, FeesFit
    <3> QED
      BY <2>1, <3>3, <3>4 DEF SplitCreatorFee
  <2>2. CASE ~onInput
    BY <1>1, <1>4, <2>2
  <2> QED
    BY <2>1, <2>2
<1> HIDE DEF split
<1>7. /\ swapped \in 0..y /\ (x + z) * (y - swapped) >= x * y
      /\ SwapBaseInputWithoutFees(z, x, y) = swapped
  <2>1. z \in Nat
    BY <1>1, <1>4
  <2>2. z * y \in U128 /\ x + z \in U128 \ {0}
    <3>1. x + z \in U128
      <4>1. 0 \in U64 /\ 0 * 0 + (x + z) = x + z
        BY <1>1, <1>5 DEF U64
      <4> QED
        BY <1>5, <4>1, ProductsFit
    <3> QED
      BY <1>1, <1>5, <3>1, ProductsFit
  <2>3. SwapBaseInputWithoutFees(z, x, y) = swapped
    BY <2>2 DEF SwapBaseInputWithoutFees, Drawn
  <2> QED
    BY <1>1, <1>5, <2>1, <2>3, DrawnKeeps
<1> HIDE DEF swapped
<1>8. /\ taken \in 0..swapped
      /\ taken = IF onInput THEN 0 ELSE TradingFee(swapped, r.creator)
  <2>1. swapped \in Nat /\ swapped \in U64 /\ swapped <= swapped
    BY <1>1, <1>7 DEF U64
  <2>2. CeilDiv(swapped, r.creator, D) \in 0..swapped
    BY <1>1, <1>2, <2>1, RestGrows
  <2>3. TradingFee(swapped, r.creator) = CeilDiv(swapped, r.creator, D)
    BY <1>2, <2>1, FeesFit DEF TradingFee, D
  <2> QED
    BY <2>1, <2>2, <2>3
<1> HIDE DEF taken
<1>9. trade \in 0..total /\ trade \in U64 /\ trade \in Nat
  BY <1>1, <1>4, <1>6 DEF U64
<1> DEFINE protocol == ShareOf(trade, r.protocol)
           fund == ShareOf(trade, r.fund)
<1>10. protocol \in 0..trade /\ fund \in 0..trade
  <2>1. /\ (trade * r.protocol) \div D \in 0..trade
        /\ (trade * r.fund) \div D \in 0..trade
    <3>1. r.protocol \in Nat /\ r.protocol <= D /\ r.fund \in Nat /\ r.fund <= D
      BY <1>1, <1>2
    <3> HIDE DEF trade
    <3>2. /\ (trade * r.protocol) \div D \in Nat /\ (trade * r.protocol) \div D <= trade
          /\ (trade * r.fund) \div D \in Nat /\ (trade * r.fund) \div D <= trade
      BY <1>1, <1>9, <3>1, Part
    <3> QED
      BY <1>9, <3>2
  <2>2. protocol = (trade * r.protocol) \div D /\ fund = (trade * r.fund) \div D
    <3> HIDE DEF trade
    <3> QED
      BY <1>1, <1>2, <1>9, FeesFit DEF ShareOf, D
  <2> QED
    BY <2>1, <2>2
<1> DEFINE result == CurveResult(input, swapped - taken, z, swapped, trade, split + taken, x, y, r)
<1>11. c = result
  <2>1. /\ total # Null /\ split # Null /\ total <= input
        /\ swapped # Null /\ taken # Null /\ taken <= swapped
    BY <1>1, <1>4, <1>6, <1>7, <1>8 DEF Null
  <2>2. split = IF onInput THEN SplitCreatorFee(total, r.trade, r.creator) ELSE 0
    BY <1>6 DEF split
  <2>3. z = input - total
    BY DEF z
  <2>4. c = LET t == TradingFee(input, IF onInput THEN r.trade + r.creator ELSE r.trade)
                s == IF onInput THEN SplitCreatorFee(t, r.trade, r.creator) ELSE 0
                w == SwapBaseInputWithoutFees(input - t, x, y)
                k == IF onInput THEN 0 ELSE TradingFee(w, r.creator)
            IN  IF /\ t # Null /\ s # Null /\ t <= input
                   /\ w # Null /\ k # Null /\ k <= w
                THEN CurveResult(input, w - k, input - t, w, t - s, s + k, x, y, r)
                ELSE Refused
    BY Zenon DEF CurveSwapBaseInput
  <2> HIDE DEF result, trade
  <2> QED
    BY <1>3, <1>7, <1>8, <2>1, <2>2, <2>3, <2>4, Zenon DEF result, trade
<1>12. /\ Null \notin {protocol, fund} /\ x + z \in U128 /\ swapped <= y
  <2>1. 0 \in U64 /\ 0 * 0 + (x + z) = x + z
    BY <1>1, <1>5 DEF U64
  <2>2. x + z \in U128
    BY <1>5, <2>1, ProductsFit
  <2> HIDE DEF protocol, fund, trade
  <2> QED
    BY <1>1, <1>7, <1>9, <1>10, <2>2 DEF Null
<1>13. /\ c.ok /\ c.output = swapped - taken /\ c.protocol = protocol /\ c.fund = fund
       /\ c.creator = split + taken /\ c.newIn = x + z /\ c.newOut = y - swapped
  <2>1. result = [ok |-> TRUE, input |-> input, output |-> swapped - taken, lessFees |-> z,
                  swapped |-> swapped, trade |-> trade, protocol |-> protocol, fund |-> fund,
                  creator |-> split + taken, newIn |-> x + z, newOut |-> y - swapped]
    <3> HIDE DEF trade
    <3> QED
      BY <1>12 DEF CurveResult
  <2> HIDE DEF result, trade, protocol, fund
  <2> QED
    BY <1>11, <2>1
<1> HIDE DEF result, protocol, fund, trade
<1>14. swapped - taken = Given(input, x, y, r, onInput) /\ swapped - taken \in 0..y
  <2>1. swapped - taken \in 0..y
    BY <1>1, <1>7, <1>8
  <2>2. swapped = Drawn(Left(input, rate), x, y)
    BY <1>4 DEF swapped
  <2>3. swapped - taken = IF onInput THEN swapped ELSE Left(swapped, r.creator)
    BY <1>1, <1>7 DEF Left, taken, D
  <2> QED
    BY <2>1, <2>2, <2>3 DEF Given, rate
<1>15. {c.protocol, c.fund, c.creator} \subseteq U64
  <2>1. protocol \in U64 /\ fund \in U64
    BY <1>1, <1>9, <1>10 DEF U64
  <2>2. split + taken \in U64
    <3>1. CASE onInput
      <4>1. taken = 0
        BY <3>1 DEF taken
      <4> QED
        BY <1>1, <1>4, <1>6, <4>1 DEF U64
    <3>2. CASE ~onInput
      <4>1. split = 0
        BY <3>2 DEF split
      <4> QED
        BY <1>1, <1>7, <1>8, <4>1 DEF U64
    <3> QED
      BY <3>1, <3>2
  <2> QED
    BY <1>13, <2>1, <2>2
<1>16. c.newIn * c.newOut \in U128 /\ c.newIn * c.newOut >= x * y
  <2>1. y - swapped \in U64 /\ 0 \in U64
    BY <1>1, <1>7 DEF U64
  <2>2. (x + z) * (y - swapped) \in U128
    BY <1>5, <2>1, ProductsFit
  <2> QED
    BY <1>7, <1>13, <2>2
<1> QED
  BY <1>13, <1>14, <1>15, <1>16

\* What the curve gives grows with what it is given.
LEMMA GivenGrows ==
  ASSUME NEW input \in Nat, NEW more \in Nat, input <= more, NEW x \in Nat, NEW y \in Nat,
         NEW r, SoundRates(r), NEW onInput \in BOOLEAN, x + Left(input, Rate(r, onInput)) # 0
  PROVE  /\ Given(input, x, y, r, onInput) <= Given(more, x, y, r, onInput)
         /\ x + Left(more, Rate(r, onInput)) # 0
<1> DEFINE rate == Rate(r, onInput)
           z == Left(input, rate)
           w == Left(more, rate)
           p == Drawn(z, x, y)
           q == Drawn(w, x, y)
<1>1. rate \in 0..FeeRateDenominator /\ r.creator \in 0..FeeRateDenominator
  BY RatesAreAmounts
<1>2. z \in 0..input /\ w \in 0..more /\ z <= w
  BY <1>1, LeftGrows
<1>3. z \in Nat /\ w \in Nat /\ x + z # 0 /\ x + w # 0
  <2> HIDE DEF z, w
  <2>1. x + z # 0
    BY DEF z, rate
  <2> QED
    BY <1>2, <2>1
<1> HIDE DEF z, w
<1>4. p \in 0..y /\ q \in 0..y /\ p <= q
  BY <1>2, <1>3, DrawnKeeps, DrawnGrows
<1> HIDE DEF p, q, rate
<1>5. p \in Nat /\ q \in Nat
  BY <1>4
<1>6. Left(p, r.creator) <= Left(q, r.creator)
  BY <1>1, <1>4, <1>5, LeftGrows
<1>7. /\ Given(input, x, y, r, onInput) = IF onInput THEN p ELSE Left(p, r.creator)
      /\ Given(more, x, y, r, onInput) = IF onInput THEN q ELSE Left(q, r.creator)
  BY DEF Given, p, q, z, w, rate
<1> QED
  BY <1>3, <1>4, <1>6, <1>7 DEF w, rate

\* A transfer fee leaves more of a larger amount, and no amount is too large for it.
LEMMA NetGrows ==
  ASSUME NEW config \in TransferFeeConfig, NEW epoch \in Nat,
         NEW a \in U64, NEW b \in U64, a <= b
  PROVE  /\ GetTransferFee(config, epoch, a) \in 0..a /\ GetTransferFee(config, epoch, b) \in 0..b
         /\ a - GetTransferFee(config, epoch, a) <= b - GetTransferFee(config, epoch, b)
<1>1. a \in Nat /\ b \in Nat /\ a <= U64Max /\ b <= U64Max /\ U64Max \in Nat
      /\ MaxFeeBasisPoints \in Nat \ {0}
  BY FeeAssumption DEF U64
<1>2. CASE config.charged
  <2> DEFINE tier == EpochFeeTier(config, epoch)
             m == MaxFeeBasisPoints
             Raw(n) == CeilDiv(n, tier.bps, m)
             Fee(n) == IF Raw(n) < tier.maxFee THEN Raw(n) ELSE tier.maxFee
  <2>1. tier.bps \in 0..m /\ tier.maxFee \in Nat
    BY <1>2, Tiers DEF TransferFeeTier
  <2>2. ASSUME NEW n \in U64 PROVE GetTransferFee(config, epoch, n) = Fee(n)
    <3>1. n \in Nat /\ n <= U64Max
      BY FeeAssumption DEF U64
    <3>2. Raw(n) \in 0..n
      BY <1>1, <2>1, <3>1, RestGrows
    <3>3. GetTransferFee(config, epoch, n) = CalculateFee(tier, n)
      BY <1>2 DEF GetTransferFee
    <3>4. CalculateFee(tier, n) = IF tier.bps = 0 \/ n = 0 THEN 0
                                  ELSE IF Raw(n) > U64Max THEN Null
                                  ELSE IF Raw(n) < tier.maxFee THEN Raw(n)
                                  ELSE tier.maxFee
      BY DEF CalculateFee, CeilDiv
    <3>5. tier.bps = 0 \/ n = 0 => Raw(n) = 0
      <4> SUFFICES ASSUME tier.bps = 0 \/ n = 0 PROVE Raw(n) = 0
        OBVIOUS
      <4> DEFINE bps == tier.bps
      <4>1. bps \in Nat
        BY <2>1
      <4>2. n * bps = 0
        <5>1. CASE bps = 0
          BY <3>1, <5>1, SMT
        <5>2. CASE n = 0
          BY <4>1, <5>2, SMT
        <5> QED
          BY <5>1, <5>2
      <4> HIDE DEF bps
      <4>3. m * 0 = 0 /\ 0 \in Nat
        BY <1>1, SMT
      <4>4. CeilDiv(n, bps, m) <= 0 /\ CeilDiv(n, bps, m) \in Nat
        <5>1. n * bps <= m * 0
          BY <4>2, <4>3
        <5> QED
          BY <1>1, <3>1, <4>1, <4>3, <5>1, CeilCovers
      <4> QED
        BY <4>4 DEF bps
    <3> HIDE DEF Raw, tier
    <3> QED
      BY <1>1, <2>1, <3>1, <3>2, <3>3, <3>4, <3>5
  <2>3. Raw(a) \in 0..a /\ Raw(b) \in 0..b /\ a - Raw(a) <= b - Raw(b)
    BY <1>1, <2>1, RestGrows
  <2>4. GetTransferFee(config, epoch, a) = Fee(a) /\ GetTransferFee(config, epoch, b) = Fee(b)
    BY <2>2
  <2> HIDE DEF Raw, tier
  <2> QED
    BY <1>1, <2>1, <2>3, <2>4
<1>3. CASE ~config.charged
  BY <1>1, <1>3 DEF GetTransferFee
<1> QED
  BY <1>2, <1>3

\* A Raydium pool swaps what its vault can take, when something is received.
LEMMA SimulationServes ==
  ASSUME NEW i, NEW d, Described(i), IsRay(i), PoolState(i, d), RatesSound(i),
         i.creatorFeeOn \in CreatorFeeOn, VaultAmountWithoutFee(d.vault, d.owed).ok,
         NEW from \in Side, NEW to, to = Other(from),
         NEW amount \in U64, NEW actual,
         actual = amount - GetTransferFee(i.transferFee[from], d.epoch, amount), actual > 0,
         d.vault[from] + actual <= U64Max,
         NEW x, x = d.vault[from] - Owed(d.owed, from),
         NEW y, y = d.vault[to] - Owed(d.owed, to),
         NEW r, r = RatesOf(i),
         NEW onInput \in BOOLEAN, onInput <=> i.creatorFeeOn \in {"both", from},
         onInput => r.trade + r.creator # 0, x + Left(actual, Rate(r, onInput)) # 0,
         NEW out, out = Given(actual, x, y, r, onInput),
         GetTransferFee(i.transferFee[to], d.epoch, out) < out,
         NEW n, n = SimulateSwapBaseInput(i, d, from, amount)
  PROVE  n.ok /\ n.received = out - GetTransferFee(i.transferFee[to], d.epoch, out)
<1> DEFINE feeIn == GetTransferFee(i.transferFee[from], d.epoch, amount)
           without == VaultAmountWithoutFee(d.vault, d.owed)
           c == CurveSwapBaseInput(actual, x, y, r, onInput)
           feeOut == GetTransferFee(i.transferFee[to], d.epoch, c.output)
<1>1. /\ to \in Side /\ d.epoch \in Nat
      /\ i.transferFee[from] \in TransferFeeConfig /\ i.transferFee[to] \in TransferFeeConfig
  BY DEF Other, Side, Described, PoolState
<1>2. /\ without.reserve[from] = x /\ without.reserve[to] = y /\ x \in Nat /\ y \in Nat
      /\ d.vault[from] \in Nat /\ d.vault[to] \in Nat
      /\ x <= d.vault[from] /\ y <= d.vault[to] /\ d.vault[to] <= U64Max
  <2>1. /\ without.reserve[from] = x /\ without.reserve[to] = y /\ x \in Nat /\ y \in Nat
        /\ Owed(d.owed, from) \in Nat /\ Owed(d.owed, to) \in Nat
    BY <1>1, ReserveIsRest
  <2>2. d.vault[from] \in U64 /\ d.vault[to] \in U64
    BY <1>1 DEF PoolState
  <2> HIDE DEF without
  <2> QED
    BY <2>1, <2>2, FeeAssumption DEF U64
<1>3. feeIn \in 0..amount /\ actual \in Nat /\ actual <= amount /\ amount \in Nat
      /\ amount <= U64Max /\ U64Max \in Nat
  <2>1. amount \in Nat /\ amount <= amount /\ amount <= U64Max /\ U64Max \in Nat
    BY FeeAssumption DEF U64
  <2>2. feeIn \in 0..amount
    BY <1>1, <2>1, NetGrows
  <2> HIDE DEF feeIn
  <2> QED
    BY <2>1, <2>2 DEF feeIn
<1>4. SoundRates(r)
  <2>1. i.rates \in Rates
    BY DEF Described, Rates
  <2>2. /\ r \in Rates /\ r.trade = i.rates.trade
        /\ r.protocol = i.rates.protocol /\ r.fund = i.rates.fund
        /\ r.creator \in Nat /\ r.creator <= i.rates.creator
    BY <2>1 DEF RatesOf, Rates
  <2>3. i.rates.trade \in Nat /\ i.rates.creator \in Nat
    BY <2>1 DEF Rates
  <2> QED
    BY <2>2, <2>3, FeeAssumption DEF RatesSound, SoundRates
<1>5. onInput = (i.creatorFeeOn \in {"both", from})
  OBVIOUS
<1>6. Servable(actual, x, y, r, onInput)
  BY <1>2, <1>3, <1>4 DEF Servable, U64
<1>7. /\ c.ok /\ c.output = out /\ c.output \in 0..y
      /\ {c.protocol, c.fund, c.creator} \subseteq U64
      /\ c.newIn * c.newOut \in U128 /\ c.newIn * c.newOut >= x * y
  <2> HIDE DEF c
  <2>1. c = CurveSwapBaseInput(actual, x, y, r, onInput)
    BY DEF c
  <2>2. /\ c.ok /\ c.output = Given(actual, x, y, r, onInput) /\ c.output \in 0..y
        /\ {c.protocol, c.fund, c.creator} \subseteq U64
        /\ c.newIn * c.newOut \in U128 /\ c.newIn * c.newOut >= x * y
    BY <1>6, <2>1, CurveServes
  <2> QED
    BY <2>2
<1> HIDE DEF c, feeIn, without
<1>8. out \in U64 /\ x * y \in U128
  <2>1. x \in U64 /\ y \in U64 /\ out \in U64
    BY <1>2, <1>3, <1>7 DEF U64
  <2> QED
    BY <2>1, ProductsFit
<1>9. feeOut \in 0..out /\ feeOut = GetTransferFee(i.transferFee[to], d.epoch, out)
  <2>1. out <= out
    BY <1>2, <1>7
  <2> QED
    BY <1>1, <1>7, <1>8, <2>1, NetGrows
<1> HIDE DEF feeOut
<1> DEFINE sendable == /\ amount \in U64 /\ feeIn # Null /\ amount > feeIn
                       /\ without.ok /\ i.creatorFeeOn \in CreatorFeeOn
           allowed == /\ x * y \in U128
                      /\ c.ok /\ c.newIn * c.newOut \in U128 /\ c.output \in U64
                      /\ feeOut # Null /\ feeOut < c.output
                      /\ {c.protocol, c.fund, c.creator} \subseteq U64
                      /\ c.newIn * c.newOut >= x * y
                      /\ Credited(d.vault[from], actual)
                      /\ c.output <= d.vault[to]
           result == [ok |-> TRUE, actual |-> actual, curve |-> c,
                      received |-> c.output - feeOut, onInput |-> onInput]
<1>10. sendable
  <2>1. without.ok
    BY DEF without
  <2>2. feeIn # Null /\ amount > feeIn
    BY <1>3 DEF Null, feeIn
  <2> QED
    BY <2>1, <2>2
<1>11. allowed
  <2>1. feeOut # Null /\ feeOut < c.output
    BY <1>2, <1>7, <1>9 DEF Null
  <2>2. c.output <= d.vault[to] /\ c.output \in U64
    BY <1>2, <1>7, <1>8
  <2>3. Credited(d.vault[from], actual)
    BY <1>2, <1>3 DEF Credited, U64
  <2> QED
    BY <1>7, <1>8, <2>1, <2>2, <2>3
<1> HIDE DEF sendable, allowed, result
<1>12. n = IF sendable THEN IF allowed THEN result ELSE Refused ELSE Refused
  <2>1. actual = amount - feeIn /\ x = without.reserve[from] /\ y = without.reserve[to]
    BY <1>2 DEF feeIn
  <2>2. n = SimulateSwapBaseInput(i, d, from, amount)
    OBVIOUS
  <2> QED
    BY <1>5, <2>1, <2>2, Zenon DEF SimulateSwapBaseInput, sendable, allowed, result, feeIn, without,
                            c, feeOut
<1>13. n = result
  BY <1>10, <1>11, <1>12
<1> QED
  BY <1>7, <1>9, <1>13 DEF result

\* What an amount that was served says of the pool.
LEMMA CurveNeeds ==
  ASSUME NEW input \in U64, NEW x \in Nat, NEW y \in Nat, NEW r, SoundRates(r),
         NEW onInput \in BOOLEAN, NEW c, c = CurveSwapBaseInput(input, x, y, r, onInput), c.ok
  PROVE  /\ onInput => r.trade + r.creator # 0
         /\ x + Left(input, Rate(r, onInput)) # 0
<1> DEFINE total == TradingFee(input, IF onInput THEN r.trade + r.creator ELSE r.trade)
           split == IF onInput THEN SplitCreatorFee(total, r.trade, r.creator) ELSE 0
           swapped == SwapBaseInputWithoutFees(input - total, x, y)
           taken == IF onInput THEN 0 ELSE TradingFee(swapped, r.creator)
           served == /\ total # Null /\ split # Null /\ total <= input
                     /\ swapped # Null /\ taken # Null /\ taken <= swapped
<1>1. c = IF served
          THEN CurveResult(input, swapped - taken, input - total, swapped,
                           total - split, split + taken, x, y, r)
          ELSE Refused
  BY Zenon DEF CurveSwapBaseInput
<1>2. served
  <2> HIDE DEF served, total, split, swapped, taken
  <2> QED
    BY <1>1 DEF Refused
<1>3. total = CeilDiv(input, Rate(r, onInput), FeeRateDenominator)
  <2>1. Rate(r, onInput) \in U64
    BY RatesAreAmounts
  <2> QED
    BY <2>1, FeesFit DEF TradingFee, Rate
<1>4. onInput => r.trade + r.creator # 0
  <2> SUFFICES ASSUME onInput PROVE r.trade + r.creator # 0
    OBVIOUS
  <2>1. FeeFloorDiv(total, r.creator, r.trade + r.creator) # Null
    BY <1>2 DEF SplitCreatorFee
  <2> HIDE DEF total
  <2> QED
    BY <2>1 DEF FeeFloorDiv
<1>5. x + (input - total) # 0
  <2> HIDE DEF total, served
  <2>1. SwapBaseInputWithoutFees(input - total, x, y) # Null
    BY <1>2 DEF served
  <2> QED
    BY <2>1 DEF SwapBaseInputWithoutFees
<1> QED
  BY <1>3, <1>4, <1>5 DEF Left

LEMMA SimulationNeeds ==
  ASSUME NEW i, NEW d, Described(i), IsRay(i), PoolState(i, d), RatesSound(i),
         NEW from \in Side, NEW to, to = Other(from), NEW amount \in Nat, NEW actual,
         actual = amount - GetTransferFee(i.transferFee[from], d.epoch, amount),
         NEW x, x = d.vault[from] - Owed(d.owed, from),
         NEW y, y = d.vault[to] - Owed(d.owed, to),
         NEW r, r = RatesOf(i),
         NEW onInput \in BOOLEAN, onInput <=> i.creatorFeeOn \in {"both", from},
         NEW out, out = Given(actual, x, y, r, onInput),
         NEW n, n = SimulateSwapBaseInput(i, d, from, amount), n.ok
  PROVE  /\ amount \in U64 /\ actual > 0 /\ actual \in U64 /\ out \in U64
         /\ i.creatorFeeOn \in CreatorFeeOn /\ VaultAmountWithoutFee(d.vault, d.owed).ok
         /\ SoundRates(r) /\ x \in Nat /\ y \in Nat
         /\ onInput => r.trade + r.creator # 0
         /\ x + Left(actual, Rate(r, onInput)) # 0
         /\ GetTransferFee(i.transferFee[to], d.epoch, out) < out
         /\ n.received = out - GetTransferFee(i.transferFee[to], d.epoch, out)
<1> DEFINE feeIn == GetTransferFee(i.transferFee[from], d.epoch, amount)
           without == VaultAmountWithoutFee(d.vault, d.owed)
           v == without.reserve[from]
           w == without.reserve[to]
           c == CurveSwapBaseInput(actual, v, w, r, onInput)
           feeOut == GetTransferFee(i.transferFee[to], d.epoch, c.output)
           sendable == /\ amount \in U64 /\ feeIn # Null /\ amount > feeIn
                       /\ without.ok /\ i.creatorFeeOn \in CreatorFeeOn
           allowed == /\ v * w \in U128
                      /\ c.ok /\ c.newIn * c.newOut \in U128 /\ c.output \in U64
                      /\ feeOut # Null /\ feeOut < c.output
                      /\ {c.protocol, c.fund, c.creator} \subseteq U64
                      /\ c.newIn * c.newOut >= v * w
                      /\ Credited(d.vault[from], actual)
                      /\ c.output <= d.vault[to]
           result == [ok |-> TRUE, actual |-> actual, curve |-> c,
                      received |-> c.output - feeOut, onInput |-> onInput]
<1>1. n = IF sendable THEN IF allowed THEN result ELSE Refused ELSE Refused
  <2> DEFINE sent == amount - feeIn
             on == i.creatorFeeOn \in {"both", from}
             Curve(a, t, q, o) == CurveSwapBaseInput(a, v, without.reserve[t], q, o)
             FeeOut(a, t, q, o) ==
               GetTransferFee(i.transferFee[t], d.epoch, Curve(a, t, q, o).output)
             Allowed(a, t, q, o) ==
               LET k == Curve(a, t, q, o)
                   fee == FeeOut(a, t, q, o)
                   u == without.reserve[t]
               IN  /\ v * u \in U128
                   /\ k.ok /\ k.newIn * k.newOut \in U128 /\ k.output \in U64
                   /\ fee # Null /\ fee < k.output
                   /\ {k.protocol, k.fund, k.creator} \subseteq U64
                   /\ k.newIn * k.newOut >= v * u
                   /\ Credited(d.vault[from], a)
                   /\ k.output <= d.vault[t]
             Result(a, t, q, o) ==
               [ok |-> TRUE, actual |-> a, curve |-> Curve(a, t, q, o),
                received |-> Curve(a, t, q, o).output - FeeOut(a, t, q, o), onInput |-> o]
             Of(a, t, q, o) ==
               IF sendable THEN IF Allowed(a, t, q, o) THEN Result(a, t, q, o) ELSE Refused
               ELSE Refused
  <2>1. n = Of(sent, Other(from), RatesOf(i), on)
    BY Zenon DEF SimulateSwapBaseInput
  <2>2. Of(actual, to, r, onInput)
          = IF sendable THEN IF allowed THEN result ELSE Refused ELSE Refused
    BY Zenon
  <2>3. onInput = on /\ actual = sent
    OBVIOUS
  <2> HIDE DEF Of, sent, on, sendable, allowed, result
  <2> QED
    BY <2>1, <2>2, <2>3
<1>2. sendable /\ allowed /\ n = result
  <2> HIDE DEF sendable, allowed, result
  <2> QED
    BY <1>1 DEF Refused
<1>3. /\ to \in Side /\ d.epoch \in Nat
      /\ i.transferFee[from] \in TransferFeeConfig /\ i.transferFee[to] \in TransferFeeConfig
  BY DEF Other, Side, Described, PoolState
<1>4. v = x /\ w = y /\ x \in Nat /\ y \in Nat /\ y \in U64
  <2>0. without.ok
    BY <1>2
  <2>1. v = x /\ w = y /\ x \in Nat /\ y \in Nat /\ Owed(d.owed, to) \in Nat
    BY <1>3, <2>0, ReserveIsRest
  <2>2. d.vault[to] \in U64
    BY <1>3 DEF PoolState
  <2> HIDE DEF v, w
  <2> QED
    BY <2>1, <2>2, FeeAssumption DEF U64
<1>5. actual > 0 /\ actual \in Nat /\ actual \in U64
  <2>1. amount \in U64 /\ amount > feeIn /\ amount <= amount
    BY <1>2
  <2>2. feeIn \in 0..amount
    BY <1>3, <2>1, NetGrows
  <2>3. actual = amount - feeIn /\ amount \in Nat /\ amount <= U64Max /\ U64Max \in Nat
    BY <2>1, FeeAssumption DEF U64
  <2> HIDE DEF feeIn
  <2> QED
    BY <2>1, <2>2, <2>3 DEF U64
<1>6. SoundRates(r)
  <2>1. i.rates \in Rates
    BY DEF Described, Rates
  <2>2. /\ r \in Rates /\ r.trade = i.rates.trade
        /\ r.protocol = i.rates.protocol /\ r.fund = i.rates.fund
        /\ r.creator \in Nat /\ r.creator <= i.rates.creator
    BY <2>1 DEF RatesOf, Rates
  <2>3. i.rates.trade \in Nat /\ i.rates.creator \in Nat
    BY <2>1 DEF Rates
  <2> QED
    BY <2>2, <2>3, FeeAssumption DEF RatesSound, SoundRates
<1> HIDE DEF v, w
<1>7. c = CurveSwapBaseInput(actual, x, y, r, onInput)
  BY <1>4
<1>8. c.ok /\ c.output \in U64 /\ Credited(d.vault[from], actual)
  BY <1>2
<1>9. /\ onInput => r.trade + r.creator # 0
      /\ x + Left(actual, Rate(r, onInput)) # 0
  <2> HIDE DEF c
  <2> QED
    BY <1>4, <1>5, <1>6, <1>7, <1>8, CurveNeeds
<1>10. c.output = out
  <2>1. x + actual \in U64 /\ y \in U64
    <3>1. d.vault[from] + actual <= U64Max
      BY <1>8 DEF Credited, U64
    <3>2. x <= d.vault[from] /\ d.vault[from] \in Nat
      <4>0. VaultAmountWithoutFee(d.vault, d.owed).ok
        BY <1>2
      <4>1. Owed(d.owed, from) \in Nat /\ d.vault[from] \in Nat
        BY <4>0, ReserveIsRest
      <4> QED
        BY <4>1
    <3> QED
      BY <1>4, <1>5, <3>1, <3>2, FeeAssumption DEF U64
  <2>2. Servable(actual, x, y, r, onInput)
    BY <1>4, <1>5, <1>6, <1>9, <2>1 DEF Servable
  <2> HIDE DEF c
  <2>3. c.output = Given(actual, x, y, r, onInput)
    BY <1>7, <2>2, CurveServes
  <2> QED
    BY <2>3
<1>11. /\ GetTransferFee(i.transferFee[to], d.epoch, out) < out
       /\ n.received = out - GetTransferFee(i.transferFee[to], d.epoch, out)
  <2>1. feeOut < c.output /\ n.received = c.output - feeOut
    <3> HIDE DEF c, feeOut
    <3> QED
      BY <1>2
  <2>2. feeOut = GetTransferFee(i.transferFee[to], d.epoch, out)
    BY <1>10
  <2> HIDE DEF c, feeOut
  <2> QED
    BY <1>10, <2>1, <2>2
<1> HIDE DEF c, feeOut, feeIn, result
<1>12. amount \in U64 /\ i.creatorFeeOn \in CreatorFeeOn /\ VaultAmountWithoutFee(d.vault, d.owed).ok
  BY <1>2
<1>13. out \in U64
  BY <1>8, <1>10
<1> QED
  BY <1>4, <1>5, <1>6, <1>9, <1>11, <1>12, <1>13

\* Sent more, the pool serves that too, when its vault has room, and no less is received.
LEMMA MoreIsServed ==
  ASSUME NEW i, NEW d, Described(i), IsRay(i), PoolState(i, d), RatesSound(i),
         NEW from \in Side, NEW amount \in Nat, NEW more \in Nat, amount <= more,
         d.vault[from] + more <= U64Max,
         NEW n, n = SimulateSwapBaseInput(i, d, from, amount), n.ok,
         NEW k, k = SimulateSwapBaseInput(i, d, from, more)
  PROVE  k.ok /\ k.received >= n.received
<1> DEFINE to == Other(from)
           F(a) == GetTransferFee(i.transferFee[from], d.epoch, a)
           G(a) == GetTransferFee(i.transferFee[to], d.epoch, a)
           x == d.vault[from] - Owed(d.owed, from)
           y == d.vault[to] - Owed(d.owed, to)
           r == RatesOf(i)
           onInput == i.creatorFeeOn \in {"both", from}
           small == amount - F(amount)
           large == more - F(more)
           less == Given(small, x, y, r, onInput)
           out == Given(large, x, y, r, onInput)
<1>1. onInput \in BOOLEAN /\ (onInput <=> i.creatorFeeOn \in {"both", from})
  OBVIOUS
<1>2. /\ to = Other(from) /\ x = d.vault[from] - Owed(d.owed, from)
      /\ y = d.vault[to] - Owed(d.owed, to) /\ r = RatesOf(i)
  OBVIOUS
<1>3. /\ to \in Side /\ d.epoch \in Nat
      /\ i.transferFee[from] \in TransferFeeConfig /\ i.transferFee[to] \in TransferFeeConfig
  BY DEF Other, Side, Described, PoolState
<1> HIDE DEF onInput, to, x, y, r
<1>4. /\ amount \in U64 /\ small > 0 /\ small \in U64 /\ less \in U64
      /\ i.creatorFeeOn \in CreatorFeeOn /\ VaultAmountWithoutFee(d.vault, d.owed).ok
      /\ SoundRates(r) /\ x \in Nat /\ y \in Nat
      /\ onInput => r.trade + r.creator # 0
      /\ x + Left(small, Rate(r, onInput)) # 0
      /\ G(less) < less /\ n.received = less - G(less)
  <2>1. small = amount - GetTransferFee(i.transferFee[from], d.epoch, amount)
    OBVIOUS
  <2>2. less = Given(small, x, y, r, onInput)
    OBVIOUS
  <2> HIDE DEF small, less
  <2> QED
    BY <1>1, <1>2, <2>1, <2>2, SimulationNeeds
<1>5. more \in U64 /\ d.vault[from] \in Nat
  BY FeeAssumption DEF PoolState, U64
<1>6. F(more) \in 0..more /\ F(amount) \in 0..amount /\ small <= large
  BY <1>3, <1>4, <1>5, NetGrows
<1>7. large \in Nat /\ large > 0 /\ d.vault[from] + large <= U64Max /\ small \in Nat
  <2> HIDE DEF F
  <2>1. small = amount - F(amount) /\ large = more - F(more)
    OBVIOUS
  <2>2. small > 0
    BY <1>4
  <2> HIDE DEF small, large
  <2> QED
    BY <1>5, <1>6, <2>1, <2>2, FeeAssumption
<1> HIDE DEF small, large
<1>8. less <= out /\ x + Left(large, Rate(r, onInput)) # 0
  BY <1>1, <1>4, <1>6, <1>7, GivenGrows
<1>9. out \in U64
  <2>1. x + large \in U64 /\ y \in U64 /\ large \in U64
    <3>1. /\ Owed(d.owed, from) \in Nat /\ d.vault[from] \in Nat
          /\ Owed(d.owed, to) \in Nat /\ d.vault[to] \in Nat
      BY <1>3, <1>4, ReserveIsRest
    <3>2. d.vault[to] \in U64
      BY <1>3 DEF PoolState
    <3> QED
      BY <1>2, <1>4, <1>7, <3>1, <3>2, FeeAssumption DEF U64
  <2>2. Servable(large, x, y, r, onInput)
    BY <1>4, <1>8, <2>1 DEF Servable
  <2> DEFINE c == CurveSwapBaseInput(large, x, y, r, onInput)
  <2>3. c = CurveSwapBaseInput(large, x, y, r, onInput)
    OBVIOUS
  <2> HIDE DEF c
  <2>4. c.output = out /\ c.output \in 0..y
    BY <1>1, <2>2, <2>3, CurveServes
  <2> QED
    BY <1>4, <2>1, <2>4, FeeAssumption DEF U64
<1> HIDE DEF less, out
<1>10. G(less) \in 0..less /\ G(out) \in 0..out /\ less - G(less) <= out - G(out)
  BY <1>3, <1>4, <1>8, <1>9, NetGrows
<1>11. G(out) < out /\ out - G(out) >= n.received
  <2> HIDE DEF G
  <2> QED
    BY <1>4, <1>9, <1>10, FeeAssumption DEF U64
<1>12. k.ok /\ k.received = out - G(out)
  <2>1. large = more - GetTransferFee(i.transferFee[from], d.epoch, more)
    BY DEF large
  <2>2. out = Given(large, x, y, r, onInput)
    BY DEF out
  <2>3. GetTransferFee(i.transferFee[to], d.epoch, out) < out
    BY <1>11
  <2> QED
    BY <1>1, <1>2, <1>4, <1>5, <1>7, <1>8, <2>1, <2>2, <2>3, SimulationServes
<1> QED
  BY <1>11, <1>12

-----------------------------------------------------------------------------
(* A probe on pools that did not move.                                     *)

\* The quotes of the plan are those of the pools as they are.
LEMMA QuotesStillHold ==
  ASSUME PlanOK, Unmoved
  PROVE  /\ plan.eval.quoteA = QuoteExactIn(Info[plan.circuit.a], pools[plan.circuit.a], "wsol",
                                            plan.eval.amountIn)
         /\ plan.eval.quoteB = QuoteExactIn(Info[plan.circuit.b], pools[plan.circuit.b], "token",
                                            plan.eval.quoteA.out)
         /\ plan.eval.quoteA.ok /\ plan.eval.quoteB.ok
         /\ plan.seen[plan.circuit.a] = pools[plan.circuit.a]
<1>1. /\ plan.seen[plan.circuit.a] = pools[plan.circuit.a]
      /\ plan.seen[plan.circuit.b] = pools[plan.circuit.b]
  BY DEF PlanOK, Unmoved
<1> DEFINE e == plan.eval
           c == plan.circuit
<1>2. e = EvaluateCircuit(plan.seen, c, e.amountIn) /\ e.ok
  BY PlanIsNumbers
<1>3. /\ e.quoteA = QuoteExactIn(Info[c.a], plan.seen[c.a], "wsol", e.amountIn) /\ e.quoteA.ok
      /\ e.quoteB = QuoteExactIn(Info[c.b], plan.seen[c.b], "token", e.quoteA.out) /\ e.quoteB.ok
  <2> HIDE DEF e, c
  <2> QED
    BY <1>2, CircuitParts
<1> QED
  BY <1>1, <1>3

\* A purchase on PumpSwap that is quoted is one, of what it debits.
LEMMA QuotedPurchase ==
  ASSUME NEW i, NEW d, ~IsRay(i), NEW x,
         NEW q, q = QuoteExactIn(i, d, "wsol", x), q.ok,
         NEW r, r = BuyQuoteInput(PumpState(i, d), Schedule(i, PumpState(i, d)), x)
  PROVE  r.ok /\ q.amountIn = r.total
<1> DEFINE s == PumpState(i, d)
           worst == TransferFeeAmountWorstCase(r.baseOut, i.transferFee.token)
<1>1. q = IF s.base > 0 /\ "buy" \notin i.disabled /\ GateRejects(i) = {} /\ r.ok
          THEN [ok |-> TRUE, from |-> "wsol", amountIn |-> r.total,
                out |-> r.baseOut - worst,
                inDelta |-> r.effective + r.fees.lp, outDelta |-> r.baseOut, hash |-> d.hash]
          ELSE Refused
  BY Zenon DEF QuoteExactIn, PumpQuote, PumpBuyQuote
<1> HIDE DEF worst
<1> QED
  BY <1>1 DEF Refused

\* The first legs of both transactions are given what was quoted, or what buys the same.
LEMMA ArgumentsAreSame ==
  ASSUME PlanOK, Built, Inv, Unmoved
  PROVE  LET i == Info[plan.circuit.a]
             d == pools[plan.circuit.a]
             x == plan.eval.amountIn
         IN  SameAmount(i, d, x, x) /\ SameAmount(i, d, x, LegAArgument(plan.eval, plan.circuit.a))
<1> DEFINE i == Info[plan.circuit.a]
           d == pools[plan.circuit.a]
           x == plan.eval.amountIn
           q == plan.eval.quoteA
           argument == LegAArgument(plan.eval, plan.circuit.a)
<1>1. /\ q = QuoteExactIn(i, d, "wsol", x) /\ q.ok /\ plan.seen[plan.circuit.a] = d
      /\ x \in Nat /\ SoundPool(i, d)
  BY QuotesStillHold, PlanIsNumbers, StillSound
<1>2. CASE IsRay(i)
  <2>1. argument = q.amountIn
    BY <1>2 DEF LegAArgument
  <2>2. q.amountIn = x
    <3> DEFINE r == SimulateSwapBaseInput(i, d, "wsol", x)
    <3>1. q = IF RayGate(i, d) /\ r.ok
              THEN [ok |-> TRUE, from |-> "wsol", amountIn |-> x, out |-> r.received,
                    inDelta |-> r.actual, outDelta |-> r.curve.output, hash |-> d.hash]
              ELSE Refused
      BY <1>1, <1>2, Zenon DEF QuoteExactIn, RayQuote
    <3> HIDE DEF r, q
    <3> QED
      BY <1>1, <3>1 DEF Refused
  <2> HIDE DEF argument, q, x
  <2> QED
    BY <1>2, <2>1, <2>2 DEF SameAmount, argument, x
<1>3. CASE ~IsRay(i)
  <2> DEFINE s == PumpState(i, d)
             Buy(b) == BuyQuoteInput(s, Schedule(i, s), b)
             r == Buy(x)
             again == Buy(argument)
  <2>1. r = BuyQuoteInput(PumpState(i, d), Schedule(i, PumpState(i, d)), x)
    OBVIOUS
  <2>2. argument = SpendableBudgetFor(i, d, q.amountIn)
    BY <1>1, <1>3 DEF LegAArgument
  <2>3. again = BuyQuoteInput(PumpState(i, d), Schedule(i, PumpState(i, d)), argument)
    OBVIOUS
  <2> HIDE DEF argument, q, x, i, d
  <2>4. r.ok /\ q.amountIn = r.total
    <3> HIDE DEF r
    <3> QED
      BY <1>1, <1>3, <2>1, QuotedPurchase
  <2>5. argument = SpendableBudgetFor(i, d, r.total)
    BY <2>2, <2>4
  <2>6. again.ok /\ again.total = r.total /\ again.baseOut = r.baseOut
    <3> HIDE DEF r, again
    <3> QED
      BY <1>1, <1>3, <2>1, <2>3, <2>4, <2>5, BudgetIsHonoured
  <2> HIDE DEF Buy
  <2>7. /\ Buy(x).ok /\ Buy(argument).ok /\ Buy(argument).total = Buy(x).total
        /\ Buy(argument).baseOut = Buy(x).baseOut
    BY <2>4, <2>6
  <2>8. SameAmount(i, d, x, x)
    BY <1>3, <2>7 DEF SameAmount, Buy
  <2>9. SameAmount(i, d, x, argument)
    BY <1>3, <2>7 DEF SameAmount, Buy
  <2> QED
    BY <2>8, <2>9 DEF i, d, x, argument
<1> QED
  BY <1>2, <1>3

\* The direct transaction earns what was quoted.
LEMMA DirectHonours ==
  ASSUME PlanOK, Built, Inv, Unmoved
  PROVE  /\ RunDirect.ok /\ RunDirect.base = plan.eval.pnl
         /\ BringsTheQuote(plan.circuit.a) => RunDirect.inter = 0
<1> DEFINE argument == LegAArgument(plan.eval, plan.circuit.a)
           qa == plan.eval.quoteA
           qb == plan.eval.quoteB
           a == Executed(plan.circuit.a, "wsol", argument, qa.out)
           b == Executed(plan.circuit.b, "token", qa.out, qb.out)
           x == plan.eval.amountIn
           A == plan.circuit.a
           B == plan.circuit.b
<1>1. /\ A \in Pools /\ B \in Pools /\ SoundPool(Info[A], pools[A]) /\ SoundPool(Info[B], pools[B])
      /\ x \in Nat /\ qa.amountIn \in Nat /\ qa.amountIn <= x
      /\ qa.out \in Nat /\ qb.out \in Int /\ qb.out <= qb.out
      /\ plan.eval.pnl = qb.out - qa.amountIn
      /\ argument \in Nat
  BY PlanIsNumbers, StillSound, ArgumentIsAmount
<1>2. /\ qa = QuoteExactIn(Info[A], pools[A], "wsol", x) /\ qa.ok
      /\ qb = QuoteExactIn(Info[B], pools[B], "token", qa.out) /\ qb.ok
  BY QuotesStillHold
<1>3. SameAmount(Info[A], pools[A], x, argument)
  BY ArgumentsAreSame
<1>4. a = Executed(A, "wsol", argument, qa.out) /\ b = Executed(B, "token", qa.out, qb.out)
  OBVIOUS
<1>5. /\ RunDirect.ok <=> a.ok /\ a.debit <= x /\ qa.out <= a.credit /\ b.ok
      /\ RunDirect.ok => RunDirect = [ok |-> TRUE, base |-> b.credit - a.debit,
                                      inter |-> a.credit - b.debit, withheld |-> a.withheld]
  BY DirectParts
<1> HIDE DEF a, b, argument, qa, qb, x, A, B
<1>6. /\ a.ok /\ a.debit = qa.amountIn
      /\ a.credit \in Nat /\ a.credit >= qa.out
      /\ BringsTheQuote(A) => a.credit = qa.out
  BY <1>1, <1>2, <1>3, <1>4, FirstLeg
<1>7. b.ok /\ b.debit = qa.out /\ b.credit = qb.out
  BY <1>1, <1>2, <1>4, SecondLeg
<1>8. RunDirect.ok
  BY <1>1, <1>5, <1>6, <1>7
<1>9. RunDirect.base = b.credit - a.debit /\ RunDirect.inter = a.credit - b.debit
  BY <1>5, <1>8
<1>10. RunDirect.base = plan.eval.pnl
  BY <1>1, <1>6, <1>7, <1>9
<1>11. BringsTheQuote(A) => RunDirect.inter = 0
  BY <1>1, <1>6, <1>7, <1>9
<1> QED
  BY <1>8, <1>10, <1>11 DEF A

\* The executor sells what it bought, or fails.
LEMMA ExecutorParts ==
  ASSUME NEW a, a = Executed(plan.circuit.a, "wsol", plan.eval.amountIn, plan.eval.quoteA.out),
         NEW b, b = Executed(plan.circuit.b, "token", a.credit, 1), a.ok, b.ok
  PROVE  RunExecutor.ok /\ RunExecutor.base = b.credit - a.debit
<1>1. RunExecutor = IF a.ok /\ b.ok THEN [ok |-> TRUE, base |-> b.credit - a.debit] ELSE Refused
  BY Zenon DEF RunExecutor
<1> QED
  BY <1>1

\* What arrived is sold for what was quoted or more.
LEMMA ExecutorHonours ==
  ASSUME PlanOK, Built, Inv, Unmoved,
         \/ BringsTheQuote(plan.circuit.a)
         \/ IsRay(Info[plan.circuit.b]) /\ SupplyHolds(plan.circuit)
  PROVE  Verdict = "GUARD_PASSED_AT_QUOTED_PROFIT"
<1> DEFINE qa == plan.eval.quoteA
           qb == plan.eval.quoteB
           x == plan.eval.amountIn
           A == plan.circuit.a
           B == plan.circuit.b
           a == Executed(A, "wsol", x, qa.out)
           b == Executed(B, "token", a.credit, 1)
           pnl == plan.eval.pnl
<1>1. /\ A \in Pools /\ B \in Pools /\ SoundPool(Info[A], pools[A]) /\ SoundPool(Info[B], pools[B])
      /\ x \in Nat /\ qa.amountIn \in Nat
      /\ qa.out \in Nat /\ qb.out \in Int
      /\ pnl = qb.out - qa.amountIn /\ pnl \in Int /\ pnl > 0
  BY PlanIsNumbers, StillSound
<1>2. /\ qa = QuoteExactIn(Info[A], pools[A], "wsol", x) /\ qa.ok
      /\ qb = QuoteExactIn(Info[B], pools[B], "token", qa.out) /\ qb.ok
  BY QuotesStillHold
<1>3. SameAmount(Info[A], pools[A], x, x)
  BY ArgumentsAreSame
<1>4. a = Executed(A, "wsol", x, qa.out) /\ b = Executed(B, "token", a.credit, 1)
  OBVIOUS
<1>5. BringsTheQuote(A) \/ (IsRay(Info[B]) /\ SupplyHolds(plan.circuit))
  OBVIOUS
<1>6. a.ok /\ b.ok => RunExecutor.ok /\ RunExecutor.base = b.credit - a.debit
  BY ExecutorParts
<1> HIDE DEF a, b, qa, qb, x, A, B, pnl
<1>7. /\ a.ok /\ a.debit = qa.amountIn
      /\ a.credit \in Nat /\ a.credit >= qa.out /\ a.credit <= pools[A].vault.token
      /\ BringsTheQuote(A) => a.credit = qa.out
  BY <1>1, <1>2, <1>3, <1>4, FirstLeg
<1>8. qb.out >= 1
  BY <1>1
<1>9. b.ok /\ b.credit \in Int /\ b.credit >= qb.out
  <2>1. CASE BringsTheQuote(A)
    <3>1. b = Executed(B, "token", qa.out, 1) /\ 1 \in Int
      BY <1>4, <1>7, <2>1
    <3>2. b.ok /\ b.credit = qb.out
      BY <1>1, <1>2, <1>8, <3>1, SecondLeg
    <3> QED
      BY <1>1, <3>2
  <2>2. CASE IsRay(Info[B]) /\ SupplyHolds(plan.circuit)
    <3> DEFINE i == Info[B]
               d == pools[B]
               n == SimulateSwapBaseInput(i, d, "token", qa.out)
               k == SimulateSwapBaseInput(i, d, "token", a.credit)
    <3>1. RayGate(i, d) /\ n.ok /\ qb.out = n.received
      <4>1. qb = IF RayGate(i, d) /\ n.ok
                 THEN [ok |-> TRUE, from |-> "token", amountIn |-> qa.out, out |-> n.received,
                       inDelta |-> n.actual, outDelta |-> n.curve.output, hash |-> d.hash]
                 ELSE Refused
        BY <1>2, <2>2, Zenon DEF QuoteExactIn, RayQuote
      <4> HIDE DEF n
      <4> QED
        BY <1>2, <4>1 DEF Refused
    <3>2. b = IF RayGate(i, d) /\ k.ok /\ k.received >= 1
              THEN [ok |-> TRUE, debit |-> a.credit, credit |-> k.received,
                    withheld |-> k.curve.output - k.received]
              ELSE Refused
      BY <1>4, <2>2, Zenon DEF Executed
    <3>3. n = SimulateSwapBaseInput(i, d, "token", qa.out)
      OBVIOUS
    <3>4. k = SimulateSwapBaseInput(i, d, "token", a.credit)
      OBVIOUS
    <3>5. Described(i) /\ PoolState(i, d) /\ RatesSound(i) /\ IsRay(i)
      BY <1>1, <2>2 DEF SoundPool
    <3>6. d.vault["token"] + a.credit <= U64Max /\ "token" \in Side
      <4>1. "token" \in Side
        BY DEF Side
      <4>2. d.vault["token"] \in U64
        BY <3>5, <4>1 DEF PoolState
      <4>3. pools[A].vault["token"] \in U64
        BY <1>1, <4>1 DEF SoundPool, PoolState
      <4>4. pools[A].vault["token"] + d.vault["token"] <= U64Max
        BY <2>2 DEF SupplyHolds, A, B
      <4> HIDE DEF d
      <4> QED
        BY <1>7, <4>1, <4>2, <4>3, <4>4, FeeAssumption DEF U64
    <3> HIDE DEF n, k
    <3>7. k.ok /\ k.received >= n.received
      BY <1>1, <1>7, <3>1, <3>3, <3>4, <3>5, <3>6, MoreIsServed
    <3>8. k.received \in Nat
      BY <1>7, <3>4, <3>5, <3>6, <3>7, SimulationKeeps
    <3> HIDE DEF i, d
    <3>9. k.received >= 1
      BY <1>1, <1>8, <3>1, <3>7, <3>8
    <3>10. b.ok /\ b.credit = k.received
      BY <3>1, <3>2, <3>7, <3>9
    <3> QED
      BY <1>1, <3>1, <3>7, <3>8, <3>10
  <2> QED
    BY <1>5, <2>1, <2>2
<1> DEFINE run == RunExecutor
<1>10. run.ok /\ run.base = b.credit - a.debit
  BY <1>6, <1>7, <1>9
<1> HIDE DEF run
<1>11. run.base \in Int /\ run.base >= 0 /\ run.base >= pnl
  BY <1>1, <1>7, <1>9, <1>10
<1>12. Verdict = CASE ~run.ok -> "FAILED"
                   [] run.ok /\ run.base < 0 -> "GUARD_REVERTED_LOSING_CIRCUIT"
                   [] run.ok /\ run.base >= 0 /\ run.base >= pnl -> "GUARD_PASSED_AT_QUOTED_PROFIT"
                   [] OTHER -> "BREAK_EVEN_OR_BETTER_AT_MIN_PROFIT_0"
  BY DEF Verdict, run, pnl
<1> QED
  BY <1>10, <1>11, <1>12

\* What a report says of a probe on pools that did not move.
Honoured(r) ==
  /\ Unmoved /\ Affordable =>
        /\ r.ok /\ r.wallet.base - plan.eval.amountIn = plan.eval.pnl
        /\ BringsTheQuote(plan.circuit.a) => r.matchesQuote
  /\ Unmoved /\ (\/ BringsTheQuote(plan.circuit.a)
                 \/ IsRay(Info[plan.circuit.b]) /\ SupplyHolds(plan.circuit)) =>
        r.verdict = "GUARD_PASSED_AT_QUOTED_PROFIT"

LEMMA ReportHonours ==
  ASSUME PlanOK, Built, Inv, NEW s \in Surprises, NEW r, r = Report(RunDirect, s)
  PROVE  Honoured(r)
<1> DEFINE run == RunDirect
           fees == BaseFee + PriorityFee
           deposits == LamportsOf(Deposits(plan.circuit))
           native == -(fees + deposits + s)
           created == CreatedAccounts(plan.circuit)
           good == [made |-> TRUE, ok |-> TRUE, created |-> created, verdict |-> Verdict,
                    wallet |-> [sol |-> Fund + native, base |-> plan.eval.amountIn + run.base,
                                inter |-> run.inter, withheld |-> run.withheld],
                    matchesQuote |-> (run.base = plan.eval.pnl /\ run.inter = 0),
                    acct |-> ReconcileAttempt(run.base, -native, LamportsOf(created),
                                              run.base, native, FALSE),
                    recovery |-> NoRecovery]
           bad == [made |-> TRUE, ok |-> FALSE, created |-> {}, verdict |-> Verdict,
                   wallet |-> [sol |-> Fund - fees, base |-> plan.eval.amountIn,
                               inter |-> 0, withheld |-> 0],
                   matchesQuote |-> FALSE,
                   acct |-> ReconcileAttempt(plan.eval.pnl, 0, 0, plan.eval.pnl, 0, TRUE),
                   recovery |-> NoRecovery]
<1>1. r = IF run.ok /\ -native <= Fund THEN good ELSE bad
  BY Zenon DEF Report
<1>2. good.verdict = Verdict /\ bad.verdict = Verdict
  OBVIOUS
<1>3. /\ good.ok /\ good.wallet.base = plan.eval.amountIn + run.base
      /\ good.matchesQuote <=> (run.base = plan.eval.pnl /\ run.inter = 0)
  OBVIOUS
<1> HIDE DEF good, bad
<1>4. r.verdict = Verdict
  BY <1>1, <1>2
<1>5. ASSUME Unmoved, Affordable
      PROVE  /\ r.ok /\ r.wallet.base - plan.eval.amountIn = plan.eval.pnl
             /\ BringsTheQuote(plan.circuit.a) => r.matchesQuote
  <2>1. /\ run.ok /\ run.base = plan.eval.pnl
        /\ BringsTheQuote(plan.circuit.a) => run.inter = 0
    BY <1>5, DirectHonours
  <2>2. fees + deposits + s <= Fund
    BY <1>5 DEF Affordable
  <2>3. fees \in Nat /\ s \in Nat /\ deposits \in Nat
    BY CostsAreAmounts, DepositsAreLamports
  <2> HIDE DEF fees, deposits, run
  <2>4. -native <= Fund
    BY <2>2, <2>3
  <2> HIDE DEF native
  <2>5. r = good
    BY <1>1, <2>1, <2>4
  <2>6. plan.eval.amountIn \in Nat /\ plan.eval.pnl \in Int
    BY PlanIsNumbers
  <2>7. r.wallet.base = plan.eval.amountIn + plan.eval.pnl
    BY <1>3, <2>1, <2>5
  <2>8. r.wallet.base - plan.eval.amountIn = plan.eval.pnl
    BY <2>6, <2>7
  <2> QED
    BY <1>3, <2>1, <2>5, <2>8
<1>6. ASSUME Unmoved, \/ BringsTheQuote(plan.circuit.a)
                      \/ IsRay(Info[plan.circuit.b]) /\ SupplyHolds(plan.circuit)
      PROVE  r.verdict = "GUARD_PASSED_AT_QUOTED_PROFIT"
  BY <1>4, <1>6, ExecutorHonours
<1> QED
  BY <1>5, <1>6, Zenon DEF Honoured

HonestInv == PInv /\ (stage = "probed" => Honoured(report))

LEMMA HonestStep ==
  ASSUME HonestInv, [Next]_vars
  PROVE  HonestInv'
<1>1. PInv'
  BY ProbeStep DEF HonestInv
<1>2. CASE UNCHANGED vars
  BY <1>1, <1>2 DEF vars, HonestInv, Honoured, Unmoved, Affordable, SupplyHolds
<1>3. CASE Interfere
  <2>1. stage' # "probed"
    BY <1>3 DEF Interfere
  <2> QED
    BY <1>1, <2>1 DEF HonestInv
<1>4. ASSUME NEW c \in [a : Pools, b : Pools], Size(c) PROVE HonestInv'
  <2>1. stage' = "sized"
    BY <1>4 DEF Size
  <2> QED
    BY <1>1, <2>1 DEF HonestInv
<1>5. ASSUME NEW s \in Surprises, LocalProbe(s) PROVE HonestInv'
  <2>1. /\ stage = "sized" /\ report' = Report(RunDirect, s)
        /\ UNCHANGED <<pools, plan>> /\ Built
    BY <1>5 DEF LocalProbe, Built
  <2>2. PlanOK /\ Inv
    BY <2>1 DEF HonestInv, PInv
  <2> DEFINE r == Report(RunDirect, s)
  <2>3. r = Report(RunDirect, s) /\ report' = r
    BY <2>1
  <2> HIDE DEF r
  <2>4. Honoured(r)
    BY <2>1, <2>2, <2>3, ReportHonours
  <2>5. Honoured(report)'
    BY <2>1, <2>3, <2>4 DEF Honoured, Unmoved, Affordable, SupplyHolds
  <2> QED
    BY <1>1, <2>5 DEF HonestInv
<1>6. CASE Recover
  <2>1. stage' = "recovered"
    BY <1>6, Zenon DEF Recover
  <2> QED
    BY <1>1, <2>1 DEF HonestInv
<1>7. CASE Proceed
  BY <1>1, <1>7 DEF Proceed, HonestInv
<1> QED
  BY <1>2, <1>3, <1>4, <1>5, <1>6, <1>7 DEF Next

(***************************************************************************)
(* For any pools, fees and amounts: on pools that did not move, a probe    *)
(* whose costs the fund covers succeeds and earns what was quoted, and the *)
(* executor's guard at that profit passes; and what a probe sells on pools *)
(* that moved brings what was quoted, or the probe fails.                  *)
(***************************************************************************)
THEOREM ProbesHonour == Spec => []ProbeHonoursQuote
<1>1. Init => HonestInv
  BY ProbeInit DEF Init, HonestInv
<1>2. HonestInv => ProbeHonoursQuote
  BY DEF HonestInv, PInv, Honoured, ProbeHonoursQuote
<1> QED
  BY <1>1, <1>2, HonestStep, PTL DEF Spec

-----------------------------------------------------------------------------
(* The quotes of an exact output.                                          *)

\* The transfer fee that is added is the one that is taken.
LEMMA InverseFee ==
  ASSUME NEW config \in TransferFeeConfig, NEW epoch \in Nat, NEW post \in Nat \ {0},
         NEW f, f = GetTransferInverseFee(config, epoch, post), f # Null, post + f \in U64
  PROVE  f \in Nat /\ GetTransferFee(config, epoch, post + f) = f
<1>1. CASE ~config.charged
  BY <1>1 DEF GetTransferInverseFee, GetTransferFee
<1>2. CASE config.charged
  <2> DEFINE tier == EpochFeeTier(config, epoch)
             m == MaxFeeBasisPoints
             pre == TransferFeePreFeeAmount(tier, post)
             fee == IF pre = Null THEN Null ELSE CalculateFee(tier, pre)
             total == post + f
  <2>1. tier \in TransferFeeTier /\ tier.bps \in 0..m /\ tier.maxFee \in Nat
    BY <1>2, Tiers DEF TransferFeeTier
  <2>2. f = IF post = 0 THEN Null
            ELSE IF tier.bps = m THEN tier.maxFee
            ELSE IF fee # Null /\ post + fee <= U64Max /\ CalculateFee(tier, post + fee) = fee
                 THEN fee
            ELSE Null
    BY <1>2 DEF GetTransferInverseFee
  <2>3. GetTransferFee(config, epoch, total) = CalculateFee(tier, total)
    BY <1>2 DEF GetTransferFee
  <2>4. total \in Nat /\ total <= U64Max /\ m \in Nat \ {0} /\ U64Max \in Nat
    BY FeeAssumption DEF U64
  <2> HIDE DEF fee, pre, tier, m
  <2>5. CASE tier.bps = m
    <3>1. f = tier.maxFee /\ f \in Nat
      BY <2>1, <2>2, <2>5
    <3> DEFINE raw == CeilDiv(total, m, m)
    <3>2. raw \in Nat /\ raw = total
      <4>1. total * m <= m * total
        BY <2>4, SMT
      <4>2. raw <= total /\ raw \in Nat /\ total * m <= m * raw
        BY <2>4, <4>1, CeilCovers
      <4> HIDE DEF raw, total
      <4>3. raw >= total
        <5> SUFFICES ASSUME total >= raw + 1 PROVE FALSE
          BY <2>4, <4>2
        <5>1. total * m >= (raw + 1) * m
          BY <2>4, <4>2, Monotone
        <5>2. (raw + 1) * m = m * raw + m /\ m * raw \in Nat /\ total * m \in Nat
          BY <2>4, <4>2, ProductOfNaturals, SMT
        <5> QED
          BY <2>4, <4>2, <5>1, <5>2
      <4> QED
        BY <2>4, <4>2, <4>3
    <3>3. CalculateFee(tier, total) = IF tier.bps = 0 \/ total = 0 THEN 0
                                      ELSE IF raw > U64Max THEN Null
                                      ELSE IF raw < tier.maxFee THEN raw
                                      ELSE tier.maxFee
      BY <2>5 DEF CalculateFee, CeilDiv, m
    <3> HIDE DEF raw
    <3>4. CalculateFee(tier, total) = f
      BY <2>4, <2>5, <3>1, <3>2, <3>3
    <3> QED
      BY <2>3, <3>1, <3>4
  <2>6. CASE tier.bps # m
    <3>1. f = fee /\ CalculateFee(tier, total) = f
      BY <2>2, <2>6
    <3> HIDE DEF total
    <3>2. f \in Nat
      BY <2>1, <2>4, <3>1, TierFee
    <3> QED
      BY <2>3, <3>1, <3>2 DEF total
  <2> QED
    BY <2>5, <2>6
<1> QED
  BY <1>1, <1>2

\* What is asked before a fee leaves what is wanted after it.
LEMMA PreFeeCovers ==
  ASSUME NEW post \in Nat, NEW rate \in Nat,
         NEW pre, pre = CalculatePreFeeAmount(post, rate), pre # Null
  PROVE  /\ pre \in Nat /\ Left(pre, rate) \in Nat /\ Left(pre, rate) >= post
         /\ post = 0 => pre = 0
<1> DEFINE D == FeeRateDenominator
<1>0. D \in Nat \ {0}
  BY FeeAssumption
<1>1. CASE rate = 0
  <2>1. pre = post
    BY <1>1 DEF CalculatePreFeeAmount
  <2>2. post * rate = 0 /\ D * 0 = 0 /\ 0 \in Nat
    BY <1>0, <1>1, SMT
  <2>3. CeilDiv(post, rate, D) <= 0 /\ CeilDiv(post, rate, D) \in Nat
    <3>1. post * rate <= D * 0
      BY <2>2
    <3> QED
      BY <1>0, <2>2, <3>1, CeilCovers
  <2> QED
    BY <2>1, <2>3 DEF Left
<1>2. CASE rate # 0
  <2> DEFINE m == D - rate
  <2>1. rate < D /\ pre = FeeCeilDiv(post, D, m)
    BY <1>2 DEF CalculatePreFeeAmount
  <2>2. m \in Nat \ {0}
    BY <1>0, <2>1
  <2>3. pre = CeilDiv(post, D, m)
    BY <2>1 DEF FeeCeilDiv, CeilDiv
  <2>4. D = m + rate
    BY <1>0
  <2> HIDE DEF m, D
  <2>5. pre \in Nat /\ post * D <= m * pre
    BY <1>0, <2>2, <2>3, CeilCovers
  <2>6. post = 0 => pre = 0
    <3> SUFFICES ASSUME post = 0 PROVE pre = 0
      OBVIOUS
    <3>1. post * D = 0 /\ m * 0 = 0 /\ 0 \in Nat
      BY <1>0, <2>2, SMT
    <3>2. post * D <= m * 0
      BY <3>1
    <3>3. CeilDiv(post, D, m) <= 0
      BY <1>0, <2>2, <3>1, <3>2, CeilCovers
    <3> QED
      BY <2>3, <2>5, <3>3
  <2>7. pre >= post
    <3> SUFFICES ASSUME post >= pre + 1 PROVE FALSE
      BY <2>5
    <3>1. post * D >= (pre + 1) * D
      BY <1>0, <2>5, Monotone
    <3>2. (pre + 1) * D = m * pre + rate * pre + D
      BY <2>2, <2>4, <2>5, SMT
    <3>3. m * pre \in Nat /\ rate * pre \in Nat /\ post * D \in Nat
      BY <1>0, <2>2, <2>5, ProductOfNaturals
    <3> QED
      BY <1>0, <2>5, <3>1, <3>2, <3>3
  <2>8. CeilDiv(pre, rate, D) \in Nat /\ CeilDiv(pre, rate, D) <= pre - post
    <3> DEFINE rest == pre - post
    <3>1. rest \in Nat
      BY <2>5, <2>7
    <3>2. D * rest = m * pre + rate * pre - post * D
      BY <1>0, <2>2, <2>4, <2>5, SMT
    <3>3. pre * rate = rate * pre
      BY <2>5, SMT
    <3>4. m * pre \in Nat /\ rate * pre \in Nat /\ post * D \in Nat
      BY <1>0, <2>2, <2>5, ProductOfNaturals
    <3> HIDE DEF rest
    <3>5. pre * rate <= D * rest
      BY <2>5, <3>2, <3>3, <3>4
    <3>6. CeilDiv(pre, rate, D) \in Nat /\ CeilDiv(pre, rate, D) <= rest
      BY <1>0, <2>5, <3>1, <3>5, CeilCovers
    <3> QED
      BY <3>6 DEF rest
  <2>9. Left(pre, rate) = pre - CeilDiv(pre, rate, D)
    BY DEF Left, D
  <2> QED
    BY <2>5, <2>6, <2>8, <2>9
<1> QED
  BY <1>1, <1>2

\* What the curve asks for an output gives that output.
LEMMA CurveOutputCovers ==
  ASSUME NEW sent \in Nat, NEW x \in Nat, NEW y \in Nat, NEW r, SoundRates(r),
         NEW onInput \in BOOLEAN,
         NEW c, c = CurveSwapBaseOutput(sent, x, y, r, onInput), c.ok, c.input # 0
  PROVE  /\ c.input \in Nat
         /\ onInput => r.trade + r.creator # 0
         /\ x + Left(c.input, Rate(r, onInput)) # 0
         /\ Given(c.input, x, y, r, onInput) \in Nat
         /\ Given(c.input, x, y, r, onInput) >= sent
<1> DEFINE gross == IF onInput THEN sent ELSE CalculatePreFeeAmount(sent, r.creator)
           lessFees == SwapBaseOutputWithoutFees(gross, x, y)
           rate == IF onInput THEN r.trade + r.creator ELSE r.trade
           input == CalculatePreFeeAmount(lessFees, rate)
           split == IF onInput THEN SplitCreatorFee(input - lessFees, r.trade, r.creator) ELSE 0
           asked == gross # Null /\ lessFees # Null /\ input # Null /\ split # Null
           result == CurveResult(input, sent, lessFees, gross, input - lessFees - split,
                                 split + (gross - sent), x, y, r)
           rest == y - gross
           z == Left(input, rate)
           drawn == Drawn(z, x, y)
<1>1. c = IF asked THEN result ELSE Refused
  BY Zenon DEF CurveSwapBaseOutput
<1>2. asked /\ c = result
  <2> HIDE DEF asked, result
  <2> QED
    BY <1>1 DEF Refused
<1>3. c.input = input
  <2> HIDE DEF gross, lessFees, rate, input, split
  <2> QED
    BY <1>2 DEF CurveResult, Refused
<1>4. rate = Rate(r, onInput) /\ rate \in 0..FeeRateDenominator /\ r.creator \in 0..FeeRateDenominator
      /\ rate \in Nat /\ r.creator \in Nat
  <2>1. rate = Rate(r, onInput)
    BY DEF Rate
  <2>2. Rate(r, onInput) \in 0..FeeRateDenominator /\ r.creator \in 0..FeeRateDenominator
    BY RatesAreAmounts
  <2> HIDE DEF rate
  <2> QED
    BY <2>1, <2>2
<1>5. onInput => r.trade + r.creator # 0
  <2> SUFFICES ASSUME onInput PROVE r.trade + r.creator # 0
    OBVIOUS
  <2>1. FeeFloorDiv(input - lessFees, r.creator, r.trade + r.creator) # Null
    BY <1>2 DEF SplitCreatorFee
  <2> HIDE DEF input, lessFees
  <2> QED
    BY <2>1 DEF FeeFloorDiv
<1> HIDE DEF rate
<1>6. gross \in Nat /\ (onInput => gross = sent) /\ (~onInput => Left(gross, r.creator) >= sent)
  <2>1. CASE onInput
    BY <2>1
  <2>2. CASE ~onInput
    <3>1. gross = CalculatePreFeeAmount(sent, r.creator) /\ gross # Null
      BY <1>2, <2>2
    <3> HIDE DEF gross
    <3> QED
      BY <1>4, <2>2, <3>1, PreFeeCovers
  <2> QED
    BY <2>1, <2>2
<1> HIDE DEF gross
<1>7. /\ rest \in Nat \ {0} /\ lessFees \in Nat /\ x * gross <= lessFees * rest
      /\ x = 0 => lessFees = 0
  <2>1. lessFees # Null
    BY <1>2
  <2>2. /\ gross < y
        /\ lessFees = (x * gross + y - gross - 1) \div (y - gross)
    <3> HIDE DEF asked
    <3> QED
      BY <2>1 DEF SwapBaseOutputWithoutFees
  <2>3. rest \in Nat \ {0}
    BY <1>6, <2>2
  <2>4. x * gross + y - gross - 1 = x * gross + rest - 1
    <3>1. x * gross \in Nat
      BY <1>6, ProductOfNaturals
    <3> QED
      BY <1>6, <3>1
  <2>5. lessFees = CeilDiv(x, gross, rest)
    BY <2>2, <2>4 DEF CeilDiv
  <2> HIDE DEF lessFees, rest
  <2>6. lessFees \in Nat /\ x * gross <= rest * lessFees
    BY <1>6, <2>3, <2>5, CeilCovers
  <2>7. rest * lessFees = lessFees * rest
    BY <2>3, <2>6, SMT
  <2>8. ASSUME x = 0 PROVE lessFees = 0
    <3>1. x * gross = 0 /\ rest * 0 = 0 /\ 0 \in Nat
      BY <1>6, <2>3, <2>8, SMT
    <3>2. x * gross <= rest * 0
      BY <3>1
    <3>3. CeilDiv(x, gross, rest) <= 0
      BY <1>6, <2>3, <3>1, <3>2, CeilCovers
    <3> QED
      BY <2>5, <2>6, <3>3
  <2> QED
    BY <2>3, <2>6, <2>7, <2>8
<1>8. input # Null
  BY <1>2
<1> HIDE DEF lessFees, asked, result
<1>9. input \in Nat /\ z \in Nat /\ z >= lessFees /\ (lessFees = 0 => input = 0)
  <2>1. input = CalculatePreFeeAmount(lessFees, rate)
    OBVIOUS
  <2> HIDE DEF input
  <2> QED
    BY <1>4, <1>7, <1>8, <2>1, PreFeeCovers
<1> HIDE DEF input, z
<1>10. x + z # 0
  BY <1>3, <1>7, <1>9
<1>11. drawn \in 0..y /\ drawn >= gross
  <2>1. z * rest >= lessFees * rest
    BY <1>7, <1>9, Monotone
  <2>2. /\ x * gross \in Nat /\ lessFees * rest \in Nat /\ z * rest \in Nat
    BY <1>6, <1>7, <1>9, ProductOfNaturals
  <2>3. x * gross <= z * rest
    BY <1>7, <2>1, <2>2
  <2>4. gross <= y
    BY <1>6, <1>7
  <2>5. /\ drawn \in 0..y
        /\ \A w \in Nat : w <= y /\ x * w <= z * (y - w) => w <= drawn
    BY <1>9, <1>10, DrawnKeeps
  <2>6. x * gross <= z * (y - gross)
    BY <2>3
  <2>7. gross <= drawn
    BY <1>6, <2>4, <2>5, <2>6
  <2> QED
    BY <1>6, <2>5, <2>7
<1> HIDE DEF drawn
<1>12. drawn \in Nat
  BY <1>11
<1>13. /\ Left(gross, r.creator) \in Int /\ Left(drawn, r.creator) \in Nat
       /\ Left(gross, r.creator) <= Left(drawn, r.creator)
  <2>1. /\ Left(gross, r.creator) \in 0..gross /\ Left(drawn, r.creator) \in 0..drawn
        /\ Left(gross, r.creator) <= Left(drawn, r.creator)
    BY <1>4, <1>6, <1>11, <1>12, LeftGrows
  <2> QED
    BY <1>6, <1>12, <2>1
<1>14. Given(c.input, x, y, r, onInput) = IF onInput THEN drawn ELSE Left(drawn, r.creator)
  BY <1>3, <1>4 DEF Given, drawn, z
<1>15. x + Left(c.input, Rate(r, onInput)) # 0
  BY <1>3, <1>4, <1>10 DEF z
<1>16. /\ Given(c.input, x, y, r, onInput) \in Nat
       /\ Given(c.input, x, y, r, onInput) >= sent
  <2>1. CASE onInput
    BY <1>6, <1>11, <1>12, <1>14, <2>1
  <2>2. CASE ~onInput
    BY <1>6, <1>13, <1>14, <2>2
  <2> QED
    BY <2>1, <2>2
<1> QED
  BY <1>3, <1>5, <1>9, <1>15, <1>16

\* What a quote of an exact output says of the amount to send.
LEMMA OutputNeeds ==
  ASSUME NEW i, NEW d, Described(i), IsRay(i), PoolState(i, d), RatesSound(i),
         NEW from \in Side, NEW to, to = Other(from), NEW wanted \in Nat,
         NEW x, x = d.vault[from] - Owed(d.owed, from),
         NEW y, y = d.vault[to] - Owed(d.owed, to),
         NEW r, r = RatesOf(i),
         NEW onInput \in BOOLEAN, onInput <=> i.creatorFeeOn \in {"both", from},
         NEW n, n = SimulateSwapBaseOutput(i, d, from, wanted), n.ok
  PROVE  /\ i.creatorFeeOn \in CreatorFeeOn /\ VaultAmountWithoutFee(d.vault, d.owed).ok
         /\ wanted > 0 /\ n.transfer \in U64
         /\ \E actual \in Nat, sent \in U64 :
              /\ actual = n.transfer - GetTransferFee(i.transferFee[from], d.epoch, n.transfer)
              /\ actual > 0 /\ d.vault[from] + actual <= U64Max
              /\ onInput => r.trade + r.creator # 0
              /\ x + Left(actual, Rate(r, onInput)) # 0
              /\ Given(actual, x, y, r, onInput) \in Nat
              /\ Given(actual, x, y, r, onInput) >= sent
              /\ sent - GetTransferFee(i.transferFee[to], d.epoch, sent) = wanted
              /\ SoundRates(r) /\ x \in Nat /\ y \in U64
<1> DEFINE feeOut == GetTransferInverseFee(i.transferFee[to], d.epoch, wanted)
           without == VaultAmountWithoutFee(d.vault, d.owed)
           v == without.reserve[from]
           w == without.reserve[to]
           sent == wanted + feeOut
           c == CurveSwapBaseOutput(sent, v, w, r, onInput)
           feeIn == GetTransferInverseFee(i.transferFee[from], d.epoch, c.input)
           asked == /\ wanted \in U64 \ {0} /\ feeOut # Null
                    /\ without.ok /\ i.creatorFeeOn \in CreatorFeeOn
           paid == /\ c.ok /\ c.newIn * c.newOut \in U128 /\ c.input \in U64 \ {0}
                   /\ feeIn # Null /\ c.input + feeIn \in U64
                   /\ c.output = sent /\ c.newIn * c.newOut >= v * w
                   /\ Credited(d.vault[from], c.input) /\ sent <= d.vault[to]
           result == [ok |-> TRUE, transfer |-> c.input + feeIn]
<1>0. onInput = (i.creatorFeeOn \in {"both", from})
  OBVIOUS
<1>1. n = IF asked THEN IF sent \in U64 THEN IF paid THEN result ELSE Refused ELSE Refused
          ELSE Refused
  BY <1>0, Zenon DEF SimulateSwapBaseOutput
<1>2. asked /\ sent \in U64 /\ paid /\ n = result
  <2> HIDE DEF asked, paid, result, sent
  <2> QED
    BY <1>1 DEF Refused
<1>3. /\ to \in Side /\ d.epoch \in Nat
      /\ i.transferFee[from] \in TransferFeeConfig /\ i.transferFee[to] \in TransferFeeConfig
  BY DEF Other, Side, Described, PoolState
<1>4. v = x /\ w = y /\ x \in Nat /\ y \in Nat /\ y \in U64
  <2>0. without.ok
    BY <1>2
  <2>1. v = x /\ w = y /\ x \in Nat /\ y \in Nat /\ Owed(d.owed, to) \in Nat
    BY <1>3, <2>0, ReserveIsRest
  <2>2. d.vault[to] \in U64
    BY <1>3 DEF PoolState
  <2> HIDE DEF v, w
  <2> QED
    BY <2>1, <2>2, FeeAssumption DEF U64
<1>5. SoundRates(r)
  <2>1. i.rates \in Rates
    BY DEF Described, Rates
  <2>2. /\ r \in Rates /\ r.trade = i.rates.trade
        /\ r.protocol = i.rates.protocol /\ r.fund = i.rates.fund
        /\ r.creator \in Nat /\ r.creator <= i.rates.creator
    BY <2>1 DEF RatesOf, Rates
  <2>3. i.rates.trade \in Nat /\ i.rates.creator \in Nat
    BY <2>1 DEF Rates
  <2> QED
    BY <2>2, <2>3, FeeAssumption DEF RatesSound, SoundRates
<1> HIDE DEF v, w
<1>6. c = CurveSwapBaseOutput(sent, x, y, r, onInput)
  BY <1>4
<1>7. /\ wanted \in Nat \ {0} /\ feeOut # Null /\ sent = wanted + feeOut /\ sent \in U64
      /\ c.ok /\ c.input \in U64 \ {0} /\ feeIn # Null /\ c.input + feeIn \in U64
      /\ Credited(d.vault[from], c.input)
  BY <1>2 DEF U64
<1>8. feeOut \in Nat /\ GetTransferFee(i.transferFee[to], d.epoch, sent) = feeOut
  <2>1. feeOut = GetTransferInverseFee(i.transferFee[to], d.epoch, wanted)
    OBVIOUS
  <2>2. wanted + feeOut \in U64 /\ sent = wanted + feeOut
    BY <1>7
  <2> HIDE DEF feeOut, sent
  <2>3. feeOut \in Nat /\ GetTransferFee(i.transferFee[to], d.epoch, wanted + feeOut) = feeOut
    BY <1>3, <1>7, <2>1, <2>2, InverseFee
  <2> QED
    BY <2>2, <2>3
<1> DEFINE actual == c.input
<1>9. actual \in Nat \ {0} /\ actual <= U64Max /\ sent \in Nat
  <2> HIDE DEF c, sent
  <2> QED
    BY <1>7, FeeAssumption DEF U64
<1>10. feeIn \in Nat /\ GetTransferFee(i.transferFee[from], d.epoch, actual + feeIn) = feeIn
  <2>1. feeIn = GetTransferInverseFee(i.transferFee[from], d.epoch, actual)
    OBVIOUS
  <2>2. actual + feeIn \in U64 /\ feeIn # Null
    BY <1>7
  <2> HIDE DEF feeIn, actual
  <2> QED
    BY <1>3, <1>9, <2>1, <2>2, InverseFee
<1>11. n.transfer = actual + feeIn /\ n.transfer \in U64
  BY <1>2
<1>12. /\ onInput => r.trade + r.creator # 0
       /\ x + Left(actual, Rate(r, onInput)) # 0
       /\ Given(actual, x, y, r, onInput) \in Nat
       /\ Given(actual, x, y, r, onInput) >= sent
  <2>1. c.input # 0 /\ c.ok
    BY <1>7
  <2> HIDE DEF c, sent
  <2> QED
    BY <1>4, <1>5, <1>6, <1>9, <2>1, CurveOutputCovers
<1>13. d.vault[from] + actual <= U64Max
  BY <1>7 DEF Credited, U64
<1>14. sent - GetTransferFee(i.transferFee[to], d.epoch, sent) = wanted
  BY <1>7, <1>8
<1>15. i.creatorFeeOn \in CreatorFeeOn /\ VaultAmountWithoutFee(d.vault, d.owed).ok /\ wanted > 0
  BY <1>2, <1>7
<1>16. sent \in U64
  BY <1>7
<1> HIDE DEF c, feeIn, feeOut, sent, actual, result
<1>17. actual = n.transfer - GetTransferFee(i.transferFee[from], d.epoch, n.transfer)
  BY <1>9, <1>10, <1>11
<1>18. actual \in Nat /\ actual > 0
  BY <1>9
<1>19. /\ actual = n.transfer - GetTransferFee(i.transferFee[from], d.epoch, n.transfer)
       /\ actual > 0 /\ d.vault[from] + actual <= U64Max
       /\ onInput => r.trade + r.creator # 0
       /\ x + Left(actual, Rate(r, onInput)) # 0
       /\ Given(actual, x, y, r, onInput) \in Nat
       /\ Given(actual, x, y, r, onInput) >= sent
       /\ sent - GetTransferFee(i.transferFee[to], d.epoch, sent) = wanted
       /\ SoundRates(r) /\ x \in Nat /\ y \in U64
  BY <1>4, <1>5, <1>12, <1>13, <1>14, <1>17, <1>18
<1> QED
  BY <1>11, <1>15, <1>16, <1>18, <1>19, Zenon

\* The amount that a quote of an exact output asks for brings that output.
LEMMA ExactOutServes ==
  ASSUME NEW i, NEW d, Described(i), IsRay(i), PoolState(i, d), RatesSound(i),
         NEW from \in Side, NEW wanted \in Nat,
         NEW n, n = SimulateSwapBaseOutput(i, d, from, wanted), n.ok,
         NEW k, k = SimulateSwapBaseInput(i, d, from, n.transfer)
  PROVE  k.ok /\ k.received >= wanted
<1> DEFINE to == Other(from)
           x == d.vault[from] - Owed(d.owed, from)
           y == d.vault[to] - Owed(d.owed, to)
           r == RatesOf(i)
           onInput == i.creatorFeeOn \in {"both", from}
           G(a) == GetTransferFee(i.transferFee[to], d.epoch, a)
<1>1. onInput \in BOOLEAN /\ (onInput <=> i.creatorFeeOn \in {"both", from})
  OBVIOUS
<1>2. /\ to = Other(from) /\ x = d.vault[from] - Owed(d.owed, from)
      /\ y = d.vault[to] - Owed(d.owed, to) /\ r = RatesOf(i)
  OBVIOUS
<1>3. to \in Side /\ d.epoch \in Nat /\ i.transferFee[to] \in TransferFeeConfig
  BY DEF Other, Side, Described, PoolState
<1> HIDE DEF onInput, to, x, y, r
<1>4. /\ i.creatorFeeOn \in CreatorFeeOn /\ VaultAmountWithoutFee(d.vault, d.owed).ok
      /\ wanted > 0 /\ n.transfer \in U64
      /\ \E actual \in Nat, sent \in U64 :
           /\ actual = n.transfer - GetTransferFee(i.transferFee[from], d.epoch, n.transfer)
           /\ actual > 0 /\ d.vault[from] + actual <= U64Max
           /\ onInput => r.trade + r.creator # 0
           /\ x + Left(actual, Rate(r, onInput)) # 0
           /\ Given(actual, x, y, r, onInput) \in Nat
           /\ Given(actual, x, y, r, onInput) >= sent
           /\ sent - GetTransferFee(i.transferFee[to], d.epoch, sent) = wanted
           /\ SoundRates(r) /\ x \in Nat /\ y \in U64
  BY <1>1, <1>2, OutputNeeds
<1>5. PICK actual \in Nat, sent \in U64 :
           /\ actual = n.transfer - GetTransferFee(i.transferFee[from], d.epoch, n.transfer)
           /\ actual > 0 /\ d.vault[from] + actual <= U64Max
           /\ onInput => r.trade + r.creator # 0
           /\ x + Left(actual, Rate(r, onInput)) # 0
           /\ Given(actual, x, y, r, onInput) \in Nat
           /\ Given(actual, x, y, r, onInput) >= sent
           /\ sent - GetTransferFee(i.transferFee[to], d.epoch, sent) = wanted
           /\ SoundRates(r) /\ x \in Nat /\ y \in U64
  BY <1>4
<1> DEFINE out == Given(actual, x, y, r, onInput)
<1>6. out \in U64
  <2>1. x + actual \in U64 /\ actual \in U64
    <3>1. Owed(d.owed, from) \in Nat /\ d.vault[from] \in Nat
      BY <1>4, ReserveIsRest
    <3> QED
      BY <1>2, <1>5, <3>1, FeeAssumption DEF U64
  <2>2. Servable(actual, x, y, r, onInput)
    BY <1>5, <2>1 DEF Servable
  <2> DEFINE c == CurveSwapBaseInput(actual, x, y, r, onInput)
  <2>3. c = CurveSwapBaseInput(actual, x, y, r, onInput)
    OBVIOUS
  <2> HIDE DEF c
  <2>4. c.output = out /\ c.output \in 0..y
    BY <1>1, <2>2, <2>3, CurveServes
  <2> HIDE DEF out
  <2> QED
    BY <1>5, <2>4, FeeAssumption DEF U64
<1> HIDE DEF out
<1>7. out >= sent
  BY <1>5 DEF out
<1>8. G(sent) \in 0..sent /\ G(out) \in 0..out /\ sent - G(sent) <= out - G(out)
  BY <1>3, <1>5, <1>6, <1>7, NetGrows
<1>9. G(out) < out /\ out - G(out) >= wanted
  <2>1. sent - G(sent) = wanted
    BY <1>5
  <2> HIDE DEF G
  <2> QED
    BY <1>4, <1>6, <1>8, <2>1, FeeAssumption DEF U64
<1>10. k.ok /\ k.received = out - G(out)
  <2>1. out = Given(actual, x, y, r, onInput)
    BY DEF out
  <2>2. GetTransferFee(i.transferFee[to], d.epoch, out) < out
    BY <1>9
  <2> DEFINE amount == n.transfer
  <2>3. /\ amount \in U64 /\ actual > 0 /\ d.vault[from] + actual <= U64Max
        /\ actual = amount - GetTransferFee(i.transferFee[from], d.epoch, amount)
        /\ k = SimulateSwapBaseInput(i, d, from, amount)
        /\ onInput => r.trade + r.creator # 0
        /\ x + Left(actual, Rate(r, onInput)) # 0
        /\ i.creatorFeeOn \in CreatorFeeOn /\ VaultAmountWithoutFee(d.vault, d.owed).ok
    BY <1>4, <1>5
  <2> HIDE DEF amount, G
  <2>4. k.ok /\ k.received = out - GetTransferFee(i.transferFee[to], d.epoch, out)
    BY <1>1, <1>2, <2>1, <2>2, <2>3, SimulationServes
  <2> QED
    BY <2>4 DEF G
<1> QED
  BY <1>9, <1>10

(***************************************************************************)
(* For any Raydium pool of sound rates, whatever was traded on it, and any *)
(* amount: sending what quoteExactOut asks for brings that amount.         *)
(***************************************************************************)
THEOREM ExactOutIsCovered == Spec => []ExactOutCovers
<1>1. Inv => ExactOutCovers
  <2> SUFFICES ASSUME Inv, NEW p \in Pools, NEW from \in Side, NEW wanted \in Amounts,
                      IsRay(Info[p]), RatesSound(Info[p]),
                      SimulateSwapBaseOutput(Info[p], pools[p], from, wanted).ok
               PROVE  LET n == SimulateSwapBaseOutput(Info[p], pools[p], from, wanted)
                          k == SimulateSwapBaseInput(Info[p], pools[p], from, n.transfer)
                      IN  k.ok /\ k.received >= wanted
    BY Zenon DEF ExactOutCovers
  <2> DEFINE n == SimulateSwapBaseOutput(Info[p], pools[p], from, wanted)
             k == SimulateSwapBaseInput(Info[p], pools[p], from, n.transfer)
  <2>1. Described(Info[p]) /\ PoolState(Info[p], pools[p]) /\ wanted \in Nat
    BY PoolsAssumption, MarketAssumption DEF Inv, PoolsOK
  <2>2. n = SimulateSwapBaseOutput(Info[p], pools[p], from, wanted) /\ n.ok
    OBVIOUS
  <2>3. k = SimulateSwapBaseInput(Info[p], pools[p], from, n.transfer)
    OBVIOUS
  <2> HIDE DEF n, k
  <2>4. k.ok /\ k.received >= wanted
    BY <2>1, <2>2, <2>3, ExactOutServes
  <2> QED
    BY <2>4 DEF n, k
<1> QED
  BY <1>1, InitKeeps, StepKeeps, PTL DEF Spec

====
