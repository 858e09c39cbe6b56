-------------------------- MODULE ProbeReservation --------------------------
(***************************************************************************)
(* reserveBestSize() of src/cli/shadow.ts: a size that the ledger refuses  *)
(* for its amount is searched again under what the ledger does grant, and  *)
(* the smaller one is reserved.  It is one synchronous stretch, so that    *)
(* both reservations see the same ledger; what the search finds in the     *)
(* pools is any size under the cap, or none.                               *)
(***************************************************************************)
EXTENDS CapitalLedger

CONSTANT MaxCapital  \* maxCapitalLamports

ASSUME MaxCapitalAssumption == MaxCapital \in Nat

NoSize == 0

Sized(p, amount) == [p EXCEPT !.amountIn = amount]

\* reserve() says yes.
Granted(p) == Valid(p) /\ Admissible(p) /\ WithinCaps(p)

\* CAPITAL_CAP_CODES: reserve() tests the amount last.
RefusedForCap(p) == Valid(p) /\ Admissible(p) /\ ~WithinCaps(p)

\* A faulty variant: the cap is the budget, fee and deposit not deducted.
CapLamportsOfBudget(p) == Smaller(LedgerBudget, MaxCapital)

\* effectiveSizingCap().
CapLamports(p) == Smaller(CapacityFor(p.feeBudget, p.deposit), MaxCapital)

\* What sizeCircuit() may find under a cap.
Findable(cap) == {a \in Amounts : 0 < a /\ a <= cap} \cup {NoSize}

Searched(p) == RefusedForCap(p) /\ CapLamports(p) > 0 /\ CapLamports(p) < p.amountIn

\* The reservation that stands and the size that is built.
ReserveBestSize(p, found) ==
  LET retried == Searched(p) /\ found # NoSize
      second == Granted(Sized(p, found))
  IN  [retried |-> retried,
       ok |-> Granted(p) \/ (retried /\ second),
       chosen |-> IF retried /\ second THEN found ELSE p.amountIn]

-----------------------------------------------------------------------------
\* Any size the circuit may be given up for.
Forgone(p) == {a \in 1..(p.amountIn - 1) : a <= MaxCapital}

(***************************************************************************)
(* F7, in every state of the ledger: the second reservation is never       *)
(* refused, the size that is built is the one that was reserved, and a     *)
(* refusal for the amount stands only when the pools offer nothing under   *)
(* the cap or the ledger would grant no smaller size at all.               *)
(***************************************************************************)
FallbackStands ==
  \A p \in {q \in Probe : Valid(q)} : \A found \in Findable(CapLamports(p)) :
    LET r == ReserveBestSize(p, found) IN
      /\ r.retried => r.ok
      /\ r.ok => Granted(Sized(p, r.chosen)) /\ r.chosen <= p.amountIn
      /\ RefusedForCap(p) /\ ~r.ok =>
           found = NoSize \/ \A a \in Forgone(p) : ~Granted(Sized(p, a))
=============================================================================
