------------------------------ MODULE Executor ------------------------------
(***************************************************************************)
(* The on-chain executor of src/programs/arb_executor: process_instruction *)
(* checks its accounts and both legs, calls one exchange program after the *)
(* other and guards the balances they leave.  The exchanges are the        *)
(* environment and do anything to the accounts the user signed for; the    *)
(* runtime undoes every change of an instruction that returns an error.    *)
(*                                                                         *)
(* An action is the code between two cross-program calls, or one such      *)
(* call.  Balances are u64.  What the byte-level account validation finds  *)
(* is a verdict the transaction carries, one for the fixed accounts and    *)
(* one for each leg; error codes are left out.                             *)
(***************************************************************************)
EXTENDS Integers

CONSTANTS
  MaxU64,
  Transactions  \* the transactions submitted

U64 == 0..MaxU64
Kinds == {"raydium", "pump_buy", "pump_sell", "unknown"}

\* A transaction: the instruction data, and what its accounts are found to be.
Transaction ==
  [amountIn : U64, minProfit : U64, maxSpend : U64, legAMinOut : U64,
   legAKind : Kinds, legBKind : Kinds,
   fixedSound : BOOLEAN, legASound : BOOLEAN, legBSound : BOOLEAN]

ASSUME WidthAssumption == MaxU64 \in Nat
ASSUME TransactionsAssumption == Transactions \subseteq Transaction

Holdings == [base : U64, inter : U64, lamports : U64]
Orders == [minProfit : U64, maxSpend : U64]

VARIABLES
  stage,   \* where process_instruction is
  tx,
  chain,   \* the user's balances on the chain: no running instruction shows in them
  held,    \* the balances the instruction's accounts show
  first,   \* base0, inter0 and lamports0
  delta,   \* what leg A brought in
  result

vars == <<stage, tx, chain, held, first, delta, result>>

Stages == {"idle", "entered", "calling_a", "called_a", "calling_b", "called_b"}

Init ==
  /\ stage = "idle"
  /\ tx \in Transactions
  /\ chain \in Holdings
  /\ held = chain /\ first = chain
  /\ delta = 0
  /\ result = "none"

-----------------------------------------------------------------------------
(* The checks.                                                             *)

\* check_kind_for_role(): a buy spends the base token, a sell brings it back.
KindFits(kind, role) ==
  \/ kind = "raydium"
  \/ kind = "pump_buy" /\ role = "A"
  \/ kind = "pump_sell" /\ role = "B"

\* validate_segment(), sound being what validate_leg() finds.
SegmentSound(kind, role, sound) == KindFits(kind, role) /\ sound

\* Both legs.
LegsSound(t) ==
  /\ SegmentSound(t.legAKind, "A", t.legASound)
  /\ SegmentSound(t.legBKind, "B", t.legBSound)

\* A faulty variant: any change of the intermediate balance is an output.
HasOutputEither(inter0, inter1) == inter1 # inter0

\* leg_a_delta(): a checked subtraction, and not zero.
HasOutput(inter0, inter1) == inter1 > inter0

\* A faulty variant: the addition wraps instead of being checked.
ProfitReachedWrapping(base0, base1, minProfit) ==
  base1 >= (base0 + minProfit) % (MaxU64 + 1)

\* check_profit(), with its overflow check.
ProfitReached(base0, base1, minProfit) ==
  base0 + minProfit <= MaxU64 /\ base1 >= base0 + minProfit

\* lamports_spent(): a saturating subtraction.
SpendWithin(lamports0, lamports1, maxSpend) ==
  (IF lamports0 > lamports1 THEN lamports0 - lamports1 ELSE 0) <= maxSpend

-----------------------------------------------------------------------------
\* The instruction is over, and its variables with it.
End(outcome, balances) ==
  /\ stage' = "idle"
  /\ result' = outcome
  /\ chain' = balances /\ held' = balances /\ first' = balances
  /\ delta' = 0
  /\ UNCHANGED tx

\* An error: the runtime undoes what the calls changed.
Fail == End("aborted", chain)

\* A transaction reaches the program.
Submit(t) ==
  /\ stage = "idle"
  /\ stage' = "entered"
  /\ tx' = t
  /\ result' = "running"
  /\ UNCHANGED <<chain, held, first, delta>>

\* Everything up to the first call: the fixed accounts, the first balances
\* and BOTH legs.
Accepted(t) ==
  /\ t.fixedSound
  /\ ~(t.legAKind = "pump_buy" /\ t.legAMinOut = 0)
  /\ t.amountIn <= held.base
  /\ LegsSound(t)

Validate ==
  /\ stage = "entered"
  /\ \/ /\ Accepted(tx)
        /\ first' = held
        /\ stage' = "calling_a"
        /\ UNCHANGED <<tx, chain, held, delta, result>>
     \/ ~Accepted(tx) /\ Fail

\* An exchange program runs: it does what it likes to the balances and
\* returns, or it returns an error or leaves a token account unreadable.
Call(from, to) ==
  /\ stage = from
  /\ \/ /\ held' \in Holdings
        /\ stage' = to
        /\ UNCHANGED <<tx, chain, first, delta, result>>
     \/ Fail

CallLegA == Call("calling_a", "called_a")

\* What leg A brought in is the whole of what leg B is asked to spend.
MeasureLegA ==
  /\ stage = "called_a"
  /\ \/ /\ HasOutput(first.inter, held.inter)
        /\ delta' = held.inter - first.inter
        /\ stage' = "calling_b"
        /\ UNCHANGED <<tx, chain, held, first, result>>
     \/ ~HasOutput(first.inter, held.inter) /\ Fail

CallLegB == Call("calling_b", "called_b")

Guarded ==
  /\ held.inter = first.inter
  /\ SpendWithin(first.lamports, held.lamports, tx.maxSpend)
  /\ ProfitReached(first.base, held.base, tx.minProfit)

\* The guards after leg B; when they pass, the changes reach the chain.
Guard ==
  /\ stage = "called_b"
  /\ \/ Guarded /\ End("committed", held)
     \/ ~Guarded /\ Fail

Next ==
  \/ \E t \in Transactions : Submit(t)
  \/ Validate \/ CallLegA \/ MeasureLegA \/ CallLegB \/ Guard

Spec == Init /\ [][Next]_vars

-----------------------------------------------------------------------------
\* The types of the variables.
TypeOK ==
  /\ stage \in Stages
  /\ tx \in Transactions
  /\ chain \in Holdings /\ held \in Holdings /\ first \in Holdings
  /\ delta \in U64
  /\ result \in {"none", "running", "committed", "aborted"}

\* A malformed leg B never leaves leg A executed: no exchange is called, not
\* even to be undone, before both legs have been validated.
NoLegBeforeBothAreSound ==
  stage \in {"calling_a", "called_a", "calling_b", "called_b"} =>
    /\ tx.legASound /\ tx.legBSound
    /\ tx.legAKind \in {"raydium", "pump_buy"}
    /\ tx.legBKind \in {"raydium", "pump_sell"}

Atomic == INSTANCE AtomicCircuit WITH
  Balances <- Holdings,
  balances <- chain,
  order <- [minProfit |-> tx.minProfit, maxSpend |-> tx.maxSpend]

\* The executor implements the atomic circuit: whatever the exchanges do
\* between its checks, a circuit that succeeds has brought the profit, left
\* no inventory and kept to the limit on lamports, and one that fails has
\* changed nothing.
ImplementsAtomicCircuit == Atomic!Spec
=============================================================================
