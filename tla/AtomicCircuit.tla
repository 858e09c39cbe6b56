--------------------------- MODULE AtomicCircuit ---------------------------
(***************************************************************************)
(* What an executed circuit promises its user, whatever the two exchanges  *)
(* it trades with do: either nothing has happened, or the base balance has *)
(* grown by the profit asked for, the intermediate token is back where it  *)
(* was, and the native lamports spent are within the limit.                *)
(***************************************************************************)
EXTENDS Integers

CONSTANTS
  Balances,  \* the values of the user's three balances
  Orders     \* what the user may ask for: [minProfit, maxSpend]

VARIABLES balances, order, result

Fulfilled(before, after, o) ==
  /\ after.base >= before.base + o.minProfit
  /\ after.inter = before.inter
  /\ after.lamports >= before.lamports - o.maxSpend

Init ==
  /\ balances \in Balances
  /\ order \in Orders
  /\ result = "none"

Submit ==
  /\ result # "running"
  /\ result' = "running"
  /\ order' \in Orders
  /\ UNCHANGED balances

Commit ==
  /\ result = "running"
  /\ result' = "committed"
  /\ balances' \in Balances
  /\ Fulfilled(balances, balances', order)
  /\ UNCHANGED order

Abort ==
  /\ result = "running"
  /\ result' = "aborted"
  /\ UNCHANGED <<balances, order>>

Next == Submit \/ Commit \/ Abort

Spec == Init /\ [][Next]_<<balances, order, result>>
=============================================================================
