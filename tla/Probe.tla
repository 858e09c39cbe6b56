-------------------------------- MODULE Probe --------------------------------
(***************************************************************************)
(* What becomes of a circuit that was sized: a local probe executes it on  *)
(* the accounts as they are by then, with a synthetic user, and accounts   *)
(* for every lamport; a second transaction recovers the deposits.          *)
(*                                                                         *)
(* simulation/probe.ts, accounting/pnl.ts.  A probe is one step: once its  *)
(* accounts are fetched nothing is awaited.  The exchanges it runs are the *)
(* programs themselves, external to the repository: they compute what the  *)
(* adapters port, take the transfer fee of the current epoch, and may      *)
(* charge the user for an account that the probe does not know of.         *)
(***************************************************************************)
EXTENDS Market

CONSTANTS
    Fund,           \* opts.fundLamports
    BaseFee, PriorityFee, JitoTip,
    AtaRent,        \* the deposit of the account of the intermediate token
    UvaRent,        \* the deposit of PumpSwap's user_volume_accumulator
    Surprises       \* what else the exchanges may charge the user

ASSUME ProbeAssumption ==
    /\ {Fund, BaseFee, PriorityFee, JitoTip, AtaRent, UvaRent} \subseteq Nat
    /\ BaseFee + PriorityFee <= Fund
    /\ BpsDenominator = MaxFeeBasisPoints     \* both are ten thousand
    /\ Surprises \subseteq Nat

VARIABLES
    stage,     \* "idle", "sized", "probed" or "recovered"
    plan,      \* the circuit with its evaluation and the pools it was made on
    report     \* what the probe measured and reported, then the recovery

vars == <<pools, flow, stage, plan, report>>

Nothing == [made |-> FALSE]

Init ==
    /\ MarketInit
    /\ stage = "idle" /\ plan = Nothing /\ report = Nothing

-----------------------------------------------------------------------------
\* A size is found on the pools as they are seen.
Size(c) ==
    /\ stage = "idle"
    /\ c \in EnumerateCircuits(KeptPools(pools))
    /\ \E best \in {SizeCircuit(pools, c)} :
          /\ best.ok
          /\ plan' = [made |-> TRUE, circuit |-> c, eval |-> best,
                      seen |-> [p \in {c.a, c.b} |-> pools[p]]]
    /\ stage' = "sized"
    /\ UNCHANGED <<pools, flow, report>>

\* Others trade while the probe's accounts are being fetched.
Interfere == SomeTrade /\ stage \in {"idle", "sized"} /\ UNCHANGED <<stage, plan, report>>

(***************************************************************************)
(* What an exchange's program does with a leg: what it takes, what arrives *)
(* and what of it is withheld.  PumpSwap compares the minimum with what    *)
(* leaves the vault, Raydium with what arrives.                            *)
(***************************************************************************)
Executed(p, from, amount, minOut) ==
    LET i == Info[p]
        d == pools[p]
        s == PumpState(i, d)
        Withheld(out) == GetTransferFee(i.transferFee.token, d.epoch, out)
        Swapped(r) ==
          IF RayGate(i, d) /\ r.ok /\ r.received >= minOut
          THEN [ok |-> TRUE, debit |-> amount, credit |-> r.received,
                withheld |-> r.curve.output - r.received]
          ELSE Refused
        Bought(r) ==
          IF r.ok /\ r.baseOut >= minOut /\ Withheld(r.baseOut) # Null
          THEN [ok |-> TRUE, debit |-> r.total, credit |-> r.baseOut - Withheld(r.baseOut),
                withheld |-> Withheld(r.baseOut)]
          ELSE Refused
        Sold(r) ==
          IF r.ok /\ r.userQuoteOut >= minOut
          THEN [ok |-> TRUE, debit |-> amount, credit |-> r.userQuoteOut, withheld |-> 0]
          ELSE Refused
    IN  IF IsRay(i) THEN Swapped(SimulateSwapBaseInput(i, d, from, amount))
        ELSE IF from = "wsol" THEN Bought(BuyQuoteInput(s, Schedule(i, s), amount))
             ELSE Sold(SellBaseInput(s, Schedule(i, s), amount))

\* The argument of the first leg: PumpSwap is given a budget, derived from the
\* pool as it was seen.  Null when the instruction cannot be built.
LegAArgument(ev, a) ==
    IF IsRay(Info[a]) THEN ev.quoteA.amountIn
    ELSE SpendableBudgetFor(Info[a], plan.seen[a], ev.quoteA.amountIn)

(***************************************************************************)
(* The direct transaction: both legs with the amounts that were quoted, or *)
(* nothing.  The user's WSOL account holds the size that was chosen.       *)
(***************************************************************************)
RunDirect ==
    LET ev == plan.eval
        c == plan.circuit
        Both(a, b) ==
          IF /\ a.ok /\ a.debit <= ev.amountIn
             /\ ev.quoteA.out <= a.credit /\ b.ok
          THEN [ok |-> TRUE, base |-> b.credit - a.debit, inter |-> a.credit - b.debit,
                withheld |-> a.withheld]
          ELSE Refused
    IN  Both(Executed(c.a, "wsol", LegAArgument(ev, c.a), ev.quoteA.out),
             Executed(c.b, "token", ev.quoteA.out, ev.quoteB.out))

(***************************************************************************)
(* The same circuit through the on-chain executor: the second leg sells    *)
(* what the first one brought, and the executor's own guard is the only    *)
(* minimum.                                                                *)
(***************************************************************************)
RunExecutor ==
    LET ev == plan.eval
        c == plan.circuit
        Both(a, b) == IF a.ok /\ b.ok THEN [ok |-> TRUE, base |-> b.credit - a.debit] ELSE Refused
        Bought(a) == Both(a, Executed(c.b, "token", a.credit, 1))
    IN  Bought(Executed(c.a, "wsol", ev.amountIn, ev.quoteA.out))

\* Of two runs, one with a minimum profit of zero and one with the profit quoted.
Verdict ==
    LET Of(run) ==
          CASE ~run.ok -> "FAILED"
            [] run.ok /\ run.base < 0 -> "GUARD_REVERTED_LOSING_CIRCUIT"
            [] run.ok /\ run.base >= 0 /\ run.base >= plan.eval.pnl -> "GUARD_PASSED_AT_QUOTED_PROFIT"
            [] OTHER -> "BREAK_EVEN_OR_BETTER_AT_MIN_PROFIT_0"
    IN  Of(RunExecutor)

-----------------------------------------------------------------------------
\* What the exchanges create for the user, with the deposit in each account.
Deposits(c) ==
    {[kind |-> "intermediate_ata", lamports |-> AtaRent]}
    \cup IF IsRay(Info[c.a]) THEN {}
         ELSE {[kind |-> "user_volume_accumulator", lamports |-> UvaRent]}

\* A faulty variant: the deposit of PumpSwap's account is not looked for.
CandidatesWithoutUva == {"intermediate_ata"}

DepositCandidates == {"intermediate_ata", "user_volume_accumulator"}

\* measureCreatedAccounts: the candidates that exist after the transaction.  The
\* user is new, so that none existed before it.
CreatedAccounts(c) == {d \in Deposits(c) : d.kind \in DepositCandidates}

LamportsOf(accounts) == MapThenSumSet(LAMBDA a : a.lamports, accounts)

\* base_fee, priority_fee and jito_tip; the tip is listed though no transaction pays it.
ExternalCosts == BaseFee + PriorityFee + JitoTip

(***************************************************************************)
(* reconcileAttempt: costs and locked deposits must explain every lamport  *)
(* that left the wallet.                                                   *)
(***************************************************************************)
ReconcileAttempt(tradingPnl, spent, locked, baseDelta, nativeDelta, failed) ==
    LET unexplained == spent - ExternalCosts - locked
    IN  [net |-> tradingPnl - ExternalCosts, locked |-> locked,
         liquid |-> baseDelta + nativeDelta, unexplained |-> unexplained,
         complete |-> ~failed /\ unexplained = 0]

\* Until deposits are recovered.
NoRecovery == [closed |-> {}, netRecovered |-> 0]

(***************************************************************************)
(* The report on a run.  A transaction that fails costs the user its fee,  *)
(* and the report of it leaves out what was spent.                         *)
(***************************************************************************)
Report(run, surprise) ==
    LET created == CreatedAccounts(plan.circuit)
        fees == BaseFee + PriorityFee
        native == -(fees + LamportsOf(Deposits(plan.circuit)) + surprise)
    IN  IF run.ok /\ -native <= Fund
        THEN [made |-> TRUE, ok |-> TRUE, created |-> created, verdict |-> Verdict,
              wallet |-> [sol |-> Fund + native, base |-> plan.eval.amountIn + run.base,
                          inter |-> run.inter, withheld |-> run.withheld],
              matchesQuote |-> run.base = plan.eval.pnl /\ run.inter = 0,
              acct |-> ReconcileAttempt(run.base, -native, LamportsOf(created),
                                        run.base, native, FALSE),
              recovery |-> NoRecovery]
        ELSE [made |-> TRUE, ok |-> FALSE, created |-> {}, verdict |-> Verdict,
              wallet |-> [sol |-> Fund - fees, base |-> plan.eval.amountIn,
                          inter |-> 0, withheld |-> 0],
              matchesQuote |-> FALSE,
              acct |-> ReconcileAttempt(plan.eval.pnl, 0, 0, plan.eval.pnl, 0, TRUE),
              recovery |-> NoRecovery]

\* localProbe, from the accounts it fetches to its report.
LocalProbe(surprise) ==
    /\ stage = "sized"
    /\ ~IsRay(Info[plan.circuit.a]) => LegAArgument(plan.eval, plan.circuit.a) # Null
    /\ report' = Report(RunDirect, surprise)
    /\ stage' = "probed"
    /\ UNCHANGED <<pools, flow, plan>>

(***************************************************************************)
(* recoverDeposits closes the created accounts in one transaction, which   *)
(* pays its own fee.  The token program refuses to close an account that   *)
(* still holds tokens or withheld fees, and then nothing is closed.        *)
(***************************************************************************)
CloseSucceeds(wallet) == wallet.inter = 0 /\ wallet.withheld = 0

\* A faulty variant: the fee of the recovery is left out of what it brought.
NetRecoveredGross(closes, change) == IF closes THEN change + BaseFee ELSE -BaseFee

\* From the change of the wallet's lamports over the recovery.
NetRecovered(closes, change) == IF closes THEN change ELSE -BaseFee

Recovered(probed) ==
    LET closes == CloseSucceeds(probed.wallet)
        change == (IF closes THEN LamportsOf(probed.created) ELSE 0) - BaseFee
    IN  IF probed.created = {} THEN probed
        ELSE [probed EXCEPT !.wallet.sol = @ + change,
                            !.recovery = [closed |-> IF closes THEN probed.created ELSE {},
                                          netRecovered |-> NetRecovered(closes, change)]]

Recover ==
    /\ stage = "probed"
    /\ report' = Recovered(report)
    /\ stage' = "recovered"
    /\ UNCHANGED <<pools, flow, plan>>

\* The next pass starts from a new snapshot.
Proceed ==
    /\ stage \in {"sized", "probed", "recovered"}
    /\ stage' = "idle" /\ plan' = Nothing /\ report' = Nothing
    /\ UNCHANGED <<pools, flow>>

Next ==
    \/ Interfere
    \/ \E c \in [a : Pools, b : Pools] : Size(c)
    \/ \E surprise \in Surprises : LocalProbe(surprise)
    \/ Recover
    \/ Proceed

Spec == Init /\ [][Next]_vars

-----------------------------------------------------------------------------
(***************************************************************************)
(* The chosen size is within the cap, earns something, and no size of the  *)
(* grid within the cap earns more.                                         *)
(***************************************************************************)
SizeIsBest ==
    stage = "sized" =>
        /\ plan.eval.amountIn <= MaxCapital /\ plan.eval.quoteA.amountIn <= MaxCapital
        /\ plan.eval.pnl > 0
        /\ \A g \in Grid :
              LET r == EvaluateCircuit(plan.seen, plan.circuit, g)
              IN  g <= MaxCapital /\ r.ok => r.pnl <= plan.eval.pnl

Unmoved == \A p \in DOMAIN plan.seen : pools[p] = plan.seen[p]

Affordable == \A s \in Surprises :
    BaseFee + PriorityFee + LamportsOf(Deposits(plan.circuit)) + s <= Fund

\* A purchase that brings what was quoted and no more: the quotes of PumpSwap
\* take the transfer fee at its worst, so that more of the token may arrive.
BringsTheQuote(a) == IsRay(Info[a]) \/ ~Info[a].transferFee.token.charged

\* There are no more tokens of a mint than a token account holds.
SupplyHolds(c) == pools[c.a].vault.token + pools[c.b].vault.token <= U64Max

(***************************************************************************)
(* On pools that did not move since they were seen, a probe succeeds and   *)
(* earns exactly what was quoted; it brings back every token unless a      *)
(* transfer fee was taken at its worst.  The executor, which sells all     *)
(* that arrived, earns what was quoted or more, unless it sells more than  *)
(* was quoted on PumpSwap, whose fees are rounded up one by one.  On pools *)
(* that moved, a probe that succeeds still sells for what was quoted.      *)
(***************************************************************************)
ProbeHonoursQuote ==
    stage = "probed" =>
        LET c == plan.circuit
        IN  /\ Unmoved /\ Affordable =>
                  /\ report.ok /\ report.wallet.base - plan.eval.amountIn = plan.eval.pnl
                  /\ BringsTheQuote(c.a) => report.matchesQuote
            /\ Unmoved /\ (BringsTheQuote(c.a) \/ (IsRay(Info[c.b]) /\ SupplyHolds(c))) =>
                  report.verdict = "GUARD_PASSED_AT_QUOTED_PROFIT"
            /\ report.ok => report.wallet.base >= plan.eval.quoteB.out

(***************************************************************************)
(* A report calls itself complete exactly when the circuit was executed    *)
(* and took no more than fees and the deposits that exist, and then it is  *)
(* right: the wallet moved by the net result less those deposits.  The     *)
(* wallet is never overdrawn, whatever became of the probe.                *)
(***************************************************************************)
CompleteIsTrue ==
    stage = "probed" =>
        LET deposits == LamportsOf(Deposits(plan.circuit))
            moved == report.wallet.sol + report.wallet.base - Fund - plan.eval.amountIn
        IN  /\ report.wallet \in [{"sol", "base", "inter", "withheld"} -> Nat]
            /\ report.acct.complete <=>
                  /\ report.ok
                  /\ report.wallet.sol + ExternalCosts + deposits = Fund
            /\ report.acct.complete =>
                  /\ moved = report.acct.liquid
                  /\ moved = report.acct.net - report.acct.locked
                  /\ report.acct.locked = deposits

(***************************************************************************)
(* After a recovery either every deposit is back and the wallet has moved  *)
(* by the net result and one more fee, or none is and only the fee is      *)
(* gone, as the recovery says itself.  Deposits stay behind only with      *)
(* tokens of the intermediate mint.                                        *)
(***************************************************************************)
DepositsReturn ==
    stage = "recovered" /\ report.ok /\ report.acct.complete =>
        LET moved == report.wallet.sol + report.wallet.base - Fund - plan.eval.amountIn
            left == report.wallet.inter + report.wallet.withheld
        IN  /\ moved = report.acct.liquid + report.recovery.netRecovered
            /\ IF report.recovery.closed = report.created
               THEN left = 0 /\ moved = report.acct.net - BaseFee
               ELSE left > 0 /\ report.recovery.closed = {}
                    /\ moved = report.acct.net - report.acct.locked - BaseFee
=============================================================================
