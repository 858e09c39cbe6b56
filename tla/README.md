# Verification of atomarb

atomarb looks for circular trades on Solana: circuits that spend wrapped SOL for a
token in one pool (leg A) and sell that token for wrapped SOL in another (leg B). A TypeScript
program reads pools from a node, sizes circuits, and in "shadow" mode probes the promising ones by
simulation, without ever broadcasting. A Rust program, the executor, runs the two legs atomically
on the chain. This directory holds TLA+ models of the parts of that system whose correctness
depends on interleavings, failures or long sequences of calls, the TLC configurations that check
them, and proofs of their main invariants for every value of the constants.

Source paths below are relative to the repository. Files are in `src/`, `programs/` and
`integrations/` there.

## 1. Inventory

| Component | State it keeps | Operations | What is hard | Correct when |
|---|---|---|---|---|
| RPC client (`src/state/rpc.ts`) | `usage.total`, `inflight`, `waiters`, the token bucket | `call`: `acquire`, attempt, `release`, retry with backoff | callers suspended at five awaits share counters; a released slot may be taken before the woken waiter runs | the budget is never overspent, a slot never leaks, no waiter is forgotten, the rate holds over every window, every call returns |
| Capital ledger (`src/accounting/capital.ts`) | capital, open positions, `lockedAmount` | `reserve`, `settle`, `budget`, `capacityFor` | the counter and the map must agree over long histories; caps are fractions of a capital that later losses shrink | the counter is the sum, caps and reserve survive losses, no conflicts, `capacityFor` agrees with `reserve` |
| WebSocket manager (`src/state/wss.ts`) | socket, `pending`, `subs`, `wanted`, seen identities, start promise, retry timer | `start`, `stop`, `subscribe`, handlers of open, message, close, two timers | events of a closed socket arrive later; restarts, timeouts and drops race | one lifecycle, never abandoned, quiet after `stop`, every wanted key subscribed once, notifications attributed rightly, gaps marked |
| Shadow loop (`src/cli/shadow.ts`) | episodes, `simTimes`, the ledger, dirty keys | passes, routes, decisions, probes, wait | state is used across awaits; a probe fails at any of them; changes arrive meanwhile | sizes are granted, probes settled once, simulations bounded, episodes faithful, no change forgotten |
| Run control (`src/telemetry/control.ts`) | signal, start time | `check` | consulted at three places only | the loop ends when asked |
| Executor (`programs/arb_executor/src/{lib,guard,params}.rs`) | balances read before, between and after the legs | `process_instruction` | two foreign programs run in between; unsigned arithmetic | atomic: profit, no leftover inventory and a spending limit, or nothing |
| Executor leg validation (`programs/arb_executor/src/legs.rs`, `token.rs`; built by `src/simulation/executor.ts`) | none | `validate_leg`, `check_aliasing` | accounts matched by position, for two exchanges and two directions, with optional accounts | no account plays two roles, and what is built is accepted |
| Snapshot (`src/state/snapshot.ts`) | none | `snapshotPools` | accounts change between two requests; several batches come from several states | what is quoted together was true together; one pool's failure is its own |
| Routing and sizing (`src/routing/circuit.ts`) | none | `enumerateCircuits`, `sizeCircuit` | refinement near the cap, functions with steps | within the cap, never worse than the grid |
| Accounting (`src/accounting/pnl.ts`) | none | `externalCosts`, `reconcileAttempt` | deposits that other steps create, or not | a complete report accounts for every lamport |
| Pool mathematics (`src/adapters/*/math.ts`, `fees.ts`) | none | quotes, fees, in both directions | rounding directions, widths | no trade is paid from the pool's substance |
| Pool adapters (`src/adapters/*/adapter.ts`) | none | requirements, decoding, validation, quotes, `applySwap`, instructions | pools that must be refused | no unsupported pool is quoted; a quote is applied to the state it was made on |
| Discovery (`src/discovery/*`, `src/cli/discover.ts`) | API queue and budget, cached listing, lock file | paging, retries, caching, population, shortlist | a chain of promises; two processes and a lock file; listings that are cut off | spacing and budget hold, a good listing survives a bad one, the shortlist keeps its limits |
| Simulation (`src/simulation/*`) | program cache, the wallet of a probe | local and node simulation, recovery of deposits | pools have moved since they were quoted | a success was really earned |
| Database (`src/state/db.ts`) | runs, checkpoints, events | `startRun`, `checkpoint`, `endRun` | crashes between them | a run's record says what happened |
| Command line, configuration, logs, reports | none (but the lock file) | parsing, formatting | none | the lock only |
| Rust exchange adapters and gap scan (`integrations/*`) | pool state | quotes, refresh, scan | third-party mathematics | not modelled |

How they interact: the shadow loop owns one RPC client, one ledger and one WebSocket manager. It
calls the client (promises), the ledger (synchronously) and drains the manager's dirty keys; the
manager's handlers run between the loop's awaits and only touch the manager's own state. A process
runs one loop, so the ledger has one user; the client has several when calls run in parallel. The
executor shares nothing with the TypeScript program but the instruction it is sent. Snapshots feed
adapters, adapters feed the sizing, and a probe fetches the accounts anew before it executes what
was sized. `discover` is a program of its own, whose shortlist the others read; two of them meet at
the lock file and at the cached listing.

## 2. Modules and the code

| Module | Models | State | Actions |
|---|---|---|---|
| `RpcClient` | `RpcClient.call/acquire/release/attempt` | the class's fields; `pc`, `attempt` and `timer` of each caller; `sent` is history | `Call`, `Resume`, `Retoken`, `Finish`, `Backoff`, `Retry`: the code between two awaits of a caller; `Tick` |
| `RpcRate` | the same, metered by a provider | a window of ticks and requests | opens a window at any moment |
| `CapitalLedger` | `CapitalLedger` | `capital`, `pending`, `locked` | `Reserve`, `Reject`, `Settle`, `SettleUnknown`: one call each |
| `WssManager` | `WssManager`, with sockets and a server as environment | the class's fields, sockets, connections, messages in transit | one per method, handler and timer |
| `WssGap` | the same, with an observer of the accounts | `lost` (keys whose subscription went down with a connection), `silent` | the manager's: `WatchUpdate`, `WatchDrop`, `WatchReceive`, `WatchStop`, `WatchOther` |
| `ShadowLoop` | the loop of `shadow()` and its ledger | the loop's variables, `dirty` of the manager, the ledger's; history: `unseen`, `unanswered`, `watched`, `streak`, `announced`, `unpaid` | what runs between two awaits, split where a decision is taken; `Notify`, `AskStop`, `Tick` |
| `ShadowEpisodes` | the same, with an observer of the local probes | `localTried` | |
| `AtomicCircuit` | what the executor promises | `balances`, `order`, `result` | `Submit`, `Commit`, `Abort` |
| `Executor` | `process_instruction` | where it is, the balances on the chain and in the instruction, those remembered | the code between two cross-program calls, and the calls |
| `ExecutorLegs` | `lib.rs` on its accounts, `legs.rs`, `token.rs`; the builders of `executor.ts` and the adapters | `submission`, with `Executor`'s | `SubmitAccounts`, `Proceed` |
| `ProbeReservation` | `reserveBestSize` and its cap | the ledger's | |
| `RaydiumMath`, `PumpMath` | the two `math.ts`, PumpSwap's `fees.ts` | none: operators | |
| `PoolAdapters` | the gates, `quoteExactIn`, `quoteExactOut`'s arithmetic and `applySwap` of both adapters | none: operators on a decoded pool | |
| `Market` | pools that others trade on; `circuit.ts` | `pools`, `flow` (history) | `SomeTrade`: a quote that is applied |
| `Probe` | `probe.ts`, `pnl.ts` | `stage`, `plan`, `report` | `Size`, `LocalProbe`, `Recover`, `Proceed`, and `Interfere`, a trade in between |
| `Snapshot` | `snapshot.ts` and the part the adapters have in it | the call's variables; the chain and its past | `Respond` (a node answers a batch from some state), `Throw`, `Change` |
| `Population` | `population.ts`, `local_inventory.ts`, the conversion of listings | none: operators | |
| `Discovery` | `runDiscovery`, the API client, the lock of `cli/discover.ts` | where each run is, the client's chain and counters, the files | what runs between two awaits, or two calls of the file system; `Crash`, `Tick` |

The modules compose:

- `ShadowLoop` instantiates `CapitalLedger` and takes its actions `Reserve` and `Settle` as parts of
  its own. `ProbeReservation` extends the ledger: what it says holds in every state of the ledger,
  not only in those one loop reaches.
- `Executor` implements `AtomicCircuit` under the mapping balances = the balances on the chain,
  order = the profit and limit of the transaction. `ExecutorLegs` extends `Executor` and computes
  from the accounts of an instruction the verdicts that `Executor` takes as given.
- `PoolAdapters` extends the two mathematics, `Market` the adapters, `Probe` the market: one run
  follows a circuit from its pools to the recovery of its deposits.
- `Discovery` extends `Population`.

`*Proofs` modules extend the module they prove about; `MC*` modules give TLC its constants.

What the models leave out, on purpose:

- `RpcClient`: counters for the report, the shape of requests and answers. Whether an attempt
  succeeds, fails for good or fails transiently is a choice. The length of a backoff is any.
- `CapitalLedger`: the journal, statistics, time stamps. `POOL_CONFLICT` and `MINT_CONFLICT` are
  one refusal (`Admissible`). **Environment contract of `Settle`:** the fee paid is at most the fee
  budget reserved, and a filled circuit loses at most its `amountIn`. `settle()` does not check it;
  the shadow loop passes 0 or the fee budget, and the executor's guards give the second part.
- `WssManager`: `WSS_START_FAILED` (a socket constructor that throws), backoff lengths, revisions.
  Dirty keys appear in `ShadowLoop`. Whether a start has a timeout is a choice (with 0 or Infinity
  no timer is armed).
- `ShadowLoop`: the setup, latencies, counters, and of the journal all but the episode events. A
  program without WebSocket is the behaviours without `Notify`. Revisions only feed a counter
  there. `reserveBestSize()`'s second attempt is in `ProbeReservation`; `NeverRefused` shows that
  this loop never needs it. An uncaught exception, which ends the process, is not modelled: the
  run then keeps the status RUNNING in the database.
- `Executor`: error codes. A foreign program may do anything to the three balances, which is more
  than the exchanges do.
- `ExecutorLegs`: byte offsets and discriminators. An account has the fields of its kind, or is not
  of that kind; programs, mints and pools are tables from names to those fields.
  `CircuitsAssumption` says what an instruction that nobody forged is: the builders' instruction of
  a circuit over two pools of WSOL and one token, as validation accepts them, for a user with an
  associated account of either mint.
- `RaydiumMath`, `PumpMath`: the program's checks that an intermediate u128 does not overflow are
  kept where the port has them; integers are otherwise unbounded, as the port's are. Whether the
  port returned null or threw is not told apart.
- `PoolAdapters`: derived addresses, owners and account sizes are equal to what they must be or in
  the set `mismatches`. Fee tiers of quote mints other than WSOL cannot occur in a route.
- `Probe`: LiteSVM with the recorded programs is an environment that computes what the adapters
  port, takes the transfer fee of the current epoch and may charge the user something unforeseen.
  The simulation on a node, lookup tables and transaction sizes are left out.
- `Snapshot`: a layout is two flags (foreign, decodes) and the dependents a pool names. Slots,
  times and orders are left out: requests, keys and outcomes are sets, and any `BatchLimit` of the
  keys left may share a response, which includes the order the code asks in.
- `Discovery`: the cross-check listing, the hints that pool keys add to an inventory row, warnings
  and the text of reports. A lock file is written in one piece and no process id is used twice.
  `SetupAssumption` says what a program may do with runs: a client is an object of one process, a
  command has a process of its own, and since only the command line calls `runDiscovery()`, two
  runs of different processes that both use the network both take the lock. `SourcesAssumption`
  says that addresses, mints and what a source knows of liquidity are natural numbers, that limits
  are too, and that no address is a pool of both programs (an account has one owner).
- `Population`: sorting is placing (`InOrder`): the n-th of a set is the member that n - 1 others
  come before. The walk through the ranked routes is a recursive function over their places.
- `TokenProgramAccepts` (in `Market`): an account holds a u64 at most, so that the token program
  refuses a PumpSwap trade that would lift a vault above it. `RaydiumMath` has its own checks.

## 3. Runs

| Run | Configuration | Bounds, and why they suffice | Shows |
|---|---|---|---|
| `rpc` | `MCRpcClient.cfg` | 4 callers, 2 slots, budget 4, one retry, 2 requests a second on a clock of 3 ticks. Callers outnumber slots, so that queue, wake-ups and overtaking occur; the budget runs out among retries; the bucket empties. | budget, slots, queue, wake-ups, rate over windows, return of every call |
| `capital` | `MCCapitalLedger.cfg` | 3 probes, 2 pools, 3 mints, 20 lamports; in one configuration the aggregate cap binds first, in another the reserve; arguments include invalid ones. `CapitalBound` stops profits from piling up. | the counter, the caps under losses, conflicts, `capacityFor` |
| `wss` | `MCWssManager.cfg` | 2 keys, 3 sockets (one open, one closing, one to come), a memory of one notification, so that it overflows; 2 starts, 1 fault, 1 change | safety of the manager; starts settle and keys get subscribed |
| `wss_restart`, `wss_gap` | `MCWssRestart.cfg`, `MCWssGap.cfg` | as above | findings 1 and 2 |
| `shadow` | `MCShadowLoop.cfg` | one route of two pools (two circuits), a watched token without route, capital 20 so that sizes 1 and 2 fit under cap, fee and deposit; staleness of one tick, two simulations in a minute of two ticks, one local probe | safety of the loop |
| `shadow_routes` | `MCShadowRoutes.cfg` | two routes and a watched token, a capital too small for any size: only the polling remains. Any snapshot may fail | a notified change is due until its snapshot is asked for, and one is; what a failed snapshot forgets, the polling brings back |
| `shadow_local` | `MCShadowEpisodes.cfg` | one route | finding 3 |
| `executor` | `MCExecutor.cfg` | the instructions built for circuits of both exchanges in both roles, with and without cashback and creator; two of them with each account replaced by each of eight intruders or exchanged with its neighbour; kinds, counts and the signature malformed; both sides of every figure's guard. A u64 that ends at 2; exchanges that set every balance to any value, or fail | order of validation, roles of the accounts, atomicity |
| `probe` | `MCProbe.cfg` | two tokens, a pool of each exchange for both and a fifth that must be refused; denominators of 20 and u64 up to 132, so that roundings, ceilings and overflow all occur; one token with a transfer fee that changes with the epoch; a virtual reserve larger than the vault. A grid of 2, 6, 10 with 0 and 40 to be skipped, a cap of 12 the refinement runs into, three swaps | curves, exact-out quotes, sizing, the probe, its account and the recovery |
| `snapshot` | `MCSnapshot.cfg` | two Raydium pools that share a config, one PumpSwap pool with its globals, five accounts to a request: one list fits with its dependents, one does not; two changes of any account, answers from any earlier state | snapshots are coherent |
| `discovery` | `MCDiscovery.cfg` | two runs, in three setups: two processes that take the lock; one that does beside one that only reads the cache; two runs of a process with one client. Pages in any order, with and without an end, five pools of which three fit; an interval of two ticks, one retry, four requests, one process killed anywhere | lock, spacing, budget, cache, shortlist |

`CHECK_DEADLOCK FALSE` is set where the system may stop for good: a manager whose starts, faults
and changes are used up and which was stopped, a loop that has ended, a snapshot that was taken, a
market whose swaps are used up. `Discovery` has an action for "all runs have ended", so that a run
that waits for ever would be a deadlock there.

Where an environment is cut by a bound, the bound has a name: `MaxStarts`, `MaxFaults`,
`MaxUpdates`, `MaxChanges`, `MaxCrashes`, `MaxSteps` (swaps on all pools), `CapitalBound` (profits
stop piling up), `MaxCount` (where an episode's refreshes stop being counted; only 1 and "more"
matter). Ages and timers stop at the value past which no test tells them apart. The constraint
`OneAtATime` of the run `discovery` stops at states in which the lock was contested; see the
remarks below. Its listing never reaches the limit on pages: with three pools to list and
two to a page the cap or the last page comes first, or a page repeats.

### Fairness

- `RpcClient`: weak fairness of time and of each caller's steps. A suspended chain is resumed by a
  resolved promise, a fired timer, or the abort timer that ends every attempt. Nobody is obliged to
  make a call, and an attempt may fail as often as the retries allow.
- `WssManager`: weak fairness of timers and socket events of the runtime, and of the server's
  answers. No fairness says that a handshake succeeds; it is the bound on faults that lets one
  succeed in the end, so `EventuallySubscribed` reads "once failures stop", and so does
  `StartSettles` for a start without a timeout.
- `ShadowLoop`: weak fairness of the loop as a whole: its awaits are RPC calls, which return
  (`CallsReturn`), and sleeps. None of time: by the first part of `ChangeFollowed` the
  notification alone has the snapshot asked for, without waiting for the next poll. A snapshot that
  fails has used the notification up (`shadow.ts:107`, `114`-`116`). The second part, that one
  arrives all the same, therefore states the fairness it needs as a premise: time passes, and the
  snapshots of that route do not fail for ever. Without either the run shows it false.

### Findings

1. `wss_restart`. After `stop()`, a `start()` that comes before the close event of the old socket
   clears `closed`; the old socket's close handler then takes the new lifecycle for its own and
   arms a retry, which opens a second connection beside the first. `OneLifecycleUnlessEarly` shows
   that this is the only way. Connections that run beside one another also share `pending` and
   `subs`, although the node numbers subscriptions per connection: a late notification of the
   closing socket is looked up among the ids of the new one (`wss.ts:121`, `152`, `154`) and can be
   taken for a change of another account. `Attribution` excludes exactly that: notifications on
   connections beside the open one after an early `start()`. Checking its second part without the
   premise `~early` gives this order of events: two keys wanted and one confirmed, stop and early
   start, the new socket open and the other key confirmed on it under the same id, and a
   notification of the first still in transit on the old socket.
2. `wss_gap`. After a connection dropped, the gap ends when the next socket opens, before any key
   is subscribed again. A change in between, of an account that was subscribed when the connection
   dropped, is neither notified nor inside a gap, although the class promises gaps "between
   disconnect and successful resubscribe". If the gap is closed when nothing is pending any more,
   the property holds.
3. `shadow_local`. The local probe is said to run "at most once per episode"; the code runs it
   until one succeeded, so that failing probes repeat within an episode and use up the run's 20.

Remarks on the code that have no run of their own:

- `acquireLock()` is said to refuse "a second concurrent run" (`discover.ts:17`). It tests, reads,
  removes and writes the lock file in separate calls, so that two runs that do so at once both go
  on; and whatever `process.kill(pid, 0)` throws is taken for "gone", EPERM for a living process of
  another user included. `LockKill` has both outcomes. The history variable `contested` says that
  one of the two happened; `RateHolds` (its part about runs of different processes) and
  `CoverageKept` speak about locks that were never contested. Checking them without that premise
  and without the constraint `OneAtATime` shows a run sending while both hold the lock.
- `CoverageKept` compares what the cached file says before and after a run. A crash between the
  truncation of the file and the end of the write leaves a file that cannot be read (`Unreadable`),
  which the next run takes for none: the good listing is lost, although it was to be replaced by
  one that was good enough.
- A snapshot that fails forgets the notification it was asked for, until the next notification or
  poll (`ChangeFollowed`).
- A listing that reached the last page and has more pools than the cap is cut at the cap and yet
  says it was not capped (`raydium_api.ts:170`, `203`): no warning is given.
- `population.ts:99` says that of two rows of one address the first wins; the richer one does,
  which is what makes the shortlist independent of the order of the rows (`ShortlistIsHonest`).
- A refused `accountSubscribe` is not asked again before the next reconnection
  (`EventuallySubscribed` excludes refused keys).
- `PumpSwap`'s `applySwap` compares the snapshot of the quote, not the state it was made on; a
  quote made before another swap is applied with its old deltas if the vaults can pay them.
- `PumpSwap`'s sale is priced on the gross amount while the vault receives what the mint's transfer
  fee leaves, so that enough sales of such a token lower the product the pool prices with.
  `NoPoolPaysForNothing` and `ConstantNeverFalls` leave those pools out (`PricesWhatItGets`).

## 4. Proofs

Checked with TLAPS for every value of the constants that the modules' ASSUMEs allow.

- **RpcClient** (`RpcClientProofs`; assumes `LimitsAssumption`: finitely many callers, at least one
  slot, a positive rate and resolution). `TypeOK`, `SlotAccounting`, `BudgetAccounting`,
  `QueueAccounting` and `NoLostWakeup` are proved together as `IInv`, because they need one
  another: a slot is released by a caller that holds it (so `inflight` is positive), and the head
  of the queue can be woken because it is suspended and is queued once. The counts are
  cardinalities of sets of callers in given stages; `Census` says how moving one caller changes
  them. For the rate (`RateBounded`, about `RpcRate`, any window length), the invariant is a
  balance: the requests seen in the window, plus what the bucket could give now, never exceed a
  full bucket plus the refill of the window.
- **CapitalLedger** (`CapitalLedgerProofs`; assumes `LedgerAssumption`: fractions between 0 and 1,
  a capital that is not negative, integer arguments). `LInv` is type correctness, the sum, the
  absence of conflicts and the coverage of losses. That the caps survive is arithmetic on rounded
  fractions: a fraction of the capital shrinks by no more than the capital does (`CapsSurvive`),
  and a loss is at most what the position unlocks. `CapacityHonest` follows from the state alone.
  `PositionsAreConsistent`, like `AccountingHolds` of the client, gathers these facts as the
  runs state them.
- **ProbeReservation** (also in `CapitalLedgerProofs`; in addition a cap in Nat). `FallbackIsGranted`
  needs no more than the ledger's type invariant: an amount fits under all caps exactly when
  `capacityFor()` covers it (`RoomIsCapacity`), and a size changes nothing else `reserve()` tests.
- **Executor** (`ExecutorProofs`; any width, any set of transactions). `IInv` adds to the type
  invariant that the remembered balances are those on the chain while an instruction runs, when
  an instruction runs, and that leg A's output is positive. With it every step of the executor is
  a step of `AtomicCircuit` or leaves its variables alone, which gives `ExecutorIsAtomic`.
- **ExecutorLegs** (also in `ExecutorProofs`; assumes `AccountsAssumption`: accounts are a sequence,
  counts are natural numbers). Every step is a step of `Executor` on the computed verdicts, so that
  atomicity carries over (`LegsAreAtomic`). For `LegsPlay` the invariant is that the transaction
  under way is the verdict on the instruction submitted, and was accepted once an exchange is
  called; what is left is that `validate_leg`'s comparisons by position, for each of the three
  kinds of leg, imply the roles by name. For `BuiltFit` (assumes `CircuitsAssumption`) both sides
  of the interface are written out: the lists of the two TypeScript builders, with the optional
  accounts of a PumpSwap swap that move every position behind them, against the positions that
  `legs.rs` reads, for each kind of leg and both orders of a Raydium pool's mints.
- **WssManager** (`WssManagerProofs`; assumes `BoundsAssumption`). `IInv` joins the books (each
  key once in `pending` and `subs`, ids below the next one), the network's types, what may settle
  (`Promises`), one live socket or one retry (`Single`), `NeverAbandoned` and
  `PendingIsAnswered`. They need one another: that the retry timer finds no socket beside it is
  what keeps one lifecycle, and an answer that is used up must not have been the only trace of a
  pending id. `early` marks finding 1, outside of which `Single` holds.
  `Attribution` is proved on top of it: subscription ids say nothing by themselves, so each
  connection that was opened gets a truth (what the server calls by each id), and `Told` relates
  the requests and messages in transit and both maps to it. A notification is then preceded by
  what makes it understood, in the manager's map or earlier in the inbox. A dying connection keeps
  the truth of its last messages after the server forgot it. That is for managers without an early
  start. The part about the open connection has no such premise, and an invariant of its own
  (`Current`): what is in transit on the open connection and both maps agree with what the server
  calls by each id there, and no other connection carries a request id that is pending, because
  `open` clears `pending` and request ids are not used twice.
- **ShadowLoop** (`ShadowLoopProofs`; assumes `ShadowAssumption`: figures that are natural numbers,
  a fee that is not zero, pools of one token each). `ChangesKept` needs only that what is awaited is
  a route, so that a pass that drains the dirty keys has it still to come. `ProbesSettled` and
  `CapitalGranted` share `LoopInv`: outside a probe the ledger is empty, in a probe it holds
  exactly that probe's position, a simulation is issued and not charged in two stages only, and
  every size under the cap taken at the snapshot fits under all three caps of an empty ledger.
  `EpisodesAreFaithful` is inductive once an open episode is known to have been refreshed.
  For `SimsBounded` the observer's window is what `simTimes` is once its front is shifted off
  (`IsWindow`): the oldest simulation comes first, pruning and time keep that, and while the
  blockhash is awaited there is room for one more.
- **Market** (`ProbeProofs`; assumes `FeeAssumption`, `BpsAssumption`, `MarketAssumption` and
  `PoolsAssumption`: denominators and widths are positive, and pools are described and decoded in
  numbers that are not negative, but for the virtual reserve). `ConstantHolds` and `TradersPay` are
  about every step of the run `probe`, whatever the pools, fees, amounts and number of trades; the
  pools left out are those of `PricesWhatItGets`. The lemmas follow the
  code: what rounding down and up gives (`Quotient`, `Part`, `TwoParts`), what a curve keeps
  (`CurveKeeps` for Raydium, `CurveOutputKeeps` for PumpSwap), what a swap moves between the
  vaults and what is owed (`RaySwapKeeps`, `PumpSwapKeeps`). Two facts carry the product: Raydium's
  gate on the fee rates, without which the protocol's and the fund's shares could exceed the trade
  fee they are carved from, and that `PoolsOK` is inductive. That traders pay needs the history:
  `Covered` compares a pool with its state before the first trade, and a product that did not fall
  leaves nothing for a side that gave nothing (`CoveredPays`).

- **Sizing** (`ProbeProofs`; in addition `ProbeAssumption`: fees and rents are amounts, the fees of
  one transaction are within the fund, and the transfer fee and PumpSwap's fees use the same whole,
  which in the code are both ten thousand). `ChosenIsBest` follows the loops of `sizeCircuit` by
  what each round keeps: the sweep never makes the best worse (`ConsiderKeeps`, `SweptIsBest`), the
  grid's ascending list has every size once (`GridIsListed`), the refinement ends no worse than it
  began (`RefinedIsBetter`) and stays between neighbours, so under the cap (`AroundIsRange`,
  `NarrowKeeps`).
- **Probe** (`ProbeProofs`). `PInv` joins the plan (made on sound pools, numbers in range) with the
  account of the report (`Accounted`), and gives `CompleteReports` and `DepositsComeBack`.
  `ProbesHonour` is about the chain quote, instruction, execution. Leg A's argument is a budget
  derived from the quote; `PaidIsEnough` shows that what was paid with a budget buys the same
  again, although two floors and three fees lie between. A quote takes the largest transfer fee
  over the epochs, so that more may arrive than was quoted (`WorstCaseIsWorst`), and the executor
  sells what arrived: on Raydium more tokens never bring less (`DrawnGrows`, `RestGrows`), and a
  swap that both vaults can hold is not refused, hence the premise `SupplyHolds`. On PumpSwap a
  larger sale may bring less, because its fees are rounded up one by one, and the property leaves
  out the verdict of the executor there; model checking the stronger claim shows it false.
- **Exact output** (`ExactOutIsCovered`, in `ProbeProofs`). Each step of the inverse (transfer fee,
  creator's fee, curve, trade fee) asks for an amount whose image covers what was wanted
  (`PreFeeCovers`, `CeilCovers`), and the program's checks accept it. The premise `RatesSound` is
  the gate every quoted pool has passed; with rates above the whole a share could exceed the amount.
- **Snapshot** (`SnapshotProofs`; assumes `SnapshotAssumption`). `IInv` follows every key that was
  asked for: it is still to be read, was received as some version of the chain had it, or is absent
  from a version (`Accounted`). Before the first response nothing was received, so that a bundle of
  one response shows one version; a pool nobody touches keeps its dependents.
- **Discovery** (`DiscoveryProofs`; assumes `DiscoveryAssumption`, `SetupAssumption` and, for the
  shortlist, `SourcesAssumption`). For `RateIsKept`: whoever spaces or sends is first in its
  client's queue (`QueueInv`), so that no two send, and what is left of its wait is what is left of
  the interval (`SpacingInv`). `LockInv` says that the lock file names its holder and that nobody
  who could remove it is on the way, as long as the lock was never contested, the premise of both
  theorems. `CoverageIsKept` needs that the cached listing's counters are those of its pages
  (`Listed`), that the distinct items of finitely many pages are finitely many and counted right
  (`PagesAreFinite`, `ItemsAreCounted`), and that only one run writes (`WriterInv`);
  `UndegradedCovers` is then the meaning of `Degraded`.

- **Population** (also in `DiscoveryProofs`). `ShortlistHonest` is about every report of every run:
  `ReportInv` adds to `IInv` that whoever reports, or asks for the keys of its pools, has a listing
  whose pages the API gave, so that the rows it works with are rows of one program each
  (`RaydiumRows`, `PumpRows`). The rest is about the operators. `Above` is a strict order
  (`AboveOrders`), a strict order of a finite set fills every place (`Placed`), and two rows of one
  address that score the same are the same row (`SameScore`). What `dedupAndIndex` keeps is
  therefore the best row of each address, whatever the order of the rows (`DedupedIsBest`), and a
  poorer copy never is the best (`ReorderedIsSame`). No two routes rank the same (`BeforeOrders`).
  The walk is followed by what each step keeps: a shortlist is `Composed` of whole routes, its
  pools with a partner for their mint each, and `Counted` within the limits; if every route fits,
  none is passed over (`ShortlistIsComposed`), and where no limit is below the number of rows every
  route does fit (`AllFit`).

Only model-checked: every liveness property, since fairness and ENABLED are beyond the prover. Every
invariant and action property that a passing run checks is a theorem. Loops that are proved about
(the two of `sizeCircuit`, the shortlist's walk) are bounded recursive functions, and the induction
is over the set of their rounds (`EveryRound`, `EveryPage`), which needs no theorem with an operator
as a parameter.

## 5. Plan

Done: all modules of section 2 and the proofs of section 4. What is left, the most valuable first:

1. `ProbeTiming`: the staleness gate of the loop composed with the waits of the RPC client, which a
   simulation may enter after its state's age was judged.
2. `RunRecord`: the status of a run in the database under exceptions and crashes.
3. The simulation on a node (`src/simulation/simulate.ts`) beside the local probe.

## 6. Not modelled

- The bytes of account layouts (which accounts decode at all is in `ExecutorLegs` and `Snapshot`),
  instruction encoding, configuration files, argument parsing, logs
  and reports: conversions without behaviour over time, which the unit tests compare with recorded
  data.
- The database: every statement is one synchronous call to SQLite, and nothing is read back but by
  reports. What an uncaught exception leaves of a run is the status RUNNING, about which no
  document promises anything.
- The simulation on a node and the building of versioned transactions: one request whose answer is
  mapped to a verdict.
- The Rust exchange adapters and the gap scan in `integrations/`: quotes of a separate research
  tool, two of which delegate to third-party crates, and a sequential scan.
- LiteSVM, SQLite, the `ws` library, the exchanges and the Solana runtime are external and appear
  only as environments. Scripts, fixtures and documents are not part of the running program.
