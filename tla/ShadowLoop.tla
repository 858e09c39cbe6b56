----------------------------- MODULE ShadowLoop -----------------------------
(***************************************************************************)
(* The shadow loop of src/cli/shadow.ts.  A pass polls every route, those  *)
(* whose vaults changed first; a route is snapshotted, its circuits are    *)
(* sized under the ledger's cap, and a candidate is probed: capital is     *)
(* reserved, a blockhash fetched, the transaction simulated on the node    *)
(* and perhaps locally, and the capital settled.  The ledger is that of    *)
(* CapitalLedger.                                                          *)
(*                                                                         *)
(* The loop is one chain of awaits.  An action is what runs between two of *)
(* them, or a part of it: the program handles notifications only while the *)
(* loop awaits, and time passes anywhere.  Times are kept as ages, up to   *)
(* the age past which they make no difference.  What a snapshot decodes    *)
(* and what the sizer finds are inputs: a size is at most the cap it was   *)
(* given.  Of the journal, only the events of an episode are kept.         *)
(***************************************************************************)
EXTENDS Integers, Sequences, FiniteSets

CONSTANTS
  Tokens, Pools,
  PoolsOf,     \* the pools of each token whose vaults are watched
  MaxCapital,  \* sizing.maxCapitalLamports, which is also the ledger's capital
  FeeBudget, Deposit,
  MaxStale,    \* execution.stalenessMaxMs, in ticks
  MaxSims,     \* --max-sims-per-minute
  Minute,      \* 60 s, in ticks
  PollTicks,   \* --poll-ms, in ticks
  MaxLocal,    \* local probes of a run: 20 in the code
  MaxCount     \* where the refreshes of an episode stop being counted

\* Pools of one token, and figures the configuration's schema accepts.
ASSUME ShadowAssumption ==
  /\ PoolsOf \in [Tokens -> SUBSET Pools]
  /\ \A t, u \in Tokens : t # u => PoolsOf[t] \cap PoolsOf[u] = {}
  /\ IsFiniteSet(Tokens) /\ IsFiniteSet(Pools)
  /\ MaxCapital \in Nat /\ FeeBudget \in Nat \ {0} /\ Deposit \in Nat
  /\ MaxStale \in Nat /\ MaxSims \in Nat /\ Minute \in Nat /\ PollTicks \in Nat
  /\ MaxLocal \in Nat /\ MaxCount \in Nat \ {0, 1}

VARIABLES
  pc,
  left,       \* routes the pass has not come to
  urgent,     \* routes whose vaults had changed when the pass began
  dirty,      \* tokens of the manager's dirty keys
  route, sizingCap,
  todo,       \* circuits of the route not decided yet
  age,        \* of the snapshot's oldest account
  simAges,    \* ages of simTimes
  probed,     \* the circuit being probed, if any
  simIssued,
  episodes,
  localAttempted,
  waitLeft,   \* ticks left of the wait between passes
  stopAsked,  \* control.check() would find a reason to stop
  cfg, capital, pending, locked,  \* the ledger
  \* history
  unseen,     \* routes that changed after their last snapshot was asked for
  unanswered, \* routes that changed and whose snapshot was asked for since,
              \* but none has arrived
  watched,    \* ages of the simulations issued, as an observer counts them
  streak,     \* candidate evaluations of a circuit since its last other one
  announced,  \* episode_start less episode_end events of a circuit
  unpaid      \* simulations issued and not charged

polling == <<left, urgent, route, sizingCap, todo, waitLeft>>
notices == <<dirty, unseen, unanswered>>
timing == <<age, simAges, watched>>
story == <<episodes, streak, announced>>
probing == <<probed, simIssued, localAttempted, unpaid>>
ledger == <<cfg, capital, pending, locked>>
vars == <<pc, polling, notices, timing, story, probing, stopAsked, ledger>>

Awaiting == {"snapshot", "blockhash", "simulate", "local", "sleep"}
Probing == {"blockhash", "simulate", "local"}
Stages == Awaiting \cup {"pass", "route", "decide", "wait", "ended"}

Routes == {t \in Tokens : Cardinality(PoolsOf[t]) >= 2}

\* Every ordered pair of distinct pools.
CircuitsAmong(pools) == {c \in pools \X pools : c[1] # c[2]}
Circuits == UNION {CircuitsAmong(PoolsOf[t]) : t \in Tokens}

\* No route, no circuit.
None == <<>>

LedgerConfig ==
  [maxEpisode |-> 200000, maxAggregateOpen |-> 400000, reserve |-> 300000,
   maxConcurrent |-> 3, hypothetical |-> TRUE]

Ledger == INSTANCE CapitalLedger WITH
  Ids <- Circuits, Mints <- Tokens, InitialCapital <- MaxCapital,
  Configs <- {LedgerConfig}, Amounts <- 0..MaxCapital,
  Fees <- {0, FeeBudget}, Deposits <- {Deposit}, Profits <- {0}

NoEpisode == [open |-> FALSE, refreshes |-> 0, localOk |-> FALSE]

Init ==
  /\ pc = "pass"
  /\ left = {} /\ urgent = {} /\ dirty = {}
  /\ unseen = {} /\ unanswered = {}
  /\ route = None /\ sizingCap = 0 /\ todo = {} /\ waitLeft = 0
  /\ age = 0 /\ simAges = <<>> /\ watched = <<>>
  /\ episodes = [c \in Circuits |-> NoEpisode]
  /\ streak = [c \in Circuits |-> 0]
  /\ announced = [c \in Circuits |-> 0]
  /\ probed = None /\ simIssued = FALSE /\ localAttempted = 0 /\ unpaid = 0
  /\ stopAsked = FALSE
  /\ Ledger!Init

Smaller(a, b) == IF a <= b THEN a ELSE b
Counted(n) == Smaller(n + 1, MaxCount)

-----------------------------------------------------------------------------
\* control.check(), where the loop calls it.
Checks == {"pass", "route", "sleep"}

StopFound ==
  /\ pc \in Checks /\ stopAsked
  /\ pc = "route" => left # {}
  /\ pc' = "ended"
  /\ UNCHANGED <<polling, notices, timing, story, probing, stopAsked, ledger>>

\* A pass takes the changes so far and comes to every route.
Pass ==
  /\ pc = "pass" /\ ~stopAsked
  /\ urgent' = dirty \cap Routes
  /\ dirty' = {}
  /\ left' = Routes
  /\ pc' = "route"
  /\ UNCHANGED <<route, sizingCap, todo, waitLeft, unseen, unanswered, timing, story,
                 probing, stopAsked, ledger>>

First == IF left \cap urgent # {} THEN left \cap urgent ELSE left

Poll ==
  /\ pc = "route" /\ ~stopAsked
  /\ \E t \in First :
       /\ route' = t
       /\ left' = left \ {t}
       /\ unseen' = unseen \ {t}
       /\ unanswered' = unanswered \cup (unseen \cap {t})
  /\ pc' = "snapshot"
  /\ UNCHANGED <<urgent, sizingCap, todo, waitLeft, dirty, timing, story, probing,
                 stopAsked, ledger>>

\* A faulty variant (the defect F7 reports): the configured maximum.
SizingCapConfigured == MaxCapital

\* effectiveSizingCap()
SizingCap == Smaller(Ledger!CapacityFor(FeeBudget, Deposit), MaxCapital)

\* The snapshot arrives: the circuits of the pools it could decode are sized.
Snapshot ==
  /\ pc = "snapshot"
  /\ \E decoded \in SUBSET PoolsOf[route] : todo' = CircuitsAmong(decoded)
  /\ sizingCap' = SizingCap
  /\ age' = 0
  /\ unanswered' = unanswered \ {route}
  /\ pc' = "decide"
  /\ UNCHANGED <<left, urgent, route, waitLeft, dirty, unseen, simAges, watched, story,
                 probing, stopAsked, ledger>>

\* It fails: the next route; or the request budget is exhausted: the end.  The
\* dirty keys that asked for it are gone.
SnapshotFailed ==
  /\ pc = "snapshot"
  /\ pc' \in {"route", "ended"}
  /\ UNCHANGED <<polling, notices, timing, story, probing, stopAsked, ledger>>

-----------------------------------------------------------------------------
\* Closes the circuit's episode, if it has one open.
ClosedIf(c) ==
  IF episodes[c].open
    THEN /\ episodes' = [episodes EXCEPT ![c].open = FALSE]
         /\ announced' = [announced EXCEPT ![c] = @ - 1]
    ELSE UNCHANGED <<episodes, announced>>

\* No positive size, or none whose profit reaches the minimum.
NoCandidate(c) ==
  /\ pc = "decide"
  /\ todo' = todo \ {c}
  /\ streak' = [streak EXCEPT ![c] = 0]
  /\ ClosedIf(c)
  /\ UNCHANGED <<pc, left, urgent, route, sizingCap, waitLeft, notices, timing,
                 probing, stopAsked, ledger>>

\* A faulty variant: a closed episode is taken up again.
EpisodeReopened(c) ==
  LET e == episodes[c] IN [e EXCEPT !.open = TRUE, !.refreshes = Counted(@)]

\* The circuit's open episode or a new one, refreshed.
EpisodeOf(c) ==
  LET e == IF episodes[c].open THEN episodes[c] ELSE NoEpisode
  IN  [e EXCEPT !.open = TRUE, !.refreshes = Counted(@)]

\* How many ages in front are over the limit: the oldest come first.
Leading(ages, limit) ==
  CHOOSE n \in 0..Len(ages) :
    /\ \A i \in 1..n : ages[i] > limit
    /\ n < Len(ages) => ages[n + 1] <= limit

Within(ages, limit) == SubSeq(ages, Leading(ages, limit) + 1, Len(ages))

\* A faulty variant: a simulation is forgotten before its minute is over.
RecentEarly(ages) == Within(ages, Minute - 1)

\* simTimes, its front shifted off while it is older than a minute.
Recent(ages) == Within(ages, Minute)

\* A candidate refreshes its episode, whatever becomes of it.
Refresh(c) ==
  /\ pc = "decide" /\ sizingCap > 0
  /\ todo' = todo \ {c}
  /\ episodes' = [episodes EXCEPT ![c] = EpisodeOf(c)]
  /\ streak' = [streak EXCEPT ![c] = Counted(@)]
  /\ announced' =
       [announced EXCEPT ![c] = @ + IF EpisodeOf(c).refreshes = 1 THEN 1 ELSE 0]
  /\ simAges' = Recent(simAges)
  /\ UNCHANGED <<left, urgent, route, sizingCap, waitLeft, notices, age, watched,
                 localAttempted, stopAsked>>

Fresh == age <= MaxStale

\* Stale at the decision, or as many simulations as a minute may have.
Skip(c) ==
  /\ Refresh(c)
  /\ ~Fresh \/ Len(Recent(simAges)) >= MaxSims
  /\ UNCHANGED <<pc, probed, simIssued, unpaid, ledger>>

ProbeOf(c, amount) ==
  [id |-> c, amountIn |-> amount, feeBudget |-> FeeBudget, deposit |-> Deposit,
   pools |-> {c[1], c[2]}, mint |-> route]

\* reserveBestSize() accepts the size at once: see NeverRefused.
StartProbe(c) ==
  /\ Refresh(c)
  /\ Fresh /\ Len(Recent(simAges)) < MaxSims
  /\ \E amount \in 1..sizingCap : Ledger!Reserve(ProbeOf(c, amount))
  /\ probed' = c
  /\ pc' = "blockhash"
  /\ UNCHANGED <<simIssued, unpaid>>

\* A faulty variant (the old dirty set the code's comment reports): a route
\* is marked clean when it has been processed.
EndRouteClearing ==
  /\ pc = "decide" /\ todo = {}
  /\ pc' = "route"
  /\ age' = 0
  /\ dirty' = dirty \ {route}
  /\ UNCHANGED <<polling, unseen, unanswered, simAges, watched, story, probing, stopAsked,
                 ledger>>

\* The route is done.
EndRoute ==
  /\ pc = "decide" /\ todo = {}
  /\ pc' = "route"
  /\ age' = 0
  /\ UNCHANGED <<polling, notices, simAges, watched, story, probing, stopAsked, ledger>>

-----------------------------------------------------------------------------
\* The finally block: a simulation that was issued costs the fee.
FeePaid == IF simIssued THEN FeeBudget ELSE 0

SettleProbe ==
  /\ Ledger!Settle(probed, "NOT_LANDED", 0, FeePaid)
  /\ unpaid' = unpaid - (IF FeePaid > 0 THEN 1 ELSE 0)
  /\ probed' = None /\ simIssued' = FALSE
  /\ pc' = "decide"
  /\ UNCHANGED <<polling, notices, timing, streak, announced, stopAsked>>

\* A faulty variant: the position is settled only after a simulation.
AbandonOpen ==
  /\ pc = "blockhash"
  /\ pc' = "decide" /\ probed' = None
  /\ UNCHANGED <<polling, notices, timing, story, simIssued, localAttempted, unpaid,
                 stopAsked, ledger>>

\* No blockhash, a transaction that cannot be built, or a state grown stale.
Abandon ==
  /\ pc = "blockhash"
  /\ SettleProbe
  /\ UNCHANGED <<episodes, localAttempted>>

\* The blockhash arrives while the state is fresh: the simulation is issued.
IssueSimulation ==
  /\ pc = "blockhash" /\ Fresh
  /\ simIssued' = TRUE /\ unpaid' = unpaid + 1
  /\ simAges' = Append(simAges, 0) /\ watched' = Append(watched, 0)
  /\ pc' = "simulate"
  /\ UNCHANGED <<polling, notices, age, story, probed, localAttempted, stopAsked, ledger>>

\* A faulty variant: no bound on the local probes of a run.
LocalWantedAlways == ~episodes[probed].localOk

LocalWanted == ~episodes[probed].localOk /\ localAttempted < MaxLocal

\* The simulation ends, in an error or with an answer.
Simulated ==
  /\ pc = "simulate"
  /\ SettleProbe
  /\ UNCHANGED <<episodes, localAttempted>>

\* Its answer is followed by a local probe.
StartLocal ==
  /\ pc = "simulate" /\ LocalWanted
  /\ localAttempted' = localAttempted + 1
  /\ pc' = "local"
  /\ UNCHANGED <<polling, notices, timing, story, probed, simIssued, unpaid,
                 stopAsked, ledger>>

\* The local probe ends: it succeeds, or fails one way or another.
LocalEnds ==
  /\ pc = "local"
  /\ \E ok \in BOOLEAN :
       episodes' = [episodes EXCEPT ![probed].localOk = @ \/ ok]
  /\ SettleProbe
  /\ UNCHANGED localAttempted

-----------------------------------------------------------------------------
EndPass ==
  /\ pc = "route" /\ left = {}
  /\ waitLeft' = PollTicks
  /\ pc' = "wait"
  /\ UNCHANGED <<left, urgent, route, sizingCap, todo, notices, timing, story,
                 probing, stopAsked, ledger>>

\* A faulty variant: the wait is slept out.
EndWaitSleptOut ==
  /\ pc = "wait"
  /\ waitLeft = 0
  /\ pc' = "pass"
  /\ UNCHANGED <<polling, notices, timing, story, probing, stopAsked, ledger>>

\* The wait ends with its time or with a notification.
EndWait ==
  /\ pc = "wait"
  /\ waitLeft = 0 \/ dirty # {}
  /\ pc' = "pass"
  /\ UNCHANGED <<polling, notices, timing, story, probing, stopAsked, ledger>>

Sleep ==
  /\ pc = "wait" /\ waitLeft > 0 /\ dirty = {}
  /\ pc' = "sleep"
  /\ UNCHANGED <<polling, notices, timing, story, probing, stopAsked, ledger>>

Wake ==
  /\ pc = "sleep" /\ ~stopAsked
  /\ pc' = "wait"
  /\ UNCHANGED <<polling, notices, timing, story, probing, stopAsked, ledger>>

Loop ==
  \/ StopFound \/ Pass \/ Poll \/ Snapshot \/ SnapshotFailed
  \/ \E c \in todo : NoCandidate(c) \/ Skip(c) \/ StartProbe(c)
  \/ EndRoute \/ Abandon \/ IssueSimulation \/ Simulated \/ StartLocal \/ LocalEnds
  \/ EndPass \/ EndWait \/ Sleep \/ Wake

\* The manager accepts a notification of a vault of the token.
Notify(t) ==
  /\ pc \in Awaiting
  /\ dirty' = dirty \cup {t}
  /\ unseen' = unseen \cup ({t} \cap Routes)
  /\ UNCHANGED <<pc, polling, unanswered, timing, story, probing, stopAsked, ledger>>

\* A signal, a stop file, the deadline, a budget.
AskStop ==
  /\ pc # "ended" /\ ~stopAsked
  /\ stopAsked' = TRUE
  /\ UNCHANGED <<pc, polling, notices, timing, story, probing, ledger>>

Aged(ages, most) == [i \in DOMAIN ages |-> Smaller(ages[i] + 1, most)]

Tick ==
  /\ pc # "ended"
  /\ age' = IF pc \in Probing \cup {"decide"} THEN Smaller(age + 1, MaxStale + 1) ELSE 0
  /\ simAges' = Aged(simAges, Minute + 1)
  /\ watched' = Within(Aged(watched, Minute + 1), Minute)
  /\ waitLeft' = IF waitLeft > 0 THEN waitLeft - 1 ELSE 0
  /\ UNCHANGED <<pc, left, urgent, route, sizingCap, todo, notices, story, probing,
                 stopAsked, ledger>>

Next == Loop \/ (\E t \in Tokens : Notify(t)) \/ AskStop \/ Tick

\* Every await ends: the calls of the RPC client return and sleeps are timers.
Spec == Init /\ [][Next]_vars /\ WF_vars(Loop)

-----------------------------------------------------------------------------
Ages == 0..(Minute + 1)

\* The types of the variables; a run makes at most MaxLocal local probes.
TypeOK ==
  /\ pc \in Stages
  /\ left \subseteq Routes /\ urgent \subseteq Routes /\ unseen \subseteq Routes
  /\ dirty \subseteq Tokens /\ unanswered \subseteq Routes
  /\ route \in Routes \cup {None} /\ sizingCap \in 0..MaxCapital
  /\ todo \subseteq Circuits /\ waitLeft \in 0..PollTicks
  /\ age \in 0..(MaxStale + 1)
  /\ simAges \in Seq(Ages) /\ watched \in Seq(0..Minute)
  /\ episodes \in [Circuits -> [open : BOOLEAN, refreshes : 0..MaxCount, localOk : BOOLEAN]]
  /\ streak \in [Circuits -> 0..MaxCount] /\ announced \in [Circuits -> Int]
  /\ probed \in Circuits \cup {None} /\ simIssued \in BOOLEAN
  /\ localAttempted \in 0..MaxLocal /\ unpaid \in Int
  /\ stopAsked \in BOOLEAN
  /\ Ledger!TypeOK

\* F7 and the comment "the ledger cannot move during this loop": a cap taken
\* once, after the snapshot, stays good while the probes of earlier circuits
\* of the route come and go, so that every size under it is granted and the
\* refusal and the retry of reserveBestSize() are never reached.
NeverRefused ==
  pc = "decide" => \A c \in todo, amount \in 1..sizingCap :
    Ledger!Admissible(ProbeOf(c, amount)) /\ Ledger!WithinCaps(ProbeOf(c, amount))

\* However a probe ends, outside it no capital is locked, no position is
\* open, and exactly the simulations that were issued have been charged.
ProbeSettled ==
  /\ unpaid = (IF simIssued THEN 1 ELSE 0)
  /\ pc \notin Probing => /\ DOMAIN pending = {} /\ locked = 0
                          /\ ~simIssued

\* Of the simulations issued at most MaxSims fall in any window of a minute,
\* although the count is pruned and tested before the blockhash is awaited
\* and the simulation is recorded after it.
SimsPerWindow == Len(watched) <= MaxSims

\* An episode is a maximal run of candidate evaluations of its circuit, over
\* passes, skips and failed probes: while it is open it counts exactly those
\* since the last other evaluation, and the journal has its start and,
\* once it is over, its end.
EpisodesFaithful ==
  \A c \in Circuits :
    /\ streak[c] = (IF episodes[c].open THEN episodes[c].refreshes ELSE 0)
    /\ announced[c] = (IF episodes[c].open THEN 1 ELSE 0)

\* A change of a route is not forgotten, whenever it is notified: until its
\* next snapshot is asked for, the route is still to come in this pass or is
\* dirty for the next one.
NoChangeForgotten == unseen \subseteq left \cup dirty

\* A notified change has a snapshot of its route asked for with no help from
\* the clock: the wait between passes is cut short.  A snapshot that fails takes
\* the notification with it (shadow.ts:107, 116): then it is the clock that
\* brings the route back, and one arrives if those of the route do not fail
\* forever.
ChangeFollowed ==
  \A t \in Routes :
    /\ (t \in unseen) ~> (t \notin unseen \/ pc = "ended")
    /\ WF_vars(Tick) /\ SF_vars(Snapshot /\ route = t) =>
         ((t \in unanswered) ~> (t \notin unanswered \/ pc = "ended"))
=============================================================================
