-------------------------- MODULE ShadowLoopProofs --------------------------
(***************************************************************************)
(* For any tokens, pools, prices and limits: the shadow loop forgets no    *)
(* change of a vault, settles every probe, is never refused capital, and   *)
(* counts the refreshes of an episode as they happened.                    *)
(***************************************************************************)
EXTENDS ShadowLoop, FiniteSetTheorems, SequenceTheorems, WellFoundedInduction, TLAPS

\* Only routes are awaited, and a pass that drains the dirty keys has them
\* all still to come.
ChangeInv ==
  /\ unseen \subseteq Routes
  /\ NoChangeForgotten

\* The inductive step, one action at a time: only a poll, the start of a pass
\* and a notification touch what the invariant is about.
LEMMA ChangeStep == ChangeInv /\ [Next]_vars => ChangeInv'
<1> SUFFICES ASSUME ChangeInv, [Next]_vars PROVE ChangeInv'
  OBVIOUS
<1> USE DEF ChangeInv, NoChangeForgotten
<1>1. CASE UNCHANGED <<left, dirty, unseen>>
  BY <1>1
<1>2. CASE Pass
  BY <1>2 DEF Pass
<1>3. CASE Poll
  BY <1>3 DEF Poll
<1>4. CASE \E t \in Tokens : Notify(t)
  BY <1>4 DEF Notify, polling
<1>5. ASSUME Next, ~Pass, ~Poll, ~(\E t \in Tokens : Notify(t))
      PROVE  UNCHANGED <<left, dirty, unseen>>
  <2> USE DEF polling, notices
  <2>1. CASE StopFound
    BY <2>1 DEF StopFound
  <2>2. CASE Snapshot \/ SnapshotFailed
    BY <2>2 DEF Snapshot, SnapshotFailed
  <2>3. CASE \E c \in todo : NoCandidate(c) \/ Skip(c) \/ StartProbe(c)
    BY <2>3 DEF NoCandidate, Skip, StartProbe, Refresh
  <2>4. CASE EndRoute \/ IssueSimulation \/ StartLocal
    BY <2>4 DEF EndRoute, IssueSimulation, StartLocal
  <2>5. CASE Abandon \/ Simulated \/ LocalEnds
    BY <2>5 DEF Abandon, Simulated, LocalEnds, SettleProbe
  <2>6. CASE EndPass \/ EndWait \/ Sleep \/ Wake
    BY <2>6 DEF EndPass, EndWait, Sleep, Wake
  <2>7. CASE AskStop \/ Tick
    BY <2>7 DEF AskStop, Tick
  <2> QED
    BY <1>5, <2>1, <2>2, <2>3, <2>4, <2>5, <2>6, <2>7 DEF Next, Loop
<1>6. CASE UNCHANGED vars
  BY <1>1, <1>6 DEF vars, polling, notices
<1> QED
  BY <1>1, <1>2, <1>3, <1>4, <1>5, <1>6

\* A change stays due until a snapshot of its route is asked for: the dirty keys
\* are drained before the routes are polled, never after (shadow.ts:108-116).
THEOREM ChangesKept == Spec => []NoChangeForgotten
<1>1. Init => ChangeInv
  BY DEF Init, ChangeInv, NoChangeForgotten
<1>2. ChangeInv => NoChangeForgotten
  BY DEF ChangeInv
<1> QED
  BY <1>1, <1>2, ChangeStep, PTL DEF Spec

-----------------------------------------------------------------------------
\* The caps of the ledger's configuration, none of it locked, are enough for
\* a position of this need.
Fits(need) ==
  /\ need <= Ledger!Frac(LedgerConfig.maxEpisode)
  /\ need <= Ledger!Frac(LedgerConfig.maxAggregateOpen)
  /\ need <= capital - Ledger!Frac(LedgerConfig.reserve)

\* A hypothetical ledger keeps its capital and its configuration.
LedgerKept == cfg = LedgerConfig /\ capital = MaxCapital

\* Outside a probe the ledger is empty; a probe holds exactly its position.
PositionsInStage ==
  /\ pc \notin Probing => DOMAIN pending = {} /\ locked = 0
  /\ pc \in Probing =>
       /\ DOMAIN pending = {probed}
       /\ locked = Ledger!Released(pending[probed])
       /\ locked \in Int

\* A simulation is issued and not charged between these two stages.
IssuedInStage ==
  /\ pc \in {"simulate", "local"} => simIssued = TRUE /\ unpaid = 1
  /\ pc \notin {"simulate", "local"} => simIssued = FALSE /\ unpaid = 0

\* The cap taken when the route was snapshotted stays good.
CapStays ==
  pc \in Probing \cup {"decide"} =>
    \A amount \in 1..sizingCap : Fits(amount + FeeBudget + Deposit)

LoopInv == LedgerKept /\ PositionsInStage /\ IssuedInStage /\ CapStays

\* The loop begins with an empty ledger.
LEMMA InitLoop == Init => LoopInv
<1> SUFFICES ASSUME Init PROVE LoopInv
  OBVIOUS
<1>1. pc = "pass" /\ simIssued = FALSE /\ unpaid = 0
  BY DEF Init
<1>2. cfg = LedgerConfig /\ capital = MaxCapital /\ locked = 0 /\ DOMAIN pending = {}
  BY DEF Init, Ledger!Init
<1> QED
  BY <1>1, <1>2 DEF LoopInv, LedgerKept, PositionsInStage, IssuedInStage, CapStays, Probing

\* What the ledger has room for when nothing is locked fits under its caps.
LEMMA CapFits ==
  ASSUME LedgerKept, locked = 0, NEW amount \in 1..SizingCap
  PROVE  Fits(amount + FeeBudget + Deposit)
<1> DEFINE ep == Ledger!Frac(LedgerConfig.maxEpisode)
           agg == Ledger!Frac(LedgerConfig.maxAggregateOpen)
           free == capital - Ledger!Frac(LedgerConfig.reserve)
<1>1. ep \in Int /\ agg \in Int /\ free \in Int
  BY ShadowAssumption DEF LedgerKept, LedgerConfig, Ledger!Frac, Ledger!Million
<1>2. SizingCap = Smaller(Ledger!CapacityFor(FeeBudget, Deposit), MaxCapital)
  BY DEF SizingCap
<1>3. Ledger!CapacityFor(FeeBudget, Deposit)
        = Ledger!AtLeastZero(Ledger!LedgerBudget - FeeBudget - Deposit)
  BY DEF Ledger!CapacityFor
<1>4. Ledger!LedgerBudget
        = Ledger!AtLeastZero(Ledger!Smaller(ep, Ledger!Smaller(agg - 0, free - 0)))
  BY DEF Ledger!LedgerBudget, LedgerKept
<1> HIDE DEF ep, agg, free
<1>5. /\ Ledger!LedgerBudget \in Nat
      /\ Ledger!LedgerBudget > 0 =>
           Ledger!LedgerBudget <= ep /\ Ledger!LedgerBudget <= agg /\ Ledger!LedgerBudget <= free
  BY <1>1, <1>4 DEF Ledger!AtLeastZero, Ledger!Smaller
<1>6. amount \in Int /\ amount >= 1 /\ amount <= Ledger!LedgerBudget - FeeBudget - Deposit
  BY <1>2, <1>3, <1>5, ShadowAssumption DEF Ledger!AtLeastZero, Smaller
<1>7. /\ amount + FeeBudget + Deposit <= ep
      /\ amount + FeeBudget + Deposit <= agg
      /\ amount + FeeBudget + Deposit <= free
  BY <1>1, <1>5, <1>6, ShadowAssumption
<1> QED
  BY <1>7 DEF Fits, ep, agg, free

\* An action that leaves the ledger alone and does not enter or leave a
\* probe, nor takes a new cap.
LEMMA Elsewhere ==
  ASSUME LoopInv, UNCHANGED ledger, UNCHANGED <<simIssued, unpaid>>,
         pc' \in Probing => pc' = pc /\ probed' = probed,
         pc \in Probing => pc' = pc,
         pc' = "decide" => pc = "decide",
         sizingCap' = sizingCap
  PROVE  LoopInv'
<1>1. LedgerKept' /\ (\A need : Fits(need)' <=> Fits(need))
  BY DEF LoopInv, LedgerKept, ledger, Fits, Ledger!Frac, Ledger!Million
<1>2. PositionsInStage'
  BY DEF LoopInv, PositionsInStage, ledger, Ledger!Released
<1>3. IssuedInStage'
  BY DEF LoopInv, IssuedInStage, Probing
<1>4. CapStays'
  BY <1>1 DEF LoopInv, CapStays
<1> QED
  BY <1>1, <1>2, <1>3, <1>4 DEF LoopInv

\* The finally block empties the ledger, however the probe went.
LEMMA SettleStep ==
  ASSUME LoopInv, pc \in Probing, SettleProbe PROVE LoopInv'
<1>1. /\ pc' = "decide" /\ simIssued' = FALSE /\ sizingCap' = sizingCap
      /\ unpaid' = unpaid - (IF FeePaid > 0 THEN 1 ELSE 0)
  BY DEF SettleProbe, polling
<1>2. /\ pending' = [j \in DOMAIN pending \ {probed} |-> pending[j]]
      /\ locked' = locked - Ledger!Released(pending[probed])
      /\ cfg' = cfg
      /\ capital' = IF cfg.hypothetical THEN capital
                    ELSE capital + Ledger!Result("NOT_LANDED", 0, FeePaid)
  BY DEF SettleProbe, Ledger!Settle
<1>3. cfg' = LedgerConfig /\ capital' = capital /\ LedgerKept'
  BY <1>2 DEF LoopInv, LedgerKept, LedgerConfig
<1>4. DOMAIN pending' = {} /\ locked' = 0
  BY <1>2 DEF LoopInv, PositionsInStage
<1>5. unpaid' = 0
  BY <1>1, ShadowAssumption DEF LoopInv, IssuedInStage, FeePaid
<1>6. CapStays'
  <2>1. \A need : Fits(need)' <=> Fits(need)
    BY <1>3 DEF Fits, Ledger!Frac, Ledger!Million
  <2> QED
    BY <1>1, <2>1 DEF LoopInv, CapStays
<1> QED
  BY <1>1, <1>3, <1>4, <1>5, <1>6 DEF LoopInv, PositionsInStage, IssuedInStage, Probing

\* A probe begins on an empty ledger.
LEMMA StartStep ==
  ASSUME LoopInv, NEW c, StartProbe(c) PROVE LoopInv'
<1>1. /\ pc = "decide" /\ pc' = "blockhash" /\ probed' = c /\ sizingCap' = sizingCap
      /\ simIssued' = simIssued /\ unpaid' = unpaid
  BY DEF StartProbe, Refresh
<1>2. PICK amount \in 1..sizingCap : Ledger!Reserve(ProbeOf(c, amount))
  BY DEF StartProbe
<1> DEFINE p == ProbeOf(c, amount)
<1>3. p.id = c
  BY DEF ProbeOf
<1>4. Ledger!Need(p) = amount + FeeBudget + Deposit /\ Ledger!Released(p) = Ledger!Need(p)
  BY DEF ProbeOf, Ledger!Need, Ledger!Released
<1>5. amount \in Int /\ Ledger!Need(p) \in Int
  BY <1>4, ShadowAssumption
<1> HIDE DEF p
<1>6. /\ pending' = [i \in DOMAIN pending \cup {p.id} |-> IF i = p.id THEN p ELSE pending[i]]
      /\ locked' = locked + Ledger!Need(p)
      /\ cfg' = cfg /\ capital' = capital
  BY <1>2 DEF p, Ledger!Reserve
<1>7. DOMAIN pending = {} /\ locked = 0
  BY <1>1 DEF LoopInv, PositionsInStage, Probing
<1>8. DOMAIN pending' = {c} /\ pending'[c] = p /\ locked' = Ledger!Need(p)
  BY <1>3, <1>5, <1>6, <1>7
<1>9. PositionsInStage'
  BY <1>1, <1>4, <1>5, <1>8 DEF PositionsInStage, Probing, Ledger!Released
<1>10. LedgerKept' /\ (\A need : Fits(need)' <=> Fits(need))
  BY <1>6 DEF LoopInv, LedgerKept, Fits, Ledger!Frac, Ledger!Million
<1>11. CapStays'
  BY <1>1, <1>10 DEF LoopInv, CapStays
<1>12. IssuedInStage'
  BY <1>1 DEF LoopInv, IssuedInStage
<1> QED
  BY <1>9, <1>10, <1>11, <1>12 DEF LoopInv

\* The inductive step, one action at a time.
LEMMA LoopStep == LoopInv /\ [Next]_vars => LoopInv'
<1> SUFFICES ASSUME LoopInv, [Next]_vars PROVE LoopInv'
  OBVIOUS
<1> USE DEF probing, polling, Probing
<1>1. CASE StopFound
  BY <1>1, Elsewhere DEF StopFound, Checks
<1>2. CASE Pass \/ Poll
  BY <1>2, Elsewhere DEF Pass, Poll
<1>3. CASE Snapshot
  <2>1. pc = "snapshot" /\ pc' = "decide" /\ sizingCap' = SizingCap /\ UNCHANGED ledger
        /\ UNCHANGED <<simIssued, unpaid>>
    BY <1>3 DEF Snapshot
  <2>2. LedgerKept /\ locked = 0
    BY <2>1 DEF LoopInv, PositionsInStage
  <2>3. \A amount \in 1..SizingCap : Fits(amount + FeeBudget + Deposit)
    BY <2>2, CapFits
  <2>4. LedgerKept' /\ (\A need : Fits(need)' <=> Fits(need))
    BY <2>1 DEF LoopInv, LedgerKept, ledger, Fits, Ledger!Frac, Ledger!Million
  <2>5. CapStays'
    BY <2>1, <2>3, <2>4 DEF CapStays
  <2>6. PositionsInStage' /\ IssuedInStage'
    BY <2>1 DEF LoopInv, PositionsInStage, IssuedInStage, ledger
  <2> QED
    BY <2>4, <2>5, <2>6 DEF LoopInv
<1>4. CASE SnapshotFailed
  BY <1>4, Elsewhere DEF SnapshotFailed
<1>5. CASE \E c \in todo : NoCandidate(c) \/ Skip(c)
  BY <1>5, Elsewhere DEF NoCandidate, Skip, Refresh
<1>6. CASE \E c \in todo : StartProbe(c)
  BY <1>6, StartStep
<1>7. CASE EndRoute
  BY <1>7, Elsewhere DEF EndRoute
<1>8. CASE Abandon \/ Simulated \/ LocalEnds
  BY <1>8, SettleStep DEF Abandon, Simulated, LocalEnds
<1>9. CASE IssueSimulation
  <2>1. /\ pc = "blockhash" /\ pc' = "simulate" /\ simIssued' = TRUE /\ unpaid' = unpaid + 1
        /\ UNCHANGED ledger /\ probed' = probed /\ sizingCap' = sizingCap
    BY <1>9 DEF IssueSimulation
  <2>2. LedgerKept' /\ (\A need : Fits(need)' <=> Fits(need))
    BY <2>1 DEF LoopInv, LedgerKept, ledger, Fits, Ledger!Frac, Ledger!Million
  <2>3. PositionsInStage'
    BY <2>1 DEF LoopInv, PositionsInStage, ledger, Ledger!Released
  <2>4. IssuedInStage' /\ CapStays'
    BY <2>1, <2>2 DEF LoopInv, IssuedInStage, CapStays
  <2> QED
    BY <2>2, <2>3, <2>4 DEF LoopInv
<1>10. CASE StartLocal
  <2>1. /\ pc = "simulate" /\ pc' = "local" /\ simIssued' = simIssued /\ unpaid' = unpaid
        /\ UNCHANGED ledger /\ probed' = probed /\ sizingCap' = sizingCap
    BY <1>10 DEF StartLocal
  <2>2. LedgerKept' /\ (\A need : Fits(need)' <=> Fits(need))
    BY <2>1 DEF LoopInv, LedgerKept, ledger, Fits, Ledger!Frac, Ledger!Million
  <2>3. PositionsInStage'
    BY <2>1 DEF LoopInv, PositionsInStage, ledger, Ledger!Released
  <2>4. IssuedInStage' /\ CapStays'
    BY <2>1, <2>2 DEF LoopInv, IssuedInStage, CapStays
  <2> QED
    BY <2>2, <2>3, <2>4 DEF LoopInv
<1>11. CASE EndPass \/ EndWait \/ Sleep \/ Wake
  BY <1>11, Elsewhere DEF EndPass, EndWait, Sleep, Wake
<1>12. CASE (\E t \in Tokens : Notify(t)) \/ AskStop \/ Tick
  BY <1>12, Elsewhere DEF Notify, AskStop, Tick
<1>13. CASE UNCHANGED vars
  BY <1>13, Elsewhere DEF vars
<1> QED
  BY <1>1, <1>2, <1>3, <1>4, <1>5, <1>6, <1>7, <1>8, <1>9, <1>10, <1>11, <1>12, <1>13
     DEF Next, Loop

\* The ledger counts with its own instance of the library.
LEMMA EmptyLedger == Ledger!Cardinality({}) = 0
  BY FS_EmptySet DEF Ledger!Cardinality, Cardinality

\* The invariant of the loop and its ledger, in every behaviour.
THEOREM LoopSafety == Spec => []LoopInv
<1> QED
  BY InitLoop, LoopStep, PTL DEF Spec

\* Every probe is settled and every issued simulation charged, on every path
\* of the try and its finally (shadow.ts:170-206).
THEOREM ProbesSettled == Spec => []ProbeSettled
<1>1. LoopInv => ProbeSettled
  BY DEF LoopInv, PositionsInStage, IssuedInStage, ProbeSettled, Probing
<1> QED
  BY <1>1, LoopSafety, PTL

\* The ledger grants every size found under the cap taken for the route, so
\* the retry of reserveBestSize() is never reached from the loop.
THEOREM CapitalGranted == Spec => []NeverRefused
<1>1. LoopInv => NeverRefused
  <2> SUFFICES ASSUME LoopInv, pc = "decide", NEW c \in todo, NEW amount \in 1..sizingCap
               PROVE  /\ Ledger!Admissible(ProbeOf(c, amount))
                      /\ Ledger!WithinCaps(ProbeOf(c, amount))
    BY DEF NeverRefused
  <2>1. DOMAIN pending = {} /\ locked = 0 /\ LedgerKept
    BY DEF LoopInv, PositionsInStage, Probing
  <2>2. Ledger!Admissible(ProbeOf(c, amount))
    BY <2>1, EmptyLedger DEF Ledger!Admissible, LedgerKept, LedgerConfig
  <2>3. Ledger!Need(ProbeOf(c, amount)) = amount + FeeBudget + Deposit
    BY DEF Ledger!Need, ProbeOf
  <2>4. Fits(amount + FeeBudget + Deposit)
    BY DEF LoopInv, CapStays
  <2>5. Ledger!Need(ProbeOf(c, amount)) \in Int
    BY <2>3, ShadowAssumption
  <2> QED
    BY <2>1, <2>2, <2>3, <2>4, <2>5 DEF Ledger!WithinCaps, Fits, LedgerKept
<1> QED
  BY <1>1, LoopSafety, PTL

-----------------------------------------------------------------------------
\* An open episode was refreshed, and what is counted of it is what happened.
EpisodeInv ==
  /\ episodes \in [Circuits -> [open : BOOLEAN, refreshes : 0..MaxCount, localOk : BOOLEAN]]
  /\ streak \in [Circuits -> 0..MaxCount] /\ announced \in [Circuits -> Int]
  /\ \A c \in Circuits : episodes[c].open => episodes[c].refreshes >= 1
  /\ EpisodesFaithful

\* The invariant's part about one circuit.
EpisodeFine(e, s, a) ==
  /\ e \in [open : BOOLEAN, refreshes : 0..MaxCount, localOk : BOOLEAN]
  /\ s \in 0..MaxCount /\ a \in Int
  /\ e.open => e.refreshes >= 1
  /\ s = (IF e.open THEN e.refreshes ELSE 0)
  /\ a = (IF e.open THEN 1 ELSE 0)

\* It is that part, for every circuit.
LEMMA EachFine ==
  ASSUME EpisodeInv, NEW c \in Circuits
  PROVE  EpisodeFine(episodes[c], streak[c], announced[c])
BY DEF EpisodeInv, EpisodesFaithful, EpisodeFine

\* A step that touches the episode of one circuit at most.
LEMMA OneEpisode ==
  ASSUME EpisodeInv, NEW c, NEW e, NEW s, NEW a,
         episodes' = [episodes EXCEPT ![c] = e],
         streak' = [streak EXCEPT ![c] = s],
         announced' = [announced EXCEPT ![c] = a],
         c \in Circuits => EpisodeFine(e, s, a)
  PROVE  EpisodeInv'
BY DEF EpisodeInv, EpisodesFaithful, EpisodeFine

\* A candidate refreshes the open episode, or opens one that is announced.
LEMMA RefreshStep ==
  ASSUME EpisodeInv, NEW c, Refresh(c)
  PROVE  EpisodeInv'
<1> DEFINE e == EpisodeOf(c)
           s == Counted(streak[c])
           a == announced[c] + IF e.refreshes = 1 THEN 1 ELSE 0
<1>1. /\ episodes' = [episodes EXCEPT ![c] = e]
      /\ streak' = [streak EXCEPT ![c] = s]
      /\ announced' = [announced EXCEPT ![c] = a]
  BY DEF Refresh
<1>2. ASSUME c \in Circuits PROVE EpisodeFine(e, s, a)
  <2>1. EpisodeFine(episodes[c], streak[c], announced[c])
    BY <1>2, EachFine
  <2>2. MaxCount \in Nat /\ MaxCount >= 2
    BY ShadowAssumption
  <2>3. CASE episodes[c].open
    <3>1. e = [episodes[c] EXCEPT !.open = TRUE, !.refreshes = Counted(@)]
      BY <2>3 DEF EpisodeOf
    <3>2. /\ e \in [open : BOOLEAN, refreshes : 0..MaxCount, localOk : BOOLEAN]
          /\ e.open = TRUE /\ e.refreshes = Counted(episodes[c].refreshes)
      <4>1. /\ episodes[c] \in [open : BOOLEAN, refreshes : 0..MaxCount, localOk : BOOLEAN]
            /\ episodes[c].refreshes \in 0..MaxCount
        BY <2>1 DEF EpisodeFine
      <4>2. Counted(episodes[c].refreshes) \in 0..MaxCount
        BY <2>2, <4>1 DEF Counted, Smaller
      <4> QED
        BY <3>1, <4>1, <4>2
    <3>3. /\ episodes[c].refreshes \in 1..MaxCount /\ streak[c] = episodes[c].refreshes
          /\ announced[c] = 1
      BY <2>1, <2>2, <2>3 DEF EpisodeFine
    <3> HIDE DEF e
    <3> QED
      BY <2>2, <3>2, <3>3 DEF EpisodeFine, Counted, Smaller
  <2>4. CASE ~episodes[c].open
    <3>1. e = [NoEpisode EXCEPT !.open = TRUE, !.refreshes = Counted(@)]
      BY <2>4 DEF EpisodeOf
    <3>2. Counted(0) = 1
      BY <2>2 DEF Counted, Smaller
    <3>3. e = [open |-> TRUE, refreshes |-> 1, localOk |-> FALSE]
      BY <3>1, <3>2 DEF NoEpisode
    <3>4. streak[c] = 0 /\ announced[c] = 0
      BY <2>1, <2>4 DEF EpisodeFine
    <3> HIDE DEF e
    <3> QED
      BY <2>2, <3>2, <3>3, <3>4 DEF EpisodeFine
  <2> QED
    BY <2>3, <2>4
<1> HIDE DEF e, s, a
<1> QED
  BY <1>1, <1>2, OneEpisode

\* Any other evaluation ends the episode, and says so if it was open.
LEMMA NoCandidateStep ==
  ASSUME EpisodeInv, NEW c, NoCandidate(c)
  PROVE  EpisodeInv'
<1>1. CASE episodes[c].open
  <2> DEFINE e == [episodes[c] EXCEPT !.open = FALSE]
             a == announced[c] - 1
  <2>1. /\ episodes' = [episodes EXCEPT ![c] = e]
        /\ streak' = [streak EXCEPT ![c] = 0]
        /\ announced' = [announced EXCEPT ![c] = a]
    BY <1>1 DEF NoCandidate, ClosedIf
  <2>2. ASSUME c \in Circuits PROVE EpisodeFine(e, 0, a)
    <3>1. EpisodeFine(episodes[c], streak[c], announced[c]) /\ MaxCount \in Nat
      BY <2>2, EachFine, ShadowAssumption
    <3>2. /\ e \in [open : BOOLEAN, refreshes : 0..MaxCount, localOk : BOOLEAN]
          /\ e.open = FALSE
      BY <3>1 DEF EpisodeFine
    <3>3. a = 0
      BY <1>1, <3>1 DEF EpisodeFine
    <3> HIDE DEF e, a
    <3> QED
      BY <3>1, <3>2, <3>3 DEF EpisodeFine
  <2> HIDE DEF e, a
  <2> QED
    BY <2>1, <2>2, OneEpisode
<1>2. CASE ~episodes[c].open
  <2>1. /\ episodes' = episodes /\ announced' = announced
        /\ streak' = [streak EXCEPT ![c] = 0]
    BY <1>2 DEF NoCandidate, ClosedIf
  <2> QED
    BY <1>2, <2>1, ShadowAssumption DEF EpisodeInv, EpisodesFaithful
<1> QED
  BY <1>1, <1>2

\* The inductive step: only decisions and local probes touch an episode.
LEMMA EpisodeStep == EpisodeInv /\ [Next]_vars => EpisodeInv'
<1> SUFFICES ASSUME EpisodeInv, [Next]_vars PROVE EpisodeInv'
  OBVIOUS
<1> USE DEF story
<1>1. CASE UNCHANGED story
  BY <1>1 DEF EpisodeInv, EpisodesFaithful
<1>2. CASE \E c \in todo : NoCandidate(c) \/ Skip(c) \/ StartProbe(c)
  BY <1>2, NoCandidateStep, RefreshStep DEF Skip, StartProbe
<1>3. CASE LocalEnds
  <2>1. PICK ok \in BOOLEAN : episodes' = [episodes EXCEPT ![probed].localOk = @ \/ ok]
    BY <1>3 DEF LocalEnds
  <2>2. UNCHANGED <<streak, announced>>
    BY <1>3 DEF LocalEnds, SettleProbe
  <2> DEFINE e == [episodes[probed] EXCEPT !.localOk = @ \/ ok]
  <2>3. ASSUME probed \in Circuits
        PROVE  EpisodeFine(e, streak[probed], announced[probed])
    BY <2>3, EachFine DEF EpisodeFine
  <2>4. /\ episodes' = [episodes EXCEPT ![probed] = e]
        /\ streak' = [streak EXCEPT ![probed] = streak[probed]]
        /\ announced' = [announced EXCEPT ![probed] = announced[probed]]
    BY <2>1, <2>2 DEF EpisodeInv
  <2> HIDE DEF e
  <2> QED
    BY <2>3, <2>4, OneEpisode
<1>4. CASE StopFound \/ Pass \/ Poll \/ Snapshot \/ SnapshotFailed
  BY <1>1, <1>4 DEF StopFound, Pass, Poll, Snapshot, SnapshotFailed
<1>5. CASE EndRoute \/ IssueSimulation \/ StartLocal
  BY <1>1, <1>5 DEF EndRoute, IssueSimulation, StartLocal
<1>6. CASE Abandon \/ Simulated
  BY <1>1, <1>6 DEF Abandon, Simulated, SettleProbe
<1>7. CASE EndPass \/ EndWait \/ Sleep \/ Wake
  BY <1>1, <1>7 DEF EndPass, EndWait, Sleep, Wake
<1>8. CASE (\E t \in Tokens : Notify(t)) \/ AskStop \/ Tick
  BY <1>1, <1>8 DEF Notify, AskStop, Tick
<1>9. CASE UNCHANGED vars
  BY <1>1, <1>9 DEF vars
<1> QED
  BY <1>2, <1>3, <1>4, <1>5, <1>6, <1>7, <1>8, <1>9 DEF Next, Loop

\* An open episode counts the candidate evaluations since the last other one,
\* and the journal has as many starts as ends, plus one while it is open, over
\* skips, failed probes and passes (shadow.ts:127-168).
THEOREM EpisodesAreFaithful == Spec => []EpisodesFaithful
<1>1. Init => EpisodeInv
  BY ShadowAssumption DEF Init, EpisodeInv, EpisodesFaithful, NoEpisode
<1>2. EpisodeInv => EpisodesFaithful
  BY DEF EpisodeInv
<1> QED
  BY <1>1, <1>2, EpisodeStep, PTL DEF Spec
-----------------------------------------------------------------------------
\* The number that Leading() looks for.
IsLeading(n, ages, limit) ==
  /\ n \in 0..Len(ages)
  /\ \A i \in 1..n : ages[i] > limit
  /\ n < Len(ages) => ages[n + 1] <= limit

\* A nonempty set of natural numbers has a least element.
LEMMA HasLeast ==
  ASSUME NEW T \in SUBSET Nat, T # {}
  PROVE  \E x \in T : \A y \in T : x <= y
<1> DEFINE R == OpToRel(<, Nat)
<1>1. IsWellFoundedOn(R, Nat)
  BY NatLessThanWellFounded
<1>2. \A x, y \in Nat : x < y => <<x, y>> \in R
  BY DEF OpToRel
<1> HIDE DEF R
<1>3. PICK x \in T : \A y \in T : ~(<<y, x>> \in R)
  BY <1>1, WFMin
<1>4. \A y \in T : ~(y < x)
  BY <1>2, <1>3
<1> QED
  BY <1>4

\* There is such a number, and only one.
LEMMA LeadingIs ==
  ASSUME NEW ages \in Seq(Int), NEW limit \in Int
  PROVE  /\ IsLeading(Leading(ages, limit), ages, limit)
         /\ \A n : IsLeading(n, ages, limit) => n = Leading(ages, limit)
<1>1. \E n : IsLeading(n, ages, limit)
  <2>1. CASE \A i \in 1..Len(ages) : ages[i] > limit
    <3>1. Len(ages) \in Nat
      OBVIOUS
    <3>2. IsLeading(Len(ages), ages, limit)
      BY <2>1, <3>1 DEF IsLeading
    <3> QED
      BY <3>2
  <2>2. CASE ~(\A i \in 1..Len(ages) : ages[i] > limit)
    <3> DEFINE T == {i \in 1..Len(ages) : ~(ages[i] > limit)}
    <3>1. T \in SUBSET Nat /\ T # {}
      BY <2>2
    <3>2. PICK x \in T : \A y \in T : x <= y
      BY <3>1, HasLeast
    <3>3. x \in 1..Len(ages) /\ ages[x] \in Int /\ ~(ages[x] > limit)
      BY <3>2
    <3>4. \A i \in 1..(x - 1) : ages[i] > limit
      BY <3>2, <3>3
    <3>5. IsLeading(x - 1, ages, limit)
      BY <3>3, <3>4 DEF IsLeading
    <3> QED
      BY <3>5
  <2> QED
    BY <2>1, <2>2
<1>2. \A m, n : IsLeading(m, ages, limit) /\ IsLeading(n, ages, limit) => ~(m < n)
  <2> SUFFICES ASSUME NEW m, NEW n, IsLeading(m, ages, limit), IsLeading(n, ages, limit), m < n
               PROVE  FALSE
    OBVIOUS
  <2>1. m \in Nat /\ n \in Nat /\ n <= Len(ages) /\ Len(ages) \in Nat
    BY DEF IsLeading
  <2>2. m + 1 \in 1..n /\ m + 1 \in 1..Len(ages) /\ m < Len(ages)
    BY <2>1
  <2>3. ages[m + 1] > limit /\ ages[m + 1] <= limit /\ ages[m + 1] \in Int
    BY <2>2 DEF IsLeading
  <2> QED
    BY <2>3
<1>3. \A m, n : IsLeading(m, ages, limit) /\ IsLeading(n, ages, limit) => m = n
  BY <1>2 DEF IsLeading
<1>4. Leading(ages, limit) = CHOOSE n : IsLeading(n, ages, limit)
  BY DEF Leading, IsLeading
<1> QED
  BY <1>1, <1>3, <1>4

\* What Within() leaves.
LEMMA WithinIs ==
  ASSUME NEW ages \in Seq(Int), NEW limit \in Int, NEW n, IsLeading(n, ages, limit)
  PROVE  /\ Len(Within(ages, limit)) = Len(ages) - n
         /\ \A i \in 1..(Len(ages) - n) : Within(ages, limit)[i] = ages[i + n]
         /\ \A S : ages \in Seq(S) => Within(ages, limit) \in Seq(S)
<1>1. Within(ages, limit) = SubSeq(ages, n + 1, Len(ages))
  BY LeadingIs DEF Within
<1>2. n \in Nat /\ Len(ages) \in Nat /\ n <= Len(ages)
  BY DEF IsLeading
<1>3. \A i \in (n + 1)..Len(ages) : ages[i] \in Int
  BY <1>2
<1>4. /\ Len(SubSeq(ages, n + 1, Len(ages)))
           = IF n + 1 <= Len(ages) THEN Len(ages) - (n + 1) + 1 ELSE 0
      /\ \A i \in 1..(Len(ages) - (n + 1) + 1) :
           SubSeq(ages, n + 1, Len(ages))[i] = ages[n + 1 + i - 1]
  BY <1>2, <1>3, SubSeqProperties
<1>5. \A S : ages \in Seq(S) => SubSeq(ages, n + 1, Len(ages)) \in Seq(S)
  <2> SUFFICES ASSUME NEW S, ages \in Seq(S) PROVE SubSeq(ages, n + 1, Len(ages)) \in Seq(S)
    OBVIOUS
  <2>1. \A i \in (n + 1)..Len(ages) : ages[i] \in S
    BY <1>2
  <2> QED
    BY <1>2, <2>1, SubSeqProperties
<1>6. Len(ages) - (n + 1) + 1 = Len(ages) - n /\ (\A i \in 1..(Len(ages) - n) : n + 1 + i - 1 = i + n)
  BY <1>2
<1> DEFINE w == Within(ages, limit)
<1> HIDE DEF w
<1>7. w = SubSeq(ages, n + 1, Len(ages))
  BY <1>1 DEF w
<1>8. Len(w) = Len(ages) - n
  BY <1>2, <1>4, <1>7
<1>9. ASSUME NEW i \in 1..(Len(ages) - n) PROVE w[i] = ages[i + n]
  <2>1. n + 1 + i - 1 = i + n /\ i \in 1..(Len(ages) - (n + 1) + 1)
    BY <1>2
  <2>2. SubSeq(ages, n + 1, Len(ages))[i] = ages[n + 1 + i - 1]
    BY <1>4, <2>1
  <2> QED
    BY <1>7, <2>1, <2>2
<1>10. \A S : ages \in Seq(S) => w \in Seq(S)
  BY <1>5, <1>7
<1> QED
  BY <1>8, <1>9, <1>10 DEF w

\* The observer's window is what is left of simTimes.
IsWindow(window, ages) ==
  \E n : /\ IsLeading(n, ages, Minute)
         /\ Len(window) = Len(ages) - n
         /\ \A i \in 1..Len(window) : window[i] = ages[i + n]

Ordered(ages) == \A i, j \in DOMAIN ages : i < j => ages[i] >= ages[j]

\* The oldest simulation comes first, the observer and the code count the
\* same ones, and while a blockhash is awaited there is room for one more.
SimsInv ==
  /\ simAges \in Seq(Ages) /\ watched \in Seq(Ages)
  /\ Ordered(simAges)
  /\ IsWindow(watched, simAges)
  /\ SimsPerWindow
  /\ pc = "blockhash" => Len(watched) < MaxSims

\* Pruning shows what the observer counts, and changes nothing of it.
LEMMA PrunedWindow ==
  ASSUME NEW ages \in Seq(Ages), NEW window \in Seq(Ages), Ordered(ages),
         IsWindow(window, ages)
  PROVE  /\ Recent(ages) \in Seq(Ages) /\ Ordered(Recent(ages))
         /\ IsWindow(window, Recent(ages))
         /\ Len(Recent(ages)) = Len(window)
<1>1. PICK n : /\ IsLeading(n, ages, Minute)
               /\ Len(window) = Len(ages) - n
               /\ \A i \in 1..Len(window) : window[i] = ages[i + n]
  BY DEF IsWindow
<1>2. ages \in Seq(Int) /\ Minute \in Int
  BY ShadowAssumption DEF Ages
<1>3. n \in Nat /\ Len(ages) \in Nat /\ n <= Len(ages)
  BY <1>1 DEF IsLeading
<1> DEFINE r == Recent(ages)
<1>4. /\ r \in Seq(Ages) /\ Len(r) = Len(ages) - n
      /\ \A i \in 1..(Len(ages) - n) : r[i] = ages[i + n]
  BY <1>1, <1>2, WithinIs DEF Recent
<1> HIDE DEF r
<1>5. DOMAIN r = 1..(Len(ages) - n) /\ DOMAIN ages = 1..Len(ages)
  BY <1>4
<1>6. \A i, j \in 1..(Len(ages) - n) : i < j => ages[i + n] >= ages[j + n]
  BY <1>3, <1>5 DEF Ordered
<1>7. Ordered(r)
  BY <1>4, <1>5, <1>6 DEF Ordered
<1>8. IsLeading(0, r, Minute)
  BY <1>1, <1>3, <1>4 DEF IsLeading
<1>9. IsWindow(window, r)
  <2>1. Len(window) = Len(r) - 0
    BY <1>1, <1>3, <1>4
  <2>2. \A i \in 1..Len(window) : window[i] = r[i + 0]
    BY <1>1, <1>3, <1>4
  <2> QED
    BY <1>8, <2>1, <2>2 DEF IsWindow
<1> QED
  BY <1>1, <1>4, <1>7, <1>9 DEF r

\* A simulation issued now is in the window.
LEMMA ExtendedWindow ==
  ASSUME NEW ages \in Seq(Ages), NEW window \in Seq(Ages), Ordered(ages),
         IsWindow(window, ages)
  PROVE  /\ Append(ages, 0) \in Seq(Ages) /\ Append(window, 0) \in Seq(Ages)
         /\ Ordered(Append(ages, 0))
         /\ IsWindow(Append(window, 0), Append(ages, 0))
         /\ Len(Append(window, 0)) = Len(window) + 1
<1>1. PICK n : /\ IsLeading(n, ages, Minute)
               /\ Len(window) = Len(ages) - n
               /\ \A i \in 1..Len(window) : window[i] = ages[i + n]
  BY DEF IsWindow
<1>2. 0 \in Ages /\ Ages \subseteq Nat /\ Minute \in Nat
  BY ShadowAssumption DEF Ages
<1>3. n \in Nat /\ Len(ages) \in Nat /\ n <= Len(ages)
  BY <1>1 DEF IsLeading
<1> DEFINE a == Append(ages, 0)
           w == Append(window, 0)
<1>4. /\ a \in Seq(Ages) /\ Len(a) = Len(ages) + 1
      /\ \A i \in 1..Len(ages) : a[i] = ages[i]
      /\ a[Len(ages) + 1] = 0
  BY <1>2, AppendProperties
<1>5. /\ w \in Seq(Ages) /\ Len(w) = Len(window) + 1
      /\ \A i \in 1..Len(window) : w[i] = window[i]
      /\ w[Len(window) + 1] = 0
  BY <1>2, AppendProperties
<1> HIDE DEF a, w
<1>6. /\ DOMAIN a = 1..(Len(ages) + 1) /\ DOMAIN ages = 1..Len(ages)
      /\ \A k \in 1..Len(ages) : ages[k] \in Nat
  <2>1. DOMAIN a = 1..Len(a) /\ DOMAIN ages = 1..Len(ages)
    BY <1>4
  <2>2. \A k \in 1..Len(ages) : ages[k] \in Ages
    OBVIOUS
  <2> QED
    BY <1>2, <1>4, <2>1, <2>2
<1>7. Ordered(a)
  <2> SUFFICES ASSUME NEW i \in DOMAIN a, NEW j \in DOMAIN a, i < j PROVE a[i] >= a[j]
    BY DEF Ordered
  <2>1. i \in 1..Len(ages) /\ a[i] = ages[i] /\ ages[i] \in Nat
    BY <1>2, <1>3, <1>4, <1>6
  <2>2. CASE j = Len(ages) + 1
    BY <2>1, <2>2, <1>4
  <2>3. CASE j # Len(ages) + 1
    BY <2>1, <2>3, <1>3, <1>4, <1>6 DEF Ordered
  <2> QED
    BY <2>2, <2>3
<1>8. IsLeading(n, a, Minute)
  <2>1. \A i \in 1..n : a[i] > Minute
    BY <1>1, <1>3, <1>4 DEF IsLeading
  <2>2. CASE n = Len(ages)
    BY <1>2, <1>3, <1>4, <2>1, <2>2 DEF IsLeading
  <2>3. CASE n < Len(ages)
    <3>1. a[n + 1] = ages[n + 1] /\ ages[n + 1] <= Minute
      BY SMTT(30), <1>1, <1>3, <1>4, <2>3 DEF IsLeading
    <3> QED
      BY <1>3, <1>4, <2>1, <3>1 DEF IsLeading
  <2> QED
    BY <1>3, <2>2, <2>3
<1>9. \A i \in 1..Len(w) : w[i] = a[i + n]
  <2> SUFFICES ASSUME NEW i \in 1..Len(w) PROVE w[i] = a[i + n]
    OBVIOUS
  <2>1. Len(window) \in Nat /\ Len(w) = Len(window) + 1 /\ Len(window) + n = Len(ages)
    BY <1>1, <1>3, <1>5
  <2>2. CASE i = Len(window) + 1
    <3>1. i + n = Len(ages) + 1
      BY <1>3, <2>1, <2>2
    <3> QED
      BY <1>4, <1>5, <2>2, <3>1
  <2>3. CASE i # Len(window) + 1
    <3>1. i \in 1..Len(window) /\ i + n \in 1..Len(ages)
      BY <1>3, <2>1, <2>3
    <3> QED
      BY <1>1, <1>4, <1>5, <3>1
  <2> QED
    BY <2>2, <2>3
<1>10. IsWindow(w, a)
  BY <1>1, <1>3, <1>4, <1>5, <1>8, <1>9 DEF IsWindow
<1> QED
  BY <1>4, <1>5, <1>7, <1>10 DEF a, w

\* Time passes for both alike: an expired simulation stays expired.
LEMMA AgedWindow ==
  ASSUME NEW ages \in Seq(Ages), NEW window \in Seq(Ages), Ordered(ages),
         IsWindow(window, ages)
  PROVE  LET a == Aged(ages, Minute + 1)
             w == Within(Aged(window, Minute + 1), Minute)
         IN  /\ a \in Seq(Ages) /\ w \in Seq(Ages)
             /\ Ordered(a)
             /\ IsWindow(w, a)
             /\ Len(w) <= Len(window)
<1>1. PICK n : /\ IsLeading(n, ages, Minute)
               /\ Len(window) = Len(ages) - n
               /\ \A i \in 1..Len(window) : window[i] = ages[i + n]
  BY DEF IsWindow
<1> DEFINE a == Aged(ages, Minute + 1)
           v == Aged(window, Minute + 1)
           w == Within(v, Minute)
<1>2. Minute \in Nat /\ Ages = 0..(Minute + 1)
  BY ShadowAssumption DEF Ages
<1>3. n \in Nat /\ Len(ages) \in Nat /\ n <= Len(ages) /\ Len(window) \in Nat
  BY <1>1 DEF IsLeading
<1>4. \A x \in Ages : Smaller(x + 1, Minute + 1) \in Ages
  BY <1>2 DEF Smaller
<1>5. /\ a \in Seq(Ages) /\ Len(a) = Len(ages)
      /\ \A i \in 1..Len(ages) : a[i] = Smaller(ages[i] + 1, Minute + 1)
  BY <1>4 DEF Aged
<1>6. /\ v \in Seq(Ages) /\ Len(v) = Len(window)
      /\ \A i \in 1..Len(window) : v[i] = Smaller(window[i] + 1, Minute + 1)
  BY <1>4 DEF Aged
<1> HIDE DEF a, v
<1>7. Ordered(a)
  <2>1. DOMAIN a = DOMAIN ages /\ DOMAIN ages = 1..Len(ages) /\ \A i \in DOMAIN ages : ages[i] \in Int
    BY <1>2, <1>5
  <2> SUFFICES ASSUME NEW i \in DOMAIN a, NEW j \in DOMAIN a, i < j PROVE a[i] >= a[j]
    BY DEF Ordered
  <2>2. i \in 1..Len(ages) /\ j \in 1..Len(ages) /\ ages[i] \in Int /\ ages[j] \in Int
    BY <2>1
  <2>3. ages[i] >= ages[j]
    BY <2>1, <2>2 DEF Ordered
  <2>4. a[i] = Smaller(ages[i] + 1, Minute + 1) /\ a[j] = Smaller(ages[j] + 1, Minute + 1)
    BY <1>5, <2>2
  <2> QED
    BY <1>2, <2>2, <2>3, <2>4 DEF Smaller
<1>8. v \in Seq(Int) /\ Minute \in Int
  BY <1>2, <1>6
<1> DEFINE m == Leading(v, Minute)
<1>9. IsLeading(m, v, Minute)
  BY <1>8, LeadingIs
<1> HIDE DEF m
<1>10. m \in Nat /\ m <= Len(window)
  BY <1>6, <1>9 DEF IsLeading
<1>11. w \in Seq(Ages) /\ Len(w) = Len(v) - m /\ \A i \in 1..(Len(v) - m) : w[i] = v[i + m]
  BY <1>6, <1>8, <1>9, WithinIs
<1> HIDE DEF w
<1>12. \A i \in 1..Len(window) : v[i] = a[i + n]
  BY <1>1, <1>3, <1>5, <1>6
<1>13. IsLeading(m + n, a, Minute)
  <2>1. m + n \in 0..Len(a)
    BY <1>1, <1>3, <1>5, <1>10
  <2>2. \A i \in 1..(m + n) : a[i] > Minute
    <3> SUFFICES ASSUME NEW i \in 1..(m + n) PROVE a[i] > Minute
      OBVIOUS
    <3>1. CASE i <= n
      <4>1. i \in 1..Len(ages) /\ ages[i] > Minute /\ ages[i] \in Int
        BY <1>1, <1>2, <1>3, <3>1 DEF IsLeading
      <4> QED
        BY <1>2, <1>5, <4>1 DEF Smaller
    <3>2. CASE i > n
      <4>1. i - n \in 1..m /\ i - n \in 1..Len(window) /\ (i - n) + n = i
        BY <1>3, <1>10, <3>2
      <4> QED
        BY <1>9, <1>12, <4>1 DEF IsLeading
    <3> QED
      BY <1>3, <1>10, <3>1, <3>2
  <2>3. m + n < Len(a) => a[m + n + 1] <= Minute
    <3> SUFFICES ASSUME m + n < Len(a) PROVE a[m + n + 1] <= Minute
      OBVIOUS
    <3>1. m < Len(v) /\ m + 1 \in 1..Len(window) /\ (m + 1) + n = m + n + 1
      BY <1>1, <1>3, <1>5, <1>6, <1>10
    <3> QED
      BY <1>9, <1>12, <3>1 DEF IsLeading
  <2> QED
    BY <2>1, <2>2, <2>3 DEF IsLeading
<1>14. IsWindow(w, a)
  <2>1. Len(w) = Len(a) - (m + n)
    BY <1>1, <1>3, <1>5, <1>6, <1>10, <1>11
  <2>2. \A i \in 1..Len(w) : w[i] = a[i + (m + n)]
    <3> SUFFICES ASSUME NEW i \in 1..Len(w) PROVE w[i] = a[i + (m + n)]
      OBVIOUS
    <3>1. i \in 1..(Len(v) - m) /\ i + m \in 1..Len(window) /\ (i + m) + n = i + (m + n)
      BY <1>3, <1>6, <1>10, <1>11
    <3> QED
      BY <1>11, <1>12, <3>1
  <2> QED
    BY <1>13, <2>1, <2>2 DEF IsWindow
<1>15. Len(w) <= Len(window)
  BY <1>3, <1>6, <1>10, <1>11
<1> QED
  BY <1>5, <1>7, <1>11, <1>14, <1>15 DEF a, v, w

\* The inductive step: a candidate prunes, an issued simulation is recorded,
\* and time passes.
LEMMA SimsStep == SimsInv /\ [Next]_vars => SimsInv'
<1> SUFFICES ASSUME SimsInv, [Next]_vars PROVE SimsInv'
  OBVIOUS
<1>1. MaxSims \in Nat /\ Len(watched) \in Nat
  BY ShadowAssumption DEF SimsInv
<1>2. ASSUME UNCHANGED <<simAges, watched>>, pc' = "blockhash" => pc = "blockhash"
      PROVE  SimsInv'
  BY <1>2 DEF SimsInv, Ordered, IsWindow, IsLeading, SimsPerWindow
<1>3. CASE \E c \in todo : Skip(c) \/ StartProbe(c)
  <2>1. /\ simAges' = Recent(simAges) /\ watched' = watched
        /\ pc' = "blockhash" => (pc = "blockhash" \/ Len(Recent(simAges)) < MaxSims)
    BY <1>3 DEF Skip, StartProbe, Refresh
  <2>2. /\ Recent(simAges) \in Seq(Ages) /\ Ordered(Recent(simAges))
        /\ IsWindow(watched, Recent(simAges)) /\ Len(Recent(simAges)) = Len(watched)
    BY PrunedWindow DEF SimsInv
  <2>3. Ordered(simAges)' /\ IsWindow(watched, simAges)'
    BY <2>1, <2>2 DEF Ordered, IsWindow, IsLeading
  <2> QED
    BY <2>1, <2>2, <2>3 DEF SimsInv, SimsPerWindow
<1>4. CASE IssueSimulation
  <2>1. /\ simAges' = Append(simAges, 0) /\ watched' = Append(watched, 0)
        /\ pc = "blockhash" /\ pc' = "simulate"
    BY <1>4 DEF IssueSimulation
  <2>2. /\ Append(simAges, 0) \in Seq(Ages) /\ Append(watched, 0) \in Seq(Ages)
        /\ Ordered(Append(simAges, 0)) /\ IsWindow(Append(watched, 0), Append(simAges, 0))
        /\ Len(Append(watched, 0)) = Len(watched) + 1
    BY ExtendedWindow DEF SimsInv
  <2>3. Ordered(simAges)' /\ IsWindow(watched, simAges)'
    BY <2>1, <2>2 DEF Ordered, IsWindow, IsLeading
  <2>4. SimsPerWindow'
    BY <1>1, <2>1, <2>2 DEF SimsInv, SimsPerWindow
  <2> QED
    BY <2>1, <2>2, <2>3, <2>4 DEF SimsInv
<1>5. CASE Tick
  <2> DEFINE a == Aged(simAges, Minute + 1)
             w == Within(Aged(watched, Minute + 1), Minute)
  <2>1. simAges' = a /\ watched' = w /\ pc' = pc
    BY <1>5 DEF Tick
  <2>2. /\ a \in Seq(Ages) /\ w \in Seq(Ages) /\ Ordered(a) /\ IsWindow(w, a)
        /\ Len(w) <= Len(watched)
    BY AgedWindow DEF SimsInv
  <2> HIDE DEF a, w
  <2>3. Ordered(simAges)' /\ IsWindow(watched, simAges)'
    BY <2>1, <2>2 DEF Ordered, IsWindow, IsLeading
  <2>4. Len(w) \in Nat
    BY <2>2
  <2>5. SimsPerWindow' /\ (pc' = "blockhash" => Len(watched') < MaxSims)
    BY <1>1, <2>1, <2>2, <2>4 DEF SimsInv, SimsPerWindow
  <2> QED
    BY <2>1, <2>2, <2>3, <2>5 DEF SimsInv
<1> USE DEF timing
<1>6. CASE StopFound \/ Pass \/ Poll \/ Snapshot \/ SnapshotFailed
  BY <1>2, <1>6 DEF StopFound, Pass, Poll, Snapshot, SnapshotFailed
<1>7. CASE (\E c \in todo : NoCandidate(c)) \/ EndRoute \/ StartLocal
  BY <1>2, <1>7 DEF NoCandidate, EndRoute, StartLocal
<1>8. CASE Abandon \/ Simulated \/ LocalEnds
  BY <1>2, <1>8 DEF Abandon, Simulated, LocalEnds, SettleProbe
<1>9. CASE EndPass \/ EndWait \/ Sleep \/ Wake
  BY <1>2, <1>9 DEF EndPass, EndWait, Sleep, Wake
<1>10. CASE (\E t \in Tokens : Notify(t)) \/ AskStop
  BY <1>2, <1>10 DEF Notify, AskStop
<1>11. CASE UNCHANGED vars
  BY <1>2, <1>11 DEF vars
<1> QED
  BY <1>3, <1>4, <1>5, <1>6, <1>7, <1>8, <1>9, <1>10, <1>11 DEF Next, Loop

\* Nothing has been simulated at first.
LEMMA InitSims == Init => SimsInv
<1> SUFFICES ASSUME Init PROVE SimsInv
  OBVIOUS
<1>1. simAges = << >> /\ watched = << >> /\ pc = "pass" /\ Len(<< >>) = 0 /\ MaxSims \in Nat
  BY ShadowAssumption DEF Init
<1>2. IsLeading(0, simAges, Minute)
  BY <1>1 DEF IsLeading
<1>3. IsWindow(watched, simAges)
  BY <1>1, <1>2 DEF IsWindow
<1> QED
  BY <1>1, <1>3 DEF SimsInv, SimsPerWindow, Ordered

\* At most MaxSims simulations fall in any window of a minute: the place found
\* free before the blockhash is awaited is still free after it, because the
\* loop probes one circuit at a time (shadow.ts:158-188).
THEOREM SimsBounded == Spec => []SimsPerWindow
<1>1. SimsInv => SimsPerWindow
  BY DEF SimsInv
<1> QED
  BY <1>1, InitSims, SimsStep, PTL DEF Spec

-----------------------------------------------------------------------------
\* What the observer's window holds is no older than a minute.
LEMMA WindowYoung ==
  ASSUME NEW ages \in Seq(Ages), NEW window \in Seq(Ages), Ordered(ages),
         IsWindow(window, ages)
  PROVE  window \in Seq(0..Minute)
<1>1. PICK n : /\ IsLeading(n, ages, Minute)
               /\ Len(window) = Len(ages) - n
               /\ \A i \in 1..Len(window) : window[i] = ages[i + n]
  BY DEF IsWindow
<1>2. n \in Nat /\ Len(ages) \in Nat /\ n <= Len(ages)
  BY <1>1 DEF IsLeading
<1>3. \A i \in 1..Len(window) : window[i] \in 0..Minute
  <2> SUFFICES ASSUME NEW i \in 1..Len(window) PROVE window[i] \in 0..Minute
    OBVIOUS
  <2>1. n + 1 \in 1..Len(ages) /\ i + n \in 1..Len(ages) /\ n + 1 <= i + n /\ n < Len(ages)
    BY <1>1, <1>2
  <2>2. ages[n + 1] <= Minute
    BY <1>1, <2>1 DEF IsLeading
  <2>3. ages[n + 1] \in Nat /\ ages[i + n] \in Nat /\ Minute \in Nat
    BY <2>1, ShadowAssumption DEF Ages
  <2>4. ages[i + n] <= ages[n + 1]
    <3>1. CASE i + n = n + 1
      BY <2>3, <3>1
    <3>2. CASE n + 1 < i + n
      <4>1. DOMAIN ages = 1..Len(ages)
        OBVIOUS
      <4> QED
        BY <2>1, <3>2, <4>1 DEF Ordered
    <3> QED
      BY <1>2, <2>1, <3>1, <3>2
  <2> QED
    BY <1>1, <2>2, <2>3, <2>4
<1>4. window = [i \in 1..Len(window) |-> window[i]] /\ Len(window) \in Nat
  OBVIOUS
<1>5. [i \in 1..Len(window) |-> window[i]] \in Seq(0..Minute)
  BY <1>3, <1>4
<1> QED
  BY <1>4, <1>5

\* The types no other invariant gives.
ControlTypes ==
  /\ pc \in Stages
  /\ left \subseteq Routes /\ urgent \subseteq Routes /\ unseen \subseteq Routes
  /\ dirty \subseteq Tokens /\ unanswered \subseteq Routes
  /\ route \in Routes \cup {None} /\ sizingCap \in 0..MaxCapital
  /\ todo \subseteq Circuits /\ waitLeft \in 0..PollTicks
  /\ age \in 0..(MaxStale + 1)
  /\ probed \in Circuits \cup {None} /\ localAttempted \in 0..MaxLocal
  /\ stopAsked \in BOOLEAN

StoryTypes ==
  /\ episodes \in [Circuits -> [open : BOOLEAN, refreshes : 0..MaxCount, localOk : BOOLEAN]]
  /\ streak \in [Circuits -> 0..MaxCount] /\ announced \in [Circuits -> Int]

\* While a route is worked on it is known.
RouteKnown == pc \in {"snapshot", "decide"} \cup Probing => route \in Routes

TypeInv == ControlTypes /\ StoryTypes /\ RouteKnown /\ Ledger!TypeOK

\* A circuit goes through two pools that are watched.
LEMMA CircuitPools == \A c \in Circuits : {c[1], c[2]} \in SUBSET Pools
  BY ShadowAssumption DEF Circuits, CircuitsAmong

\* The circuits of a route.
LEMMA RouteCircuits ==
  \A t \in Routes : \A decoded \in SUBSET PoolsOf[t] : CircuitsAmong(decoded) \subseteq Circuits
  BY DEF Routes, Circuits, CircuitsAmong

\* The cap is a size the ledger's configuration may hold.
LEMMA CapType == ASSUME LedgerKept, locked \in Int PROVE SizingCap \in 0..MaxCapital
<1>1. Ledger!CapacityFor(FeeBudget, Deposit)
        = Ledger!AtLeastZero(Ledger!LedgerBudget - FeeBudget - Deposit)
  BY DEF Ledger!CapacityFor
<1>2. capital \in Int /\ MaxCapital \in Nat
  BY ShadowAssumption DEF LedgerKept
<1>3. Ledger!LedgerBudget \in Int
  BY <1>2 DEF Ledger!LedgerBudget, LedgerKept, LedgerConfig, Ledger!Frac, Ledger!Million,
              Ledger!AtLeastZero, Ledger!Smaller
<1> QED
  BY <1>1, <1>2, <1>3, ShadowAssumption DEF SizingCap, Smaller, Ledger!AtLeastZero

\* The counters of an episode and what the journal counts of it.
LEMMA StoryStep == StoryTypes /\ [Next]_vars => StoryTypes'
<1> SUFFICES ASSUME StoryTypes, [Next]_vars PROVE StoryTypes'
  OBVIOUS
<1>1. \A n \in 0..MaxCount : Counted(n) \in 0..MaxCount
  BY ShadowAssumption DEF Counted, Smaller
<1>2. ASSUME NEW c \in todo, Refresh(c) PROVE StoryTypes'
  <2>1. CASE c \in Circuits
    <3>1. EpisodeOf(c) \in [open : BOOLEAN, refreshes : 0..MaxCount, localOk : BOOLEAN]
      <4> DEFINE e == IF episodes[c].open THEN episodes[c] ELSE NoEpisode
      <4>1. NoEpisode \in [open : BOOLEAN, refreshes : 0..MaxCount, localOk : BOOLEAN]
        BY ShadowAssumption DEF NoEpisode
      <4>2. episodes[c] \in [open : BOOLEAN, refreshes : 0..MaxCount, localOk : BOOLEAN]
        BY <2>1 DEF StoryTypes
      <4>3. e \in [open : BOOLEAN, refreshes : 0..MaxCount, localOk : BOOLEAN]
        BY <4>1, <4>2
      <4>4. EpisodeOf(c) = [e EXCEPT !.open = TRUE, !.refreshes = Counted(@)]
        BY DEF EpisodeOf
      <4> HIDE DEF e
      <4> QED
        BY <1>1, <4>3, <4>4
    <3> QED
      BY <1>1, <1>2, <2>1, <3>1 DEF Refresh, StoryTypes
  <2>2. CASE c \notin Circuits
    BY <1>2, <2>2 DEF Refresh, StoryTypes
  <2> QED
    BY <2>1, <2>2
<1>3. CASE \E c \in todo : NoCandidate(c)
  <2>1. PICK c \in todo : NoCandidate(c)
    BY <1>3
  <2>2. streak' = [streak EXCEPT ![c] = 0] /\ ClosedIf(c)
    BY <2>1 DEF NoCandidate
  <2>3. streak' \in [Circuits -> 0..MaxCount]
    <3>1. 0 \in 0..MaxCount
      BY ShadowAssumption
    <3> QED
      BY <2>2, <3>1 DEF StoryTypes
  <2>4. CASE episodes[c].open
    <3>1. /\ episodes' = [episodes EXCEPT ![c].open = FALSE]
          /\ announced' = [announced EXCEPT ![c] = @ - 1]
      BY <2>2, <2>4 DEF ClosedIf
    <3>2. episodes' \in [Circuits -> [open : BOOLEAN, refreshes : 0..MaxCount, localOk : BOOLEAN]]
      BY <3>1 DEF StoryTypes
    <3>3. announced' \in [Circuits -> Int]
      <4>1. announced \in [Circuits -> Int]
        BY DEF StoryTypes
      <4>2. \A d \in Circuits : announced'[d] = IF d = c THEN announced[d] - 1 ELSE announced[d]
        BY <3>1, <4>1
      <4>3. \A d \in Circuits : announced'[d] \in Int
        BY <4>1, <4>2
      <4>4. announced' = [d \in Circuits |-> announced'[d]]
        BY <3>1, <4>1
      <4> QED
        BY <4>3, <4>4
    <3> QED
      BY <2>3, <3>2, <3>3 DEF StoryTypes
  <2>5. CASE ~episodes[c].open
    BY <2>2, <2>3, <2>5 DEF ClosedIf, StoryTypes
  <2> QED
    BY <2>4, <2>5
<1>4. CASE \E c \in todo : Skip(c) \/ StartProbe(c)
  BY <1>2, <1>4 DEF Skip, StartProbe
<1>5. CASE LocalEnds
  BY <1>5 DEF LocalEnds, SettleProbe, StoryTypes
<1>6. CASE UNCHANGED <<episodes, streak, announced>>
  BY <1>6 DEF StoryTypes
<1> QED
  BY <1>3, <1>4, <1>5, <1>6
     DEF Next, Loop, StopFound, Pass, Poll, Snapshot, SnapshotFailed, EndRoute, Abandon,
         IssueSimulation, Simulated, StartLocal, SettleProbe, EndPass, EndWait, Sleep, Wake,
         Notify, AskStop, Tick, story, vars

\* The positions recorded are probes of the loop.
LEMMA LedgerTypesStep ==
  ASSUME TypeInv, LoopInv, [Next]_vars PROVE Ledger!TypeOK'
<1>1. CASE UNCHANGED ledger
  BY <1>1 DEF TypeInv, ledger, Ledger!TypeOK, Ledger!Probe, Ledger!Valid
<1>2. CASE \E c \in todo : StartProbe(c)
  <2>1. PICK c \in todo : StartProbe(c)
    BY <1>2
  <2>2. pc = "decide"
    BY <2>1 DEF StartProbe, Refresh
  <2>3. PICK amount \in 1..sizingCap : Ledger!Reserve(ProbeOf(c, amount))
    BY <2>1 DEF StartProbe
  <2> DEFINE p == ProbeOf(c, amount)
  <2>4. p \in Ledger!Probe /\ p.id = c /\ Ledger!Valid(p) /\ Ledger!Need(p) \in Nat
    <3>1. c \in Circuits /\ {c[1], c[2]} \in SUBSET Pools
      BY CircuitPools DEF TypeInv, ControlTypes
    <3>2. route \in Tokens
      BY <2>2 DEF TypeInv, RouteKnown, Routes
    <3>3. amount \in 0..MaxCapital /\ amount > 0 /\ FeeBudget \in Nat /\ Deposit \in Nat
      BY ShadowAssumption DEF TypeInv, ControlTypes
    <3> QED
      BY <3>1, <3>2, <3>3 DEF ProbeOf, Ledger!Probe, Ledger!Valid, Ledger!Need
  <2> HIDE DEF p
  <2>5. /\ pending' = [i \in DOMAIN pending \cup {p.id} |-> IF i = p.id THEN p ELSE pending[i]]
        /\ locked' = locked + Ledger!Need(p) /\ cfg' = cfg /\ capital' = capital
    BY <2>3 DEF Ledger!Reserve, p
  <2>6. c \in Circuits
    BY DEF TypeInv, ControlTypes
  <2>7. locked' \in Nat /\ cfg' \in {LedgerConfig} /\ capital' \in Nat
    BY <2>4, <2>5 DEF TypeInv, Ledger!TypeOK
  <2>8. /\ DOMAIN pending' \subseteq Circuits
        /\ \A i \in DOMAIN pending' : /\ pending'[i] \in Ledger!Probe /\ pending'[i].id = i
                                      /\ Ledger!Valid(pending'[i])
    BY <2>4, <2>5, <2>6 DEF TypeInv, Ledger!TypeOK
  <2> QED
    BY <2>7, <2>8 DEF Ledger!TypeOK, Ledger!Probe, Ledger!Valid
<1>3. CASE Abandon \/ Simulated \/ LocalEnds
  <2>1. SettleProbe /\ pc \in Probing
    BY <1>3 DEF Abandon, Simulated, LocalEnds, Probing
  <2>2. /\ pending' = [j \in DOMAIN pending \ {probed} |-> pending[j]]
        /\ locked' = locked - Ledger!Released(pending[probed])
        /\ cfg' = cfg
        /\ cfg.hypothetical => capital' = capital
    BY <2>1 DEF SettleProbe, Ledger!Settle
  <2>3. DOMAIN pending' = {} /\ locked' = 0
    BY <2>1, <2>2 DEF LoopInv, PositionsInStage
  <2>4. cfg' \in {LedgerConfig} /\ capital' \in Nat
    BY <2>2, ShadowAssumption DEF LoopInv, LedgerKept, LedgerConfig
  <2> QED
    BY <2>3, <2>4 DEF Ledger!TypeOK
<1> QED
  BY <1>1, <1>2, <1>3
     DEF Next, Loop, StopFound, Pass, Poll, Snapshot, SnapshotFailed, NoCandidate, Skip, EndRoute,
         IssueSimulation, StartLocal, EndPass, EndWait, Sleep, Wake, Notify, AskStop, Tick, vars

\* The stage, and what the loop works through.
LEMMA ControlStep ==
  ASSUME TypeInv, LoopInv, [Next]_vars PROVE ControlTypes' /\ RouteKnown'
<1> USE DEF ControlTypes, RouteKnown, Stages, Awaiting, Probing, polling, notices, probing
<1>1. CASE StopFound \/ SnapshotFailed \/ AskStop \/ UNCHANGED vars
  BY <1>1 DEF TypeInv, StopFound, SnapshotFailed, AskStop, vars, timing
<1>2. CASE Pass \/ Poll
  BY <1>2 DEF TypeInv, Pass, Poll, First, timing
<1>3. CASE Snapshot
  <2>1. route \in Routes /\ SizingCap \in 0..MaxCapital
    BY <1>3, CapType DEF TypeInv, Snapshot, LoopInv, PositionsInStage
  <2>2. PICK decoded \in SUBSET PoolsOf[route] : todo' = CircuitsAmong(decoded)
    BY <1>3 DEF Snapshot
  <2>3. todo' \subseteq Circuits
    BY <2>1, <2>2, RouteCircuits
  <2> QED
    BY <1>3, <2>1, <2>3, ShadowAssumption DEF TypeInv, Snapshot
<1>4. CASE \E c \in todo : NoCandidate(c) \/ Skip(c) \/ StartProbe(c)
  BY <1>4 DEF TypeInv, NoCandidate, Skip, StartProbe, Refresh, timing
<1>5. CASE EndRoute
  BY <1>5, ShadowAssumption DEF TypeInv, EndRoute
<1>6. CASE Abandon \/ Simulated \/ LocalEnds
  BY <1>6 DEF TypeInv, Abandon, Simulated, LocalEnds, SettleProbe, timing
<1>7. CASE IssueSimulation
  BY <1>7 DEF TypeInv, IssueSimulation
<1>8. CASE StartLocal
  BY <1>8, ShadowAssumption DEF TypeInv, StartLocal, LocalWanted, timing
<1>9. CASE EndPass \/ EndWait \/ Sleep \/ Wake
  BY <1>9, ShadowAssumption DEF TypeInv, EndPass, EndWait, Sleep, Wake, timing
<1>10. CASE \E t \in Tokens : Notify(t)
  BY <1>10 DEF TypeInv, Notify, timing
<1>11. CASE Tick
  BY <1>11, ShadowAssumption DEF TypeInv, Tick, Smaller
<1> QED
  BY <1>1, <1>2, <1>3, <1>4, <1>5, <1>6, <1>7, <1>8, <1>9, <1>10, <1>11 DEF Next, Loop

\* The loop begins well typed.
LEMMA InitTypes == Init => TypeInv
<1> SUFFICES ASSUME Init PROVE TypeInv
  OBVIOUS
<1>1. ControlTypes /\ RouteKnown
  <2>1. pc = "pass" /\ stopAsked = FALSE
    BY DEF Init
  <2>2. pc \in Stages /\ RouteKnown /\ stopAsked \in BOOLEAN
    BY <2>1 DEF Stages, RouteKnown, Probing
  <2>3. /\ sizingCap \in 0..MaxCapital /\ waitLeft \in 0..PollTicks
        /\ age \in 0..(MaxStale + 1) /\ localAttempted \in 0..MaxLocal
    BY ShadowAssumption DEF Init
  <2>4. /\ left \subseteq Routes /\ urgent \subseteq Routes /\ unseen \subseteq Routes
        /\ dirty \subseteq Tokens /\ unanswered \subseteq Routes /\ todo \subseteq Circuits
        /\ route \in Routes \cup {None} /\ probed \in Circuits \cup {None}
    BY DEF Init
  <2> QED
    BY <2>2, <2>3, <2>4 DEF ControlTypes
<1>2. StoryTypes
  BY ShadowAssumption DEF Init, StoryTypes, NoEpisode
<1>3. Ledger!TypeOK
  BY ShadowAssumption DEF Init, Ledger!Init, Ledger!TypeOK
<1> QED
  BY <1>1, <1>2, <1>3 DEF TypeInv

\* Every variable of the loop and of its ledger keeps its type: the route is
\* known while it is worked on, every open position is a probe of one of its
\* circuits, and a run makes at most MaxLocal local probes (shadow.ts:63-243).
THEOREM TypeCorrect == Spec => []TypeOK
<1>1. TypeInv /\ LoopInv /\ SimsInv => TypeOK
  <2> SUFFICES ASSUME TypeInv, LoopInv, SimsInv PROVE TypeOK
    OBVIOUS
  <2>1. simAges \in Seq(Ages) /\ watched \in Seq(0..Minute)
    BY WindowYoung DEF SimsInv
  <2>2. simIssued \in BOOLEAN /\ unpaid \in Int
    <3>1. CASE pc \in {"simulate", "local"}
      <4>1. simIssued = TRUE /\ unpaid = 1
        BY <3>1 DEF LoopInv, IssuedInStage
      <4> QED
        BY <4>1
    <3>2. CASE pc \notin {"simulate", "local"}
      <4>1. simIssued = FALSE /\ unpaid = 0
        BY <3>2 DEF LoopInv, IssuedInStage
      <4>2. simIssued \in BOOLEAN
        BY <4>1
      <4>3. unpaid \in Int
        BY <4>1
      <4> QED
        BY <4>2, <4>3
    <3> QED
      BY <3>1, <3>2
  <2> QED
    BY <2>1, <2>2 DEF TypeInv, ControlTypes, StoryTypes, TypeOK
<1>2. TypeInv /\ LoopInv /\ [Next]_vars => TypeInv'
  BY StoryStep, LedgerTypesStep, ControlStep DEF TypeInv
<1> QED
  BY <1>1, <1>2, InitTypes, InitLoop, LoopStep, InitSims, SimsStep, PTL DEF Spec
=============================================================================
