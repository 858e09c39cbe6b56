--------------------------- MODULE SnapshotProofs ---------------------------
(***************************************************************************)
(* A snapshot is honest for every set of accounts, every batch limit and   *)
(* any number of changes of the chain.  The invariant follows the keys: a  *)
(* key that was asked for is still to be read, was received as some        *)
(* version of the chain had it, or is missing from one.  Until the first   *)
(* response of a bundle nothing was received, so a bundle of one response  *)
(* shows one version.                                                      *)
(***************************************************************************)
EXTENDS Snapshot, SequenceTheorems, TLAPS

Chains == [Keys -> UNION {Contents(k) : k \in Keys}]

Running == phase \in {"pools", "dependents"}

\* Some version of the chain had this content under a key.
Seen(k, content) == \E version \in DOMAIN history : history[version][k] = content

\* Keys still to be read, received, or missing from some version.
Accounted(keys) ==
  \A k \in keys : k \in todo \/ k \in DOMAIN bundle \/ Seen(k, Absent)

\* Exactly one outcome is about a pool.
Judged(p) == \E o \in outcomes : \A x \in outcomes : x.pool = p <=> x = o

HistoryInv == history \in Seq(Chains) /\ Len(history) >= 1

\* A bundle holds what versions of the chain held, nothing before a response.
BundleInv ==
  /\ batches \in Nat
  /\ batches = 0 => DOMAIN bundle = {}
  /\ \A k \in DOMAIN bundle : bundle[k] # Absent /\ Seen(k, bundle[k])

PoolsInv == Accounted(pools)

\* The pools refused by now are those whose dependents are not asked for;
\* none of them is stable, and a stable pool's dependents are still its own.
DependentsInv ==
  /\ DOMAIN perPool \subseteq pools
  /\ \A p \in DOMAIN perPool :
       /\ p \in perPool[p] /\ Accounted(perPool[p])
       /\ Stable(p) => perPool[p] = KeysOf(p, Start[p])
  /\ \A p \in pools \ DOMAIN perPool : Judged(p) /\ ~Stable(p)
  /\ \A o \in outcomes : o.pool \in pools \ DOMAIN perPool /\ o.status # "OK"

IInv ==
  /\ HistoryInv
  /\ Running => BundleInv
  /\ phase = "pools" => PoolsInv
  /\ phase = "dependents" => DependentsInv
  /\ SnapshotIsHonest

-----------------------------------------------------------------------------
LEMMA FirstVersion == ASSUME HistoryInv PROVE 1 \in DOMAIN history
BY DEF HistoryInv

\* What one response brings to a bundle.
LEMMA ReceivedIsSeen ==
  ASSUME BundleInv, NEW version \in DOMAIN history, NEW batch \in SUBSET todo
  PROVE  LET accounts == Received(batch, version) IN
         /\ DOMAIN bundle \subseteq DOMAIN accounts
         /\ \A k \in batch : k \in DOMAIN accounts \/ Seen(k, Absent)
         /\ \A k \in DOMAIN accounts : accounts[k] # Absent /\ Seen(k, accounts[k])
         /\ batches = 0 => \A k \in DOMAIN accounts : accounts[k] = history[version][k]
<1> DEFINE answered == {k \in batch : history[version][k] # Absent}
           accounts == Received(batch, version)
<1>1. accounts = [k \in DOMAIN bundle \cup answered |->
                    IF k \in answered THEN history[version][k] ELSE bundle[k]]
  BY DEF Received
<1>2. DOMAIN accounts = DOMAIN bundle \cup answered
  BY <1>1
<1>3. \A k \in answered : accounts[k] = history[version][k] /\ accounts[k] # Absent
  BY <1>1
<1>4. \A k \in DOMAIN bundle \ answered : accounts[k] = bundle[k]
  BY <1>1
<1>5. \A k \in batch : k \in answered \/ Seen(k, Absent)
  BY DEF Seen
<1>6. \A k \in answered : Seen(k, accounts[k])
  BY <1>3 DEF Seen
<1> HIDE DEF answered, accounts
<1>7. \A k \in DOMAIN accounts : accounts[k] # Absent /\ Seen(k, accounts[k])
  <2>1. SUFFICES ASSUME NEW k \in DOMAIN accounts
                 PROVE  accounts[k] # Absent /\ Seen(k, accounts[k])
    OBVIOUS
  <2>2. CASE k \in answered
    BY <2>2, <1>3, <1>6
  <2>3. CASE k \notin answered
    BY <2>3, <1>2, <1>4 DEF BundleInv
  <2> QED
    BY <2>2, <2>3
<1>8. batches = 0 => \A k \in DOMAIN accounts : accounts[k] = history[version][k]
  BY <1>2, <1>3 DEF BundleInv
<1> QED
  BY <1>2, <1>5, <1>7, <1>8 DEF accounts

\* A stable pool's keys are received as they were at the start.
LEMMA StableKeysReceived ==
  ASSUME NEW p, Stable(p), NEW accounts, HistoryInv,
         \A k \in KeysOf(p, Start[p]) : k \in DOMAIN accounts \/ Seen(k, Absent),
         \A k \in DOMAIN accounts : Seen(k, accounts[k])
  PROVE  \A k \in KeysOf(p, Start[p]) : k \in DOMAIN accounts /\ accounts[k] = Start[k]
<1>1. SUFFICES ASSUME NEW k \in KeysOf(p, Start[p])
               PROVE  k \in DOMAIN accounts /\ accounts[k] = Start[k]
  OBVIOUS
<1>2. \A version \in DOMAIN history : history[version][k] = Start[k]
  BY <1>1 DEF Stable
<1>3. Start[k] # Absent
  BY <1>1 DEF Stable, Sound
<1>4. ~Seen(k, Absent)
  BY <1>2, <1>3 DEF Seen
<1>5. k \in DOMAIN accounts
  BY <1>1, <1>4
<1>6. PICK version \in DOMAIN history : history[version][k] = accounts[k]
  BY <1>5 DEF Seen
<1> QED
  BY <1>2, <1>5, <1>6

\* A pool whose accounts are those of a sound one is OK, or beyond the limit.
LEMMA StableIsServed ==
  ASSUME NEW p, Stable(p), NEW accounts, NEW count \in Nat \ {0},
         perPool[p] = KeysOf(p, Start[p]),
         \A k \in KeysOf(p, Start[p]) : k \in DOMAIN accounts /\ accounts[k] = Start[k]
  PROVE  LET o == SecondOutcome(p, accounts, count) IN
         \/ o.status = "OK"
         \/ o.status = "SNAPSHOT_INCOMPLETE" /\ count > 1
<1>1. p \in KeysOf(p, Start[p])
  BY DEF KeysOf
<1>2. accounts[p] = Start[p] /\ perPool[p] \subseteq DOMAIN accounts
  BY <1>1
<1>3. Decodable(p, Start) /\ Acceptable(p, Start)
  BY DEF Stable, Sound
<1>4. Decodable(p, accounts)
  BY <1>2, <1>3 DEF Decodable
<1>5. Acceptable(p, accounts)
  BY <1>2, <1>3 DEF Acceptable
<1>6. SecondOutcome(p, accounts, count) =
        IF Incomplete(count) THEN Outcome(p, "SNAPSHOT_INCOMPLETE", NoAccounts)
        ELSE Outcome(p, "OK", Decoded(p, accounts))
  BY <1>2, <1>4, <1>5 DEF SecondOutcome
<1>7. CASE Incomplete(count)
  BY <1>6, <1>7 DEF Incomplete, Outcome
<1>8. CASE ~Incomplete(count)
  BY <1>6, <1>8 DEF Outcome
<1> QED
  BY <1>7, <1>8

\* An outcome OK holds what was received, all of it.
LEMMA OkIsReceived ==
  ASSUME NEW p, NEW accounts, NEW count, p \in perPool[p],
         SecondOutcome(p, accounts, count).status = "OK"
  PROVE  LET o == SecondOutcome(p, accounts, count) IN
         /\ ~Incomplete(count)
         /\ \A k \in DOMAIN o.decoded : k \in DOMAIN accounts /\ o.decoded[k] = accounts[k]
<1>1. /\ perPool[p] \subseteq DOMAIN accounts /\ ~Incomplete(count) /\ Decodable(p, accounts)
      /\ SecondOutcome(p, accounts, count) = Outcome(p, "OK", Decoded(p, accounts))
  BY DEF SecondOutcome, Outcome
<1>2. SecondOutcome(p, accounts, count).decoded = Decoded(p, accounts)
  BY <1>1 DEF Outcome
<1>3. /\ DOMAIN Decoded(p, accounts) = KeysOf(p, accounts[p])
      /\ \A k \in KeysOf(p, accounts[p]) : Decoded(p, accounts)[k] = accounts[k]
  BY DEF Decoded
<1>4. KeysOf(p, accounts[p]) \subseteq DOMAIN accounts
  <2>1. p \in DOMAIN accounts
    BY <1>1
  <2>2. \A k \in KeysOf(p, accounts[p]) \ {p} : k \in DOMAIN accounts
    BY <1>1 DEF Decodable
  <2> QED
    BY <2>1, <2>2
<1> QED
  BY <1>1, <1>2, <1>3, <1>4

\* Every outcome is about its pool.
LEMMA OutcomeOf ==
  ASSUME NEW p, NEW accounts, NEW count
  PROVE  /\ SecondOutcome(p, accounts, count).pool = p
         /\ FirstOutcome(p, accounts).pool = p
         /\ FirstOutcome(p, accounts).status # "OK"
BY DEF SecondOutcome, FirstOutcome, Outcome

-----------------------------------------------------------------------------
(* The steps.                                                              *)

LEMMA InitHolds == Init => IInv
<1>1. SUFFICES ASSUME Init PROVE IInv
  OBVIOUS
<1>2. HistoryInv
  <2>1. Start \in Chains
    BY SnapshotAssumption DEF Chains
  <2> QED
    BY <1>1, <2>1 DEF Init, HistoryInv
<1>3. BundleInv
  BY <1>1 DEF Init, BundleInv, NoAccounts
<1>4. PoolsInv
  BY <1>1 DEF Init, PoolsInv, Accounted
<1> QED
  BY <1>1, <1>2, <1>3, <1>4 DEF Init, IInv, SnapshotIsHonest

\* A batch is part of the keys still to be read.
LEMMA BatchIsOfTodo == \A batch \in NextBatch : batch \in SUBSET todo
BY DEF NextBatch, kSubset

\* A response that leaves keys to be read.
LEMMA PartKeeps ==
  ASSUME IInv, NEW version \in DOMAIN history, NEW batch \in NextBatch,
         phase \in {"pools", "dependents"},
         todo' = todo \ batch, bundle' = Received(batch, version),
         batches' = batches + 1,
         UNCHANGED <<phase, perPool, outcomes, history, pools, single>>
  PROVE  IInv'
<1>1. batch \in SUBSET todo
  BY BatchIsOfTodo
<1>2. BundleInv /\ HistoryInv
  BY DEF IInv, Running
<1>3. /\ DOMAIN bundle \subseteq DOMAIN bundle'
      /\ \A k \in batch : k \in DOMAIN bundle' \/ Seen(k, Absent)
      /\ \A k \in DOMAIN bundle' : bundle'[k] # Absent /\ Seen(k, bundle'[k])
  BY <1>1, <1>2, ReceivedIsSeen
<1>4. \A k, c : Seen(k, c)' <=> Seen(k, c)
  BY DEF Seen
<1>5. BundleInv'
  <2>1. batches' \in Nat /\ batches' # 0
    BY <1>2 DEF BundleInv
  <2>2. \A k \in DOMAIN bundle' :
          bundle'[k] # Absent /\ \E v \in DOMAIN history' : history'[v][k] = bundle'[k]
    BY <1>3 DEF Seen
  <2> QED
    BY <2>1, <2>2 DEF BundleInv, Seen
<1>6. \A keys : Accounted(keys) => Accounted(keys)'
  <2>1. SUFFICES ASSUME NEW keys, Accounted(keys), NEW k \in keys
                 PROVE  k \in todo' \/ k \in DOMAIN bundle' \/ Seen(k, Absent)'
    BY DEF Accounted
  <2>2. k \in todo \/ k \in DOMAIN bundle \/ Seen(k, Absent)
    BY <2>1 DEF Accounted
  <2> QED
    BY <2>2, <1>3, <1>4
<1>7. \A p : Stable(p)' <=> Stable(p)
  BY DEF Stable
<1>8. HistoryInv'
  BY <1>2 DEF HistoryInv
<1>9. phase' = "pools" => PoolsInv'
  BY <1>6 DEF IInv, PoolsInv
<1>10. phase' = "dependents" => DependentsInv'
  <2>1. SUFFICES ASSUME phase = "dependents" PROVE DependentsInv'
    OBVIOUS
  <2>2. DependentsInv
    BY <2>1 DEF IInv
  <2>3. /\ DOMAIN perPool' \subseteq pools'
        /\ \A o \in outcomes' : o.pool \in pools' \ DOMAIN perPool' /\ o.status # "OK"
    BY <2>2 DEF DependentsInv
  <2>4. \A p \in DOMAIN perPool' :
          /\ p \in perPool'[p] /\ Accounted(perPool[p])'
          /\ Stable(p)' => perPool'[p] = KeysOf(p, Start[p])
    BY <2>2, <1>6, <1>7 DEF DependentsInv
  <2>5. \A p \in pools' \ DOMAIN perPool' : Judged(p)' /\ ~Stable(p)'
    BY <2>2, <1>7 DEF DependentsInv, Judged
  <2> QED
    BY <2>3, <2>4, <2>5 DEF DependentsInv
<1>11. SnapshotIsHonest'
  BY DEF SnapshotIsHonest
<1> QED
  BY <1>5, <1>8, <1>9, <1>10, <1>11 DEF IInv

\* The pools are there: their dependents are asked for, or none is left.
LEMMA AskKeeps ==
  ASSUME IInv, NEW version \in DOMAIN history, NEW batch \in NextBatch, batch = todo,
         phase = "pools", AskDependents(Received(batch, version)),
         UNCHANGED <<history, pools, single>>
  PROVE  IInv'
<1> DEFINE accounts == Received(batch, version)
           known == {p \in pools : p \in DOMAIN accounts /\ Enumerable(accounts[p])}
<1>1. BundleInv /\ HistoryInv /\ PoolsInv
  BY DEF IInv, Running
<1>2. /\ DOMAIN bundle \subseteq DOMAIN accounts
      /\ \A k \in batch : k \in DOMAIN accounts \/ Seen(k, Absent)
      /\ \A k \in DOMAIN accounts : accounts[k] # Absent /\ Seen(k, accounts[k])
  BY <1>1, ReceivedIsSeen, BatchIsOfTodo
<1>3. /\ perPool' = [p \in known |-> KeysOf(p, accounts[p])]
      /\ outcomes' = {FirstOutcome(p, accounts) : p \in pools \ known}
      /\ todo' = UNION {KeysOf(p, accounts[p]) : p \in known}
      /\ phase' = IF known = {} THEN "done" ELSE "dependents"
      /\ bundle' = NoAccounts /\ batches' = 0
  BY DEF AskDependents
<1>4. DOMAIN perPool' = known /\ known \subseteq pools
  BY <1>3
<1>5. \A p : Stable(p)' <=> Stable(p)
  BY DEF Stable
<1>6. ASSUME NEW p \in pools, Stable(p)
      PROVE  p \in known /\ accounts[p] = Start[p]
  <2>1. p \in KeysOf(p, Start[p])
    BY DEF KeysOf
  <2>2. \A v \in DOMAIN history : history[v][p] = Start[p]
    BY <1>6, <2>1 DEF Stable
  <2>3. Start[p] # Absent /\ Enumerable(Start[p])
    BY <1>6 DEF Stable, Sound
  <2>4. ~Seen(p, Absent)
    BY <2>2, <2>3 DEF Seen
  <2>5. p \in DOMAIN accounts
    BY <1>1, <1>2, <1>6, <2>4 DEF PoolsInv, Accounted
  <2>6. accounts[p] = Start[p]
    BY <1>2, <2>2, <2>5 DEF Seen
  <2> QED
    BY <1>6, <2>3, <2>5, <2>6
<1>7. \A p \in known : /\ perPool'[p] = KeysOf(p, accounts[p])
                       /\ p \in perPool'[p] /\ perPool'[p] \subseteq todo'
  BY <1>3 DEF KeysOf
<1> HIDE DEF known, accounts
<1>8. \A p \in pools \ known : Judged(p)'
  <2>1. SUFFICES ASSUME NEW p \in pools \ known
                 PROVE  \E o \in outcomes' : \A x \in outcomes' : x.pool = p <=> x = o
    BY DEF Judged
  <2>2. FirstOutcome(p, accounts) \in outcomes' /\ FirstOutcome(p, accounts).pool = p
    BY <1>3, OutcomeOf
  <2>3. \A x \in outcomes' : x.pool = p => x = FirstOutcome(p, accounts)
    BY <1>3, OutcomeOf
  <2> QED
    BY <2>2, <2>3
<1>9. \A o \in outcomes' : o.pool \in pools \ known /\ o.status # "OK"
  <2>1. \A p \in pools \ known : /\ FirstOutcome(p, accounts).pool = p
                                /\ FirstOutcome(p, accounts).status # "OK"
    BY OutcomeOf
  <2> QED
    BY <1>3, <2>1
<1>10. HistoryInv'
  BY <1>1 DEF HistoryInv
<1>11. BundleInv'
  BY <1>3 DEF BundleInv, NoAccounts
<1>12. DependentsInv'
  <2>1. DOMAIN perPool' \subseteq pools'
    BY <1>4
  <2>2. \A p \in DOMAIN perPool' :
          /\ p \in perPool'[p] /\ Accounted(perPool[p])'
          /\ Stable(p)' => perPool'[p] = KeysOf(p, Start[p])
    BY <1>4, <1>5, <1>6, <1>7 DEF Accounted
  <2>3. \A p \in pools' \ DOMAIN perPool' : Judged(p)' /\ ~Stable(p)'
    BY <1>4, <1>5, <1>6, <1>8
  <2>4. \A o \in outcomes' : o.pool \in pools' \ DOMAIN perPool' /\ o.status # "OK"
    BY <1>4, <1>9
  <2> QED
    BY <2>1, <2>2, <2>3, <2>4 DEF DependentsInv
<1>13. SnapshotIsHonest'
  <2>1. SUFFICES ASSUME known = {} PROVE SnapshotIsHonest'
    BY <1>3 DEF SnapshotIsHonest
  <2>2. \A p \in pools' :
          \E o \in outcomes' : \A x \in outcomes' : x.pool = p <=> x = o
    BY <2>1, <1>8 DEF Judged
  <2>3. Coherent'
    BY <1>9, <1>10, FirstVersion DEF Coherent, HistoryInv
  <2>4. \A o \in outcomes' : ~Stable(o.pool)'
    BY <2>1, <1>5, <1>6, <1>9
  <2> QED
    BY <2>2, <2>3, <2>4 DEF SnapshotIsHonest
<1> QED
  BY <1>3, <1>10, <1>11, <1>12, <1>13 DEF IInv, Running

\* All is there: what each pool asked for decides its outcome.
LEMMA ConcludeKeeps ==
  ASSUME IInv, NEW version \in DOMAIN history, NEW batch \in NextBatch, batch = todo,
         phase = "dependents", Conclude(Received(batch, version), batches + 1),
         UNCHANGED <<history, pools, single>>
  PROVE  IInv'
<1> DEFINE accounts == Received(batch, version)
           count == batches + 1
           Second(p) == SecondOutcome(p, accounts, count)
<1>1. BundleInv /\ HistoryInv /\ DependentsInv
  BY DEF IInv, Running
<1>2. /\ DOMAIN bundle \subseteq DOMAIN accounts
      /\ \A k \in batch : k \in DOMAIN accounts \/ Seen(k, Absent)
      /\ \A k \in DOMAIN accounts : accounts[k] # Absent /\ Seen(k, accounts[k])
      /\ batches = 0 => \A k \in DOMAIN accounts : accounts[k] = history[version][k]
  BY <1>1, ReceivedIsSeen, BatchIsOfTodo
<1>3. /\ outcomes' = outcomes \cup {Second(p) : p \in DOMAIN perPool}
      /\ phase' = "done" /\ batches' = count
  BY DEF Conclude
<1>4. count \in Nat \ {0} /\ (count = 1 => batches = 0)
  BY <1>1 DEF BundleInv
<1>5. \A p \in DOMAIN perPool : \A k \in perPool[p] : k \in DOMAIN accounts \/ Seen(k, Absent)
  BY <1>1, <1>2 DEF DependentsInv, Accounted
<1>6. \A p : Second(p).pool = p
  BY OutcomeOf
<1>7. \A p : Stable(p)' <=> Stable(p)
  BY DEF Stable
<1>8. \A p \in DOMAIN perPool : Stable(p) =>
        \/ Second(p).status = "OK"
        \/ Second(p).status = "SNAPSHOT_INCOMPLETE" /\ count > 1
  <2> HIDE DEF Second, accounts, count
  <2>1. SUFFICES ASSUME NEW p \in DOMAIN perPool, Stable(p)
                 PROVE  \/ Second(p).status = "OK"
                        \/ Second(p).status = "SNAPSHOT_INCOMPLETE" /\ count > 1
    OBVIOUS
  <2>2. perPool[p] = KeysOf(p, Start[p])
    BY <1>1, <2>1 DEF DependentsInv
  <2>3. \A k \in KeysOf(p, Start[p]) : k \in DOMAIN accounts /\ accounts[k] = Start[k]
    BY <1>1, <1>2, <1>5, <2>1, <2>2, StableKeysReceived
  <2> QED
    BY <1>4, <2>1, <2>2, <2>3, StableIsServed DEF Second
<1>9. \A p \in DOMAIN perPool : Second(p).status = "OK" =>
        /\ ~Incomplete(count)
        /\ \A k \in DOMAIN Second(p).decoded :
             k \in DOMAIN accounts /\ Second(p).decoded[k] = accounts[k]
  BY <1>1, OkIsReceived DEF DependentsInv
<1> HIDE DEF Second, accounts, count
<1>10. \A p \in pools' : Judged(p)'
  <2>1. SUFFICES ASSUME NEW p \in pools
                 PROVE  \E o \in outcomes' : \A x \in outcomes' : x.pool = p <=> x = o
    BY DEF Judged
  <2>2. CASE p \in DOMAIN perPool
    <3>1. Second(p) \in outcomes'
      BY <1>3, <2>2
    <3>2. \A x \in outcomes' : x.pool = p => x = Second(p)
      BY <1>1, <1>3, <1>6, <2>2 DEF DependentsInv
    <3> QED
      BY <1>6, <3>1, <3>2
  <2>3. CASE p \notin DOMAIN perPool
    <3>1. PICK o \in outcomes : \A x \in outcomes : x.pool = p <=> x = o
      BY <1>1, <2>1, <2>3 DEF DependentsInv, Judged
    <3>2. \A x \in outcomes' : x.pool = p <=> x = o
      BY <1>3, <1>6, <2>3, <3>1
    <3> QED
      BY <1>3, <3>1, <3>2
  <2> QED
    BY <2>2, <2>3
<1>11. single' => Coherent'
  <2>1. SUFFICES ASSUME single PROVE Coherent'
    OBVIOUS
  <2>2. \A o \in outcomes' : o.status = "OK" =>
          /\ ~Incomplete(count)
          /\ \A k \in DOMAIN o.decoded : k \in DOMAIN accounts /\ o.decoded[k] = accounts[k]
    BY <1>1, <1>3, <1>9 DEF DependentsInv
  <2>3. CASE count = 1
    <3>1. \A k \in DOMAIN accounts : accounts[k] = history[version][k]
      BY <1>2, <1>4, <2>3
    <3> QED
      BY <2>2, <3>1 DEF Coherent
  <2>4. CASE count # 1
    <3>1. \A o \in outcomes' : o.status # "OK"
      BY <2>1, <2>2, <2>4 DEF Incomplete
    <3> QED
      BY <3>1 DEF Coherent
  <2> QED
    BY <2>3, <2>4
<1>12. \A o \in outcomes' : Stable(o.pool)' =>
         \/ o.status = "OK"
         \/ o.status = "SNAPSHOT_INCOMPLETE" /\ batches' > 1
  <2>1. SUFFICES ASSUME NEW o \in outcomes', Stable(o.pool)
                 PROVE  \/ o.status = "OK"
                        \/ o.status = "SNAPSHOT_INCOMPLETE" /\ count > 1
    BY <1>3, <1>7
  <2>2. o \notin outcomes
    BY <1>1, <2>1 DEF DependentsInv
  <2>3. PICK p \in DOMAIN perPool : o = Second(p)
    BY <1>3, <2>1, <2>2
  <2>4. o.pool = p
    BY <1>6, <2>3
  <2>5. Stable(p)
    BY <2>1, <2>4
  <2>6. \/ Second(p).status = "OK"
        \/ Second(p).status = "SNAPSHOT_INCOMPLETE" /\ count > 1
    BY <1>8, <2>3, <2>5
  <2> QED
    BY <2>3, <2>6
<1>13. HistoryInv'
  BY <1>1 DEF HistoryInv
<1>14. SnapshotIsHonest'
  BY <1>10, <1>11, <1>12 DEF SnapshotIsHonest, Judged
<1> QED
  BY <1>3, <1>13, <1>14 DEF IInv, Running

\* The chain changes: what was seen stays seen, and fewer pools are stable.
LEMMA ChangeKeeps ==
  ASSUME IInv, Running, NEW k \in Keys, NEW content \in Contents(k), Change(k, content)
  PROVE  IInv'
<1>1. /\ history' = Append(history, [Chain EXCEPT ![k] = content])
      /\ UNCHANGED <<pools, single, phase, todo, batches, bundle, perPool, outcomes>>
  BY DEF Change
<1>2. HistoryInv /\ BundleInv
  BY DEF IInv
<1>3. Chain \in Chains
  BY <1>2 DEF Chain, HistoryInv
<1>4. [Chain EXCEPT ![k] = content] \in Chains
  BY <1>3 DEF Chains
<1>5. /\ HistoryInv'
      /\ \A v \in DOMAIN history : v \in DOMAIN history' /\ history'[v] = history[v]
  BY <1>1, <1>2, <1>4, AppendProperties DEF HistoryInv
<1>6. \A x, c : Seen(x, c) => Seen(x, c)'
  BY <1>5 DEF Seen
<1>7. \A p : Stable(p)' => Stable(p)
  BY <1>5 DEF Stable
<1>8. BundleInv'
  <2>1. \A x \in DOMAIN bundle' : bundle'[x] # Absent
    BY <1>1, <1>2 DEF BundleInv
  <2>2. \A x \in DOMAIN bundle' : \E v \in DOMAIN history' : history'[v][x] = bundle'[x]
    BY <1>1, <1>2, <1>5 DEF BundleInv, Seen
  <2> QED
    BY <1>1, <1>2, <2>1, <2>2 DEF BundleInv, Seen
<1>9. \A keys : Accounted(keys) => Accounted(keys)'
  BY <1>1, <1>6 DEF Accounted
<1>10. phase' = "pools" => PoolsInv'
  BY <1>1, <1>9 DEF IInv, PoolsInv
<1>11. phase' = "dependents" => DependentsInv'
  <2>1. SUFFICES ASSUME DependentsInv PROVE DependentsInv'
    BY <1>1 DEF IInv
  <2>2. \A p \in DOMAIN perPool' :
          /\ p \in perPool'[p] /\ Accounted(perPool[p])'
          /\ Stable(p)' => perPool'[p] = KeysOf(p, Start[p])
    BY <1>1, <1>7, <1>9, <2>1 DEF DependentsInv
  <2>3. \A p \in pools' \ DOMAIN perPool' : Judged(p)' /\ ~Stable(p)'
    BY <1>1, <1>7, <2>1 DEF DependentsInv, Judged
  <2> QED
    BY <1>1, <2>1, <2>2, <2>3 DEF DependentsInv
<1>12. SnapshotIsHonest'
  BY <1>1 DEF Running, SnapshotIsHonest
<1> QED
  BY <1>5, <1>8, <1>10, <1>11, <1>12 DEF IInv

LEMMA StepKeeps == IInv /\ [Next]_vars => IInv'
<1>1. SUFFICES ASSUME IInv, [Next]_vars PROVE IInv'
  OBVIOUS
<1>2. CASE \E version \in DOMAIN history : Respond(version)
  <2>1. PICK version \in DOMAIN history : Respond(version)
    BY <1>2
  <2>2. phase \in {"pools", "dependents"} /\ UNCHANGED <<history, pools, single>>
    BY <2>1 DEF Respond
  <2>3. PICK batch \in NextBatch :
          LET accounts == Received(batch, version) IN
          \/ /\ batch # todo
             /\ todo' = todo \ batch
             /\ bundle' = accounts
             /\ batches' = batches + 1
             /\ UNCHANGED <<phase, perPool, outcomes>>
          \/ batch = todo /\ phase = "pools" /\ AskDependents(accounts)
          \/ batch = todo /\ phase = "dependents" /\ Conclude(accounts, batches + 1)
    BY <2>1 DEF Respond
  <2>4. CASE /\ todo' = todo \ batch /\ bundle' = Received(batch, version)
             /\ batches' = batches + 1 /\ UNCHANGED <<phase, perPool, outcomes>>
    BY <1>1, <2>2, <2>4, PartKeeps
  <2>5. CASE batch = todo /\ phase = "pools" /\ AskDependents(Received(batch, version))
    BY <1>1, <2>2, <2>5, AskKeeps
  <2>6. CASE /\ batch = todo /\ phase = "dependents"
             /\ Conclude(Received(batch, version), batches + 1)
    BY <1>1, <2>2, <2>6, ConcludeKeeps
  <2> QED
    BY <2>3, <2>4, <2>5, <2>6
<1>3. CASE Throw
  BY <1>1, <1>3 DEF Throw, IInv, HistoryInv, Running, SnapshotIsHonest
<1>4. CASE /\ phase \in {"pools", "dependents"}
           /\ \E k \in Keys : \E content \in Contents(k) : Change(k, content)
  BY <1>1, <1>4, ChangeKeeps DEF Running
<1>5. CASE UNCHANGED vars
  <2> USE <1>5 DEF vars
  <2>1. HistoryInv' <=> HistoryInv
    BY DEF HistoryInv
  <2>2. BundleInv' <=> BundleInv
    BY DEF BundleInv, Seen
  <2>3. PoolsInv' <=> PoolsInv
    BY DEF PoolsInv, Accounted, Seen
  <2>4. \A p : Stable(p)' <=> Stable(p)
    BY DEF Stable
  <2>5. DependentsInv => DependentsInv'
    BY <2>4 DEF DependentsInv, Accounted, Seen, Judged
  <2>6. SnapshotIsHonest => SnapshotIsHonest'
    BY <2>4 DEF SnapshotIsHonest, Coherent
  <2> QED
    BY <1>1, <2>1, <2>2, <2>3, <2>5, <2>6 DEF IInv, Running
<1> QED
  BY <1>1, <1>2, <1>3, <1>4, <1>5 DEF Next

\* Whatever changes on the chain while a snapshot is taken and whichever node
\* answers: one outcome for each pool, one moment for all that are OK when a
\* single batch is required, and no refusal of a sound pool nobody touched.
THEOREM SnapshotsAreHonest == Spec => []SnapshotIsHonest
<1>1. IInv => SnapshotIsHonest
  BY DEF IInv
<1> QED
  BY InitHolds, StepKeeps, <1>1, PTL DEF Spec
=============================================================================
