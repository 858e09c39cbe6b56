-------------------------- MODULE RpcClientProofs --------------------------
(***************************************************************************)
(* Safety of RpcClient for every set of callers and every limit, and the   *)
(* rate bound of RpcRate.                                                  *)
(***************************************************************************)
EXTENDS RpcRate, FiniteSetTheorems, SequenceTheorems, TLAPS

\* The inductive invariant: the accounts of slots, budget and queue support
\* one another (a slot can be freed because somebody holds it; the head of
\* the queue can be woken because it is suspended), so they are proved
\* together.
IInv ==
  /\ TypeOK
  /\ SlotAccounting
  /\ BudgetAccounting
  /\ QueueAccounting
  /\ NoLostWakeup

\* The callers whose program counter, according to p, is in T.
At(p, T) == {d \in Callers : p[d] \in T}

\* Changing one program counter changes a census by the caller that moved.
LEMMA Census ==
  ASSUME NEW p \in [Callers -> States], NEW q \in [Callers -> States],
         NEW c \in Callers, \A d \in Callers \ {c} : q[d] = p[d], NEW T
  PROVE  /\ Cardinality(At(p, T) \ {c}) \in Nat
         /\ Cardinality(At(q, T)) \in Nat
         /\ Cardinality(At(p, T)) \in Nat
         /\ p[c] \in T => Cardinality(At(p, T)) = Cardinality(At(p, T) \ {c}) + 1
         /\ p[c] \notin T => Cardinality(At(p, T)) = Cardinality(At(p, T) \ {c})
         /\ q[c] \in T => Cardinality(At(q, T)) = Cardinality(At(p, T) \ {c}) + 1
         /\ q[c] \notin T => Cardinality(At(q, T)) = Cardinality(At(p, T) \ {c})
<1> DEFINE A == At(p, T)
           R == A \ {c}
<1>1. IsFiniteSet(A) /\ IsFiniteSet(R)
  BY LimitsAssumption, FS_Subset DEF At
<1>2. Cardinality(A) \in Nat /\ Cardinality(R) \in Nat
  BY <1>1, FS_CardinalityType
<1>3. p[c] \in T => Cardinality(A) = Cardinality(R) + 1
  <2>1. p[c] \in T => c \in A
    BY DEF At
  <2>2. c \in A => Cardinality(R) = Cardinality(A) - 1
    BY <1>1, FS_RemoveElement
  <2> QED BY <2>1, <2>2, <1>2
<1>4. p[c] \notin T => A = R
  BY DEF At
<1>5. q[c] \in T => Cardinality(At(q, T)) = Cardinality(R) + 1
  <2>1. q[c] \in T => At(q, T) = R \cup {c}
    BY DEF At
  <2>2. Cardinality(R \cup {c}) = Cardinality(R) + 1
    BY <1>1, FS_AddElement
  <2> QED BY <2>1, <2>2
<1>6. q[c] \notin T => At(q, T) = R
  BY DEF At
<1>7. Cardinality(At(q, T)) \in Nat
  BY LimitsAssumption, FS_Subset, FS_CardinalityType DEF At
<1> QED BY <1>2, <1>3, <1>4, <1>5, <1>6, <1>7

\* The census without a change.
LEMMA CensusSplit ==
  ASSUME NEW p \in [Callers -> States], NEW c \in Callers, NEW T
  PROVE  /\ Cardinality(At(p, T) \ {c}) \in Nat
         /\ Cardinality(At(p, T)) \in Nat
         /\ p[c] \in T => Cardinality(At(p, T)) = Cardinality(At(p, T) \ {c}) + 1
         /\ p[c] \notin T => Cardinality(At(p, T)) = Cardinality(At(p, T) \ {c})
<1>1. \A q \in [Callers -> States] : q = p => \A d \in Callers \ {c} : q[d] = p[d]
  OBVIOUS
<1> QED BY <1>1, Census

-----------------------------------------------------------------------------
\* What acquire() may assume of the slots, queue and program counters it
\* starts from, whichever of its three callers runs it: c stands outside.
Ready(c, used, queue, p) ==
  /\ c \in Callers
  /\ p \in [Callers -> States]
  /\ used \in 0..MaxConcurrent
  /\ used = Cardinality(At(p, Holding) \ {c})
  /\ queue \in Seq(Callers)
  /\ p[c] # "waiting"
  /\ \A d \in Callers : p[d] = "waiting" <=> \E i \in DOMAIN queue : queue[i] = d
  /\ \A i, j \in DOMAIN queue : queue[i] = queue[j] => i = j

\* The bucket part of the type invariant.
BucketOK ==
  /\ tokens \in 0..Full
  /\ sinceRefill \in 0..TicksPerSecond
  /\ timer \in [Callers -> 0..TicksPerSecond]
  /\ sent \in 0..Budget

\* A refill never overfills the bucket nor empties it.
LEMMA RefillBounds ==
  ASSUME BucketOK
  PROVE  /\ Full \in Nat
         /\ Refilled \in 0..Full
         /\ Refilled <= tokens + sinceRefill * Rate
         /\ sinceRefill * Rate \in Nat
<1>1. Full \in Nat
  BY LimitsAssumption DEF Full
<1>2. sinceRefill * Rate \in Nat
  BY LimitsAssumption DEF BucketOK
<1> QED BY <1>1, <1>2 DEF Refilled, BucketOK

\* A throttled caller sleeps at least a tick and at most a second.
LEMMA SleepBounds ==
  ASSUME NEW t \in Nat, t < TicksPerSecond
  PROVE  (TicksPerSecond - t + Rate - 1) \div Rate \in 0..TicksPerSecond
<1> DEFINE a == TicksPerSecond - t
<1>1. a \in 1..TicksPerSecond /\ Rate \in Nat /\ Rate >= 1
  BY LimitsAssumption
<1>2. (a + Rate - 1) \div Rate \in Nat
  BY <1>1
<1>3. (a + Rate - 1) \div Rate <= a
  <2> DEFINE k == (a + Rate - 1) \div Rate
  <2>1. k * Rate <= a + Rate - 1
    BY <1>1, <1>2
  <2>2. SUFFICES ASSUME k >= a + 1 PROVE FALSE
    BY <1>1, <1>2
  <2>3. k * Rate >= (a + 1) * Rate
    BY <2>2, <1>1, <1>2
  <2>4. (a + 1) * Rate = a * Rate + Rate /\ a * Rate >= a
    BY <1>1
  <2> QED BY <2>1, <2>3, <2>4, <1>1, <1>2
<1>4. (a + Rate - 1) \div Rate \in 0..TicksPerSecond
  <2> DEFINE k == (a + Rate - 1) \div Rate
  <2> HIDE DEF k
  <2>1. a <= TicksPerSecond /\ a \in Nat /\ TicksPerSecond \in Nat
    BY <1>1, LimitsAssumption
  <2>2. k \in Nat /\ k <= a
    BY <1>2, <1>3 DEF k
  <2>3. k \in 0..TicksPerSecond
    BY <2>1, <2>2
  <2> QED BY <2>3 DEF k
<1> QED BY <1>4
-----------------------------------------------------------------------------
\* One turn of the token loop keeps the bucket in its bounds.  It sends a
\* request or goes to sleep, and the caller holds its slot either way.
LEMMA DrawTokenStep ==
  ASSUME BucketOK, NEW c \in Callers, NEW p \in [Callers -> States],
         sent + 1 <= Budget, DrawToken(c, p)
  PROVE  /\ BucketOK'
         /\ \/ pc' = [p EXCEPT ![c] = "sending"] /\ sent' = sent + 1
            \/ pc' = [p EXCEPT ![c] = "throttled"] /\ sent' = sent
<1>1. Full \in Nat /\ Refilled \in 0..Full
  BY RefillBounds
<1>2. 0 \in 0..TicksPerSecond /\ TicksPerSecond \in Nat /\ Budget \in Nat
  BY LimitsAssumption
<1>3. CASE Refilled >= TicksPerSecond
  <2>1. tokens' \in 0..Full
    BY <1>1, <1>2, <1>3 DEF DrawToken
  <2>2. sent' = sent + 1 /\ sent' \in 0..Budget
    BY <1>1, <1>2, <1>3 DEF DrawToken, BucketOK
  <2> QED BY <1>1, <1>2, <1>3, <2>1, <2>2 DEF DrawToken, BucketOK
<1>4. CASE Refilled < TicksPerSecond
  <2>1. (TicksPerSecond - Refilled + Rate - 1) \div Rate \in 0..TicksPerSecond
    BY <1>1, <1>4, SleepBounds
  <2> QED BY <1>1, <1>2, <1>4, <2>1 DEF DrawToken, BucketOK
<1> QED BY <1>1, <1>2, <1>3, <1>4

\* acquire() past the budget, from any point its callers start it at: the
\* caller takes a slot or joins the queue, and every account still balances.
LEMMA TakeSlotStep ==
  ASSUME BucketOK, NEW c, NEW used, NEW queue, NEW p,
         Ready(c, used, queue, p),
         total' \in 0..Budget,
         sent + Cardinality(At(p, Reserving) \ {c}) + 1 = total',
         queue # <<>> => used + Cardinality(At(p, {"woken"}) \ {c}) + 1 >= MaxConcurrent,
         attempt' \in [Callers -> 0..MaxRetries],
         TakeSlot(c, used, queue, p)
  PROVE  IInv'
<1> DEFINE held == Cardinality(At(p, Holding) \ {c})
           resv == Cardinality(At(p, Reserving) \ {c})
           wkn  == Cardinality(At(p, {"woken"}) \ {c})
<1>1. /\ c \in Callers /\ p \in [Callers -> States] /\ queue \in Seq(Callers)
      /\ used \in 0..MaxConcurrent /\ used = held /\ p[c] # "waiting"
  BY DEF Ready
<1>2. held \in Nat /\ resv \in Nat /\ wkn \in Nat
  BY <1>1, Census
<1>3. MaxConcurrent \in Nat /\ Budget \in Nat /\ sent \in 0..Budget
  BY LimitsAssumption DEF BucketOK
<1>0. PICK q : q = pc'
  OBVIOUS
<1>4. /\ Holders' = At(q, Holding)
      /\ Reserved' = At(q, Reserving)
      /\ Woken' = At(q, {"woken"})
  BY <1>0 DEF Holders, Reserved, Woken, At
<1>5. CASE /\ used >= MaxConcurrent
           /\ inflight' = used
           /\ waiters' = Append(queue, c)
           /\ pc' = [p EXCEPT ![c] = "waiting"]
           /\ UNCHANGED bucket
  <2>1. BucketOK' /\ sent' = sent
    BY <1>5 DEF BucketOK, bucket, Full
  <2>2. /\ Cardinality(Holders') = held
        /\ Cardinality(Reserved') = resv + 1
    <3>1. "waiting" \in States /\ "waiting" \notin Holding /\ "waiting" \in Reserving
      BY DEF States, Holding, Reserving
    <3>2. /\ p \in [Callers -> States] /\ q \in [Callers -> States] /\ c \in Callers
          /\ \A d \in Callers \ {c} : q[d] = p[d]
      BY <1>0, <1>1, <1>5, <3>1
    <3>3. q[c] \notin Holding /\ q[c] \in Reserving
      BY <1>0, <1>1, <1>5, <3>1
    <3>4. Cardinality(At(q, Holding)) = held
      BY <3>2, <3>3, Census
    <3>5. Cardinality(At(q, Reserving)) = resv + 1
      BY <3>2, <3>3, Census
    <3> QED BY <3>4, <3>5, <1>4
  <2>3. pc' \in [Callers -> States]
    BY <1>1, <1>5 DEF States
  <2>4. /\ waiters' \in Seq(Callers)
        /\ Len(waiters') = Len(queue) + 1
        /\ \A i \in 1..Len(queue) : waiters'[i] = queue[i]
        /\ waiters'[Len(queue) + 1] = c
        /\ Len(queue) \in Nat
        /\ DOMAIN queue = 1..Len(queue)
        /\ DOMAIN waiters' = 1..(Len(queue) + 1)
    BY <1>1, <1>5, AppendProperties, LenProperties
  <2>5. QueueAccounting'
    <3>1. \A i \in 1..Len(queue) : queue[i] # c
      BY <1>1, <2>4 DEF Ready
    <3>2. \A d \in Callers : pc'[d] = "waiting" <=> \E i \in DOMAIN waiters' : waiters'[i] = d
      BY <1>1, <1>5, <2>4 DEF Ready
    <3>3. \A i, j \in 1..Len(queue) : queue[i] = queue[j] => i = j
      BY <2>4 DEF Ready
    <3>4. \A i \in DOMAIN waiters' : i \in 1..Len(queue) \/ i = Len(queue) + 1
      BY <2>4
    <3>5. \A i, j \in DOMAIN waiters' : waiters'[i] = waiters'[j] => i = j
      BY <3>1, <3>3, <3>4, <2>4
    <3> QED BY <3>2, <3>5 DEF QueueAccounting
  <2>6. SlotAccounting' /\ BudgetAccounting' /\ NoLostWakeup' /\ TypeOK'
    <3>1. SlotAccounting'
      BY <1>1, <1>5, <2>2 DEF SlotAccounting
    <3>2. BudgetAccounting'
      BY <1>2, <1>3, <2>1, <2>2 DEF BudgetAccounting
    <3>3. NoLostWakeup'
      <4>1. Cardinality(Woken') \in Nat
        BY <2>3, <1>0, <1>1, <1>4, Census
      <4> QED BY <4>1, <1>1, <1>3, <1>5 DEF NoLostWakeup
    <3>4. TypeOK'
      BY <1>1, <1>5, <2>1, <2>3, <2>4 DEF TypeOK, BucketOK
    <3> QED BY <3>1, <3>2, <3>3, <3>4
  <2> QED BY <2>5, <2>6 DEF IInv
<1>6. CASE /\ used < MaxConcurrent
           /\ inflight' = used + 1
           /\ waiters' = queue
           /\ DrawToken(c, p)
  <2>1. sent + 1 <= Budget
    BY <1>2, <1>3
  <2>2. PICK s \in {"sending", "throttled"} :
          /\ pc' = [p EXCEPT ![c] = s]
          /\ sent' = sent + IF s = "sending" THEN 1 ELSE 0
    BY <1>1, <1>3, <1>6, <2>1, DrawTokenStep
  <2>3. BucketOK'
    BY <1>1, <1>6, <2>1, DrawTokenStep
  <2>4. s \in States /\ s \in Holding /\ s \notin {"woken"}
    BY DEF States, Holding
  <2>5. /\ Cardinality(At(q, Holding)) = held + 1
        /\ Cardinality(At(q, {"woken"})) = wkn
        /\ s \in Reserving => Cardinality(At(q, Reserving)) = resv + 1
        /\ s \notin Reserving => Cardinality(At(q, Reserving)) = resv
    <3>1. /\ p \in [Callers -> States] /\ q \in [Callers -> States] /\ c \in Callers
          /\ \A d \in Callers \ {c} : q[d] = p[d]
      BY <1>0, <1>1, <2>2, <2>4
    <3>2. q[c] = s /\ q[c] \in Holding /\ q[c] \notin {"woken"}
      BY <1>0, <1>1, <2>2, <2>4
    <3>3. Cardinality(At(q, Holding)) = held + 1
      BY <3>1, <3>2, Census
    <3>4. Cardinality(At(q, {"woken"})) = wkn
      BY <3>1, <3>2, Census
    <3>5. /\ q[c] \in Reserving => Cardinality(At(q, Reserving)) = resv + 1
          /\ q[c] \notin Reserving => Cardinality(At(q, Reserving)) = resv
      BY <3>1, Census
    <3> QED BY <3>2, <3>3, <3>4, <3>5
  <2>6. pc' \in [Callers -> States]
    BY <1>1, <2>2, <2>4
  <2>7. SlotAccounting'
    BY <1>1, <1>4, <1>6, <2>5 DEF SlotAccounting
  <2>8. BudgetAccounting'
    <3>1. CASE s = "sending"
      BY <3>1, <1>2, <1>3, <1>4, <2>2, <2>5 DEF BudgetAccounting, Reserving
    <3>2. CASE s = "throttled"
      BY <3>2, <1>2, <1>3, <1>4, <2>2, <2>5 DEF BudgetAccounting, Reserving
    <3> QED BY <3>1, <3>2
  <2>9. QueueAccounting'
    BY <1>1, <1>6, <2>2 DEF QueueAccounting, Ready
  <2>10. NoLostWakeup'
    BY <1>1, <1>2, <1>3, <1>4, <1>6, <2>5 DEF NoLostWakeup
  <2>11. TypeOK'
    <3>1. inflight' \in 0..MaxConcurrent
      BY <1>1, <1>3, <1>6
    <3>2. waiters' \in Seq(Callers)
      BY <1>1, <1>6
    <3> QED BY <2>3, <2>6, <3>1, <3>2 DEF TypeOK, BucketOK
  <2> QED BY <2>7, <2>8, <2>9, <2>10, <2>11 DEF IInv
<1> QED BY <1>5, <1>6 DEF TakeSlot

\* c goes idle and the rest stays as its caller left it: the end of a call
\* after release(), or a budget found exhausted.
LEMMA LeaveStep ==
  ASSUME BucketOK, NEW c, NEW used, NEW queue, NEW p,
         Ready(c, used, queue, p),
         total \in 0..Budget,
         sent + Cardinality(At(p, Reserving) \ {c}) = total,
         queue # <<>> => used + Cardinality(At(p, {"woken"}) \ {c}) >= MaxConcurrent,
         attempt' \in [Callers -> 0..MaxRetries],
         inflight' = used, waiters' = queue,
         pc' = [p EXCEPT ![c] = "idle"],
         UNCHANGED <<total, bucket>>
  PROVE  IInv'
<1> DEFINE resv == Cardinality(At(p, Reserving) \ {c})
           wkn  == Cardinality(At(p, {"woken"}) \ {c})
<1>1. /\ c \in Callers /\ p \in [Callers -> States] /\ queue \in Seq(Callers)
      /\ used \in 0..MaxConcurrent /\ p[c] # "waiting"
      /\ used = Cardinality(At(p, Holding) \ {c})
  BY DEF Ready
<1>2. resv \in Nat /\ wkn \in Nat
  BY <1>1, CensusSplit
<1>3. MaxConcurrent \in Nat /\ Budget \in Nat /\ sent \in 0..Budget
  BY LimitsAssumption DEF BucketOK
<1>4. PICK q : q = pc'
  OBVIOUS
<1>5. /\ p \in [Callers -> States] /\ q \in [Callers -> States] /\ c \in Callers
      /\ \A d \in Callers \ {c} : q[d] = p[d]
  BY <1>4, <1>1 DEF States
<1>6. q[c] \notin Holding /\ q[c] \notin Reserving /\ q[c] \notin {"woken"}
  BY <1>4, <1>1 DEF Holding, Reserving
<1>7. /\ Cardinality(At(q, Holding)) = Cardinality(At(p, Holding) \ {c})
      /\ Cardinality(At(q, Reserving)) = resv
      /\ Cardinality(At(q, {"woken"})) = wkn
  BY <1>5, <1>6, Census
<1>8. /\ Holders' = At(q, Holding)
      /\ Reserved' = At(q, Reserving)
      /\ Woken' = At(q, {"woken"})
  BY <1>4 DEF Holders, Reserved, Woken, At
<1>9. BucketOK' /\ sent' = sent /\ total' = total
  BY DEF BucketOK, bucket, Full
<1>10. SlotAccounting'
  BY <1>1, <1>7, <1>8 DEF SlotAccounting
<1>11. BudgetAccounting'
  BY <1>2, <1>3, <1>7, <1>8, <1>9 DEF BudgetAccounting
<1>12. QueueAccounting'
  BY <1>1 DEF QueueAccounting, Ready
<1>13. NoLostWakeup'
  BY <1>7, <1>8 DEF NoLostWakeup
<1>14. TypeOK'
  BY <1>1, <1>4, <1>5, <1>9 DEF TypeOK, BucketOK
<1> QED BY <1>10, <1>11, <1>12, <1>13, <1>14 DEF IInv

\* acquire() from its first line: an exhausted budget changes no account.
LEMMA AcquireStep ==
  ASSUME BucketOK, NEW c, NEW used, NEW queue, NEW p,
         Ready(c, used, queue, p),
         total \in 0..Budget,
         sent + Cardinality(At(p, Reserving) \ {c}) = total,
         queue # <<>> => used + Cardinality(At(p, {"woken"}) \ {c}) >= MaxConcurrent,
         attempt' \in [Callers -> 0..MaxRetries],
         Acquire(c, used, queue, p)
  PROVE  IInv'
<1> DEFINE resv == Cardinality(At(p, Reserving) \ {c})
           wkn  == Cardinality(At(p, {"woken"}) \ {c})
<1>1. /\ c \in Callers /\ p \in [Callers -> States] /\ queue \in Seq(Callers)
      /\ used \in 0..MaxConcurrent /\ p[c] # "waiting"
      /\ used = Cardinality(At(p, Holding) \ {c})
  BY DEF Ready
<1>2. resv \in Nat /\ wkn \in Nat
  BY <1>1, CensusSplit
<1>3. MaxConcurrent \in Nat /\ Budget \in Nat /\ sent \in 0..Budget
  BY LimitsAssumption DEF BucketOK
<1>4. CASE /\ total < Budget
           /\ total' = total + 1
           /\ TakeSlot(c, used, queue, p)
  <2>1. total' \in 0..Budget /\ sent + resv + 1 = total'
    BY <1>2, <1>3, <1>4
  <2>2. queue # <<>> => used + wkn + 1 >= MaxConcurrent
    BY <1>1, <1>2, <1>3
  <2> HIDE DEF resv, wkn
  <2> QED BY <1>4, <2>1, <2>2, TakeSlotStep DEF resv, wkn
<1>5. CASE /\ total >= Budget
           /\ inflight' = used
           /\ waiters' = queue
           /\ pc' = [p EXCEPT ![c] = "idle"]
           /\ UNCHANGED <<total, bucket>>
  <2> HIDE DEF resv, wkn
  <2> QED BY <1>5, LeaveStep DEF resv, wkn
<1> QED BY <1>4, <1>5 DEF Acquire

\* release(): the holder leaves the accounts, the first waiter is resolved.
LEMMA ReleaseStep ==
  ASSUME IInv, NEW c \in Callers, pc[c] \in {"sending", "backoff"}
  PROVE  /\ Ready(c, inflight - 1, Shifted, Notified)
         /\ sent + Cardinality(At(Notified, Reserving) \ {c}) = total
         /\ Shifted # <<>> =>
              inflight - 1 + Cardinality(At(Notified, {"woken"}) \ {c}) >= MaxConcurrent
<1>1. /\ pc \in [Callers -> States] /\ waiters \in Seq(Callers)
      /\ inflight \in 0..MaxConcurrent /\ MaxConcurrent \in Nat
      /\ total \in 0..Budget /\ sent \in 0..Budget /\ Budget \in Nat
  BY LimitsAssumption DEF IInv, TypeOK
<1>2. /\ inflight = Cardinality(At(pc, Holding))
      /\ sent + Cardinality(At(pc, Reserving)) = total
      /\ waiters # <<>> => inflight + Cardinality(At(pc, {"woken"})) >= MaxConcurrent
  BY DEF IInv, SlotAccounting, BudgetAccounting, NoLostWakeup, Holders, Reserved, Woken, At
<1>3. /\ pc[c] \in Holding /\ pc[c] \notin Reserving
      /\ pc[c] \notin {"woken"} /\ pc[c] # "waiting"
  BY DEF Holding, Reserving
\* c leaves the holders, and nothing else.
<1>4. /\ inflight = Cardinality(At(pc, Holding) \ {c}) + 1
      /\ Cardinality(At(pc, Holding) \ {c}) \in Nat
      /\ Cardinality(At(pc, Reserving) \ {c}) = Cardinality(At(pc, Reserving))
      /\ Cardinality(At(pc, {"woken"}) \ {c}) = Cardinality(At(pc, {"woken"}))
      /\ Cardinality(At(pc, {"woken"})) \in Nat
  <2>2. Cardinality(At(pc, Holding)) = Cardinality(At(pc, Holding) \ {c}) + 1
    BY <1>1, <1>3, CensusSplit
  <2>3. Cardinality(At(pc, Holding) \ {c}) \in Nat
    BY <1>1, CensusSplit
  <2>4. At(pc, Reserving) \ {c} = At(pc, Reserving) /\ At(pc, {"woken"}) \ {c} = At(pc, {"woken"})
    BY <1>3 DEF At
  <2>5. Cardinality(At(pc, {"woken"})) \in Nat
    BY <1>1, CensusSplit
  <2> QED BY <1>2, <2>2, <2>3, <2>4, <2>5
<1>5. inflight - 1 \in 0..MaxConcurrent /\ inflight - 1 = Cardinality(At(pc, Holding) \ {c})
  BY <1>1, <1>4
<1>6. CASE waiters = <<>>
  <2>1. Shifted = <<>> /\ Notified = pc
    BY <1>6 DEF Shifted, Notified
  <2>2. Ready(c, inflight - 1, waiters, pc)
    BY <1>1, <1>3, <1>5 DEF Ready, IInv, QueueAccounting
  <2> QED BY <1>2, <1>4, <1>6, <2>1, <2>2
<1>7. CASE waiters # <<>>
  <2> DEFINE h == Head(waiters)
  <2>1. /\ Shifted = Tail(waiters) /\ Notified = [pc EXCEPT ![h] = "woken"]
    BY <1>7 DEF Shifted, Notified
  <2>2. /\ Len(waiters) \in Nat \ {0} /\ DOMAIN waiters = 1..Len(waiters)
        /\ h = waiters[1] /\ h \in Callers
        /\ Shifted \in Seq(Callers)
        /\ DOMAIN Shifted = 1..(Len(waiters) - 1)
        /\ \A i \in DOMAIN Shifted : Shifted[i] = waiters[i + 1]
    BY <1>1, <1>7, <2>1, HeadTailProperties, LenProperties, EmptySeq
  <2>3. /\ \A d \in Callers : pc[d] = "waiting" <=> \E i \in DOMAIN waiters : waiters[i] = d
        /\ \A i, j \in DOMAIN waiters : waiters[i] = waiters[j] => i = j
    BY DEF IInv, QueueAccounting
  <2> HIDE DEF h
  <2>4. pc[h] = "waiting" /\ h # c
    BY <1>3, <2>2, <2>3
  <2>5. /\ Notified \in [Callers -> States] /\ Notified[h] = "woken"
        /\ \A d \in Callers \ {h} : Notified[d] = pc[d]
    BY <1>1, <2>1, <2>2 DEF States
  <2>6. /\ At(Notified, Holding) = At(pc, Holding)
        /\ At(Notified, Reserving) = At(pc, Reserving)
    BY <2>2, <2>4, <2>5 DEF At, Holding, Reserving
  <2>7. Cardinality(At(Notified, {"woken"}) \ {c}) = Cardinality(At(pc, {"woken"})) + 1
    <3>1. At(Notified, {"woken"}) \ {c} = At(pc, {"woken"}) \cup {h}
      BY <1>3, <2>2, <2>4, <2>5 DEF At
    <3>2. h \notin At(pc, {"woken"})
      BY <2>4 DEF At
    <3>3. IsFiniteSet(At(pc, {"woken"}))
      BY LimitsAssumption, FS_Subset DEF At
    <3> QED BY <3>1, <3>2, <3>3, FS_AddElement
  <2>8. \A d \in Callers : Notified[d] = "waiting" <=> \E i \in DOMAIN Shifted : Shifted[i] = d
    <3>1. \A d \in Callers : Notified[d] = "waiting" <=> d # h /\ pc[d] = "waiting"
      BY <2>4, <2>5
    <3>2. \A i \in DOMAIN Shifted : i + 1 \in DOMAIN waiters /\ i + 1 # 1
      BY <2>2
    <3>3. \A i \in DOMAIN Shifted : Shifted[i] # h /\ (\E k \in DOMAIN waiters : waiters[k] = Shifted[i])
      BY <2>2, <2>3, <3>2
    <3>4. \A k \in DOMAIN waiters : k # 1 => k - 1 \in DOMAIN Shifted /\ (k - 1) + 1 = k
      BY <2>2
    <3>5. \A k \in DOMAIN waiters : waiters[k] # h => \E i \in DOMAIN Shifted : Shifted[i] = waiters[k]
      BY <2>2, <3>4
    <3> QED BY <2>3, <3>1, <3>3, <3>5
  <2>9. \A i, j \in DOMAIN Shifted : Shifted[i] = Shifted[j] => i = j
    <3>1. \A i, j \in DOMAIN Shifted : i + 1 \in DOMAIN waiters /\ (i + 1 = j + 1 => i = j)
      BY <2>2
    <3> QED BY <2>2, <2>3, <3>1
  <2>10. Notified[c] # "waiting"
    BY <1>3, <2>4, <2>5
  <2>11. Ready(c, inflight - 1, Shifted, Notified)
    BY <1>5, <2>2, <2>5, <2>6, <2>8, <2>9, <2>10 DEF Ready
  <2>12. inflight - 1 + Cardinality(At(Notified, {"woken"}) \ {c}) >= MaxConcurrent
    BY <1>1, <1>2, <1>4, <1>7, <2>7
  <2> QED BY <1>2, <1>4, <2>6, <2>11, <2>12
<1> QED BY <1>6, <1>7

-----------------------------------------------------------------------------
\* What the invariant says of a caller outside the client or just woken.
LEMMA Outside ==
  ASSUME IInv, NEW c \in Callers, pc[c] \in {"idle", "woken"}
  PROVE  /\ BucketOK
         /\ Ready(c, inflight, waiters, pc)
         /\ pc[c] = "idle" => sent + Cardinality(At(pc, Reserving) \ {c}) = total
         /\ pc[c] = "woken" => sent + Cardinality(At(pc, Reserving) \ {c}) + 1 = total
         /\ waiters # <<>> /\ pc[c] = "idle" =>
              inflight + Cardinality(At(pc, {"woken"}) \ {c}) >= MaxConcurrent
         /\ waiters # <<>> =>
              inflight + Cardinality(At(pc, {"woken"}) \ {c}) + 1 >= MaxConcurrent
<1>1. /\ pc \in [Callers -> States] /\ waiters \in Seq(Callers)
      /\ inflight \in 0..MaxConcurrent /\ MaxConcurrent \in Nat
      /\ sent \in Nat
  BY LimitsAssumption DEF IInv, TypeOK
<1>2. /\ inflight = Cardinality(At(pc, Holding))
      /\ sent + Cardinality(At(pc, Reserving)) = total
      /\ waiters # <<>> => inflight + Cardinality(At(pc, {"woken"})) >= MaxConcurrent
  BY DEF IInv, SlotAccounting, BudgetAccounting, NoLostWakeup, Holders, Reserved, Woken, At
<1>4. pc[c] \notin Holding /\ pc[c] # "waiting"
  BY DEF Holding
<1>5. At(pc, Holding) \ {c} = At(pc, Holding)
  BY <1>4 DEF At
<1>6. /\ Cardinality(At(pc, Reserving) \ {c}) \in Nat
      /\ pc[c] \in Reserving => Cardinality(At(pc, Reserving)) = Cardinality(At(pc, Reserving) \ {c}) + 1
      /\ pc[c] \notin Reserving => Cardinality(At(pc, Reserving)) = Cardinality(At(pc, Reserving) \ {c})
  BY <1>1, CensusSplit
<1>7. /\ Cardinality(At(pc, {"woken"}) \ {c}) \in Nat
      /\ pc[c] \in {"woken"} => Cardinality(At(pc, {"woken"})) = Cardinality(At(pc, {"woken"}) \ {c}) + 1
      /\ pc[c] \notin {"woken"} => Cardinality(At(pc, {"woken"})) = Cardinality(At(pc, {"woken"}) \ {c})
  BY <1>1, CensusSplit
<1>8. BucketOK
  BY DEF IInv, TypeOK, BucketOK
<1>9. Ready(c, inflight, waiters, pc)
  BY <1>1, <1>2, <1>4, <1>5 DEF Ready, IInv, QueueAccounting
<1>10. pc[c] = "idle" => sent + Cardinality(At(pc, Reserving) \ {c}) = total
  BY <1>2, <1>6 DEF Reserving
<1>11. pc[c] = "woken" => sent + Cardinality(At(pc, Reserving) \ {c}) + 1 = total
  BY <1>1, <1>2, <1>6 DEF Reserving
<1> QED BY <1>1, <1>2, <1>7, <1>8, <1>9, <1>10, <1>11

-----------------------------------------------------------------------------
\* The inductive step, action by action.
LEMMA NextStep == IInv /\ [Next]_vars => IInv'
<1> SUFFICES ASSUME IInv, [Next]_vars PROVE IInv'
  OBVIOUS
<1>1. TypeOK /\ BucketOK /\ total \in 0..Budget /\ attempt \in [Callers -> 0..MaxRetries]
  BY DEF IInv, TypeOK, BucketOK
<1>2. 0 \in 0..MaxRetries
  BY LimitsAssumption
<1>3. ASSUME NEW c \in Callers, Call(c) PROVE IInv'
  <2>1. attempt' \in [Callers -> 0..MaxRetries]
    BY <1>1, <1>2, <1>3 DEF Call
  <2>2. pc[c] = "idle" /\ Acquire(c, inflight, waiters, pc)
    BY <1>3 DEF Call
  <2>3. /\ Ready(c, inflight, waiters, pc)
        /\ sent + Cardinality(At(pc, Reserving) \ {c}) = total
        /\ waiters # <<>> => inflight + Cardinality(At(pc, {"woken"}) \ {c}) >= MaxConcurrent
    BY <2>2, Outside
  <2> QED BY <1>1, <2>1, <2>2, <2>3, AcquireStep
<1>4. ASSUME NEW c \in Callers, Resume(c) PROVE IInv'
  <2>1. attempt' \in [Callers -> 0..MaxRetries] /\ total' = total /\ total' \in 0..Budget
    BY <1>1, <1>4 DEF Resume
  <2>2. pc[c] = "woken" /\ TakeSlot(c, inflight, waiters, pc)
    BY <1>4 DEF Resume
  <2>3. /\ Ready(c, inflight, waiters, pc)
        /\ sent + Cardinality(At(pc, Reserving) \ {c}) + 1 = total
        /\ waiters # <<>> => inflight + Cardinality(At(pc, {"woken"}) \ {c}) + 1 >= MaxConcurrent
    BY <2>2, Outside
  <2> QED BY <1>1, <2>1, <2>2, <2>3, TakeSlotStep
<1>5. ASSUME NEW c \in Callers, Retry(c) PROVE IInv'
  <2>1. attempt' \in [Callers -> 0..MaxRetries]
    BY <1>1, <1>5 DEF Retry
  <2>2. pc[c] \in {"sending", "backoff"} /\ Acquire(c, inflight - 1, Shifted, Notified)
    BY <1>5 DEF Retry
  <2>3. /\ Ready(c, inflight - 1, Shifted, Notified)
        /\ sent + Cardinality(At(Notified, Reserving) \ {c}) = total
        /\ Shifted # <<>> =>
             inflight - 1 + Cardinality(At(Notified, {"woken"}) \ {c}) >= MaxConcurrent
    BY <2>2, ReleaseStep
  <2> QED BY <1>1, <2>1, <2>2, <2>3, AcquireStep
<1>6. ASSUME NEW c \in Callers, Finish(c) PROVE IInv'
  <2>1. attempt' \in [Callers -> 0..MaxRetries]
    BY <1>1, <1>6 DEF Finish
  <2>2. /\ pc[c] \in {"sending", "backoff"}
        /\ inflight' = inflight - 1
        /\ waiters' = Shifted
        /\ pc' = [Notified EXCEPT ![c] = "idle"]
        /\ UNCHANGED <<total, bucket>>
    BY <1>6 DEF Finish
  <2>3. /\ Ready(c, inflight - 1, Shifted, Notified)
        /\ sent + Cardinality(At(Notified, Reserving) \ {c}) = total
        /\ Shifted # <<>> =>
             inflight - 1 + Cardinality(At(Notified, {"woken"}) \ {c}) >= MaxConcurrent
    BY <2>2, ReleaseStep
  <2> QED BY <1>1, <2>1, <2>2, <2>3, LeaveStep
<1>7. /\ pc \in [Callers -> States] /\ inflight = Cardinality(At(pc, Holding))
      /\ sent + Cardinality(At(pc, Reserving)) = total
      /\ waiters # <<>> => inflight + Cardinality(At(pc, {"woken"})) >= MaxConcurrent
      /\ sent \in 0..Budget /\ Budget \in Nat
  BY LimitsAssumption
     DEF IInv, TypeOK, SlotAccounting, BudgetAccounting, NoLostWakeup, Holders, Reserved, Woken, At
<1>8. PICK q : q = pc'
  OBVIOUS
<1>9. /\ Holders' = At(q, Holding)
      /\ Reserved' = At(q, Reserving)
      /\ Woken' = At(q, {"woken"})
  BY <1>8 DEF Holders, Reserved, Woken, At
<1>10. ASSUME NEW c \in Callers, Backoff(c) PROVE IInv'
  <2>1. /\ pc[c] = "sending" /\ pc' = [pc EXCEPT ![c] = "backoff"]
        /\ attempt[c] < MaxRetries /\ attempt' = [attempt EXCEPT ![c] = @ + 1]
        /\ UNCHANGED <<total, inflight, waiters, bucket>>
    BY <1>10 DEF Backoff
  <2>2. /\ At(q, Holding) = At(pc, Holding)
        /\ At(q, Reserving) = At(pc, Reserving)
        /\ At(q, {"woken"}) = At(pc, {"woken"})
    BY <1>7, <1>8, <2>1 DEF At, Holding, Reserving
  <2>3. attempt' \in [Callers -> 0..MaxRetries]
    BY <1>1, <2>1, LimitsAssumption
  <2>4. TypeOK'
    BY <1>1, <1>7, <2>1, <2>3 DEF TypeOK, bucket, States, Full
  <2>5. SlotAccounting' /\ BudgetAccounting' /\ NoLostWakeup'
    BY <1>1, <1>7, <1>9, <2>1, <2>2 DEF SlotAccounting, BudgetAccounting, NoLostWakeup, bucket
  <2>6. QueueAccounting'
    BY <1>7, <2>1 DEF IInv, QueueAccounting
  <2> QED BY <2>4, <2>5, <2>6 DEF IInv
<1>11. ASSUME NEW c \in Callers, Retoken(c) PROVE IInv'
  <2>1. /\ pc[c] = "throttled" /\ DrawToken(c, pc)
        /\ UNCHANGED <<total, inflight, waiters, attempt>>
    BY <1>11 DEF Retoken
  <2>2. /\ pc[c] \in Holding /\ pc[c] \in Reserving /\ pc[c] \notin {"woken"}
    BY <2>1 DEF Holding, Reserving
  <2>3. /\ Cardinality(At(pc, Reserving)) = Cardinality(At(pc, Reserving) \ {c}) + 1
        /\ Cardinality(At(pc, Reserving) \ {c}) \in Nat
    BY <1>7, <2>2, CensusSplit
  <2>4. sent + 1 <= Budget
    BY <1>1, <1>7, <2>3
  <2>5. PICK s \in {"sending", "throttled"} :
          /\ pc' = [pc EXCEPT ![c] = s]
          /\ sent' = sent + IF s = "sending" THEN 1 ELSE 0
    BY <1>1, <1>7, <2>1, <2>4, DrawTokenStep
  <2>6. BucketOK'
    BY <1>1, <1>7, <2>1, <2>4, DrawTokenStep
  <2>7. q \in [Callers -> States]
    BY <1>7, <1>8, <2>5 DEF States
  <2>8. At(q, Holding) = At(pc, Holding) /\ At(q, {"woken"}) = At(pc, {"woken"})
    BY <1>7, <1>8, <2>1, <2>5 DEF At, Holding
  <2>9. sent' + Cardinality(At(q, Reserving)) = total
    <3>1. /\ q \in [Callers -> States] /\ pc \in [Callers -> States]
          /\ \A d \in Callers \ {c} : q[d] = pc[d]
      BY <1>7, <1>8, <2>5, <2>7
    <3>2. q[c] = s
      BY <1>7, <1>8, <2>5
    <3>3. /\ q[c] \in Reserving => Cardinality(At(q, Reserving)) = Cardinality(At(pc, Reserving) \ {c}) + 1
          /\ q[c] \notin Reserving => Cardinality(At(q, Reserving)) = Cardinality(At(pc, Reserving) \ {c})
      BY <3>1, Census
    <3>4. CASE s = "sending"
      <4>1. q[c] \notin Reserving
        BY <3>2, <3>4 DEF Reserving
      <4> QED BY <1>7, <2>3, <2>5, <3>3, <3>4, <4>1
    <3>5. CASE s = "throttled"
      <4>1. q[c] \in Reserving
        BY <3>2, <3>5 DEF Reserving
      <4> QED BY <1>7, <2>3, <2>5, <3>3, <3>5, <4>1
    <3> QED BY <3>4, <3>5
  <2>10. TypeOK'
    BY <1>1, <1>8, <2>1, <2>6, <2>7 DEF TypeOK, BucketOK
  <2>11. SlotAccounting' /\ BudgetAccounting' /\ NoLostWakeup'
    BY <1>1, <1>7, <1>9, <2>1, <2>8, <2>9 DEF SlotAccounting, BudgetAccounting, NoLostWakeup
  <2>12. QueueAccounting'
    BY <1>7, <2>1, <2>5 DEF IInv, QueueAccounting
  <2> QED BY <2>10, <2>11, <2>12 DEF IInv
<1>12. CASE Tick
  <2>1. UNCHANGED <<total, inflight, waiters, tokens, sent, pc, attempt>>
    BY <1>12 DEF Tick
  <2>2. sinceRefill' \in 0..TicksPerSecond /\ timer' \in [Callers -> 0..TicksPerSecond]
    BY <1>1, <1>12, LimitsAssumption DEF Tick, TypeOK
  <2>3. TypeOK'
    BY <1>1, <2>1, <2>2 DEF TypeOK, Full
  <2> QED BY <2>1, <2>3 DEF IInv, SlotAccounting, BudgetAccounting, QueueAccounting, NoLostWakeup,
                            Holders, Reserved, Woken
<1>13. CASE UNCHANGED vars
  BY <1>13 DEF IInv, TypeOK, SlotAccounting, BudgetAccounting, QueueAccounting, NoLostWakeup,
               Holders, Reserved, Woken, vars, bucket, Full
<1> QED BY <1>3, <1>4, <1>5, <1>6, <1>10, <1>11, <1>12, <1>13 DEF Next, Step

LEMMA InitStep == Init => IInv
<1> SUFFICES ASSUME Init PROVE IInv
  OBVIOUS
<1>1. /\ pc = [c \in Callers |-> "idle"] /\ inflight = 0 /\ total = 0 /\ sent = 0
      /\ waiters = <<>>
  BY DEF Init
<1>2. Holders = {} /\ Reserved = {}
  BY <1>1 DEF Holders, Reserved, Holding, Reserving
<1>3. SlotAccounting /\ BudgetAccounting
  BY <1>1, <1>2, FS_EmptySet, LimitsAssumption DEF SlotAccounting, BudgetAccounting
<1>4. QueueAccounting /\ NoLostWakeup
  <2>1. DOMAIN waiters = {}
    BY <1>1
  <2> QED BY <1>1, <2>1 DEF QueueAccounting, NoLostWakeup
<1>5. TypeOK
  BY <1>1, LimitsAssumption DEF Init, TypeOK, States, Full
<1> QED BY <1>3, <1>4, <1>5 DEF IInv

\* For every number of callers and every limit: slots, budget and queue
\* stay consistent through any interleaving of calls, retries and wakeups.
THEOREM RpcSafety == Spec => []IInv
<1>1. Init => IInv
  BY InitStep
<1>2. IInv /\ [Next]_vars => IInv'
  BY NextStep
<1> QED BY <1>1, <1>2, PTL DEF Spec

\* The variables keep their types.
THEOREM TypeCorrect == Spec => []TypeOK
<1>1. IInv => TypeOK
  BY DEF IInv
<1> QED BY <1>1, RpcSafety, PTL

\* No slot leaks and none is released twice, so at most MaxConcurrent
\* requests are ever in flight.
THEOREM SlotsAccounted == Spec => []SlotAccounting
<1>1. IInv => SlotAccounting
  BY DEF IInv
<1> QED BY <1>1, RpcSafety, PTL

\* F4 for every budget: requests sent and units reserved never exceed it.
THEOREM BudgetHeld == Spec => []BudgetAccounting
<1>1. IInv => BudgetAccounting
  BY DEF IInv
<1> QED BY <1>1, RpcSafety, PTL

\* The queue is the suspended callers, each once, so release() can wake them.
THEOREM QueueExact == Spec => []QueueAccounting
<1>1. IInv => QueueAccounting
  BY DEF IInv
<1> QED BY <1>1, RpcSafety, PTL

\* Slots, budget and queue agree with the callers at once.
THEOREM AccountingHolds == Spec => []Accounting
<1>1. SlotAccounting /\ BudgetAccounting /\ QueueAccounting => Accounting  BY DEF Accounting
<1> QED  BY <1>1, SlotsAccounted, BudgetHeld, QueueExact, PTL

\* No release() leaves a free slot with everybody asleep in the queue.
THEOREM WakeupsNotLost == Spec => []NoLostWakeup
<1>1. IInv => NoLostWakeup
  BY DEF IInv
<1> QED BY <1>1, RpcSafety, PTL

-----------------------------------------------------------------------------
\* What the bucket still owes the window: the requests counted plus the
\* tokens on hand never exceed the burst and the refill of the ticks elapsed.
RateIInv ==
  /\ windowTicks \in Nat
  /\ windowSent \in Nat
  /\ TicksPerSecond * windowSent + Refilled <= Full + Rate * windowTicks

\* A turn of the token loop takes from the bucket exactly what it sends.
LEMMA DrawBalance ==
  ASSUME BucketOK, NEW c, NEW p, DrawToken(c, p)
  PROVE  \/ sent' = sent /\ Refilled' = Refilled
         \/ sent' = sent + 1 /\ Refilled' = Refilled - TicksPerSecond
<1>1. Full \in Nat /\ Refilled \in 0..Full
  BY RefillBounds
<1>2. TicksPerSecond \in Nat \ {0} /\ Rate \in Nat
  BY LimitsAssumption
<1>3. sinceRefill' = 0 /\ sinceRefill' * Rate = 0
  BY <1>2 DEF DrawToken
<1>4. Refilled' = IF tokens' >= Full THEN Full ELSE tokens'
  <2>1. CASE tokens' \in 0..Full
    BY <1>1, <1>3, <2>1 DEF Refilled, Full
  <2>2. tokens' \in 0..Full
    BY <1>1, <1>2 DEF DrawToken
  <2> QED BY <2>1, <2>2
<1>5. CASE Refilled >= TicksPerSecond
  <2>1. tokens' = Refilled - TicksPerSecond /\ sent' = sent + 1
    BY <1>1, <1>2, <1>5 DEF DrawToken
  <2>2. tokens' < Full
    BY <1>1, <1>2, <2>1
  <2> QED BY <1>1, <1>2, <1>4, <2>1, <2>2
<1>6. CASE Refilled < TicksPerSecond
  <2>1. tokens' = Refilled /\ sent' = sent
    BY <1>1, <1>2, <1>6 DEF DrawToken
  <2> QED BY <1>1, <1>4, <2>1
<1> QED BY <1>1, <1>2, <1>5, <1>6

LEMMA CallerBalance ==
  ASSUME BucketOK, NEW c \in Callers, Call(c) \/ Step(c)
  PROVE  \/ sent' = sent /\ Refilled' = Refilled
         \/ sent' = sent + 1 /\ Refilled' = Refilled - TicksPerSecond
<1>1. \/ UNCHANGED bucket
      \/ \E p : DrawToken(c, p)
  BY DEF Step, Call, Resume, Retoken, Finish, Backoff, Retry, Acquire, TakeSlot
<1>2. CASE UNCHANGED bucket
  BY <1>2 DEF bucket, Refilled, Full
<1>3. CASE \E p : DrawToken(c, p)
  BY <1>3, DrawBalance
<1> QED BY <1>1, <1>2, <1>3

\* A tick refills at most Rate units.
LEMMA TickBalance ==
  ASSUME BucketOK, Tick
  PROVE  Refilled' \in 0..Full /\ Refilled' <= Refilled + Rate /\ sent' = sent
<1>1. Full \in Nat /\ Refilled \in 0..Full /\ Rate \in Nat /\ tokens \in 0..Full /\ sinceRefill \in Nat
  BY RefillBounds, LimitsAssumption DEF BucketOK
<1>2. tokens' = tokens /\ sinceRefill' \in {sinceRefill, sinceRefill + 1} /\ sent' = sent
  BY DEF Tick
<1>3. (sinceRefill + 1) * Rate = sinceRefill * Rate + Rate /\ sinceRefill * Rate \in Nat
  BY <1>1
<1>4. Refilled' = IF tokens + sinceRefill' * Rate >= Full THEN Full ELSE tokens + sinceRefill' * Rate
  BY <1>2 DEF Refilled, Full
<1>5. sinceRefill' * Rate \in Nat /\ sinceRefill' * Rate <= sinceRefill * Rate + Rate
  <2>1. CASE sinceRefill' = sinceRefill
    BY <1>1, <1>3, <2>1
  <2>2. CASE sinceRefill' = sinceRefill + 1
    BY <1>1, <1>3, <2>2
  <2> QED BY <1>2, <2>1, <2>2
<1>6. \A a, b \in Nat : b <= a + Rate =>
        (IF tokens + b >= Full THEN Full ELSE tokens + b)
          <= (IF tokens + a >= Full THEN Full ELSE tokens + a) + Rate
  BY <1>1
<1>7. Refilled = IF tokens + sinceRefill * Rate >= Full THEN Full ELSE tokens + sinceRefill * Rate
  BY DEF Refilled
<1>8. Refilled' <= Refilled + Rate
  BY <1>3, <1>4, <1>5, <1>6, <1>7
<1>9. Refilled' \in 0..Full
  BY <1>1, <1>4, <1>5
<1> QED BY <1>2, <1>8, <1>9

\* In every window of t ticks, for every limit and every interleaving, the
\* client sends at most the burst plus t ticks' refill.
THEOREM RateBounded == RateSpec => []RateBound
<1>1. RateInit => IInv /\ RateIInv
  <2> SUFFICES ASSUME RateInit PROVE IInv /\ RateIInv
    OBVIOUS
  <2>1. IInv
    BY InitStep DEF RateInit
  <2>2. /\ windowTicks = 0 /\ windowSent = 0 /\ BucketOK
    BY <2>1 DEF RateInit, IInv, TypeOK, BucketOK
  <2>3. Refilled \in 0..Full /\ Full \in Nat /\ TicksPerSecond * 0 = 0 /\ Rate * 0 = 0
    BY <2>2, RefillBounds, LimitsAssumption
  <2> QED BY <2>1, <2>2, <2>3 DEF RateIInv
<1>2. IInv /\ [RateNext]_<<vars, window>> => IInv'
  <2>1. [RateNext]_<<vars, window>> => [Next]_vars
    BY DEF RateNext, Open, WatchTick, WatchLastTick, WatchCaller, Next
  <2> QED BY <2>1, NextStep
<1>3. IInv /\ RateIInv /\ [RateNext]_<<vars, window>> => RateIInv'
  <2> SUFFICES ASSUME IInv, RateIInv, [RateNext]_<<vars, window>> PROVE RateIInv'
    OBVIOUS
  <2>1. BucketOK
    BY DEF IInv, TypeOK, BucketOK
  <2>2. /\ Full \in Nat /\ Refilled \in 0..Full /\ sent \in Nat
        /\ TicksPerSecond \in Nat /\ Rate \in Nat
        /\ windowTicks \in Nat /\ windowSent \in Nat
        /\ TicksPerSecond * windowSent + Refilled <= Full + Rate * windowTicks
    BY <2>1, RefillBounds, LimitsAssumption DEF RateIInv, BucketOK
  <2>3. Full' = Full
    BY DEF Full
  <2>4. /\ TicksPerSecond * windowSent \in Nat /\ Rate * windowTicks \in Nat
        /\ TicksPerSecond * (windowSent + 1) = TicksPerSecond * windowSent + TicksPerSecond
        /\ Rate * (windowTicks + 1) = Rate * windowTicks + Rate
        /\ TicksPerSecond * 0 = 0 /\ Rate * 0 = 0
    BY <2>2
  <2>5. CASE Open
    <3>1. Refilled' = Refilled /\ windowTicks' = 0 /\ windowSent' = 0
      BY <2>5 DEF Open, vars, bucket, Refilled, Full
    <3> QED BY <2>2, <2>3, <2>4, <3>1 DEF RateIInv
  <2>6. CASE WatchTick
    <3>1. /\ Refilled' \in 0..Full /\ Refilled' <= Refilled + Rate
          /\ windowTicks' = windowTicks + 1 /\ windowSent' = windowSent
      BY <2>1, <2>6, TickBalance DEF WatchTick
    <3>2. /\ TicksPerSecond * windowSent' = TicksPerSecond * windowSent
          /\ Rate * windowTicks' = Rate * windowTicks + Rate
      BY <2>4, <3>1
    <3>4. /\ Refilled' \in Int /\ Refilled \in Int /\ Full \in Int /\ Rate \in Int
          /\ Refilled' <= Refilled + Rate
          /\ TicksPerSecond * windowSent \in Int /\ Rate * windowTicks \in Int
          /\ TicksPerSecond * windowSent + Refilled <= Full + Rate * windowTicks
      BY <2>2, <2>4, <3>1
    <3>3. TicksPerSecond * windowSent' + Refilled' <= Full' + Rate * windowTicks'
      BY <2>3, <3>2, <3>4
    <3>5. windowTicks' \in Nat /\ windowSent' \in Nat
      BY <2>2, <3>1
    <3> QED BY <3>3, <3>5 DEF RateIInv
  <2>7. CASE WatchLastTick
    <3>1. Refilled' \in 0..Full /\ windowTicks' = 0 /\ windowSent' = 0
      BY <2>1, <2>7, TickBalance DEF WatchLastTick
    <3>2. TicksPerSecond * windowSent' = 0 /\ Rate * windowTicks' = 0
      BY <2>4, <3>1
    <3>4. Refilled' \in Int /\ Refilled' <= Full' /\ Full' \in Int
      BY <2>2, <2>3, <3>1
    <3>3. TicksPerSecond * windowSent' + Refilled' <= Full' + Rate * windowTicks'
      BY <3>2, <3>4
    <3> QED BY <3>1, <3>3 DEF RateIInv
  <2>8. ASSUME NEW c \in Callers, WatchCaller(c) PROVE RateIInv'
    <3>1. windowSent' = windowSent + (sent' - sent)
      BY <2>8 DEF WatchCaller
    <3>5. windowTicks' = windowTicks
      BY <2>8 DEF WatchCaller
    <3>2. \/ sent' = sent /\ Refilled' = Refilled
          \/ sent' = sent + 1 /\ Refilled' = Refilled - TicksPerSecond
      BY <2>1, <2>8, CallerBalance DEF WatchCaller
    <3>3. CASE sent' = sent /\ Refilled' = Refilled
      <4>1. windowSent' = windowSent
        BY <2>2, <3>1, <3>3
      <4> QED BY <2>2, <2>3, <3>5, <3>3, <4>1 DEF RateIInv
    <3>4. CASE sent' = sent + 1 /\ Refilled' = Refilled - TicksPerSecond
      <4>1. windowSent' = windowSent + 1
        BY <2>2, <3>1, <3>4
      <4>2. TicksPerSecond * windowSent' = TicksPerSecond * windowSent + TicksPerSecond
        BY <2>4, <4>1
      <4>3. TicksPerSecond * windowSent' + Refilled' = TicksPerSecond * windowSent + Refilled
        BY <2>2, <2>4, <3>4, <4>2
      <4> QED BY <2>2, <2>3, <3>5, <4>1, <4>3 DEF RateIInv
    <3> QED BY <3>2, <3>3, <3>4
  <2>9. CASE UNCHANGED <<vars, window>>
    <3>1. Refilled' = Refilled /\ windowTicks' = windowTicks /\ windowSent' = windowSent
      BY <2>9 DEF vars, bucket, window, Refilled, Full
    <3> QED BY <2>2, <2>3, <3>1 DEF RateIInv
  <2> QED BY <2>5, <2>6, <2>7, <2>8, <2>9 DEF RateNext
<1>4. IInv /\ RateIInv => RateBound
  <2> SUFFICES ASSUME IInv, RateIInv PROVE RateBound
    OBVIOUS
  <2>1. BucketOK
    BY DEF IInv, TypeOK, BucketOK
  <2>2. Refilled \in Nat /\ TicksPerSecond * windowSent \in Nat /\ Full + Rate * windowTicks \in Nat
    BY <2>1, RefillBounds, LimitsAssumption DEF RateIInv
  <2> QED BY <2>2 DEF RateIInv, RateBound
<1> QED BY <1>1, <1>2, <1>3, <1>4, PTL DEF RateSpec
=============================================================================
