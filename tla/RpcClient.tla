----------------------------- MODULE RpcClient -----------------------------
(***************************************************************************)
(* The JSON-RPC client of src/state/rpc.ts: a hard budget of HTTP requests *)
(* (usage.total), a bound on the requests in flight with a queue of        *)
(* promise resolvers (waiters), a token bucket, and bounded retries.       *)
(*                                                                         *)
(* JavaScript runs one synchronous stretch of code at a time, so an action *)
(* is what runs between two awaits.  Tokens are counted in units of one    *)
(* TicksPerSecond-th of a request, which makes the refill of a tick the    *)
(* integer Rate.  Usage counters that only feed the report (errors,        *)
(* retries, latencies) are left out.                                       *)
(***************************************************************************)
EXTENDS Integers, Sequences, FiniteSets

CONSTANTS
  Callers,         \* the asynchronous call chains that share the client
  MaxConcurrent,   \* limits.maxConcurrentRequests
  Budget,          \* limits.maxTotalHttpRequests
  MaxRetries,      \* retries of one call: 4 in the code
  Rate,            \* limits.maxRequestsPerSecond, also the bucket's burst
  TicksPerSecond   \* clock resolution

ASSUME LimitsAssumption ==
  /\ IsFiniteSet(Callers)
  /\ MaxConcurrent \in Nat \ {0}
  /\ Budget \in Nat
  /\ MaxRetries \in Nat
  /\ Rate \in Nat \ {0}
  /\ TicksPerSecond \in Nat \ {0}

VARIABLES
  total,        \* usage.total: budget units reserved so far
  inflight,     \* concurrency slots taken
  waiters,      \* resolvers of the callers queued for a slot
  tokens,       \* token units in the bucket at the last refill
  sinceRefill,  \* ticks since the last refill, up to a full bucket's worth
  pc,           \* where each caller's chain is suspended
  attempt,      \* retries already made by the caller's current call
  timer,        \* ticks left of a throttled caller's sleep
  sent          \* HTTP requests issued so far (history)

bucket == <<tokens, sinceRefill, timer, sent>>
vars == <<total, inflight, waiters, bucket, pc, attempt>>

States == {"idle", "waiting", "woken", "throttled", "sending", "backoff"}

\* A caller between inflight++ and release(): the slot is also kept through
\* the retry's backoff sleep, which runs inside the try.
Holding == {"throttled", "sending", "backoff"}
Holders == {c \in Callers : pc[c] \in Holding}

\* A caller whose budget unit is reserved and whose request is not yet out.
Reserving == {"waiting", "woken", "throttled"}
Reserved == {c \in Callers : pc[c] \in Reserving}

\* A caller whose waiter promise is resolved and that has not run yet.
Woken == {c \in Callers : pc[c] \in {"woken"}}

Full == Rate * TicksPerSecond
\* A faulty variant: the refill forgets the Math.min with the burst.
RefilledWithoutCap == tokens + sinceRefill * Rate
Refilled == IF tokens + sinceRefill * Rate >= Full THEN Full
            ELSE tokens + sinceRefill * Rate

Init ==
  /\ total = 0
  /\ inflight = 0
  /\ waiters = <<>>
  /\ tokens = Full
  /\ sinceRefill = 0
  /\ pc = [c \in Callers |-> "idle"]
  /\ attempt = [c \in Callers |-> 0]
  /\ timer = [c \in Callers |-> 0]
  /\ sent = 0

-----------------------------------------------------------------------------
(* acquire(): budget, then a slot, then a token.  The operators take the   *)
(* slots in use, the queue and the program counters they start from, since *)
(* a retry runs release() and acquire() in one synchronous stretch.        *)

\* One turn of the token loop: refill, take a token or sleep for the rest.
DrawToken(c, pcs) ==
  /\ sinceRefill' = 0
  /\ \/ /\ Refilled >= TicksPerSecond
        /\ tokens' = Refilled - TicksPerSecond
        /\ pc' = [pcs EXCEPT ![c] = "sending"]
        /\ sent' = sent + 1
        /\ UNCHANGED timer
     \/ /\ Refilled < TicksPerSecond
        /\ tokens' = Refilled
        /\ timer' = [timer EXCEPT ![c] = (TicksPerSecond - Refilled + Rate - 1) \div Rate]
        /\ pc' = [pcs EXCEPT ![c] = "throttled"]
        /\ UNCHANGED sent

\* The concurrency wait: queue behind the slots, or take one and go on.
TakeSlot(c, used, queue, pcs) ==
  \/ /\ used >= MaxConcurrent
     /\ inflight' = used
     /\ waiters' = Append(queue, c)
     /\ pc' = [pcs EXCEPT ![c] = "waiting"]
     /\ UNCHANGED bucket
  \/ /\ used < MaxConcurrent
     /\ inflight' = used + 1
     /\ waiters' = queue
     /\ DrawToken(c, pcs)

\* A faulty variant: the budget is no longer tested.
AcquireWithoutBudget(c, used, queue, pcs) ==
  /\ total' = total + 1
  /\ TakeSlot(c, used, queue, pcs)

Acquire(c, used, queue, pcs) ==
  \/ /\ total >= Budget      \* RpcBudgetExhausted, thrown before any slot
     /\ inflight' = used
     /\ waiters' = queue
     /\ pc' = [pcs EXCEPT ![c] = "idle"]
     /\ UNCHANGED <<total, bucket>>
  \/ /\ total < Budget
     /\ total' = total + 1
     /\ TakeSlot(c, used, queue, pcs)

\* A faulty variant: the waiter is removed but its promise is never resolved.
NotifiedNobody == pc

\* release() resolves the promise of the first waiter, which runs later.
Shifted == IF waiters = <<>> THEN <<>> ELSE Tail(waiters)
Notified == IF waiters = <<>> THEN pc ELSE [pc EXCEPT ![Head(waiters)] = "woken"]

-----------------------------------------------------------------------------
\* call() is entered.
Call(c) ==
  /\ pc[c] = "idle"
  /\ attempt' = [attempt EXCEPT ![c] = 0]
  /\ Acquire(c, inflight, waiters, pc)

\* A resolved waiter runs and re-tests the loop condition: another caller
\* may have taken the slot meanwhile, and it then queues at the tail.
Resume(c) ==
  /\ pc[c] = "woken"
  /\ TakeSlot(c, inflight, waiters, pc)
  /\ UNCHANGED <<total, attempt>>

\* The throttled caller's sleep ends.
Retoken(c) ==
  /\ pc[c] = "throttled"
  /\ timer[c] = 0
  /\ DrawToken(c, pc)
  /\ UNCHANGED <<total, inflight, waiters, attempt>>

\* A faulty variant: the slot is given back and no waiter is woken.
FinishSilently(c) ==
  /\ pc[c] = "sending"
  /\ inflight' = inflight - 1
  /\ pc' = [pc EXCEPT ![c] = "idle"]
  /\ UNCHANGED <<total, waiters, attempt, bucket>>

\* The attempt ends for good: a result, a permanent error, or a transient
\* error (HTTP 429/5xx, timeout, reset, node behind) with no retry left.
Finish(c) ==
  /\ pc[c] = "sending"
  /\ inflight' = inflight - 1
  /\ waiters' = Shifted
  /\ pc' = [Notified EXCEPT ![c] = "idle"]
  /\ UNCHANGED <<total, attempt, bucket>>

\* A faulty variant: the slot is given back for the sleep as well.
BackoffReleasing(c) ==
  /\ pc[c] = "sending"
  /\ attempt[c] < MaxRetries
  /\ attempt' = [attempt EXCEPT ![c] = @ + 1]
  /\ inflight' = inflight - 1
  /\ waiters' = Shifted
  /\ pc' = [Notified EXCEPT ![c] = "backoff"]
  /\ UNCHANGED <<total, bucket>>

\* A transient error with a retry left: sleep, the slot still held.
Backoff(c) ==
  /\ pc[c] = "sending"
  /\ attempt[c] < MaxRetries
  /\ attempt' = [attempt EXCEPT ![c] = @ + 1]
  /\ pc' = [pc EXCEPT ![c] = "backoff"]
  /\ UNCHANGED <<total, inflight, waiters, bucket>>

\* The backoff ends: finally releases the slot and wakes a waiter, and the
\* loop's next acquire() runs at once, before that waiter does.
Retry(c) ==
  /\ pc[c] = "backoff"
  /\ Acquire(c, inflight - 1, Shifted, Notified)
  /\ UNCHANGED attempt

\* A clock tick.  Beyond a full bucket's worth the age of the last refill
\* makes no difference, so it stops there.
Tick ==
  /\ sinceRefill' = IF sinceRefill < TicksPerSecond THEN sinceRefill + 1 ELSE sinceRefill
  /\ timer' = [c \in Callers |-> IF timer[c] > 0 THEN timer[c] - 1 ELSE 0]
  /\ UNCHANGED <<total, inflight, waiters, tokens, sent, pc, attempt>>

Step(c) == Resume(c) \/ Retoken(c) \/ Finish(c) \/ Backoff(c) \/ Retry(c)

Next == Tick \/ \E c \in Callers : Call(c) \/ Step(c)

\* Promises resolve, timers fire and the abort timer ends every attempt, so
\* no suspended chain is left behind; nobody is obliged to make a call.
Fairness == WF_vars(Tick) /\ \A c \in Callers : WF_vars(Step(c))

Spec == Init /\ [][Next]_vars /\ Fairness

-----------------------------------------------------------------------------
\* The types of the variables.
TypeOK ==
  /\ total \in 0..Budget
  /\ inflight \in 0..MaxConcurrent
  /\ waiters \in Seq(Callers)
  /\ tokens \in 0..Full
  /\ sinceRefill \in 0..TicksPerSecond
  /\ pc \in [Callers -> States]
  /\ attempt \in [Callers -> 0..MaxRetries]
  /\ timer \in [Callers -> 0..TicksPerSecond]
  /\ sent \in 0..Budget

\* Every slot counted by inflight belongs to one caller between its
\* inflight++ and its release(), on every path through call(): a slot that
\* leaked would shrink the client for good, one released twice would let
\* more than maxConcurrentRequests requests out.
SlotAccounting == inflight = Cardinality(Holders)

\* F4: however the callers interleave, with retries sharing the budget, the
\* requests sent and the units still held by callers that have not sent yet
\* never exceed the budget, and no reserved unit is lost.
BudgetAccounting ==
  /\ sent + Cardinality(Reserved) = total
  /\ total <= Budget

\* A queued caller is never forgotten: the free slots do not outnumber the
\* waiters already resolved and on their way to re-test the loop.
NoLostWakeup ==
  waiters # <<>> =>
    inflight + Cardinality(Woken) >= MaxConcurrent

\* The queue holds exactly the suspended callers, each once: no caller is
\* suspended outside the queue, where no release() could ever wake it.
QueueAccounting ==
  /\ \A c \in Callers : pc[c] = "waiting" <=> \E i \in DOMAIN waiters : waiters[i] = c
  /\ \A i, j \in DOMAIN waiters : waiters[i] = waiters[j] => i = j

\* The three books of the client agree with its callers at once: slots with
\* their holders, budget with the requests sent or to come, queue with the
\* suspended.
Accounting == SlotAccounting /\ BudgetAccounting /\ QueueAccounting

\* Every call() returns or throws, although a retrying caller takes back the
\* slot it just released ahead of the waiter it woke.
CallsReturn == \A c \in Callers : pc[c] # "idle" ~> pc[c] = "idle"
=============================================================================
