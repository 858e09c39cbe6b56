------------------------------ MODULE RpcRate ------------------------------
(***************************************************************************)
(* RpcClient watched by an observer that opens a window at any moment and  *)
(* counts, until it closes, the requests sent and the ticks elapsed.  What *)
(* it sees is what an RPC provider that meters the client sees.            *)
(***************************************************************************)
EXTENDS RpcClient

CONSTANT WindowLength   \* longest window observed, in ticks

ASSUME WindowAssumption == WindowLength \in Nat

VARIABLES windowTicks, windowSent

window == <<windowTicks, windowSent>>

RateInit == Init /\ windowTicks = 0 /\ windowSent = 0

Open ==
  /\ windowTicks' = 0
  /\ windowSent' = 0
  /\ UNCHANGED vars

WatchTick ==
  /\ Tick
  /\ windowTicks < WindowLength
  /\ windowTicks' = windowTicks + 1
  /\ UNCHANGED windowSent

\* A tick past the longest window closes it and opens the next.
WatchLastTick ==
  /\ Tick
  /\ windowTicks = WindowLength
  /\ windowTicks' = 0
  /\ windowSent' = 0

WatchCaller(c) ==
  /\ Call(c) \/ Step(c)
  /\ windowSent' = windowSent + (sent' - sent)
  /\ UNCHANGED windowTicks

RateNext == Open \/ WatchTick \/ WatchLastTick \/ \E c \in Callers : WatchCaller(c)

RateSpec == RateInit /\ [][RateNext]_<<vars, window>> /\ Fairness

-----------------------------------------------------------------------------
\* The token bucket keeps its promise over EVERY window, not only from the
\* start: in t ticks the client sends at most a full burst plus t ticks'
\* worth of refill, whoever sleeps, retries or overtakes whom meanwhile.
RateBound == TicksPerSecond * windowSent <= Full + Rate * windowTicks
=============================================================================
