----------------------------- MODULE WssManager -----------------------------
(***************************************************************************)
(* The subscription manager of src/state/wss.ts: one WebSocket at a time,  *)
(* reopened after a backoff, accountSubscribe for every wanted key, gap    *)
(* marking over an outage, and a bounded memory of the notifications seen. *)
(*                                                                         *)
(* An action is one event handler, timer callback or call, each of which   *)
(* runs to its end.  The server and the sockets (the ws library) are the   *)
(* environment: a socket delivers the messages of its connection in order  *)
(* and emits one close event, possibly long after close() was called.      *)
(* Revisions and dirty keys, which a consumer reads, are left out, as are  *)
(* the backoff's durations and the statistics.                             *)
(***************************************************************************)
EXTENDS Integers, Sequences, SequencesExt, FiniteSets

CONSTANTS
  Keys,
  Contents,    \* what a notification carries: a slot and its data
  Sockets,     \* WebSocket objects; one is reused after its close event
  NoSocket,
  MaxQueue,    \* maxQueue: 5000 in the code
  MaxStarts, MaxFaults, MaxUpdates  \* bounds on what the environment does

ASSUME BoundsAssumption ==
  /\ NoSocket \notin Sockets
  /\ MaxQueue \in Nat \ {0}
  /\ MaxStarts \in Nat /\ MaxFaults \in Nat /\ MaxUpdates \in Nat

VARIABLES
  \* the manager
  ws,            \* the current socket
  pending,       \* request id -> key
  subs,          \* subscription id -> key
  wanted,
  nextId,
  seenOrder,     \* identities seen, oldest first (the set seen is its range)
  closed,
  disconnected,  \* disconnectedAtUtc is set
  startPromise,  \* startPromise is set
  settle,        \* the promise settle() would settle, 0 for none
  startTimer,    \* the promise whose start timer is armed, 0 for none
  timers,        \* retry timers armed
  tracked,       \* retryTimer refers to one of them
  outcome,       \* of each promise start() returned
  \* the sockets and the server
  phase,         \* of each socket
  sawOpen,       \* of each socket, in its handlers' closure
  requests,      \* subscribe requests on their way to the server
  serverSubs,    \* the server's subscriptions of each connection
  inbox,         \* messages on their way to the manager
  faults, updates,
  \* early
  early,         \* start() was called before the old socket's close event
  refused        \* keys whose last request the server refused

lifecycle == <<closed, startPromise, settle, startTimer, outcome>>
retrying == <<timers, tracked>>
book == <<pending, subs, nextId>>
network == <<phase, sawOpen, requests, serverSubs, inbox>>
vars == <<ws, wanted, seenOrder, disconnected, lifecycle, retrying, book,
          network, faults, updates, early, refused>>

Empty == [x \in {} |-> x]
Values(f) == {f[x] : x \in DOMAIN f}
Without(f, x) == [y \in DOMAIN f \ {x} |-> f[y]]
With(f, x, v) == [y \in DOMAIN f \cup {x} |-> IF y = x THEN v ELSE f[y]]

Free == {s \in Sockets : phase[s] = "free"}
Open(s) == s # NoSocket /\ phase[s] = "open"

Init ==
  /\ ws = NoSocket /\ wanted = {} /\ seenOrder = <<>> /\ disconnected = FALSE
  /\ pending = Empty /\ subs = Empty /\ nextId = 1
  /\ closed = FALSE /\ startPromise = FALSE /\ settle = 0 /\ startTimer = 0
  /\ outcome = <<>>
  /\ timers = 0 /\ tracked = FALSE
  /\ phase = [s \in Sockets |-> "free"]
  /\ sawOpen = [s \in Sockets |-> FALSE]
  /\ requests = [s \in Sockets |-> <<>>]
  /\ serverSubs = [s \in Sockets |-> Empty]
  /\ inbox = [s \in Sockets |-> <<>>]
  /\ faults = 0 /\ updates = 0
  /\ early = FALSE /\ refused = {}

-----------------------------------------------------------------------------
\* settleStart(): a no-op once the promise is settled.
SettleStart(result) ==
  IF settle = 0 THEN UNCHANGED <<outcome, settle, startTimer>>
  ELSE /\ outcome' = [outcome EXCEPT ![settle] = result]
       /\ settle' = 0
       /\ startTimer' = 0

\* openSocket() past its test of closed: a new socket.
OpenSocket ==
  LET s == CHOOSE s \in Free : TRUE IN
  /\ Free # {}
  /\ phase' = [phase EXCEPT ![s] = "connecting"]
  /\ ws' = s
  /\ UNCHANGED <<sawOpen, requests, serverSubs, inbox>>

\* Faulty variants: keys whose request is pending are asked for again, and
\* the maps are looked at before 'open' has cleared them.
ToAskAgain(asked, pend, sub) == asked \ Values(sub)
ToAskBeforeClearing(asked, pend, sub) == asked \ (Values(pending) \cup Values(subs))

\* The keys neither subscribed nor pending.
ToAsk(asked, pend, sub) == asked \ (Values(pend) \cup Values(sub))

\* A faulty variant: nextId is not advanced, so the next flush reuses ids.
IdAfterNone(n) == nextId

IdAfter(n) == nextId + n

\* flushSubscribes() on socket s, for the keys asked and the maps given: one
\* request for each key to ask.
FlushSubscribes(s, asked, pend, sub) ==
  LET keys == SetToSeq(ToAsk(asked, pend, sub))
      ids == nextId..(nextId + Len(keys) - 1) IN
  /\ subs' = sub
  /\ nextId' = IdAfter(Len(keys))
  /\ pending' = [id \in DOMAIN pend \cup ids |->
                   IF id \in ids THEN keys[id - nextId + 1] ELSE pend[id]]
  /\ requests' = [requests EXCEPT ![s] = @ \o
                    [i \in 1..Len(keys) |-> [id |-> nextId + i - 1, key |-> keys[i]]]]
  /\ refused' = refused \ Range(keys)

\* The manager's socket s is not open: nothing is sent.
NoFlush(pend, sub) ==
  pending' = pend /\ subs' = sub /\ UNCHANGED <<nextId, requests, refused>>

FlushIf(s, asked, pend, sub) ==
  \/ Open(s) /\ FlushSubscribes(s, asked, pend, sub)
  \/ ~Open(s) /\ NoFlush(pend, sub)

-----------------------------------------------------------------------------
(* The calls.                                                              *)

Subscribe(k) ==
  /\ wanted' = wanted \cup {k}
  /\ FlushIf(ws, wanted', pending, subs)
  /\ UNCHANGED <<ws, seenOrder, disconnected, lifecycle, retrying, phase, sawOpen,
                 serverSubs, inbox, faults, updates, early>>

\* start(), when no lifecycle is under way: otherwise it only returns the
\* promise it has.  A caller that waits forever (0 or Infinity) arms no timer.
Start ==
  /\ ~startPromise
  /\ Len(outcome) < MaxStarts
  /\ closed' = FALSE
  /\ startPromise' = TRUE
  /\ outcome' = Append(outcome, "pending")
  /\ settle' = Len(outcome')
  /\ startTimer' \in {0, settle'}
  /\ OpenSocket
  /\ early' = (early \/ Free # Sockets)
  /\ UNCHANGED <<wanted, seenOrder, disconnected, retrying, book, faults, updates,
                 refused>>

\* A faulty variant: the retry timer is not cleared.
TimersUncleared == timers

TimersCleared == IF tracked THEN timers - 1 ELSE timers

\* stop(), its settlement aside.
Shutdown ==
  /\ closed' = TRUE
  /\ timers' = TimersCleared
  /\ tracked' = FALSE
  /\ ws' = NoSocket
  /\ phase' = IF ws = NoSocket THEN phase ELSE [phase EXCEPT ![ws] = "closing"]
  /\ startPromise' = FALSE
  /\ UNCHANGED <<wanted, seenOrder, disconnected, book, sawOpen, requests, serverSubs,
                 inbox, faults, updates, early, refused>>

\* A faulty variant (the defect F3 reports): start() is left unsettled.
StopUnsettled == startTimer' = 0 /\ UNCHANGED <<outcome, settle>> /\ Shutdown

Stop == SettleStart("stopped") /\ Shutdown

\* The start timer: the caller sees the timeout, then the manager stops.
StartTimeout == startTimer # 0 /\ SettleStart("timeout") /\ Shutdown

-----------------------------------------------------------------------------
(* The events of a socket.                                                 *)

\* A faulty variant: the new connection inherits the old one's requests.
PendingInherited == pending

\* What the request map starts from on a new connection.
PendingCleared == Empty

\* 'open': an outage ends here, and so does its gap.
Opened(s) ==
  /\ phase[s] = "connecting"
  /\ ~closed
  /\ phase' = [phase EXCEPT ![s] = "open"]
  /\ sawOpen' = [sawOpen EXCEPT ![s] = TRUE]
  /\ disconnected' = FALSE
  /\ \/ /\ ws = s
        /\ FlushSubscribes(s, wanted, PendingCleared, Empty)
     \/ /\ ws # s
        /\ FlushIf(ws, wanted, PendingCleared, Empty)
  /\ SettleStart("open")
  /\ UNCHANGED <<ws, wanted, seenOrder, closed, startPromise, retrying, serverSubs,
                 inbox, faults, updates, early>>

\* 'open' after stop(): the socket is closed again.
OpenedLate(s) ==
  /\ phase[s] = "connecting"
  /\ closed
  /\ phase' = [phase EXCEPT ![s] = "closing"]
  /\ UNCHANGED <<ws, wanted, seenOrder, disconnected, lifecycle, retrying, book, sawOpen,
                 requests, serverSubs, inbox, faults, updates, early, refused>>

\* A faulty variant (part of the defect F3 reports): only a connection that
\* had opened is reopened.
ReconnectsIfOpened(s) == ~closed /\ sawOpen[s]

Reconnects(s) == ~closed

\* 'close', the last event of a socket: reconnect, unless stopped.
CloseEvent(s) ==
  /\ phase[s] = "closing"
  /\ phase' = [phase EXCEPT ![s] = "free"]
  /\ sawOpen' = [sawOpen EXCEPT ![s] = FALSE]
  /\ requests' = [requests EXCEPT ![s] = <<>>]
  /\ serverSubs' = [serverSubs EXCEPT ![s] = Empty]
  /\ inbox' = [inbox EXCEPT ![s] = <<>>]
  /\ ws' = IF ws = s THEN NoSocket ELSE ws
  /\ \/ ~Reconnects(s) /\ UNCHANGED <<disconnected, retrying>>
     \/ /\ Reconnects(s)
        /\ disconnected' = (disconnected \/ sawOpen[s])
        /\ timers' = timers + 1
        /\ tracked' = TRUE
  /\ UNCHANGED <<wanted, seenOrder, lifecycle, book, faults, updates, early, refused>>

\* A retry timer fires.
Retry ==
  /\ timers > 0
  /\ timers' = timers - 1
  /\ tracked' = FALSE
  /\ \/ ~closed /\ OpenSocket
     \/ closed /\ UNCHANGED <<ws, network>>
  /\ UNCHANGED <<wanted, seenOrder, disconnected, lifecycle, book, faults, updates,
                 early, refused>>

-----------------------------------------------------------------------------
(* 'message', which the library also emits while a socket is closing.      *)

\* A faulty variant: the oldest identity is never shifted out.
ForgetNothing(q) == q

Forget(q) == IF Len(q) > MaxQueue THEN Tail(q) ELSE q

Answered(m) ==
  /\ m.type \in {"ack", "error"}
  /\ pending' = IF m.id \in DOMAIN pending THEN Without(pending, m.id) ELSE pending
  /\ \/ /\ m.id \in DOMAIN pending /\ m.type = "ack"
        /\ subs' = With(subs, m.sub, pending[m.id])
        /\ UNCHANGED refused
     \/ /\ m.id \in DOMAIN pending /\ m.type = "error"
        /\ refused' = refused \cup {pending[m.id]}
        /\ UNCHANGED subs
     \/ /\ m.id \notin DOMAIN pending
        /\ UNCHANGED <<subs, refused>>
  /\ UNCHANGED seenOrder

\* accountNotification: dropped for an unknown subscription or when seen.
Notified(m) ==
  /\ m.type = "notification"
  /\ \/ /\ m.sub \in DOMAIN subs
        /\ LET identity == <<subs[m.sub], m.content>> IN
           seenOrder' = IF identity \in Range(seenOrder) THEN seenOrder
                        ELSE Forget(Append(seenOrder, identity))
     \/ m.sub \notin DOMAIN subs /\ UNCHANGED seenOrder
  /\ UNCHANGED <<pending, subs, refused>>

Receive(s) ==
  /\ phase[s] \in {"open", "closing"}
  /\ inbox[s] # <<>>
  /\ inbox' = [inbox EXCEPT ![s] = Tail(@)]
  /\ Answered(Head(inbox[s])) \/ Notified(Head(inbox[s]))
  /\ UNCHANGED <<ws, wanted, nextId, disconnected, lifecycle, retrying, phase, sawOpen,
                 requests, serverSubs, faults, updates, early>>

-----------------------------------------------------------------------------
(* The network and the server.                                             *)

manager == <<ws, wanted, seenOrder, disconnected, lifecycle, retrying, book, refused>>

\* An open connection is lost, or a handshake fails: the close event follows.
Drop(s) ==
  /\ phase[s] \in {"connecting", "open"}
  /\ faults < MaxFaults
  /\ faults' = faults + 1
  /\ phase' = [phase EXCEPT ![s] = "closing"]
  /\ requests' = [requests EXCEPT ![s] = <<>>]
  /\ serverSubs' = [serverSubs EXCEPT ![s] = Empty]
  /\ UNCHANGED <<manager, sawOpen, inbox, updates, early>>

\* Subscription ids are the connection's own: two connections share them.
UnusedSub(s) == CHOOSE n \in 1..(Cardinality(DOMAIN serverSubs[s]) + 1) :
                  n \notin DOMAIN serverSubs[s]

Accept(s) ==
  /\ Open(s)
  /\ requests[s] # <<>>
  /\ LET r == Head(requests[s]) IN
     /\ serverSubs' = [serverSubs EXCEPT ![s] = With(@, UnusedSub(s), r.key)]
     /\ inbox' = [inbox EXCEPT ![s] =
                    Append(@, [type |-> "ack", id |-> r.id, sub |-> UnusedSub(s)])]
  /\ requests' = [requests EXCEPT ![s] = Tail(@)]
  /\ UNCHANGED <<manager, phase, sawOpen, faults, updates, early>>

Refuse(s) ==
  /\ Open(s)
  /\ requests[s] # <<>>
  /\ faults < MaxFaults
  /\ faults' = faults + 1
  /\ inbox' = [inbox EXCEPT ![s] =
                 Append(@, [type |-> "error", id |-> Head(requests[s]).id])]
  /\ requests' = [requests EXCEPT ![s] = Tail(@)]
  /\ UNCHANGED <<manager, phase, sawOpen, serverSubs, updates, early>>

\* The account changes: every subscription to it is notified.
Update(k, content) ==
  LET told == [s \in Sockets |->
                 {n \in DOMAIN serverSubs[s] : Open(s) /\ serverSubs[s][n] = k}]
      telling == \E s \in Sockets : told[s] # {} IN
  /\ telling => updates < MaxUpdates
  /\ updates' = IF telling THEN updates + 1 ELSE updates
  /\ inbox' = [s \in Sockets |-> inbox[s] \o
       [i \in 1..Cardinality(told[s]) |->
         [type |-> "notification", sub |-> SetToSeq(told[s])[i], content |-> content,
          key |-> k]]]
  /\ UNCHANGED <<manager, phase, sawOpen, requests, serverSubs, faults, early>>

Act ==
  \/ Start \/ Stop \/ StartTimeout \/ Retry
  \/ \E k \in Keys : Subscribe(k)
  \/ \E s \in Sockets :
       Opened(s) \/ OpenedLate(s) \/ CloseEvent(s) \/ Receive(s)
         \/ Drop(s) \/ Accept(s) \/ Refuse(s)

Next == Act \/ \E k \in Keys, content \in Contents : Update(k, content)

\* Timers fire, the library emits its events and the server answers; it is
\* the bound on the faults that lets a handshake succeed in the end.
Fairness ==
  /\ WF_vars(StartTimeout)
  /\ WF_vars(Retry)
  /\ \A s \in Sockets :
       /\ WF_vars(Opened(s) \/ OpenedLate(s))
       /\ WF_vars(CloseEvent(s))
       /\ WF_vars(Receive(s))
       /\ WF_vars(Accept(s))

Spec == Init /\ [][Next]_vars /\ Fairness

-----------------------------------------------------------------------------
Live == Sockets \ Free

\* Sockets on their way to a connection or connected.
Active == {s \in Sockets : phase[s] \in {"connecting", "open"}}

\* The types of the variables, the memory of notifications within its bound.
TypeOK ==
  /\ ws \in Sockets \cup {NoSocket}
  /\ wanted \subseteq Keys
  /\ Values(pending) \subseteq wanted /\ DOMAIN pending \subseteq 1..(nextId - 1)
  /\ Values(subs) \subseteq wanted
  /\ seenOrder \in Seq(Keys \X Contents) /\ Len(seenOrder) <= MaxQueue
  /\ {closed, disconnected, startPromise, tracked} \subseteq BOOLEAN
  /\ settle \in 0..Len(outcome) /\ startTimer \in {0, settle}
  /\ timers \in Nat
  /\ phase \in [Sockets -> {"free", "connecting", "open", "closing"}]

\* start(), retry and stop() share ONE lifecycle (wss.ts, "Lifecycle (F3)"):
\* never two connections, or a connection and a retry timer, side by side.
OneLifecycle == Cardinality(Active) + timers <= 1

\* That holds as long as start() waits for the close event of the socket
\* that stop() closed: through every drop, failed handshake, timeout, stop
\* and restart there is one connection or one retry on its way, not two.
OneLifecycleUnlessEarly == ~early => OneLifecycle

\* A manager that was started and not stopped always has a socket or a retry
\* timer that will bring it back: no path through the handlers abandons it.
NeverAbandoned == startPromise => Live # {} \/ timers > 0

\* stop() and a start that timed out leave nothing running: no promise, no
\* start timer, no socket of the manager's and no retry.
StopIsQuiet ==
  closed => /\ settle = 0 /\ startTimer = 0 /\ ws = NoSocket
            /\ "pending" \notin Range(outcome)
            /\ ~early => timers = 0

\* The manager works exactly when it was started and not stopped.
RunsIffStarted == NeverAbandoned /\ StopIsQuiet

\* No key hangs in pending, where it would never be asked for again: its
\* request or its answer is on the way on the current connection.
PendingIsAnswered ==
  Open(ws) => \A id \in DOMAIN pending :
    \/ \E i \in DOMAIN requests[ws] : requests[ws][i].id = id
    \/ \E i \in DOMAIN inbox[ws] :
         inbox[ws][i].type \in {"ack", "error"} /\ inbox[ws][i].id = id

\* However subscribe() falls between a request and its answer, and whatever
\* earlier connections left behind, a key is subscribed to at most once.
SubscribedOnce ==
  \A k \in Keys :
    Cardinality({id \in DOMAIN pending : pending[id] = k})
      + Cardinality({n \in DOMAIN subs : subs[n] = k}) <= 1

\* A notification on its way on the open connection is never attributed to
\* another account, although the subscription ids of successive connections
\* coincide and whatever an early start() left running beside it.  Unless there
\* was an early start(), that goes for every connection, and the manager knows
\* the subscription when the notification comes.  After one, nothing is said of
\* the connections beside ws: they are attributed by the ids of ws (wss.ts:154).
Attribution ==
  /\ Open(ws) => \A i \in DOMAIN inbox[ws] :
       LET m == inbox[ws][i] IN
       (m.type = "notification" /\ m.sub \in DOMAIN subs) => subs[m.sub] = m.key
  /\ ~early => \A s \in Sockets : \A i \in DOMAIN inbox[s] :
       LET m == inbox[s][i] IN
       m.type = "notification" =>
         \/ m.sub \in DOMAIN subs /\ subs[m.sub] = m.key
         \/ \E j \in 1..(i - 1) : inbox[s][j].type = "ack" /\ inbox[s][j].sub = m.sub

\* Every start() settles: it opens, times out or is stopped.  One without a
\* timeout waits for an open or a stop: the bound on the faults lets an attempt
\* open in the end.
StartSettles ==
  \A i \in 1..MaxStarts :
    (i \in DOMAIN outcome /\ outcome[i] = "pending")
      ~> (i \in DOMAIN outcome /\ outcome[i] # "pending")

\* Every wanted key of a running manager ends up subscribed, unless the
\* server refused it: a refused key is not asked for again.
EventuallySubscribed ==
  \A k \in Keys :
    (k \in wanted /\ startPromise) ~> (~startPromise \/ k \in Values(subs) \cup refused)
=============================================================================
