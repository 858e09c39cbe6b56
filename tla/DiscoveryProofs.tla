--------------------------- MODULE DiscoveryProofs ---------------------------
(***************************************************************************)
(* The rate of the API client and the cache of the last listing hold for   *)
(* any number of runs, processes and clients, any pages and any crashes.   *)
(* A call is sent by the first of its client's queue, and what it still    *)
(* waits is what is missing from the interval.  The lock file names the    *)
(* one run that holds it as long as no two runs were taking it at once.    *)
(* The population of every report keeps its limits, is made of real routes *)
(* and does not depend on the order of the rows: rows and routes are in a  *)
(* strict order, and the walk makes a shortlist of a shortlist.            *)
(***************************************************************************)
EXTENDS Discovery, FiniteSetTheorems, SequenceTheorems, WellFoundedInduction, TLAPS

Asked == {"version", "list", "keys"}

Calling(r) == call[r].of # "none"
First(r) == queue[Client(r)] # << >> /\ Head(queue[Client(r)]) = r

Typed ==
  /\ setup \in Setups
  /\ DOMAIN pc = Runs /\ DOMAIN holder = Runs /\ DOMAIN listing = Runs
  /\ call \in [Runs -> [of : Asked \cup {"none"},
                        state : {"idle", "queued", "spacing", "sending", "backoff"}]]
  /\ timer \in [Runs -> Nat]
  /\ pages \in [Runs -> Seq(Pages)]
  /\ queue \in [Clients -> Seq(Runs)]
  /\ total \in [Clients -> Nat]
  /\ since \in [Clients -> 0..MinInterval]

\* Only a run with the network calls or writes, only one with a lock file
\* acquires or releases it.
ControlInv ==
  \A r \in Runs :
    /\ Calling(r) <=> call[r].state # "idle"
    /\ Calling(r) => pc[r] = "call" /\ setup[r].network
    /\ pc[r] \in Acquiring \cup {"release"} => Locks(r)
    /\ pc[r] = "writing" => setup[r].network

\* Whoever calls is in the queue; whoever is before or in a request is first.
QueueInv ==
  \A r \in Runs :
    /\ Calling(r) => \E i \in DOMAIN queue[Client(r)] : queue[Client(r)][i] = r
    /\ call[r].state \in {"spacing", "sending"} => First(r)

\* What is left of a wait is what is left of the interval.
SpacingInv ==
  \A r \in Runs : call[r].state = "spacing" =>
    /\ timer[r] = MinInterval - since[Client(r)]
    /\ total[Client(r)] < ApiBudget

Holds(r) == Locks(r) /\ pc[r] \in Holding

\* The lock names its holder, and nobody else comes to remove it.
LockInv ==
  ~contested =>
    /\ \A r, q \in Runs : pc[r] \in Acquiring /\ pc[q] \in Acquiring => r = q
    /\ \A r \in Runs : Holds(r) =>
         /\ lock = Proc(r)
         /\ \A q \in Runs : /\ pc[q] \notin {"lockRemove", "lockWrite"}
                            /\ pc[q] = "lockKill" => holder[q] = Proc(r)

\* A listing as runDiscovery() keeps it: its counters are those of its pages.
Listed(run) == \E ps \in Seq(Pages) : ps # << >> /\ run = ListRun(ps)

\* Who writes the file has a listing to write, and is alone at it.
WriterInv ==
  /\ \A r \in Runs : pc[r] = "writing" => Listed(listing[r])
  /\ \A r, q \in Runs :
       r # q /\ pc[r] = "writing" /\ pc[q] = "writing" => Proc(r) # Proc(q)
  /\ ~contested => \A r \in Runs : pc[r] = "writing" => cache = Unreadable

CacheInv == Previous => Listed(cache)

IInv ==
  /\ Typed /\ ControlInv /\ QueueInv /\ SpacingInv
  /\ LockInv /\ WriterInv /\ CacheInv

-----------------------------------------------------------------------------
(* Setups and queues.                                                      *)

LEMMA Processes ==
  ASSUME Typed, NEW r \in Runs, NEW q \in Runs
  PROVE  /\ Proc(r) # None
         /\ Client(r) = Client(q) => Proc(r) = Proc(q)
         /\ r # q /\ Locks(r) /\ Locks(q) => Proc(r) # Proc(q)
         /\ Proc(r) # Proc(q) /\ setup[r].network /\ setup[q].network =>
              Locks(r) /\ Locks(q)
         /\ Client(r) \in Clients
BY SetupAssumption DEF Typed, Proc, Client, Locks, Clients

\* Whoever is first in the queue of a client is the only one.
LEMMA OneFirst ==
  ASSUME NEW r, NEW q, First(r), First(q), Client(r) = Client(q)
  PROVE  r = q
BY DEF First

\* Behind the first of a queue the others keep their order.
LEMMA TailKeeps ==
  ASSUME NEW s \in Seq(Runs), s # << >>
  PROVE  /\ Tail(s) \in Seq(Runs)
         /\ \A q : q # Head(s) /\ (\E i \in DOMAIN s : s[i] = q) =>
              \E i \in DOMAIN Tail(s) : Tail(s)[i] = q
<1>1. /\ Tail(s) \in Seq(Runs) /\ Len(Tail(s)) = Len(s) - 1
      /\ \A i \in 1..Len(Tail(s)) : Tail(s)[i] = s[i + 1]
  BY HeadTailProperties
<1>2. /\ Len(s) \in Nat /\ DOMAIN s = 1..Len(s) /\ Len(Tail(s)) \in Nat
      /\ DOMAIN Tail(s) = 1..Len(Tail(s)) /\ Head(s) = s[1]
  BY <1>1
<1> QED
  <2>1. SUFFICES ASSUME NEW q, q # Head(s), NEW i \in DOMAIN s, s[i] = q
                 PROVE  \E j \in DOMAIN Tail(s) : Tail(s)[j] = q
    BY <1>1
  <2>2. i \in 1..Len(s) /\ i # 1
    BY <1>2, <2>1
  <2>3. i - 1 \in 1..Len(Tail(s)) /\ (i - 1) + 1 = i
    BY <1>1, <1>2, <2>2
  <2>4. Tail(s)[i - 1] = s[i]
    BY <1>1, <2>3
  <2> QED
    BY <1>2, <2>1, <2>3, <2>4

\* Behind the last of a queue the first stays first.
LEMMA AppendKeeps ==
  ASSUME NEW s \in Seq(Runs), NEW r \in Runs
  PROVE  /\ Append(s, r) \in Seq(Runs) /\ Append(s, r) # << >>
         /\ \E i \in DOMAIN Append(s, r) : Append(s, r)[i] = r
         /\ \A q : (\E i \in DOMAIN s : s[i] = q) =>
              \E i \in DOMAIN Append(s, r) : Append(s, r)[i] = q
         /\ s # << >> => Head(Append(s, r)) = Head(s)
<1>1. /\ Append(s, r) \in Seq(Runs) /\ Append(s, r) # << >>
      /\ Len(Append(s, r)) = Len(s) + 1
      /\ \A i \in 1..Len(s) : Append(s, r)[i] = s[i]
      /\ Append(s, r)[Len(s) + 1] = r
  BY AppendProperties
<1>2. /\ Len(s) \in Nat /\ DOMAIN s = 1..Len(s)
      /\ DOMAIN Append(s, r) = 1..(Len(s) + 1)
  BY <1>1
<1>3. \E i \in DOMAIN Append(s, r) : Append(s, r)[i] = r
  BY <1>1, <1>2
<1>4. \A q : (\E i \in DOMAIN s : s[i] = q) =>
        \E i \in DOMAIN Append(s, r) : Append(s, r)[i] = q
  BY <1>1, <1>2
<1>5. s # << >> => Head(Append(s, r)) = Head(s)
  BY <1>1, <1>2
<1> QED
  BY <1>1, <1>3, <1>4, <1>5

-----------------------------------------------------------------------------
(* How a call begins and ends.                                             *)

\* The run calls again, or its calls are over.
Asks(r) == setup[r].network /\ \E of \in Asked : GetJson(r, of)
Ends(r, v) ==
  /\ NoCall(r) /\ pc' = [pc EXCEPT ![r] = v]
  /\ v \in {"report", "writing", "release", "done"}
  /\ v = "release" => Locks(r)
  /\ v = "writing" => setup[r].network

\* The run's own step between two awaits.
Proceeds(r) ==
  /\ Calling(r) => First(r)
  /\ Asks(r) \/ \E v : Ends(r, v)
  /\ pages' \in [Runs -> Seq(Pages)] /\ DOMAIN listing' = Runs
  /\ UNCHANGED <<setup, inventory, lock, holder, total, since, contested, crashes>>

\* The queue without the call that is over.
LEMMA DequeuedKeeps ==
  ASSUME Typed, ControlInv, QueueInv, NEW r \in Runs, Calling(r) => First(r)
  PROVE  /\ Dequeued(r) \in [Clients -> Seq(Runs)]
         /\ \A q \in Runs \ {r} : Calling(q) =>
              \E i \in DOMAIN Dequeued(r)[Client(q)] : Dequeued(r)[Client(q)][i] = q
         /\ \A q \in Runs \ {r} : call[q].state \in {"spacing", "sending"} =>
              Dequeued(r)[Client(q)] = queue[Client(q)]
<1> DEFINE d == Dequeued(r)
<1>1. d = [c \in Clients |-> IF c = Client(r) /\ Calling(r) THEN Tail(queue[c]) ELSE queue[c]]
  BY DEF Dequeued, Calling
<1>2. \A q \in Runs : Client(q) \in Clients
  BY DEF Clients
<1>3. Calling(r) => queue[Client(r)] \in Seq(Runs) /\ queue[Client(r)] # << >>
  BY <1>2 DEF Typed, First
<1> HIDE DEF d
<1>4. d \in [Clients -> Seq(Runs)]
  BY <1>1, <1>3, TailKeeps DEF Typed
<1>5. ASSUME NEW q \in Runs \ {r}, Calling(q)
      PROVE  \E i \in DOMAIN d[Client(q)] : d[Client(q)][i] = q
  <2>1. \E i \in DOMAIN queue[Client(q)] : queue[Client(q)][i] = q
    BY <1>5 DEF QueueInv
  <2>2. CASE Client(q) = Client(r) /\ Calling(r)
    <3>1. d[Client(q)] = Tail(queue[Client(r)])
      BY <1>1, <1>2, <2>2
    <3>2. Head(queue[Client(r)]) = r
      BY <2>2 DEF First
    <3>3. queue[Client(r)] \in Seq(Runs) /\ queue[Client(r)] # << >>
      BY <1>3, <2>2
    <3>4. q # r /\ \E i \in DOMAIN queue[Client(r)] : queue[Client(r)][i] = q
      BY <1>5, <2>1, <2>2
    <3>5. \E i \in DOMAIN Tail(queue[Client(r)]) : Tail(queue[Client(r)])[i] = q
      BY <3>2, <3>3, <3>4, TailKeeps
    <3> QED
      BY <3>1, <3>5
  <2>3. CASE ~(Client(q) = Client(r) /\ Calling(r))
    BY <1>1, <1>2, <2>1, <2>3
  <2> QED
    BY <2>2, <2>3
<1>6. ASSUME NEW q \in Runs \ {r}, call[q].state \in {"spacing", "sending"}
      PROVE  d[Client(q)] = queue[Client(q)]
  <2>1. First(q)
    BY <1>6 DEF QueueInv
  <2>2. ~(Client(q) = Client(r) /\ Calling(r))
    BY <1>6, <2>1, OneFirst
  <2> QED
    BY <1>1, <1>2, <2>2
<1> QED
  BY <1>4, <1>5, <1>6 DEF d

\* Calls, waits and queues over such a step.
LEMMA ProceedsKeeps ==
  ASSUME Typed, ControlInv, QueueInv, SpacingInv, NEW r \in Runs, Proceeds(r)
  PROVE  /\ Typed' /\ ControlInv' /\ QueueInv' /\ SpacingInv'
         /\ \A q \in Runs : call'[q].state = "sending" => call[q].state = "sending"
<1>1. /\ UNCHANGED <<setup, inventory, lock, holder, total, since, contested, crashes>>
      /\ pages' \in [Runs -> Seq(Pages)] /\ DOMAIN listing' = Runs
  BY DEF Proceeds
<1>2. /\ Clients' = Clients
      /\ \A q \in Runs : Client(q)' = Client(q) /\ Client(q) \in Clients
      /\ \A q \in Runs : Locks(q)' <=> Locks(q)
  BY <1>1 DEF Clients, Client, Locks
<1>3. /\ Dequeued(r) \in [Clients -> Seq(Runs)]
      /\ \A q \in Runs \ {r} : Calling(q) =>
           \E i \in DOMAIN Dequeued(r)[Client(q)] : Dequeued(r)[Client(q)][i] = q
      /\ \A q \in Runs \ {r} : call[q].state \in {"spacing", "sending"} =>
           Dequeued(r)[Client(q)] = queue[Client(q)]
  BY DequeuedKeeps DEF Proceeds
<1>4. /\ pc' = [pc EXCEPT ![r] = pc'[r]]
      /\ call' = [call EXCEPT ![r] = call'[r]]
      /\ timer' = [timer EXCEPT ![r] = 0]
      /\ \/ /\ call'[r] \in [of : Asked, state : {"queued"}]
            /\ pc'[r] = "call" /\ setup[r].network
            /\ queue' = [Dequeued(r) EXCEPT ![Client(r)] = Append(@, r)]
         \/ /\ call'[r] = [of |-> "none", state |-> "idle"]
            /\ pc'[r] \in {"report", "writing", "release", "done"}
            /\ pc'[r] = "release" => Locks(r)
            /\ pc'[r] = "writing" => setup[r].network
            /\ queue' = Dequeued(r)
  <2>1. CASE Asks(r)
    <3>1. PICK of \in Asked : GetJson(r, of)
      BY <2>1 DEF Asks
    <3>2. /\ pc' = [pc EXCEPT ![r] = "call"]
          /\ call' = [call EXCEPT ![r] = [of |-> of, state |-> "queued"]]
          /\ timer' = [timer EXCEPT ![r] = 0]
          /\ queue' = [Dequeued(r) EXCEPT ![Client(r)] = Append(@, r)]
      BY <3>1 DEF GetJson
    <3>3. pc'[r] = "call" /\ call'[r] = [of |-> of, state |-> "queued"]
      BY <3>2 DEF Typed
    <3>4. call'[r] \in [of : Asked, state : {"queued"}]
      BY <3>3
    <3>5. setup[r].network
      BY <2>1 DEF Asks
    <3>6. call' = [call EXCEPT ![r] = call'[r]] /\ pc' = [pc EXCEPT ![r] = pc'[r]]
      BY <3>2, <3>3
    <3> QED
      BY <3>2, <3>3, <3>4, <3>5, <3>6
  <2>2. CASE \E v : Ends(r, v)
    <3>1. PICK v : Ends(r, v)
      BY <2>2
    <3>2. /\ pc' = [pc EXCEPT ![r] = v]
          /\ call' = [call EXCEPT ![r] = [of |-> "none", state |-> "idle"]]
          /\ timer' = [timer EXCEPT ![r] = 0]
          /\ queue' = Dequeued(r)
      BY <3>1 DEF Ends, NoCall
    <3>3. pc'[r] = v /\ call'[r] = [of |-> "none", state |-> "idle"]
      BY <3>2 DEF Typed
    <3> QED
      BY <3>1, <3>2, <3>3 DEF Ends
  <2> QED
    BY <2>1, <2>2 DEF Proceeds
<1>5. /\ \A q \in Runs \ {r} : pc'[q] = pc[q] /\ call'[q] = call[q] /\ timer'[q] = timer[q]
      /\ timer'[r] = 0 /\ DOMAIN pc' = Runs
  BY <1>4 DEF Typed
<1>6. queue' \in [Clients -> Seq(Runs)]
  <2>1. Append(Dequeued(r)[Client(r)], r) \in Seq(Runs)
    BY <1>2, <1>3, AppendKeeps
  <2> QED
    BY <1>3, <1>4, <2>1
<1>7. Typed'
  <2>1. call' \in [Runs -> [of : Asked \cup {"none"},
                            state : {"idle", "queued", "spacing", "sending", "backoff"}]]
    <3>1. call'[r] \in [of : Asked \cup {"none"},
                        state : {"idle", "queued", "spacing", "sending", "backoff"}]
      BY <1>4
    <3> QED
      BY <1>4, <3>1 DEF Typed
  <2>2. timer' \in [Runs -> Nat]
    BY <1>4 DEF Typed
  <2> QED
    BY <1>1, <1>2, <1>5, <1>6, <2>1, <2>2 DEF Typed
<1>8. \/ /\ call'[r].of \in Asked /\ call'[r].state = "queued"
         /\ pc'[r] = "call" /\ setup[r].network
      \/ /\ call'[r].of = "none" /\ call'[r].state = "idle"
         /\ pc'[r] \in {"report", "writing", "release", "done"}
         /\ pc'[r] = "release" => Locks(r)
         /\ pc'[r] = "writing" => setup[r].network
  BY <1>4
<1>9. ControlInv'
  <2>1. SUFFICES ASSUME NEW q \in Runs
                 PROVE  /\ Calling(q)' <=> call'[q].state # "idle"
                        /\ Calling(q)' => pc'[q] = "call" /\ setup'[q].network
                        /\ pc'[q] \in Acquiring \cup {"release"} => Locks(q)'
                        /\ pc'[q] = "writing" => setup'[q].network
    BY DEF ControlInv
  <2>2. CASE q = r
    BY <1>1, <1>2, <1>8, <2>2 DEF Calling, Asked, Acquiring
  <2>3. CASE q # r
    BY <1>1, <1>2, <1>5, <2>3 DEF Calling, ControlInv
  <2> QED
    BY <2>2, <2>3
<1>10. QueueInv'
  <2>1. SUFFICES ASSUME NEW q \in Runs
                 PROVE  /\ Calling(q)' =>
                             \E i \in DOMAIN queue'[Client(q)] : queue'[Client(q)][i] = q
                        /\ call'[q].state \in {"spacing", "sending"} =>
                             /\ queue'[Client(q)] # << >>
                             /\ Head(queue'[Client(q)]) = q
    BY <1>2 DEF QueueInv, First
  <2> DEFINE d == Dequeued(r)[Client(q)]
  <2>2. d \in Seq(Runs)
    BY <1>2, <1>3
  <2>3. \/ queue'[Client(q)] = d /\ (q = r => call'[r].of = "none")
        \/ queue'[Client(q)] = Append(d, r)
    <3>1. CASE queue' = Dequeued(r) /\ call'[r] = [of |-> "none", state |-> "idle"]
      BY <3>1
    <3>2. CASE queue' = [Dequeued(r) EXCEPT ![Client(r)] = Append(@, r)]
      BY <1>2, <1>3, <3>2
    <3> QED
      BY <1>4, <3>1, <3>2
  <2>4. CASE q = r
    BY <1>8, <2>2, <2>3, <2>4, AppendKeeps DEF Calling
  <2>5. CASE q # r
    <3>1. Calling(q)' => \E i \in DOMAIN d : d[i] = q
      BY <1>3, <1>5, <2>5 DEF Calling
    <3>2. call'[q].state \in {"spacing", "sending"} => d # << >> /\ Head(d) = q
      BY <1>3, <1>5, <2>5 DEF QueueInv, First
    <3> HIDE DEF d
    <3> QED
      BY SMTT(30), <2>2, <2>3, <3>1, <3>2, AppendKeeps
  <2> QED
    BY <2>4, <2>5
<1>11. SpacingInv'
  <2>1. call'[r].state # "spacing"
    BY <1>8
  <2> QED
    BY <1>1, <1>2, <1>5, <2>1 DEF SpacingInv
<1> QED
  BY <1>5, <1>7, <1>8, <1>9, <1>10, <1>11

-----------------------------------------------------------------------------
(* Which actions do so, and what they do to the file.                      *)

\* Nobody begins to write, and the file stays.
Passive ==
  /\ cache' = cache
  /\ \A q \in Runs : pc'[q] = "writing" => pc[q] = "writing" /\ listing'[q] = listing[q]

\* After a population: a call or the report.
LEMMA BuildReportProceeds ==
  ASSUME Typed, NEW r \in Runs, NEW run, BuildReport(r, run)
  PROVE  /\ Asks(r) \/ \E v : Ends(r, v)
         /\ \A q \in Runs \ {r} : pc'[q] = pc[q]
         /\ pc'[r] # "writing"
<1> DEFINE n == IF setup[r].network THEN KeyRequests(r, run) ELSE 0
<1>1. \/ n > 0 /\ GetJson(r, "keys")
      \/ n = 0 /\ pc' = [pc EXCEPT ![r] = "report"] /\ NoCall(r)
  BY DEF BuildReport
<1>2. n > 0 => setup[r].network
  BY DEF n
<1> HIDE DEF n
<1>3. CASE n > 0 /\ GetJson(r, "keys")
  <2>1. Asks(r)
    BY <1>2, <1>3 DEF Asks, Asked
  <2>2. pc' = [pc EXCEPT ![r] = "call"]
    BY <1>3 DEF GetJson
  <2> QED
    BY <2>1, <2>2 DEF Typed
<1>4. CASE n = 0 /\ pc' = [pc EXCEPT ![r] = "report"] /\ NoCall(r)
  <2>1. Ends(r, "report")
    BY <1>4 DEF Ends
  <2> QED
    BY <1>4, <2>1 DEF Typed
<1> QED
  BY <1>1, <1>3, <1>4

\* An exception ends the run.
LEMMA ThrowProceeds ==
  ASSUME Typed, NEW r \in Runs, Throw(r)
  PROVE  /\ \E v : Ends(r, v)
         /\ pages' \in [Runs -> Seq(Pages)]
         /\ UNCHANGED <<listing, cache>>
         /\ \A q \in Runs \ {r} : pc'[q] = pc[q]
         /\ pc'[r] # "writing"
<1>1. /\ NoCall(r) /\ pc' = [pc EXCEPT ![r] = AfterRun(r)]
      /\ pages' = [pages EXCEPT ![r] = << >>] /\ UNCHANGED <<listing, cache>>
  BY DEF Throw
<1>2. /\ AfterRun(r) \in {"release", "done"}
      /\ AfterRun(r) = "release" => Locks(r)
  BY DEF AfterRun
<1>3. Ends(r, AfterRun(r))
  BY <1>1, <1>2 DEF Ends
<1>4. pages' \in [Runs -> Seq(Pages)]
  BY <1>1 DEF Typed
<1> QED
  BY <1>1, <1>2, <1>3, <1>4 DEF Typed

\* The outcome of a call for which nothing is left to try.
LEMMA FailProceeds ==
  ASSUME Typed, ControlInv, NEW r \in Runs, Calling(r), Fail(r)
  PROVE  /\ Asks(r) \/ \E v : Ends(r, v)
         /\ pages' \in [Runs -> Seq(Pages)]
         /\ UNCHANGED <<listing, cache>>
         /\ \A q \in Runs \ {r} : pc'[q] = pc[q]
         /\ pc'[r] # "writing"
<1>1. setup[r].network
  BY DEF ControlInv
<1>2. CASE GetJson(r, "list") /\ UNCHANGED <<chunks, pages, listing, cache>>
  <2>1. Asks(r)
    BY <1>1, <1>2 DEF Asks, Asked
  <2>2. pc' = [pc EXCEPT ![r] = "call"]
    BY <1>2 DEF GetJson
  <2> QED
    BY <1>2, <2>1, <2>2 DEF Typed
<1>3. CASE Throw(r)
  BY <1>3, ThrowProceeds
<1>4. CASE /\ pc' = [pc EXCEPT ![r] = "report"] /\ NoCall(r)
           /\ UNCHANGED <<chunks, pages, listing, cache>>
  <2>1. Ends(r, "report")
    BY <1>4 DEF Ends
  <2> QED
    BY <1>4, <2>1 DEF Typed
<1> QED
  BY <1>2, <1>3, <1>4 DEF Fail

\* The listing ends: it is used, or the file is opened to take it.
LEMMA ConcludeProceeds ==
  ASSUME Typed, ControlInv, NEW r \in Runs, Calling(r),
         NEW ps \in Seq(Pages), ps # << >>, Conclude(r, ListRun(ps))
  PROVE  /\ Asks(r) \/ \E v : Ends(r, v)
         /\ pages' \in [Runs -> Seq(Pages)]
         /\ DOMAIN listing' = Runs /\ Listed(listing'[r])
         /\ \A q \in Runs \ {r} : pc'[q] = pc[q] /\ listing'[q] = listing[q]
         /\ \/ cache' = cache /\ pc'[r] # "writing"
            \/ cache' = Unreadable /\ ~(Degraded(ListRun(ps)) /\ Previous)
               /\ pc'[r] = "writing" /\ listing'[r] = ListRun(ps)
<1>1. /\ listing' = [listing EXCEPT ![r] = ListRun(ps)]
      /\ pages' = [pages EXCEPT ![r] = << >>]
      /\ \/ BuildReport(r, ListRun(ps)) /\ UNCHANGED cache
         \/ /\ ~(Degraded(ListRun(ps)) /\ Previous)
            /\ cache' = Unreadable /\ pc' = [pc EXCEPT ![r] = "writing"] /\ NoCall(r)
  BY DEF Conclude
<1>2. pages' \in [Runs -> Seq(Pages)]
  BY <1>1 DEF Typed
<1>3. /\ DOMAIN listing' = Runs /\ listing'[r] = ListRun(ps)
      /\ \A q \in Runs \ {r} : listing'[q] = listing[q]
  BY <1>1 DEF Typed
<1>4. Listed(listing'[r])
  BY <1>3 DEF Listed
<1>5. CASE BuildReport(r, ListRun(ps)) /\ UNCHANGED cache
  BY <1>2, <1>3, <1>4, <1>5, BuildReportProceeds
<1>6. CASE /\ ~(Degraded(ListRun(ps)) /\ Previous)
           /\ cache' = Unreadable /\ pc' = [pc EXCEPT ![r] = "writing"] /\ NoCall(r)
  <2>1. Ends(r, "writing")
    BY <1>6 DEF Ends, ControlInv
  <2>2. pc'[r] = "writing" /\ \A q \in Runs \ {r} : pc'[q] = pc[q]
    BY <1>6 DEF Typed
  <2> QED
    BY <1>2, <1>3, <1>4, <1>6, <2>1, <2>2
<1> QED
  BY <1>1, <1>5, <1>6

\* A good answer: what it proceeds to, and what becomes of the file.
LEMMA AnswerProceeds ==
  ASSUME Typed, ControlInv, NEW r \in Runs, Calling(r), Answer(r)
  PROVE  /\ Asks(r) \/ \E v : Ends(r, v)
         /\ pages' \in [Runs -> Seq(Pages)] /\ DOMAIN listing' = Runs
         /\ \A q \in Runs \ {r} : pc'[q] = pc[q] /\ listing'[q] = listing[q]
         /\ \/ cache' = cache /\ pc'[r] # "writing"
            \/ /\ cache' = Unreadable /\ pc'[r] = "writing"
               /\ \E ps \in Seq(Pages) :
                    /\ ps # << >> /\ StoppedReason(ps) # "" /\ listing'[r] = ListRun(ps)
                    /\ ~(Degraded(ListRun(ps)) /\ Previous)
<1>1. setup[r].network
  BY DEF ControlInv
<1>2. ASSUME NEW of \in Asked, GetJson(r, of)
      PROVE  /\ Asks(r) /\ pc'[r] # "writing"
             /\ \A q \in Runs \ {r} : pc'[q] = pc[q]
  <2>1. pc' = [pc EXCEPT ![r] = "call"]
    BY <1>2 DEF GetJson
  <2> QED
    BY <1>1, <1>2, <2>1 DEF Asks, Typed
<1>3. CASE GetJson(r, "list") /\ UNCHANGED <<chunks, pages, listing, cache>>
  BY <1>2, <1>3 DEF Typed, Asked
<1>4. CASE \E page \in Pages :
             LET ps == Append(pages[r], page) IN
             IF StoppedReason(ps) # "" THEN Conclude(r, ListRun(ps))
             ELSE /\ GetJson(r, "list")
                  /\ pages' = [pages EXCEPT ![r] = ps]
                  /\ UNCHANGED <<chunks, listing, cache>>
  <2>1. PICK page \in Pages :
             LET ps == Append(pages[r], page) IN
             IF StoppedReason(ps) # "" THEN Conclude(r, ListRun(ps))
             ELSE /\ GetJson(r, "list")
                  /\ pages' = [pages EXCEPT ![r] = ps]
                  /\ UNCHANGED <<chunks, listing, cache>>
    BY <1>4
  <2> DEFINE ps == Append(pages[r], page)
  <2>2. ps \in Seq(Pages) /\ ps # << >>
    BY AppendProperties DEF Typed
  <2>3. \/ StoppedReason(ps) # "" /\ Conclude(r, ListRun(ps))
        \/ /\ GetJson(r, "list") /\ pages' = [pages EXCEPT ![r] = ps]
           /\ UNCHANGED <<chunks, listing, cache>>
    BY <2>1
  <2> HIDE DEF ps
  <2>4. CASE StoppedReason(ps) # "" /\ Conclude(r, ListRun(ps))
    BY <2>2, <2>4, ConcludeProceeds
  <2>5. CASE /\ GetJson(r, "list") /\ pages' = [pages EXCEPT ![r] = ps]
             /\ UNCHANGED <<chunks, listing, cache>>
    <3>1. pages' \in [Runs -> Seq(Pages)]
      BY <2>2, <2>5 DEF Typed
    <3>2. Asks(r) /\ pc'[r] # "writing" /\ \A q \in Runs \ {r} : pc'[q] = pc[q]
      BY <1>2, <2>5 DEF Asked
    <3> QED
      BY <2>5, <3>1, <3>2 DEF Typed
  <2> QED
    BY <2>3, <2>4, <2>5
<1>5. CASE /\ IF chunks[r] > 1 THEN GetJson(r, "keys")
              ELSE pc' = [pc EXCEPT ![r] = "report"] /\ NoCall(r)
           /\ UNCHANGED <<pages, listing, cache>>
  <2>1. CASE GetJson(r, "keys")
    BY <1>2, <1>5, <2>1 DEF Typed, Asked
  <2>2. CASE pc' = [pc EXCEPT ![r] = "report"] /\ NoCall(r)
    <3>1. Ends(r, "report")
      BY <2>2 DEF Ends
    <3> QED
      BY <1>5, <2>2, <3>1 DEF Typed
  <2> QED
    BY <1>5, <2>1, <2>2
<1> QED
  BY <1>3, <1>4, <1>5 DEF Answer

-----------------------------------------------------------------------------
(* The lock.                                                               *)

\* A step that takes no part in acquiring the lock, and lets no run hold it.
Aside ==
  /\ UNCHANGED <<setup, lock, contested>>
  /\ \A q \in Runs :
       /\ pc'[q] \in Acquiring => pc'[q] = pc[q] /\ holder'[q] = holder[q]
       /\ Holds(q)' => Holds(q)

LEMMA AsideKeeps == LockInv /\ Aside => LockInv'
<1>1. SUFFICES ASSUME LockInv, Aside, ~contested' PROVE LockInv'
  BY DEF LockInv
<1>2. /\ \A r, q \in Runs : pc[r] \in Acquiring /\ pc[q] \in Acquiring => r = q
      /\ \A r \in Runs : Holds(r) =>
           /\ lock = Proc(r)
           /\ \A q \in Runs : /\ pc[q] \notin {"lockRemove", "lockWrite"}
                              /\ pc[q] = "lockKill" => holder[q] = Proc(r)
  BY <1>1 DEF LockInv, Aside
<1>3. \A r, q \in Runs : pc'[r] \in Acquiring /\ pc'[q] \in Acquiring => r = q
  BY <1>1, <1>2 DEF Aside
<1>4. ASSUME NEW r \in Runs, Holds(r)', NEW q \in Runs
      PROVE  /\ lock' = Proc(r)'
             /\ pc'[q] \notin {"lockRemove", "lockWrite"}
             /\ pc'[q] = "lockKill" => holder'[q] = Proc(r)'
  <2>1. Holds(r) /\ lock' = lock /\ Proc(r)' = Proc(r)
    BY <1>1, <1>4 DEF Aside, Proc
  <2>2. /\ pc[q] \notin {"lockRemove", "lockWrite"}
        /\ pc[q] = "lockKill" => holder[q] = Proc(r)
    BY <1>2, <2>1
  <2>3. pc'[q] \in Acquiring => pc'[q] = pc[q] /\ holder'[q] = holder[q]
    BY <1>1 DEF Aside
  <2> QED
    BY <1>2, <2>1, <2>2, <2>3 DEF Acquiring
<1> QED
  BY <1>3, <1>4 DEF LockInv

\* What the calls of the file system leave alone.
LockCall(r) ==
  /\ LockOnly
  /\ pc' = [pc EXCEPT ![r] = pc'[r]]
  /\ pc[r] \in {"start", "release"} \cup Acquiring

LEMMA LockCallKeeps ==
  ASSUME IInv, NEW r \in Runs, LockCall(r), DOMAIN holder' = Runs,
         contested => contested',
         pc'[r] \in Acquiring \cup {"release"} => Locks(r),
         pc'[r] \notin {"call", "writing"}
  PROVE  /\ Typed' /\ ControlInv' /\ QueueInv' /\ SpacingInv' /\ WriterInv' /\ CacheInv'
         /\ \A q \in Runs : call'[q].state = "sending" => call[q].state = "sending"
         /\ cache' = cache
<1> USE DEF LockCall, LockOnly, IInv
<1>1. /\ UNCHANGED <<setup, inventory, call, timer, pages, listing, cache, queue, total, since>>
      /\ Clients' = Clients
      /\ \A q \in Runs : Client(q)' = Client(q) /\ Proc(q)' = Proc(q) /\ (Locks(q)' <=> Locks(q))
  BY DEF clientVars, Clients, Client, Proc, Locks
<1>2. /\ DOMAIN pc' = Runs
      /\ \A q \in Runs \ {r} : pc'[q] = pc[q]
  BY DEF Typed
<1>3. ~Calling(r)
  BY DEF ControlInv, Acquiring
<1>4. Typed'
  BY <1>1, <1>2 DEF Typed
<1>5. ControlInv'
  <2>1. SUFFICES ASSUME NEW q \in Runs
                 PROVE  /\ Calling(q)' <=> call'[q].state # "idle"
                        /\ Calling(q)' => pc'[q] = "call" /\ setup'[q].network
                        /\ pc'[q] \in Acquiring \cup {"release"} => Locks(q)'
                        /\ pc'[q] = "writing" => setup'[q].network
    BY DEF ControlInv
  <2>2. CASE q = r
    BY <1>1, <1>3, <2>2 DEF ControlInv, Calling
  <2>3. CASE q # r
    BY <1>1, <1>2, <2>3 DEF ControlInv, Calling
  <2> QED
    BY <2>2, <2>3
<1>6. QueueInv' /\ SpacingInv'
  <2>1. QueueInv'
    BY <1>1 DEF QueueInv, Calling, First
  <2>2. SpacingInv'
    BY <1>1 DEF SpacingInv
  <2> QED
    BY <2>1, <2>2
<1>7. \A q \in Runs : pc'[q] = "writing" => pc[q] = "writing"
  BY <1>2
<1>8. WriterInv' /\ CacheInv'
  <2>1. CacheInv'
    BY <1>1 DEF CacheInv, Previous, Listed
  <2>2. WriterInv'
    BY <1>1, <1>7 DEF WriterInv, Listed
  <2> QED
    BY <2>1, <2>2
<1> QED
  BY <1>1, <1>4, <1>5, <1>6, <1>8

\* One call of the file system after the other.
LEMMA BeginKeeps == ASSUME IInv, NEW r \in Runs, Begin(r) PROVE LockInv'
<1> USE DEF IInv
<1>1. /\ pc[r] = "start" /\ UNCHANGED <<lock, holder, setup>>
      /\ pc' = [pc EXCEPT ![r] = IF ~Locks(r) THEN "ready"
                                 ELSE IF lock = None THEN "lockWrite" ELSE "lockRead"]
      /\ IF Locks(r) THEN Note(r) ELSE UNCHANGED contested
  BY DEF Begin, LockOnly
<1>2. \A q \in Runs : Proc(q)' = Proc(q) /\ (Locks(q)' <=> Locks(q))
  BY <1>1 DEF Proc, Locks
<1>3. \A q \in Runs \ {r} : pc'[q] = pc[q]
  BY <1>1 DEF Typed
<1>4. CASE ~Locks(r)
  <2>1. pc'[r] = "ready"
    BY <1>1, <1>4 DEF Typed
  <2>2. ASSUME NEW q \in Runs
        PROVE  /\ pc'[q] \in Acquiring => pc'[q] = pc[q] /\ holder'[q] = holder[q]
               /\ Holds(q)' => Holds(q)
    BY <1>1, <1>2, <1>3, <1>4, <2>1 DEF Acquiring, Holds
  <2>3. UNCHANGED <<setup, lock, contested>>
    BY <1>1, <1>4
  <2> QED
    BY <2>2, <2>3, AsideKeeps DEF Aside
<1>5. CASE Locks(r)
  <2>1. SUFFICES ASSUME ~contested' PROVE LockInv'
    BY DEF LockInv
  <2>2. ~contested /\ \A q \in Runs \ {r} : pc[q] \notin Acquiring
    BY <1>1, <1>5, <2>1 DEF Note
  <2>3. pc'[r] \in {"lockWrite", "lockRead"} /\ (lock # None => pc'[r] = "lockRead")
    BY <1>1, <1>5 DEF Typed
  <2>4. \A x, q \in Runs : pc'[x] \in Acquiring /\ pc'[q] \in Acquiring => x = q
    BY <1>3, <2>2
  <2>5. ASSUME NEW x \in Runs, Holds(x)', NEW q \in Runs
        PROVE  /\ lock' = Proc(x)'
               /\ pc'[q] \notin {"lockRemove", "lockWrite"}
               /\ pc'[q] = "lockKill" => holder'[q] = Proc(x)'
    <3>1. x # r
      BY <2>3, <2>5 DEF Holds, Holding
    <3>2. Holds(x)
      BY <1>2, <1>3, <2>5, <3>1 DEF Holds
    <3>3. lock = Proc(x) /\ lock # None
      BY <2>2, <3>2, Processes DEF LockInv
    <3>4. CASE q = r
      BY <1>1, <1>2, <2>3, <3>3, <3>4
    <3>5. CASE q # r
      BY <1>1, <1>2, <1>3, <2>2, <3>3, <3>5 DEF Acquiring
    <3> QED
      BY <3>4, <3>5
  <2> QED
    BY <2>4, <2>5 DEF LockInv
<1> QED
  BY <1>4, <1>5

LEMMA LockReadKeeps == ASSUME IInv, NEW r \in Runs, LockRead(r) PROVE LockInv'
<1> USE DEF IInv
<1>1. /\ pc[r] = "lockRead" /\ UNCHANGED <<lock, contested, setup>>
      /\ holder' = [holder EXCEPT ![r] = lock]
      /\ pc' = [pc EXCEPT ![r] = IF lock = None THEN "done" ELSE "lockKill"]
  BY DEF LockRead, LockOnly
<1>2. \A q \in Runs : Proc(q)' = Proc(q) /\ (Locks(q)' <=> Locks(q))
  BY <1>1 DEF Proc, Locks
<1>3. /\ \A q \in Runs \ {r} : pc'[q] = pc[q] /\ holder'[q] = holder[q]
      /\ pc'[r] \in {"done", "lockKill"} /\ holder'[r] = lock
  BY <1>1 DEF Typed
<1>4. SUFFICES ASSUME ~contested PROVE LockInv'
  BY <1>1 DEF LockInv
<1>5. \A x, q \in Runs : pc'[x] \in Acquiring /\ pc'[q] \in Acquiring => x = q
  BY <1>1, <1>3, <1>4 DEF LockInv, Acquiring
<1>6. ASSUME NEW x \in Runs, Holds(x)', NEW q \in Runs
      PROVE  /\ lock' = Proc(x)'
             /\ pc'[q] \notin {"lockRemove", "lockWrite"}
             /\ pc'[q] = "lockKill" => holder'[q] = Proc(x)'
  <2>1. x # r
    BY <1>3, <1>6 DEF Holds, Holding
  <2>2. Holds(x)
    BY <1>2, <1>3, <1>6, <2>1 DEF Holds
  <2>3. /\ lock = Proc(x)
        /\ pc[q] \notin {"lockRemove", "lockWrite"}
        /\ pc[q] = "lockKill" => holder[q] = Proc(x)
    BY <1>4, <2>2 DEF LockInv
  <2> QED
    BY <1>1, <1>2, <1>3, <2>3
<1> QED
  BY <1>5, <1>6 DEF LockInv

\* The holder lives: the lock is refused, or taken and contested.
LEMMA LockKillKeeps == ASSUME IInv, NEW r \in Runs, LockKill(r) PROVE LockInv'
<1> USE DEF IInv
<1>1. /\ pc[r] = "lockKill" /\ UNCHANGED <<lock, setup>>
      /\ holder' = [holder EXCEPT ![r] = None]
      /\ \/ /\ HeldByOther(r) /\ pc' = [pc EXCEPT ![r] = "done"]
            /\ contested' = contested
         \/ /\ pc' = [pc EXCEPT ![r] = "lockRemove"]
            /\ contested' = (contested \/ HeldByOther(r))
  BY DEF LockKill, LockOnly
<1>2. \A q \in Runs : Proc(q)' = Proc(q) /\ (Locks(q)' <=> Locks(q))
  BY <1>1 DEF Proc, Locks
<1>3. /\ \A q \in Runs \ {r} : pc'[q] = pc[q] /\ holder'[q] = holder[q]
      /\ pc'[r] \in {"done", "lockRemove"}
      /\ HeldByOther(r) /\ ~contested' => pc'[r] = "done"
  BY <1>1 DEF Typed
<1>a. SUFFICES ASSUME ~contested' PROVE LockInv'
  BY DEF LockInv
<1>4. ~contested
  BY <1>1, <1>a
<1>5. \A x, q \in Runs : pc'[x] \in Acquiring /\ pc'[q] \in Acquiring => x = q
  BY <1>1, <1>3, <1>4 DEF LockInv, Acquiring
<1>6. ASSUME NEW x \in Runs, Holds(x)', NEW q \in Runs
      PROVE  /\ lock' = Proc(x)'
             /\ pc'[q] \notin {"lockRemove", "lockWrite"}
             /\ pc'[q] = "lockKill" => holder'[q] = Proc(x)'
  <2>1. x # r
    BY <1>3, <1>6 DEF Holds, Holding
  <2>2. Holds(x)
    BY <1>2, <1>3, <1>6, <2>1 DEF Holds
  <2>3. /\ lock = Proc(x) /\ holder[r] = Proc(x)
        /\ pc[q] \notin {"lockRemove", "lockWrite"}
        /\ pc[q] = "lockKill" => holder[q] = Proc(x)
    BY <1>1, <1>4, <2>2 DEF LockInv
  <2>4. Locks(r) /\ Locks(x)
    BY <1>1, <2>2 DEF ControlInv, Acquiring, Holds
  <2>5. Proc(x) # Proc(r)
    BY <2>1, <2>4, Processes
  <2>6. Alive(Proc(x))
    BY <2>2 DEF Alive, Holds, Holding, Ended
  <2>7. pc'[r] = "done"
    BY <1>3, <1>a, <2>3, <2>5, <2>6 DEF HeldByOther
  <2> QED
    BY <1>1, <1>2, <1>3, <2>3, <2>7
<1> QED
  BY <1>5, <1>6 DEF LockInv

\* The lock file of a run that does not hold it goes, and the run's own comes.
LEMMA LockRemoveKeeps == ASSUME IInv, NEW r \in Runs, LockRemove(r) PROVE LockInv'
<1> USE DEF IInv
<1>1. /\ pc[r] = "lockRemove" /\ UNCHANGED <<holder, contested, setup>>
      /\ pc' = [pc EXCEPT ![r] = IF lock = None THEN "done" ELSE "lockWrite"]
  BY DEF LockRemove, LockOnly
<1>2. \A q \in Runs : Locks(q)' <=> Locks(q)
  BY <1>1 DEF Locks
<1>3. /\ \A q \in Runs \ {r} : pc'[q] = pc[q]
      /\ pc'[r] \in {"done", "lockWrite"}
  BY <1>1 DEF Typed
<1>4. SUFFICES ASSUME ~contested PROVE LockInv'
  BY <1>1 DEF LockInv
<1>5. \A x, q \in Runs : pc'[x] \in Acquiring /\ pc'[q] \in Acquiring => x = q
  BY <1>1, <1>3, <1>4 DEF LockInv, Acquiring
<1>6. \A x \in Runs : ~Holds(x)
  BY <1>1, <1>4 DEF LockInv
<1>7. \A x \in Runs : ~Holds(x)'
  BY <1>2, <1>3, <1>6 DEF Holds, Holding
<1> QED
  BY <1>5, <1>7 DEF LockInv

LEMMA LockWriteKeeps == ASSUME IInv, NEW r \in Runs, LockWrite(r) PROVE LockInv'
<1> USE DEF IInv
<1>1. /\ pc[r] = "lockWrite" /\ UNCHANGED <<holder, contested, setup>>
      /\ lock' = Proc(r) /\ pc' = [pc EXCEPT ![r] = "ready"]
  BY DEF LockWrite, LockOnly
<1>2. \A q \in Runs : Proc(q)' = Proc(q) /\ (Locks(q)' <=> Locks(q))
  BY <1>1 DEF Proc, Locks
<1>3. /\ \A q \in Runs \ {r} : pc'[q] = pc[q]
      /\ pc'[r] = "ready"
  BY <1>1 DEF Typed
<1>4. SUFFICES ASSUME ~contested PROVE LockInv'
  BY <1>1 DEF LockInv
<1>5. \A q \in Runs : pc'[q] \notin Acquiring
  BY <1>1, <1>3, <1>4 DEF LockInv, Acquiring
<1>6. \A x \in Runs : ~Holds(x)
  BY <1>1, <1>4 DEF LockInv
<1>7. \A x \in Runs : Holds(x)' => x = r
  BY <1>2, <1>3, <1>6 DEF Holds, Holding
<1>8. \A q \in Runs : pc'[q] \notin {"lockRemove", "lockWrite", "lockKill"}
  BY <1>5 DEF Acquiring
<1> QED
  BY <1>1, <1>2, <1>5, <1>7, <1>8 DEF LockInv

LEMMA ReleaseKeeps == ASSUME IInv, NEW r \in Runs, Release(r) PROVE LockInv'
<1> USE DEF IInv
<1>1. /\ pc[r] = "release" /\ UNCHANGED <<holder, contested, setup>>
      /\ pc' = [pc EXCEPT ![r] = "done"]
  BY DEF Release, LockOnly
<1>2. \A q \in Runs : Locks(q)' <=> Locks(q)
  BY <1>1 DEF Locks
<1>3. /\ \A q \in Runs \ {r} : pc'[q] = pc[q]
      /\ pc'[r] = "done"
  BY <1>1 DEF Typed
<1>4. SUFFICES ASSUME ~contested PROVE LockInv'
  BY <1>1 DEF LockInv
<1>5. \A x, q \in Runs : pc'[x] \in Acquiring /\ pc'[q] \in Acquiring => x = q
  BY <1>1, <1>3, <1>4 DEF LockInv, Acquiring
<1>6. Holds(r)
  BY <1>1 DEF ControlInv, Holds, Holding
<1>7. \A x \in Runs : Holds(x) => x = r
  <2>1. SUFFICES ASSUME NEW x \in Runs, Holds(x), x # r PROVE FALSE
    OBVIOUS
  <2>2. lock = Proc(x) /\ lock = Proc(r)
    BY <1>4, <1>6, <2>1 DEF LockInv
  <2>3. Proc(x) # Proc(r)
    BY <1>6, <2>1, Processes DEF Holds
  <2> QED
    BY <2>2, <2>3
<1>8. \A x \in Runs : ~Holds(x)'
  BY <1>2, <1>3, <1>7 DEF Holds, Holding
<1> QED
  BY <1>5, <1>8 DEF LockInv

-----------------------------------------------------------------------------
(* The steps.                                                              *)

\* The body of RateHolds, and that of CoverageKept.
Rated ==
  \A r \in Runs : Sends(r) =>
    /\ since[Client(r)] = MinInterval
    /\ total[Client(r)] < ApiBudget
    /\ \A q \in Runs : Client(q) = Client(r) => call[q].state # "sending"
    /\ \A q \in Runs \ {r} :
         (Locks(r) /\ Locks(q) /\ ~contested) => pc[q] \notin Holding

Covered ==
  (~contested /\ cache \notin {None, Unreadable} /\ cache' # cache) =>
    \E r \in Runs :
      /\ pc'[r] = "writing"
      /\ LET run == listing'[r]
             now == Len(ItemsFromPages(run.pages, run.cap))
             then == Len(ItemsFromPages(cache.pages, cache.cap))
         IN  /\ now > 0 /\ 2 * now >= then
             /\ run.pages[Len(run.pages)].next = None \/ now = run.cap

Kept == IInv' /\ Rated /\ Covered

\* Nobody sends and the file stays.
LEMMA NothingSent ==
  ASSUME \A q \in Runs : call'[q].state = "sending" => call[q].state = "sending",
         cache' = cache
  PROVE  Rated /\ Covered
BY DEF Rated, Covered, Sends

\* The file's invariants over a step that leaves the file alone.
LEMMA PassiveKeeps ==
  ASSUME WriterInv, CacheInv, Passive, UNCHANGED setup, contested => contested'
  PROVE  WriterInv' /\ CacheInv'
<1>1. \A q \in Runs : Proc(q)' = Proc(q)
  BY DEF Proc
<1>2. CacheInv'
  BY DEF CacheInv, Passive, Previous, Listed
<1>3. WriterInv'
  BY <1>1 DEF WriterInv, Passive, Listed
<1> QED
  BY <1>2, <1>3

\* Whoever calls and is at the head of its queue is first.
LEMMA TurnIsFirst ==
  ASSUME IInv, NEW r \in Runs, Calling(r), Head(queue[Client(r)]) = r
  PROVE  First(r)
<1>1. PICK i \in DOMAIN queue[Client(r)] : queue[Client(r)][i] = r
  BY DEF IInv, QueueInv
<1>2. queue[Client(r)] \in Seq(Runs)
  BY DEF IInv, Typed, Clients
<1>3. queue[Client(r)] # << >>
  BY <1>1, <1>2
<1> QED
  BY <1>3 DEF First

\* A call changes its state and nothing moves.
Paused(r, state) ==
  /\ call' = [call EXCEPT ![r].state = state]
  /\ UNCHANGED <<setup, inventory, lock, holder, contested, crashes, pc, queue,
                 chunks, pages, listing, cache>>

LEMMA PausedKeeps ==
  ASSUME IInv, NEW r \in Runs, Calling(r), First(r),
         NEW state \in {"spacing", "sending", "backoff"}, Paused(r, state)
  PROVE  /\ ControlInv' /\ QueueInv' /\ LockInv' /\ WriterInv' /\ CacheInv' /\ Covered
         /\ \A q \in Runs \ {r} : call'[q] = call[q]
         /\ call'[r].state = state
         /\ call' \in [Runs -> [of : Asked \cup {"none"},
                                state : {"idle", "queued", "spacing", "sending", "backoff"}]]
<1> USE DEF IInv
<1>1. /\ UNCHANGED <<setup, lock, holder, contested, pc, queue, listing, cache>>
      /\ Clients' = Clients
      /\ \A q \in Runs : /\ Client(q)' = Client(q) /\ Proc(q)' = Proc(q)
                         /\ Locks(q)' <=> Locks(q)
  BY DEF Paused, Clients, Client, Proc, Locks
<1>2. call[r] \in [of : Asked \cup {"none"},
                   state : {"idle", "queued", "spacing", "sending", "backoff"}]
  BY DEF Typed
<1>3. /\ call' = [call EXCEPT ![r] = [call[r] EXCEPT !.state = state]]
  BY DEF Paused
<1>4. /\ call'[r].state = state /\ call'[r].of = call[r].of
      /\ \A q \in Runs \ {r} : call'[q] = call[q]
      /\ call' \in [Runs -> [of : Asked \cup {"none"},
                             state : {"idle", "queued", "spacing", "sending", "backoff"}]]
  BY <1>2, <1>3 DEF Typed
<1>5. \A q \in Runs : Calling(q)' <=> Calling(q)
  BY <1>4 DEF Calling
<1>6. ControlInv'
  <2>1. ASSUME NEW q \in Runs PROVE Calling(q)' <=> call'[q].state # "idle"
    BY <1>4, <1>5 DEF ControlInv
  <2>2. ASSUME NEW q \in Runs
        PROVE  /\ Calling(q)' => pc'[q] = "call" /\ setup'[q].network
               /\ pc'[q] \in Acquiring \cup {"release"} => Locks(q)'
               /\ pc'[q] = "writing" => setup'[q].network
    BY <1>1, <1>5 DEF ControlInv
  <2> QED
    BY <2>1, <2>2 DEF ControlInv
<1>7. QueueInv'
  <2>1. ASSUME NEW q \in Runs, Calling(q)'
        PROVE  \E i \in DOMAIN queue'[Client(q)] : queue'[Client(q)][i] = q
    BY <1>1, <1>5, <2>1 DEF QueueInv
  <2>2. ASSUME NEW q \in Runs, call'[q].state \in {"spacing", "sending"}
        PROVE  First(q)'
    <3>1. First(q)
      BY <1>4, <2>2 DEF QueueInv
    <3> QED
      BY <1>1, <3>1 DEF First
  <2> QED
    BY <1>1, <2>1, <2>2 DEF QueueInv
<1>8. LockInv'
  <2>1. Aside
    BY <1>1 DEF Aside, Holds
  <2> QED
    BY <2>1, AsideKeeps
<1>9. WriterInv' /\ CacheInv'
  BY <1>1, PassiveKeeps DEF Passive
<1>10. Covered
  BY <1>1 DEF Covered
<1> QED
  BY <1>4, <1>6, <1>7, <1>8, <1>9, <1>10

\* A request is sent: the interval is over, and the others are not at it.
LEMMA SendKeeps ==
  ASSUME IInv, NEW r \in Runs, Calling(r), First(r), call[r].state # "sending",
         since[Client(r)] >= MinInterval, total[Client(r)] < ApiBudget, Send(r),
         UNCHANGED <<setup, inventory, lock, holder, contested, crashes>>
  PROVE  Kept
<1> USE DEF IInv
<1>1. /\ Paused(r, "sending")
      /\ since' = [since EXCEPT ![Client(r)] = 0]
      /\ total' = [total EXCEPT ![Client(r)] = @ + 1]
      /\ timer' = timer
  BY DEF Send, Paused
<1>2. /\ ControlInv' /\ QueueInv' /\ LockInv' /\ WriterInv' /\ CacheInv' /\ Covered
      /\ \A q \in Runs \ {r} : call'[q] = call[q]
      /\ call'[r].state = "sending"
      /\ call' \in [Runs -> [of : Asked \cup {"none"},
                             state : {"idle", "queued", "spacing", "sending", "backoff"}]]
  BY <1>1, PausedKeeps
<1>3. Clients' = Clients /\ \A q \in Runs : Client(q)' = Client(q)
  BY DEF Clients, Client
<1>4. Client(r) \in Clients
  BY DEF Clients
<1>5. Typed'
  <2>1. since' \in [Clients -> 0..MinInterval] /\ total' \in [Clients -> Nat]
    BY <1>1, <1>4, DiscoveryAssumption DEF Typed
  <2> QED
    BY <1>1, <1>2, <1>3, <2>1 DEF Typed, Paused
<1>6. SpacingInv'
  <2>1. SUFFICES ASSUME NEW q \in Runs, call'[q].state = "spacing"
                 PROVE  /\ timer'[q] = MinInterval - since'[Client(q)]
                        /\ total'[Client(q)] < ApiBudget
    BY <1>3 DEF SpacingInv
  <2>2. q # r /\ call[q].state = "spacing"
    BY <1>2, <2>1
  <2>3. Client(q) # Client(r)
    BY <2>2, OneFirst DEF QueueInv
  <2>4. Client(q) \in Clients
    BY DEF Clients
  <2>5. since'[Client(q)] = since[Client(q)] /\ total'[Client(q)] = total[Client(q)]
    BY <1>1, <2>3, <2>4 DEF Typed
  <2> QED
    BY <1>1, <2>2, <2>5 DEF SpacingInv
<1>7. Rated
  <2>1. SUFFICES ASSUME NEW x \in Runs, Sends(x)
                 PROVE  /\ since[Client(x)] = MinInterval
                        /\ total[Client(x)] < ApiBudget
                        /\ \A q \in Runs : Client(q) = Client(x) => call[q].state # "sending"
                        /\ \A q \in Runs \ {x} :
                             (Locks(x) /\ Locks(q) /\ ~contested) => pc[q] \notin Holding
    BY DEF Rated
  <2>2. x = r
    BY <1>2, <2>1 DEF Sends
  <2>3. since[Client(r)] = MinInterval
    BY <1>4, DiscoveryAssumption DEF Typed
  <2>4. \A q \in Runs : Client(q) = Client(r) => call[q].state # "sending"
    BY OneFirst DEF QueueInv
  <2>5. ASSUME NEW q \in Runs \ {r}, Locks(r), Locks(q), ~contested, pc[q] \in Holding
        PROVE  FALSE
    <3>1. Holds(r) /\ Holds(q)
      BY <2>5 DEF Holds, ControlInv, Holding
    <3>2. lock = Proc(r) /\ lock = Proc(q)
      BY <2>5, <3>1 DEF LockInv
    <3> QED
      BY <2>5, <3>2, Processes
  <2> QED
    BY <2>2, <2>3, <2>4, <2>5
<1> QED
  BY <1>2, <1>5, <1>6, <1>7 DEF Kept

\* A run waits, for the interval or before it tries again.
LEMMA WaitKeeps ==
  ASSUME IInv, NEW r \in Runs, Calling(r), First(r),
         NEW state \in {"spacing", "backoff"}, Paused(r, state),
         NEW ticks \in Nat, timer' = [timer EXCEPT ![r] = ticks],
         state = "spacing" => /\ ticks = MinInterval - since[Client(r)]
                              /\ total[Client(r)] < ApiBudget,
         UNCHANGED <<total, since>>
  PROVE  Kept
<1> USE DEF IInv
<1>1. /\ ControlInv' /\ QueueInv' /\ LockInv' /\ WriterInv' /\ CacheInv' /\ Covered
      /\ \A q \in Runs \ {r} : call'[q] = call[q]
      /\ call'[r].state = state
      /\ call' \in [Runs -> [of : Asked \cup {"none"},
                             state : {"idle", "queued", "spacing", "sending", "backoff"}]]
  BY PausedKeeps
<1>2. Clients' = Clients /\ \A q \in Runs : Client(q)' = Client(q)
  BY DEF Clients, Client, Paused
<1>3. Typed'
  <2>1. timer' \in [Runs -> Nat]
    BY DEF Typed
  <2> QED
    BY <1>1, <1>2, <2>1 DEF Typed, Paused
<1>4. SpacingInv'
  <2>1. SUFFICES ASSUME NEW q \in Runs, call'[q].state = "spacing"
                 PROVE  /\ timer'[q] = MinInterval - since[Client(q)]
                        /\ total[Client(q)] < ApiBudget
    BY <1>2 DEF SpacingInv
  <2>2. CASE q = r
    BY <1>1, <2>1, <2>2 DEF Typed
  <2>3. CASE q # r
    BY <1>1, <2>1, <2>3 DEF Typed, SpacingInv
  <2> QED
    BY <2>2, <2>3
<1>5. Rated
  BY <1>1 DEF Rated, Sends
<1> QED
  BY <1>1, <1>3, <1>4, <1>5 DEF Kept

\* The run's own step: what it does to everything but the file.
LEMMA MovesKeeps ==
  ASSUME IInv, NEW r \in Runs, Proceeds(r), pc[r] \in {"ready", "writing", "call"},
         \A q \in Runs \ {r} : pc'[q] = pc[q]
  PROVE  /\ Typed' /\ ControlInv' /\ QueueInv' /\ SpacingInv' /\ LockInv' /\ Rated
         /\ \A q \in Runs : Proc(q)' = Proc(q)
<1> USE DEF IInv
<1>1. /\ UNCHANGED <<setup, lock, holder, contested>>
      /\ \A q \in Runs : Proc(q)' = Proc(q) /\ (Locks(q)' <=> Locks(q))
  BY DEF Proceeds, Proc, Locks
<1>2. /\ Typed' /\ ControlInv' /\ QueueInv' /\ SpacingInv'
      /\ \A q \in Runs : call'[q].state = "sending" => call[q].state = "sending"
  BY ProceedsKeeps
<1>3. pc'[r] \in {"call", "report", "writing", "release", "done"}
  <2>1. CASE Asks(r)
    <3>1. pc' = [pc EXCEPT ![r] = "call"]
      BY <2>1 DEF Asks, GetJson
    <3> QED
      BY <3>1 DEF Typed
  <2>2. CASE \E v : Ends(r, v)
    BY <2>2 DEF Ends, Typed
  <2> QED
    BY <2>1, <2>2 DEF Proceeds
<1>4. Aside
  <2>1. ASSUME NEW q \in Runs
        PROVE  /\ pc'[q] \in Acquiring => pc'[q] = pc[q] /\ holder'[q] = holder[q]
               /\ Holds(q)' => Holds(q)
    <3>1. CASE q = r
      BY <1>1, <1>3, <3>1 DEF Acquiring, Holds, Holding
    <3>2. CASE q # r
      BY <1>1, <3>2 DEF Holds
    <3> QED
      BY <3>1, <3>2
  <2> QED
    BY <1>1, <2>1 DEF Aside
<1>5. LockInv'
  BY <1>4, AsideKeeps
<1>6. Rated
  BY <1>2 DEF Rated, Sends
<1> QED
  BY <1>1, <1>2, <1>5, <1>6

\* A step of its own that leaves the file alone.
LEMMA QuietKeeps ==
  ASSUME IInv, NEW r \in Runs, Proceeds(r), pc[r] \in {"ready", "call"},
         \A q \in Runs \ {r} : pc'[q] = pc[q] /\ listing'[q] = listing[q],
         pc'[r] # "writing", cache' = cache
  PROVE  Kept
<1>1. /\ Typed' /\ ControlInv' /\ QueueInv' /\ SpacingInv' /\ LockInv' /\ Rated
  BY MovesKeeps
<1>2. Passive
  BY DEF Passive
<1>3. WriterInv' /\ CacheInv'
  BY <1>2, PassiveKeeps DEF IInv, Proceeds
<1> QED
  BY <1>1, <1>3 DEF Kept, IInv, Covered

LEMMA ReadyKeeps == ASSUME IInv, NEW r \in Runs, Ready(r) PROVE Kept
<1> USE DEF IInv
<1>1. /\ pc[r] = "ready"
      /\ UNCHANGED <<setup, inventory, lock, holder, total, since, contested, crashes>>
  BY DEF Ready
<1>2. ~Calling(r)
  BY <1>1 DEF ControlInv
<1>3. CASE /\ ~Reuses(r) /\ GetJson(r, "version")
           /\ UNCHANGED <<chunks, pages, listing, cache>>
  <2>1. Asks(r)
    BY <1>3 DEF Reuses, Asks, Asked
  <2>2. pc' = [pc EXCEPT ![r] = "call"]
    BY <1>3 DEF GetJson
  <2>3. Proceeds(r)
    BY <1>1, <1>2, <1>3, <2>1 DEF Proceeds, Typed
  <2> QED
    BY <1>1, <1>3, <2>2, <2>3, QuietKeeps DEF Typed
<1>4. CASE Throw(r)
  <2>1. /\ \E v : Ends(r, v)
        /\ pages' \in [Runs -> Seq(Pages)]
        /\ UNCHANGED <<listing, cache>>
        /\ \A q \in Runs \ {r} : pc'[q] = pc[q]
        /\ pc'[r] # "writing"
    BY <1>4, ThrowProceeds
  <2>2. Proceeds(r)
    BY <1>1, <1>2, <2>1 DEF Proceeds, Typed
  <2> QED
    BY <1>1, <2>1, <2>2, QuietKeeps
<1>5. CASE /\ listing' = [listing EXCEPT ![r] = cache]
           /\ BuildReport(r, cache) /\ UNCHANGED <<pages, cache>>
  <2>1. /\ Asks(r) \/ \E v : Ends(r, v)
        /\ \A q \in Runs \ {r} : pc'[q] = pc[q]
        /\ pc'[r] # "writing"
    BY <1>5, BuildReportProceeds
  <2>2. DOMAIN listing' = Runs /\ \A q \in Runs \ {r} : listing'[q] = listing[q]
    BY <1>5 DEF Typed
  <2>3. Proceeds(r)
    BY <1>1, <1>2, <1>5, <2>1, <2>2 DEF Proceeds, Typed
  <2> QED
    BY <1>1, <1>5, <2>1, <2>2, <2>3, QuietKeeps
<1> QED
  BY <1>3, <1>4, <1>5 DEF Ready

\* No two runs write while no two were taking the lock.
LEMMA WritersApart ==
  ASSUME IInv, ~contested, NEW r \in Runs, NEW q \in Runs, r # q,
         pc[r] = "writing", pc[q] = "writing"
  PROVE  FALSE
<1>1. Proc(r) # Proc(q)
  BY DEF IInv, WriterInv
<1>2. setup[r].network /\ setup[q].network
  BY DEF IInv, ControlInv
<1>3. Holds(r) /\ Holds(q)
  BY <1>1, <1>2, Processes DEF IInv, Holds, Holding
<1>4. lock = Proc(r) /\ lock = Proc(q)
  BY <1>3 DEF IInv, LockInv
<1> QED
  BY <1>1, <1>4

LEMMA WriteCacheKeeps == ASSUME IInv, NEW r \in Runs, WriteCache(r) PROVE Kept
<1> USE DEF IInv
<1>1. /\ pc[r] = "writing" /\ cache' = listing[r] /\ BuildReport(r, listing[r])
      /\ UNCHANGED <<setup, inventory, lock, holder, pages, listing, total, since,
                     contested, crashes>>
  BY DEF WriteCache
<1>2. ~Calling(r)
  BY <1>1 DEF ControlInv
<1>3. /\ Asks(r) \/ \E v : Ends(r, v)
      /\ \A q \in Runs \ {r} : pc'[q] = pc[q]
      /\ pc'[r] # "writing"
  BY <1>1, BuildReportProceeds
<1>4. Proceeds(r)
  BY <1>1, <1>2, <1>3 DEF Proceeds, Typed
<1>5. /\ Typed' /\ ControlInv' /\ QueueInv' /\ SpacingInv' /\ LockInv' /\ Rated
      /\ \A q \in Runs : Proc(q)' = Proc(q)
  BY <1>1, <1>3, <1>4, MovesKeeps
<1>6. Listed(listing[r])
  BY <1>1 DEF WriterInv
<1>7. CacheInv'
  <2>1. Listed(cache)'
    BY <1>1, <1>6 DEF Listed
  <2> QED
    BY <2>1 DEF CacheInv
<1>8. \A q \in Runs : pc'[q] = "writing" => q # r /\ pc[q] = "writing" /\ listing'[q] = listing[q]
  BY <1>1, <1>3
<1>9. WriterInv'
  <2>1. ~contested => \A q \in Runs : pc'[q] # "writing"
    BY <1>1, <1>8, WritersApart
  <2>2. \A q \in Runs : pc'[q] = "writing" => Listed(listing'[q])
    BY <1>8 DEF WriterInv
  <2>3. \A x, q \in Runs :
          x # q /\ pc'[x] = "writing" /\ pc'[q] = "writing" => Proc(x)' # Proc(q)'
    BY <1>5, <1>8 DEF WriterInv
  <2> QED
    BY <1>1, <2>1, <2>2, <2>3 DEF WriterInv, Listed
<1>10. Covered
  BY <1>1 DEF Covered, WriterInv
<1> QED
  BY <1>5, <1>7, <1>9, <1>10 DEF Kept

-----------------------------------------------------------------------------
(* Listings are finite, and count what can be read from their pages.       *)

\* A set of naturals has a least.
LEMMA LeastOf ==
  ASSUME NEW B \in SUBSET Nat, B # {}
  PROVE  \E n \in B : \A m \in B : n <= m
<1> DEFINE R == OpToRel(<, Nat)
<1>1. IsWellFoundedOn(R, Nat)
  BY NatLessThanWellFounded
<1>2. \A x, y \in Nat : x < y => <<x, y>> \in R
  BY DEF OpToRel
<1> HIDE DEF R
<1>3. PICK n \in B : \A m \in B : ~(<<m, n>> \in R)
  BY <1>1, WFMin
<1>4. \A m \in B : ~(m < n)
  BY <1>2, <1>3
<1> QED
  BY <1>4

\* What holds at first and is kept by every page holds of all pages.
LEMMA EveryPage ==
  ASSUME NEW N \in Nat, NEW G, 0 \in G, \A n \in 1..N : n - 1 \in G => n \in G
  PROVE  \A n \in 0..N : n \in G
<1> DEFINE Bad == {n \in 0..N : n \notin G}
<1>1. SUFFICES ASSUME Bad # {} PROVE FALSE
  OBVIOUS
<1>2. PICK n \in Bad : \A m \in Bad : n <= m
  <2>1. Bad \in SUBSET Nat
    OBVIOUS
  <2> HIDE DEF Bad
  <2> QED
    BY <1>1, <2>1, LeastOf
<1>3. n \in 0..N /\ n \notin G
  OBVIOUS
<1>4. n # 0 /\ n \in 1..N /\ n - 1 \in 0..N
  BY <1>3
<1>5. n - 1 \notin Bad
  BY <1>2, <1>4
<1> QED
  BY <1>3, <1>4, <1>5

LEMMA PagesAreFinite ==
  ASSUME NEW ps \in Seq(Pages)
  PROVE  IsFiniteSet(Occurrences(ps))
<1> DEFINE N == Len(ps)
           U == [n \in 0..N |-> UNION {{i} \X DOMAIN ps[i].items : i \in 1..n}]
           G == {n \in 0..N : IsFiniteSet(U[n])}
<1>1. N \in Nat /\ DOMAIN ps = 1..N
  OBVIOUS
<1>2. 0 \in G
  <2>1. U[0] = {}
    BY <1>1
  <2> QED
    BY <1>1, <2>1, FS_EmptySet
<1>3. ASSUME NEW n \in 1..N, n - 1 \in G PROVE n \in G
  <2>1. n - 1 \in 0..N /\ n \in 0..N /\ 1..n = (1..(n - 1)) \cup {n}
    BY <1>1
  <2>2. U[n] = U[n - 1] \cup ({n} \X DOMAIN ps[n].items)
    BY <2>1
  <2>3. ps[n] \in Pages
    BY <1>1, <1>3
  <2>4. Len(ps[n].items) \in Nat /\ DOMAIN ps[n].items = 1..Len(ps[n].items)
    BY <2>3, DiscoveryAssumption
  <2>5. IsFiniteSet(DOMAIN ps[n].items)
    <3> DEFINE M == Len(ps[n].items)
    <3>1. M \in Int /\ 1 \in Int /\ DOMAIN ps[n].items = 1..M
      BY <2>4
    <3> HIDE DEF M
    <3>2. IsFiniteSet(1..M)
      BY <3>1, FS_Interval
    <3> QED
      BY <3>1, <3>2
  <2>6. IsFiniteSet({n} \X DOMAIN ps[n].items)
    BY <2>5, FS_Singleton, FS_Product
  <2>7. IsFiniteSet(U[n - 1])
    BY <1>3
  <2> HIDE DEF U
  <2>8. IsFiniteSet(U[n - 1] \cup ({n} \X DOMAIN ps[n].items))
    BY <2>6, <2>7, FS_Union
  <2>9. IsFiniteSet(U[n])
    BY <2>2, <2>8
  <2> QED
    BY <2>1, <2>9
<1>4. \A n \in 0..N : n \in G
  <2> HIDE DEF G
  <2> QED
    BY <1>1, <1>2, <1>3, EveryPage
<1>5. IsFiniteSet(U[N])
  BY <1>1, <1>4
<1>6. U[N] = Occurrences(ps)
  BY <1>1 DEF Occurrences
<1> QED
  BY <1>5, <1>6

LEMMA ItemsAreCounted ==
  ASSUME NEW ps \in Seq(Pages)
  PROVE  /\ Total(ps) \in Nat
         /\ Len(ItemsFromPages(ps, Cap)) = Least(Total(ps), Cap)
<1> DEFINE n == Cardinality(FirstOccurrences(ps))
           ids == DistinctIds(ps)
<1>1. IsFiniteSet(FirstOccurrences(ps))
  BY PagesAreFinite, FS_Subset DEF FirstOccurrences
<1>2. n \in Nat
  BY <1>1, FS_CardinalityType
<1> HIDE DEF n
<1>3. ids = [i \in 1..n |-> ids[i]]
  <2> DEFINE firsts == InOrder(FirstOccurrences(ps), Earlier)
  <2>1. DOMAIN firsts = 1..n
    BY DEF InOrder, n
  <2>2. ids = [i \in DOMAIN firsts |-> IdAt(ps, firsts[i])]
    BY DEF DistinctIds
  <2> HIDE DEF firsts, ids
  <2> QED
    BY <2>1, <2>2
<1>4. ids \in Seq({ids[i] : i \in 1..n}) /\ Len(ids) = n
  BY <1>2, <1>3
<1> HIDE DEF ids
<1>5. Total(ps) = n
  BY <1>4 DEF Total, ids
<1>6. Cap \in Nat /\ Least(Cap, n) = Least(n, Cap) /\ Least(n, Cap) \in 0..n
  BY <1>2, DiscoveryAssumption DEF Least
<1>7. Len(SubSeq(ids, 1, Least(Cap, n))) = Least(n, Cap)
  BY <1>2, <1>4, <1>6, SubSeqProperties
<1>8. ItemsFromPages(ps, Cap) = SubSeq(ids, 1, Least(Cap, n))
  BY <1>4 DEF ItemsFromPages, ids
<1> QED
  BY <1>2, <1>5, <1>7, <1>8

\* A listing that is not degraded covers what the one before it covered.
LEMMA UndegradedCovers ==
  ASSUME NEW ps \in Seq(Pages), ps # << >>, Previous, Listed(cache),
         ~(Degraded(ListRun(ps)) /\ Previous)
  PROVE  LET run == ListRun(ps)
             now == Len(ItemsFromPages(run.pages, run.cap))
             then == Len(ItemsFromPages(cache.pages, cache.cap))
         IN  /\ now > 0 /\ 2 * now >= then
             /\ run.pages[Len(run.pages)].next = None \/ now = run.cap
<1> DEFINE run == ListRun(ps)
<1>1. /\ run.pages = ps /\ run.cap = Cap /\ run.stoppedReason = StoppedReason(ps)
      /\ run.capped = (StoppedReason(ps) = "CAP_REACHED")
      /\ run.totalItems = Least(Total(ps), Cap)
  BY DEF ListRun
<1>2. PICK old \in Seq(Pages) : old # << >> /\ cache = ListRun(old)
  BY DEF Listed
<1>3. /\ cache.pages = old /\ cache.cap = Cap
      /\ cache.totalItems = Least(Total(old), Cap)
  BY <1>2 DEF ListRun
<1>4. /\ Total(ps) \in Nat /\ Len(ItemsFromPages(ps, Cap)) = run.totalItems
      /\ Total(old) \in Nat /\ Len(ItemsFromPages(old, Cap)) = cache.totalItems
  BY <1>1, <1>3, ItemsAreCounted
<1>5. /\ run.totalItems # 0 /\ ~(2 * run.totalItems < cache.totalItems)
      /\ run.capped \/ run.stoppedReason = "LAST_PAGE"
  BY DEF Degraded
<1>6. run.totalItems \in Nat /\ cache.totalItems \in Nat
  BY <1>1, <1>3, <1>4, DiscoveryAssumption DEF Least
<1>7. run.stoppedReason = "LAST_PAGE" => ps[Len(ps)].next = None
  BY <1>1 DEF StoppedReason
<1>8. run.capped => run.totalItems = Cap
  <2>1. SUFFICES ASSUME StoppedReason(ps) = "CAP_REACHED" PROVE Least(Total(ps), Cap) = Cap
    BY <1>1
  <2>2. Total(ps) >= Cap
    BY <2>1 DEF StoppedReason
  <2> QED
    BY <1>4, <2>2, DiscoveryAssumption DEF Least
<1> HIDE DEF run
<1>9. /\ run.totalItems > 0 /\ 2 * run.totalItems >= cache.totalItems
  BY <1>5, <1>6
<1>10. run.pages[Len(run.pages)].next = None \/ run.totalItems = run.cap
  BY <1>1, <1>5, <1>7, <1>8
<1> QED
  BY <1>1, <1>3, <1>4, <1>9, <1>10 DEF run

-----------------------------------------------------------------------------
(* The calls.                                                              *)

\* Nothing is left to try.
LEMMA FailKeeps ==
  ASSUME IInv, NEW r \in Runs, Calling(r), First(r), Fail(r),
         UNCHANGED <<setup, inventory, lock, holder, total, since, contested, crashes>>
  PROVE  Kept
<1> USE DEF IInv
<1>1. /\ Asks(r) \/ \E v : Ends(r, v)
      /\ pages' \in [Runs -> Seq(Pages)]
      /\ UNCHANGED <<listing, cache>>
      /\ \A q \in Runs \ {r} : pc'[q] = pc[q]
      /\ pc'[r] # "writing"
  BY FailProceeds
<1>2. pc[r] = "call"
  BY DEF ControlInv
<1>3. Proceeds(r)
  BY <1>1 DEF Proceeds, Typed
<1> QED
  BY <1>1, <1>2, <1>3, QuietKeeps

LEMMA AttemptKeeps == ASSUME IInv, NEW r \in Runs, Attempt(r) PROVE Kept
<1> USE DEF IInv
<1>1. /\ Head(queue[Client(r)]) = r /\ call[r].state \in {"queued", "backoff"}
      /\ UNCHANGED <<setup, inventory, lock, holder, contested, crashes>>
  BY DEF Attempt, Turn
<1>2. Calling(r) /\ Client(r) \in Clients
  BY <1>1 DEF ControlInv, Clients
<1>3. First(r)
  BY <1>1, <1>2, TurnIsFirst
<1>4. CASE Fail(r) /\ UNCHANGED <<total, since>>
  BY <1>1, <1>2, <1>3, <1>4, FailKeeps
<1>5. CASE /\ total[Client(r)] < ApiBudget /\ since[Client(r)] < MinInterval
           /\ call' = [call EXCEPT ![r].state = "spacing"]
           /\ timer' = [timer EXCEPT ![r] = MinInterval - since[Client(r)]]
           /\ UNCHANGED <<pc, attempt, queue, chunks, pages, listing, cache, total, since>>
  <2>1. Paused(r, "spacing")
    BY <1>1, <1>5 DEF Paused
  <2>2. MinInterval - since[Client(r)] \in Nat
    BY <1>2, DiscoveryAssumption DEF Typed
  <2> QED
    BY <1>2, <1>3, <1>5, <2>1, <2>2, WaitKeeps
<1>6. CASE /\ total[Client(r)] < ApiBudget /\ since[Client(r)] >= MinInterval /\ Send(r)
  BY <1>1, <1>2, <1>3, <1>6, SendKeeps
<1> QED
  BY <1>4, <1>5, <1>6 DEF Attempt

LEMMA SpacedKeeps == ASSUME IInv, NEW r \in Runs, Spaced(r) PROVE Kept
<1> USE DEF IInv
<1>1. /\ call[r].state = "spacing" /\ timer[r] = 0 /\ Send(r)
      /\ UNCHANGED <<setup, inventory, lock, holder, contested, crashes>>
  BY DEF Spaced
<1>2. Calling(r) /\ First(r) /\ Client(r) \in Clients
  BY <1>1 DEF ControlInv, QueueInv, Clients
<1>3. 0 = MinInterval - since[Client(r)] /\ total[Client(r)] < ApiBudget
  BY <1>1 DEF SpacingInv
<1>4. since[Client(r)] >= MinInterval
  BY <1>2, <1>3, DiscoveryAssumption DEF Typed
<1> QED
  BY <1>1, <1>2, <1>3, <1>4, SendKeeps

LEMMA FailedKeeps == ASSUME IInv, NEW r \in Runs, Failed(r) PROVE Kept
<1> USE DEF IInv
<1>1. /\ call[r].state = "sending"
      /\ UNCHANGED <<setup, inventory, lock, holder, total, since, contested, crashes>>
  BY DEF Failed
<1>2. Calling(r) /\ First(r)
  BY <1>1 DEF ControlInv, QueueInv
<1>3. CASE /\ call' = [call EXCEPT ![r].state = "backoff"]
           /\ \E ticks \in Backoffs : timer' = [timer EXCEPT ![r] = ticks]
           /\ UNCHANGED <<pc, queue, chunks, pages, listing, cache>>
  <2>1. Paused(r, "backoff")
    BY <1>1, <1>3 DEF Paused
  <2>2. PICK ticks \in Backoffs : timer' = [timer EXCEPT ![r] = ticks]
    BY <1>3
  <2>3. ticks \in Nat
    BY DiscoveryAssumption
  <2> QED
    BY <1>1, <1>2, <2>1, <2>2, <2>3, WaitKeeps
<1>4. CASE Fail(r)
  BY <1>1, <1>2, <1>4, FailKeeps
<1> QED
  BY <1>3, <1>4 DEF Failed

\* An answer: the file is opened only for a listing that covers the old one.
LEMMA AnsweredKeeps == ASSUME IInv, NEW r \in Runs, Answered(r) PROVE Kept
<1> USE DEF IInv
<1>1. /\ call[r].state = "sending" /\ MayMove(r) /\ Answer(r)
      /\ UNCHANGED <<setup, inventory, lock, holder, total, since, contested, crashes>>
  BY DEF Answered
<1>2. Calling(r) /\ First(r) /\ pc[r] = "call"
  BY <1>1 DEF ControlInv, QueueInv
<1>3. /\ Asks(r) \/ \E v : Ends(r, v)
      /\ pages' \in [Runs -> Seq(Pages)] /\ DOMAIN listing' = Runs
      /\ \A q \in Runs \ {r} : pc'[q] = pc[q] /\ listing'[q] = listing[q]
      /\ \/ cache' = cache /\ pc'[r] # "writing"
         \/ /\ cache' = Unreadable /\ pc'[r] = "writing"
            /\ \E ps \in Seq(Pages) :
                 /\ ps # << >> /\ StoppedReason(ps) # "" /\ listing'[r] = ListRun(ps)
                 /\ ~(Degraded(ListRun(ps)) /\ Previous)
  BY <1>1, <1>2, AnswerProceeds
<1>4. Proceeds(r)
  BY <1>1, <1>2, <1>3 DEF Proceeds
<1>5. CASE cache' = cache /\ pc'[r] # "writing"
  BY <1>2, <1>3, <1>4, <1>5, QuietKeeps
<1>6. CASE /\ cache' = Unreadable /\ pc'[r] = "writing"
           /\ \E ps \in Seq(Pages) :
                /\ ps # << >> /\ StoppedReason(ps) # "" /\ listing'[r] = ListRun(ps)
                /\ ~(Degraded(ListRun(ps)) /\ Previous)
  <2>1. PICK ps \in Seq(Pages) :
          /\ ps # << >> /\ StoppedReason(ps) # "" /\ listing'[r] = ListRun(ps)
          /\ ~(Degraded(ListRun(ps)) /\ Previous)
    BY <1>6
  <2>2. /\ Typed' /\ ControlInv' /\ QueueInv' /\ SpacingInv' /\ LockInv' /\ Rated
        /\ \A q \in Runs : Proc(q)' = Proc(q)
    BY <1>2, <1>3, <1>4, MovesKeeps
  <2>3. CacheInv'
    BY <1>6 DEF CacheInv, Previous
  <2>4. WriterInv'
    <3>1. \A q \in Runs : pc'[q] = "writing" => Listed(listing'[q])
      BY <1>3, <2>1 DEF WriterInv, Listed
    <3>2. \A q \in Runs \ {r} : pc'[q] = "writing" => Proc(q) # Proc(r)
      BY <1>1, <1>3 DEF MayMove, Stretches
    <3>3. \A x, q \in Runs :
            x # q /\ pc'[x] = "writing" /\ pc'[q] = "writing" => Proc(x)' # Proc(q)'
      <4>1. SUFFICES ASSUME NEW x \in Runs, NEW q \in Runs,
                            x # q, pc'[x] = "writing", pc'[q] = "writing"
                     PROVE  Proc(x) # Proc(q)
        BY <2>2
      <4>2. CASE x = r
        BY <4>1, <4>2, <3>2
      <4>3. CASE q = r
        BY <4>1, <4>3, <3>2
      <4>4. CASE x # r /\ q # r
        <5>1. pc[x] = "writing" /\ pc[q] = "writing"
          BY <1>3, <4>1, <4>4
        <5> QED
          BY <4>1, <5>1 DEF WriterInv
      <4> QED
        BY <4>2, <4>3, <4>4
    <3> QED
      BY <1>6, <3>1, <3>3 DEF WriterInv, Listed
  <2>5. Covered
    <3>1. SUFFICES ASSUME cache \notin {None, Unreadable}
                   PROVE  LET run == listing'[r]
                              now == Len(ItemsFromPages(run.pages, run.cap))
                              then == Len(ItemsFromPages(cache.pages, cache.cap))
                          IN  /\ now > 0 /\ 2 * now >= then
                              /\ run.pages[Len(run.pages)].next = None \/ now = run.cap
      BY <1>6 DEF Covered
    <3>2. Previous /\ Listed(cache)
      BY <3>1 DEF Previous, CacheInv
    <3> QED
      BY <2>1, <3>2, UndegradedCovers
  <2> QED
    BY <2>2, <2>3, <2>4, <2>5 DEF Kept
<1> QED
  BY <1>3, <1>5, <1>6

-----------------------------------------------------------------------------
(* Files, ends, crashes and time.                                          *)

LEMMA FileKeeps ==
  ASSUME IInv, NEW r \in Runs,
         \/ Begin(r) \/ LockRead(r) \/ LockKill(r) \/ LockRemove(r)
         \/ LockWrite(r) \/ Release(r)
  PROVE  Kept
<1> USE DEF IInv
<1>1. /\ LockOnly /\ pc[r] \in {"start", "release"} \cup Acquiring
      /\ pc[r] # "start" => Locks(r)
  BY DEF Begin, LockRead, LockKill, LockRemove, LockWrite, Release, Acquiring, ControlInv
<1>2. /\ pc' = [pc EXCEPT ![r] = pc'[r]]
      /\ pc'[r] \in {"ready", "lockWrite", "lockRead", "lockKill", "lockRemove", "done"}
      /\ pc'[r] \in Acquiring => Locks(r)
  <2>1. CASE Begin(r)
    <3>1. pc' = [pc EXCEPT ![r] = IF ~Locks(r) THEN "ready"
                                  ELSE IF lock = None THEN "lockWrite" ELSE "lockRead"]
      BY <2>1 DEF Begin
    <3>2. pc'[r] = IF ~Locks(r) THEN "ready"
                   ELSE IF lock = None THEN "lockWrite" ELSE "lockRead"
      BY <3>1 DEF Typed
    <3>3. pc' = [pc EXCEPT ![r] = pc'[r]]
      BY <3>1, <3>2
    <3>4. pc'[r] \in {"ready", "lockWrite", "lockRead"}
      BY <3>2
    <3>5. pc'[r] \in Acquiring => Locks(r)
      BY <3>2 DEF Acquiring
    <3> QED
      BY <3>3, <3>4, <3>5
  <2>2. CASE LockRead(r) \/ LockKill(r) \/ LockRemove(r) \/ LockWrite(r) \/ Release(r)
    <3>1. PICK v \in {"ready", "lockWrite", "lockKill", "lockRemove", "done"} :
            pc' = [pc EXCEPT ![r] = v]
      BY <2>2 DEF LockRead, LockKill, LockRemove, LockWrite, Release
    <3>2. pc'[r] = v
      BY <3>1 DEF Typed
    <3>3. Locks(r)
      BY <1>1, <2>2 DEF LockRead, LockKill, LockRemove, LockWrite, Release
    <3> QED
      BY <3>1, <3>2, <3>3
  <2> QED
    BY <2>1, <2>2
<1>3. DOMAIN holder' = Runs /\ (contested => contested')
  <2>1. CASE Begin(r)
    BY <2>1 DEF Begin, Typed, Note
  <2>2. CASE LockRead(r)
    BY <2>2 DEF LockRead, Typed
  <2>4. CASE LockKill(r)
    <3>1. DOMAIN holder' = Runs
      BY <2>4 DEF LockKill, Typed
    <3>2. contested' = contested \/ contested' = (contested \/ HeldByOther(r))
      BY <2>4, Zenon DEF LockKill
    <3>3. contested => contested'
      BY <3>2, Zenon
    <3> QED
      BY <3>1, <3>3
  <2>3. CASE LockRemove(r) \/ LockWrite(r) \/ Release(r)
    BY <2>3 DEF LockRemove, LockWrite, Release, Typed
  <2> QED
    BY <2>1, <2>2, <2>3, <2>4
<1>4. /\ Typed' /\ ControlInv' /\ QueueInv' /\ SpacingInv' /\ WriterInv' /\ CacheInv'
      /\ \A q \in Runs : call'[q].state = "sending" => call[q].state = "sending"
      /\ cache' = cache
  BY <1>1, <1>2, <1>3, LockCallKeeps DEF LockCall
<1>5. LockInv'
  BY BeginKeeps, LockReadKeeps, LockKillKeeps, LockRemoveKeeps, LockWriteKeeps, ReleaseKeeps
<1> QED
  BY <1>4, <1>5, NothingSent DEF Kept

LEMMA FinishKeeps == ASSUME IInv, NEW r \in Runs, Finish(r) PROVE Kept
<1> USE DEF IInv
<1>1. /\ pc[r] = "report" /\ pc' = [pc EXCEPT ![r] = AfterRun(r)]
      /\ listing' = [listing EXCEPT ![r] = None]
      /\ UNCHANGED <<setup, lock, holder, call, timer, pages, cache, queue, total, since,
                     contested>>
      /\ Clients' = Clients
      /\ \A q \in Runs : Client(q)' = Client(q) /\ (Locks(q)' <=> Locks(q))
  BY DEF Finish, clientVars, Clients, Client, Locks
<1>2. /\ DOMAIN pc' = Runs /\ DOMAIN listing' = Runs
      /\ \A q \in Runs \ {r} : pc'[q] = pc[q] /\ listing'[q] = listing[q]
      /\ pc'[r] = AfterRun(r)
      /\ AfterRun(r) \in {"release", "done"} /\ (AfterRun(r) = "release" => Locks(r))
  BY <1>1 DEF Typed, AfterRun
<1>3. ~Calling(r)
  BY <1>1 DEF ControlInv
<1>4. Typed'
  BY <1>1, <1>2 DEF Typed
<1>5. ControlInv'
  <2>1. ASSUME NEW q \in Runs
        PROVE  /\ Calling(q)' <=> call'[q].state # "idle"
               /\ Calling(q)' => pc'[q] = "call" /\ setup'[q].network
               /\ pc'[q] \in Acquiring \cup {"release"} => Locks(q)'
               /\ pc'[q] = "writing" => setup'[q].network
    <3>1. CASE q = r
      BY <1>1, <1>2, <1>3, <3>1 DEF ControlInv, Calling, Acquiring
    <3>2. CASE q # r
      BY <1>1, <1>2, <3>2 DEF ControlInv, Calling
    <3> QED
      BY <3>1, <3>2
  <2> QED
    BY <2>1 DEF ControlInv
<1>6. QueueInv' /\ SpacingInv'
  <2>1. QueueInv'
    BY <1>1 DEF QueueInv, Calling, First
  <2>2. SpacingInv'
    BY <1>1 DEF SpacingInv
  <2> QED
    BY <2>1, <2>2
<1>7. LockInv'
  <2>1. \A q \in Runs : Holds(q)' => Holds(q)
    BY <1>1, <1>2 DEF Holds, Holding
  <2>2. \A q \in Runs : pc'[q] \in Acquiring => pc'[q] = pc[q] /\ holder'[q] = holder[q]
    BY <1>1, <1>2 DEF Acquiring
  <2>3. Aside
    BY <1>1, <2>1, <2>2 DEF Aside
  <2> QED
    BY <2>3, AsideKeeps
<1>8. WriterInv' /\ CacheInv'
  <2>1. Passive
    BY <1>1, <1>2 DEF Passive
  <2> QED
    BY <1>1, <2>1, PassiveKeeps
<1> QED
  BY <1>1, <1>4, <1>5, <1>6, <1>7, <1>8, NothingSent DEF Kept

\* A client belongs to one process, so that its queue dies with it.
LEMMA CrashKeeps == ASSUME IInv, NEW r \in Runs, Crash(Proc(r)) PROVE Kept
<1> USE DEF IInv
<1> DEFINE Ours(q) == Proc(q) = Proc(r)
<1>1. /\ pc' = [q \in Runs |-> IF Ours(q) THEN "done" ELSE pc[q]]
      /\ call' = [q \in Runs |-> IF Ours(q) THEN [of |-> "none", state |-> "idle"] ELSE call[q]]
      /\ timer' = [q \in Runs |-> IF Ours(q) THEN 0 ELSE timer[q]]
      /\ queue' = [c \in Clients |->
                     IF \E q \in Runs : Ours(q) /\ Client(q) = c THEN << >> ELSE queue[c]]
      /\ holder' = [q \in Runs |-> IF Ours(q) THEN None ELSE holder[q]]
      /\ pages' = [q \in Runs |-> IF Ours(q) THEN << >> ELSE pages[q]]
      /\ listing' = [q \in Runs |-> IF Ours(q) THEN None ELSE listing[q]]
      /\ UNCHANGED <<setup, lock, cache, total, since, contested>>
  BY DEF Crash
<1>2. /\ Clients' = Clients
      /\ \A q \in Runs : Client(q)' = Client(q) /\ (Locks(q)' <=> Locks(q))
  BY <1>1 DEF Clients, Client, Locks
<1>3. \A q \in Runs : Ours(q) => call'[q].of = "none" /\ call'[q].state = "idle" /\ pc'[q] = "done"
  BY <1>1
<1>4. \A q \in Runs : ~Ours(q) =>
        /\ call'[q] = call[q] /\ pc'[q] = pc[q] /\ timer'[q] = timer[q]
        /\ holder'[q] = holder[q] /\ listing'[q] = listing[q]
        /\ queue'[Client(q)] = queue[Client(q)]
  <2>1. \A q \in Runs : ~Ours(q) => ~\E x \in Runs : Ours(x) /\ Client(x) = Client(q)
    BY Processes
  <2>2. \A q \in Runs : Client(q) \in Clients
    BY DEF Clients
  <2> HIDE DEF Ours
  <2>3. \A q \in Runs : ~Ours(q) => queue'[Client(q)] = queue[Client(q)]
    BY <1>1, <2>1, <2>2
  <2> QED
    BY <1>1, <2>3
<1>5. Typed'
  <2>1. call' \in [Runs -> [of : Asked \cup {"none"},
                            state : {"idle", "queued", "spacing", "sending", "backoff"}]]
    BY <1>1 DEF Typed
  <2>2. timer' \in [Runs -> Nat] /\ pages' \in [Runs -> Seq(Pages)]
    <3>1. << >> \in Seq(Pages)
      OBVIOUS
    <3> QED
      BY <1>1, <3>1 DEF Typed
  <2>3. queue' \in [Clients -> Seq(Runs)]
    <3>1. << >> \in Seq(Runs)
      OBVIOUS
    <3> QED
      BY <1>1, <3>1 DEF Typed
  <2>4. DOMAIN pc' = Runs /\ DOMAIN holder' = Runs /\ DOMAIN listing' = Runs
    BY <1>1
  <2> QED
    BY <1>1, <1>2, <2>1, <2>2, <2>3, <2>4 DEF Typed
<1> HIDE DEF Ours
<1>6. ControlInv'
  <2>1. ASSUME NEW q \in Runs
        PROVE  /\ Calling(q)' <=> call'[q].state # "idle"
               /\ Calling(q)' => pc'[q] = "call" /\ setup'[q].network
               /\ pc'[q] \in Acquiring \cup {"release"} => Locks(q)'
               /\ pc'[q] = "writing" => setup'[q].network
    <3>1. CASE Ours(q)
      BY <1>3, <3>1 DEF Calling, Acquiring
    <3>2. CASE ~Ours(q)
      BY <1>1, <1>2, <1>4, <3>2 DEF ControlInv, Calling
    <3> QED
      BY <3>1, <3>2
  <2> QED
    BY <2>1 DEF ControlInv
<1>7. QueueInv'
  <2>1. ASSUME NEW q \in Runs
        PROVE  /\ Calling(q)' =>
                    \E i \in DOMAIN queue'[Client(q)] : queue'[Client(q)][i] = q
               /\ call'[q].state \in {"spacing", "sending"} =>
                    queue'[Client(q)] # << >> /\ Head(queue'[Client(q)]) = q
    <3>1. CASE Ours(q)
      BY <1>3, <3>1 DEF Calling
    <3>2. CASE ~Ours(q)
      BY <1>4, <3>2 DEF QueueInv, Calling, First
    <3> QED
      BY <3>1, <3>2
  <2> QED
    BY <1>2, <2>1 DEF QueueInv, First
<1>8. SpacingInv'
  BY <1>1, <1>2, <1>3, <1>4 DEF SpacingInv
<1>9. LockInv'
  <2>1. ASSUME NEW q \in Runs
        PROVE  /\ pc'[q] \in Acquiring => pc'[q] = pc[q] /\ holder'[q] = holder[q]
               /\ Holds(q)' => Holds(q)
    BY <1>2, <1>3, <1>4 DEF Acquiring, Holds, Holding
  <2>2. Aside
    BY <1>1, <2>1 DEF Aside
  <2> QED
    BY <2>2, AsideKeeps
<1>10. WriterInv' /\ CacheInv'
  <2>1. Passive
    BY <1>1, <1>3, <1>4 DEF Passive
  <2> QED
    BY <1>1, <2>1, PassiveKeeps
<1>11. \A q \in Runs : call'[q].state = "sending" => call[q].state = "sending"
  BY <1>3, <1>4
<1> QED
  BY <1>1, <1>5, <1>6, <1>7, <1>8, <1>9, <1>10, <1>11, NothingSent DEF Kept

\* A wait and the interval it waits for pass together.
LEMMA TickKeeps == ASSUME IInv, Tick PROVE Kept
<1> USE DEF IInv
<1>1. /\ timer' = [r \in Runs |-> IF timer[r] > 0 THEN timer[r] - 1 ELSE 0]
      /\ since' = [c \in Clients |-> IF Late(c) THEN since[c] + 1 ELSE since[c]]
      /\ UNCHANGED <<setup, lock, pc, holder, call, pages, listing, cache, queue, total,
                     contested>>
      /\ Clients' = Clients
      /\ \A q \in Runs : Client(q)' = Client(q) /\ (Locks(q)' <=> Locks(q))
  BY DEF Tick, Clients, Client, Locks
<1>2. Typed'
  <2>1. timer' \in [Runs -> Nat]
    BY <1>1 DEF Typed
  <2>2. since' \in [Clients -> 0..MinInterval]
    BY <1>1, DiscoveryAssumption DEF Typed, Late
  <2> QED
    BY <1>1, <2>1, <2>2 DEF Typed
<1>3. ControlInv' /\ QueueInv'
  <2>1. ControlInv'
    BY <1>1 DEF ControlInv, Calling
  <2>2. QueueInv'
    BY <1>1 DEF QueueInv, Calling, First
  <2> QED
    BY <2>1, <2>2
<1>4. SpacingInv'
  <2>1. SUFFICES ASSUME NEW r \in Runs, call[r].state = "spacing"
                 PROVE  /\ timer'[r] = MinInterval - since'[Client(r)]
                        /\ total'[Client(r)] < ApiBudget
    BY <1>1 DEF SpacingInv
  <2>2. /\ timer[r] = MinInterval - since[Client(r)] /\ total[Client(r)] < ApiBudget
        /\ queue[Client(r)] # << >>
    BY <2>1 DEF SpacingInv, QueueInv, First
  <2>3. Client(r) \in Clients /\ since[Client(r)] \in 0..MinInterval /\ timer[r] \in Nat
    BY DEF Clients, Typed
  <2>4. since'[Client(r)] = IF Late(Client(r)) THEN since[Client(r)] + 1 ELSE since[Client(r)]
    BY <1>1, <2>3
  <2>5. timer'[r] = IF timer[r] > 0 THEN timer[r] - 1 ELSE 0
    BY <1>1
  <2>6. Late(Client(r)) <=> timer[r] > 0
    BY <2>2, <2>3, DiscoveryAssumption DEF Late
  <2> QED
    BY <1>1, <2>2, <2>3, <2>4, <2>5, <2>6, DiscoveryAssumption
<1>5. LockInv'
  <2>1. Aside
    BY <1>1 DEF Aside, Holds
  <2> QED
    BY <2>1, AsideKeeps
<1>6. WriterInv' /\ CacheInv'
  BY <1>1, PassiveKeeps DEF Passive
<1> QED
  BY <1>1, <1>2, <1>3, <1>4, <1>5, <1>6, NothingSent DEF Kept

LEMMA StutterKeeps == ASSUME IInv, UNCHANGED vars PROVE Kept
<1> USE DEF IInv
<1>1. /\ UNCHANGED <<setup, lock, pc, holder, call, timer, pages, listing, cache, queue,
                     total, since, contested>>
      /\ Clients' = Clients
      /\ \A q \in Runs : Client(q)' = Client(q) /\ (Locks(q)' <=> Locks(q))
  BY DEF vars, runVars, clientVars, Clients, Client, Locks
<1>2. Typed'
  BY <1>1 DEF Typed
<1>3. ControlInv'
  BY <1>1 DEF ControlInv, Calling
<1>4. QueueInv'
  BY <1>1 DEF QueueInv, Calling, First
<1>5. SpacingInv'
  BY <1>1 DEF SpacingInv
<1>6. LockInv'
  BY <1>1, AsideKeeps DEF Aside, Holds
<1>7. WriterInv' /\ CacheInv'
  BY <1>1, PassiveKeeps DEF Passive
<1> QED
  BY <1>1, <1>2, <1>3, <1>4, <1>5, <1>6, <1>7, NothingSent DEF Kept

LEMMA InitHolds == Init => IInv
<1>1. SUFFICES ASSUME Init PROVE IInv
  OBVIOUS
<1> USE <1>1 DEF Init
<1>2. Typed
  <2>1. << >> \in Seq(Pages) /\ << >> \in Seq(Runs)
    OBVIOUS
  <2>2. pages \in [Runs -> Seq(Pages)] /\ queue \in [Clients -> Seq(Runs)]
    BY <2>1
  <2>3. call \in [Runs -> [of : Asked \cup {"none"},
                           state : {"idle", "queued", "spacing", "sending", "backoff"}]]
    OBVIOUS
  <2> QED
    BY <2>2, <2>3, DiscoveryAssumption DEF Typed
<1>3. ControlInv
  BY DEF ControlInv, Calling, Acquiring
<1>4. QueueInv /\ SpacingInv
  BY DEF QueueInv, SpacingInv, Calling
<1>5. LockInv
  BY DEF LockInv, Acquiring, Holds, Holding
<1>6. WriterInv /\ CacheInv
  BY DEF WriterInv, CacheInv, Previous
<1> QED
  BY <1>2, <1>3, <1>4, <1>5, <1>6 DEF IInv

LEMMA StepKeeps == IInv /\ [Next]_vars => Kept
<1>1. SUFFICES ASSUME IInv, [Next]_vars PROVE Kept
  OBVIOUS
<1>2. ASSUME NEW r \in Runs,
             \/ Begin(r) \/ LockRead(r) \/ LockKill(r) \/ LockRemove(r) \/ LockWrite(r)
             \/ Release(r) \/ Ready(r) \/ WriteCache(r) \/ Finish(r)
             \/ Attempt(r) \/ Spaced(r) \/ Answered(r) \/ Failed(r)
      PROVE  Kept
  BY <1>1, <1>2, FileKeeps, ReadyKeeps, WriteCacheKeeps, FinishKeeps, AttemptKeeps,
     SpacedKeeps, AnsweredKeeps, FailedKeeps
<1>3. ASSUME NEW r \in Runs, Crash(Proc(r)) PROVE Kept
  BY <1>1, <1>3, CrashKeeps
<1>4. CASE Tick
  BY <1>1, <1>4, TickKeeps
<1>5. CASE AllDone \/ UNCHANGED vars
  BY <1>1, <1>5, StutterKeeps DEF AllDone
<1> QED
  BY <1>1, <1>2, <1>3, <1>4, <1>5 DEF Next

\* The requests of a client never overlap, keep their interval and their
\* budget; and as long as the lock was never contested, those of runs that
\* take it are sent by one holder of the lock at a time.
THEOREM RateIsKept == Spec => RateHolds
<1>1. IInv /\ [Next]_vars => [Rated]_vars
  BY StepKeeps DEF Kept
<1>2. IInv /\ [Next]_vars => IInv'
  BY StepKeeps DEF Kept
<1> QED
  BY InitHolds, <1>1, <1>2, PTL DEF Spec, RateHolds, Rated

\* As long as the lock was never contested, a readable listing only gives way
\* to one that covers at least half of it and came to its end, or is full.
THEOREM CoverageIsKept == Spec => CoverageKept
<1>1. IInv /\ [Next]_vars => [Covered]_vars
  BY StepKeeps DEF Kept
<1>2. IInv /\ [Next]_vars => IInv'
  BY StepKeeps DEF Kept
<1> QED
  BY InitHolds, <1>1, <1>2, PTL DEF Spec, CoverageKept, Covered

-----------------------------------------------------------------------------
(* Keys, and places in an order.                                           *)

\* The keys that rows and routes are compared by.
Keys == Int \X Int \X Int \X Int \X Int

\* A key is above another where the first difference says so.
LEMMA AboveUnfolds ==
  ASSUME NEW s \in Keys, NEW t \in Keys
  PROVE  Above(s, t) <=>
           \/ s[1] > t[1]
           \/ s[1] = t[1] /\ s[2] > t[2]
           \/ s[1] = t[1] /\ s[2] = t[2] /\ s[3] > t[3]
           \/ s[1] = t[1] /\ s[2] = t[2] /\ s[3] = t[3] /\ s[4] > t[4]
           \/ s[1] = t[1] /\ s[2] = t[2] /\ s[3] = t[3] /\ s[4] = t[4] /\ s[5] > t[5]
<1>1. DOMAIN s = {1, 2, 3, 4, 5}
  BY DEF Keys
<1>2. /\ \A j : j \in 1..(1 - 1) <=> FALSE
      /\ \A j : j \in 1..(2 - 1) <=> j = 1
      /\ \A j : j \in 1..(3 - 1) <=> j \in {1, 2}
      /\ \A j : j \in 1..(4 - 1) <=> j \in {1, 2, 3}
      /\ \A j : j \in 1..(5 - 1) <=> j \in {1, 2, 3, 4}
  OBVIOUS
<1> DEFINE At(i) == s[i] > t[i] /\ \A j \in 1..(i - 1) : s[j] = t[j]
<1>3. Above(s, t) <=> At(1) \/ At(2) \/ At(3) \/ At(4) \/ At(5)
  BY <1>1 DEF Above
<1> QED
  BY <1>2, <1>3

\* Keys are in a strict order.
LEMMA AboveOrders ==
  ASSUME NEW s \in Keys, NEW t \in Keys, NEW u \in Keys
  PROVE  /\ ~Above(s, s)
         /\ Above(s, t) /\ Above(t, u) => Above(s, u)
         /\ s # t => Above(s, t) \/ Above(t, s)
<1>1. /\ s[1] \in Int /\ s[2] \in Int /\ s[3] \in Int /\ s[4] \in Int /\ s[5] \in Int
      /\ t[1] \in Int /\ t[2] \in Int /\ t[3] \in Int /\ t[4] \in Int /\ t[5] \in Int
      /\ u[1] \in Int /\ u[2] \in Int /\ u[3] \in Int /\ u[4] \in Int /\ u[5] \in Int
  BY DEF Keys
<1>2. s # t => s[1] # t[1] \/ s[2] # t[2] \/ s[3] # t[3] \/ s[4] # t[4] \/ s[5] # t[5]
  BY DEF Keys
<1>3. ~Above(s, s)
  BY <1>1, AboveUnfolds
<1>4. Above(s, t) /\ Above(t, u) => Above(s, u)
  BY SMTT(30), <1>1, AboveUnfolds
<1>5. s # t => Above(s, t) \/ Above(t, s)
  BY <1>1, <1>2, AboveUnfolds
<1> QED
  BY <1>3, <1>4, <1>5

\* The members of a finite set that an order puts before a member number
\* its place, and every place has its member.
LEMMA Placed ==
  ASSUME NEW S, IsFiniteSet(S), NEW R,
         \A x \in S : <<x, x>> \notin R,
         \A x, y, z \in S : <<x, y>> \in R /\ <<y, z>> \in R => <<x, z>> \in R,
         \A x, y \in S : x # y => <<x, y>> \in R \/ <<y, x>> \in R,
         NEW n \in 1..Cardinality(S)
  PROVE  \E x \in S : Cardinality({y \in S : <<y, x>> \in R}) = n - 1
<1> DEFINE N == Cardinality(S)
           Below(x) == {y \in S : <<y, x>> \in R}
           f == [x \in S |-> Cardinality(Below(x)) + 1]
<1>1. N \in Nat
  BY FS_CardinalityType
<1>2. \A x \in S : IsFiniteSet(Below(x)) /\ Cardinality(Below(x)) \in Nat
  <2> TAKE x \in S
  <2>1. Below(x) \in SUBSET S
    OBVIOUS
  <2> HIDE DEF Below
  <2> QED
    BY <2>1, FS_Subset, FS_CardinalityType
<1>3. \A x \in S : Cardinality(Below(x)) < N
  <2> TAKE x \in S
  <2>1. Below(x) \in SUBSET S /\ x \notin Below(x)
    OBVIOUS
  <2> HIDE DEF Below
  <2>2. Cardinality(Below(x)) <= N /\ (N = Cardinality(Below(x)) => S = Below(x))
    BY <2>1, FS_Subset
  <2> QED
    BY <1>1, <1>2, <2>1, <2>2
<1>4. \A x, y \in S : <<x, y>> \in R => Cardinality(Below(x)) < Cardinality(Below(y))
  <2> SUFFICES ASSUME NEW x \in S, NEW y \in S, <<x, y>> \in R
               PROVE  Cardinality(Below(x)) < Cardinality(Below(y))
    OBVIOUS
  <2>1. Below(x) \in SUBSET Below(y) /\ x \in Below(y) /\ x \notin Below(x)
    OBVIOUS
  <2>2. IsFiniteSet(Below(y)) /\ Cardinality(Below(y)) \in Nat /\ Cardinality(Below(x)) \in Nat
    BY <1>2
  <2> HIDE DEF Below
  <2>3. /\ Cardinality(Below(x)) <= Cardinality(Below(y))
        /\ Cardinality(Below(y)) = Cardinality(Below(x)) => Below(y) = Below(x)
    BY <2>1, <2>2, FS_Subset
  <2> QED
    BY <2>1, <2>2, <2>3
<1> HIDE DEF Below, N
<1>5. f \in [S -> 1..N]
  BY <1>1, <1>2, <1>3
<1>6. f \in Injection(S, 1..N)
  <2>1. SUFFICES ASSUME NEW x \in S, NEW y \in S, x # y PROVE f[x] # f[y]
    BY <1>5 DEF Injection, IsInjective
  <2>2. Cardinality(Below(x)) # Cardinality(Below(y))
    <3>1. <<x, y>> \in R \/ <<y, x>> \in R
      BY <2>1
    <3> QED
      BY <1>2, <1>4, <3>1
  <2>3. f[x] = Cardinality(Below(x)) + 1 /\ f[y] = Cardinality(Below(y)) + 1
    OBVIOUS
  <2> QED
    BY <1>2, <2>2, <2>3
<1>7. IsFiniteSet(1..N) /\ Cardinality(1..N) = N
  BY <1>1, FS_Interval
<1> HIDE DEF f
<1>8. f \in Surjection(S, 1..N)
  BY <1>6, <1>7, FS_Injection DEF N
<1>9. PICK x \in S : f[x] = n
  BY <1>8 DEF Surjection, N
<1>10. Cardinality(Below(x)) = n - 1
  BY <1>1, <1>2, <1>9 DEF f
<1> QED
  BY <1>10 DEF Below

\* A strict order in which any two members of the set compare.
Orders(R, S) ==
  /\ \A x \in S : <<x, x>> \notin R
  /\ \A x, y, z \in S : <<x, y>> \in R /\ <<y, z>> \in R => <<x, z>> \in R
  /\ \A x, y \in S : x # y => <<x, y>> \in R \/ <<y, x>> \in R

\* Every place of such an order is taken.
LEMMA AllPlaced ==
  ASSUME NEW S, IsFiniteSet(S), NEW R, Orders(R, S)
  PROVE  \A n \in 1..Cardinality(S) :
           \E x \in S : Cardinality({y \in S : <<y, x>> \in R}) = n - 1
BY Placed DEF Orders

-----------------------------------------------------------------------------
(* Rows and which of them is richer.                                       *)

\* What a source says of a pool.
RowSet ==
  [adapter : {"raydium_cpmm", "pumpswap"}, address : Nat, mintA : Nat, mintB : Nat,
   tvl : Nat \cup {Unknown}, canonical : {Unknown, 0, 1}]
RowsOf(adapter) == {row \in RowSet : row.adapter = adapter}

\* What a source says beyond the address.
Hints(row) == {f \in {"mintA", "mintB", "tvl", "canonical"} : Known(row[f])}

\* Hints can be counted.
LEMMA HintsAreFinite ==
  ASSUME NEW row
  PROVE  IsFiniteSet(Hints(row)) /\ Cardinality(Hints(row)) \in Nat
<1>1. IsFiniteSet(({"mintA"} \cup {"mintB"}) \cup ({"tvl"} \cup {"canonical"}))
  BY FS_Singleton, FS_Union
<1>2. {"mintA", "mintB", "tvl", "canonical"}
        = ({"mintA"} \cup {"mintB"}) \cup ({"tvl"} \cup {"canonical"})
  OBVIOUS
<1>3. IsFiniteSet(Hints(row))
  BY <1>1, <1>2, FS_Subset DEF Hints
<1> QED
  BY <1>3, FS_CardinalityType

\* A row with more hints of the same kinds has a higher count of them.
LEMMA MoreHints ==
  ASSUME NEW p, NEW q, Hints(q) \subseteq Hints(p), Hints(p) # Hints(q)
  PROVE  Cardinality(Hints(p)) > Cardinality(Hints(q))
<1>1. /\ IsFiniteSet(Hints(p)) /\ Cardinality(Hints(p)) \in Nat
      /\ IsFiniteSet(Hints(q)) /\ Cardinality(Hints(q)) \in Nat
  BY HintsAreFinite
<1>2. /\ Cardinality(Hints(q)) <= Cardinality(Hints(p))
      /\ Cardinality(Hints(p)) = Cardinality(Hints(q)) => Hints(p) = Hints(q)
  BY <1>1, FS_Subset
<1> QED
  BY <1>1, <1>2

\* The score of a row, number by number.
LEMMA ScoreIs ==
  ASSUME NEW row \in RowSet
  PROVE  /\ HintScore(row) \in Keys
         /\ HintScore(row)[1] = Cardinality(Hints(row))
         /\ HintScore(row)[2] = (IF row.tvl > 0 THEN row.tvl ELSE 0)
         /\ HintScore(row)[3] = row.mintA
         /\ HintScore(row)[4] = row.mintB
         /\ HintScore(row)[5] = row.canonical
<1> DEFINE c == Cardinality(Hints(row))
<1>1. c \in Nat
  BY HintsAreFinite
<1>2. HintScore(row) = <<c, IF row.tvl > 0 THEN row.tvl ELSE 0, row.mintA, row.mintB,
                         row.canonical>>
  BY DEF HintScore, Hints
<1> HIDE DEF c
<1>3. /\ (IF row.tvl > 0 THEN row.tvl ELSE 0) \in Int
      /\ row.mintA \in Int /\ row.mintB \in Int /\ row.canonical \in Int
  BY DEF RowSet, Unknown
<1> QED
  BY <1>1, <1>2, <1>3 DEF Keys, c

\* Rows of an address that are no richer than each other are the same.
LEMMA SameScore ==
  ASSUME NEW p \in RowSet, NEW q \in RowSet, p.adapter = q.adapter, p.address = q.address,
         HintScore(p) = HintScore(q)
  PROVE  p = q
<1>1. /\ Cardinality(Hints(p)) = Cardinality(Hints(q))
      /\ (IF p.tvl > 0 THEN p.tvl ELSE 0) = (IF q.tvl > 0 THEN q.tvl ELSE 0)
      /\ p.mintA = q.mintA /\ p.mintB = q.mintB /\ p.canonical = q.canonical
  BY ScoreIs
<1>2. \A x \in RowSet :
        /\ "mintA" \in Hints(x) /\ "mintB" \in Hints(x)
        /\ "tvl" \in Hints(x) <=> x.tvl # Unknown
        /\ "canonical" \in Hints(x) <=> x.canonical # Unknown
  BY DEF RowSet, Hints, Known, Unknown
<1>3. \A x : Hints(x) \subseteq {"mintA", "mintB", "tvl", "canonical"}
  BY DEF Hints
<1>4. ASSUME NEW x \in RowSet, NEW y \in RowSet, x.canonical = y.canonical,
             Cardinality(Hints(x)) = Cardinality(Hints(y)), x.tvl # Unknown
      PROVE  y.tvl # Unknown
  <2>1. SUFFICES ASSUME y.tvl = Unknown PROVE FALSE
    OBVIOUS
  <2>2. Hints(y) \subseteq Hints(x) /\ Hints(x) # Hints(y)
    BY <1>2, <1>3, <1>4, <2>1
  <2>3. Cardinality(Hints(x)) > Cardinality(Hints(y))
    BY <2>2, MoreHints
  <2>4. Cardinality(Hints(y)) \in Nat
    BY HintsAreFinite
  <2> QED
    BY <1>4, <2>3, <2>4
<1>5. p.tvl # Unknown <=> q.tvl # Unknown
  BY <1>1, <1>4
<1>6. p.tvl = q.tvl
  BY <1>1, <1>5 DEF RowSet, Unknown
<1> QED
  BY <1>1, <1>6 DEF RowSet

\* Richer orders the rows of an address.
LEMMA RicherOrders ==
  ASSUME NEW p \in RowSet, NEW q \in RowSet, NEW x \in RowSet
  PROVE  /\ ~Richer(p, p)
         /\ Richer(p, q) /\ Richer(q, x) => Richer(p, x)
         /\ p # q /\ p.adapter = q.adapter /\ p.address = q.address =>
              Richer(p, q) \/ Richer(q, p)
<1>1. HintScore(p) \in Keys /\ HintScore(q) \in Keys /\ HintScore(x) \in Keys
  BY ScoreIs
<1>2. p # q /\ p.adapter = q.adapter /\ p.address = q.address => HintScore(p) # HintScore(q)
  BY SameScore
<1> QED
  BY <1>1, <1>2, AboveOrders DEF Richer

\* A row and its poorer copy: one address and one mint, and never richer.
LEMMA PoorerIsPoorer ==
  ASSUME NEW row \in RowSet
  PROVE  /\ Poorer(row) \in RowSet
         /\ Poorer(row).adapter = row.adapter /\ Poorer(row).address = row.address
         /\ Poorer(row) = row \/ Richer(row, Poorer(row))
<1> DEFINE q == Poorer(row)
<1>1. /\ q \in RowSet /\ q.adapter = row.adapter /\ q.address = row.address
      /\ q.mintA = row.mintA /\ q.mintB = row.mintB
      /\ q.tvl = Unknown /\ q.canonical = Unknown
  BY DEF Poorer, RowSet
<1> HIDE DEF q
<1>2. ASSUME q # row PROVE Richer(row, q)
  <2>1. row.tvl # Unknown \/ row.canonical # Unknown
    BY <1>1, <1>2 DEF RowSet
  <2>2. Hints(q) = {"mintA", "mintB"}
    BY <1>1 DEF Hints, Known, Unknown, RowSet
  <2>3. /\ "mintA" \in Hints(row) /\ "mintB" \in Hints(row)
        /\ "tvl" \in Hints(row) \/ "canonical" \in Hints(row)
    BY <2>1 DEF Hints, Known, Unknown, RowSet
  <2>4. Cardinality(Hints(row)) > Cardinality(Hints(q))
    BY <2>2, <2>3, MoreHints
  <2>5. HintScore(row)[1] > HintScore(q)[1]
    BY <1>1, <2>4, ScoreIs
  <2>6. HintScore(row) \in Keys /\ HintScore(q) \in Keys
    BY <1>1, ScoreIs
  <2> QED
    BY <2>5, <2>6, AboveUnfolds DEF Richer
<1> QED
  BY <1>1, <1>2 DEF q

\* What stands among the rows.
Among(rows) == {rows[i] : i \in DOMAIN rows}

\* What stands among the rows and has no richer row of its address there.
BestOf(rows) ==
  {v \in Among(rows) : /\ Known(CounterMintOf(v))
                       /\ \A u \in Among(rows) : u.address = v.address => ~Richer(u, v)}

\* The rows kept are the best of each address.
LEMMA DedupedIsBest ==
  ASSUME NEW adapter, NEW rows \in Seq(RowsOf(adapter))
  PROVE  /\ Deduped(rows, adapter) = BestOf(rows)
         /\ \A p, q \in BestOf(rows) : p.address = q.address => p = q
<1>1. \A i \in DOMAIN rows : rows[i] \in RowSet /\ rows[i].adapter = adapter
  BY DEF RowsOf
<1>2. Len(rows) \in Nat /\ DOMAIN rows = 1..Len(rows)
  OBVIOUS
<1> DEFINE Rivals(i) == {j \in DOMAIN rows \ {i} : rows[j].address = rows[i].address}
           winners == {i \in DOMAIN rows : \A j \in Rivals(i) : Beats(rows, i, j)}
<1>3. Deduped(rows, adapter) = {rows[i] : i \in {k \in winners : Known(CounterMintOf(rows[k]))}}
  <2>1. {i \in DOMAIN rows : rows[i].adapter = adapter} = DOMAIN rows
    BY <1>1
  <2> QED
    BY <2>1, Zenon DEF Deduped
<1>4. ASSUME NEW i \in winners, NEW j \in DOMAIN rows, rows[j].address = rows[i].address
      PROVE  ~Richer(rows[j], rows[i])
  <2>1. i \in DOMAIN rows /\ rows[i] \in RowSet /\ rows[j] \in RowSet
    BY <1>1
  <2>2. CASE j = i
    BY <2>1, <2>2, RicherOrders
  <2>3. CASE j # i
    <3>1. Beats(rows, i, j)
      BY <1>4, <2>3
    <3>2. ~Richer(rows[j], rows[i]) \/ Richer(rows[i], rows[j])
      BY <3>1 DEF Beats
    <3>3. Richer(rows[i], rows[j]) /\ Richer(rows[j], rows[i]) => Richer(rows[i], rows[i])
      BY <2>1, RicherOrders
    <3>4. ~Richer(rows[i], rows[i])
      BY <2>1, RicherOrders
    <3> QED
      BY <3>2, <3>3, <3>4
  <2> QED
    BY <2>2, <2>3
<1>5. ASSUME NEW v \in BestOf(rows)
      PROVE  \E i \in winners : rows[i] = v
  <2> DEFINE B == {i \in DOMAIN rows : rows[i] = v}
  <2>1. B \in SUBSET Nat /\ B # {}
    BY <1>2 DEF BestOf, Among
  <2>2. PICK i \in B : \A m \in B : i <= m
    <3> HIDE DEF B
    <3> QED
      BY <2>1, LeastOf
  <2>3. i \in DOMAIN rows /\ rows[i] = v /\ v \in RowSet
    BY <1>1
  <2>4. ASSUME NEW j \in Rivals(i) PROVE Beats(rows, i, j)
    <3>1. j \in DOMAIN rows /\ j # i /\ rows[j].address = v.address /\ rows[j] \in RowSet
      BY <1>1, <2>3
    <3>2. ~Richer(rows[j], v)
      BY <3>1 DEF BestOf, Among
    <3>3. CASE i < j
      BY <2>3, <3>2, <3>3 DEF Beats
    <3>4. CASE ~(i < j)
      <4>1. j \notin B
        BY <1>2, <2>2, <2>3, <3>1, <3>4
      <4>2. rows[j] # v
        BY <3>1, <4>1
      <4>3. rows[j].adapter = v.adapter
        BY <1>1, <2>3, <3>1
      <4>4. Richer(v, rows[j])
        BY <2>3, <3>1, <3>2, <4>2, <4>3, RicherOrders
      <4> QED
        BY <2>3, <3>4, <4>4 DEF Beats
    <3> QED
      BY <3>3, <3>4
  <2> QED
    BY <2>3, <2>4
<1> HIDE DEF winners
<1>6. winners \subseteq DOMAIN rows
  BY DEF winners
<1>7. Deduped(rows, adapter) = BestOf(rows)
  <2>1. ASSUME NEW v \in Deduped(rows, adapter) PROVE v \in BestOf(rows)
    <3>1. PICK i \in winners : v = rows[i] /\ Known(CounterMintOf(rows[i]))
      BY <1>3, <2>1
    <3> QED
      BY <1>4, <1>6, <3>1 DEF BestOf, Among
  <2>2. ASSUME NEW v \in BestOf(rows) PROVE v \in Deduped(rows, adapter)
    <3>1. PICK i \in winners : rows[i] = v
      BY <1>5, <2>2
    <3>2. Known(CounterMintOf(v))
      BY <2>2 DEF BestOf
    <3> QED
      BY <1>3, <3>1, <3>2
  <2> QED
    BY <2>1, <2>2
<1>8. ASSUME NEW p \in BestOf(rows), NEW q \in BestOf(rows), p.address = q.address
      PROVE  p = q
  <2>1. /\ p \in Among(rows) /\ q \in Among(rows)
        /\ p \in RowSet /\ q \in RowSet /\ p.adapter = q.adapter
    BY <1>1, <1>8 DEF BestOf, Among
  <2>2. ~Richer(p, q) /\ ~Richer(q, p)
    BY <1>8, <2>1 DEF BestOf
  <2> QED
    BY <1>8, <2>1, <2>2, RicherOrders
<1> QED
  BY <1>7, <1>8

\* Neither the order of the rows nor poorer copies of them decide.
LEMMA ReorderedIsSame ==
  ASSUME NEW adapter, NEW rows \in Seq(RowsOf(adapter))
  PROVE  Deduped(Reordered(rows), adapter) = Deduped(rows, adapter)
<1> DEFINE copies == [i \in DOMAIN rows |-> Poorer(rows[i])]
           both == rows \o copies
           again == Reordered(rows)
           n == Len(rows)
<1>1. n \in Nat /\ DOMAIN rows = 1..n
  OBVIOUS
<1>2. \A i \in DOMAIN rows : rows[i] \in RowSet /\ rows[i].adapter = adapter
  BY DEF RowsOf
<1>3. \A i \in DOMAIN rows : Poorer(rows[i]) \in RowsOf(adapter)
  BY <1>2, PoorerIsPoorer DEF RowsOf
<1>4. copies \in Seq(RowsOf(adapter)) /\ Len(copies) = n
      /\ \A i \in 1..n : copies[i] = Poorer(rows[i])
  BY <1>1, <1>3
<1> HIDE DEF copies
<1>5. /\ both \in Seq(RowsOf(adapter)) /\ Len(both) = n + n
      /\ \A i \in 1..n : both[i] = rows[i] /\ both[n + i] = Poorer(rows[i])
  BY <1>1, <1>4
<1>6. again = [i \in 1..Len(both) |-> both[(Len(both) - i) + 1]]
  BY DEF Reordered, Reverse, copies
<1> HIDE DEF both, again, n
<1>7. /\ again \in Seq(RowsOf(adapter))
      /\ DOMAIN again = 1..(n + n)
      /\ \A i \in 1..(n + n) : again[i] = both[(n + n - i) + 1]
  <2>1. \A i \in 1..(n + n) : (n + n - i) + 1 \in 1..(n + n)
    BY <1>1
  <2>2. \A i \in 1..(n + n) : both[(n + n - i) + 1] \in RowsOf(adapter)
    BY <1>5, <2>1
  <2> QED
    BY <1>1, <1>5, <1>6, <2>1, <2>2
<1>8. Among(rows) \subseteq Among(again)
  <2>1. SUFFICES ASSUME NEW i \in 1..n PROVE \E j \in DOMAIN again : again[j] = rows[i]
    BY <1>1 DEF Among
  <2>2. (n + n - i) + 1 \in 1..(n + n) /\ (n + n - ((n + n - i) + 1)) + 1 = i
    BY <1>1
  <2> QED
    BY <1>5, <1>7, <2>2
<1>9. \A v \in Among(again) :
        \E u \in Among(rows) : v = u \/ v = Poorer(u)
  <2>1. SUFFICES ASSUME NEW i \in 1..(n + n)
                 PROVE  \E u \in Among(rows) : again[i] = u \/ again[i] = Poorer(u)
    BY <1>7 DEF Among
  <2>2. CASE (n + n - i) + 1 \in 1..n
    BY <1>1, <1>5, <1>7, <2>2 DEF Among
  <2>3. CASE (n + n - i) + 1 \notin 1..n
    <3>1. n - i + 1 \in 1..n /\ n + (n - i + 1) = (n + n - i) + 1
      BY <1>1, <2>3
    <3>2. again[i] = Poorer(rows[n - i + 1])
      BY <1>5, <1>7, <3>1
    <3> QED
      BY <1>1, <3>1, <3>2 DEF Among
  <2> QED
    BY <2>2, <2>3
<1>10. \A u \in Among(rows) :
         /\ u \in RowSet /\ Poorer(u) \in RowSet /\ Poorer(u).address = u.address
         /\ Poorer(u) = u \/ Richer(u, Poorer(u))
  BY <1>2, PoorerIsPoorer DEF Among
<1>11. BestOf(again) \subseteq BestOf(rows)
  <2>1. SUFFICES ASSUME NEW v \in BestOf(again) PROVE v \in BestOf(rows)
    OBVIOUS
  <2>2. /\ v \in Among(again) /\ Known(CounterMintOf(v))
        /\ \A u \in Among(again) : u.address = v.address => ~Richer(u, v)
    BY <2>1 DEF BestOf
  <2>3. PICK u \in Among(rows) : v = u \/ v = Poorer(u)
    BY <1>9, <2>2
  <2>4. v = u
    BY <1>8, <1>10, <2>2, <2>3
  <2> QED
    BY <1>8, <2>2, <2>4 DEF BestOf
<1>12. BestOf(rows) \subseteq BestOf(again)
  <2>1. SUFFICES ASSUME NEW v \in BestOf(rows), NEW x \in Among(again),
                        x.address = v.address, Richer(x, v)
                 PROVE  FALSE
    BY <1>8 DEF BestOf
  <2>2. PICK u \in Among(rows) : x = u \/ x = Poorer(u)
    BY <1>9
  <2>3. /\ u \in RowSet /\ x \in RowSet /\ v \in RowSet /\ u.address = v.address
        /\ x = u \/ Richer(u, x)
    BY <1>10, <2>1, <2>2 DEF BestOf
  <2>4. Richer(u, v)
    BY <2>1, <2>3, RicherOrders
  <2> QED
    BY <2>1, <2>3, <2>4 DEF BestOf
<1>13. Deduped(again, adapter) = BestOf(again)
  BY <1>7, DedupedIsBest
<1> QED
  BY <1>11, <1>12, <1>13, DedupedIsBest DEF again

-----------------------------------------------------------------------------
(* Routes and their ranking.                                               *)

\* The rows that routes are made of: one for an address, all with a mint.
KeptRows(ray, pump) ==
  /\ ray \subseteq RowsOf("raydium_cpmm") /\ pump \subseteq RowsOf("pumpswap")
  /\ IsFiniteSet(ray) /\ IsFiniteSet(pump)
  /\ \A p, q \in ray \cup pump : p.address = q.address => p = q
  /\ \A p \in ray \cup pump : CounterMintOf(p) \in Nat

\* The kind of a route between two rows, and the couples that can make one.
CategoryOf(a, b) ==
  IF a.adapter # b.adapter THEN "cross_adapter"
  ELSE IF a.adapter = "pumpswap" THEN "pumpswap_x2" ELSE "raydium_x2"

Couples(kept) ==
  {p \in kept \X kept : /\ p[1].address # p[2].address
                        /\ CounterMintOf(p[1]) = CounterMintOf(p[2])
                        /\ p[1].adapter # p[2].adapter => p[1].adapter = "raydium_cpmm"}

\* The routes two rows can make.
RouteFor(p) == Route(CategoryOf(p[1], p[2]), CounterMintOf(p[1]), p[1], p[2])
Possible(kept) == {RouteFor(p) : p \in Couples(kept)}

\* The route of a couple, field by field.
LEMMA RouteFields ==
  ASSUME NEW c, NEW m, NEW a, NEW b
  PROVE  /\ Route(c, m, a, b).category = c /\ Route(c, m, a, b).mint = m
         /\ Route(c, m, a, b).poolA = a /\ Route(c, m, a, b).poolB = b
         /\ Route(c, m, a, b).rank =
              (IF Known(a.tvl) /\ Known(b.tvl) THEN Least(a.tvl, b.tvl)
               ELSE IF c = "cross_adapter" THEN a.tvl ELSE Unknown)
         /\ Route(c, m, a, b).canonicalCount = Cardinality({p \in {a, b} : p.canonical = 1})
BY DEF Route

\* Every route of the ranking is made by such a couple.
LEMMA RoutesArePossible ==
  ASSUME NEW ray, NEW pump, KeptRows(ray, pump)
  PROVE  RouteSet(ray, pump) \subseteq Possible(ray \cup pump)
<1> DEFINE kept == ray \cup pump
<1>1. ASSUME NEW category, NEW left \in SUBSET kept, NEW right \in SUBSET kept,
             \/ category = "cross_adapter" /\ left = ray /\ right = pump
             \/ category = "pumpswap_x2" /\ left = pump /\ right = pump
             \/ category = "raydium_x2" /\ left = ray /\ right = ray,
             NEW r \in Pairs(category, left, right)
      PROVE  r \in Possible(kept)
  <2>1. PICK m \in MintsOf(left) :
          r \in RankedPairs(category, m, ByMint(left, m), ByMint(right, m), DefaultRoutesPerMint)
    BY <1>1 DEF Pairs
  <2>2. PICK a \in ByMint(left, m), b \in ByMint(right, m) :
          /\ category # "cross_adapter" => a.address # b.address
          /\ r = MakeRoute(category, m, a, b)
    BY <2>1 DEF RankedPairs
  <2>3. /\ a \in left /\ b \in right /\ a \in kept /\ b \in kept
        /\ CounterMintOf(a) = m /\ CounterMintOf(b) = m
    BY <2>2 DEF ByMint
  <2>4. /\ category = "cross_adapter" =>
             a.adapter = "raydium_cpmm" /\ b.adapter = "pumpswap"
        /\ category = "pumpswap_x2" => a.adapter = "pumpswap" /\ b.adapter = "pumpswap"
        /\ category = "raydium_x2" => a.adapter = "raydium_cpmm" /\ b.adapter = "raydium_cpmm"
    BY <1>1, <2>3 DEF KeptRows, RowsOf
  <2>9. a.address # b.address
    <3>1. category = "cross_adapter" => a # b
      BY <2>4
    <3> QED
      BY <2>2, <2>3, <3>1 DEF KeptRows
  <2>5. CategoryOf(a, b) = category /\ (category # "cross_adapter" => CategoryOf(b, a) = category)
    BY <1>1, <2>4 DEF CategoryOf
  <2>6. r = Route(category, m, a, b)
        \/ (category # "cross_adapter" /\ r = Route(category, m, b, a))
    BY <2>2, <2>4 DEF MakeRoute
  <2>7. CASE r = Route(category, m, a, b)
    <3>1. <<a, b>> \in Couples(kept)
      BY <1>1, <2>9, <2>3, <2>4 DEF Couples
    <3>2. r = RouteFor(<<a, b>>)
      BY <2>3, <2>5, <2>7 DEF RouteFor
    <3> QED
      BY <3>1, <3>2 DEF Possible
  <2>8. CASE category # "cross_adapter" /\ r = Route(category, m, b, a)
    <3>1. <<b, a>> \in Couples(kept)
      BY <1>1, <2>9, <2>3, <2>4, <2>8 DEF Couples
    <3>2. r = RouteFor(<<b, a>>)
      BY <2>3, <2>5, <2>8 DEF RouteFor
    <3> QED
      BY <3>1, <3>2 DEF Possible
  <2> QED
    BY <2>6, <2>7, <2>8
<1>2. ray \in SUBSET kept /\ pump \in SUBSET kept
  OBVIOUS
<1> HIDE DEF kept
<1>3. /\ \A r \in Pairs("cross_adapter", ray, pump) : r \in Possible(kept)
      /\ \A r \in Pairs("pumpswap_x2", pump, pump) : r \in Possible(kept)
      /\ \A r \in Pairs("raydium_x2", ray, ray) : r \in Possible(kept)
  BY <1>1, <1>2
<1> QED
  BY <1>3 DEF RouteSet, kept

\* Finitely many rows make finitely many routes.
LEMMA PossibleIsFinite ==
  ASSUME NEW kept, IsFiniteSet(kept)
  PROVE  IsFiniteSet(Possible(kept))
<1> DEFINE D == Couples(kept)
           f == [p \in D |-> RouteFor(p)]
<1>1. IsFiniteSet(D)
  <2>1. IsFiniteSet(kept \X kept)
    BY FS_Product
  <2>2. D \in SUBSET (kept \X kept)
    BY DEF Couples
  <2> HIDE DEF D
  <2> QED
    BY <2>1, <2>2, FS_Subset
<1>2. f \in Surjection(D, Possible(kept))
  BY DEF Possible, Surjection
<1> HIDE DEF D, f
<1> QED
  BY <1>1, <1>2, FS_Surjection

\* Two pools of the kept rows, of one mint, and the route they make.
Joins(r, kept) ==
  /\ r.poolA \in kept /\ r.poolB \in kept
  /\ r.poolA.address # r.poolB.address
  /\ r.mint = CounterMintOf(r.poolA) /\ r.mint = CounterMintOf(r.poolB)
  /\ r = RouteFor(<<r.poolA, r.poolB>>)

\* A route that two rows can make, and the key it is ranked by.
LEMMA KeyIs ==
  ASSUME NEW ray, NEW pump, KeptRows(ray, pump), NEW r \in Possible(ray \cup pump)
  PROVE  /\ RouteKey(r) \in Keys
         /\ RouteKey(r)[4] = r.poolA.address
         /\ RouteKey(r)[5] = r.poolB.address
         /\ Joins(r, ray \cup pump)
<1>1. PICK p \in Couples(ray \cup pump) : r = RouteFor(p)
  BY DEF Possible
<1> DEFINE a == p[1]
           b == p[2]
<1>2. /\ a \in ray \cup pump /\ b \in ray \cup pump /\ a.address # b.address
      /\ CounterMintOf(a) = CounterMintOf(b)
      /\ p = <<a, b>>
  BY <1>1 DEF Couples
<1>3. r = Route(CategoryOf(a, b), CounterMintOf(a), a, b)
  BY <1>1 DEF RouteFor
<1> HIDE DEF a, b
<1>4. a \in RowSet /\ b \in RowSet /\ CounterMintOf(a) \in Nat
  BY <1>2 DEF KeptRows, RowsOf
<1>5. /\ r.poolA = a /\ r.poolB = b /\ r.mint = CounterMintOf(a)
      /\ r.rank = (IF Known(a.tvl) /\ Known(b.tvl) THEN Least(a.tvl, b.tvl)
                   ELSE IF CategoryOf(a, b) = "cross_adapter" THEN a.tvl ELSE Unknown)
      /\ r.canonicalCount = Cardinality({x \in {a, b} : x.canonical = 1})
  BY <1>3, RouteFields
<1>6. r.rank \in Int
  BY <1>4, <1>5 DEF RowSet, Unknown, Least
<1>7. r.canonicalCount \in Nat
  <2>1. IsFiniteSet({a} \cup {b})
    BY FS_Singleton, FS_Union
  <2>2. {x \in {a, b} : x.canonical = 1} \in SUBSET ({a} \cup {b})
    OBVIOUS
  <2>3. IsFiniteSet({x \in {a, b} : x.canonical = 1})
    BY <2>1, <2>2, FS_Subset
  <2> QED
    BY <1>5, <2>3, FS_CardinalityType
<1>8. a.address \in Nat /\ b.address \in Nat
  BY <1>4 DEF RowSet
<1>9. RouteKey(r) = <<-r.rank, -r.canonicalCount, r.mint, a.address, b.address>>
  BY <1>5 DEF RouteKey
<1>10. -r.rank \in Int /\ -r.canonicalCount \in Int /\ r.mint \in Int
  BY <1>4, <1>5, <1>6, <1>7
<1>11. /\ RouteKey(r) \in Keys
       /\ RouteKey(r)[4] = a.address /\ RouteKey(r)[5] = b.address
  BY <1>8, <1>9, <1>10 DEF Keys
<1> QED
  BY <1>1, <1>2, <1>5, <1>11 DEF Joins

\* No two routes rank the same.
LEMMA BeforeOrders ==
  ASSUME NEW ray, NEW pump, KeptRows(ray, pump),
         NEW x \in Possible(ray \cup pump), NEW y \in Possible(ray \cup pump),
         NEW z \in Possible(ray \cup pump)
  PROVE  /\ ~Before(x, x)
         /\ Before(x, y) /\ Before(y, z) => Before(x, z)
         /\ x # y => Before(x, y) \/ Before(y, x)
<1>1. RouteKey(x) \in Keys /\ RouteKey(y) \in Keys /\ RouteKey(z) \in Keys
  BY KeyIs
<1>2. x # y => RouteKey(x) # RouteKey(y)
  <2>1. SUFFICES ASSUME RouteKey(x) = RouteKey(y) PROVE x = y
    OBVIOUS
  <2> DEFINE kept == ray \cup pump
  <2>2. \A r \in Possible(kept) :
          /\ RouteKey(r)[4] = r.poolA.address /\ RouteKey(r)[5] = r.poolB.address
          /\ r.poolA \in kept /\ r.poolB \in kept
    <3> TAKE r \in Possible(ray \cup pump)
    <3>1. RouteKey(r)[4] = r.poolA.address
      BY KeyIs
    <3>2. RouteKey(r)[5] = r.poolB.address
      BY KeyIs
    <3>3. Joins(r, ray \cup pump)
      BY KeyIs
    <3> QED
      BY <3>1, <3>2, <3>3 DEF Joins
  <2>3. \A p, q \in kept : p.address = q.address => p = q
    BY DEF KeptRows
  <2>4. x \in Possible(kept) /\ y \in Possible(kept)
    OBVIOUS
  <2> HIDE DEF kept
  <2>5. x.poolA.address = y.poolA.address /\ x.poolB.address = y.poolB.address
    BY <2>1, <2>2, <2>4
  <2>6. x.poolA = y.poolA /\ x.poolB = y.poolB
    BY <2>2, <2>3, <2>4, <2>5
  <2>7. Joins(x, ray \cup pump) /\ Joins(y, ray \cup pump)
    BY KeyIs
  <2> QED
    BY <2>6, <2>7 DEF Joins
<1> QED
  BY <1>1, <1>2, AboveOrders DEF Before

\* The routes come in a sequence of routes that two rows can make.
LEMMA RoutesAreListed ==
  ASSUME NEW ray, NEW pump, KeptRows(ray, pump)
  PROVE  RoutesOf(ray, pump) \in Seq(Possible(ray \cup pump))
<1> DEFINE S == RouteSet(ray, pump)
           R == {p \in S \X S : Before(p[1], p[2])}
<1>1. S \subseteq Possible(ray \cup pump)
  BY RoutesArePossible
<1>2. IsFiniteSet(S)
  <2>1. IsFiniteSet(ray \cup pump)
    BY FS_Union DEF KeptRows
  <2> HIDE DEF S
  <2> QED
    BY <1>1, <2>1, PossibleIsFinite, FS_Subset
<1>3. Cardinality(S) \in Nat
  BY <1>2, FS_CardinalityType
<1> HIDE DEF S
<1>4. \A x, y \in S : <<x, y>> \in R <=> Before(x, y)
  OBVIOUS
<1> HIDE DEF R
<1>5. /\ \A x \in S : <<x, x>> \notin R
      /\ \A x, y, z \in S : <<x, y>> \in R /\ <<y, z>> \in R => <<x, z>> \in R
      /\ \A x, y \in S : x # y => <<x, y>> \in R \/ <<y, x>> \in R
  BY <1>1, <1>4, BeforeOrders
<1>6. \A n \in 1..Cardinality(S) : \E x \in S : Cardinality({y \in S : Before(y, x)}) = n - 1
  <2> TAKE n \in 1..Cardinality(S)
  <2>1. PICK x \in S : Cardinality({y \in S : <<y, x>> \in R}) = n - 1
    BY <1>2, <1>5, Placed
  <2>2. {y \in S : <<y, x>> \in R} = {y \in S : Before(y, x)}
    BY <1>4
  <2> QED
    BY <2>1, <2>2
<1>7. RoutesOf(ray, pump) = [n \in 1..Cardinality(S) |->
         CHOOSE x \in S : Cardinality({y \in S : Before(y, x)}) = n - 1]
  BY DEF RoutesOf, InOrder, S
<1> DEFINE list == RoutesOf(ray, pump)
           N == Cardinality(S)
<1>8. list = [n \in 1..N |-> list[n]]
  BY <1>7
<1>9. \A n \in 1..N : list[n] \in S
  BY <1>6, <1>7
<1> DEFINE T == Possible(ray \cup pump)
<1>10. N \in Nat /\ S \subseteq T
  BY <1>1, <1>3
<1> HIDE DEF list, N, T
<1>11. \A n \in 1..N : list[n] \in T
  BY <1>9, <1>10
<1>12. list \in Seq(T)
  BY <1>8, <1>10, <1>11
<1> QED
  BY <1>12 DEF list, T

-----------------------------------------------------------------------------
(* Shortlists, one route after another.                                    *)

\* Rows as the ranking has them: finitely many, one for an address.
OneRowEach(kept) ==
  /\ kept \subseteq RowSet
  /\ \A p, q \in kept : p.address = q.address => p = q
  /\ \A p \in kept : CounterMintOf(p) \in Nat

\* The entries of a shortlist.
EntrySet == [adapter : {"raydium_cpmm", "pumpswap"}, address : Nat, mint : Nat]
IsListed(list, p) == \E i \in DOMAIN list.pools : list.pools[i].address = p.address
EntryFor(p, mint) == [adapter |-> p.adapter, address |-> p.address, mint |-> mint]

\* What a shortlist consists of: kept pools with their mints, no two of an
\* address and none alone for its mint, and routes between them.
Composed(list, kept, T) ==
  /\ list \in [pools : Seq(EntrySet), routes : Seq(T)]
  /\ \A i \in DOMAIN list.pools :
       /\ \E p \in kept : list.pools[i] = EntryFor(p, CounterMintOf(p))
       /\ \E j \in DOMAIN list.pools : j # i /\ list.pools[j].mint = list.pools[i].mint
  /\ \A i, j \in DOMAIN list.pools :
       list.pools[i].address = list.pools[j].address => i = j
  /\ \A k \in DOMAIN list.routes : /\ IsListed(list, list.routes[k].poolA)
                                   /\ IsListed(list, list.routes[k].poolB)

\* The list with a route and its pools, whatever the limits.
Extended(list, r) ==
  LET fresh == FreshOf(list, r) IN
  [pools |-> list.pools \o [i \in DOMAIN fresh |->
                [adapter |-> fresh[i].adapter, address |-> fresh[i].address, mint |-> r.mint]],
   routes |-> Append(list.routes, r)]

\* The pools a route adds are those of its two that are not listed.
LEMMA FreshIs ==
  ASSUME NEW list, NEW r
  PROVE  FreshOf(list, r) =
           IF IsListed(list, r.poolA)
           THEN IF IsListed(list, r.poolB) THEN << >> ELSE <<r.poolB>>
           ELSE IF IsListed(list, r.poolB) THEN <<r.poolA>> ELSE <<r.poolA, r.poolB>>
<1> DEFINE Unlisted(p) == IF IsListed(list, p) THEN << >> ELSE <<p>>
<1>1. FreshOf(list, r) = Unlisted(r.poolA) \o Unlisted(r.poolB)
  BY DEF FreshOf, IsListed
<1>2. /\ << >> \o << >> = << >> /\ \A a : << >> \o <<a>> = <<a>> /\ <<a>> \o << >> = <<a>>
  OBVIOUS
<1>3. ASSUME NEW a, NEW b PROVE <<a>> \o <<b>> = <<a, b>>
  <2> DEFINE s == <<a>> \o <<b>>
             t == <<a, b>>
  <2>1. <<a>> \in Seq({a, b}) /\ <<b>> \in Seq({a, b}) /\ t \in Seq({a, b})
    OBVIOUS
  <2>2. /\ s \in Seq({a, b}) /\ Len(s) = 2
        /\ \A i \in 1..2 : s[i] = IF i <= 1 THEN <<a>>[i] ELSE <<b>>[i - 1]
    BY <2>1, ConcatProperties
  <2>3. s[1] = a /\ s[2] = b
    BY <2>2
  <2>4. Len(t) = 2 /\ t[1] = a /\ t[2] = b
    OBVIOUS
  <2> HIDE DEF s, t
  <2>5. \A i \in 1..Len(s) : s[i] = t[i]
    BY <2>2, <2>3, <2>4
  <2>6. s = t
    BY <2>1, <2>2, <2>4, <2>5, SeqEqual
  <2> QED
    BY <2>6 DEF s, t
<1> QED
  BY <1>1, <1>2, <1>3

\* The pools of the longer list: those before and the fresh ones.
LEMMA ExtendedIs ==
  ASSUME NEW kept, OneRowEach(kept), NEW r, Joins(r, kept), NEW T, r \in T,
         NEW list \in [pools : Seq(EntrySet), routes : Seq(T)]
  PROVE  LET n == Len(list.pools)
             fresh == FreshOf(list, r)
             new == Extended(list, r)
         IN  /\ n \in Nat /\ Len(fresh) \in 0..2 /\ Len(new.pools) = n + Len(fresh)
             /\ new \in [pools : Seq(EntrySet), routes : Seq(T)]
             /\ \A i \in 1..n : new.pools[i] = list.pools[i]
             /\ \A i \in 1..Len(fresh) :
                  /\ new.pools[n + i] = EntryFor(fresh[i], r.mint)
                  /\ fresh[i] \in {r.poolA, r.poolB} /\ ~IsListed(list, fresh[i])
             /\ \A p \in {r.poolA, r.poolB} :
                  ~IsListed(list, p) => \E i \in 1..Len(fresh) : fresh[i] = p
             /\ \A i, j \in 1..Len(fresh) : fresh[i].address = fresh[j].address => i = j
             /\ new.routes = Append(list.routes, r)
<1> DEFINE n == Len(list.pools)
           fresh == FreshOf(list, r)
           k == Len(fresh)
           entries == [i \in DOMAIN fresh |-> EntryFor(fresh[i], r.mint)]
           new == Extended(list, r)
<1>1. /\ new.pools = list.pools \o entries /\ new.routes = Append(list.routes, r)
      /\ new = [pools |-> new.pools, routes |-> new.routes]
  BY DEF Extended, EntryFor
<1>2. /\ list.pools \in Seq(EntrySet) /\ list.routes \in Seq(T) /\ n \in Nat
      /\ DOMAIN list.pools = 1..n
  OBVIOUS
<1> DEFINE a == r.poolA
           b == r.poolB
<1>3. /\ a \in kept /\ b \in kept /\ a.address # b.address /\ r.mint \in Nat
      /\ a \in RowSet /\ b \in RowSet
  BY DEF Joins, OneRowEach
<1>4. fresh = IF IsListed(list, a) THEN IF IsListed(list, b) THEN << >> ELSE <<b>>
              ELSE IF IsListed(list, b) THEN <<a>> ELSE <<a, b>>
  BY FreshIs
<1> HIDE DEF fresh, new, a, b
<1>5. /\ k \in 0..2 /\ DOMAIN fresh = 1..k
      /\ \A i \in 1..k : fresh[i] \in {a, b} /\ ~IsListed(list, fresh[i])
      /\ \A p \in {a, b} : ~IsListed(list, p) => \E i \in 1..k : fresh[i] = p
      /\ \A i, j \in 1..k : fresh[i].address = fresh[j].address => i = j
  <2>1. CASE IsListed(list, a) /\ IsListed(list, b)
    <3>1. fresh = << >>
      BY <1>4, <2>1
    <3> QED
      BY <2>1, <3>1
  <2>2. CASE IsListed(list, a) /\ ~IsListed(list, b)
    <3>1. fresh = <<b>>
      BY <1>4, <2>2
    <3> QED
      BY <2>2, <3>1
  <2>3. CASE ~IsListed(list, a) /\ IsListed(list, b)
    <3>1. fresh = <<a>>
      BY <1>4, <2>3
    <3> QED
      BY <2>3, <3>1
  <2>4. CASE ~IsListed(list, a) /\ ~IsListed(list, b)
    <3>1. fresh = <<a, b>>
      BY <1>4, <2>4
    <3>2. k = 2 /\ fresh[1] = a /\ fresh[2] = b /\ DOMAIN fresh = 1..2
      BY <3>1
    <3>3. \A i \in 1..2 : i = 1 \/ i = 2
      OBVIOUS
    <3> QED
      BY <1>3, <2>4, <3>2, <3>3
  <2> QED
    BY <2>1, <2>2, <2>3, <2>4
<1>6. \A i \in 1..k : EntryFor(fresh[i], r.mint) \in EntrySet
  BY <1>3, <1>5 DEF EntryFor, EntrySet, RowSet
<1>7. /\ entries \in Seq(EntrySet) /\ Len(entries) = k
      /\ \A i \in 1..k : entries[i] = EntryFor(fresh[i], r.mint)
  BY <1>5, <1>6
<1> HIDE DEF entries, k
<1>8. /\ new.pools \in Seq(EntrySet) /\ Len(new.pools) = n + k
      /\ \A i \in 1..n : new.pools[i] = list.pools[i]
      /\ \A i \in 1..k : new.pools[n + i] = entries[i]
  <2> DEFINE s == list.pools
  <2>1. s \in Seq(EntrySet) /\ Len(s) = n /\ n \in Nat /\ k \in Nat
    BY <1>2, <1>5
  <2> HIDE DEF s, n
  <2> DEFINE all == s \o entries
  <2>2. /\ all \in Seq(EntrySet) /\ Len(all) = n + k
        /\ \A i \in 1..n + k : all[i] = IF i <= n THEN s[i] ELSE entries[i - n]
    BY <1>7, <2>1, ConcatProperties
  <2> HIDE DEF all
  <2>3. \A i \in 1..n : all[i] = s[i]
    BY <2>1, <2>2
  <2>4. \A i \in 1..k : all[n + i] = entries[i]
    <3> TAKE i \in 1..k
    <3>1. n + i \in 1..n + k /\ ~(n + i <= n) /\ (n + i) - n = i
      BY <2>1
    <3> QED
      BY <2>2, <3>1
  <2> QED
    BY <1>1, <2>2, <2>3, <2>4 DEF s, all, n
<1>9. new \in [pools : Seq(EntrySet), routes : Seq(T)]
  <2>1. new.routes \in Seq(T)
    BY <1>1, <1>2, AppendProperties
  <2> QED
    BY <1>1, <1>8, <2>1
<1> QED
  BY <1>1, <1>2, <1>5, <1>7, <1>8, <1>9 DEF fresh, new, k, a, b

\* A listed pool stands in the list with its own mint.
LEMMA ListedWithMint ==
  ASSUME NEW kept, OneRowEach(kept), NEW T, NEW list, Composed(list, kept, T),
         NEW p \in kept, IsListed(list, p)
  PROVE  \E i \in DOMAIN list.pools : list.pools[i] = EntryFor(p, CounterMintOf(p))
<1>1. PICK i \in DOMAIN list.pools : list.pools[i].address = p.address
  BY DEF IsListed
<1>2. PICK q \in kept : list.pools[i] = EntryFor(q, CounterMintOf(q))
  BY DEF Composed
<1>3. list.pools[i].address = q.address
  BY <1>2 DEF EntryFor
<1>4. q = p
  BY <1>1, <1>3 DEF OneRowEach
<1> QED
  BY <1>2, <1>4

\* A route makes a shortlist of a shortlist.
LEMMA ExtendedIsComposed ==
  ASSUME NEW kept, OneRowEach(kept), NEW T, NEW r \in T, Joins(r, kept),
         NEW list, Composed(list, kept, T)
  PROVE  Composed(Extended(list, r), kept, T)
<1> DEFINE n == Len(list.pools)
           fresh == FreshOf(list, r)
           k == Len(fresh)
           new == Extended(list, r)
<1>1. list \in [pools : Seq(EntrySet), routes : Seq(T)]
  BY DEF Composed
<1>2. /\ n \in Nat /\ k \in 0..2 /\ Len(new.pools) = n + k
      /\ new \in [pools : Seq(EntrySet), routes : Seq(T)]
      /\ \A i \in 1..n : new.pools[i] = list.pools[i]
      /\ \A i \in 1..k : /\ new.pools[n + i] = EntryFor(fresh[i], r.mint)
                         /\ fresh[i] \in {r.poolA, r.poolB} /\ ~IsListed(list, fresh[i])
      /\ \A p \in {r.poolA, r.poolB} : ~IsListed(list, p) => \E i \in 1..k : fresh[i] = p
      /\ \A i, j \in 1..k : fresh[i].address = fresh[j].address => i = j
      /\ new.routes = Append(list.routes, r)
  BY <1>1, ExtendedIs
<1> HIDE DEF n, fresh, k, new
<1>3. /\ DOMAIN list.pools = 1..n /\ DOMAIN new.pools = 1..(n + k)
      /\ list.routes \in Seq(T) /\ new.routes \in Seq(T)
  <2>1. list.pools \in Seq(EntrySet) /\ new.pools \in Seq(EntrySet)
    BY <1>1, <1>2
  <2>2. DOMAIN list.pools = 1..n
    BY <2>1 DEF n
  <2>3. DOMAIN new.pools = 1..(n + k)
    BY <1>2, <2>1
  <2> QED
    BY <1>1, <1>2, <2>2, <2>3
<1>4. \A i \in 1..(n + k) : i \in 1..n \/ \E h \in 1..k : i = n + h
  <2> TAKE i \in 1..(n + k)
  <2>1. i \notin 1..n => i - n \in 1..k /\ i = n + (i - n)
    BY <1>2
  <2> QED
    BY <2>1
<1>5. /\ \A i \in 1..n : i \in 1..(n + k)
      /\ \A h \in 1..k : n + h \in 1..(n + k) /\ n + h \notin 1..n
      /\ \A h, g \in 1..k : h # g => n + h # n + g
  BY <1>2
<1>6. /\ r.poolA \in kept /\ r.poolB \in kept /\ r.poolA.address # r.poolB.address
      /\ CounterMintOf(r.poolA) = r.mint /\ CounterMintOf(r.poolB) = r.mint
  BY DEF Joins
<1>7. \A p \in {r.poolA, r.poolB} :
        \E i \in 1..(n + k) : new.pools[i] = EntryFor(p, r.mint)
  <2>1. SUFFICES ASSUME NEW p \in {r.poolA, r.poolB}
                 PROVE  \E i \in 1..(n + k) : new.pools[i] = EntryFor(p, r.mint)
    OBVIOUS
  <2>2. CASE IsListed(list, p)
    <3>1. p \in kept /\ CounterMintOf(p) = r.mint
      BY <1>6
    <3>2. PICK i \in DOMAIN list.pools : list.pools[i] = EntryFor(p, CounterMintOf(p))
      BY <2>2, <3>1, ListedWithMint
    <3> QED
      BY <1>2, <1>3, <1>5, <3>1, <3>2
  <2>3. CASE ~IsListed(list, p)
    <3>1. PICK h \in 1..k : fresh[h] = p
      BY <1>2, <2>3
    <3> QED
      BY <1>2, <1>5, <3>1
  <2> QED
    BY <2>2, <2>3
<1>8. ASSUME NEW i \in 1..(n + k)
      PROVE  /\ \E p \in kept : new.pools[i] = EntryFor(p, CounterMintOf(p))
             /\ \E j \in 1..(n + k) : j # i /\ new.pools[j].mint = new.pools[i].mint
  <2>1. CASE i \in 1..n
    <3>1. /\ \E p \in kept : list.pools[i] = EntryFor(p, CounterMintOf(p))
          /\ \E j \in 1..n : j # i /\ list.pools[j].mint = list.pools[i].mint
      BY <1>3, <2>1 DEF Composed
    <3> QED
      BY <1>2, <1>5, <2>1, <3>1
  <2>2. CASE \E h \in 1..k : i = n + h
    <3>1. PICK h \in 1..k : i = n + h
      BY <2>2
    <3>2. new.pools[i] = EntryFor(fresh[h], r.mint) /\ fresh[h] \in {r.poolA, r.poolB}
      BY <1>2, <3>1
    <3>3. PICK q \in {r.poolA, r.poolB} : q.address # fresh[h].address
      BY <1>6, <3>2
    <3>4. PICK j \in 1..(n + k) : new.pools[j] = EntryFor(q, r.mint)
      BY <1>7
    <3>5. /\ new.pools[i].address = fresh[h].address /\ new.pools[i].mint = r.mint
          /\ new.pools[j].address = q.address /\ new.pools[j].mint = r.mint
      BY <3>2, <3>4 DEF EntryFor
    <3>6. fresh[h] \in kept /\ CounterMintOf(fresh[h]) = r.mint
      BY <1>6, <3>2
    <3>7. j # i /\ new.pools[j].mint = new.pools[i].mint
      BY <3>3, <3>5
    <3>8. \E p \in kept : new.pools[i] = EntryFor(p, CounterMintOf(p))
      BY <3>2, <3>6
    <3> QED
      BY <3>7, <3>8
  <2> QED
    BY <1>4, <2>1, <2>2
<1>9. ASSUME NEW i \in 1..(n + k), NEW j \in 1..(n + k),
             new.pools[i].address = new.pools[j].address
      PROVE  i = j
  <2>0. /\ \A h \in 1..k : new.pools[n + h].address = fresh[h].address
        /\ \A x, y \in 1..n : list.pools[x].address = list.pools[y].address => x = y
    <3>1. \A h \in 1..k : new.pools[n + h] = EntryFor(fresh[h], r.mint)
      BY <1>2
    <3>2. \A x, m : EntryFor(x, m).address = x.address
      BY DEF EntryFor
    <3>3. \A x, y \in 1..n : list.pools[x].address = list.pools[y].address => x = y
      BY <1>3 DEF Composed
    <3> QED
      BY <3>1, <3>2, <3>3
  <2>1. ASSUME NEW x \in 1..n, NEW h \in 1..k
        PROVE  new.pools[x].address # new.pools[n + h].address
    <3>1. new.pools[n + h].address = fresh[h].address /\ ~IsListed(list, fresh[h])
      BY <1>2, <2>0
    <3> QED
      BY <1>2, <1>3, <3>1 DEF IsListed
  <2>2. CASE i \in 1..n /\ j \in 1..n
    <3>1. new.pools[i] = list.pools[i] /\ new.pools[j] = list.pools[j]
      BY <1>2, <2>2
    <3> QED
      BY <1>9, <2>0, <2>2, <3>1
  <2>3. CASE i \notin 1..n /\ j \notin 1..n
    <3>1. PICK h \in 1..k, g \in 1..k : i = n + h /\ j = n + g
      BY <1>4, <2>3
    <3>2. new.pools[i].address = fresh[h].address /\ new.pools[j].address = fresh[g].address
      BY <2>0, <3>1
    <3>3. h = g
      BY <1>2, <1>9, <3>2
    <3> QED
      BY <3>1, <3>3
  <2>4. CASE (i \in 1..n /\ j \notin 1..n) \/ (j \in 1..n /\ i \notin 1..n)
    BY <1>4, <1>9, <2>1, <2>4
  <2> QED
    BY <2>2, <2>3, <2>4
<1>10. \A p : IsListed(list, p) => IsListed(new, p)
  BY <1>2, <1>3, <1>5 DEF IsListed
<1>11. \A p \in {r.poolA, r.poolB} : IsListed(new, p)
  BY <1>3, <1>7 DEF IsListed, EntryFor
<1>12. ASSUME NEW x \in DOMAIN new.routes
       PROVE  IsListed(new, new.routes[x].poolA) /\ IsListed(new, new.routes[x].poolB)
  <2>1. /\ DOMAIN list.routes = 1..Len(list.routes) /\ Len(list.routes) \in Nat
        /\ DOMAIN new.routes = 1..(Len(list.routes) + 1)
        /\ \A y \in 1..Len(list.routes) : new.routes[y] = list.routes[y]
        /\ new.routes[Len(list.routes) + 1] = r
    BY <1>2, <1>3, AppendProperties
  <2>2. CASE x \in DOMAIN list.routes
    BY <1>10, <2>1, <2>2 DEF Composed
  <2>3. CASE x \notin DOMAIN list.routes
    <3>1. x = Len(list.routes) + 1
      BY <2>1, <2>3
    <3> QED
      BY <1>11, <2>1, <3>1
  <2> QED
    BY <2>2, <2>3
<1>13. Composed(new, kept, T)
  BY <1>2, <1>3, <1>8, <1>9, <1>12 DEF Composed
<1> QED
  BY <1>13 DEF new

\* The limits of a shortlist, and what they bound.
LimitSet == [maxPools : Nat, maxMints : Nat, maxPoolsPerMint : Nat]

Counted(list, limits) ==
  /\ Len(list.pools) <= limits.maxPools
  /\ Cardinality(MintsListed(list)) <= limits.maxMints
  /\ \A m \in MintsListed(list) :
       Cardinality(PoolsListedOf(list, m)) <= MaxPoolsPerMint(limits)

\* What the limits count is finite.
LEMMA CountsAreFinite ==
  ASSUME NEW list, list.pools \in Seq(EntrySet)
  PROVE  /\ IsFiniteSet(MintsListed(list))
         /\ Cardinality(MintsListed(list)) \in Nat
         /\ Cardinality(MintsListed(list)) <= Len(list.pools)
         /\ \A m : /\ IsFiniteSet(PoolsListedOf(list, m))
                   /\ Cardinality(PoolsListedOf(list, m)) \in Nat
                   /\ Cardinality(PoolsListedOf(list, m)) <= Len(list.pools)
<1> DEFINE n == Len(list.pools)
           f == [i \in 1..n |-> list.pools[i].mint]
<1>1. n \in Nat /\ DOMAIN list.pools = 1..n
  OBVIOUS
<1> HIDE DEF n
<1>2. IsFiniteSet(1..n) /\ Cardinality(1..n) = n
  BY <1>1, FS_Interval
<1>3. f \in Surjection(1..n, MintsListed(list))
  BY <1>1 DEF MintsListed, Surjection
<1> HIDE DEF f
<1>4. IsFiniteSet(MintsListed(list)) /\ Cardinality(MintsListed(list)) <= n
  BY <1>2, <1>3, FS_Surjection
<1>5. ASSUME NEW m
      PROVE  /\ IsFiniteSet(PoolsListedOf(list, m))
             /\ Cardinality(PoolsListedOf(list, m)) <= n
  <2>1. PoolsListedOf(list, m) \in SUBSET (1..n)
    BY <1>1 DEF PoolsListedOf
  <2> QED
    BY <1>2, <2>1, FS_Subset
<1>6. \A m : Cardinality(PoolsListedOf(list, m)) \in Nat
  BY <1>5, FS_CardinalityType
<1>7. Cardinality(MintsListed(list)) \in Nat
  BY <1>4, FS_CardinalityType
<1> QED
  BY <1>4, <1>5, <1>6, <1>7 DEF n

\* What is listed keeps the limits of what a shortlist may count.
LEMMA WithinIsCounted ==
  ASSUME NEW kept, NEW T, NEW list, Composed(list, kept, T),
         NEW limits \in LimitSet, Counted(list, limits)
  PROVE  WithinLimits(list, limits)
<1>1. list.pools \in Seq(EntrySet)
  BY DEF Composed
<1>2. ASSUME NEW m \in MintsListed(list)
      PROVE  Cardinality(PoolsListedOf(list, m)) \in 2..MaxPoolsPerMint(limits)
  <2> DEFINE S == PoolsListedOf(list, m)
  <2>1. PICK i \in DOMAIN list.pools : list.pools[i].mint = m
    BY DEF MintsListed
  <2>2. PICK j \in DOMAIN list.pools : j # i /\ list.pools[j].mint = m
    BY <2>1 DEF Composed
  <2>3. i \in S /\ j \in S
    BY <2>1, <2>2 DEF PoolsListedOf
  <2>4. IsFiniteSet(S) /\ Cardinality(S) \in Nat
    BY <1>1, CountsAreFinite
  <2>5. Cardinality(S) <= MaxPoolsPerMint(limits) /\ MaxPoolsPerMint(limits) \in Nat
    BY DEF Counted, MaxPoolsPerMint, LimitSet
  <2> HIDE DEF S
  <2>6. Cardinality({i} \cup {j}) = 2 /\ {i} \cup {j} \in SUBSET S
    <3>1. IsFiniteSet({i}) /\ Cardinality({i}) = 1 /\ j \notin {i}
      BY <2>2, FS_Singleton
    <3>2. Cardinality({i} \cup {j}) = Cardinality({i}) + 1
      BY <3>1, FS_AddElement
    <3> QED
      BY <2>3, <3>1, <3>2
  <2>7. 2 <= Cardinality(S)
    BY <2>4, <2>6, FS_Subset
  <2> QED
    BY <2>4, <2>5, <2>7 DEF S
<1>3. \A i, j \in DOMAIN list.pools : list.pools[i].address = list.pools[j].address => i = j
  BY DEF Composed
<1> QED
  BY <1>2, <1>3 DEF Counted, WithinLimits

\* A route that fits goes beyond no limit.
LEMMA ExtendedIsCounted ==
  ASSUME NEW kept, OneRowEach(kept), NEW T, NEW r \in T, Joins(r, kept),
         NEW list, Composed(list, kept, T), NEW limits \in LimitSet,
         Counted(list, limits), Fits(list, r, limits)
  PROVE  Counted(Extended(list, r), limits)
<1> DEFINE n == Len(list.pools)
           fresh == FreshOf(list, r)
           k == Len(fresh)
           new == Extended(list, r)
<1>1. list \in [pools : Seq(EntrySet), routes : Seq(T)]
  BY DEF Composed
<1>2. /\ n \in Nat /\ k \in 0..2 /\ Len(new.pools) = n + k
      /\ new \in [pools : Seq(EntrySet), routes : Seq(T)]
      /\ \A i \in 1..n : new.pools[i] = list.pools[i]
      /\ \A i \in 1..k : /\ new.pools[n + i] = EntryFor(fresh[i], r.mint)
                         /\ fresh[i] \in {r.poolA, r.poolB} /\ ~IsListed(list, fresh[i])
      /\ \A p \in {r.poolA, r.poolB} : ~IsListed(list, p) => \E i \in 1..k : fresh[i] = p
      /\ \A i, j \in 1..k : fresh[i].address = fresh[j].address => i = j
      /\ new.routes = Append(list.routes, r)
  BY <1>1, ExtendedIs
<1>3. /\ n + k <= limits.maxPools
      /\ Cardinality(PoolsListedOf(list, r.mint)) + k <= MaxPoolsPerMint(limits)
      /\ r.mint \in MintsListed(list) \/ Cardinality(MintsListed(list)) < limits.maxMints
  BY DEF Fits
<1> HIDE DEF n, fresh, k, new
<1>4. list.pools \in Seq(EntrySet) /\ new.pools \in Seq(EntrySet)
  BY <1>1, <1>2
<1>5. DOMAIN list.pools = 1..n /\ DOMAIN new.pools = 1..(n + k)
  <2>1. DOMAIN list.pools = 1..n
    BY <1>4 DEF n
  <2> QED
    BY <1>2, <1>4, <2>1
<1>6. /\ \A i \in 1..n : i \in 1..(n + k) /\ new.pools[i].mint = list.pools[i].mint
      /\ \A i \in 1..(n + k) : i \notin 1..n => i \in (n + 1)..(n + k) /\ new.pools[i].mint = r.mint
      /\ \A i \in (n + 1)..(n + k) : i \notin 1..n
  <2>1. ASSUME NEW i \in 1..(n + k), i \notin 1..n PROVE new.pools[i].mint = r.mint
    <3>1. i - n \in 1..k /\ i = n + (i - n)
      BY <1>2, <2>1
    <3>2. new.pools[n + (i - n)] = EntryFor(fresh[i - n], r.mint)
      BY <1>2, <3>1
    <3> QED
      BY <3>1, <3>2 DEF EntryFor
  <2>2. \A i \in 1..n : i \in 1..(n + k) /\ new.pools[i].mint = list.pools[i].mint
    BY <1>2
  <2>3. /\ \A i \in 1..(n + k) : i \notin 1..n => i \in (n + 1)..(n + k)
        /\ \A i \in (n + 1)..(n + k) : i \notin 1..n
    BY <1>2
  <2> QED
    BY <2>1, <2>2, <2>3
<1>7. /\ IsFiniteSet(MintsListed(list)) /\ Cardinality(MintsListed(list)) \in Nat
      /\ Cardinality(MintsListed(new)) \in Nat
      /\ \A m : /\ IsFiniteSet(PoolsListedOf(list, m))
                /\ Cardinality(PoolsListedOf(list, m)) \in Nat
                /\ Cardinality(PoolsListedOf(new, m)) \in Nat
  BY <1>4, CountsAreFinite
<1>8. /\ limits.maxMints \in Nat /\ MaxPoolsPerMint(limits) \in Nat
  BY DEF LimitSet, MaxPoolsPerMint
<1>9. Cardinality(MintsListed(new)) <= limits.maxMints
  <2>1. MintsListed(new) \in SUBSET (MintsListed(list) \cup {r.mint})
    BY <1>5, <1>6 DEF MintsListed
  <2>2. /\ IsFiniteSet(MintsListed(list) \cup {r.mint})
        /\ Cardinality(MintsListed(list) \cup {r.mint}) =
             IF r.mint \in MintsListed(list) THEN Cardinality(MintsListed(list))
             ELSE Cardinality(MintsListed(list)) + 1
    BY <1>7, FS_AddElement
  <2>3. Cardinality(MintsListed(list) \cup {r.mint}) <= limits.maxMints
    BY <1>3, <1>7, <1>8, <2>2 DEF Counted
  <2>4. Cardinality(MintsListed(new)) <= Cardinality(MintsListed(list) \cup {r.mint})
    BY <2>1, <2>2, FS_Subset
  <2> QED
    BY <1>7, <1>8, <2>2, <2>3, <2>4
<1>10. ASSUME NEW m \in MintsListed(new)
       PROVE  Cardinality(PoolsListedOf(new, m)) <= MaxPoolsPerMint(limits)
  <2>1. CASE m = r.mint
    <3> DEFINE S == PoolsListedOf(list, m)
               F == (n + 1)..(n + k)
    <3>1. PoolsListedOf(new, m) \in SUBSET (S \cup F)
      BY <1>5, <1>6 DEF PoolsListedOf
    <3>2. n + 1 \in Int /\ n + k \in Int
      BY <1>2
    <3>3. IsFiniteSet(F) /\ Cardinality(F) = k
      <4>1. /\ IsFiniteSet(F)
            /\ Cardinality(F) = IF n + 1 > n + k THEN 0 ELSE (n + k) - (n + 1) + 1
        BY <3>2, FS_Interval
      <4> QED
        BY <1>2, <4>1
    <3>4. S \cap F = {}
      BY <1>5, <1>6 DEF PoolsListedOf
    <3>5. IsFiniteSet(S) /\ Cardinality(S) \in Nat
      BY <1>7
    <3> HIDE DEF S, F
    <3>6. /\ IsFiniteSet(S \cup F)
          /\ Cardinality(S \cup F) = Cardinality(S) + Cardinality(F) - Cardinality(S \cap F)
      BY <3>3, <3>5, FS_Union
    <3>7. Cardinality(S \cup F) = Cardinality(S) + k
      <4>1. Cardinality(S \cap F) = 0
        BY <3>4, FS_EmptySet
      <4> QED
        BY <1>2, <3>3, <3>5, <3>6, <4>1
    <3>8. Cardinality(PoolsListedOf(new, m)) <= Cardinality(S \cup F)
      BY <3>1, <3>6, FS_Subset
    <3>9. Cardinality(S) + k <= MaxPoolsPerMint(limits)
      BY <1>3, <2>1 DEF S
    <3> QED
      BY <1>2, <1>7, <1>8, <3>5, <3>7, <3>8, <3>9
  <2>2. CASE m # r.mint
    <3>1. PoolsListedOf(new, m) \in SUBSET PoolsListedOf(list, m)
      BY <1>5, <1>6, <2>2 DEF PoolsListedOf
    <3>2. m \in MintsListed(list)
      BY <1>5, <1>6, <2>2 DEF MintsListed
    <3>3. Cardinality(PoolsListedOf(list, m)) <= MaxPoolsPerMint(limits)
      BY <3>2 DEF Counted
    <3>4. Cardinality(PoolsListedOf(new, m)) <= Cardinality(PoolsListedOf(list, m))
      BY <1>7, <3>1, FS_Subset
    <3> QED
      BY <1>7, <1>8, <3>3, <3>4
  <2> QED
    BY <2>1, <2>2
<1>11. Len(new.pools) <= limits.maxPools
  BY <1>2, <1>3
<1>12. Counted(new, limits)
  BY <1>9, <1>10, <1>11 DEF Counted
<1> QED
  BY <1>12 DEF new

\* The shortlists that the walk came to, one route after another.
Walked(f, n, S, routes, limits) ==
  /\ f \in [0..n -> S]
  /\ f[0] = EmptyShortlist
  /\ \A i \in 1..n : f[i] = Admit(f[i - 1], routes[i], limits)

\* A walk exists wherever a route makes a shortlist of a shortlist.
LEMMA WalkRuns ==
  ASSUME NEW N \in Nat, NEW S, EmptyShortlist \in S, NEW routes, NEW limits,
         \A i \in 1..N : \A list \in S : Admit(list, routes[i], limits) \in S
  PROVE  \E f : Walked(f, N, S, routes, limits)
<1> DEFINE G == {n \in 0..N : \E f : Walked(f, n, S, routes, limits)}
<1>1. 0 \in G
  <2>1. Walked([i \in 0..0 |-> EmptyShortlist], 0, S, routes, limits)
    BY DEF Walked
  <2> QED
    BY <2>1
<1>2. ASSUME NEW n \in 1..N, n - 1 \in G PROVE n \in G
  <2>1. PICK f : Walked(f, n - 1, S, routes, limits)
    BY <1>2
  <2> DEFINE g == [i \in 0..n |-> IF i = n THEN Admit(f[n - 1], routes[n], limits) ELSE f[i]]
  <2>2. /\ f \in [0..(n - 1) -> S] /\ f[0] = EmptyShortlist
        /\ \A i \in 1..(n - 1) : f[i] = Admit(f[i - 1], routes[i], limits)
    BY <2>1 DEF Walked
  <2>3. n \in Nat /\ n >= 1 /\ n - 1 \in 0..(n - 1)
    BY <1>2
  <2>4. Admit(f[n - 1], routes[n], limits) \in S
    <3>1. f[n - 1] \in S
      BY <2>2, <2>3
    <3> QED
      BY <3>1
  <2>5. \A i \in 0..n : i # n => i \in 0..(n - 1)
    BY <2>3
  <2>6. g \in [0..n -> S]
    BY <2>2, <2>4, <2>5
  <2>7. g[n] = Admit(f[n - 1], routes[n], limits) /\ \A i \in 0..(n - 1) : g[i] = f[i]
    BY <2>3
  <2> HIDE DEF g
  <2>8. g[0] = EmptyShortlist
    BY <2>2, <2>3, <2>7
  <2>9. ASSUME NEW i \in 1..n PROVE g[i] = Admit(g[i - 1], routes[i], limits)
    <3>1. i - 1 \in 0..(n - 1) /\ g[i - 1] = f[i - 1]
      BY <2>3, <2>7
    <3>2. CASE i = n
      BY <2>7, <3>1, <3>2
    <3>3. CASE i # n
      <4>1. i \in 1..(n - 1) /\ i \in 0..(n - 1)
        BY <2>3, <3>3
      <4> QED
        BY <2>2, <2>7, <3>1, <4>1
    <3> QED
      BY <3>2, <3>3
  <2>10. Walked(g, n, S, routes, limits)
    BY <2>6, <2>8, <2>9 DEF Walked
  <2> QED
    BY <1>2, <2>10
<1>3. \A n \in 0..N : n \in G
  <2> HIDE DEF G
  <2> QED
    BY <1>1, <1>2, EveryPage
<1>4. N \in 0..N
  OBVIOUS
<1> QED
  BY <1>3, <1>4

\* The last of such a walk is the shortlist.
LEMMA ShortlistIsWalked ==
  ASSUME NEW S, NEW T, NEW routes \in Seq(T), NEW limits, EmptyShortlist \in S,
         \A list \in S : \A r \in T : Admit(list, r, limits) \in S
  PROVE  \E f : /\ Walked(f, Len(routes), S, routes, limits)
                /\ Shortlist(routes, limits) = f[Len(routes)]
<1> DEFINE N == Len(routes)
           Body(f) == [n \in 0..N |-> IF n = 0 THEN EmptyShortlist
                                      ELSE Admit(f[n - 1], routes[n], limits)]
           walk == CHOOSE f : f = Body(f)
<1>1. Shortlist(routes, limits) = walk[N]
  BY DEF Shortlist
<1>2. N \in Nat /\ \A n \in 1..N : routes[n] \in T
  OBVIOUS
<1> HIDE DEF N
<1>3. PICK g : Walked(g, N, S, routes, limits)
  BY <1>2, WalkRuns
<1>4. g = Body(g)
  <2>1. /\ g \in [0..N -> S] /\ g[0] = EmptyShortlist
        /\ \A i \in 1..N : g[i] = Admit(g[i - 1], routes[i], limits)
    BY <1>3 DEF Walked
  <2>2. \A n \in 0..N : n # 0 => n \in 1..N
    BY <1>2
  <2>3. \A n \in 0..N : g[n] = IF n = 0 THEN EmptyShortlist
                               ELSE Admit(g[n - 1], routes[n], limits)
    BY <2>1, <2>2
  <2>4. g = [n \in 0..N |-> g[n]]
    BY <2>1
  <2> QED
    BY <2>3, <2>4
<1>5. walk = Body(walk)
  <2> HIDE DEF Body
  <2> QED
    BY <1>4
<1> HIDE DEF walk
<1>6. \A n \in 0..N : walk[n] = IF n = 0 THEN EmptyShortlist
                                ELSE Admit(walk[n - 1], routes[n], limits)
  BY <1>5
<1>7. /\ 0 \in 0..N /\ \A n \in 1..N : n \in 0..N /\ n # 0 /\ n - 1 \in 0..N
  BY <1>2
<1>8. walk[0] = EmptyShortlist
      /\ \A n \in 1..N : walk[n] = Admit(walk[n - 1], routes[n], limits)
  BY <1>6, <1>7
<1>9. walk \in [0..N -> S]
  <2> DEFINE G == {n \in 0..N : walk[n] \in S}
  <2>1. 0 \in G
    BY <1>7, <1>8
  <2>2. ASSUME NEW n \in 1..N, n - 1 \in G PROVE n \in G
    BY <1>2, <1>7, <1>8, <2>2
  <2>3. \A n \in 0..N : n \in G
    <3> HIDE DEF G
    <3> QED
      BY <1>2, <2>1, <2>2, EveryPage
  <2>4. walk = [n \in 0..N |-> walk[n]]
    BY <1>5
  <2> QED
    BY <2>3, <2>4
<1>10. Walked(walk, N, S, routes, limits)
  BY <1>8, <1>9 DEF Walked
<1> QED
  BY <1>1, <1>10 DEF N

\* The walk begins with a shortlist, within every limit.
LEMMA EmptyIsComposed ==
  ASSUME NEW kept, NEW T, NEW limits \in LimitSet
  PROVE  Composed(EmptyShortlist, kept, T) /\ Counted(EmptyShortlist, limits)
<1>1. /\ EmptyShortlist.pools = << >> /\ EmptyShortlist.routes = << >>
      /\ EmptyShortlist = [pools |-> << >>, routes |-> << >>]
  BY DEF EmptyShortlist
<1> DEFINE e == EmptyShortlist
<1> HIDE DEF e
<1>2. /\ << >> \in Seq(EntrySet) /\ << >> \in Seq(T) /\ DOMAIN << >> = {} /\ Len(<< >>) = 0
  BY EmptySeq
<1>3. e \in [pools : Seq(EntrySet), routes : Seq(T)]
  BY <1>1, <1>2 DEF e
<1>4. DOMAIN e.pools = {} /\ DOMAIN e.routes = {} /\ Len(e.pools) = 0
  BY <1>1, <1>2 DEF e
<1>5. Composed(e, kept, T)
  BY <1>3, <1>4 DEF Composed
<1>6. MintsListed(e) = {}
  BY <1>4 DEF MintsListed
<1>7. Cardinality(MintsListed(e)) = 0
  BY <1>6, FS_EmptySet
<1>8. Counted(e, limits)
  BY <1>4, <1>6, <1>7 DEF Counted, LimitSet
<1> QED
  BY <1>5, <1>8 DEF e

\* A route that fits is added, and no other.
LEMMA AdmitIs ==
  ASSUME NEW list, NEW r, NEW limits
  PROVE  Admit(list, r, limits) =
           IF Fits(list, r, limits) THEN Extended(list, r) ELSE list
BY DEF Admit, Extended

\* Every route of the walk that fits is listed, and no other.
LEMMA ShortlistIsComposed ==
  ASSUME NEW kept, OneRowEach(kept), NEW T, \A r \in T : Joins(r, kept),
         NEW routes \in Seq(T), NEW limits \in LimitSet
  PROVE  /\ Composed(Shortlist(routes, limits), kept, T)
         /\ Counted(Shortlist(routes, limits), limits)
         /\ (\A l : Composed(l, kept, T) => \A r \in T : Fits(l, r, limits))
            => Shortlist(routes, limits).routes = routes
<1> DEFINE N == Len(routes)
           S == {l \in [pools : Seq(EntrySet), routes : Seq(T)] :
                   Composed(l, kept, T) /\ Counted(l, limits)}
<1>1. \A l : l \in S <=> Composed(l, kept, T) /\ Counted(l, limits)
  BY DEF Composed
<1> HIDE DEF S
<1>2. EmptyShortlist \in S
  BY <1>1, EmptyIsComposed
<1>3. ASSUME NEW l \in S, NEW r \in T PROVE Admit(l, r, limits) \in S
  <2>1. Composed(l, kept, T) /\ Counted(l, limits) /\ Joins(r, kept)
    BY <1>1
  <2>2. CASE Fits(l, r, limits)
    <3>1. Composed(Extended(l, r), kept, T)
      BY <2>1, ExtendedIsComposed
    <3>2. Counted(Extended(l, r), limits)
      BY <2>1, <2>2, ExtendedIsCounted
    <3> QED
      BY <1>1, <2>2, <3>1, <3>2, AdmitIs
  <2>3. CASE ~Fits(l, r, limits)
    BY <2>3, AdmitIs
  <2> QED
    BY <2>2, <2>3
<1>4. PICK f : Walked(f, N, S, routes, limits) /\ Shortlist(routes, limits) = f[N]
  BY <1>2, <1>3, ShortlistIsWalked
<1>5. N \in Nat /\ \A n \in 1..N : routes[n] \in T
  OBVIOUS
<1> HIDE DEF N
<1>6. /\ f \in [0..N -> S] /\ f[0] = EmptyShortlist
      /\ \A i \in 1..N : f[i] = Admit(f[i - 1], routes[i], limits)
  BY <1>4 DEF Walked
<1>7. f[N] \in S
  BY <1>5, <1>6
<1>8. ASSUME \A l : Composed(l, kept, T) => \A r \in T : Fits(l, r, limits)
      PROVE  f[N].routes = routes
  <2> DEFINE Follows(l, n) == Len(l.routes) = n /\ \A i \in 1..n : l.routes[i] = routes[i]
             G == {n \in 0..N : Follows(f[n], n)}
  <2>1. 0 \in G
    <3>1. f[0].routes = << >>
      BY <1>6 DEF EmptyShortlist
    <3>2. Len(f[0].routes) = 0 /\ 0 \in 0..N
      BY <1>5, <3>1
    <3> QED
      BY <3>2
  <2>2. ASSUME NEW n \in 1..N, n - 1 \in G PROVE n \in G
    <3> DEFINE l == f[n - 1]
    <3>1. n - 1 \in 0..N /\ n \in 0..N /\ n \in Nat
      BY <1>5
    <3>2. l \in S /\ routes[n] \in T /\ Follows(l, n - 1)
      BY <1>5, <1>6, <2>2, <3>1
    <3>3. f[n] = Admit(l, routes[n], limits)
      BY <1>6
    <3> HIDE DEF l
    <3>4. Composed(l, kept, T)
      BY <1>1, <3>2
    <3>5. f[n] = Extended(l, routes[n])
      BY <1>8, <3>2, <3>3, <3>4, AdmitIs
    <3>6. f[n].routes = Append(l.routes, routes[n])
      BY <3>5 DEF Extended
    <3>7. l.routes \in Seq(T)
      BY <3>4 DEF Composed
    <3>8. Len(l.routes) = n - 1 /\ \A i \in 1..(n - 1) : l.routes[i] = routes[i]
      BY <3>2
    <3>9. /\ Len(f[n].routes) = n
          /\ \A i \in 1..(n - 1) : f[n].routes[i] = l.routes[i]
          /\ f[n].routes[n] = routes[n]
      BY <3>1, <3>2, <3>6, <3>7, <3>8, AppendProperties
    <3>10. \A i \in 1..n : i # n => i \in 1..(n - 1)
      BY <3>1
    <3>11. Follows(f[n], n)
      BY <3>8, <3>9, <3>10
    <3> QED
      BY <3>1, <3>11
  <2>3. \A n \in 0..N : n \in G
    <3> HIDE DEF G
    <3> QED
      BY <1>5, <2>1, <2>2, EveryPage
  <2>4. Len(f[N].routes) = N /\ \A i \in 1..N : f[N].routes[i] = routes[i]
    BY <1>5, <2>3
  <2>5. f[N].routes \in Seq(T)
    BY <1>1, <1>7 DEF Composed
  <2> QED
    BY <2>4, <2>5, SeqEqual DEF N
<1>9. Composed(f[N], kept, T) /\ Counted(f[N], limits)
  BY <1>1, <1>7
<1> QED
  BY <1>4, <1>8, <1>9

\* A shortlist has no more pools than the sources have rows.
LEMMA FewPools ==
  ASSUME NEW kept, NEW T, NEW list, Composed(list, kept, T),
         NEW L \in Nat, NEW rows, \A p \in kept : \E i \in 1..L : rows[i] = p
  PROVE  Len(list.pools) <= L
<1> DEFINE n == Len(list.pools)
           At(i, j) == rows[j].address = list.pools[i].address
           f == [i \in 1..n |-> CHOOSE j \in 1..L : At(i, j)]
<1>1. list.pools \in Seq(EntrySet)
  BY DEF Composed
<1>2. n \in Nat /\ DOMAIN list.pools = 1..n
  BY <1>1
<1> HIDE DEF n
<1>3. ASSUME NEW i \in 1..n PROVE \E j \in 1..L : At(i, j)
  <2>1. PICK p \in kept : list.pools[i] = EntryFor(p, CounterMintOf(p))
    BY <1>2 DEF Composed
  <2>2. PICK j \in 1..L : rows[j] = p
    OBVIOUS
  <2> QED
    BY <2>1, <2>2 DEF EntryFor
<1> HIDE DEF At
<1>4. \A i \in 1..n : f[i] \in 1..L /\ At(i, f[i])
  BY <1>3
<1>5. f \in [1..n -> 1..L]
  BY <1>3
<1> HIDE DEF f
<1>6. \A i, j \in 1..n : list.pools[i].address = list.pools[j].address => i = j
  BY <1>2 DEF Composed
<1>7. f \in Injection(1..n, 1..L)
  <2>1. ASSUME NEW i \in 1..n, NEW j \in 1..n, f[i] = f[j] PROVE i = j
    BY <1>4, <1>6, <2>1 DEF At
  <2> QED
    BY <1>5, <2>1 DEF Injection, IsInjective
<1>8. /\ IsFiniteSet(1..L) /\ Cardinality(1..L) = L
      /\ Cardinality(1..n) = n
  BY <1>2, FS_Interval
<1>9. Cardinality(1..n) <= Cardinality(1..L)
  BY <1>7, <1>8, FS_Injection
<1> QED
  BY <1>8, <1>9 DEF n

\* The kept rows stand among a number of rows that no limit falls short of.
NoneBinds(kept, rows, L, limits) ==
  /\ \A p \in kept : \E i \in 1..L : rows[i] = p
  /\ limits.maxPools > L /\ limits.maxPoolsPerMint >= L /\ limits.maxMints >= L

\* Where no limit binds every route fits.
LEMMA AllFit ==
  ASSUME NEW kept, OneRowEach(kept), NEW T, NEW r \in T, Joins(r, kept),
         NEW list, Composed(list, kept, T), NEW limits \in LimitSet,
         NEW L \in Nat, NEW rows, NoneBinds(kept, rows, L, limits)
  PROVE  Fits(list, r, limits)
<1> DEFINE n == Len(list.pools)
           fresh == FreshOf(list, r)
           k == Len(fresh)
           new == Extended(list, r)
<1>1. list \in [pools : Seq(EntrySet), routes : Seq(T)]
  BY DEF Composed
<1>2. /\ n \in Nat /\ k \in 0..2 /\ Len(new.pools) = n + k
      /\ new \in [pools : Seq(EntrySet), routes : Seq(T)]
      /\ \A i \in 1..n : new.pools[i] = list.pools[i]
      /\ \A i \in 1..k : /\ new.pools[n + i] = EntryFor(fresh[i], r.mint)
                         /\ fresh[i] \in {r.poolA, r.poolB} /\ ~IsListed(list, fresh[i])
      /\ \A p \in {r.poolA, r.poolB} : ~IsListed(list, p) => \E i \in 1..k : fresh[i] = p
      /\ \A i, j \in 1..k : fresh[i].address = fresh[j].address => i = j
      /\ new.routes = Append(list.routes, r)
  BY <1>1, ExtendedIs
<1>3. Composed(new, kept, T)
  BY ExtendedIsComposed
<1> HIDE DEF n, fresh, k, new
<1>4. n <= L /\ n + k <= L
  <2>1. n <= L
    BY FewPools DEF n, NoneBinds
  <2>2. Len(new.pools) <= L
    BY <1>3, FewPools DEF NoneBinds
  <2> QED
    BY <1>2, <2>1, <2>2
<1>5. /\ Cardinality(PoolsListedOf(list, r.mint)) \in Nat
      /\ Cardinality(PoolsListedOf(list, r.mint)) <= n
      /\ Cardinality(MintsListed(list)) \in Nat
      /\ Cardinality(MintsListed(list)) <= n
  BY <1>1, CountsAreFinite DEF n
<1>6. MaxPoolsPerMint(limits) \in Nat /\ MaxPoolsPerMint(limits) >= L
      /\ limits.maxPools \in Nat /\ limits.maxMints \in Nat
  BY DEF MaxPoolsPerMint, LimitSet, NoneBinds
<1>7. r.mint \notin MintsListed(list) => n < L
  <2>1. SUFFICES ASSUME r.mint \notin MintsListed(list) PROVE k >= 1
    BY <1>2, <1>4
  <2>2. ~IsListed(list, r.poolA)
    <3>1. SUFFICES ASSUME IsListed(list, r.poolA) PROVE FALSE
      OBVIOUS
    <3>2. r.poolA \in kept /\ CounterMintOf(r.poolA) = r.mint
      BY DEF Joins
    <3>3. PICK i \in DOMAIN list.pools :
            list.pools[i] = EntryFor(r.poolA, CounterMintOf(r.poolA))
      BY <3>1, <3>2, ListedWithMint
    <3>4. list.pools[i].mint = r.mint
      BY <3>2, <3>3 DEF EntryFor
    <3> QED
      BY <2>1, <3>4 DEF MintsListed
  <2>3. \E i \in 1..k : fresh[i] = r.poolA
    BY <1>2, <2>2
  <2> QED
    BY <1>2, <2>3
<1>8. n < limits.maxPools /\ n + k <= limits.maxPools
  BY <1>2, <1>4, <1>6 DEF NoneBinds
<1>9. Cardinality(PoolsListedOf(list, r.mint)) + k <= MaxPoolsPerMint(limits)
  BY <1>2, <1>4, <1>5, <1>6
<1>10. r.mint \in MintsListed(list) \/ Cardinality(MintsListed(list)) < limits.maxMints
  BY <1>2, <1>4, <1>5, <1>6, <1>7 DEF NoneBinds
<1> QED
  BY <1>8, <1>9, <1>10 DEF Fits, n, k, fresh

-----------------------------------------------------------------------------
(* Populations.                                                            *)

\* The rows of a source are finitely many.
LEMMA AmongIsFinite ==
  ASSUME NEW S, NEW rows \in Seq(S)
  PROVE  IsFiniteSet(Among(rows))
<1> DEFINE n == Len(rows)
           f == [i \in 1..n |-> rows[i]]
<1>1. n \in Nat /\ DOMAIN rows = 1..n
  OBVIOUS
<1> HIDE DEF n
<1>2. IsFiniteSet(1..n)
  BY <1>1, FS_Interval
<1>3. f \in Surjection(1..n, Among(rows))
  BY <1>1 DEF Among, Surjection
<1> HIDE DEF f
<1> QED
  BY <1>2, <1>3, FS_Surjection

\* What is kept of the two sources is what routes are made of.
LEMMA BestIsKept ==
  ASSUME NEW ray \in Seq(RowsOf("raydium_cpmm")), NEW pump \in Seq(RowsOf("pumpswap")),
         \A i \in DOMAIN ray : \A j \in DOMAIN pump : ray[i].address # pump[j].address
  PROVE  /\ KeptRows(BestOf(ray), BestOf(pump))
         /\ OneRowEach(BestOf(ray) \cup BestOf(pump))
<1> DEFINE L == BestOf(ray)
           P == BestOf(pump)
<1>1. L \subseteq Among(ray) /\ P \subseteq Among(pump)
  BY DEF BestOf
<1>2. Among(ray) \subseteq RowsOf("raydium_cpmm") /\ Among(pump) \subseteq RowsOf("pumpswap")
  BY DEF Among
<1>3. IsFiniteSet(L) /\ IsFiniteSet(P)
  <2>1. IsFiniteSet(Among(ray)) /\ IsFiniteSet(Among(pump))
    BY AmongIsFinite
  <2> HIDE DEF L, P
  <2> QED
    BY <1>1, <2>1, FS_Subset
<1>4. /\ \A p, q \in L : p.address = q.address => p = q
      /\ \A p, q \in P : p.address = q.address => p = q
  BY DedupedIsBest
<1>5. \A p \in L : \A q \in P : p.address # q.address
  BY <1>1 DEF Among
<1>6. \A p \in L \cup P : Known(CounterMintOf(p))
  BY DEF BestOf
<1> HIDE DEF L, P
<1>7. L \cup P \subseteq RowSet
  BY <1>1, <1>2 DEF RowsOf
<1>8. \A p \in L \cup P : CounterMintOf(p) \in Nat
  BY <1>6, <1>7 DEF CounterMintOf, WsolCounterMint, Known, RowSet
<1>9. \A p, q \in L \cup P : p.address = q.address => p = q
  BY <1>4, <1>5
<1>10. L \subseteq RowsOf("raydium_cpmm") /\ P \subseteq RowsOf("pumpswap")
  BY <1>1, <1>2
<1>11. KeptRows(L, P) /\ OneRowEach(L \cup P)
  BY <1>3, <1>7, <1>8, <1>9, <1>10 DEF KeptRows, OneRowEach
<1> QED
  BY <1>11 DEF L, P

\* A population of rows of either program keeps what ShortlistIsHonest says.
LEMMA PopulationIsHonest ==
  ASSUME NEW ray \in Seq(RowsOf("raydium_cpmm")), NEW pump \in Seq(RowsOf("pumpswap")),
         \A i \in DOMAIN ray : \A j \in DOMAIN pump : ray[i].address # pump[j].address,
         NEW limits \in LimitSet
  PROVE  /\ WithinLimits(BuildPopulation(ray, pump, limits).shortlist, limits)
         /\ RoutesAreReal(BuildPopulation(ray, pump, limits).shortlist, ray \o pump)
         /\ NothingLeftOut(BuildPopulation(ray, pump, limits), ray \o pump, limits)
         /\ BuildPopulation(ray, pump, limits)
              = BuildPopulation(Reordered(ray), Reordered(pump), limits)
<1> DEFINE left == BestOf(ray)
           right == BestOf(pump)
           kept == left \cup right
           T == Possible(kept)
           routes == RoutesOf(left, right)
           report == BuildPopulation(ray, pump, limits)
           list == Shortlist(routes, limits)
           rows == ray \o pump
<1>1. Deduped(ray, "raydium_cpmm") = left /\ Deduped(pump, "pumpswap") = right
  BY DedupedIsBest
<1>2. report.routes = routes /\ report.shortlist = list
  BY <1>1 DEF BuildPopulation
<1>3. KeptRows(left, right) /\ OneRowEach(kept)
  BY BestIsKept
<1>4. routes \in Seq(T) /\ \A r \in T : Joins(r, kept)
  <2>1. routes \in Seq(T)
    BY <1>3, RoutesAreListed
  <2> HIDE DEF left, right
  <2>2. ASSUME NEW r \in T PROVE Joins(r, kept)
    BY <1>3, <2>2, KeyIs
  <2> QED
    BY <2>1, <2>2
<1>5. rows \in Seq(RowSet) /\ Len(rows) \in Nat /\ DOMAIN rows = 1..Len(rows)
  <2>1. ray \in Seq(RowSet) /\ pump \in Seq(RowSet)
    BY DEF RowsOf
  <2> QED
    BY <2>1
<1>6. \A p \in kept : \E i \in 1..Len(rows) : rows[i] = p
  <2>1. ray \in Seq(RowSet) /\ pump \in Seq(RowSet)
    BY DEF RowsOf
  <2>2. /\ Len(rows) = Len(ray) + Len(pump)
        /\ \A i \in 1..Len(ray) + Len(pump) :
             rows[i] = IF i <= Len(ray) THEN ray[i] ELSE pump[i - Len(ray)]
    BY <2>1, ConcatProperties
  <2>3. /\ Len(ray) \in Nat /\ Len(pump) \in Nat
        /\ DOMAIN ray = 1..Len(ray) /\ DOMAIN pump = 1..Len(pump)
    OBVIOUS
  <2> SUFFICES ASSUME NEW p \in kept PROVE \E i \in 1..Len(rows) : rows[i] = p
    OBVIOUS
  <2> HIDE DEF rows
  <2>4. CASE p \in left
    <3>1. PICK i \in DOMAIN ray : ray[i] = p
      BY <2>4 DEF BestOf, Among
    <3>2. i \in 1..Len(ray) + Len(pump) /\ i <= Len(ray)
      BY <2>3, <3>1
    <3> QED
      BY <2>2, <3>1, <3>2
  <2>5. CASE p \in right
    <3>1. PICK i \in DOMAIN pump : pump[i] = p
      BY <2>5 DEF BestOf, Among
    <3>2. /\ Len(ray) + i \in 1..Len(ray) + Len(pump) /\ ~(Len(ray) + i <= Len(ray))
          /\ (Len(ray) + i) - Len(ray) = i
      BY <2>3, <3>1
    <3> QED
      BY <2>2, <3>1, <3>2
  <2> QED
    BY <2>4, <2>5
<1> HIDE DEF left, right, kept, T, routes, report, list, rows
<1>7. /\ Composed(list, kept, T) /\ Counted(list, limits)
      /\ (\A l : Composed(l, kept, T) => \A r \in T : Fits(l, r, limits))
         => list.routes = routes
  BY <1>3, <1>4, ShortlistIsComposed DEF list
<1>8. WithinLimits(list, limits)
  BY <1>7, WithinIsCounted
<1>9. RoutesAreReal(list, rows)
  <2>1. SUFFICES ASSUME NEW i \in DOMAIN list.routes, NEW r, r = list.routes[i]
                 PROVE  /\ r.poolA.address # r.poolB.address
                        /\ \A p \in {r.poolA, r.poolB} :
                             /\ \E k \in DOMAIN rows : /\ rows[k].address = p.address
                                                       /\ CounterMintOf(rows[k]) = r.mint
                             /\ \E k \in DOMAIN list.pools :
                                  /\ list.pools[k].address = p.address
                                  /\ list.pools[k].mint = r.mint
    BY DEF RoutesAreReal
  <2>2. r \in T
    BY <1>7, <2>1 DEF Composed
  <2>3. /\ r.poolA \in kept /\ r.poolB \in kept /\ r.poolA.address # r.poolB.address
        /\ CounterMintOf(r.poolA) = r.mint /\ CounterMintOf(r.poolB) = r.mint
    BY <1>4, <2>2 DEF Joins
  <2>4. IsListed(list, r.poolA) /\ IsListed(list, r.poolB)
    BY <1>7, <2>1 DEF Composed
  <2>5. ASSUME NEW p \in {r.poolA, r.poolB}
        PROVE  /\ \E k \in DOMAIN rows : /\ rows[k].address = p.address
                                         /\ CounterMintOf(rows[k]) = r.mint
               /\ \E k \in DOMAIN list.pools : /\ list.pools[k].address = p.address
                                               /\ list.pools[k].mint = r.mint
    <3>1. p \in kept /\ CounterMintOf(p) = r.mint /\ IsListed(list, p)
      BY <2>3, <2>4
    <3>2. PICK k \in DOMAIN rows : rows[k] = p
      BY <1>5, <1>6, <3>1
    <3>3. PICK j \in DOMAIN list.pools : list.pools[j] = EntryFor(p, CounterMintOf(p))
      BY <1>3, <1>7, <3>1, ListedWithMint
    <3>4. list.pools[j].address = p.address /\ list.pools[j].mint = r.mint
      BY <3>1, <3>3 DEF EntryFor
    <3> QED
      BY <3>1, <3>2, <3>4
  <2> QED
    BY <2>3, <2>5
<1>10. NothingLeftOut(report, rows, limits)
  <2>1. SUFFICES ASSUME limits.maxPools > Len(rows), limits.maxPoolsPerMint >= Len(rows),
                        limits.maxMints >= Len(rows)
                 PROVE  list.routes = routes
    BY <1>2 DEF NothingLeftOut
  <2>2. ASSUME NEW l, Composed(l, kept, T), NEW r \in T PROVE Fits(l, r, limits)
    <3>1. Joins(r, kept)
      BY <1>4
    <3> DEFINE n == Len(rows)
    <3>2. n \in Nat /\ NoneBinds(kept, rows, n, limits)
      BY <1>5, <1>6, <2>1 DEF NoneBinds
    <3> HIDE DEF n
    <3>3. OneRowEach(kept) /\ Composed(l, kept, T) /\ r \in T
      BY <1>3, <2>2
    <3> QED
      BY <3>1, <3>2, <3>3, AllFit
  <2> QED
    BY <1>7, <2>2
<1>11. report = BuildPopulation(Reordered(ray), Reordered(pump), limits)
  <2>1. /\ Deduped(Reordered(ray), "raydium_cpmm") = Deduped(ray, "raydium_cpmm")
        /\ Deduped(Reordered(pump), "pumpswap") = Deduped(pump, "pumpswap")
    BY ReorderedIsSame
  <2> QED
    BY <2>1 DEF BuildPopulation, report
<1> QED
  BY <1>2, <1>8, <1>9, <1>10, <1>11 DEF report, rows

-----------------------------------------------------------------------------
(* Where the rows come from.                                               *)

\* Places come in a sequence of themselves.
LEMMA PlacesInOrder ==
  ASSUME NEW S, S \subseteq Int, IsFiniteSet(S)
  PROVE  InOrder(S, <) \in Seq(S)
<1> DEFINE R == {p \in S \X S : p[1] < p[2]}
<1>1. \A x, y \in S : <<x, y>> \in R <=> x < y
  OBVIOUS
<1> HIDE DEF R
<1>2. /\ \A x \in S : <<x, x>> \notin R
      /\ \A x, y, z \in S : <<x, y>> \in R /\ <<y, z>> \in R => <<x, z>> \in R
      /\ \A x, y \in S : x # y => <<x, y>> \in R \/ <<y, x>> \in R
  <2>1. /\ \A x \in S : ~(x < x)
        /\ \A x, y, z \in S : x < y /\ y < z => x < z
        /\ \A x, y \in S : x # y => x < y \/ y < x
    OBVIOUS
  <2> QED
    BY <1>1, <2>1
<1>3. \A n \in 1..Cardinality(S) : \E x \in S : Cardinality({y \in S : y < x}) = n - 1
  <2> SUFFICES ASSUME NEW n \in 1..Cardinality(S)
               PROVE  \E x \in S : Cardinality({y \in S : y < x}) = n - 1
    OBVIOUS
  <2>1. \E x \in S : Cardinality({y \in S : <<y, x>> \in R}) = n - 1
    <3>1. IsFiniteSet(S)
      OBVIOUS
    <3>2. Orders(R, S)
      BY <1>2 DEF Orders
    <3> QED
      BY ONLY <3>1, <3>2, AllPlaced
  <2>2. PICK x \in S : Cardinality({y \in S : <<y, x>> \in R}) = n - 1
    BY <2>1
  <2>3. {y \in S : <<y, x>> \in R} = {y \in S : y < x}
    BY <1>1
  <2> QED
    BY <2>2, <2>3
<1> DEFINE list == InOrder(S, <)
           N == Cardinality(S)
<1>4. list = [n \in 1..N |-> CHOOSE x \in S : Cardinality({y \in S : y < x}) = n - 1]
  BY DEF InOrder
<1>5. N \in Nat
  BY FS_CardinalityType
<1>6. list = [n \in 1..N |-> list[n]]
  BY <1>4
<1> HIDE DEF list, N
<1>7. \A n \in 1..N : list[n] \in S
  BY <1>3, <1>4 DEF N
<1>8. list \in Seq(S)
  BY <1>5, <1>6, <1>7
<1> QED
  BY <1>8 DEF list

\* So do the first occurrences of the ids of a listing.
LEMMA FirstsInOrder ==
  ASSUME NEW ps \in Seq(Pages)
  PROVE  InOrder(FirstOccurrences(ps), Earlier) \in Seq(FirstOccurrences(ps))
<1> DEFINE S == FirstOccurrences(ps)
           R == {p \in S \X S : Earlier(p[1], p[2])}
           list == InOrder(S, Earlier)
           N == Cardinality(S)
<1>1. S \subseteq Occurrences(ps)
  BY DEF FirstOccurrences
<1>2. IsFiniteSet(S)
  BY <1>1, PagesAreFinite, FS_Subset
<1>3. \A o \in S : o[1] \in Int /\ o[2] \in Int /\ o = <<o[1], o[2]>>
  <2>1. SUFFICES ASSUME NEW i \in DOMAIN ps, NEW o \in {i} \X DOMAIN ps[i].items
                 PROVE  o[1] \in Int /\ o[2] \in Int /\ o = <<o[1], o[2]>>
    BY <1>1 DEF Occurrences
  <2>2. ps[i] \in Pages
    OBVIOUS
  <2>3. DOMAIN ps[i].items \subseteq Int
    BY <2>2, DiscoveryAssumption
  <2> QED
    BY <2>3
<1> HIDE DEF S
<1>4. \A x, y \in S : <<x, y>> \in R <=> Earlier(x, y)
  OBVIOUS
<1> HIDE DEF R
<1>5. /\ \A x \in S : ~Earlier(x, x)
      /\ \A x, y, z \in S : Earlier(x, y) /\ Earlier(y, z) => Earlier(x, z)
      /\ \A x, y \in S : x # y => Earlier(x, y) \/ Earlier(y, x)
  BY <1>3 DEF Earlier
<1>6. /\ \A x \in S : <<x, x>> \notin R
      /\ \A x, y, z \in S : <<x, y>> \in R /\ <<y, z>> \in R => <<x, z>> \in R
      /\ \A x, y \in S : x # y => <<x, y>> \in R \/ <<y, x>> \in R
  BY <1>4, <1>5
<1>7. \A n \in 1..N : \E x \in S : Cardinality({y \in S : Earlier(y, x)}) = n - 1
  <2> SUFFICES ASSUME NEW n \in 1..Cardinality(S)
               PROVE  \E x \in S : Cardinality({y \in S : Earlier(y, x)}) = n - 1
    OBVIOUS
  <2>1. \E x \in S : Cardinality({y \in S : <<y, x>> \in R}) = n - 1
    <3>1. IsFiniteSet(S)
      BY <1>2
    <3>2. Orders(R, S)
      BY <1>6 DEF Orders
    <3> QED
      BY <3>1, <3>2, AllPlaced
  <2>2. PICK x \in S : Cardinality({y \in S : <<y, x>> \in R}) = n - 1
    BY <2>1
  <2>3. {y \in S : <<y, x>> \in R} = {y \in S : Earlier(y, x)}
    BY <1>4
  <2> QED
    BY <2>2, <2>3
<1>8. list = [n \in 1..N |-> CHOOSE x \in S : Cardinality({y \in S : Earlier(y, x)}) = n - 1]
  BY DEF InOrder
<1>9. N \in Nat
  BY <1>2, FS_CardinalityType
<1>10. list = [n \in 1..N |-> list[n]]
  BY <1>8
<1> HIDE DEF list, N
<1>11. \A n \in 1..N : list[n] \in S
  BY <1>7, <1>8 DEF N
<1>12. list \in Seq(S)
  BY <1>9, <1>10, <1>11
<1> QED
  BY <1>12 DEF list, S

\* The ids that the pages of the API may name.
NamedIds == UNION {{page.items[i] : i \in DOMAIN page.items} : page \in Pages}

\* The items of a listing are ids that its pages name.
LEMMA ItemsAreNamed ==
  ASSUME NEW ps \in Seq(Pages)
  PROVE  ItemsFromPages(ps, Cap) \in Seq(NamedIds)
<1> DEFINE firsts == InOrder(FirstOccurrences(ps), Earlier)
           ids == DistinctIds(ps)
<1>1. firsts \in Seq(FirstOccurrences(ps))
  BY FirstsInOrder
<1>2. ids = [n \in DOMAIN firsts |-> IdAt(ps, firsts[n])]
  BY DEF DistinctIds
<1>3. \A o \in FirstOccurrences(ps) : IdAt(ps, o) \in NamedIds
  <2> SUFFICES ASSUME NEW o \in FirstOccurrences(ps) PROVE IdAt(ps, o) \in NamedIds
    OBVIOUS
  <2>1. PICK i \in DOMAIN ps : o \in {i} \X DOMAIN ps[i].items
    BY DEF FirstOccurrences, Occurrences
  <2>2. o[1] = i /\ o[2] \in DOMAIN ps[i].items /\ ps[i] \in Pages
    BY <2>1
  <2> QED
    BY <2>2 DEF IdAt, NamedIds
<1> HIDE DEF firsts, ids
<1>4. ids \in Seq(NamedIds)
  <2>1. Len(firsts) \in Nat /\ DOMAIN firsts = 1..Len(firsts)
    BY <1>1
  <2>2. \A n \in 1..Len(firsts) : ids[n] \in NamedIds
    BY <1>1, <1>2, <1>3, <2>1
  <2>3. ids = [n \in 1..Len(firsts) |-> ids[n]]
    BY <1>2, <2>1
  <2> QED
    BY <2>1, <2>2, <2>3
<1> DEFINE m == Least(Cap, Len(ids))
<1>5. Len(ids) \in Nat /\ m \in Nat /\ m <= Len(ids)
  BY <1>4, DiscoveryAssumption DEF Least
<1>6. ItemsFromPages(ps, Cap) = SubSeq(ids, 1, m)
  BY DEF ItemsFromPages, ids
<1> HIDE DEF m
<1>7. \A i \in 1..m : ids[i] \in NamedIds
  BY <1>4, <1>5
<1>8. SubSeq(ids, 1, m) \in Seq(NamedIds)
  BY <1>5, <1>7, SubSeqProperties
<1> QED
  BY <1>6, <1>8

\* What the API says of an id that it names.
LEMMA NamedIdsAreKnown ==
  ASSUME NEW id \in NamedIds
  PROVE  /\ id \in Nat
         /\ Item(id).mintA \in Nat \cup {Unknown}
         /\ Item(id).mintB \in Nat \cup {Unknown}
         /\ Item(id).tvl \in Nat \cup {Unknown}
<1>1. PICK page \in Pages : \E i \in DOMAIN page.items : id = page.items[i]
  BY DEF NamedIds
<1>2. PICK i \in DOMAIN page.items : id = page.items[i]
  BY <1>1
<1>3. page.items \in Seq(Nat)
  BY DiscoveryAssumption
<1>4. {Item(id).mintA, Item(id).mintB, Item(id).tvl} \subseteq Nat \cup {Unknown}
  BY <1>2, SourcesAssumption
<1>5. id \in Nat
  BY <1>2, <1>3
<1> QED
  BY <1>4, <1>5

\* What the reader of a listing makes of it: rows of Raydium pools.
LEMMA RaydiumRows ==
  ASSUME NEW run, Listed(run)
  PROVE  /\ PoolRefsFromRun(run) \in Seq(RowsOf("raydium_cpmm"))
         /\ \A n \in DOMAIN PoolRefsFromRun(run) : PoolRefsFromRun(run)[n].address \in NamedIds
<1>1. PICK ps \in Seq(Pages) : run = ListRun(ps)
  BY DEF Listed
<1> DEFINE ids == ItemsFromPages(run.pages, run.cap)
           S == {i \in FilterCpmm(ids) : Known(Item(ids[i]).mintA)
                                         /\ Known(Item(ids[i]).mintB)}
           usable == InOrder(S, <)
           rows == PoolRefsFromRun(run)
<1>2. rows = [n \in DOMAIN usable |-> RaydiumItemToPoolRef(ids[usable[n]])]
  BY DEF PoolRefsFromRun
<1>3. ids \in Seq(NamedIds)
  <2>1. run.pages = ps /\ run.cap = Cap
    BY <1>1 DEF ListRun
  <2> QED
    BY <2>1, ItemsAreNamed
<1> HIDE DEF ids, rows
<1>4. S \subseteq DOMAIN ids
  BY DEF FilterCpmm
<1>5. \A i \in S : Known(Item(ids[i]).mintA) /\ Known(Item(ids[i]).mintB)
  OBVIOUS
<1> HIDE DEF S
<1>6. S \subseteq Int /\ IsFiniteSet(S)
  <2>1. Len(ids) \in Nat /\ DOMAIN ids = 1..Len(ids)
    BY <1>3
  <2>2. IsFiniteSet(1..Len(ids)) /\ 1..Len(ids) \subseteq Int
    BY <2>1, FS_Interval
  <2> QED
    BY <1>4, <2>1, <2>2, FS_Subset
<1>7. usable \in Seq(S)
  BY <1>6, PlacesInOrder
<1> HIDE DEF usable
<1>8. \A i \in S : /\ RaydiumItemToPoolRef(ids[i]) \in RowsOf("raydium_cpmm")
                   /\ RaydiumItemToPoolRef(ids[i]).address \in NamedIds
  <2> SUFFICES ASSUME NEW i \in S, NEW id, id = ids[i]
               PROVE  /\ RaydiumItemToPoolRef(id) \in RowsOf("raydium_cpmm")
                      /\ RaydiumItemToPoolRef(id).address \in NamedIds
    OBVIOUS
  <2>1. id \in NamedIds
    BY <1>3, <1>4
  <2>2. /\ id \in Nat
        /\ Item(id).mintA \in Nat \cup {Unknown}
        /\ Item(id).mintB \in Nat \cup {Unknown}
        /\ Item(id).tvl \in Nat \cup {Unknown}
    BY <2>1, NamedIdsAreKnown
  <2>3. Item(id).mintA \in Nat /\ Item(id).mintB \in Nat
    BY <1>5, <2>2 DEF Known
  <2> QED
    BY <2>1, <2>2, <2>3 DEF RaydiumItemToPoolRef, RowsOf, RowSet
<1> DEFINE N == Len(usable)
<1>9. N \in Nat /\ DOMAIN usable = 1..N /\ \A n \in 1..N : usable[n] \in S
  BY <1>7
<1> HIDE DEF N
<1>10. /\ DOMAIN rows = 1..N
       /\ \A n \in 1..N : rows[n] = RaydiumItemToPoolRef(ids[usable[n]])
       /\ rows = [n \in 1..N |-> rows[n]]
  BY <1>2, <1>9
<1>11. \A n \in 1..N : rows[n] \in RowsOf("raydium_cpmm") /\ rows[n].address \in NamedIds
  BY <1>8, <1>9, <1>10
<1>12. rows \in Seq(RowsOf("raydium_cpmm"))
  BY <1>9, <1>10, <1>11
<1> QED
  BY <1>10, <1>11, <1>12 DEF rows

\* What the reader of the inventory makes of it: rows of PumpSwap pools.
LEMMA PumpRows ==
  ASSUME NEW lines \in Inventories
  PROVE  /\ ReadPumpswapInventory(lines) \in Seq(RowsOf("pumpswap"))
         /\ \A n \in DOMAIN ReadPumpswapInventory(lines) : \E j \in DOMAIN lines :
              ReadPumpswapInventory(lines)[n].address = lines[j].pool
<1> DEFINE readable == {i \in DOMAIN lines : ReadableRecord(lines[i])}
           S == {i \in readable : \A j \in readable :
                   j < i => lines[j].pool # lines[i].pool}
           kept == InOrder(S, <)
           RowAt(k) == [adapter |-> "pumpswap", address |-> lines[k].pool,
                        mintA |-> lines[k].base, mintB |-> lines[k].quote,
                        tvl |-> Unknown, canonical |-> lines[k].canonical]
           rows == ReadPumpswapInventory(lines)
<1>1. rows = [n \in DOMAIN kept |-> RowAt(kept[n])]
  BY DEF ReadPumpswapInventory
<1> DEFINE LineSet == [parses : BOOLEAN, pool : Nat, base : Nat, quote : Nat,
                       canonical : {0, 1}]
<1>2. lines \in Seq(LineSet)
  BY SourcesAssumption
<1>3. S \subseteq DOMAIN lines
  OBVIOUS
<1> HIDE DEF S, rows, LineSet
<1>4. S \subseteq Int /\ IsFiniteSet(S)
  <2>1. Len(lines) \in Nat /\ DOMAIN lines = 1..Len(lines)
    BY <1>2
  <2>2. IsFiniteSet(1..Len(lines)) /\ 1..Len(lines) \subseteq Int
    BY <2>1, FS_Interval
  <2> QED
    BY <1>3, <2>1, <2>2, FS_Subset
<1>5. kept \in Seq(S)
  BY <1>4, PlacesInOrder
<1> HIDE DEF kept
<1>6. \A k \in S : /\ RowAt(k) \in RowsOf("pumpswap")
                   /\ \E j \in DOMAIN lines : RowAt(k).address = lines[j].pool
  <2> SUFFICES ASSUME NEW k \in S
               PROVE  /\ RowAt(k) \in RowsOf("pumpswap")
                      /\ \E j \in DOMAIN lines : RowAt(k).address = lines[j].pool
    OBVIOUS
  <2>1. k \in DOMAIN lines
    BY <1>3
  <2>2. lines[k] \in LineSet
    BY <1>2, <2>1
  <2>3. /\ lines[k].pool \in Nat /\ lines[k].base \in Nat /\ lines[k].quote \in Nat
        /\ lines[k].canonical \in {Unknown, 0, 1}
    BY <2>2 DEF LineSet
  <2>4. RowAt(k) \in RowsOf("pumpswap")
    BY <2>3 DEF RowsOf, RowSet
  <2> QED
    BY <2>1, <2>4
<1> HIDE DEF RowAt
<1> DEFINE N == Len(kept)
<1>7. N \in Nat /\ DOMAIN kept = 1..N /\ \A n \in 1..N : kept[n] \in S
  BY <1>5
<1> HIDE DEF N
<1>8. /\ DOMAIN rows = 1..N
      /\ \A n \in 1..N : rows[n] = RowAt(kept[n])
      /\ rows = [n \in 1..N |-> rows[n]]
  BY <1>1, <1>7
<1>9. \A n \in 1..N : /\ rows[n] \in RowsOf("pumpswap")
                      /\ \E j \in DOMAIN lines : rows[n].address = lines[j].pool
  BY <1>6, <1>7, <1>8
<1>10. rows \in Seq(RowsOf("pumpswap"))
  BY <1>7, <1>8, <1>9
<1> QED
  BY <1>8, <1>9, <1>10 DEF rows

\* The population of a listing and of the inventory is honest.
LEMMA ReportIsHonest ==
  ASSUME NEW run, Listed(run), NEW lines \in Inventories, NEW limits \in LimitSet
  PROVE  LET raydium == PoolRefsFromRun(run)
             pump == ReadPumpswapInventory(lines)
             report == BuildPopulation(raydium, pump, limits)
             rows == raydium \o pump
         IN  /\ WithinLimits(report.shortlist, limits)
             /\ RoutesAreReal(report.shortlist, rows)
             /\ NothingLeftOut(report, rows, limits)
             /\ report = BuildPopulation(Reordered(raydium), Reordered(pump), limits)
<1> DEFINE raydium == PoolRefsFromRun(run)
           pump == ReadPumpswapInventory(lines)
<1>1. /\ raydium \in Seq(RowsOf("raydium_cpmm"))
      /\ \A n \in DOMAIN raydium : raydium[n].address \in NamedIds
  BY RaydiumRows
<1>2. /\ pump \in Seq(RowsOf("pumpswap"))
      /\ \A n \in DOMAIN pump : \E j \in DOMAIN lines : pump[n].address = lines[j].pool
  BY PumpRows
<1>3. \A id \in NamedIds : \A j \in DOMAIN lines : id # lines[j].pool
  BY SourcesAssumption DEF NamedIds
<1> HIDE DEF raydium, pump
<1>4. \A i \in DOMAIN raydium : \A j \in DOMAIN pump : raydium[i].address # pump[j].address
  BY <1>1, <1>2, <1>3
<1> QED
  BY <1>1, <1>2, <1>4, PopulationIsHonest DEF raydium, pump

-----------------------------------------------------------------------------
(* Reports.                                                                *)

\* A run has a population to report on, or asks for the keys of its pools.
Reporting(r) == pc[r] = "report" \/ call[r].of = "keys"

\* Whoever reports has a listing, and the inventory is what it was.
ReportInv ==
  /\ inventory \in Inventories
  /\ \A r \in Runs : Reporting(r) => Listed(listing[r])

\* A step of one run after which it has a listing if it reports.
Shows(r) ==
  /\ inventory' = inventory
  /\ \A q \in Runs \ {r} : pc'[q] = pc[q] /\ call'[q] = call[q] /\ listing'[q] = listing[q]
  /\ pc'[r] = "report" \/ call'[r].of = "keys" => Listed(listing'[r])

LEMMA ShowsKeeps == ASSUME ReportInv, NEW r \in Runs, Shows(r) PROVE ReportInv'
<1>1. SUFFICES ASSUME NEW q \in Runs, pc'[q] = "report" \/ call'[q].of = "keys"
               PROVE  Listed(listing'[q])
  BY DEF ReportInv, Reporting, Shows, Listed
<1>2. CASE q = r
  BY <1>1, <1>2 DEF Shows
<1>3. CASE q # r
  BY <1>1, <1>3 DEF Shows, ReportInv, Reporting
<1> QED
  BY <1>2, <1>3

\* How a call begins and ends, for this run and for the others.
LEMMA GetJsonShows ==
  ASSUME Typed, NEW r \in Runs, NEW of, GetJson(r, of)
  PROVE  /\ pc'[r] = "call" /\ call'[r].of = of
         /\ \A q \in Runs \ {r} : pc'[q] = pc[q] /\ call'[q] = call[q]
BY DEF GetJson, Typed

LEMMA NoCallShows ==
  ASSUME Typed, NEW r \in Runs, NoCall(r)
  PROVE  /\ call'[r].of = "none"
         /\ \A q \in Runs \ {r} : call'[q] = call[q]
BY DEF NoCall, Typed

LEMMA BuildReportShows ==
  ASSUME Typed, NEW r \in Runs, NEW run, BuildReport(r, run)
  PROVE  \A q \in Runs \ {r} : pc'[q] = pc[q] /\ call'[q] = call[q]
<1>1. GetJson(r, "keys") \/ (pc' = [pc EXCEPT ![r] = "report"] /\ NoCall(r))
  BY DEF BuildReport
<1>2. CASE GetJson(r, "keys")
  BY <1>2, GetJsonShows
<1>3. CASE pc' = [pc EXCEPT ![r] = "report"] /\ NoCall(r)
  BY <1>3, NoCallShows DEF Typed
<1> QED
  BY <1>1, <1>2, <1>3

LEMMA ThrowShows ==
  ASSUME Typed, NEW r \in Runs, Throw(r), inventory' = inventory
  PROVE  Shows(r)
<1>1. /\ NoCall(r) /\ pc' = [pc EXCEPT ![r] = AfterRun(r)] /\ listing' = listing
      /\ AfterRun(r) # "report"
  BY DEF Throw, AfterRun
<1>2. pc'[r] # "report" /\ \A q \in Runs \ {r} : pc'[q] = pc[q]
  BY <1>1 DEF Typed
<1>3. call'[r].of = "none" /\ \A q \in Runs \ {r} : call'[q] = call[q]
  BY <1>1, NoCallShows
<1> QED
  BY <1>1, <1>2, <1>3 DEF Shows

\* A call that fails for good: the keys are done without.
LEMMA FailShows ==
  ASSUME Typed, ReportInv, NEW r \in Runs, Fail(r), inventory' = inventory
  PROVE  Shows(r)
<1>1. CASE GetJson(r, "list") /\ UNCHANGED <<chunks, pages, listing, cache>>
  <2>1. /\ pc'[r] = "call" /\ call'[r].of = "list"
        /\ \A q \in Runs \ {r} : pc'[q] = pc[q] /\ call'[q] = call[q]
    BY <1>1, GetJsonShows
  <2> QED
    BY <1>1, <2>1 DEF Shows
<1>2. CASE Throw(r)
  BY <1>2, ThrowShows
<1>3. CASE /\ call[r].of = "keys" /\ pc' = [pc EXCEPT ![r] = "report"] /\ NoCall(r)
           /\ UNCHANGED <<chunks, pages, listing, cache>>
  <2>1. \A q \in Runs \ {r} : pc'[q] = pc[q] /\ call'[q] = call[q]
    BY <1>3, NoCallShows DEF Typed
  <2>2. Listed(listing[r])
    BY <1>3 DEF ReportInv, Reporting
  <2> QED
    BY <1>3, <2>1, <2>2 DEF Shows
<1> QED
  BY <1>1, <1>2, <1>3 DEF Fail

\* The listing ends with its ListRun; a file to write comes before a report.
LEMMA ConcludeShows ==
  ASSUME Typed, NEW r \in Runs, NEW ps \in Seq(Pages), ps # << >>,
         Conclude(r, ListRun(ps)), inventory' = inventory
  PROVE  Shows(r)
<1>1. /\ listing' = [listing EXCEPT ![r] = ListRun(ps)]
      /\ \/ BuildReport(r, ListRun(ps))
         \/ pc' = [pc EXCEPT ![r] = "writing"] /\ NoCall(r)
  BY DEF Conclude
<1>2. /\ listing'[r] = ListRun(ps)
      /\ \A q \in Runs \ {r} : listing'[q] = listing[q]
  BY <1>1 DEF Typed
<1>3. Listed(listing'[r])
  BY <1>2 DEF Listed
<1>4. \A q \in Runs \ {r} : pc'[q] = pc[q] /\ call'[q] = call[q]
  <2>1. CASE BuildReport(r, ListRun(ps))
    BY <2>1, BuildReportShows
  <2>2. CASE pc' = [pc EXCEPT ![r] = "writing"] /\ NoCall(r)
    BY <2>2, NoCallShows DEF Typed
  <2> QED
    BY <1>1, <2>1, <2>2
<1> QED
  BY <1>2, <1>3, <1>4 DEF Shows

\* A good answer: only the last page of a listing, or keys, lead to a report.
LEMMA AnswerShows ==
  ASSUME Typed, ReportInv, NEW r \in Runs, Answer(r), inventory' = inventory
  PROVE  Shows(r)
<1>1. CASE GetJson(r, "list") /\ UNCHANGED <<chunks, pages, listing, cache>>
  <2>1. /\ pc'[r] = "call" /\ call'[r].of = "list"
        /\ \A q \in Runs \ {r} : pc'[q] = pc[q] /\ call'[q] = call[q]
    BY <1>1, GetJsonShows
  <2> QED
    BY <1>1, <2>1 DEF Shows
<1>2. CASE \E page \in Pages :
             LET ps == Append(pages[r], page) IN
             IF StoppedReason(ps) # "" THEN Conclude(r, ListRun(ps))
             ELSE /\ GetJson(r, "list")
                  /\ pages' = [pages EXCEPT ![r] = ps]
                  /\ UNCHANGED <<chunks, listing, cache>>
  <2>1. PICK page \in Pages :
             LET ps == Append(pages[r], page) IN
             IF StoppedReason(ps) # "" THEN Conclude(r, ListRun(ps))
             ELSE /\ GetJson(r, "list")
                  /\ pages' = [pages EXCEPT ![r] = ps]
                  /\ UNCHANGED <<chunks, listing, cache>>
    BY <1>2
  <2> DEFINE ps == Append(pages[r], page)
  <2>2. ps \in Seq(Pages) /\ ps # << >>
    BY AppendProperties DEF Typed
  <2>3. \/ Conclude(r, ListRun(ps))
        \/ GetJson(r, "list") /\ UNCHANGED <<chunks, listing, cache>>
    BY <2>1
  <2> HIDE DEF ps
  <2>4. CASE Conclude(r, ListRun(ps))
    BY <2>2, <2>4, ConcludeShows
  <2>5. CASE GetJson(r, "list") /\ UNCHANGED <<chunks, listing, cache>>
    <3>1. /\ pc'[r] = "call" /\ call'[r].of = "list"
          /\ \A q \in Runs \ {r} : pc'[q] = pc[q] /\ call'[q] = call[q]
      BY <2>5, GetJsonShows
    <3> QED
      BY <2>5, <3>1 DEF Shows
  <2> QED
    BY <2>3, <2>4, <2>5
<1>3. CASE /\ call[r].of = "keys"
           /\ IF chunks[r] > 1 THEN GetJson(r, "keys")
              ELSE pc' = [pc EXCEPT ![r] = "report"] /\ NoCall(r)
           /\ UNCHANGED <<pages, listing, cache>>
  <2>1. Listed(listing[r])
    BY <1>3 DEF ReportInv, Reporting
  <2>2. \A q \in Runs \ {r} : pc'[q] = pc[q] /\ call'[q] = call[q]
    <3>1. CASE GetJson(r, "keys")
      BY <3>1, GetJsonShows
    <3>2. CASE pc' = [pc EXCEPT ![r] = "report"] /\ NoCall(r)
      BY <3>2, NoCallShows DEF Typed
    <3> QED
      BY <1>3, <3>1, <3>2
  <2> QED
    BY <1>3, <2>1, <2>2 DEF Shows
<1> QED
  BY <1>1, <1>2, <1>3 DEF Answer

\* The calls of the file system come before a listing or after the report.
LEMMA LockCallShows ==
  ASSUME Typed, ControlInv, NEW r \in Runs,
         \/ Begin(r) \/ LockRead(r) \/ LockKill(r) \/ LockRemove(r)
         \/ LockWrite(r) \/ Release(r)
  PROVE  Shows(r)
<1>1. /\ UNCHANGED <<inventory, call, listing>>
      /\ pc[r] \in {"start", "release"} \cup Acquiring
      /\ \E v \in Acquiring \cup {"ready", "done"} : pc' = [pc EXCEPT ![r] = v]
  BY DEF Begin, LockRead, LockKill, LockRemove, LockWrite, Release, LockOnly, Acquiring
<1>2. call[r].of = "none"
  BY <1>1 DEF ControlInv, Calling, Acquiring
<1>3. pc'[r] # "report" /\ \A q \in Runs \ {r} : pc'[q] = pc[q]
  BY <1>1 DEF Typed, Acquiring
<1> QED
  BY <1>1, <1>2, <1>3 DEF Shows

\* The file of the last listing, read again or written.
LEMMA FileShows ==
  ASSUME IInv, NEW r \in Runs, Ready(r) \/ WriteCache(r)
  PROVE  Shows(r)
<1> USE DEF IInv
<1>1. inventory' = inventory
  BY DEF Ready, WriteCache
<1>2. CASE GetJson(r, "version") /\ UNCHANGED <<chunks, pages, listing, cache>>
  <2>1. /\ pc'[r] = "call" /\ call'[r].of = "version"
        /\ \A q \in Runs \ {r} : pc'[q] = pc[q] /\ call'[q] = call[q]
    BY <1>2, GetJsonShows
  <2> QED
    BY <1>1, <1>2, <2>1 DEF Shows
<1>3. CASE Throw(r)
  BY <1>1, <1>3, ThrowShows
<1>4. CASE /\ cache \notin {None, Unreadable} /\ BuildReport(r, cache)
           /\ listing' = [listing EXCEPT ![r] = cache]
  <2>1. /\ listing'[r] = cache /\ \A q \in Runs \ {r} : listing'[q] = listing[q]
    BY <1>4 DEF Typed
  <2>2. Listed(cache)
    BY <1>4 DEF CacheInv, Previous
  <2>3. \A q \in Runs \ {r} : pc'[q] = pc[q] /\ call'[q] = call[q]
    BY <1>4, BuildReportShows
  <2> QED
    BY <1>1, <2>1, <2>2, <2>3 DEF Shows
<1>5. CASE pc[r] = "writing" /\ BuildReport(r, listing[r]) /\ UNCHANGED listing
  <2>1. Listed(listing[r])
    BY <1>5 DEF WriterInv
  <2>2. \A q \in Runs \ {r} : pc'[q] = pc[q] /\ call'[q] = call[q]
    BY <1>5, BuildReportShows
  <2> QED
    BY <1>1, <1>5, <2>1, <2>2 DEF Shows
<1> QED
  BY <1>2, <1>3, <1>4, <1>5 DEF Ready, WriteCache

\* The report is written.
LEMMA FinishShows == ASSUME IInv, NEW r \in Runs, Finish(r) PROVE Shows(r)
<1>1. /\ pc[r] = "report" /\ UNCHANGED <<inventory, call>>
      /\ pc' = [pc EXCEPT ![r] = AfterRun(r)] /\ listing' = [listing EXCEPT ![r] = None]
      /\ AfterRun(r) # "report"
  BY DEF Finish, AfterRun
<1>2. call[r].of = "none"
  BY <1>1 DEF IInv, ControlInv, Calling
<1>3. /\ pc'[r] # "report"
      /\ \A q \in Runs \ {r} : pc'[q] = pc[q] /\ listing'[q] = listing[q]
  BY <1>1 DEF IInv, Typed
<1> QED
  BY <1>1, <1>2, <1>3 DEF Shows

\* A request waits, is sent, or is to be tried again.
LEMMA WaitShows ==
  ASSUME Typed, ReportInv, NEW r \in Runs, NEW state,
         call' = [call EXCEPT ![r].state = state], UNCHANGED <<inventory, pc, listing>>
  PROVE  Shows(r)
<1>1. call'[r].of = call[r].of /\ \A q \in Runs \ {r} : call'[q] = call[q]
  BY DEF Typed
<1> QED
  BY <1>1 DEF Shows, ReportInv, Reporting

LEMMA CallShows ==
  ASSUME IInv, ReportInv, NEW r \in Runs,
         Attempt(r) \/ Spaced(r) \/ Answered(r) \/ Failed(r)
  PROVE  Shows(r)
<1> USE DEF IInv
<1>1. inventory' = inventory
  BY DEF Attempt, Spaced, Answered, Failed
<1>2. CASE \E state : /\ call' = [call EXCEPT ![r].state = state]
                      /\ UNCHANGED <<pc, listing>>
  BY <1>1, <1>2, WaitShows
<1>3. CASE Fail(r)
  BY <1>1, <1>3, FailShows
<1>4. CASE Answer(r)
  BY <1>1, <1>4, AnswerShows
<1>5. CASE Attempt(r)
  BY <1>2, <1>3, <1>5 DEF Attempt, Send
<1>6. CASE Spaced(r)
  BY <1>2, <1>6 DEF Spaced, Send
<1>7. CASE Answered(r)
  BY <1>4, <1>7 DEF Answered
<1>8. CASE Failed(r)
  BY <1>2, <1>3, <1>8 DEF Failed
<1> QED
  BY <1>5, <1>6, <1>7, <1>8

\* A killed process reports nothing.
LEMMA CrashReports ==
  ASSUME ReportInv, NEW p, Crash(p)
  PROVE  ReportInv'
<1>1. SUFFICES ASSUME NEW q \in Runs, pc'[q] = "report" \/ call'[q].of = "keys"
               PROVE  Listed(listing'[q])
  BY DEF Crash, ReportInv, Reporting, Listed
<1>2. /\ pc'[q] = (IF Proc(q) = p THEN "done" ELSE pc[q])
      /\ call'[q] = (IF Proc(q) = p THEN [of |-> "none", state |-> "idle"] ELSE call[q])
      /\ listing'[q] = (IF Proc(q) = p THEN None ELSE listing[q])
  BY DEF Crash
<1>3. Proc(q) # p
  BY <1>1, <1>2
<1> QED
  BY <1>1, <1>2, <1>3 DEF ReportInv, Reporting

LEMMA ReportsStay == ASSUME ReportInv, UNCHANGED <<inventory, pc, call, listing>>
                     PROVE  ReportInv'
BY DEF ReportInv, Reporting, Listed

LEMMA ReportKeeps == IInv /\ ReportInv /\ [Next]_vars => ReportInv'
<1>1. SUFFICES ASSUME IInv, ReportInv, [Next]_vars PROVE ReportInv'
  OBVIOUS
<1>2. ASSUME NEW r \in Runs,
             \/ Begin(r) \/ LockRead(r) \/ LockKill(r) \/ LockRemove(r) \/ LockWrite(r)
             \/ Release(r) \/ Ready(r) \/ WriteCache(r) \/ Finish(r)
             \/ Attempt(r) \/ Spaced(r) \/ Answered(r) \/ Failed(r)
      PROVE  ReportInv'
  <2>1. Typed /\ ControlInv
    BY <1>1 DEF IInv
  <2>2. Shows(r)
    BY <1>1, <1>2, <2>1, LockCallShows, FileShows, FinishShows, CallShows
  <2> QED
    BY <1>1, <2>2, ShowsKeeps
<1>3. ASSUME NEW r \in Runs, Crash(Proc(r)) PROVE ReportInv'
  BY <1>1, <1>3, CrashReports
<1>4. CASE Tick
  BY <1>1, <1>4, ReportsStay DEF Tick
<1>5. CASE AllDone \/ UNCHANGED vars
  BY <1>1, <1>5, ReportsStay DEF AllDone, vars, runVars
<1> QED
  BY <1>1, <1>2, <1>3, <1>4, <1>5 DEF Next

\* Every report's shortlist keeps its limits, comes in pairs of real routes,
\* gives up a route only for a limit, and does not depend on the order of
\* the rows or on poorer copies of them.
THEOREM ShortlistHonest == Spec => []ShortlistIsHonest
<1>1. Init => ReportInv
  BY DEF Init, ReportInv, Reporting
<1>2. IInv /\ [Next]_vars => IInv'
  BY StepKeeps DEF Kept
<1>3. IInv /\ ReportInv => ShortlistIsHonest
  <2>1. SUFFICES ASSUME IInv, ReportInv, NEW r \in Runs, pc[r] = "report"
                 PROVE  LET raydium == PoolRefsFromRun(listing[r])
                            limits == setup[r].limits
                            report == BuildPopulation(raydium, PumpswapRows, limits)
                            rows == raydium \o PumpswapRows
                        IN  /\ WithinLimits(report.shortlist, limits)
                            /\ RoutesAreReal(report.shortlist, rows)
                            /\ NothingLeftOut(report, rows, limits)
                            /\ report = BuildPopulation(Reordered(raydium),
                                          Reordered(PumpswapRows), limits)
    BY Zenon DEF ShortlistIsHonest
  <2>2. Listed(listing[r]) /\ inventory \in Inventories
    BY <2>1 DEF ReportInv, Reporting
  <2>3. setup[r].limits \in LimitSet
    BY <2>1, SourcesAssumption DEF IInv, Typed, LimitSet
  <2> QED
    BY <2>2, <2>3, ReportIsHonest DEF PumpswapRows
<1> QED
  BY InitHolds, ReportKeeps, <1>1, <1>2, <1>3, PTL DEF Spec
==============================================================================
