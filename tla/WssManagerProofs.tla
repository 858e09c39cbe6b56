-------------------------- MODULE WssManagerProofs --------------------------
(***************************************************************************)
(* The subscription manager keeps its books and its lifecycle for any sets *)
(* of keys and sockets and any number of starts, faults and changes.       *)
(***************************************************************************)
EXTENDS WssManager, FiniteSetTheorems, TLAPS

-----------------------------------------------------------------------------
(* Helpers.                                                                *)

\* A finite set can be listed.
LEMMA Listing ==
  ASSUME NEW S, IsFiniteSet(S)
  PROVE  /\ SetToSeq(S) \in [1..Cardinality(S) -> S]
         /\ SetToSeq(S) \in Seq(S) /\ Len(SetToSeq(S)) = Cardinality(S)
         /\ \A i, j \in 1..Cardinality(S) : SetToSeq(S)[i] = SetToSeq(S)[j] => i = j
         /\ \A x \in S : \E i \in 1..Cardinality(S) : SetToSeq(S)[i] = x
<1> DEFINE N == Cardinality(S)
<1>1. N \in Nat /\ ExistsBijection(1..N, S)
  BY FS_CardinalityType
<1>2. PICK f \in Bijection(1..N, S) : TRUE
  BY <1>1 DEF ExistsBijection
<1>3. f \in [1..N -> S] /\ IsInjective(f)
  BY <1>2 DEF Bijection, Injection, IsInjective
<1>4. SetToSeq(S) \in [1..N -> S] /\ IsInjective(SetToSeq(S))
  BY <1>3 DEF SetToSeq
<1>5. \A i, j \in 1..N : SetToSeq(S)[i] = SetToSeq(S)[j] => i = j
  BY <1>4 DEF IsInjective
<1>6. SetToSeq(S) \in Injection(1..N, S)
  BY <1>4, <1>5 DEF Injection
<1>7. SetToSeq(S) \in Surjection(1..N, S)
  <2>1. IsFiniteSet(1..N) /\ Cardinality(1..N) = N
    BY <1>1, FS_Interval
  <2> QED
    BY <1>6, <2>1, FS_Injection
<1>8. \A x \in S : \E i \in 1..N : SetToSeq(S)[i] = x
  BY <1>7 DEF Surjection
<1>9. SetToSeq(S) \in Seq(S) /\ Len(SetToSeq(S)) = N
  BY <1>1, <1>4
<1> QED
  BY <1>4, <1>5, <1>8, <1>9

\* A set without two elements counts at most one.
LEMMA AtMostOne ==
  ASSUME NEW S, \A x, y \in S : x = y
  PROVE  IsFiniteSet(S) /\ Cardinality(S) \in {0, 1} /\ (S = {} => Cardinality(S) = 0)
<1>1. CASE S = {}
  BY <1>1, FS_EmptySet
<1>2. CASE S # {}
  <2>1. PICK x \in S : S = {x}
    BY <1>2
  <2> QED
    BY <1>2, <2>1, FS_Singleton
<1> QED
  BY <1>1, <1>2

-----------------------------------------------------------------------------
(* The invariant.                                                          *)

Phases == {"free", "connecting", "open", "closing"}
Outcomes == {"pending", "open", "timeout", "stopped"}
Request == [id : Nat, key : Keys]
Message == [type : {"ack"}, id : Nat, sub : Nat] \cup [type : {"error"}, id : Nat]
           \cup [type : {"notification"}, sub : Nat, content : Contents, key : Keys]

\* A key is in one entry of the two maps p and sb, and in no two.
KeyOnce(p, sb) ==
  /\ \A i, j \in DOMAIN p : p[i] = p[j] => i = j
  /\ \A m, n \in DOMAIN sb : sb[m] = sb[n] => m = n
  /\ \A i \in DOMAIN p, n \in DOMAIN sb : p[i] # sb[n]

\* The manager's books: keys wanted, pending and subscribed, and the next id.
Book(w, p, sb, n) ==
  /\ w \subseteq Keys /\ IsFiniteSet(w)
  /\ n \in Nat \ {0}
  /\ p \in [DOMAIN p -> w] /\ DOMAIN p \subseteq 1..(n - 1)
  /\ sb \in [DOMAIN sb -> w]
  /\ KeyOnce(p, sb)

Memory == seenOrder \in Seq(Keys \X Contents) /\ Len(seenOrder) <= MaxQueue

Books == Book(wanted, pending, subs, nextId) /\ Memory

LifecycleTypes ==
  /\ ws \in Sockets \cup {NoSocket}
  /\ closed \in BOOLEAN /\ disconnected \in BOOLEAN
  /\ startPromise \in BOOLEAN /\ tracked \in BOOLEAN
  /\ outcome \in Seq(Outcomes)
  /\ settle \in 0..Len(outcome) /\ startTimer \in {0, settle}
  /\ timers \in Nat
  /\ phase \in [Sockets -> Phases] /\ sawOpen \in [Sockets -> BOOLEAN]

NetworkTypes ==
  /\ requests \in [Sockets -> Seq(Request)]
  /\ inbox \in [Sockets -> Seq(Message)]
  /\ DOMAIN serverSubs = Sockets
  /\ \A s \in Sockets :
       /\ DOMAIN serverSubs[s] \subseteq Nat /\ IsFiniteSet(DOMAIN serverSubs[s])
       /\ \A n \in DOMAIN serverSubs[s] : serverSubs[s][n] \in Keys

\* Only the promise of a running manager can be pending.
Promises ==
  /\ ~startPromise => settle = 0
  /\ closed => ~startPromise /\ ws = NoSocket
  /\ \A i \in DOMAIN outcome : outcome[i] = "pending" => i = settle

\* The manager's socket is one of the live ones and its retry timer is armed;
\* unless a start came early there is no other and no retry beside a socket.
Single ==
  /\ ws # NoSocket => phase[ws] # "free"
  /\ tracked => timers > 0
  /\ ~early =>
       /\ \A s, t \in Live : s = t
       /\ timers \in {0, 1} /\ (tracked <=> timers = 1)
       /\ Live # {} => timers = 0
       /\ ~startPromise => timers = 0
       /\ ~closed /\ ~startPromise => Live = {}

IInv ==
  /\ Books /\ LifecycleTypes /\ NetworkTypes
  /\ Promises /\ Single /\ NeverAbandoned /\ PendingIsAnswered

LEMMA InitIInv == Init => IInv
<1> SUFFICES ASSUME Init PROVE IInv
  OBVIOUS
<1> USE DEF Init, Empty
<1>1. Books
  BY FS_EmptySet, BoundsAssumption DEF Books, Book, KeyOnce, Memory
<1>2. LifecycleTypes
  <2>1. outcome \in Seq(Outcomes) /\ settle \in 0..Len(outcome)
    OBVIOUS
  <2> QED
    BY <2>1 DEF LifecycleTypes, Phases
<1>3. NetworkTypes
  BY FS_EmptySet DEF NetworkTypes
<1>4. Promises /\ Single /\ NeverAbandoned
  BY DEF Promises, Single, NeverAbandoned, Live, Free
<1>5. PendingIsAnswered
  BY DEF PendingIsAnswered
<1> QED
  BY <1>1, <1>2, <1>3, <1>4, <1>5 DEF IInv

-----------------------------------------------------------------------------
(* Flushing.                                                               *)

\* flushSubscribes() asks for each key that is in neither map, under ids of
\* its own, and what was on its way stays on its way.
LEMMA FlushKeeps ==
  ASSUME NEW s \in Sockets, NEW w, NEW p, NEW sb, Book(w, p, sb, nextId),
         requests \in [Sockets -> Seq(Request)],
         FlushSubscribes(s, w, p, sb)
  PROVE  /\ Book(w, pending', subs', nextId')
         /\ requests' \in [Sockets -> Seq(Request)]
         /\ \A r \in Sockets \ {s} : requests'[r] = requests[r]
         /\ \A i \in DOMAIN requests[s] :
              i \in DOMAIN requests'[s] /\ requests'[s][i] = requests[s][i]
         /\ \A id \in DOMAIN pending' : id \notin DOMAIN p =>
              \E i \in DOMAIN requests'[s] : requests'[s][i].id = id
<1> DEFINE S == ToAsk(w, p, sb)
           keys == SetToSeq(S)
           n == Len(keys)
           ids == nextId..(nextId + n - 1)
           asks == [i \in 1..n |-> [id |-> nextId + i - 1, key |-> keys[i]]]
<1>1. S \subseteq w /\ IsFiniteSet(S)
  BY FS_Subset DEF Book, ToAsk
<1>2. /\ keys \in [1..n -> S] /\ n \in Nat
      /\ \A i, j \in 1..n : keys[i] = keys[j] => i = j
  BY <1>1, Listing, FS_CardinalityType
<1>3. /\ subs' = sb /\ nextId' = nextId + n
      /\ pending' = [id \in DOMAIN p \cup ids |->
                       IF id \in ids THEN keys[id - nextId + 1] ELSE p[id]]
      /\ requests' = [requests EXCEPT ![s] = @ \o asks]
  BY DEF FlushSubscribes, IdAfter
<1>4. \A x \in S : x \notin Values(p) /\ x \notin Values(sb)
  BY DEF ToAsk
<1> HIDE DEF S, keys, n
<1>5. nextId \in Nat \ {0} /\ DOMAIN p \cap ids = {}
  BY <1>2 DEF Book
<1>6. \A id \in ids : pending'[id] = keys[id - nextId + 1] /\ id - nextId + 1 \in 1..n
  BY <1>2, <1>3, <1>5
<1>7. \A id \in DOMAIN p : pending'[id] = p[id]
  BY <1>3, <1>5
<1>8. Book(w, pending', subs', nextId')
  <2>1. nextId' \in Nat \ {0} /\ DOMAIN pending' \subseteq 1..(nextId' - 1)
    BY <1>2, <1>3, <1>5 DEF Book
  <2>2. pending' \in [DOMAIN pending' -> w]
    BY <1>1, <1>2, <1>3, <1>6, <1>7 DEF Book
  <2>3. \A i, j \in DOMAIN pending' : pending'[i] = pending'[j] => i = j
    <3> SUFFICES ASSUME NEW i \in DOMAIN pending', NEW j \in DOMAIN pending',
                        pending'[i] = pending'[j]
                 PROVE  i = j
      OBVIOUS
    <3>1. CASE i \in ids /\ j \in ids
      <4>1. i - nextId + 1 = j - nextId + 1
        BY <1>2, <1>6, <3>1
      <4> QED
        BY <1>2, <1>5, <3>1, <4>1
    <3>2. CASE i \in DOMAIN p /\ j \in DOMAIN p
      BY <1>7, <3>2 DEF Book, KeyOnce
    <3>3. ASSUME NEW k \in ids, NEW l \in DOMAIN p PROVE pending'[k] # pending'[l]
      BY <1>2, <1>4, <1>6, <1>7 DEF Values
    <3> QED
      BY <1>3, <3>1, <3>2, <3>3
  <2>4. \A i \in DOMAIN pending', m \in DOMAIN subs' : pending'[i] # subs'[m]
    <3> SUFFICES ASSUME NEW i \in DOMAIN pending', NEW m \in DOMAIN sb
                 PROVE  pending'[i] # sb[m]
      BY <1>3
    <3>1. CASE i \in ids
      BY <1>2, <1>4, <1>6, <3>1 DEF Values
    <3>2. CASE i \in DOMAIN p
      BY <1>7, <3>2 DEF Book, KeyOnce
    <3> QED
      BY <1>3, <3>1, <3>2
  <2> QED
    BY <1>3, <2>1, <2>2, <2>3, <2>4 DEF Book, KeyOnce
<1>9. asks \in Seq(Request) /\ Len(asks) = n
  <2>1. \A i \in 1..n : [id |-> nextId + i - 1, key |-> keys[i]] \in Request
    BY <1>1, <1>2, <1>5 DEF Request, Book
  <2> QED
    BY <1>2, <2>1
<1>10. requests[s] \in Seq(Request) /\ requests'[s] = requests[s] \o asks
  BY <1>3
<1>11. /\ requests'[s] \in Seq(Request)
       /\ \A i \in DOMAIN requests[s] :
            i \in DOMAIN requests'[s] /\ requests'[s][i] = requests[s][i]
       /\ \A i \in 1..n : /\ Len(requests[s]) + i \in DOMAIN requests'[s]
                         /\ requests'[s][Len(requests[s]) + i] = asks[i]
  <2> HIDE DEF asks
  <2> QED
    BY <1>2, <1>9, <1>10
<1>12. \A id \in DOMAIN pending' : id \notin DOMAIN p =>
         \E i \in DOMAIN requests'[s] : requests'[s][i].id = id
  <2> SUFFICES ASSUME NEW id \in ids PROVE \E i \in DOMAIN requests'[s] : requests'[s][i].id = id
    BY <1>3
  <2>1. id - nextId + 1 \in 1..n /\ asks[id - nextId + 1].id = id
    BY <1>2, <1>5
  <2> QED
    BY <1>11, <2>1
<1>13. requests' \in [Sockets -> Seq(Request)] /\ \A r \in Sockets \ {s} : requests'[r] = requests[r]
  <2> HIDE DEF asks
  <2> QED
    BY <1>3, <1>11
<1> QED
  BY <1>8, <1>11, <1>12, <1>13

\* The same whether or not the manager's socket is open.
LEMMA FlushIfKeeps ==
  ASSUME NEW s \in Sockets \cup {NoSocket}, NEW w, NEW p, NEW sb, Book(w, p, sb, nextId),
         requests \in [Sockets -> Seq(Request)],
         FlushIf(s, w, p, sb)
  PROVE  /\ Book(w, pending', subs', nextId')
         /\ requests' \in [Sockets -> Seq(Request)]
         /\ \A r \in Sockets : \A i \in DOMAIN requests[r] :
              i \in DOMAIN requests'[r] /\ requests'[r][i] = requests[r][i]
         /\ Open(s) => \A id \in DOMAIN pending' : id \notin DOMAIN p =>
              \E i \in DOMAIN requests'[s] : requests'[s][i].id = id
<1>1. CASE Open(s) /\ FlushSubscribes(s, w, p, sb)
  <2>1. s \in Sockets
    BY <1>1 DEF Open
  <2> QED
    BY <1>1, <2>1, FlushKeeps
<1>2. CASE ~Open(s) /\ NoFlush(p, sb)
  BY <1>2 DEF NoFlush
<1> QED
  BY <1>1, <1>2 DEF FlushIf

\* From empty maps, everything pending was asked for just now.
LEMMA FlushFromEmpty ==
  ASSUME NEW s \in Sockets, NEW w, NEW p, NEW sb, DOMAIN p = {}, Book(w, p, sb, nextId),
         requests \in [Sockets -> Seq(Request)],
         FlushSubscribes(s, w, p, sb)
  PROVE  \A id \in DOMAIN pending' : \E i \in DOMAIN requests'[s] : requests'[s][i].id = id
<1>1. /\ Book(w, pending', subs', nextId')
      /\ requests' \in [Sockets -> Seq(Request)]
      /\ \A r \in Sockets \ {s} : requests'[r] = requests[r]
      /\ \A i \in DOMAIN requests[s] :
           i \in DOMAIN requests'[s] /\ requests'[s][i] = requests[s][i]
      /\ \A id \in DOMAIN pending' : id \notin DOMAIN p =>
           \E i \in DOMAIN requests'[s] : requests'[s][i].id = id
  BY FlushKeeps
<1> QED
  BY <1>1
-----------------------------------------------------------------------------
(* The books.                                                              *)

LEMMA MessageFields ==
  ASSUME NEW m \in Message
  PROVE  /\ m.type = "ack" => m.id \in Nat /\ m.sub \in Nat
         /\ m.type = "notification" => m.content \in Contents /\ m.key \in Keys
BY DEF Message

\* An answer moves its key from one map to the other, or drops it.
LEMMA AnsweredKeeps ==
  ASSUME NEW m, Books, Answered(m), UNCHANGED <<wanted, nextId>>
  PROVE  Books'
<1>1. CASE m.id \notin DOMAIN pending
  BY <1>1 DEF Answered, Books, Book, KeyOnce, Memory
<1>2. CASE m.id \in DOMAIN pending
  <2>1. pending' = Without(pending, m.id)
    BY <1>2 DEF Answered
  <2>2. /\ DOMAIN pending' = DOMAIN pending \ {m.id}
        /\ \A i \in DOMAIN pending' : pending'[i] = pending[i]
        /\ pending' \in [DOMAIN pending' -> wanted]
    BY <2>1 DEF Without, Books, Book
  <2>3. CASE subs' = subs
    BY <2>2, <2>3 DEF Answered, Books, Book, KeyOnce, Memory
  <2>4. CASE subs' = With(subs, m.sub, pending[m.id])
    <3>1. /\ DOMAIN subs' = DOMAIN subs \cup {m.sub}
          /\ \A n \in DOMAIN subs' :
               subs'[n] = IF n = m.sub THEN pending[m.id] ELSE subs[n]
          /\ subs' \in [DOMAIN subs' -> wanted]
      BY <1>2, <2>4 DEF With, Books, Book
    <3>2. KeyOnce(pending', subs')
      BY <1>2, <2>2, <3>1 DEF Books, Book, KeyOnce
    <3> QED
      BY <2>2, <3>1, <3>2 DEF Answered, Books, Book, Memory
  <2> QED
    BY <1>2, <2>3, <2>4 DEF Answered
<1> QED
  BY <1>1, <1>2

\* A notification only touches the memory, which stays within its bound.
LEMMA NotifiedKeeps ==
  ASSUME NEW m \in Message, Books, Notified(m), UNCHANGED <<wanted, nextId>>
  PROVE  Books'
<1>1. Book(wanted', pending', subs', nextId')
  BY DEF Notified, Books
<1>2. CASE seenOrder' = seenOrder
  BY <1>1, <1>2 DEF Books, Memory
<1>3. CASE m.sub \in DOMAIN subs /\ seenOrder' = Forget(Append(seenOrder, <<subs[m.sub], m.content>>))
  <2> DEFINE e == <<subs[m.sub], m.content>>
             q == Append(seenOrder, e)
  <2>1. e \in Keys \X Contents
    BY <1>3, MessageFields DEF Notified, Books, Book
  <2> HIDE DEF e
  <2>2. /\ q \in Seq(Keys \X Contents) /\ Len(q) = Len(seenOrder) + 1
        /\ q # << >> /\ Len(Tail(q)) = Len(q) - 1 /\ Tail(q) \in Seq(Keys \X Contents)
    BY <2>1 DEF Books, Memory
  <2> HIDE DEF q
  <2>3. seenOrder' = IF Len(q) > MaxQueue THEN Tail(q) ELSE q
    BY <1>3 DEF Forget, q, e
  <2>4. Len(seenOrder) \in Nat /\ Len(seenOrder) <= MaxQueue /\ MaxQueue \in Nat
    BY BoundsAssumption DEF Books, Memory
  <2>5. Memory'
    BY <2>2, <2>3, <2>4 DEF Memory
  <2> QED
    BY <1>1, <2>5 DEF Books
<1> QED
  BY <1>2, <1>3 DEF Notified

LEMMA ReceiveKeeps ==
  ASSUME NEW s \in Sockets, IInv, Receive(s)
  PROVE  Books'
<1>1. Head(inbox[s]) \in Message
  BY DEF IInv, NetworkTypes, Receive
<1> QED
  BY <1>1, AnsweredKeeps, NotifiedKeeps DEF IInv, Receive

LEMMA BooksStep ==
  ASSUME IInv, [Next]_vars
  PROVE  Books'
<1> USE DEF IInv
<1>1. ASSUME UNCHANGED <<wanted, seenOrder, book>> PROVE Books'
  BY <1>1 DEF Books, Memory, book
<1>2. ASSUME NEW k \in Keys, Subscribe(k) PROVE Books'
  <2>1. Book(wanted', pending, subs, nextId)
    BY <1>2, FS_AddElement DEF Subscribe, Books, Book
  <2>2. Book(wanted', pending', subs', nextId')
    BY <1>2, <2>1, FlushIfKeeps DEF Subscribe, LifecycleTypes, NetworkTypes
  <2> QED
    BY <1>2, <2>2 DEF Subscribe, Books, Memory
<1>3. ASSUME NEW s \in Sockets, Opened(s) PROVE Books'
  <2>1. Book(wanted, Empty, Empty, nextId)
    BY DEF Books, Book, Empty, KeyOnce
  <2>2. Book(wanted, pending', subs', nextId')
    BY <1>3, <2>1, FlushKeeps, FlushIfKeeps
       DEF Opened, LifecycleTypes, NetworkTypes, PendingCleared
  <2> QED
    BY <1>3, <2>2 DEF Opened, Books, Memory
<1>4. CASE Start \/ Stop \/ StartTimeout \/ Retry
  BY <1>1, <1>4 DEF Start, Stop, StartTimeout, Shutdown, Retry
<1>5. ASSUME NEW s \in Sockets, OpenedLate(s) \/ CloseEvent(s) PROVE Books'
  BY <1>1, <1>5 DEF OpenedLate, CloseEvent
<1>6. ASSUME NEW s \in Sockets, Drop(s) \/ Accept(s) \/ Refuse(s) PROVE Books'
  BY <1>1, <1>6 DEF Drop, Accept, Refuse, manager
<1>7. ASSUME NEW k \in Keys, NEW content \in Contents, Update(k, content) PROVE Books'
  BY <1>1, <1>7 DEF Update, manager
<1>8. CASE UNCHANGED vars
  BY <1>1, <1>8 DEF vars
<1> QED
  BY <1>2, <1>3, <1>4, <1>5, <1>6, <1>7, <1>8, ReceiveKeeps DEF Next, Act

-----------------------------------------------------------------------------
(* The lifecycle.                                                          *)

LInv == LifecycleTypes /\ Promises /\ Single /\ NeverAbandoned

\* A settled promise is no longer pending, and no other is.
LEMMA Settled ==
  ASSUME LInv, NEW result \in Outcomes \ {"pending"}, SettleStart(result)
  PROVE  /\ settle' = 0 /\ startTimer' = 0
         /\ outcome' \in Seq(Outcomes)
         /\ \A i \in DOMAIN outcome' : outcome'[i] # "pending"
<1>1. CASE settle = 0
  BY <1>1 DEF SettleStart, LInv, LifecycleTypes, Promises
<1>2. CASE settle # 0
  BY <1>2 DEF SettleStart, LInv, LifecycleTypes, Promises
<1> QED
  BY <1>1, <1>2

\* A new socket is a live one; without any before it, the only one.
LEMMA Opening ==
  ASSUME LInv, OpenSocket
  PROVE  /\ phase' \in [Sockets -> Phases] /\ ws' \in Sockets
         /\ phase'[ws'] = "connecting"
         /\ Live' = Live \cup {ws'} /\ ws' \notin Live
         /\ sawOpen' = sawOpen
<1> DEFINE s == CHOOSE s \in Free : TRUE
<1>1. s \in Sockets /\ phase[s] = "free" /\ Free # {}
  BY DEF OpenSocket, Free
<1>2. ws' = s /\ phase' = [phase EXCEPT ![s] = "connecting"] /\ sawOpen' = sawOpen
  BY DEF OpenSocket
<1> HIDE DEF s
<1> QED
  BY <1>1, <1>2 DEF LInv, LifecycleTypes, Phases, Live, Free

LEMMA StartKeeps == ASSUME LInv, Start PROVE LInv'
<1>1. /\ ~startPromise /\ settle = 0 /\ closed' = FALSE /\ startPromise' = TRUE
      /\ outcome' = Append(outcome, "pending")
      /\ settle' = Len(outcome') /\ startTimer' \in {0, settle'}
      /\ UNCHANGED <<disconnected, timers, tracked>>
      /\ early' = (early \/ Free # Sockets)
  BY DEF Start, LInv, Promises, retrying
<1>2. LifecycleTypes'
  <2>1. outcome' \in Seq(Outcomes) /\ Len(outcome') \in Nat
    BY <1>1 DEF LInv, LifecycleTypes, Outcomes
  <2>2. settle' \in 0..Len(outcome') /\ startTimer' \in {0, settle'}
    BY <1>1, <2>1
  <2>3. ws' \in Sockets /\ phase' \in [Sockets -> Phases] /\ sawOpen' = sawOpen
    BY Opening DEF Start
  <2> QED
    BY <1>1, <2>1, <2>2, <2>3 DEF LInv, LifecycleTypes
<1>3. Promises'
  <2>1. \A i \in DOMAIN outcome' : outcome'[i] = "pending" => i = settle'
    BY <1>1 DEF LInv, LifecycleTypes, Promises
  <2> QED
    BY <1>1, <2>1 DEF Promises
<1>4. Single'
  BY <1>1, Opening, BoundsAssumption DEF Start, LInv, Single, Live
<1>5. NeverAbandoned'
  BY Opening DEF Start, NeverAbandoned
<1> QED
  BY <1>2, <1>3, <1>4, <1>5 DEF LInv

\* stop(), whatever promise it settles.
LEMMA ShutdownKeeps ==
  ASSUME LInv, NEW result \in Outcomes \ {"pending"}, SettleStart(result), Shutdown
  PROVE  LInv'
<1>1. /\ closed' = TRUE /\ timers' = TimersCleared /\ tracked' = FALSE
      /\ ws' = NoSocket /\ startPromise' = FALSE
      /\ phase' = IF ws = NoSocket THEN phase ELSE [phase EXCEPT ![ws] = "closing"]
      /\ UNCHANGED <<disconnected, sawOpen, early>>
  BY DEF Shutdown
<1>2. Live' = Live /\ phase' \in [Sockets -> Phases]
  BY <1>1 DEF LInv, LifecycleTypes, Single, Phases, Live, Free
<1>3. timers' \in Nat
  BY <1>1 DEF TimersCleared, LInv, LifecycleTypes, Single
<1>4. LifecycleTypes'
  <2>1. outcome' \in Seq(Outcomes) /\ settle' \in 0..Len(outcome') /\ startTimer' \in {0, settle'}
    BY Settled
  <2> QED
    BY <1>1, <1>2, <1>3, <2>1 DEF LInv, LifecycleTypes
<1>5. Promises'
  BY <1>1, Settled DEF LInv, Promises
<1>6. Single'
  BY <1>1, <1>2 DEF LInv, Single, TimersCleared
<1> QED
  BY <1>1, <1>4, <1>5, <1>6 DEF LInv, NeverAbandoned

LEMMA RetryKeeps == ASSUME LInv, Retry PROVE LInv'
<1>1. /\ timers > 0 /\ timers' = timers - 1 /\ tracked' = FALSE
      /\ UNCHANGED <<disconnected, early, closed, startPromise, settle, startTimer, outcome>>
  BY DEF Retry, lifecycle
<1>2. timers' \in Nat
  BY <1>1 DEF LInv, LifecycleTypes
<1>3. CASE ~closed /\ OpenSocket
  <2>1. LifecycleTypes' /\ Promises' /\ NeverAbandoned'
    BY <1>1, <1>2, <1>3, Opening DEF LInv, LifecycleTypes, Promises, NeverAbandoned
  <2>2. Single'
    BY <1>1, <1>3, Opening DEF LInv, LifecycleTypes, Single
  <2> QED
    BY <2>1, <2>2 DEF LInv
<1>4. CASE closed /\ UNCHANGED <<ws, network>>
  <2>1. LifecycleTypes' /\ Promises'
    BY <1>1, <1>2, <1>4 DEF LInv, LifecycleTypes, Promises, network
  <2>2. Single' /\ NeverAbandoned'
    BY <1>1, <1>4 DEF LInv, Single, Promises, NeverAbandoned, network, Live, Free, LifecycleTypes
  <2> QED
    BY <2>1, <2>2 DEF LInv
<1> QED
  BY <1>3, <1>4 DEF Retry

LEMMA OpenedKeeps == ASSUME LInv, NEW s \in Sockets, Opened(s) PROVE LInv'
<1>1. /\ ~closed /\ phase[s] = "connecting"
      /\ phase' = [phase EXCEPT ![s] = "open"] /\ sawOpen' = [sawOpen EXCEPT ![s] = TRUE]
      /\ disconnected' = FALSE
      /\ UNCHANGED <<ws, closed, startPromise, timers, tracked, early>>
      /\ SettleStart("open")
  BY DEF Opened, retrying
<1>2. Live' = Live /\ phase' \in [Sockets -> Phases]
  BY <1>1 DEF LInv, LifecycleTypes, Phases, Live, Free
<1>3. LifecycleTypes'
  <2>1. outcome' \in Seq(Outcomes) /\ settle' \in 0..Len(outcome') /\ startTimer' \in {0, settle'}
    BY <1>1, Settled DEF Outcomes
  <2> QED
    BY <1>1, <1>2, <2>1 DEF LInv, LifecycleTypes
<1>4. Promises'
  BY <1>1, Settled DEF LInv, Promises, Outcomes
<1>5. Single' /\ NeverAbandoned'
  BY <1>1, <1>2 DEF LInv, LifecycleTypes, Single, NeverAbandoned
<1> QED
  BY <1>3, <1>4, <1>5 DEF LInv

LEMMA CloseKeeps == ASSUME LInv, NEW s \in Sockets, CloseEvent(s) PROVE LInv'
<1>1. /\ phase[s] = "closing" /\ phase' = [phase EXCEPT ![s] = "free"]
      /\ sawOpen' = [sawOpen EXCEPT ![s] = FALSE]
      /\ ws' = (IF ws = s THEN NoSocket ELSE ws)
      /\ UNCHANGED <<closed, startPromise, settle, startTimer, outcome, early>>
  BY DEF CloseEvent, lifecycle
<1>2. Live' = Live \ {s} /\ s \in Live /\ phase' \in [Sockets -> Phases]
  BY <1>1 DEF LInv, LifecycleTypes, Phases, Live, Free
<1>3. ws' # NoSocket => phase'[ws'] # "free"
  BY <1>1 DEF LInv, LifecycleTypes, Single
<1>4. CASE closed /\ UNCHANGED <<disconnected, retrying>>
  <2>1. LifecycleTypes' /\ Promises' /\ NeverAbandoned'
    BY <1>1, <1>2, <1>4 DEF LInv, LifecycleTypes, Promises, retrying, NeverAbandoned
  <2>2. Single'
    BY <1>1, <1>2, <1>3, <1>4 DEF LInv, Single, retrying
  <2> QED
    BY <2>1, <2>2 DEF LInv
<1>5. CASE /\ ~closed /\ disconnected' = (disconnected \/ sawOpen[s])
           /\ timers' = timers + 1 /\ tracked' = TRUE
  <2>1. disconnected' \in BOOLEAN
    BY <1>5, Zenon DEF LInv, LifecycleTypes
  <2>2. LifecycleTypes' /\ Promises' /\ NeverAbandoned'
    BY <1>1, <1>2, <1>5, <2>1 DEF LInv, LifecycleTypes, Promises, NeverAbandoned
  <2>3. Single'
    BY <1>1, <1>2, <1>3, <1>5 DEF LInv, Single, LifecycleTypes
  <2> QED
    BY <2>2, <2>3 DEF LInv
<1> QED
  BY <1>4, <1>5 DEF CloseEvent, Reconnects

\* A socket fails or is closed: it stays live until its close event.
LEMMA ClosingKeeps ==
  ASSUME LInv, NEW s \in Sockets, phase[s] \in {"connecting", "open"},
         phase' = [phase EXCEPT ![s] = "closing"],
         UNCHANGED <<ws, sawOpen, disconnected, lifecycle, retrying, early>>
  PROVE  LInv'
<1>1. Live' = Live /\ phase' \in [Sockets -> Phases] /\ phase'[s] # "free"
  BY DEF LInv, LifecycleTypes, Phases, Live, Free
<1>2. UNCHANGED <<closed, startPromise, settle, startTimer, outcome, timers, tracked>>
  BY DEF lifecycle, retrying
<1>3. LifecycleTypes' /\ Promises' /\ NeverAbandoned'
  BY <1>1, <1>2 DEF LInv, LifecycleTypes, Promises, NeverAbandoned
<1>4. Single'
  BY <1>1, <1>2 DEF LInv, LifecycleTypes, Single
<1> QED
  BY <1>3, <1>4 DEF LInv

LEMMA UntouchedKeeps ==
  ASSUME LInv, UNCHANGED <<ws, phase, sawOpen, disconnected, lifecycle, retrying, early>>
  PROVE  LInv'
<1>1. UNCHANGED <<closed, startPromise, settle, startTimer, outcome, timers, tracked>>
  BY DEF lifecycle, retrying
<1>2. LifecycleTypes' /\ Promises'
  BY <1>1 DEF LInv, LifecycleTypes, Promises
<1>3. Single' /\ NeverAbandoned'
  BY <1>1 DEF LInv, LifecycleTypes, Single, NeverAbandoned, Live, Free
<1> QED
  BY <1>2, <1>3 DEF LInv

LEMMA LifecycleStep ==
  ASSUME LInv, [Next]_vars
  PROVE  LInv'
<1>1. CASE Stop \/ StartTimeout
  BY <1>1, ShutdownKeeps DEF Stop, StartTimeout, Outcomes
<1>2. ASSUME NEW s \in Sockets, OpenedLate(s) \/ Drop(s) PROVE LInv'
  BY <1>2, ClosingKeeps DEF OpenedLate, Drop, manager
<1>3. ASSUME NEW s \in Sockets, Receive(s) \/ Accept(s) \/ Refuse(s) PROVE LInv'
  BY <1>3, UntouchedKeeps DEF Receive, Accept, Refuse, manager
<1>4. ASSUME NEW k \in Keys, Subscribe(k) PROVE LInv'
  BY <1>4, UntouchedKeeps DEF Subscribe
<1>5. ASSUME NEW k \in Keys, NEW content \in Contents, Update(k, content) PROVE LInv'
  BY <1>5, UntouchedKeeps DEF Update, manager
<1>6. CASE UNCHANGED vars
  <2>1. UNCHANGED <<ws, network, disconnected, lifecycle, retrying, early>>
    BY <1>6 DEF vars
  <2> QED
    BY <2>1, UntouchedKeeps DEF network
<1> QED
  BY <1>1, <1>2, <1>3, <1>4, <1>5, <1>6, StartKeeps, RetryKeeps, OpenedKeeps, CloseKeeps
     DEF Next, Act

-----------------------------------------------------------------------------
(* The network.                                                            *)

LEMMA NextSubscription ==
  ASSUME NetworkTypes, NEW s \in Sockets
  PROVE  UnusedSub(s) \in Nat /\ UnusedSub(s) \notin DOMAIN serverSubs[s]
<1> DEFINE D == DOMAIN serverSubs[s]
           c == Cardinality(D)
<1>1. IsFiniteSet(D) /\ c \in Nat
  BY FS_CardinalityType DEF NetworkTypes
<1>2. \E n \in 1..(c + 1) : n \notin D
  <2>1. SUFFICES ASSUME 1..(c + 1) \subseteq D PROVE FALSE
    OBVIOUS
  <2>2. Cardinality(1..(c + 1)) = c + 1
    BY <1>1, FS_Interval
  <2> QED
    BY <1>1, <2>1, <2>2, FS_Subset
<1>3. UnusedSub(s) \in 1..(c + 1) /\ UnusedSub(s) \notin D
  BY <1>2 DEF UnusedSub
<1> QED
  BY <1>1, <1>3

LEMMA Queues ==
  ASSUME NEW S, NEW q \in Seq(S)
  PROVE  /\ \A e \in S : Append(q, e) \in Seq(S)
         /\ q # << >> => Tail(q) \in Seq(S) /\ Head(q) \in S
OBVIOUS

LEMMA AcceptTypes == ASSUME NetworkTypes, NEW s \in Sockets, Accept(s) PROVE NetworkTypes'
<1> DEFINE r == Head(requests[s])
           n == UnusedSub(s)
           ack == [type |-> "ack", id |-> r.id, sub |-> n]
<1>1. r \in Request /\ Tail(requests[s]) \in Seq(Request)
  BY DEF NetworkTypes, Accept
<1>2. n \in Nat
  BY NextSubscription
<1>3. ack \in Message
  BY <1>1, <1>2 DEF Message, Request
<1>4. /\ serverSubs' = [serverSubs EXCEPT ![s] = With(@, n, r.key)]
      /\ inbox' = [inbox EXCEPT ![s] = Append(@, ack)]
      /\ requests' = [requests EXCEPT ![s] = Tail(@)]
  BY DEF Accept
<1> HIDE DEF n, ack
<1>5. Append(inbox[s], ack) \in Seq(Message)
  BY <1>3 DEF NetworkTypes
<1> DEFINE f == With(serverSubs[s], n, r.key)
<1>6. /\ DOMAIN f = DOMAIN serverSubs[s] \cup {n}
      /\ \A m \in DOMAIN f : f[m] \in Keys
  BY <1>1 DEF With, NetworkTypes, Request
<1>7. DOMAIN f \subseteq Nat /\ IsFiniteSet(DOMAIN f)
  <2>1. DOMAIN serverSubs[s] \subseteq Nat /\ IsFiniteSet(DOMAIN serverSubs[s])
    BY DEF NetworkTypes
  <2>2. IsFiniteSet(DOMAIN serverSubs[s] \cup {n})
    BY <2>1, FS_AddElement
  <2> HIDE DEF f
  <2> QED
    BY <1>2, <1>6, <2>1, <2>2
<1> HIDE DEF f
<1>8. serverSubs' = [serverSubs EXCEPT ![s] = f]
  BY <1>4 DEF f
<1> QED
  BY <1>1, <1>4, <1>5, <1>6, <1>7, <1>8 DEF NetworkTypes

LEMMA RefuseTypes == ASSUME NetworkTypes, NEW s \in Sockets, Refuse(s) PROVE NetworkTypes'
<1> DEFINE error == [type |-> "error", id |-> Head(requests[s]).id]
<1>1. Head(requests[s]) \in Request /\ Tail(requests[s]) \in Seq(Request)
  BY DEF NetworkTypes, Refuse
<1>2. error \in Message
  BY <1>1 DEF Message, Request
<1>3. Append(inbox[s], error) \in Seq(Message)
  BY <1>2 DEF NetworkTypes
<1> QED
  BY <1>1, <1>3 DEF NetworkTypes, Refuse

LEMMA UpdateTypes ==
  ASSUME NetworkTypes, NEW k \in Keys, NEW content \in Contents, Update(k, content)
  PROVE  /\ NetworkTypes'
         /\ \A s \in Sockets : \A i \in DOMAIN inbox[s] :
              i \in DOMAIN inbox'[s] /\ inbox'[s][i] = inbox[s][i]
<1> DEFINE told == [s \in Sockets |-> {n \in DOMAIN serverSubs[s] : Open(s) /\ serverSubs[s][n] = k}]
           news(s) == [i \in 1..Cardinality(told[s]) |->
                         [type |-> "notification", sub |-> SetToSeq(told[s])[i],
                          content |-> content, key |-> k]]
<1>1. inbox' = [s \in Sockets |-> inbox[s] \o news(s)] /\ UNCHANGED <<requests, serverSubs>>
  BY DEF Update
<1>2. ASSUME NEW s \in Sockets PROVE news(s) \in Seq(Message)
  <2>1. told[s] \subseteq Nat /\ IsFiniteSet(told[s])
    BY FS_Subset DEF NetworkTypes
  <2>2. Cardinality(told[s]) \in Nat /\ SetToSeq(told[s]) \in [1..Cardinality(told[s]) -> told[s]]
    BY <2>1, Listing, FS_CardinalityType
  <2> HIDE DEF told
  <2>3. \A i \in 1..Cardinality(told[s]) :
          [type |-> "notification", sub |-> SetToSeq(told[s])[i], content |-> content, key |-> k]
            \in Message
    BY <2>1, <2>2 DEF Message
  <2> QED
    BY <2>2, <2>3
<1> HIDE DEF news
<1>3. ASSUME NEW s \in Sockets
      PROVE  /\ inbox'[s] \in Seq(Message)
             /\ \A i \in DOMAIN inbox[s] : i \in DOMAIN inbox'[s] /\ inbox'[s][i] = inbox[s][i]
  BY <1>1, <1>2 DEF NetworkTypes
<1>4. inbox' \in [Sockets -> Seq(Message)]
  BY <1>1, <1>3
<1> QED
  BY <1>1, <1>3, <1>4 DEF NetworkTypes

LEMMA NetworkStep ==
  ASSUME IInv, [Next]_vars
  PROVE  NetworkTypes'
<1> USE DEF IInv
<1>1. ASSUME UNCHANGED <<requests, inbox, serverSubs>> PROVE NetworkTypes'
  BY <1>1 DEF NetworkTypes
<1>2. ASSUME NEW k \in Keys, Subscribe(k) PROVE NetworkTypes'
  <2>1. Book(wanted', pending, subs, nextId)
    BY <1>2, FS_AddElement DEF Subscribe, Books, Book
  <2>2. requests' \in [Sockets -> Seq(Request)]
    BY <1>2, <2>1, FlushIfKeeps DEF Subscribe, LifecycleTypes, NetworkTypes
  <2> QED
    BY <1>2, <2>2 DEF Subscribe, NetworkTypes
<1>3. ASSUME NEW s \in Sockets, Opened(s) PROVE NetworkTypes'
  <2>1. Book(wanted, Empty, Empty, nextId)
    BY DEF Books, Book, Empty, KeyOnce
  <2>2. requests' \in [Sockets -> Seq(Request)]
    BY <1>3, <2>1, FlushKeeps, FlushIfKeeps
       DEF Opened, LifecycleTypes, NetworkTypes, PendingCleared
  <2> QED
    BY <1>3, <2>2 DEF Opened, NetworkTypes
<1>4. CASE Start \/ Stop \/ StartTimeout \/ Retry
  BY <1>1, <1>4 DEF Start, Stop, StartTimeout, Shutdown, Retry, OpenSocket, network
<1>5. ASSUME NEW s \in Sockets, OpenedLate(s) PROVE NetworkTypes'
  BY <1>1, <1>5 DEF OpenedLate
<1>6. ASSUME NEW s \in Sockets, CloseEvent(s) \/ Drop(s) PROVE NetworkTypes'
  <2>1. /\ requests' = [requests EXCEPT ![s] = <<>>]
        /\ serverSubs' = [serverSubs EXCEPT ![s] = Empty]
        /\ inbox' = inbox \/ inbox' = [inbox EXCEPT ![s] = <<>>]
    BY <1>6 DEF CloseEvent, Drop
  <2>2. DOMAIN Empty = {} /\ IsFiniteSet(DOMAIN Empty)
    BY FS_EmptySet DEF Empty
  <2>3. requests' \in [Sockets -> Seq(Request)]
    BY <2>1 DEF NetworkTypes
  <2>4. inbox' \in [Sockets -> Seq(Message)]
    <3>1. CASE inbox' = inbox
      BY <3>1 DEF NetworkTypes
    <3>2. CASE inbox' = [inbox EXCEPT ![s] = <<>>]
      BY <3>2 DEF NetworkTypes
    <3> QED
      BY <2>1, <3>1, <3>2
  <2> HIDE DEF IInv
  <2> QED
    BY <2>1, <2>2, <2>3, <2>4 DEF NetworkTypes, IInv
<1>7. ASSUME NEW s \in Sockets, Receive(s) PROVE NetworkTypes'
  BY <1>7 DEF Receive, NetworkTypes
<1>8. CASE UNCHANGED vars
  <2>1. UNCHANGED network
    BY <1>8 DEF vars
  <2> QED
    BY <1>1, <2>1 DEF network
<1> QED
  BY <1>2, <1>3, <1>4, <1>5, <1>6, <1>7, <1>8, AcceptTypes, RefuseTypes, UpdateTypes DEF Next, Act

-----------------------------------------------------------------------------
(* The answers.                                                            *)

\* The request id is among the requests q, or its answer among the messages b.
OnItsWay(q, b, id) ==
  \/ \E i \in DOMAIN q : q[i].id = id
  \/ \E i \in DOMAIN b : b[i].type \in {"ack", "error"} /\ b[i].id = id

\* All but the head of a queue is in its tail.
LEMMA TailKeeps ==
  ASSUME NEW S, NEW q \in Seq(S), q # << >>, NEW i \in DOMAIN q, i # 1
  PROVE  i - 1 \in DOMAIN Tail(q) /\ Tail(q)[i - 1] = q[i]
<1>1. Len(q) \in Nat /\ DOMAIN q = 1..Len(q)
  OBVIOUS
<1>2. Tail(q) \in Seq(S) /\ Len(Tail(q)) = Len(q) - 1
  OBVIOUS
<1>3. i - 1 \in 1..(Len(q) - 1)
  BY <1>1
<1>4. DOMAIN Tail(q) = 1..(Len(q) - 1)
  BY <1>1, <1>2
<1>5. Tail(q)[i - 1] = q[(i - 1) + 1]
  BY <1>3
<1> QED
  BY <1>1, <1>3, <1>4, <1>5

\* What is on its way stays so if the queues only grow.
LEMMA StillOnItsWay ==
  ASSUME NEW q, NEW b, NEW q2, NEW b2, NEW id, OnItsWay(q, b, id),
         \A i \in DOMAIN q : i \in DOMAIN q2 /\ q2[i] = q[i],
         \A i \in DOMAIN b : i \in DOMAIN b2 /\ b2[i] = b[i]
  PROVE  OnItsWay(q2, b2, id)
BY DEF OnItsWay

\* A server that answers the first request replaces it by its answer.
LEMMA AnswerOnItsWay ==
  ASSUME NEW q \in Seq(Request), q # << >>, NEW b \in Seq(Message), NEW id,
         OnItsWay(q, b, id),
         NEW m \in Message, m.type \in {"ack", "error"}, m.id = Head(q).id
  PROVE  OnItsWay(Tail(q), Append(b, m), id)
<1>1. /\ \A i \in DOMAIN b : i \in DOMAIN Append(b, m) /\ Append(b, m)[i] = b[i]
      /\ Len(b) + 1 \in DOMAIN Append(b, m) /\ Append(b, m)[Len(b) + 1] = m
  OBVIOUS
<1>2. ASSUME NEW i \in DOMAIN b, b[i].type \in {"ack", "error"} /\ b[i].id = id
      PROVE  OnItsWay(Tail(q), Append(b, m), id)
  BY <1>1, <1>2 DEF OnItsWay
<1>3. ASSUME NEW i \in DOMAIN q, q[i].id = id PROVE OnItsWay(Tail(q), Append(b, m), id)
  <2>1. CASE i = 1
    <3>1. m.id = id
      BY <1>3, <2>1
    <3> QED
      BY <1>1, <3>1 DEF OnItsWay
  <2>2. CASE i # 1
    BY <1>3, <2>2, TailKeeps DEF OnItsWay
  <2> QED
    BY <2>1, <2>2
<1> QED
  BY <1>2, <1>3 DEF OnItsWay

\* Receiving a message takes away what is on its way only for the id it answers.
LEMMA ReceivedOnItsWay ==
  ASSUME NEW q, NEW b \in Seq(Message), b # << >>, NEW id, OnItsWay(q, b, id),
         ~(Head(b).type \in {"ack", "error"} /\ Head(b).id = id)
  PROVE  OnItsWay(q, Tail(b), id)
<1>1. ASSUME NEW i \in DOMAIN b, b[i].type \in {"ack", "error"} /\ b[i].id = id
      PROVE  OnItsWay(q, Tail(b), id)
  <2>1. i # 1
    BY <1>1
  <2> QED
    BY <1>1, <2>1, TailKeeps DEF OnItsWay
<1> QED
  BY <1>1 DEF OnItsWay

LEMMA AnswersStep ==
  ASSUME IInv, [Next]_vars
  PROVE  PendingIsAnswered'
<1> USE DEF IInv
<1>1. Open(ws) => \A id \in DOMAIN pending : OnItsWay(requests[ws], inbox[ws], id)
  BY DEF PendingIsAnswered, OnItsWay
<1> DEFINE Goal ==
      Open(ws)' => \A id \in DOMAIN pending' : OnItsWay(requests'[ws'], inbox'[ws'], id)
<1>2. SUFFICES Goal
  BY DEF PendingIsAnswered, OnItsWay
<1> HIDE DEF Goal
<1>3. Open(ws) => ws \in Sockets
  BY DEF Open, LifecycleTypes
<1> DEFINE R == requests \in [Sockets -> Seq(Request)] /\ ws \in Sockets \cup {NoSocket}
<1>r. R
  BY DEF NetworkTypes, LifecycleTypes
<1>4. ASSUME ~Open(ws)' PROVE Goal
  BY <1>4 DEF Goal
<1>5. ASSUME Open(ws), UNCHANGED <<ws, pending>>, requests'[ws] = requests[ws], inbox'[ws] = inbox[ws]
      PROVE  Goal
  BY <1>1, <1>3, <1>5, StillOnItsWay DEF Goal
<1>6. ASSUME NEW k \in Keys, Subscribe(k) PROVE Goal
  <2>1. Book(wanted', pending, subs, nextId)
    BY <1>6, FS_AddElement DEF Subscribe, Books, Book
  <2>2. FlushIf(ws, wanted', pending, subs) /\ UNCHANGED <<ws, phase, inbox>>
    BY <1>6 DEF Subscribe
  <2>3. SUFFICES ASSUME Open(ws), NEW id \in DOMAIN pending' PROVE OnItsWay(requests'[ws], inbox'[ws], id)
    BY <2>2 DEF Goal, Open
  <2>4. CASE id \in DOMAIN pending
    <3>1. \A i \in DOMAIN requests[ws] :
            i \in DOMAIN requests'[ws] /\ requests'[ws][i] = requests[ws][i]
      BY <1>3, <2>1, <2>2, <2>3, FlushIfKeeps DEF LifecycleTypes, NetworkTypes
    <3> QED
      BY <1>1, <1>3, <2>2, <2>3, <2>4, <3>1, StillOnItsWay
  <2>5. CASE id \notin DOMAIN pending
    <3>1. \A new \in DOMAIN pending' : new \notin DOMAIN pending =>
            \E i \in DOMAIN requests'[ws] : requests'[ws][i].id = new
      BY <1>r, <2>1, <2>2, <2>3, FlushIfKeeps
    <3> QED
      BY <2>3, <2>5, <3>1 DEF OnItsWay
  <2> QED
    BY <2>4, <2>5
<1>7. ASSUME NEW s \in Sockets, Opened(s) PROVE Goal
  <2>1. Book(wanted, Empty, Empty, nextId) /\ DOMAIN Empty = {}
    BY DEF Books, Book, Empty, KeyOnce
  <2>2. ws' = ws /\ phase' = [phase EXCEPT ![s] = "open"]
    BY <1>7 DEF Opened
  <2>3. SUFFICES ASSUME Open(ws)', NEW id \in DOMAIN pending'
                 PROVE  \E i \in DOMAIN requests'[ws] : requests'[ws][i].id = id
    BY <2>2 DEF Goal, OnItsWay
  <2>4. FlushSubscribes(ws, wanted, Empty, Empty) /\ ws \in Sockets
    <3>1. ws # s => Open(ws)
      BY <2>2, <2>3 DEF Open, LifecycleTypes
    <3> QED
      BY <1>3, <1>7, <3>1 DEF Opened, FlushIf, PendingCleared
  <2> QED
    BY <1>r, <2>1, <2>3, <2>4, FlushFromEmpty
<1>8. CASE Start \/ Retry
  <2>1. CASE OpenSocket
    <3>1. ws' \in Sockets /\ phase'[ws'] = "connecting"
      BY <2>1, Opening DEF LInv
    <3> QED
      BY <3>1, <1>4 DEF Open
  <2>2. CASE UNCHANGED <<ws, network, book>>
    BY <1>4, <1>5, <2>2 DEF Open, network, book
  <2> QED
    BY <1>8, <2>1, <2>2 DEF Start, Retry
<1>9. CASE Stop \/ StartTimeout
  BY <1>4, <1>9 DEF Stop, StartTimeout, Shutdown, Open
<1>10. ASSUME NEW s \in Sockets, OpenedLate(s) \/ CloseEvent(s) \/ Drop(s) PROVE Goal
  <2>1. /\ UNCHANGED pending
        /\ phase' \in {[phase EXCEPT ![s] = "closing"], [phase EXCEPT ![s] = "free"]}
        /\ ws' = ws \/ ws' = NoSocket
        /\ \A r \in Sockets \ {s} : requests'[r] = requests[r] /\ inbox'[r] = inbox[r]
    BY <1>10 DEF OpenedLate, CloseEvent, Drop, manager, book, NetworkTypes
  <2>2. CASE ws' = s \/ ws' = NoSocket
    BY <1>4, <2>1, <2>2 DEF Open, LifecycleTypes
  <2>3. CASE ws' # s /\ ws' # NoSocket
    <3>1. ws' = ws /\ ws \in Sockets \ {s} /\ (Open(ws)' => Open(ws))
      BY <2>1, <2>3 DEF Open, LifecycleTypes
    <3> QED
      BY <1>4, <1>5, <2>1, <3>1
  <2> QED
    BY <2>2, <2>3
<1>11. ASSUME NEW s \in Sockets, Receive(s) PROVE Goal
  <2>1. /\ UNCHANGED <<ws, phase, requests>>
        /\ \A r \in Sockets \ {s} : inbox'[r] = inbox[r]
        /\ DOMAIN pending' \subseteq DOMAIN pending
    BY <1>11 DEF Receive, Answered, Notified, Without, NetworkTypes
  <2>2. SUFFICES ASSUME Open(ws), NEW id \in DOMAIN pending' PROVE OnItsWay(requests'[ws], inbox'[ws], id)
    BY <2>1 DEF Goal, Open
  <2>3. OnItsWay(requests[ws], inbox[ws], id) /\ ws \in Sockets
    BY <1>1, <1>3, <2>1, <2>2
  <2>4. CASE ws = s
    <3> DEFINE b == inbox[ws]
               m == Head(inbox[ws])
    <3>1. b \in Seq(Message) /\ b # << >> /\ inbox'[ws] = Tail(b) /\ requests'[ws] = requests[ws]
      BY <1>11, <2>4 DEF Receive, NetworkTypes
    <3>2. Answered(m) \/ Notified(m)
      BY <1>11, <2>4 DEF Receive
    <3>3. ASSUME m.type \in {"ack", "error"}, m.id = id PROVE FALSE
      <4>1. pending' = IF id \in DOMAIN pending THEN Without(pending, id) ELSE pending
        BY <3>2, <3>3 DEF Answered, Notified
      <4> QED
        BY <2>2, <4>1 DEF Without
    <3> QED
      BY <2>3, <3>1, <3>3, ReceivedOnItsWay
  <2>5. CASE ws # s
    BY <2>1, <2>3, <2>5, StillOnItsWay
  <2> QED
    BY <2>4, <2>5
<1>12. ASSUME NEW s \in Sockets, Accept(s) \/ Refuse(s) PROVE Goal
  <2>1. PICK m \in Message :
          /\ m.type \in {"ack", "error"} /\ m.id = Head(requests[s]).id
          /\ requests[s] # << >>
          /\ requests' = [requests EXCEPT ![s] = Tail(@)]
          /\ inbox' = [inbox EXCEPT ![s] = Append(@, m)]
          /\ UNCHANGED <<ws, pending, phase>>
    <3>1. Head(requests[s]).id \in Nat
      <4>1. requests[s] # << >> /\ requests[s] \in Seq(Request)
        BY <1>12 DEF Accept, Refuse, NetworkTypes
      <4>2. Head(requests[s]) \in Request
        BY <4>1
      <4> QED
        BY <4>2 DEF Request
    <3>2. CASE Accept(s)
      <4> DEFINE ack == [type |-> "ack", id |-> Head(requests[s]).id, sub |-> UnusedSub(s)]
      <4>1. ack \in Message
        BY <3>1, NextSubscription DEF Message
      <4> QED
        BY <3>2, <4>1 DEF Accept, manager, book
    <3>3. CASE Refuse(s)
      <4> DEFINE error == [type |-> "error", id |-> Head(requests[s]).id]
      <4>1. error \in Message
        BY <3>1 DEF Message
      <4> QED
        BY <3>3, <4>1 DEF Refuse, manager, book
    <3> QED
      BY <1>12, <3>2, <3>3
  <2>2. SUFFICES ASSUME Open(ws), NEW id \in DOMAIN pending PROVE OnItsWay(requests'[ws], inbox'[ws], id)
    BY <2>1 DEF Goal, Open
  <2>3. OnItsWay(requests[ws], inbox[ws], id) /\ ws \in Sockets
    BY <1>1, <1>3, <2>2
  <2>4. CASE ws = s
    <3>1. requests[s] \in Seq(Request) /\ inbox[s] \in Seq(Message)
      BY DEF NetworkTypes
    <3>2. requests'[s] = Tail(requests[s]) /\ inbox'[s] = Append(inbox[s], m)
      BY <2>1 DEF NetworkTypes
    <3> QED
      BY <2>1, <2>3, <2>4, <3>1, <3>2, AnswerOnItsWay
  <2>5. CASE ws # s
    BY <2>1, <2>3, <2>5, StillOnItsWay DEF NetworkTypes
  <2> QED
    BY <2>4, <2>5
<1>13. ASSUME NEW k \in Keys, NEW content \in Contents, Update(k, content) PROVE Goal
  <2>1. UNCHANGED <<ws, phase, pending, requests>>
    BY <1>13 DEF Update, manager, book
  <2> QED
    BY <1>1, <1>3, <1>13, <2>1, UpdateTypes, StillOnItsWay DEF Goal, Open
<1>14. CASE UNCHANGED vars
  <2>1. UNCHANGED <<ws, network, book>>
    BY <1>14 DEF vars
  <2> QED
    BY <1>4, <1>5, <2>1 DEF Open, network, book
<1> QED
  BY <1>6, <1>7, <1>8, <1>9, <1>10, <1>11, <1>12, <1>13, <1>14 DEF Next, Act

-----------------------------------------------------------------------------
LEMMA NextIInv == IInv /\ [Next]_vars => IInv'
<1> SUFFICES ASSUME IInv, [Next]_vars PROVE IInv'
  OBVIOUS
<1>1. Books' /\ NetworkTypes' /\ PendingIsAnswered'
  BY BooksStep, NetworkStep, AnswersStep
<1>2. LInv'
  BY LifecycleStep DEF IInv, LInv
<1> QED
  BY <1>1, <1>2 DEF IInv, LInv

\* The types of the manager's fields, and the bound of its memory (wss.ts,
\* "F3 memory"), over any history.
THEOREM TypeCorrect == Spec => []TypeOK
<1>1. IInv => TypeOK
  <2> SUFFICES ASSUME IInv PROVE TypeOK
    OBVIOUS
  <2>1. /\ wanted \subseteq Keys /\ Values(pending) \subseteq wanted
        /\ DOMAIN pending \subseteq 1..(nextId - 1) /\ Values(subs) \subseteq wanted
    BY DEF IInv, Books, Book, Values
  <2> QED
    BY <2>1 DEF IInv, Books, Memory, LifecycleTypes, TypeOK, Phases
<1> QED
  BY <1>1, InitIInv, NextIInv, PTL DEF Spec

\* Through any drops, failed handshakes, timeouts, stops and restarts there
\* is one connection or one retry, if starts wait for the close event.
THEOREM OneLifecycleHolds == Spec => []OneLifecycleUnlessEarly
<1>1. IInv => OneLifecycleUnlessEarly
  <2> SUFFICES ASSUME IInv, ~early PROVE OneLifecycle
    BY DEF OneLifecycleUnlessEarly
  <2>1. \A s, t \in Live : s = t
    BY DEF IInv, Single
  <2>2. Active \subseteq Live
    BY DEF Active, Live, Free
  <2>3. Cardinality(Active) \in {0, 1} /\ (Active = {} => Cardinality(Active) = 0)
    BY <2>1, <2>2, AtMostOne
  <2>4. timers \in {0, 1} /\ (Live # {} => timers = 0)
    BY DEF IInv, Single
  <2> QED
    BY <2>2, <2>3, <2>4 DEF OneLifecycle
<1> QED
  BY <1>1, InitIInv, NextIInv, PTL DEF Spec

\* A manager that runs is never abandoned by its handlers, and one that was
\* stopped leaves nothing running (start, stop, the close handler).
THEOREM RunningIsStarted == Spec => []RunsIffStarted
<1>1. IInv => RunsIffStarted
  <2> SUFFICES ASSUME IInv, closed
               PROVE  /\ settle = 0 /\ startTimer = 0 /\ ws = NoSocket
                      /\ "pending" \notin Range(outcome)
                      /\ ~early => timers = 0
    BY DEF IInv, RunsIffStarted, StopIsQuiet
  <2>1. settle = 0 /\ startTimer = 0 /\ ws = NoSocket /\ (~early => timers = 0)
    BY DEF IInv, Promises, LifecycleTypes, Single
  <2>2. "pending" \notin Range(outcome)
    BY <2>1 DEF IInv, Promises, LifecycleTypes, Range
  <2> QED
    BY <2>1, <2>2
<1> QED
  BY <1>1, InitIInv, NextIInv, PTL DEF Spec

\* No key hangs in pending on an open connection (flushSubscribes, the
\* message handler and the clearing of both maps on 'open').
THEOREM PendingAnswered == Spec => []PendingIsAnswered
<1>1. IInv => PendingIsAnswered
  BY DEF IInv
<1> QED
  BY <1>1, InitIInv, NextIInv, PTL DEF Spec

\* A key is subscribed to at most once, however subscribe() falls between
\* requests, answers and reconnections.
THEOREM SubscribedOnceHolds == Spec => []SubscribedOnce
<1>1. IInv => SubscribedOnce
  <2> SUFFICES ASSUME IInv, NEW k \in Keys
               PROVE  Cardinality({id \in DOMAIN pending : pending[id] = k})
                        + Cardinality({n \in DOMAIN subs : subs[n] = k}) <= 1
    BY DEF SubscribedOnce
  <2> DEFINE P == {id \in DOMAIN pending : pending[id] = k}
             S == {n \in DOMAIN subs : subs[n] = k}
  <2>1. (\A x, y \in P : x = y) /\ (\A x, y \in S : x = y) /\ (P = {} \/ S = {})
    BY DEF IInv, Books, Book, KeyOnce
  <2> HIDE DEF P, S
  <2>2. Cardinality(P) \in {0, 1} /\ (P = {} => Cardinality(P) = 0)
    BY <2>1, AtMostOne
  <2>3. Cardinality(S) \in {0, 1} /\ (S = {} => Cardinality(S) = 0)
    BY <2>1, AtMostOne
  <2>4. Cardinality(P) + Cardinality(S) <= 1
    BY <2>1, <2>2, <2>3
  <2> QED
    BY <2>4 DEF P, S
<1> QED
  BY <1>1, InitIInv, NextIInv, PTL DEF Spec

-----------------------------------------------------------------------------
(* Attribution.                                                            *)

IsAnswer(m) == m.type \in {"ack", "error"}

\* A connection's requests q and messages b tell the books p and sb the truth:
\* what the server knows under each subscription id.  Every request or answer
\* under way belongs to a pending id of its own, an ack names the subscription
\* of its key, and a notification comes after the manager knows, or has been
\* sent the ack of, its subscription.
Told(q, b, p, sb, truth) ==
  /\ \A i \in DOMAIN q : q[i].id \in DOMAIN p /\ p[q[i].id] = q[i].key
  /\ \A i, j \in DOMAIN q : q[i].id = q[j].id => i = j
  /\ \A i \in DOMAIN b : IsAnswer(b[i]) =>
       /\ b[i].id \in DOMAIN p
       /\ \A j \in DOMAIN q : q[j].id # b[i].id
       /\ \A j \in DOMAIN b : IsAnswer(b[j]) /\ b[j].id = b[i].id => j = i
  /\ \A i \in DOMAIN b : b[i].type = "ack" =>
       b[i].sub \in DOMAIN truth /\ p[b[i].id] = truth[b[i].sub]
  /\ \A i \in DOMAIN b : b[i].type = "notification" =>
       /\ b[i].sub \in DOMAIN truth /\ b[i].key = truth[b[i].sub]
       /\ \/ b[i].sub \in DOMAIN sb /\ sb[b[i].sub] = truth[b[i].sub]
          \/ \E j \in DOMAIN b : j < i /\ b[j].type = "ack" /\ b[j].sub = b[i].sub
  /\ \A n \in DOMAIN truth :
       \/ n \in DOMAIN sb /\ sb[n] = truth[n]
       \/ \E j \in DOMAIN b : b[j].type = "ack" /\ b[j].sub = n

\* Where nothing is under way and nothing known, nothing false was told.
LEMMA NothingTold ==
  ASSUME NEW q, NEW b, NEW p, NEW sb, DOMAIN q = {}, DOMAIN b = {}
  PROVE  Told(q, b, p, sb, Empty)
BY DEF Told, Empty

\* The places of two sequences in their concatenation.
LEMMA Concatenation ==
  ASSUME NEW S, NEW q \in Seq(S), NEW r \in Seq(S)
  PROVE  /\ q \o r \in Seq(S) /\ Len(q) \in Nat /\ DOMAIN q = 1..Len(q)
         /\ DOMAIN (q \o r) = 1..(Len(q) + Len(r))
         /\ \A i \in 1..Len(r) : (q \o r)[Len(q) + i] = r[i]
         /\ \A i \in DOMAIN q : (q \o r)[i] = q[i]
OBVIOUS

\* The requests a flush adds are for the ids it adds to pending.
LEMMA FlushAsks ==
  ASSUME NEW s \in Sockets, NEW w, NEW p, NEW sb, Book(w, p, sb, nextId),
         requests \in [Sockets -> Seq(Request)],
         FlushSubscribes(s, w, p, sb)
  PROVE  /\ subs' = sb
         /\ \A id \in DOMAIN p : id \in DOMAIN pending' /\ pending'[id] = p[id]
         /\ \A i \in DOMAIN requests'[s] : i \notin DOMAIN requests[s] =>
              /\ requests'[s][i].id \notin DOMAIN p
              /\ requests'[s][i].id \in DOMAIN pending'
              /\ pending'[requests'[s][i].id] = requests'[s][i].key
         /\ \A i, j \in DOMAIN requests'[s] :
              /\ i \notin DOMAIN requests[s] /\ j \notin DOMAIN requests[s]
              /\ requests'[s][i].id = requests'[s][j].id
              => i = j
<1> DEFINE keys == SetToSeq(ToAsk(w, p, sb))
           n == Len(keys)
           ids == nextId..(nextId + n - 1)
           asks == [i \in 1..n |-> [id |-> nextId + i - 1, key |-> keys[i]]]
           old == Len(requests[s])
<1>1. n \in Nat /\ nextId \in Nat \ {0} /\ DOMAIN p \subseteq 1..(nextId - 1)
  <2>1. IsFiniteSet(ToAsk(w, p, sb))
    BY FS_Subset DEF Book, ToAsk
  <2> QED
    BY <2>1, Listing, FS_CardinalityType DEF Book
<1>2. /\ subs' = sb
      /\ pending' = [id \in DOMAIN p \cup ids |->
                       IF id \in ids THEN keys[id - nextId + 1] ELSE p[id]]
      /\ requests' = [requests EXCEPT ![s] = @ \o asks]
  BY DEF FlushSubscribes
<1> HIDE DEF keys, n
<1>3. /\ \A id \in DOMAIN p : id \in DOMAIN pending' /\ pending'[id] = p[id]
      /\ \A i \in 1..n : /\ nextId + i - 1 \notin DOMAIN p
                         /\ nextId + i - 1 \in DOMAIN pending'
                         /\ pending'[nextId + i - 1] = keys[i]
  BY <1>1, <1>2
<1>4. \A i \in DOMAIN requests'[s] : i \notin DOMAIN requests[s] =>
        /\ i - old \in 1..n /\ i \in Nat /\ old \in Nat
        /\ requests'[s][i].id = nextId + (i - old) - 1
        /\ requests'[s][i].key = keys[i - old]
  <2>1. /\ requests'[s] = requests[s] \o asks /\ requests[s] \in Seq(Request)
        /\ asks \in Seq(Request) /\ Len(asks) = n
    <3>1. keys \in [1..n -> Keys]
      <4>1. IsFiniteSet(ToAsk(w, p, sb)) /\ ToAsk(w, p, sb) \subseteq Keys
        BY FS_Subset DEF Book, ToAsk
      <4> QED
        BY <4>1, Listing, FS_CardinalityType DEF keys, n
    <3>2. \A i \in 1..n : [id |-> nextId + i - 1, key |-> keys[i]] \in Request
      BY <1>1, <3>1 DEF Request
    <3>3. asks \in Seq(Request) /\ Len(asks) = n
      BY <1>1, <3>2
    <3>4. requests'[s] = requests[s] \o asks
      BY <1>2
    <3> QED
      BY <3>3, <3>4
  <2>2. \A i \in 1..n : asks[i].id = nextId + i - 1 /\ asks[i].key = keys[i]
    OBVIOUS
  <2> HIDE DEF asks
  <2>3. /\ DOMAIN requests[s] = 1..old /\ old \in Nat
        /\ DOMAIN requests'[s] = 1..(old + n)
        /\ \A i \in 1..n : requests'[s][old + i] = asks[i]
    BY <2>1, Concatenation
  <2> HIDE DEF old
  <2>4. \A i \in 1..(old + n) : i \notin 1..old => i - old \in 1..n /\ old + (i - old) = i
    BY <1>1, <2>3
  <2> QED
    BY <2>2, <2>3, <2>4
<1>5. \A i \in DOMAIN requests'[s] : i \notin DOMAIN requests[s] =>
        /\ requests'[s][i].id \notin DOMAIN p
        /\ requests'[s][i].id \in DOMAIN pending'
        /\ pending'[requests'[s][i].id] = requests'[s][i].key
  BY <1>3, <1>4
<1>6. \A i, j \in DOMAIN requests'[s] :
        /\ i \notin DOMAIN requests[s] /\ j \notin DOMAIN requests[s]
        /\ requests'[s][i].id = requests'[s][j].id
        => i = j
  <2> SUFFICES ASSUME NEW i \in DOMAIN requests'[s], NEW j \in DOMAIN requests'[s],
                      i \notin DOMAIN requests[s], j \notin DOMAIN requests[s],
                      requests'[s][i].id = requests'[s][j].id
               PROVE  i = j
    OBVIOUS
  <2>1. nextId + (i - old) - 1 = nextId + (j - old) - 1 /\ i \in Nat /\ j \in Nat /\ old \in Nat
    BY <1>4
  <2> HIDE DEF old
  <2> QED
    BY <1>1, <2>1
<1> QED
  BY <1>2, <1>3, <1>5, <1>6

\* A flush asks under ids of their own and leaves what was told as it is.
LEMMA ToldFlush ==
  ASSUME NEW s \in Sockets, NEW w, NEW p, NEW sb, Book(w, p, sb, nextId),
         requests \in [Sockets -> Seq(Request)],
         FlushSubscribes(s, w, p, sb),
         NEW b, NEW truth, Told(requests[s], b, p, sb, truth)
  PROVE  Told(requests'[s], b, pending', subs', truth)
<1> DEFINE q == requests[s]
           q2 == requests'[s]
<1>1. \A i \in DOMAIN q : i \in DOMAIN q2 /\ q2[i] = q[i]
  BY FlushKeeps
<1>2. /\ subs' = sb
      /\ \A id \in DOMAIN p : id \in DOMAIN pending' /\ pending'[id] = p[id]
      /\ \A i \in DOMAIN q2 : i \notin DOMAIN q =>
           /\ q2[i].id \notin DOMAIN p /\ q2[i].id \in DOMAIN pending'
           /\ pending'[q2[i].id] = q2[i].key
      /\ \A i, j \in DOMAIN q2 :
           i \notin DOMAIN q /\ j \notin DOMAIN q /\ q2[i].id = q2[j].id => i = j
  BY FlushAsks
<1> HIDE DEF q, q2
<1>3. Told(q, b, p, sb, truth)
  BY DEF q
<1>4. \A i \in DOMAIN q2 : q2[i].id \in DOMAIN pending' /\ pending'[q2[i].id] = q2[i].key
  <2> SUFFICES ASSUME NEW i \in DOMAIN q2
               PROVE  q2[i].id \in DOMAIN pending' /\ pending'[q2[i].id] = q2[i].key
    OBVIOUS
  <2>1. CASE i \in DOMAIN q
    <3>1. q[i].id \in DOMAIN p /\ p[q[i].id] = q[i].key
      BY <1>3, <2>1 DEF Told
    <3> QED
      BY <1>1, <1>2, <2>1, <3>1
  <2>2. CASE i \notin DOMAIN q
    BY <1>2, <2>2
  <2> QED
    BY <2>1, <2>2
<1>5. \A i, j \in DOMAIN q2 : q2[i].id = q2[j].id => i = j
  <2> SUFFICES ASSUME NEW i \in DOMAIN q2, NEW j \in DOMAIN q2, q2[i].id = q2[j].id
               PROVE  i = j
    OBVIOUS
  <2>1. \A k \in DOMAIN q : q2[k].id \in DOMAIN p
    BY <1>1, <1>3 DEF Told
  <2>2. CASE i \in DOMAIN q /\ j \in DOMAIN q
    BY <1>1, <1>3, <2>2 DEF Told
  <2> QED
    BY <1>2, <2>1, <2>2
<1>6. \A i \in DOMAIN b : IsAnswer(b[i]) =>
        /\ b[i].id \in DOMAIN p /\ b[i].id \in DOMAIN pending'
        /\ \A j \in DOMAIN q2 : q2[j].id # b[i].id
        /\ \A j \in DOMAIN b : IsAnswer(b[j]) /\ b[j].id = b[i].id => j = i
  <2> SUFFICES ASSUME NEW i \in DOMAIN b, IsAnswer(b[i])
               PROVE  /\ b[i].id \in DOMAIN p /\ b[i].id \in DOMAIN pending'
                      /\ \A j \in DOMAIN q2 : q2[j].id # b[i].id
                      /\ \A j \in DOMAIN b : IsAnswer(b[j]) /\ b[j].id = b[i].id => j = i
    OBVIOUS
  <2>1. /\ b[i].id \in DOMAIN p /\ \A j \in DOMAIN q : q[j].id # b[i].id
        /\ \A j \in DOMAIN b : IsAnswer(b[j]) /\ b[j].id = b[i].id => j = i
    BY <1>3 DEF Told
  <2>2. ASSUME NEW j \in DOMAIN q2 PROVE q2[j].id # b[i].id
    BY <1>1, <1>2, <2>1
  <2> QED
    BY <1>2, <2>1, <2>2
<1>7. \A i \in DOMAIN b : b[i].type = "ack" =>
        b[i].sub \in DOMAIN truth /\ pending'[b[i].id] = truth[b[i].sub]
  <2> SUFFICES ASSUME NEW i \in DOMAIN b, b[i].type = "ack"
               PROVE  b[i].sub \in DOMAIN truth /\ pending'[b[i].id] = truth[b[i].sub]
    OBVIOUS
  <2>1. b[i].id \in DOMAIN p
    BY <1>6 DEF IsAnswer
  <2>2. b[i].sub \in DOMAIN truth /\ p[b[i].id] = truth[b[i].sub]
    BY <1>3 DEF Told
  <2> QED
    BY <1>2, <2>1, <2>2
<1>8. Told(q2, b, pending', sb, truth)
  BY <1>3, <1>4, <1>5, <1>6, <1>7 DEF Told
<1> QED
  BY <1>2, <1>8 DEF q2

\* The server takes a request: its ack is the truth about a new subscription.
LEMMA ToldAccept ==
  ASSUME NEW q \in Seq(Request), q # << >>, NEW b \in Seq(Message), NEW p, NEW sb, NEW truth,
         Told(q, b, p, sb, truth), NEW n, n \notin DOMAIN truth
  PROVE  Told(Tail(q), Append(b, [type |-> "ack", id |-> Head(q).id, sub |-> n]), p, sb,
              With(truth, n, Head(q).key))
<1> DEFINE ack == [type |-> "ack", id |-> Head(q).id, sub |-> n]
           b2 == Append(b, ack)
           q2 == Tail(q)
           truth2 == With(truth, n, Head(q).key)
<1>1. /\ DOMAIN b2 = 1..(Len(b) + 1) /\ Len(b) \in Nat /\ DOMAIN b = 1..Len(b)
      /\ b2[Len(b) + 1] = ack /\ \A i \in DOMAIN b : b2[i] = b[i]
  OBVIOUS
<1>2. /\ 1 \in DOMAIN q /\ Head(q) = q[1]
      /\ \A i \in DOMAIN q2 : i + 1 \in DOMAIN q /\ q2[i] = q[i + 1] /\ i \in Nat /\ i + 1 # 1
  <2>1. /\ Len(q) \in Nat /\ Len(q) >= 1 /\ DOMAIN q = 1..Len(q) /\ Head(q) = q[1]
        /\ DOMAIN q2 = 1..(Len(q) - 1) /\ \A i \in 1..(Len(q) - 1) : q2[i] = q[i + 1]
    OBVIOUS
  <2> HIDE DEF q2
  <2> QED
    BY <2>1
<1>3. /\ DOMAIN truth2 = DOMAIN truth \cup {n} /\ truth2[n] = q[1].key
      /\ \A m \in DOMAIN truth : truth2[m] = truth[m]
  BY <1>2 DEF With
<1>4. ack.type = "ack" /\ ack.id = q[1].id /\ ack.sub = n /\ IsAnswer(ack)
  BY <1>2 DEF IsAnswer
<1> HIDE DEF b2, q2, truth2, ack
<1>5. /\ q[1].id \in DOMAIN p /\ p[q[1].id] = q[1].key
      /\ \A i \in DOMAIN q2 : /\ q2[i].id \in DOMAIN p /\ p[q2[i].id] = q2[i].key
                              /\ q2[i].id # q[1].id
      /\ \A i, j \in DOMAIN q2 : q2[i].id = q2[j].id => i = j
  <2>1. \A i, j \in DOMAIN q2 : q2[i].id = q2[j].id => i = j
    <3> SUFFICES ASSUME NEW i \in DOMAIN q2, NEW j \in DOMAIN q2, q2[i].id = q2[j].id
                 PROVE  i = j
      OBVIOUS
    <3>1. i + 1 = j + 1
      BY <1>2 DEF Told
    <3> QED
      BY <1>2, <3>1
  <2> QED
    BY <1>2, <2>1 DEF Told
<1>6. \A i \in DOMAIN b2 : i \in DOMAIN b \/ i = Len(b) + 1
  BY <1>1
<1>7. Len(b) + 1 \in DOMAIN b2 /\ Len(b) + 1 \notin DOMAIN b /\ DOMAIN b \subseteq DOMAIN b2
  BY <1>1
<1>8. \A i \in DOMAIN b2 : IsAnswer(b2[i]) =>
        /\ b2[i].id \in DOMAIN p
        /\ \A j \in DOMAIN q2 : q2[j].id # b2[i].id
        /\ \A j \in DOMAIN b2 : IsAnswer(b2[j]) /\ b2[j].id = b2[i].id => j = i
  <2>1. \A i \in DOMAIN b : IsAnswer(b[i]) =>
          /\ b[i].id \in DOMAIN p /\ b[i].id # q[1].id
          /\ \A j \in DOMAIN q2 : q2[j].id # b[i].id
          /\ \A j \in DOMAIN b : IsAnswer(b[j]) /\ b[j].id = b[i].id => j = i
    BY <1>2 DEF Told
  <2> QED
    BY <1>1, <1>4, <1>5, <1>6, <2>1
<1>9. \A i \in DOMAIN b2 : b2[i].type = "ack" =>
        b2[i].sub \in DOMAIN truth2 /\ p[b2[i].id] = truth2[b2[i].sub]
  <2>1. \A i \in DOMAIN b : b[i].type = "ack" =>
          b[i].sub \in DOMAIN truth /\ p[b[i].id] = truth[b[i].sub]
    BY DEF Told
  <2> QED
    BY <1>1, <1>3, <1>4, <1>5, <1>6, <2>1
<1>10. \A i \in DOMAIN b2 : b2[i].type = "notification" =>
         /\ b2[i].sub \in DOMAIN truth2 /\ b2[i].key = truth2[b2[i].sub]
         /\ \/ b2[i].sub \in DOMAIN sb /\ sb[b2[i].sub] = truth2[b2[i].sub]
            \/ \E j \in DOMAIN b2 : j < i /\ b2[j].type = "ack" /\ b2[j].sub = b2[i].sub
  <2> SUFFICES ASSUME NEW i \in DOMAIN b2, b2[i].type = "notification"
               PROVE  /\ b2[i].sub \in DOMAIN truth2 /\ b2[i].key = truth2[b2[i].sub]
                      /\ \/ b2[i].sub \in DOMAIN sb /\ sb[b2[i].sub] = truth2[b2[i].sub]
                         \/ \E j \in DOMAIN b2 : j < i /\ b2[j].type = "ack" /\ b2[j].sub = b2[i].sub
    OBVIOUS
  <2>1. i \in DOMAIN b /\ b2[i] = b[i]
    BY <1>1, <1>4, <1>6
  <2>2. /\ b[i].sub \in DOMAIN truth /\ b[i].key = truth[b[i].sub]
        /\ \/ b[i].sub \in DOMAIN sb /\ sb[b[i].sub] = truth[b[i].sub]
           \/ \E j \in DOMAIN b : j < i /\ b[j].type = "ack" /\ b[j].sub = b[i].sub
    BY <2>1 DEF Told
  <2> QED
    BY <1>1, <1>3, <1>7, <2>1, <2>2
<1>11. \A m \in DOMAIN truth2 :
         \/ m \in DOMAIN sb /\ sb[m] = truth2[m]
         \/ \E j \in DOMAIN b2 : b2[j].type = "ack" /\ b2[j].sub = m
  <2> SUFFICES ASSUME NEW m \in DOMAIN truth2
               PROVE  \/ m \in DOMAIN sb /\ sb[m] = truth2[m]
                      \/ \E j \in DOMAIN b2 : b2[j].type = "ack" /\ b2[j].sub = m
    OBVIOUS
  <2>1. CASE m = n
    BY <1>1, <1>4, <1>7, <2>1
  <2>2. CASE m \in DOMAIN truth
    <3>1. \/ m \in DOMAIN sb /\ sb[m] = truth[m]
          \/ \E j \in DOMAIN b : b[j].type = "ack" /\ b[j].sub = m
      BY <2>2 DEF Told
    <3> QED
      BY <1>1, <1>3, <1>7, <2>2, <3>1
  <2> QED
    BY <1>3, <2>1, <2>2
<1>12. Told(q2, b2, p, sb, truth2)
  BY <1>5, <1>8, <1>9, <1>10, <1>11 DEF Told
<1> QED
  BY <1>12 DEF q2, b2, truth2, ack

\* The server refuses a request.
LEMMA ToldRefuse ==
  ASSUME NEW q \in Seq(Request), q # << >>, NEW b \in Seq(Message), NEW p, NEW sb, NEW truth,
         Told(q, b, p, sb, truth)
  PROVE  Told(Tail(q), Append(b, [type |-> "error", id |-> Head(q).id]), p, sb, truth)
<1> DEFINE error == [type |-> "error", id |-> Head(q).id]
           b2 == Append(b, error)
           q2 == Tail(q)
<1>1. /\ DOMAIN b2 = 1..(Len(b) + 1) /\ Len(b) \in Nat /\ DOMAIN b = 1..Len(b)
      /\ b2[Len(b) + 1] = error /\ \A i \in DOMAIN b : b2[i] = b[i]
  OBVIOUS
<1>2. /\ 1 \in DOMAIN q /\ Head(q) = q[1]
      /\ \A i \in DOMAIN q2 : i + 1 \in DOMAIN q /\ q2[i] = q[i + 1] /\ i \in Nat /\ i + 1 # 1
  <2>1. /\ Len(q) \in Nat /\ Len(q) >= 1 /\ DOMAIN q = 1..Len(q) /\ Head(q) = q[1]
        /\ DOMAIN q2 = 1..(Len(q) - 1) /\ \A i \in 1..(Len(q) - 1) : q2[i] = q[i + 1]
    OBVIOUS
  <2> HIDE DEF q2
  <2> QED
    BY <2>1
<1>3. error.type = "error" /\ error.id = q[1].id /\ IsAnswer(error)
  BY <1>2 DEF IsAnswer
<1> HIDE DEF b2, q2, error
<1>4. /\ q[1].id \in DOMAIN p
      /\ \A i \in DOMAIN q2 : /\ q2[i].id \in DOMAIN p /\ p[q2[i].id] = q2[i].key
                              /\ q2[i].id # q[1].id
      /\ \A i, j \in DOMAIN q2 : q2[i].id = q2[j].id => i = j
  <2>1. \A i, j \in DOMAIN q2 : q2[i].id = q2[j].id => i = j
    <3> SUFFICES ASSUME NEW i \in DOMAIN q2, NEW j \in DOMAIN q2, q2[i].id = q2[j].id
                 PROVE  i = j
      OBVIOUS
    <3>1. i + 1 = j + 1
      BY <1>2 DEF Told
    <3> QED
      BY <1>2, <3>1
  <2> QED
    BY <1>2, <2>1 DEF Told
<1>5. \A i \in DOMAIN b2 : i \in DOMAIN b \/ i = Len(b) + 1
  BY <1>1
<1>6. DOMAIN b \subseteq DOMAIN b2
  BY <1>1
<1>7. \A i \in DOMAIN b2 : IsAnswer(b2[i]) =>
        /\ b2[i].id \in DOMAIN p
        /\ \A j \in DOMAIN q2 : q2[j].id # b2[i].id
        /\ \A j \in DOMAIN b2 : IsAnswer(b2[j]) /\ b2[j].id = b2[i].id => j = i
  <2>1. \A i \in DOMAIN b : IsAnswer(b[i]) =>
          /\ b[i].id \in DOMAIN p /\ b[i].id # q[1].id
          /\ \A j \in DOMAIN q2 : q2[j].id # b[i].id
          /\ \A j \in DOMAIN b : IsAnswer(b[j]) /\ b[j].id = b[i].id => j = i
    BY <1>2 DEF Told
  <2> QED
    BY <1>1, <1>3, <1>4, <1>5, <2>1
<1>8. \A i \in DOMAIN b2 : b2[i].type # "error" => i \in DOMAIN b /\ b2[i] = b[i]
  BY <1>1, <1>3, <1>5
<1>9. \A i \in DOMAIN b2 : b2[i].type = "notification" =>
        /\ b2[i].sub \in DOMAIN truth /\ b2[i].key = truth[b2[i].sub]
        /\ \/ b2[i].sub \in DOMAIN sb /\ sb[b2[i].sub] = truth[b2[i].sub]
           \/ \E j \in DOMAIN b2 : j < i /\ b2[j].type = "ack" /\ b2[j].sub = b2[i].sub
  <2> SUFFICES ASSUME NEW i \in DOMAIN b, b[i].type = "notification"
               PROVE  /\ b[i].sub \in DOMAIN truth /\ b[i].key = truth[b[i].sub]
                      /\ \/ b[i].sub \in DOMAIN sb /\ sb[b[i].sub] = truth[b[i].sub]
                         \/ \E j \in DOMAIN b2 : j < i /\ b2[j].type = "ack" /\ b2[j].sub = b[i].sub
    BY <1>8
  <2>1. /\ b[i].sub \in DOMAIN truth /\ b[i].key = truth[b[i].sub]
        /\ \/ b[i].sub \in DOMAIN sb /\ sb[b[i].sub] = truth[b[i].sub]
           \/ \E j \in DOMAIN b : j < i /\ b[j].type = "ack" /\ b[j].sub = b[i].sub
    BY DEF Told
  <2> QED
    BY <1>1, <1>6, <2>1
<1>10. \A n \in DOMAIN truth :
         \/ n \in DOMAIN sb /\ sb[n] = truth[n]
         \/ \E j \in DOMAIN b2 : b2[j].type = "ack" /\ b2[j].sub = n
  BY <1>1, <1>6 DEF Told
<1>11. \A i \in DOMAIN b2 : b2[i].type = "ack" =>
         b2[i].sub \in DOMAIN truth /\ p[b2[i].id] = truth[b2[i].sub]
  BY <1>8 DEF Told
<1>12. Told(q2, b2, p, sb, truth)
  BY <1>4, <1>7, <1>9, <1>10, <1>11 DEF Told
<1> QED
  BY <1>12 DEF q2, b2, error

\* Notifications of what the server knows are appended.
LEMMA ToldNews ==
  ASSUME NEW q, NEW b \in Seq(Message), NEW p, NEW sb, NEW truth, Told(q, b, p, sb, truth),
         NEW b2 \in Seq(Message),
         \A i \in DOMAIN b : i \in DOMAIN b2 /\ b2[i] = b[i],
         \A i \in DOMAIN b2 : i \notin DOMAIN b =>
            /\ b2[i].type = "notification" /\ b2[i].sub \in DOMAIN truth
            /\ b2[i].key = truth[b2[i].sub]
  PROVE  Told(q, b2, p, sb, truth)
<1>1. \A i \in DOMAIN b2, j \in DOMAIN b : i \notin DOMAIN b => j < i
  OBVIOUS
<1>2. \A i \in DOMAIN b2 : b2[i].type # "notification" => i \in DOMAIN b /\ b2[i] = b[i]
  OBVIOUS
<1>3. \A i \in DOMAIN b2 : IsAnswer(b2[i]) => i \in DOMAIN b /\ b2[i] = b[i]
  BY <1>2 DEF IsAnswer
<1>4. \A i \in DOMAIN b2 : IsAnswer(b2[i]) =>
        /\ b2[i].id \in DOMAIN p
        /\ \A j \in DOMAIN q : q[j].id # b2[i].id
        /\ \A j \in DOMAIN b2 : IsAnswer(b2[j]) /\ b2[j].id = b2[i].id => j = i
  BY <1>3 DEF Told
<1>5. \A i \in DOMAIN b2 : b2[i].type = "ack" =>
        b2[i].sub \in DOMAIN truth /\ p[b2[i].id] = truth[b2[i].sub]
  BY <1>2 DEF Told
<1>6. \A n \in DOMAIN truth :
        \/ n \in DOMAIN sb /\ sb[n] = truth[n]
        \/ \E j \in DOMAIN b : b2[j].type = "ack" /\ b2[j].sub = n
  BY DEF Told
<1>7. \A i \in DOMAIN b2 : b2[i].type = "notification" =>
        /\ b2[i].sub \in DOMAIN truth /\ b2[i].key = truth[b2[i].sub]
        /\ \/ b2[i].sub \in DOMAIN sb /\ sb[b2[i].sub] = truth[b2[i].sub]
           \/ \E j \in DOMAIN b2 : j < i /\ b2[j].type = "ack" /\ b2[j].sub = b2[i].sub
  <2> SUFFICES ASSUME NEW i \in DOMAIN b2, b2[i].type = "notification"
               PROVE  /\ b2[i].sub \in DOMAIN truth /\ b2[i].key = truth[b2[i].sub]
                      /\ \/ b2[i].sub \in DOMAIN sb /\ sb[b2[i].sub] = truth[b2[i].sub]
                         \/ \E j \in DOMAIN b2 : j < i /\ b2[j].type = "ack" /\ b2[j].sub = b2[i].sub
    OBVIOUS
  <2>1. CASE i \in DOMAIN b
    <3>1. /\ b[i].sub \in DOMAIN truth /\ b[i].key = truth[b[i].sub]
          /\ \/ b[i].sub \in DOMAIN sb /\ sb[b[i].sub] = truth[b[i].sub]
             \/ \E j \in DOMAIN b : j < i /\ b[j].type = "ack" /\ b[j].sub = b[i].sub
      BY <2>1 DEF Told
    <3> QED
      BY <2>1, <3>1
  <2>2. CASE i \notin DOMAIN b
    BY <1>1, <1>6, <2>2
  <2> QED
    BY <2>1, <2>2
<1> QED
  BY <1>4, <1>5, <1>6, <1>7 DEF Told

\* The messages but the first, by their places among all.
LEMMA Rest ==
  ASSUME NEW b \in Seq(Message), b # << >>
  PROVE  /\ 1 \in DOMAIN b /\ Head(b) = b[1]
         /\ \A i \in DOMAIN Tail(b) : i \in Nat /\ i + 1 # 1 /\ i + 1 \in DOMAIN b /\ Tail(b)[i] = b[i + 1]
         /\ \A i \in DOMAIN b : i # 1 => i - 1 \in DOMAIN Tail(b) /\ Tail(b)[i - 1] = b[i] /\ i \in Nat
<1>1. /\ Len(b) \in Nat /\ Len(b) >= 1 /\ DOMAIN b = 1..Len(b) /\ Head(b) = b[1]
      /\ DOMAIN Tail(b) = 1..(Len(b) - 1) /\ \A i \in 1..(Len(b) - 1) : Tail(b)[i] = b[i + 1]
  OBVIOUS
<1>2. \A i \in DOMAIN b : i # 1 => i - 1 \in DOMAIN Tail(b) /\ Tail(b)[i - 1] = b[i] /\ i \in Nat
  BY <1>1, TailKeeps
<1> QED
  BY <1>1, <1>2

\* The manager takes the first message: what it learns from an ack is true.
LEMMA ToldReceive ==
  ASSUME NEW q, NEW b \in Seq(Message), b # << >>, NEW truth, Told(q, b, pending, subs, truth),
         Answered(Head(b)) \/ Notified(Head(b))
  PROVE  Told(q, Tail(b), pending', subs', truth)
<1> DEFINE b2 == Tail(b)
           m == b[1]
<1>1. /\ 1 \in DOMAIN b /\ Head(b) = m
      /\ \A i \in DOMAIN b2 : i \in Nat /\ i + 1 # 1 /\ i + 1 \in DOMAIN b /\ b2[i] = b[i + 1]
      /\ \A i \in DOMAIN b : i # 1 => i - 1 \in DOMAIN b2 /\ b2[i - 1] = b[i] /\ i \in Nat
  BY Rest
<1> HIDE DEF b2
<1> DEFINE Kept == /\ \A i \in DOMAIN q : q[i].id \in DOMAIN pending' /\ pending'[q[i].id] = pending[q[i].id]
                   /\ \A i \in DOMAIN b : i # 1 /\ IsAnswer(b[i]) =>
                        b[i].id \in DOMAIN pending' /\ pending'[b[i].id] = pending[b[i].id]
           Learnt == \A n \in DOMAIN truth :
                       (n \in DOMAIN subs /\ subs[n] = truth[n]) \/ (m.type = "ack" /\ m.sub = n)
                         => n \in DOMAIN subs' /\ subs'[n] = truth[n]
<1>2. Kept /\ Learnt
  <2>1. CASE Answered(m)
    <3>1. IsAnswer(m)
      BY <2>1 DEF Answered, IsAnswer
    <3>2. /\ m.id \in DOMAIN pending
          /\ \A i \in DOMAIN q : q[i].id # m.id
          /\ \A i \in DOMAIN b : i # 1 /\ IsAnswer(b[i]) => b[i].id # m.id
      BY <1>1, <3>1 DEF Told
    <3>3. /\ \A i \in DOMAIN q : q[i].id \in DOMAIN pending
          /\ \A i \in DOMAIN b : IsAnswer(b[i]) => b[i].id \in DOMAIN pending
      BY DEF Told
    <3>4. pending' = Without(pending, m.id)
      BY <2>1, <3>2 DEF Answered
    <3>5. Kept
      BY <3>2, <3>3, <3>4 DEF Without
    <3>6. Learnt
      <4>1. CASE m.type = "ack"
        <5>1. subs' = With(subs, m.sub, pending[m.id])
          BY <2>1, <3>2, <4>1 DEF Answered
        <5>2. m.sub \in DOMAIN truth /\ pending[m.id] = truth[m.sub]
          BY <1>1, <4>1 DEF Told
        <5> QED
          BY <5>1, <5>2 DEF With
      <4>2. CASE m.type # "ack"
        <5>1. subs' = subs
          BY <2>1, <3>2, <4>2 DEF Answered
        <5> QED
          BY <4>2, <5>1
      <4> QED
        BY <4>1, <4>2
    <3> QED
      BY <3>5, <3>6
  <2>2. CASE Notified(m)
    <3>1. pending' = pending /\ subs' = subs /\ m.type = "notification"
      BY <2>2 DEF Notified
    <3> QED
      BY <3>1 DEF Told
  <2> QED
    BY <1>1, <2>1, <2>2
<1>a. \A n \in DOMAIN truth :
        n \in DOMAIN subs /\ subs[n] = truth[n] => n \in DOMAIN subs' /\ subs'[n] = truth[n]
  BY <1>2
<1>b. \A n \in DOMAIN truth :
        b[1].type = "ack" /\ b[1].sub = n => n \in DOMAIN subs' /\ subs'[n] = truth[n]
  BY <1>2
<1> HIDE DEF m
<1>3. \A i \in DOMAIN b2 : IsAnswer(b2[i]) =>
        /\ b2[i].id \in DOMAIN pending'
        /\ \A j \in DOMAIN q : q[j].id # b2[i].id
        /\ \A j \in DOMAIN b2 : IsAnswer(b2[j]) /\ b2[j].id = b2[i].id => j = i
  <2> SUFFICES ASSUME NEW i \in DOMAIN b2, IsAnswer(b2[i])
               PROVE  /\ b2[i].id \in DOMAIN pending'
                      /\ \A j \in DOMAIN q : q[j].id # b2[i].id
                      /\ \A j \in DOMAIN b2 : IsAnswer(b2[j]) /\ b2[j].id = b2[i].id => j = i
    OBVIOUS
  <2>1. i + 1 \in DOMAIN b /\ i + 1 # 1 /\ b2[i] = b[i + 1] /\ i \in Nat
    BY <1>1
  <2>2. \A j \in DOMAIN b : IsAnswer(b[j]) /\ b[j].id = b[i + 1].id => j = i + 1
    BY <2>1 DEF Told
  <2>3. ASSUME NEW j \in DOMAIN b2, IsAnswer(b2[j]), b2[j].id = b2[i].id PROVE j = i
    <3>1. j + 1 = i + 1 /\ j \in Nat
      BY <1>1, <2>1, <2>2, <2>3
    <3> QED
      BY <2>1, <3>1
  <2>4. \A j \in DOMAIN q : q[j].id # b[i + 1].id
    BY <2>1 DEF Told
  <2> QED
    BY <1>2, <2>1, <2>3, <2>4
<1>4. \A i \in DOMAIN b2 : b2[i].type = "ack" =>
        b2[i].sub \in DOMAIN truth /\ pending'[b2[i].id] = truth[b2[i].sub]
  <2> SUFFICES ASSUME NEW i \in DOMAIN b2, b2[i].type = "ack"
               PROVE  b2[i].sub \in DOMAIN truth /\ pending'[b2[i].id] = truth[b2[i].sub]
    OBVIOUS
  <2>1. i + 1 \in DOMAIN b /\ i + 1 # 1 /\ b2[i] = b[i + 1]
    BY <1>1
  <2>2. b[i + 1].sub \in DOMAIN truth /\ pending[b[i + 1].id] = truth[b[i + 1].sub]
    BY <2>1 DEF Told
  <2> QED
    BY <1>2, <2>1, <2>2 DEF IsAnswer
<1>5. \A i \in DOMAIN b2 : b2[i].type = "notification" =>
        /\ b2[i].sub \in DOMAIN truth /\ b2[i].key = truth[b2[i].sub]
        /\ \/ b2[i].sub \in DOMAIN subs' /\ subs'[b2[i].sub] = truth[b2[i].sub]
           \/ \E j \in DOMAIN b2 : j < i /\ b2[j].type = "ack" /\ b2[j].sub = b2[i].sub
  <2> SUFFICES ASSUME NEW i \in DOMAIN b2, b2[i].type = "notification"
               PROVE  /\ b2[i].sub \in DOMAIN truth /\ b2[i].key = truth[b2[i].sub]
                      /\ \/ b2[i].sub \in DOMAIN subs' /\ subs'[b2[i].sub] = truth[b2[i].sub]
                         \/ \E j \in DOMAIN b2 : j < i /\ b2[j].type = "ack" /\ b2[j].sub = b2[i].sub
    OBVIOUS
  <2>1. i + 1 \in DOMAIN b /\ b2[i] = b[i + 1] /\ i \in Nat
    BY <1>1
  <2>2. /\ b2[i].sub \in DOMAIN truth /\ b2[i].key = truth[b2[i].sub]
        /\ \/ b2[i].sub \in DOMAIN subs /\ subs[b2[i].sub] = truth[b2[i].sub]
           \/ \E j \in DOMAIN b : j < i + 1 /\ b[j].type = "ack" /\ b[j].sub = b2[i].sub
    BY <2>1 DEF Told
  <2>3. CASE b2[i].sub \in DOMAIN subs /\ subs[b2[i].sub] = truth[b2[i].sub]
    BY <1>a, <2>2, <2>3
  <2>4. ASSUME NEW j \in DOMAIN b, j < i + 1, b[j].type = "ack", b[j].sub = b2[i].sub
        PROVE  \/ b2[i].sub \in DOMAIN subs' /\ subs'[b2[i].sub] = truth[b2[i].sub]
               \/ \E k \in DOMAIN b2 : k < i /\ b2[k].type = "ack" /\ b2[k].sub = b2[i].sub
    <3>1. CASE j = 1
      BY <1>b, <2>2, <2>4, <3>1
    <3>2. CASE j # 1
      <4>1. j - 1 \in DOMAIN b2 /\ b2[j - 1] = b[j] /\ j - 1 < i
        BY <1>1, <2>1, <2>4, <3>2
      <4> QED
        BY <2>4, <4>1
    <3> QED
      BY <3>1, <3>2
  <2> QED
    BY <2>2, <2>3, <2>4
<1>6. \A n \in DOMAIN truth :
        \/ n \in DOMAIN subs' /\ subs'[n] = truth[n]
        \/ \E j \in DOMAIN b2 : b2[j].type = "ack" /\ b2[j].sub = n
  <2> SUFFICES ASSUME NEW n \in DOMAIN truth
               PROVE  \/ n \in DOMAIN subs' /\ subs'[n] = truth[n]
                      \/ \E j \in DOMAIN b2 : b2[j].type = "ack" /\ b2[j].sub = n
    OBVIOUS
  <2>1. \/ n \in DOMAIN subs /\ subs[n] = truth[n]
        \/ \E j \in DOMAIN b : b[j].type = "ack" /\ b[j].sub = n
    BY DEF Told
  <2>2. ASSUME NEW j \in DOMAIN b, b[j].type = "ack", b[j].sub = n
        PROVE  \/ n \in DOMAIN subs' /\ subs'[n] = truth[n]
               \/ \E k \in DOMAIN b2 : b2[k].type = "ack" /\ b2[k].sub = n
    <3>1. CASE j = 1
      BY <1>b, <2>2, <3>1
    <3>2. CASE j # 1
      BY <1>1, <2>2, <3>2
    <3> QED
      BY <3>1, <3>2
  <2> QED
    BY <1>a, <2>1, <2>2
<1>7. /\ \A i \in DOMAIN q : q[i].id \in DOMAIN pending' /\ pending'[q[i].id] = q[i].key
      /\ \A i, j \in DOMAIN q : q[i].id = q[j].id => i = j
  BY <1>2 DEF Told
<1>8. Told(q, b2, pending', subs', truth)
  BY <1>3, <1>4, <1>5, <1>6, <1>7 DEF Told
<1> QED
  BY <1>8 DEF b2

\* A connection that is not open yet carries nothing; one that was opened
\* tells the truth, the server's as long as it is open.
Connection(s) ==
  /\ phase[s] \in {"free", "connecting"} =>
       requests[s] = << >> /\ inbox[s] = << >> /\ serverSubs[s] = Empty
  /\ phase[s] \in {"open", "closing"} =>
       \E truth : /\ Told(requests[s], inbox[s], pending, subs, truth)
                  /\ phase[s] = "open" => truth = serverSubs[s]

Attributed == ~early => \A s \in Sockets : Connection(s)

\* What does not touch a connection or the books.
LEMMA Untouched ==
  ASSUME NEW s, Connection(s), UNCHANGED <<phase[s], pending, subs>>,
         requests'[s] = requests[s], inbox'[s] = inbox[s], serverSubs'[s] = serverSubs[s]
  PROVE  Connection(s)'
BY DEF Connection

\* What becomes of the books does not matter to a connection that is not open.
LEMMA NotYetOpen ==
  ASSUME NEW s, Connection(s), phase[s] \in {"free", "connecting"},
         phase'[s] \in {"free", "connecting"},
         requests'[s] = requests[s], inbox'[s] = inbox[s], serverSubs'[s] = serverSubs[s]
  PROVE  Connection(s)'
BY DEF Connection

\* A connection that closes leaves the messages it had delivered.
LEMMA Closing ==
  ASSUME NEW s, Connection(s), phase[s] \in Phases, phase'[s] = "closing",
         inbox'[s] = inbox[s], requests'[s] = requests[s] \/ requests'[s] = << >>,
         UNCHANGED <<pending, subs>>
  PROVE  Connection(s)'
<1>1. SUFFICES \E truth : Told(requests'[s], inbox'[s], pending, subs, truth)
  BY DEF Connection
<1>2. CASE phase[s] \in {"free", "connecting"}
  <2>1. DOMAIN requests'[s] = {} /\ DOMAIN inbox'[s] = {}
    BY <1>2 DEF Connection
  <2> QED
    BY <2>1, NothingTold
<1>3. CASE phase[s] \in {"open", "closing"}
  <2>1. PICK truth : Told(requests[s], inbox[s], pending, subs, truth)
    BY <1>3 DEF Connection
  <2>2. Told(<< >>, inbox[s], pending, subs, truth)
    BY <2>1 DEF Told
  <2> QED
    BY <2>1, <2>2
<1> QED
  BY <1>2, <1>3 DEF Phases

\* Beside a live connection there is no other.
LEMMA Alone ==
  ASSUME IInv, ~early, NEW s \in Sockets, phase[s] # "free"
  PROVE  /\ \A r \in Sockets \ {s} : phase[r] = "free"
         /\ ws \in {s, NoSocket}
BY DEF IInv, Single, LifecycleTypes, Live, Free

\* A key is asked for on the connection, if there is one.
LEMMA SubscribeTells ==
  ASSUME IInv, ~early, \A s \in Sockets : Connection(s), NEW k \in Keys, Subscribe(k),
         NEW s \in Sockets
  PROVE  Connection(s)'
<1>1. FlushIf(ws, wanted', pending, subs) /\ UNCHANGED <<ws, phase, inbox, serverSubs>>
  BY DEF Subscribe
<1>2. Book(wanted', pending, subs, nextId)
  BY FS_AddElement DEF Subscribe, IInv, Books, Book
<1>3. CASE ~Open(ws)
  BY <1>1, <1>3, Untouched DEF FlushIf, NoFlush
<1>4. CASE Open(ws)
  <2>1. ws \in Sockets /\ phase[ws] = "open" /\ FlushSubscribes(ws, wanted', pending, subs)
    BY <1>1, <1>4 DEF Open, FlushIf, IInv, LifecycleTypes
  <2>2. /\ requests \in [Sockets -> Seq(Request)]
        /\ \A r \in Sockets \ {ws} : requests'[r] = requests[r]
    BY <1>2, <2>1, FlushKeeps DEF IInv, NetworkTypes
  <2>3. CASE s = ws
    <3>1. Told(requests[ws], inbox[ws], pending, subs, serverSubs[ws])
      BY <2>1 DEF Connection
    <3>2. Told(requests'[ws], inbox[ws], pending', subs', serverSubs[ws])
      BY <1>2, <2>1, <2>2, <3>1, ToldFlush
    <3> QED
      BY <1>1, <2>1, <2>3, <3>2 DEF Connection
  <2>4. CASE s # ws
    <3>1. phase[s] = "free" /\ requests'[s] = requests[s]
      BY <2>1, <2>2, <2>4, Alone
    <3> QED
      BY <1>1, <3>1, NotYetOpen
  <2> QED
    BY <2>3, <2>4
<1> QED
  BY <1>3, <1>4

\* A connection that opens starts from empty maps.
LEMMA OpenedTells ==
  ASSUME IInv, ~early, \A s \in Sockets : Connection(s), NEW r \in Sockets, Opened(r),
         NEW s \in Sockets
  PROVE  Connection(s)'
<1>1. /\ phase[r] = "connecting" /\ phase' = [phase EXCEPT ![r] = "open"]
      /\ UNCHANGED <<ws, serverSubs, inbox>>
      /\ requests \in [Sockets -> Seq(Request)] /\ phase \in [Sockets -> Phases]
  BY DEF Opened, IInv, NetworkTypes, LifecycleTypes
<1>2. Book(wanted, Empty, Empty, nextId)
  BY DEF IInv, Books, Book, Empty, KeyOnce
<1>3. /\ \A x \in Sockets \ {r} : phase[x] = "free"
      /\ ws \in {r, NoSocket}
  BY <1>1, Alone
<1>4. \/ FlushSubscribes(r, wanted, Empty, Empty)
      \/ pending' = Empty /\ subs' = Empty /\ requests' = requests
  BY <1>3 DEF Opened, FlushIf, NoFlush, Open, PendingCleared
<1>5. \A x \in Sockets \ {r} : requests'[x] = requests[x]
  BY <1>1, <1>2, <1>4, FlushKeeps
<1>6. CASE s = r
  <2>1. requests[r] = << >> /\ inbox[r] = << >> /\ serverSubs[r] = Empty
    BY <1>1 DEF Connection
  <2>2. Told(requests[r], inbox[r], Empty, Empty, Empty)
    BY <2>1, NothingTold
  <2>3. Told(requests'[r], inbox[r], pending', subs', Empty)
    BY <1>1, <1>2, <1>4, <2>2, ToldFlush
  <2>4. phase'[r] = "open" /\ serverSubs'[r] = Empty /\ inbox'[r] = inbox[r]
    BY <1>1, <2>1
  <2> QED
    BY <1>6, <2>3, <2>4 DEF Connection
<1>7. CASE s # r
  <2>1. /\ phase[s] = "free" /\ phase'[s] = "free" /\ requests'[s] = requests[s]
        /\ inbox'[s] = inbox[s] /\ serverSubs'[s] = serverSubs[s]
    BY <1>1, <1>3, <1>5, <1>7
  <2> QED
    BY <2>1, NotYetOpen
<1> QED
  BY <1>6, <1>7

\* The manager reads on the only connection that there is.
LEMMA ReceiveTells ==
  ASSUME IInv, ~early, \A s \in Sockets : Connection(s), NEW r \in Sockets, Receive(r),
         NEW s \in Sockets
  PROVE  Connection(s)'
<1>1. /\ phase[r] \in {"open", "closing"} /\ inbox[r] # << >>
      /\ inbox' = [inbox EXCEPT ![r] = Tail(@)]
      /\ Answered(Head(inbox[r])) \/ Notified(Head(inbox[r]))
      /\ UNCHANGED <<phase, requests, serverSubs>>
      /\ inbox \in [Sockets -> Seq(Message)]
  BY DEF Receive, IInv, NetworkTypes
<1>2. CASE s = r
  <2>1. PICK truth : /\ Told(requests[r], inbox[r], pending, subs, truth)
                     /\ phase[r] = "open" => truth = serverSubs[r]
    BY <1>1 DEF Connection
  <2>2. Told(requests[r], Tail(inbox[r]), pending', subs', truth)
    BY <1>1, <2>1, ToldReceive
  <2>3. inbox'[r] = Tail(inbox[r])
    BY <1>1
  <2> QED
    BY <1>1, <1>2, <2>1, <2>2, <2>3 DEF Connection
<1>3. CASE s # r
  <2>1. phase[s] = "free" /\ inbox'[s] = inbox[s]
    BY <1>1, <1>3, Alone
  <2> QED
    BY <1>1, <2>1, NotYetOpen
<1> QED
  BY <1>2, <1>3

\* The server answers on the connection a request came from.
LEMMA AnswerTells ==
  ASSUME IInv, \A s \in Sockets : Connection(s), NEW r \in Sockets, Accept(r) \/ Refuse(r),
         NEW s \in Sockets
  PROVE  Connection(s)'
<1>1. /\ r # NoSocket /\ phase[r] = "open" /\ requests[r] # << >>
      /\ requests[r] \in Seq(Request) /\ inbox[r] \in Seq(Message)
      /\ requests'[r] = Tail(requests[r])
      /\ UNCHANGED <<phase, pending, subs>>
      /\ DOMAIN serverSubs = Sockets
  BY DEF Accept, Refuse, Open, manager, book, IInv, NetworkTypes
<1>2. /\ \A x \in Sockets \ {r} : requests'[x] = requests[x] /\ inbox'[x] = inbox[x]
      /\ \A x \in Sockets \ {r} : serverSubs'[x] = serverSubs[x]
  BY DEF Accept, Refuse, IInv, NetworkTypes
<1>3. CASE s # r
  BY <1>1, <1>2, <1>3, Untouched
<1>4. CASE s = r
  <2>1. Told(requests[r], inbox[r], pending, subs, serverSubs[r])
    BY <1>1 DEF Connection
  <2>2. Told(requests'[r], inbox'[r], pending, subs, serverSubs'[r])
    <3>1. CASE Accept(r)
      <4> DEFINE n == UnusedSub(r)
                 req == Head(requests[r])
      <4>1. n \notin DOMAIN serverSubs[r]
        BY NextSubscription DEF IInv
      <4>2. /\ serverSubs'[r] = With(serverSubs[r], n, req.key)
            /\ inbox'[r] = Append(inbox[r], [type |-> "ack", id |-> req.id, sub |-> n])
        BY <3>1 DEF Accept, IInv, NetworkTypes
      <4> HIDE DEF n
      <4> QED
        BY <1>1, <2>1, <4>1, <4>2, ToldAccept
    <3>2. CASE Refuse(r)
      <4>1. /\ serverSubs'[r] = serverSubs[r]
            /\ inbox'[r] = Append(inbox[r], [type |-> "error", id |-> Head(requests[r]).id])
        BY <3>2 DEF Refuse, IInv, NetworkTypes
      <4> QED
        BY <1>1, <2>1, <4>1, ToldRefuse
    <3> QED
      BY <3>1, <3>2
  <2> QED
    BY <1>1, <1>4, <2>2 DEF Connection
<1> QED
  BY <1>3, <1>4

\* A change adds notifications of it to the inboxes of those subscribed to it.
LEMMA NewsArrives ==
  ASSUME IInv, NEW k \in Keys, NEW content \in Contents, Update(k, content), NEW s \in Sockets
  PROVE  /\ UNCHANGED <<phase, pending, subs, requests, serverSubs>>
         /\ inbox[s] \in Seq(Message) /\ inbox'[s] \in Seq(Message)
         /\ \A i \in DOMAIN inbox[s] : i \in DOMAIN inbox'[s] /\ inbox'[s][i] = inbox[s][i]
         /\ \A i \in DOMAIN inbox'[s] : i \notin DOMAIN inbox[s] =>
              /\ inbox'[s][i].type = "notification" /\ inbox'[s][i].key = k
              /\ Open(s) /\ inbox'[s][i].sub \in DOMAIN serverSubs[s]
              /\ serverSubs[s][inbox'[s][i].sub] = k
<1> DEFINE told == {n \in DOMAIN serverSubs[s] : Open(s) /\ serverSubs[s][n] = k}
           news == [i \in 1..Cardinality(told) |->
                      [type |-> "notification", sub |-> SetToSeq(told)[i],
                       content |-> content, key |-> k]]
<1>1. inbox'[s] = inbox[s] \o news /\ UNCHANGED <<phase, pending, subs, requests, serverSubs>>
  BY DEF Update, manager, book
<1>2. told \subseteq Nat /\ IsFiniteSet(told)
  BY FS_Subset DEF IInv, NetworkTypes
<1>3. Cardinality(told) \in Nat /\ SetToSeq(told) \in [1..Cardinality(told) -> told]
  BY <1>2, Listing, FS_CardinalityType
<1>4. /\ news \in Seq(Message) /\ Len(news) = Cardinality(told)
      /\ \A i \in 1..Cardinality(told) :
           news[i].type = "notification" /\ news[i].sub \in told /\ news[i].key = k
  <2> HIDE DEF told
  <2>1. \A i \in 1..Cardinality(told) :
          [type |-> "notification", sub |-> SetToSeq(told)[i], content |-> content, key |-> k]
            \in Message
    BY <1>2, <1>3 DEF Message
  <2> QED
    BY <1>3, <2>1
<1>5. \A n \in told : Open(s) /\ n \in DOMAIN serverSubs[s] /\ serverSubs[s][n] = k
  OBVIOUS
<1> HIDE DEF told, news
<1>6. /\ inbox[s] \in Seq(Message) /\ inbox'[s] \in Seq(Message)
      /\ DOMAIN inbox[s] = 1..Len(inbox[s]) /\ Len(inbox[s]) \in Nat
      /\ DOMAIN inbox'[s] = 1..(Len(inbox[s]) + Cardinality(told))
      /\ \A i \in 1..Cardinality(told) : inbox'[s][Len(inbox[s]) + i] = news[i]
      /\ \A i \in DOMAIN inbox[s] : inbox'[s][i] = inbox[s][i]
  <2>1. inbox[s] \in Seq(Message)
    BY DEF IInv, NetworkTypes
  <2> QED
    BY <1>1, <1>4, <2>1, Concatenation
<1>7. \A i \in DOMAIN inbox'[s] : i \notin DOMAIN inbox[s] =>
        /\ inbox'[s][i].type = "notification" /\ inbox'[s][i].sub \in told
        /\ inbox'[s][i].key = k
  <2> DEFINE old == Len(inbox[s])
  <2>1. \A i \in DOMAIN inbox'[s] : i \notin DOMAIN inbox[s] =>
          i - old \in 1..Cardinality(told) /\ old + (i - old) = i
    BY <1>3, <1>6
  <2> QED
    BY <1>4, <1>6, <2>1
<1>8. \A i \in DOMAIN inbox[s] : i \in DOMAIN inbox'[s] /\ inbox'[s][i] = inbox[s][i]
  BY <1>3, <1>6
<1> QED
  BY <1>1, <1>5, <1>6, <1>7, <1>8

\* A change is told to the connections subscribed to it, and to no other.
LEMMA UpdateTells ==
  ASSUME IInv, \A s \in Sockets : Connection(s), NEW k \in Keys, NEW content \in Contents,
         Update(k, content), NEW s \in Sockets
  PROVE  Connection(s)'
<1>1. /\ UNCHANGED <<phase, pending, subs, requests, serverSubs>>
      /\ inbox[s] \in Seq(Message) /\ inbox'[s] \in Seq(Message)
      /\ \A i \in DOMAIN inbox[s] : i \in DOMAIN inbox'[s] /\ inbox'[s][i] = inbox[s][i]
      /\ \A i \in DOMAIN inbox'[s] : i \notin DOMAIN inbox[s] =>
           /\ inbox'[s][i].type = "notification" /\ inbox'[s][i].key = k
           /\ Open(s) /\ inbox'[s][i].sub \in DOMAIN serverSubs[s]
           /\ serverSubs[s][inbox'[s][i].sub] = k
  BY NewsArrives
<1>2. CASE phase[s] \in {"open", "closing"}
  <2>1. PICK truth : /\ Told(requests[s], inbox[s], pending, subs, truth)
                     /\ phase[s] = "open" => truth = serverSubs[s]
    BY <1>2 DEF Connection
  <2>2. \A i \in DOMAIN inbox'[s] : i \notin DOMAIN inbox[s] =>
          /\ inbox'[s][i].type = "notification" /\ inbox'[s][i].sub \in DOMAIN truth
          /\ inbox'[s][i].key = truth[inbox'[s][i].sub]
    BY <1>1, <2>1 DEF Open
  <2>3. Told(requests[s], inbox'[s], pending, subs, truth)
    BY <1>1, <2>1, <2>2, ToldNews
  <2> QED
    BY <1>1, <1>2, <2>1, <2>3 DEF Connection
<1>3. CASE phase[s] \in {"free", "connecting"}
  <2>1. inbox[s] = << >> /\ DOMAIN inbox'[s] = {}
    BY <1>1, <1>3 DEF Open, Connection
  <2>2. inbox'[s] = << >>
    <3>1. inbox'[s] \in Seq(Message)
      BY <1>1
    <3>2. DOMAIN inbox'[s] = 1..Len(inbox'[s]) /\ Len(inbox'[s]) \in Nat
      BY <3>1
    <3>3. 1 \notin DOMAIN inbox'[s]
      BY <2>1
    <3>4. Len(inbox'[s]) = 0
      BY <3>2, <3>3
    <3> QED
      BY <3>1, <3>4
  <2> QED
    BY <1>1, <1>3, <2>1, <2>2, NotYetOpen
<1> QED
  BY <1>2, <1>3 DEF IInv, LifecycleTypes, Phases

\* Every step keeps the connections truthful: one action, one lemma.
LEMMA AttributionStep ==
  ASSUME IInv, Attributed, [Next]_vars
  PROVE  Attributed'
<1> SUFFICES ASSUME ~early', NEW s \in Sockets PROVE Connection(s)'
  BY DEF Attributed
<1>1. ~early
  BY DEF Next, Act, Start, Stop, StartTimeout, Shutdown, Retry, Subscribe, Opened, OpenedLate,
         CloseEvent, Receive, Drop, Accept, Refuse, Update, vars
<1>2. \A r \in Sockets : Connection(r)
  BY <1>1 DEF Attributed
<1>3. phase \in [Sockets -> Phases]
  BY DEF IInv, LifecycleTypes
<1>4. ASSUME UNCHANGED <<phase, requests, inbox, serverSubs, pending, subs>> PROVE Connection(s)'
  BY <1>2, <1>4, Untouched
<1>5. ASSUME OpenSocket, UNCHANGED book PROVE Connection(s)'
  <2> DEFINE r == CHOOSE r \in Free : TRUE
  <2>1. r \in Sockets /\ phase[r] = "free" /\ phase' = [phase EXCEPT ![r] = "connecting"]
    BY <1>5 DEF OpenSocket, Free
  <2>2. UNCHANGED <<requests, inbox, serverSubs, pending, subs>>
    BY <1>5 DEF OpenSocket, book
  <2> HIDE DEF r
  <2>3. CASE s = r
    BY <1>2, <1>3, <2>1, <2>2, <2>3, NotYetOpen
  <2>4. CASE s # r
    BY <1>2, <1>3, <2>1, <2>2, <2>4, Untouched
  <2> QED
    BY <2>3, <2>4
<1>6. ASSUME NEW r \in Sockets, phase'[r] = "closing",
             \A x \in Sockets \ {r} : /\ phase'[x] = phase[x] /\ requests'[x] = requests[x]
                                      /\ serverSubs'[x] = serverSubs[x],
             requests'[r] = requests[r] \/ requests'[r] = << >>,
             UNCHANGED <<inbox, pending, subs>>
      PROVE  Connection(s)'
  <2>1. CASE s = r
    BY <1>2, <1>3, <1>6, <2>1, Closing
  <2>2. CASE s # r
    BY <1>2, <1>6, <2>2, Untouched
  <2> QED
    BY <2>1, <2>2
<1>7. CASE Start
  BY <1>5, <1>7 DEF Start
<1>8. CASE Retry
  <2>1. UNCHANGED <<ws, network>> => UNCHANGED <<phase, requests, inbox, serverSubs>>
    BY DEF network
  <2>2. UNCHANGED book /\ UNCHANGED <<pending, subs>>
    BY <1>8 DEF Retry, book
  <2> QED
    BY <1>4, <1>5, <1>8, <2>1, <2>2 DEF Retry
<1>9. CASE Stop \/ StartTimeout
  <2>1. /\ phase' = IF ws = NoSocket THEN phase ELSE [phase EXCEPT ![ws] = "closing"]
        /\ UNCHANGED <<requests, inbox, serverSubs, pending, subs>>
    BY <1>9 DEF Stop, StartTimeout, Shutdown, book
  <2>2. CASE ws = NoSocket
    BY <1>4, <2>1, <2>2
  <2>3. CASE ws \in Sockets /\ ws # NoSocket
    BY <1>3, <1>6, <2>1, <2>3 DEF IInv, NetworkTypes
  <2> QED
    BY <2>2, <2>3 DEF IInv, LifecycleTypes
<1>10. ASSUME NEW r \in Sockets, OpenedLate(r) \/ Drop(r) PROVE Connection(s)'
  <2>1. /\ phase' = [phase EXCEPT ![r] = "closing"]
        /\ requests' = requests \/ requests' = [requests EXCEPT ![r] = << >>]
        /\ serverSubs' = serverSubs \/ serverSubs' = [serverSubs EXCEPT ![r] = Empty]
        /\ UNCHANGED <<inbox, pending, subs>>
    BY <1>10 DEF OpenedLate, Drop, manager, book
  <2>2. requests'[r] = requests[r] \/ requests'[r] = << >>
    BY <2>1 DEF IInv, NetworkTypes
  <2>3. \A x \in Sockets \ {r} : /\ phase'[x] = phase[x] /\ requests'[x] = requests[x]
                                 /\ serverSubs'[x] = serverSubs[x]
    BY <1>3, <2>1 DEF IInv, NetworkTypes
  <2> QED
    BY <1>3, <1>6, <2>1, <2>2, <2>3
<1>11. ASSUME NEW r \in Sockets, CloseEvent(r) PROVE Connection(s)'
  <2>1. /\ phase' = [phase EXCEPT ![r] = "free"]
        /\ requests' = [requests EXCEPT ![r] = << >>]
        /\ serverSubs' = [serverSubs EXCEPT ![r] = Empty]
        /\ inbox' = [inbox EXCEPT ![r] = << >>]
        /\ UNCHANGED <<pending, subs>>
    BY <1>11 DEF CloseEvent, book
  <2>2. CASE s = r
    <3>1. phase'[s] = "free" /\ requests'[s] = << >> /\ inbox'[s] = << >> /\ serverSubs'[s] = Empty
      BY <1>3, <2>1, <2>2 DEF IInv, NetworkTypes
    <3> QED
      BY <3>1 DEF Connection
  <2>3. CASE s # r
    <3>1. /\ phase'[s] = phase[s] /\ requests'[s] = requests[s] /\ inbox'[s] = inbox[s]
          /\ serverSubs'[s] = serverSubs[s]
      BY <1>3, <2>1, <2>3 DEF IInv, NetworkTypes
    <3> QED
      BY <1>2, <2>1, <3>1, Untouched
  <2> QED
    BY <2>2, <2>3
<1>12. CASE UNCHANGED vars
  BY <1>4, <1>12 DEF vars, network, book
<1> QED
  BY <1>1, <1>2, <1>7, <1>8, <1>9, <1>10, <1>11, <1>12, SubscribeTells, OpenedTells,
     ReceiveTells, AnswerTells, UpdateTells DEF Next, Act

-----------------------------------------------------------------------------
(* The open connection, whatever runs beside it.                           *)

\* The ids of the requests q and of the answers in b.
Ids(q, b) == {q[i].id : i \in DOMAIN q} \cup {b[i].id : i \in {j \in DOMAIN b : IsAnswer(b[j])}}

\* What is under way has been asked for, and nothing is before the opening.
Carried(s) ==
  /\ \A id \in Ids(requests[s], inbox[s]) : id < nextId
  /\ phase[s] \in {"free", "connecting"} =>
       requests[s] = << >> /\ inbox[s] = << >> /\ serverSubs[s] = Empty

\* All that the maps p and sb hold, and all they will learn from the requests
\* q and the messages b for ids they hold, is true.
Honest(q, b, p, sb, truth) ==
  /\ \A n \in DOMAIN sb : n \in DOMAIN truth /\ sb[n] = truth[n]
  /\ \A i \in DOMAIN q : q[i].id \in DOMAIN p => p[q[i].id] = q[i].key
  /\ \A i \in DOMAIN b : b[i].type = "ack" /\ b[i].id \in DOMAIN p =>
       b[i].sub \in DOMAIN truth /\ p[b[i].id] = truth[b[i].sub]
  /\ \A i \in DOMAIN b : b[i].type = "notification" =>
       b[i].sub \in DOMAIN truth /\ b[i].key = truth[b[i].sub]

\* No other connection carries an id that is pending.
Apart(r) == Ids(requests[r], inbox[r]) \cap DOMAIN pending = {}

HonestHere ==
  /\ Honest(requests[ws], inbox[ws], pending, subs, serverSubs[ws])
  /\ \A r \in Sockets \ {ws} : Apart(r)

Current == (\A s \in Sockets : Carried(s)) /\ (Open(ws) => HonestHere)

\* A flush leaves the maps honest, and its ids are those of no other request.
LEMMA FlushHonest ==
  ASSUME NEW s \in Sockets, NEW w, NEW p, NEW sb, Book(w, p, sb, nextId),
         requests \in [Sockets -> Seq(Request)], inbox \in [Sockets -> Seq(Message)],
         FlushSubscribes(s, w, p, sb),
         UNCHANGED <<inbox, serverSubs>>,
         \A r \in Sockets : \A id \in Ids(requests[r], inbox[r]) : id \in Nat /\ id < nextId,
         Honest(requests[s], inbox[s], p, sb, serverSubs[s]),
         \A r \in Sockets \ {s} : Ids(requests[r], inbox[r]) \cap DOMAIN p = {}
  PROVE  /\ \A r \in Sockets : \A id \in Ids(requests'[r], inbox'[r]) : id < nextId'
         /\ Honest(requests'[s], inbox'[s], pending', subs', serverSubs'[s])
         /\ \A r \in Sockets \ {s} : Apart(r)'
<1> DEFINE q == requests[s]
           q2 == requests'[s]
           b == inbox[s]
<1>1. /\ subs' = sb
      /\ \A id \in DOMAIN p : id \in DOMAIN pending' /\ pending'[id] = p[id]
      /\ \A i \in DOMAIN q2 : i \notin DOMAIN q =>
           /\ q2[i].id \in DOMAIN pending' /\ pending'[q2[i].id] = q2[i].key
  BY FlushAsks
<1>2. /\ \A r \in Sockets \ {s} : requests'[r] = requests[r]
      /\ \A i \in DOMAIN q : i \in DOMAIN q2 /\ q2[i] = q[i]
      /\ nextId' \in Nat /\ DOMAIN pending' \subseteq 1..(nextId' - 1)
  BY FlushKeeps DEF Book
<1>3. /\ nextId \in Nat /\ nextId' >= nextId
      /\ \A id \in DOMAIN pending' : id \in DOMAIN p \/ id >= nextId
  <2> DEFINE n == Len(SetToSeq(ToAsk(w, p, sb)))
  <2>1. n \in Nat /\ nextId \in Nat
    BY FS_Subset, Listing, FS_CardinalityType DEF Book, ToAsk
  <2>2. /\ nextId' = nextId + n
        /\ DOMAIN pending' = DOMAIN p \cup (nextId..(nextId + n - 1))
    BY DEF FlushSubscribes, IdAfter
  <2> HIDE DEF n
  <2> QED
    BY <2>1, <2>2
<1> HIDE DEF q, q2, b
<1>4. \A id \in Nat : id < nextId /\ id \in DOMAIN pending' => id \in DOMAIN p
  BY <1>3
<1>5. /\ \A i \in DOMAIN q : q[i].id \in Nat /\ q[i].id < nextId
      /\ \A i \in DOMAIN b : b[i].type = "ack" => b[i].id \in Nat /\ b[i].id < nextId
  BY DEF Ids, IsAnswer, q, b
<1>6. Honest(q, b, p, sb, serverSubs[s])
  BY DEF q, b
<1>7. \A i \in DOMAIN q2 : q2[i].id \in DOMAIN pending' => pending'[q2[i].id] = q2[i].key
  <2> SUFFICES ASSUME NEW i \in DOMAIN q, q[i].id \in DOMAIN pending'
               PROVE  pending'[q[i].id] = q[i].key
    BY <1>1, <1>2
  <2>1. q[i].id \in DOMAIN p
    BY <1>4, <1>5
  <2> QED
    BY <1>1, <1>6, <2>1 DEF Honest
<1>8. \A i \in DOMAIN b : b[i].type = "ack" /\ b[i].id \in DOMAIN pending' =>
        b[i].sub \in DOMAIN serverSubs[s] /\ pending'[b[i].id] = serverSubs[s][b[i].sub]
  <2> SUFFICES ASSUME NEW i \in DOMAIN b, b[i].type = "ack", b[i].id \in DOMAIN pending'
               PROVE  b[i].sub \in DOMAIN serverSubs[s] /\ pending'[b[i].id] = serverSubs[s][b[i].sub]
    OBVIOUS
  <2>1. b[i].id \in DOMAIN p
    BY <1>4, <1>5
  <2>2. b[i].sub \in DOMAIN serverSubs[s] /\ p[b[i].id] = serverSubs[s][b[i].sub]
    BY <1>6, <2>1 DEF Honest
  <2> QED
    BY <1>1, <2>1, <2>2
<1>9. Honest(q2, b, pending', subs', serverSubs[s])
  BY <1>1, <1>6, <1>7, <1>8 DEF Honest
<1>10. \A id \in Ids(q2, b) : id < nextId'
  <2>1. ASSUME NEW i \in DOMAIN q2 PROVE q2[i].id < nextId'
    <3>1. CASE i \in DOMAIN q
      <4>1. q2[i].id \in Nat /\ q2[i].id < nextId
        BY <1>2, <1>5, <3>1
      <4> QED
        BY <1>2, <1>3, <4>1
    <3>2. CASE i \notin DOMAIN q
      <4>1. q2[i].id \in 1..(nextId' - 1)
        BY <1>1, <1>2, <3>2
      <4> QED
        BY <1>2, <4>1
    <3> QED
      BY <3>1, <3>2
  <2>2. ASSUME NEW i \in DOMAIN b, IsAnswer(b[i]) PROVE b[i].id < nextId'
    <3>1. b[i].id \in Nat /\ b[i].id < nextId
      BY <2>2 DEF Ids, b
    <3> QED
      BY <1>2, <1>3, <3>1
  <2> QED
    BY <2>1, <2>2 DEF Ids
<1>11. ASSUME NEW r \in Sockets \ {s}
       PROVE  /\ \A id \in Ids(requests'[r], inbox'[r]) : id < nextId'
              /\ Ids(requests'[r], inbox'[r]) \cap DOMAIN pending' = {}
  <2>1. Ids(requests'[r], inbox'[r]) = Ids(requests[r], inbox[r])
    BY <1>2
  <2>2. \A id \in Ids(requests[r], inbox[r]) : id \in Nat /\ id < nextId /\ id \notin DOMAIN p
    OBVIOUS
  <2> QED
    BY <1>2, <1>3, <1>4, <2>1, <2>2
<1>12. \A r \in Sockets : \A id \in Ids(requests'[r], inbox'[r]) : id < nextId'
  <2>1. inbox'[s] = b /\ requests'[s] = q2
    BY DEF b, q2
  <2> QED
    BY <1>10, <1>11, <2>1
<1>13. Honest(requests'[s], inbox'[s], pending', subs', serverSubs'[s])
  BY <1>9 DEF q2, b
<1> QED
  BY <1>11, <1>12, <1>13 DEF Apart

\* What carries no new id stays carried.
LEMMA CarriedStays ==
  ASSUME NEW s, Carried(s), Ids(requests'[s], inbox'[s]) \subseteq Ids(requests[s], inbox[s]),
         nextId' = nextId,
         phase'[s] \in {"free", "connecting"} =>
           requests'[s] = << >> /\ inbox'[s] = << >> /\ serverSubs'[s] = Empty
  PROVE  Carried(s)'
BY DEF Carried

\* What leaves the books alone and at most takes from the connections.
LEMMA Elsewhere ==
  ASSUME Current, UNCHANGED book,
         \A s \in Sockets :
           /\ requests'[s] = requests[s] \/ requests'[s] = << >>
           /\ inbox'[s] = inbox[s] \/ inbox'[s] = << >>
           /\ phase'[s] \in {"free", "connecting"} =>
                requests'[s] = << >> /\ inbox'[s] = << >> /\ serverSubs'[s] = Empty,
         Open(ws)' => /\ Open(ws) /\ ws' = ws /\ requests'[ws] = requests[ws]
                      /\ inbox'[ws] = inbox[ws] /\ serverSubs'[ws] = serverSubs[ws]
  PROVE  Current'
<1>1. \A s \in Sockets : Ids(requests'[s], inbox'[s]) \subseteq Ids(requests[s], inbox[s])
  BY DEF Ids
<1>2. \A s \in Sockets : Carried(s)'
  BY <1>1, CarriedStays DEF Current, book
<1>3. ASSUME Open(ws)' PROVE HonestHere'
  <2>1. Open(ws) /\ ws' = ws /\ HonestHere /\ UNCHANGED <<pending, subs>>
    BY <1>3 DEF Current, book
  <2>2. Honest(requests'[ws], inbox'[ws], pending, subs, serverSubs'[ws])
    BY <1>3, <2>1 DEF HonestHere
  <2>3. \A r \in Sockets \ {ws} : Apart(r)'
    BY <1>1, <2>1 DEF HonestHere, Apart
  <2> QED
    BY <2>1, <2>2, <2>3 DEF HonestHere
<1> QED
  BY <1>2, <1>3 DEF Current

LEMMA IdsAreNumbers ==
  ASSUME NetworkTypes, NEW s \in Sockets
  PROVE  \A id \in Ids(requests[s], inbox[s]) : id \in Nat
<1>1. requests[s] \in Seq(Request) /\ inbox[s] \in Seq(Message)
  BY DEF NetworkTypes
<1>2. \A i \in DOMAIN requests[s] : requests[s][i].id \in Nat
  <2>1. \A i \in DOMAIN requests[s] : requests[s][i] \in Request
    BY <1>1
  <2>2. \A q \in Request : q.id \in Nat
    BY DEF Request
  <2> QED
    BY <2>1, <2>2
<1>3. \A i \in DOMAIN inbox[s] : inbox[s][i] \in Message
  BY <1>1
<1>4. \A m \in Message : IsAnswer(m) => m.id \in Nat
  BY DEF Message, IsAnswer
<1> QED
  BY <1>2, <1>3, <1>4 DEF Ids

\* Keys are asked for on the open connection only.
LEMMA SubscribeCurrent ==
  ASSUME IInv, Current, NEW k \in Keys, Subscribe(k)
  PROVE  Current'
<1>1. FlushIf(ws, wanted', pending, subs) /\ UNCHANGED <<ws, phase, inbox, serverSubs>>
  BY DEF Subscribe
<1>2. CASE Open(ws) /\ FlushSubscribes(ws, wanted', pending, subs)
  <2>1. Book(wanted', pending, subs, nextId) /\ ws \in Sockets /\ phase[ws] = "open"
    BY <1>2, FS_AddElement DEF Subscribe, IInv, Books, Book, LifecycleTypes, Open
  <2>2. /\ requests \in [Sockets -> Seq(Request)] /\ inbox \in [Sockets -> Seq(Message)]
        /\ \A r \in Sockets : \A id \in Ids(requests[r], inbox[r]) : id \in Nat /\ id < nextId
    BY IdsAreNumbers DEF IInv, NetworkTypes, Current, Carried
  <2>3. /\ Honest(requests[ws], inbox[ws], pending, subs, serverSubs[ws])
        /\ \A r \in Sockets \ {ws} : Ids(requests[r], inbox[r]) \cap DOMAIN pending = {}
    BY <1>2 DEF Current, HonestHere, Apart
  <2>4. /\ \A r \in Sockets : \A id \in Ids(requests'[r], inbox'[r]) : id < nextId'
        /\ Honest(requests'[ws], inbox'[ws], pending', subs', serverSubs'[ws])
        /\ \A r \in Sockets \ {ws} : Apart(r)'
    BY <1>1, <1>2, <2>1, <2>2, <2>3, FlushHonest
  <2>5. \A r \in Sockets \ {ws} : requests'[r] = requests[r]
    BY <1>2, <2>1, <2>2, FlushKeeps
  <2>6. \A r \in Sockets : phase'[r] \in {"free", "connecting"} =>
          requests'[r] = << >> /\ inbox'[r] = << >> /\ serverSubs'[r] = Empty
    BY <1>1, <2>1, <2>5 DEF Current, Carried
  <2>7. HonestHere'
    BY <1>1, <2>4 DEF HonestHere
  <2>8. \A r \in Sockets : Carried(r)'
    BY <2>4, <2>6 DEF Carried
  <2> QED
    BY <2>7, <2>8 DEF Current
<1>3. CASE ~Open(ws) /\ NoFlush(pending, subs)
  <2>1. UNCHANGED <<book, requests>> /\ ~Open(ws)'
    BY <1>1, <1>3 DEF NoFlush, book, Open
  <2> QED
    BY <1>1, <2>1, Elsewhere DEF Current, Carried
<1> QED
  BY <1>1, <1>2, <1>3 DEF FlushIf

\* Whatever connection opens, the maps start empty and are filled by requests
\* on the manager's own.
LEMMA OpenedCurrent ==
  ASSUME IInv, Current, NEW r \in Sockets, Opened(r)
  PROVE  Current'
<1>1. /\ phase[r] = "connecting" /\ phase' = [phase EXCEPT ![r] = "open"]
      /\ UNCHANGED <<ws, serverSubs, inbox>>
      /\ ws \in Sockets \cup {NoSocket} /\ phase \in [Sockets -> Phases]
      /\ requests \in [Sockets -> Seq(Request)] /\ inbox \in [Sockets -> Seq(Message)]
  BY DEF Opened, IInv, NetworkTypes, LifecycleTypes
<1>2. Book(wanted, Empty, Empty, nextId)
  BY DEF IInv, Books, Book, Empty, KeyOnce
<1>3. /\ \A x \in Sockets : \A id \in Ids(requests[x], inbox[x]) : id \in Nat /\ id < nextId
      /\ requests[r] = << >> /\ inbox[r] = << >> /\ serverSubs[r] = Empty
  BY <1>1, IdsAreNumbers DEF IInv, Current, Carried
<1>4. ASSUME ws \in Sockets, FlushSubscribes(ws, wanted, Empty, Empty), phase[ws] = "open" \/ ws = r
      PROVE  Current'
  <2>1. Honest(requests[ws], inbox[ws], Empty, Empty, serverSubs[ws])
    <3>1. CASE ws = r
      BY <1>3, <3>1 DEF Honest, Empty
    <3>2. CASE phase[ws] = "open"
      <4>1. Open(ws)
        BY <1>4, <3>2, BoundsAssumption DEF Open
      <4> QED
        BY <4>1 DEF Current, HonestHere, Honest, Empty
    <3> QED
      BY <1>4, <3>1, <3>2
  <2>2. \A x \in Sockets \ {ws} : Ids(requests[x], inbox[x]) \cap DOMAIN Empty = {}
    BY DEF Empty
  <2>3. /\ \A x \in Sockets : \A id \in Ids(requests'[x], inbox'[x]) : id < nextId'
        /\ Honest(requests'[ws], inbox'[ws], pending', subs', serverSubs'[ws])
        /\ \A x \in Sockets \ {ws} : Apart(x)'
    BY <1>1, <1>2, <1>3, <1>4, <2>1, <2>2, FlushHonest
  <2>4. \A x \in Sockets \ {ws} : requests'[x] = requests[x]
    BY <1>1, <1>2, <1>4, FlushKeeps
  <2>5. \A x \in Sockets : phase'[x] \in {"free", "connecting"} =>
          requests'[x] = << >> /\ inbox'[x] = << >> /\ serverSubs'[x] = Empty
    BY <1>1, <1>4, <2>4 DEF Current, Carried
  <2>6. HonestHere'
    BY <1>1, <2>3 DEF HonestHere
  <2>7. \A x \in Sockets : Carried(x)'
    BY <2>3, <2>5 DEF Carried
  <2> QED
    BY <2>6, <2>7 DEF Current
<1>5. ASSUME ws # r, ~Open(ws), NoFlush(Empty, Empty) PROVE Current'
  <2>1. ~Open(ws)'
    BY <1>1, <1>5 DEF Open
  <2>2. requests' = requests /\ nextId' = nextId
    BY <1>5 DEF NoFlush
  <2>3. \A x \in Sockets : Carried(x)'
    BY <1>1, <2>2, CarriedStays DEF Current, Carried
  <2> QED
    BY <2>1, <2>3 DEF Current
<1>6. \/ ws = r /\ FlushSubscribes(r, wanted, Empty, Empty)
      \/ ws # r /\ FlushIf(ws, wanted, Empty, Empty)
  BY DEF Opened, PendingCleared
<1> QED
  BY <1>1, <1>4, <1>5, <1>6 DEF FlushIf, Open

\* The manager learns only from the open connection, and only the truth.
LEMMA ReceiveCurrent ==
  ASSUME IInv, Current, NEW r \in Sockets, Receive(r)
  PROVE  Current'
<1> DEFINE b == inbox[r]
           m == b[1]
<1>1. /\ phase[r] \in {"open", "closing"} /\ b # << >> /\ b \in Seq(Message)
      /\ inbox' = [inbox EXCEPT ![r] = Tail(@)]
      /\ UNCHANGED <<ws, nextId, phase, requests, serverSubs>>
      /\ inbox \in [Sockets -> Seq(Message)]
  BY DEF Receive, IInv, NetworkTypes
<1>2. /\ 1 \in DOMAIN b /\ Head(b) = m
      /\ \A i \in DOMAIN Tail(b) : i + 1 \in DOMAIN b /\ Tail(b)[i] = b[i + 1]
  BY <1>1, Rest
<1>3. Answered(m) \/ Notified(m)
  BY <1>2 DEF Receive
<1>4. inbox'[r] = Tail(b) /\ \A x \in Sockets \ {r} : inbox'[x] = inbox[x]
  BY <1>1
<1> HIDE DEF b
<1>5. Ids(requests'[r], inbox'[r]) \subseteq Ids(requests[r], inbox[r])
  BY <1>1, <1>2, <1>4 DEF Ids, b
<1>6. \A x \in Sockets : Ids(requests'[x], inbox'[x]) \subseteq Ids(requests[x], inbox[x])
  BY <1>1, <1>4, <1>5
<1>7. \A x \in Sockets : Carried(x)'
  <2> SUFFICES ASSUME NEW x \in Sockets PROVE Carried(x)'
    OBVIOUS
  <2>1. phase'[x] \in {"free", "connecting"} => x # r /\ inbox'[x] = inbox[x]
    BY <1>1, <1>4
  <2> QED
    BY <1>1, <1>6, <2>1, CarriedStays DEF Current, Carried
<1>8. /\ DOMAIN pending' \subseteq DOMAIN pending
      /\ \A id \in DOMAIN pending' : pending'[id] = pending[id]
  BY <1>3 DEF Answered, Notified, Without
<1>9. ASSUME Open(ws)' PROVE HonestHere'
  <2>1. Open(ws) /\ HonestHere /\ ws' = ws /\ ws \in Sockets
    BY <1>1, <1>9 DEF Open, Current, IInv, LifecycleTypes
  <2>2. \A x \in Sockets \ {ws} : Apart(x)'
    BY <1>6, <1>8, <2>1 DEF HonestHere, Apart
  <2>3. CASE r = ws
    <3> DEFINE q == requests[ws]
               truth == serverSubs[ws]
    <3>1. Honest(q, b, pending, subs, truth)
      BY <2>1, <2>3 DEF HonestHere, b
    <3>2. \A n \in DOMAIN subs' : n \in DOMAIN truth /\ subs'[n] = truth[n]
      <4>1. CASE subs' = subs
        BY <3>1, <4>1 DEF Honest
      <4>2. CASE m.type = "ack" /\ m.id \in DOMAIN pending /\ subs' = With(subs, m.sub, pending[m.id])
        <5>1. m.sub \in DOMAIN truth /\ pending[m.id] = truth[m.sub]
          BY <1>2, <3>1, <4>2 DEF Honest
        <5> QED
          BY <3>1, <4>2, <5>1 DEF Honest, With
      <4> QED
        BY <1>3, <4>1, <4>2 DEF Answered, Notified
    <3> HIDE DEF q, truth
    <3>3. Honest(q, Tail(b), pending', subs', truth)
      BY <1>2, <1>8, <3>1, <3>2 DEF Honest
    <3>4. Honest(requests'[ws], inbox'[ws], pending', subs', serverSubs'[ws])
      BY <1>1, <1>4, <2>3, <3>3 DEF q, truth
    <3> QED
      BY <2>1, <2>2, <3>4 DEF HonestHere
  <2>4. CASE r # ws
    <3>1. IsAnswer(m) => m.id \notin DOMAIN pending
      <4>1. Ids(requests[r], inbox[r]) \cap DOMAIN pending = {}
        BY <2>1, <2>4 DEF HonestHere, Apart
      <4> QED
        BY <1>2, <4>1 DEF Ids, b
    <3>2. UNCHANGED <<pending, subs>>
      BY <1>3, <3>1 DEF Answered, Notified, IsAnswer
    <3> QED
      BY <1>1, <1>4, <2>1, <2>2, <2>4, <3>2 DEF HonestHere
  <2> QED
    BY <2>3, <2>4
<1> QED
  BY <1>7, <1>9 DEF Current

\* The server's answer names the subscription it made for the request.
LEMMA AnswerCurrent ==
  ASSUME IInv, Current, NEW r \in Sockets, Accept(r) \/ Refuse(r)
  PROVE  Current'
<1> DEFINE q == requests[r]
           b == inbox[r]
           b2 == inbox'[r]
           req == q[1]
           n == UnusedSub(r)
<1>1. /\ phase[r] = "open" /\ q # << >> /\ q \in Seq(Request) /\ b \in Seq(Message)
      /\ requests' = [requests EXCEPT ![r] = Tail(@)]
      /\ UNCHANGED <<phase, ws, pending, subs, nextId>>
      /\ DOMAIN serverSubs = Sockets
      /\ requests \in [Sockets -> Seq(Request)]
  BY DEF Accept, Refuse, Open, manager, book, IInv, NetworkTypes
<1>2. \A x \in Sockets \ {r} : /\ requests'[x] = requests[x] /\ inbox'[x] = inbox[x]
                               /\ serverSubs'[x] = serverSubs[x]
  BY DEF Accept, Refuse, IInv, NetworkTypes
<1>3. /\ 1 \in DOMAIN q /\ Head(q) = req
      /\ \A i \in DOMAIN Tail(q) : i + 1 \in DOMAIN q /\ Tail(q)[i] = q[i + 1]
  <2>1. /\ Len(q) \in Nat /\ Len(q) >= 1 /\ DOMAIN q = 1..Len(q) /\ Head(q) = req
        /\ DOMAIN Tail(q) = 1..(Len(q) - 1) /\ \A i \in 1..(Len(q) - 1) : Tail(q)[i] = q[i + 1]
    BY <1>1
  <2> HIDE DEF q
  <2> QED
    BY <2>1
<1>4. PICK answer :
        /\ b2 = Append(b, answer) /\ answer.id = req.id
        /\ \/ /\ answer.type = "ack" /\ answer.sub = n
              /\ serverSubs'[r] = With(serverSubs[r], n, req.key)
           \/ answer.type = "error" /\ serverSubs'[r] = serverSubs[r]
  <2>1. CASE Accept(r)
    <3>1. /\ serverSubs'[r] = With(serverSubs[r], n, req.key)
          /\ b2 = Append(b, [type |-> "ack", id |-> req.id, sub |-> n])
      BY <1>3, <2>1 DEF Accept, IInv, NetworkTypes
    <3> HIDE DEF n, req, b, b2
    <3> QED
      BY <3>1
  <2>2. CASE Refuse(r)
    <3>1. /\ serverSubs'[r] = serverSubs[r]
          /\ b2 = Append(b, [type |-> "error", id |-> req.id])
      BY <1>3, <2>2 DEF Refuse, IInv, NetworkTypes
    <3> HIDE DEF n, req, b, b2
    <3> QED
      BY <3>1
  <2> QED
    BY <2>1, <2>2
<1>5. n \notin DOMAIN serverSubs[r]
  BY NextSubscription DEF IInv
<1>6. /\ Len(b) \in Nat /\ DOMAIN b = 1..Len(b) /\ DOMAIN b2 = 1..(Len(b) + 1)
      /\ b2[Len(b) + 1] = answer /\ \A i \in DOMAIN b : b2[i] = b[i]
  BY <1>1, <1>4
<1>7. requests'[r] = Tail(q)
  BY <1>1
<1> HIDE DEF q, b, b2, n, req
<1>8. \A i \in DOMAIN b2 : (i \in DOMAIN b /\ b2[i] = b[i]) \/ b2[i] = answer
  BY <1>6
<1>9. Ids(Tail(q), b2) \subseteq Ids(q, b)
  <2>1. \A i \in DOMAIN Tail(q) : Tail(q)[i].id \in Ids(q, b)
    BY <1>3 DEF Ids
  <2>2. answer.id \in Ids(q, b)
    BY <1>3, <1>4 DEF Ids, req
  <2>3. \A i \in DOMAIN b2 : IsAnswer(b2[i]) => b2[i].id \in Ids(q, b)
    BY <1>8, <2>2 DEF Ids
  <2> QED
    BY <2>1, <2>3 DEF Ids
<1>10. \A x \in Sockets : Ids(requests'[x], inbox'[x]) \subseteq Ids(requests[x], inbox[x])
  BY <1>2, <1>7, <1>9 DEF q, b, b2
<1>11. \A x \in Sockets : Carried(x)'
  <2> SUFFICES ASSUME NEW x \in Sockets PROVE Carried(x)'
    OBVIOUS
  <2>1. phase'[x] \in {"free", "connecting"} =>
          /\ x # r /\ requests'[x] = requests[x] /\ inbox'[x] = inbox[x]
          /\ serverSubs'[x] = serverSubs[x]
    BY <1>1, <1>2
  <2> QED
    BY <1>1, <1>10, <2>1, CarriedStays DEF Current, Carried
<1>12. ASSUME Open(ws)' PROVE HonestHere'
  <2>1. Open(ws) /\ HonestHere /\ ws' = ws /\ ws \in Sockets
    BY <1>1, <1>12 DEF Open, Current, IInv, LifecycleTypes
  <2>2. \A x \in Sockets \ {ws} : Apart(x)'
    BY <1>1, <1>10, <2>1 DEF HonestHere, Apart
  <2>3. CASE r # ws
    BY <1>1, <1>2, <2>1, <2>2, <2>3 DEF HonestHere
  <2>4. CASE r = ws
    <3> DEFINE truth == serverSubs[r]
               truth2 == serverSubs'[r]
    <3>1. Honest(q, b, pending, subs, truth)
      BY <2>1, <2>4 DEF HonestHere, q, b
    <3>2. \A k \in DOMAIN truth : k \in DOMAIN truth2 /\ truth2[k] = truth[k]
      BY <1>4, <1>5 DEF With
    <3>3. answer.type = "ack" => answer.sub \in DOMAIN truth2 /\ truth2[answer.sub] = req.key
      BY <1>4 DEF With
    <3> HIDE DEF truth, truth2
    <3>4. answer.type = "ack" /\ answer.id \in DOMAIN pending => pending[answer.id] = req.key
      BY <1>3, <1>4, <3>1 DEF Honest, req
    <3>5. \A i \in DOMAIN Tail(q) : Tail(q)[i].id \in DOMAIN pending =>
            pending[Tail(q)[i].id] = Tail(q)[i].key
      BY <1>3, <3>1 DEF Honest
    <3>6. \A i \in DOMAIN b2 : b2[i].type = "ack" /\ b2[i].id \in DOMAIN pending =>
            b2[i].sub \in DOMAIN truth2 /\ pending[b2[i].id] = truth2[b2[i].sub]
      <4> SUFFICES ASSUME NEW i \in DOMAIN b2, b2[i].type = "ack", b2[i].id \in DOMAIN pending
                   PROVE  b2[i].sub \in DOMAIN truth2 /\ pending[b2[i].id] = truth2[b2[i].sub]
        OBVIOUS
      <4>1. CASE i \in DOMAIN b /\ b2[i] = b[i]
        BY <3>1, <3>2, <4>1 DEF Honest
      <4>2. CASE b2[i] = answer
        BY <3>3, <3>4, <4>2
      <4> QED
        BY <1>8, <4>1, <4>2
    <3>7. \A i \in DOMAIN b2 : b2[i].type = "notification" =>
            b2[i].sub \in DOMAIN truth2 /\ b2[i].key = truth2[b2[i].sub]
      BY <1>4, <1>8, <3>1, <3>2 DEF Honest
    <3>8. Honest(Tail(q), b2, pending, subs, truth2)
      BY <3>1, <3>2, <3>5, <3>6, <3>7 DEF Honest
    <3>9. Honest(requests'[ws], inbox'[ws], pending', subs', serverSubs'[ws])
      BY <1>1, <1>7, <2>4, <3>8 DEF truth2, b2
    <3> QED
      BY <2>1, <2>2, <3>9 DEF HonestHere
  <2> QED
    BY <2>3, <2>4
<1> QED
  BY <1>11, <1>12 DEF Current

\* A change is told under the subscriptions the server has for its key.
LEMMA UpdateCurrent ==
  ASSUME IInv, Current, NEW k \in Keys, NEW content \in Contents, Update(k, content)
  PROVE  Current'
<1>1. /\ UNCHANGED <<ws, nextId, phase, pending, subs, requests, serverSubs>>
      /\ ws \in Sockets \cup {NoSocket}
  BY DEF Update, manager, book, IInv, LifecycleTypes
<1>2. ASSUME NEW s \in Sockets
      PROVE  /\ inbox[s] \in Seq(Message) /\ inbox'[s] \in Seq(Message)
             /\ \A i \in DOMAIN inbox[s] : i \in DOMAIN inbox'[s] /\ inbox'[s][i] = inbox[s][i]
             /\ \A i \in DOMAIN inbox'[s] : i \notin DOMAIN inbox[s] =>
                  /\ inbox'[s][i].type = "notification" /\ inbox'[s][i].key = k
                  /\ Open(s) /\ inbox'[s][i].sub \in DOMAIN serverSubs[s]
                  /\ serverSubs[s][inbox'[s][i].sub] = k
  BY NewsArrives
<1>3. ASSUME NEW s \in Sockets
      PROVE  Ids(requests'[s], inbox'[s]) \subseteq Ids(requests[s], inbox[s])
  BY <1>1, <1>2 DEF Ids, IsAnswer
<1>4. ASSUME NEW s \in Sockets PROVE Carried(s)'
  <2>1. CASE phase[s] \in {"free", "connecting"}
    <3>1. inbox[s] = << >> /\ requests[s] = << >> /\ serverSubs[s] = Empty
      BY <2>1 DEF Current, Carried
    <3>2. DOMAIN inbox'[s] = {}
      BY <1>2, <2>1, <3>1 DEF Open
    <3>3. Len(inbox'[s]) = 0
      BY <1>2, <3>2
    <3>4. inbox'[s] = << >>
      BY <1>2, <3>3
    <3> QED
      BY <1>1, <1>3, <3>1, <3>4, CarriedStays DEF Current
  <2>2. CASE phase[s] \notin {"free", "connecting"}
    BY <1>1, <1>3, <2>2, CarriedStays DEF Current
  <2> QED
    BY <2>1, <2>2
<1>5. ASSUME Open(ws)' PROVE HonestHere'
  <2>1. Open(ws) /\ HonestHere /\ ws \in Sockets
    BY <1>1, <1>5 DEF Open, Current
  <2>2. \A x \in Sockets \ {ws} : Apart(x)'
    BY <1>1, <1>3, <2>1 DEF HonestHere, Apart
  <2>3. Honest(requests[ws], inbox[ws], pending, subs, serverSubs[ws])
    BY <2>1 DEF HonestHere
  <2>4. \A i \in DOMAIN inbox'[ws] : inbox'[ws][i].type # "notification" =>
          i \in DOMAIN inbox[ws] /\ inbox'[ws][i] = inbox[ws][i]
    BY <1>2, <2>1
  <2>5. \A i \in DOMAIN inbox'[ws] : inbox'[ws][i].type = "notification" =>
          /\ inbox'[ws][i].sub \in DOMAIN serverSubs[ws]
          /\ inbox'[ws][i].key = serverSubs[ws][inbox'[ws][i].sub]
    BY <1>2, <2>1, <2>3 DEF Honest
  <2>6. Honest(requests[ws], inbox'[ws], pending, subs, serverSubs[ws])
    BY <2>3, <2>4, <2>5 DEF Honest
  <2> QED
    BY <1>1, <2>1, <2>2, <2>6 DEF HonestHere
<1> QED
  BY <1>4, <1>5 DEF Current

LEMMA CurrentStep ==
  ASSUME IInv, Current, [Next]_vars
  PROVE  Current'
<1>1. /\ phase \in [Sockets -> Phases] /\ ws \in Sockets \cup {NoSocket}
      /\ requests \in [Sockets -> Seq(Request)] /\ inbox \in [Sockets -> Seq(Message)]
      /\ DOMAIN serverSubs = Sockets
      /\ \A s \in Sockets : phase[s] \in {"free", "connecting"} =>
           requests[s] = << >> /\ inbox[s] = << >> /\ serverSubs[s] = Empty
  BY DEF IInv, LifecycleTypes, NetworkTypes, Current, Carried
<1>2. ASSUME OpenSocket, UNCHANGED book PROVE Current'
  <2> DEFINE r == CHOOSE r \in Free : TRUE
  <2>1. /\ r \in Sockets /\ phase[r] = "free" /\ phase' = [phase EXCEPT ![r] = "connecting"]
        /\ ws' = r /\ UNCHANGED <<requests, inbox, serverSubs>>
    BY <1>2 DEF OpenSocket, Free
  <2> HIDE DEF r
  <2>2. ~Open(ws)'
    BY <1>1, <2>1 DEF Open
  <2>3. \A s \in Sockets : phase'[s] \in {"free", "connecting"} => phase[s] \in {"free", "connecting"}
    BY <1>1, <2>1
  <2> QED
    BY <1>1, <1>2, <2>1, <2>2, <2>3, Elsewhere
<1>3. ASSUME UNCHANGED <<ws, network, book>> PROVE Current'
  <2>1. UNCHANGED <<phase, requests, inbox, serverSubs>>
    BY <1>3 DEF network
  <2> QED
    BY <1>1, <1>3, <2>1, Elsewhere DEF Open
<1>4. CASE Start
  BY <1>2, <1>4 DEF Start
<1>5. CASE Retry
  BY <1>2, <1>3, <1>5 DEF Retry
<1>6. CASE Stop \/ StartTimeout
  <2>1. /\ ws' = NoSocket
        /\ phase' = IF ws = NoSocket THEN phase ELSE [phase EXCEPT ![ws] = "closing"]
        /\ UNCHANGED <<requests, inbox, serverSubs, book>>
    BY <1>6 DEF Stop, StartTimeout, Shutdown
  <2>2. ~Open(ws)'
    BY <2>1 DEF Open
  <2>3. \A s \in Sockets : phase'[s] \in {"free", "connecting"} => phase[s] \in {"free", "connecting"}
    BY <1>1, <2>1
  <2> QED
    BY <1>1, <2>1, <2>2, <2>3, Elsewhere
<1>7. ASSUME NEW r \in Sockets, OpenedLate(r) \/ Drop(r) PROVE Current'
  <2>1. /\ phase' = [phase EXCEPT ![r] = "closing"]
        /\ requests' = requests \/ requests' = [requests EXCEPT ![r] = << >>]
        /\ serverSubs' = serverSubs \/ serverSubs' = [serverSubs EXCEPT ![r] = Empty]
        /\ UNCHANGED <<ws, inbox, book>>
    BY <1>7 DEF OpenedLate, Drop, manager
  <2>2. \A s \in Sockets \ {r} : /\ phase'[s] = phase[s] /\ requests'[s] = requests[s]
                                 /\ serverSubs'[s] = serverSubs[s]
    BY <1>1, <2>1
  <2>3. phase'[r] = "closing" /\ (requests'[r] = requests[r] \/ requests'[r] = << >>)
    BY <1>1, <2>1
  <2>4. Open(ws)' => ws \in Sockets \ {r} /\ Open(ws)
    BY <1>1, <2>1, <2>2, <2>3 DEF Open
  <2>5. \A s \in Sockets :
          /\ requests'[s] = requests[s] \/ requests'[s] = << >>
          /\ phase'[s] \in {"free", "connecting"} =>
               requests'[s] = << >> /\ inbox'[s] = << >> /\ serverSubs'[s] = Empty
    BY <1>1, <2>1, <2>2, <2>3
  <2> QED
    BY <2>1, <2>2, <2>4, <2>5, Elsewhere
<1>8. ASSUME NEW r \in Sockets, CloseEvent(r) PROVE Current'
  <2>1. /\ phase[r] = "closing" /\ phase' = [phase EXCEPT ![r] = "free"]
        /\ requests' = [requests EXCEPT ![r] = << >>]
        /\ serverSubs' = [serverSubs EXCEPT ![r] = Empty]
        /\ inbox' = [inbox EXCEPT ![r] = << >>]
        /\ ws' = IF ws = r THEN NoSocket ELSE ws
        /\ UNCHANGED book
    BY <1>8 DEF CloseEvent
  <2>2. \A s \in Sockets \ {r} : /\ phase'[s] = phase[s] /\ requests'[s] = requests[s]
                                 /\ serverSubs'[s] = serverSubs[s] /\ inbox'[s] = inbox[s]
    BY <1>1, <2>1
  <2>3. phase'[r] = "free" /\ requests'[r] = << >> /\ serverSubs'[r] = Empty /\ inbox'[r] = << >>
    BY <1>1, <2>1
  <2>4. Open(ws)' => ws \in Sockets \ {r} /\ Open(ws) /\ ws' = ws
    BY <1>1, <2>1, <2>2 DEF Open
  <2>5. \A s \in Sockets :
          /\ requests'[s] = requests[s] \/ requests'[s] = << >>
          /\ inbox'[s] = inbox[s] \/ inbox'[s] = << >>
          /\ phase'[s] \in {"free", "connecting"} =>
               requests'[s] = << >> /\ inbox'[s] = << >> /\ serverSubs'[s] = Empty
    BY <1>1, <2>2, <2>3
  <2> QED
    BY <2>1, <2>2, <2>4, <2>5, Elsewhere
<1>9. CASE UNCHANGED vars
  BY <1>3, <1>9 DEF vars
<1> QED
  BY <1>4, <1>5, <1>6, <1>7, <1>8, <1>9, SubscribeCurrent, OpenedCurrent, ReceiveCurrent,
     AnswerCurrent, UpdateCurrent DEF Next, Act

\* Nothing on the open connection is attributed to another account, although
\* successive connections share subscription ids and whatever an early start()
\* left beside it; without an early start() that goes for every connection,
\* and the subscription is known or its ack comes first (the clearing of both
\* maps on 'open' and the acknowledgements that fill them again).
THEOREM AttributionHolds == Spec => []Attribution
<1>1. Init => Attributed /\ Current
  <2>1. Init => Attributed
    BY DEF Init, Attributed, Connection
  <2>2. Init => Current
    BY DEF Init, Current, Carried, Ids, Open
  <2> QED
    BY <2>1, <2>2
<1>2. IInv /\ Attributed /\ Current /\ [Next]_vars => IInv' /\ Attributed' /\ Current'
  BY NextIInv, AttributionStep, CurrentStep
<1>3. IInv /\ Attributed /\ Current => Attribution
  <2> SUFFICES ASSUME IInv, Attributed, Current PROVE Attribution
    OBVIOUS
  <2>1. ASSUME Open(ws), NEW i \in DOMAIN inbox[ws], inbox[ws][i].type = "notification",
               inbox[ws][i].sub \in DOMAIN subs
        PROVE  subs[inbox[ws][i].sub] = inbox[ws][i].key
    BY <2>1 DEF Current, HonestHere, Honest
  <2>2. ASSUME ~early, NEW s \in Sockets, NEW i \in DOMAIN inbox[s],
               inbox[s][i].type = "notification"
        PROVE  \/ inbox[s][i].sub \in DOMAIN subs /\ subs[inbox[s][i].sub] = inbox[s][i].key
               \/ \E j \in 1..(i - 1) :
                    inbox[s][j].type = "ack" /\ inbox[s][j].sub = inbox[s][i].sub
    <3>1. phase[s] \in {"open", "closing"}
      BY <2>2 DEF Attributed, Connection, IInv, LifecycleTypes, Phases
    <3>2. PICK truth : Told(requests[s], inbox[s], pending, subs, truth)
      BY <2>2, <3>1 DEF Attributed, Connection
    <3>3. /\ inbox[s][i].key = truth[inbox[s][i].sub]
          /\ \/ inbox[s][i].sub \in DOMAIN subs /\ subs[inbox[s][i].sub] = truth[inbox[s][i].sub]
             \/ \E j \in DOMAIN inbox[s] :
                  j < i /\ inbox[s][j].type = "ack" /\ inbox[s][j].sub = inbox[s][i].sub
      BY <2>2, <3>2 DEF Told
    <3>4. \A j \in DOMAIN inbox[s] : j < i => j \in 1..(i - 1)
      BY DEF IInv, NetworkTypes
    <3> QED
      BY <3>3, <3>4
  <2> QED
    BY <2>1, <2>2 DEF Attribution
<1> QED
  BY <1>1, <1>2, <1>3, InitIInv, PTL DEF Spec
=============================================================================
