------------------------------- MODULE WssGap -------------------------------
(***************************************************************************)
(* WssManager watched by an observer of the accounts, which knows the keys *)
(* whose subscription went down with a connection and notes every change   *)
(* of one of them that no subscription reports while the manager marks no  *)
(* gap.                                                                    *)
(***************************************************************************)
EXTENDS WssManager

VARIABLES
  lost,    \* keys subscribed when the connection dropped, not resubscribed yet
  silent   \* a change was missed with no gap open

GapInit == Init /\ lost = {} /\ silent = FALSE

\* The manager is connected again and marks no gap, and the key it lost has
\* no subscription at the server.
Missed(k) ==
  /\ k \in lost \ refused
  /\ Open(ws)
  /\ ~disconnected
  /\ k \notin Values(serverSubs[ws])

WatchUpdate ==
  /\ \E k \in Keys, content \in Contents :
       Update(k, content) /\ silent' = (silent \/ Missed(k))
  /\ UNCHANGED lost

\* The manager's connection had been open and closes although nobody stopped
\* it: what was subscribed is lost.
WatchDrop ==
  /\ \E s \in Sockets :
       /\ CloseEvent(s)
       /\ lost' = IF ws = s /\ ~closed /\ sawOpen[s] THEN lost \cup Values(subs) ELSE lost
  /\ UNCHANGED silent

\* A subscription is confirmed.
WatchReceive ==
  /\ \E s \in Sockets : Receive(s)
  /\ lost' = lost \ Values(subs')
  /\ UNCHANGED silent

\* Whoever stops the manager watches nothing any more.
WatchStop ==
  /\ Stop \/ StartTimeout
  /\ lost' = {}
  /\ UNCHANGED silent

WatchOther ==
  /\ \/ Start \/ Retry
     \/ \E k \in Keys : Subscribe(k)
     \/ \E s \in Sockets : Opened(s) \/ OpenedLate(s) \/ Drop(s) \/ Accept(s) \/ Refuse(s)
  /\ UNCHANGED <<lost, silent>>

GapNext == WatchUpdate \/ WatchDrop \/ WatchReceive \/ WatchStop \/ WatchOther

GapSpec == GapInit /\ [][GapNext]_<<vars, lost, silent>>

-----------------------------------------------------------------------------
\* What the class comment of wss.ts promises: an explicit gap covers the time
\* between a disconnect and the successful resubscription, so no change of an
\* account whose subscription a disconnect took goes missing outside a gap.
GapCoversResubscription == ~silent
=============================================================================
