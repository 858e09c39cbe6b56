------------------------------ MODULE Snapshot ------------------------------
(***************************************************************************)
(* snapshotPools() of src/state/snapshot.ts: a first request reads the     *)
(* accounts of the pools, which name their dependents; a second reads the  *)
(* pools and all dependents together.  The chain changes between any two   *)
(* requests, and a request may be answered by a node that is behind.       *)
(*                                                                         *)
(* An account is what the adapters tell apart: whether it is there, whom   *)
(* a pool belongs to, how its data is laid out and which dependents it     *)
(* names, and whether another account parses and is acceptable to          *)
(* validatePool().  The order of keys and of outcomes decides nothing, so  *)
(* both are sets: any BatchLimit of the keys share a request.              *)
(***************************************************************************)
EXTENDS Integers, Sequences, FiniteSetsExt

CONSTANTS
  Keys,
  Pools,           \* the keys that are pools
  IsPump(_),       \* the adapter of a pool
  Contents(_),     \* what an account may hold
  Start,           \* the chain at first
  Requests,        \* the sets of pools that may be asked for
  BatchLimit,      \* 100 keys
  GlobalKeys,      \* GLOBAL_CONFIG_PDA and FEE_CONFIG_PDA
  Absent,          \* no account
  MaxChanges       \* bound on the changes of the chain

ASSUME SnapshotAssumption ==
  /\ BatchLimit \in Nat \ {0} /\ MaxChanges \in Nat
  /\ Pools \subseteq Keys /\ GlobalKeys \subseteq Keys
  /\ Requests \subseteq (SUBSET Pools) \ {{}}
  /\ Start = [k \in Keys |-> Start[k]] /\ \A k \in Keys : Start[k] \in Contents(k)

VARIABLES
  history,     \* the chain, version by version; the last is the present
  pools,       \* the argument
  single,      \* requireSingleBatch
  phase,
  todo,        \* the keys still to be asked for
  batches,     \* how many were answered for this bundle
  bundle,      \* the accounts received
  perPool,     \* the dependents each pool needs
  outcomes

vars == <<history, pools, single, phase, todo, batches, bundle, perPool, outcomes>>

NoAccounts == [k \in {} |-> Absent]
Chain == history[Len(history)]

\* getAccountsBatched(), and getMultipleAccounts() when they fit in one.
NextBatch ==
  IF Cardinality(todo) <= BatchLimit THEN {todo} ELSE kSubset(BatchLimit, todo)

Init ==
  /\ history = <<Start>>
  /\ pools \in Requests
  /\ single \in BOOLEAN
  /\ phase = "pools"
  /\ todo = pools
  /\ batches = 0
  /\ bundle = NoAccounts
  /\ perPool = [p \in {} |-> {}]
  /\ outcomes = {}

-----------------------------------------------------------------------------
(* The adapters.                                                           *)

\* A pool and the dependents its account names: requiredAccounts().
KeysOf(p, account) ==
  {p} \cup (IF IsPump(p) THEN GlobalKeys ELSE {}) \cup account.dependents

\* decodePoolState(): the documented length and discriminator, or not.
Decodes(account) == account.layout = "documented"

\* parseMint(), parseTokenAccount() and the decoders of the other dependents:
\* an owner, a length, a type or a state that is not what it must be.
Readable(content) == content # "unreadable"

\* requiredAccounts(): a foreign owner, or an account that does not decode.
Enumerable(account) == ~account.foreign /\ Decodes(account)

\* decodeSnapshot(): Raydium leaves the owner to validatePool().
Decodable(p, accounts) ==
  LET account == accounts[p] IN
  /\ Decodes(account)
  /\ IsPump(p) => ~account.foreign
  /\ \A k \in KeysOf(p, account) \ {p} :
       k \in DOMAIN accounts /\ Readable(accounts[k])

\* validatePool().
Acceptable(p, accounts) ==
  /\ ~accounts[p].foreign
  /\ \A k \in KeysOf(p, accounts[p]) \ {p} : accounts[k] # "unacceptable"

\* What a decoded pool is made of, which is what stateHashOf() hashes.
Decoded(p, accounts) == [k \in KeysOf(p, accounts[p]) |-> accounts[k]]

Outcome(p, status, decoded) == [pool |-> p, status |-> status, decoded |-> decoded]

-----------------------------------------------------------------------------
\* After the pools: the dependents of all of them, each once.
FirstOutcome(p, accounts) ==
  Outcome(p, IF p \in DOMAIN accounts THEN "UNSUPPORTED" ELSE "INVALID", NoAccounts)

AskDependents(accounts) ==
  LET known == {p \in pools : p \in DOMAIN accounts /\ Enumerable(accounts[p])}
  IN  /\ perPool' = [p \in known |-> KeysOf(p, accounts[p])]
      /\ outcomes' = {FirstOutcome(p, accounts) : p \in pools \ known}
      /\ todo' = UNION {KeysOf(p, accounts[p]) : p \in known}
      /\ phase' = IF known = {} THEN "done" ELSE "dependents"
      /\ bundle' = NoAccounts
      /\ batches' = 0

\* A faulty variant: only a bundle without any response is incomplete.
IncompleteIfEmpty(count) == single /\ count = 0

\* The dependents did not fit in one response.
Incomplete(count) == single /\ count # 1

\* After the dependents.
SecondOutcome(p, accounts, count) ==
  IF ~(perPool[p] \subseteq DOMAIN accounts) THEN Outcome(p, "INVALID", NoAccounts)
  ELSE IF Incomplete(count) THEN Outcome(p, "SNAPSHOT_INCOMPLETE", NoAccounts)
  ELSE IF ~Decodable(p, accounts) THEN Outcome(p, "UNSUPPORTED", NoAccounts)
  ELSE IF Acceptable(p, accounts) THEN Outcome(p, "OK", Decoded(p, accounts))
  ELSE Outcome(p, "INVALID", NoAccounts)

Conclude(accounts, count) ==
  /\ outcomes' = outcomes \cup {SecondOutcome(p, accounts, count) : p \in DOMAIN perPool}
  /\ phase' = "done"
  /\ todo' = {}
  /\ bundle' = accounts
  /\ batches' = count
  /\ UNCHANGED perPool

\* The bundle with what one response brings.
Received(batch, version) ==
  LET answered == {k \in batch : history[version][k] # Absent}
  IN  [k \in DOMAIN bundle \cup answered |->
         IF k \in answered THEN history[version][k] ELSE bundle[k]]

\* One getMultipleAccounts() is answered from some version of the chain.
Respond(version) ==
  /\ phase \in {"pools", "dependents"}
  /\ \E batch \in NextBatch :
       LET accounts == Received(batch, version) IN
       \/ /\ batch # todo
          /\ todo' = todo \ batch
          /\ bundle' = accounts
          /\ batches' = batches + 1
          /\ UNCHANGED <<phase, perPool, outcomes>>
       \/ batch = todo /\ phase = "pools" /\ AskDependents(accounts)
       \/ batch = todo /\ phase = "dependents" /\ Conclude(accounts, batches + 1)
  /\ UNCHANGED <<history, pools, single>>

\* A request fails for good and the exception reaches the caller.
Throw ==
  /\ phase \in {"pools", "dependents"}
  /\ phase' = "thrown"
  /\ outcomes' = {}
  /\ UNCHANGED <<history, pools, single, todo, batches, bundle, perPool>>

\* An account changes.
Change(k, content) ==
  /\ Len(history) <= MaxChanges
  /\ content # Chain[k]
  /\ history' = Append(history, [Chain EXCEPT ![k] = content])
  /\ UNCHANGED <<pools, single, phase, todo, batches, bundle, perPool, outcomes>>

Next ==
  \/ \E version \in DOMAIN history : Respond(version)
  \/ Throw
  \/ phase \in {"pools", "dependents"} /\ \E k \in Keys : \E content \in Contents(k) : Change(k, content)

Spec == Init /\ [][Next]_vars

-----------------------------------------------------------------------------
\* Every pool OK is what the chain held at one moment, the same for all.
Coherent ==
  \E version \in DOMAIN history :
    \A o \in outcomes : o.status = "OK" =>
      \A k \in DOMAIN o.decoded : o.decoded[k] = history[version][k]

\* A pool that was fit for use, and that nobody touched since.
Sound(p) ==
  /\ \A k \in {p} \cup KeysOf(p, Start[p]) : Start[k] # Absent
  /\ Enumerable(Start[p]) /\ Decodable(p, Start) /\ Acceptable(p, Start)

Stable(p) ==
  /\ Sound(p)
  /\ \A version \in DOMAIN history, k \in KeysOf(p, Start[p]) :
       history[version][k] = Start[k]

(***************************************************************************)
(* Whatever changes while a snapshot is taken, and however far behind the  *)
(* nodes are that answer: each pool gets one outcome; with                 *)
(* requireSingleBatch the pools that are OK show the chain at one and the  *)
(* same moment, although their dependents were derived from an earlier     *)
(* one; and a sound pool nobody touched is only refused for the batch      *)
(* limit.                                                                  *)
(***************************************************************************)
SnapshotIsHonest ==
  phase = "done" =>
    /\ \A p \in pools : \E o \in outcomes : \A x \in outcomes : x.pool = p <=> x = o
    /\ single => Coherent
    /\ \A o \in outcomes : Stable(o.pool) =>
         \/ o.status = "OK"
         \/ o.status = "SNAPSHOT_INCOMPLETE" /\ batches > 1
=============================================================================
