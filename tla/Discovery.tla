----------------------------- MODULE Discovery ------------------------------
(***************************************************************************)
(* Runs of `atomarb discover`: the lock file of src/cli/discover.ts, the   *)
(* serialised client of src/discovery/raydium_api.ts and runDiscovery() of *)
(* src/discovery/index.ts with its cached listing.                         *)
(*                                                                         *)
(* Two processes interleave between any two calls of the file system; the  *)
(* runs of one process only where they await.  Processes may be killed     *)
(* anywhere.  A run has a client of its own, or one given to several       *)
(* (options.client), which is what the client's queue is for.              *)
(***************************************************************************)
EXTENDS Population, FiniteSets

CONSTANTS
  Runs,
  Setups,          \* for each run its process, client, flags and limits
  Inventories,     \* the lines the PumpSwap inventory may have
  Pages,           \* what the API may answer to a page request
  None,            \* no file, or no lock
  Unreadable,      \* a file whose write did not end
  Cap,             \* listCap
  PageSize,
  KeysPerRequest,  \* 100 ids
  MinInterval,     \* ticks between two requests of a client
  MaxRetries,
  ApiBudget,       \* maxTotalRequests
  Backoffs,        \* the sleeps a retry may draw
  MaxCrashes       \* bound on the processes killed

ASSUME DiscoveryAssumption ==
  /\ Cap \in Nat \ {0} /\ PageSize \in Nat \ {0} /\ KeysPerRequest \in Nat \ {0}
  /\ MinInterval \in Nat /\ MaxRetries \in Nat /\ ApiBudget \in Nat
  /\ Backoffs \subseteq Nat /\ MaxCrashes \in Nat
  /\ \A page \in Pages : page.items \in Seq(Nat)

\* A client is an object of one process; a command has a process of its own;
\* what lists without a command is one process.
ASSUME SetupAssumption ==
  \A s \in Setups : \A r, q \in Runs :
    /\ s[r].proc # None
    /\ s[r].client = s[q].client => s[r].proc = s[q].proc
    /\ r # q /\ s[r].cli /\ s[q].cli => s[r].proc # s[q].proc
    /\ s[r].proc # s[q].proc /\ s[r].network /\ s[q].network => s[r].cli /\ s[q].cli

\* What the sources say in numbers or not at all, the flags of a command, and
\* that no address belongs to two programs.
ASSUME SourcesAssumption ==
  /\ \A page \in Pages : \A i \in DOMAIN page.items :
       LET item == Item(page.items[i]) IN
       {item.mintA, item.mintB, item.tvl} \subseteq Nat \cup {Unknown}
  /\ \A lines \in Inventories :
       /\ lines \in Seq([parses : BOOLEAN, pool : Nat, base : Nat, quote : Nat,
                         canonical : {0, 1}])
       /\ \A page \in Pages : \A i \in DOMAIN page.items : \A j \in DOMAIN lines :
            page.items[i] # lines[j].pool
  /\ \A s \in Setups : \A r \in Runs :
       s[r].limits \in [maxPools : Nat, maxMints : Nat, maxPoolsPerMint : Nat]

VARIABLES
  setup, inventory,  \* chosen at the start
  lock,              \* the process named in .discover.lock
  pc, holder,        \* where a run is, and whom it read in the lock file
  call, timer, attempt,  \* the getJson() a run awaits, and its state
  chunks,            \* pool key requests left
  pages,             \* the pages of a run's listing
  listing,           \* the ListRun a run works with
  cache,             \* the file of the last listing
  queue, total, since,   \* a client: its promise chain, usage.total, ticks since lastStartMono
  contested,         \* two runs were taking the lock at once, or one took it from a
                     \* process that lives (history)
  crashes

runVars == <<pc, holder, call, timer, attempt, chunks, pages, listing>>
clientVars == <<queue, total, since>>
vars == <<setup, inventory, lock, runVars, cache, clientVars, contested, crashes>>

Proc(r) == setup[r].proc
Client(r) == setup[r].client
Clients == {Client(r) : r \in Runs}
Locks(r) == setup[r].cli /\ setup[r].network   \* acquireLock() is called

Ended == {"start", "done"}
Alive(p) == \E r \in Runs : Proc(r) = p /\ pc[r] \notin Ended
Acquiring == {"lockRead", "lockKill", "lockRemove", "lockWrite"}
Holding == {"ready", "call", "writing", "report", "release"}

\* Between two awaits no other run of the process moves.
Stretches == Acquiring \cup {"ready", "writing", "report", "release"}
MayMove(r) ==
  \A q \in Runs \ {r} : Proc(q) = Proc(r) => pc[q] \notin Stretches

\* Ceil(cap / pageSize) + 2
MaxPages == (Cap + PageSize - 1) \div PageSize + 2

Init ==
  /\ setup \in Setups
  /\ inventory \in Inventories
  /\ lock = None
  /\ pc = [r \in Runs |-> "start"]
  /\ holder = [r \in Runs |-> None]
  /\ call = [r \in Runs |-> [of |-> "none", state |-> "idle"]]
  /\ timer = [r \in Runs |-> 0]
  /\ attempt = [r \in Runs |-> 0]
  /\ chunks = [r \in Runs |-> 0]
  /\ pages = [r \in Runs |-> << >>]
  /\ listing = [r \in Runs |-> None]
  /\ cache = None
  /\ queue = [c \in Clients |-> << >>]
  /\ total = [c \in Clients |-> 0]
  /\ since = [c \in Clients |-> MinInterval]
  /\ contested = FALSE
  /\ crashes = 0

-----------------------------------------------------------------------------
(* acquireLock(), one call of the file system after the other.             *)

LockOnly == UNCHANGED <<setup, inventory, call, timer, attempt, chunks, pages, listing,
                        cache, clientVars, crashes>>

\* Another run is between its test of the lock file and its own write.
Note(r) ==
  contested' = (contested \/ \E q \in Runs \ {r} : pc[q] \in Acquiring)

Begin(r) ==
  /\ pc[r] = "start"
  /\ MayMove(r)
  /\ pc' = [pc EXCEPT ![r] = IF ~Locks(r) THEN "ready"
                             ELSE IF lock = None THEN "lockWrite" ELSE "lockRead"]
  /\ IF Locks(r) THEN Note(r) ELSE UNCHANGED contested
  /\ UNCHANGED <<lock, holder>>
  /\ LockOnly

\* The file may be gone by now, which readFileSync() throws.
LockRead(r) ==
  /\ pc[r] = "lockRead"
  /\ holder' = [holder EXCEPT ![r] = lock]
  /\ pc' = [pc EXCEPT ![r] = IF lock = None THEN "done" ELSE "lockKill"]
  /\ UNCHANGED <<lock, contested>>
  /\ LockOnly

\* A faulty variant: whether the holder lives is asked the wrong way round.
HeldByDead(r) == holder[r] # Proc(r) /\ ~Alive(holder[r])
HeldByOther(r) == holder[r] # Proc(r) /\ Alive(holder[r])

\* process.kill(pid, 0): refuse, or take the lock of a process that is gone.
\* What it throws is taken for gone, although it also throws (EPERM) for a
\* living process of another user.
LockKill(r) ==
  /\ pc[r] = "lockKill"
  /\ \/ /\ HeldByOther(r)
        /\ pc' = [pc EXCEPT ![r] = "done"]
        /\ UNCHANGED contested
     \/ /\ pc' = [pc EXCEPT ![r] = "lockRemove"]
        /\ contested' = (contested \/ HeldByOther(r))
  /\ holder' = [holder EXCEPT ![r] = None]
  /\ UNCHANGED lock
  /\ LockOnly

LockRemove(r) ==
  /\ pc[r] = "lockRemove"
  /\ lock' = None
  /\ pc' = [pc EXCEPT ![r] = IF lock = None THEN "done" ELSE "lockWrite"]
  /\ UNCHANGED <<holder, contested>>
  /\ LockOnly

LockWrite(r) ==
  /\ pc[r] = "lockWrite"
  /\ lock' = Proc(r)
  /\ pc' = [pc EXCEPT ![r] = "ready"]
  /\ UNCHANGED <<holder, contested>>
  /\ LockOnly

\* finally release(): whatever file is there goes, and none is no error.
Release(r) ==
  /\ pc[r] = "release"
  /\ lock' = None
  /\ pc' = [pc EXCEPT ![r] = "done"]
  /\ UNCHANGED <<holder, contested>>
  /\ LockOnly

AfterRun(r) == IF Locks(r) THEN "release" ELSE "done"

-----------------------------------------------------------------------------
(* runDiscovery() between its calls.                                       *)

PumpswapRows == ReadPumpswapInventory(inventory)

RayIds(list) == {i \in DOMAIN list.pools : list.pools[i].adapter = "raydium_cpmm"}

\* The promise chain without the call that is over, which is its first.
Dequeued(r) ==
  [c \in Clients |-> IF c = Client(r) /\ call[r].of # "none" THEN Tail(queue[c]) ELSE queue[c]]

\* await getJson(): behind the calls that the client already has.
GetJson(r, of) ==
  /\ pc' = [pc EXCEPT ![r] = "call"]
  /\ call' = [call EXCEPT ![r] = [of |-> of, state |-> "queued"]]
  /\ timer' = [timer EXCEPT ![r] = 0]
  /\ attempt' = [attempt EXCEPT ![r] = 0]
  /\ queue' = [Dequeued(r) EXCEPT ![Client(r)] = Append(@, r)]

\* The run's call is over and no other follows.
NoCall(r) ==
  /\ call' = [call EXCEPT ![r] = [of |-> "none", state |-> "idle"]]
  /\ timer' = [timer EXCEPT ![r] = 0]
  /\ attempt' = [attempt EXCEPT ![r] = 0]
  /\ queue' = Dequeued(r)

Throw(r) ==
  /\ NoCall(r)
  /\ pc' = [pc EXCEPT ![r] = AfterRun(r)]
  /\ pages' = [pages EXCEPT ![r] = << >>]
  /\ UNCHANGED <<chunks, listing, cache>>

KeyRequests(r, run) ==
  LET report == BuildPopulation(PoolRefsFromRun(run), PumpswapRows, setup[r].limits)
  IN  (Cardinality(RayIds(report.shortlist)) + KeysPerRequest - 1) \div KeysPerRequest

\* From the population to the request for the pool keys of its shortlist.
BuildReport(r, run) ==
  \E needed \in {IF setup[r].network THEN KeyRequests(r, run) ELSE 0} :
    \/ /\ needed > 0
       /\ chunks' = [chunks EXCEPT ![r] = needed]
       /\ GetJson(r, "keys")
    \/ /\ needed = 0
       /\ pc' = [pc EXCEPT ![r] = "report"]
       /\ NoCall(r)
       /\ UNCHANGED chunks

\* A listing of this run, or the cached one: NO_CACHE, JSON.parse() throws.
Reuses(r) == ~setup[r].network \/ (setup[r].reuse /\ cache # None)

Ready(r) ==
  /\ pc[r] = "ready"
  /\ MayMove(r)
  /\ \/ /\ ~Reuses(r)
        /\ GetJson(r, "version")
        /\ UNCHANGED <<chunks, pages, listing, cache>>
     \/ /\ Reuses(r)
        /\ cache \in {None, Unreadable}
        /\ Throw(r)
     \/ /\ Reuses(r)
        /\ cache \notin {None, Unreadable}
        /\ listing' = [listing EXCEPT ![r] = cache]
        /\ BuildReport(r, cache)
        /\ UNCHANGED <<pages, cache>>
  /\ UNCHANGED <<setup, inventory, lock, holder, total, since, contested, crashes>>

\* The listing's counters, as the loop has them after these pages.
Total(ps) == Len(DistinctIds(ps))
FreshIn(ps) == Total(ps) - Total(SubSeq(ps, 1, Len(ps) - 1))
CursorSeen(ps) ==
  \E i \in 1..(Len(ps) - 1) : ps[i].next = ps[Len(ps)].next

\* Why the listing ends after these pages; "" when it goes on.
StoppedReason(ps) ==
  LET last == ps[Len(ps)] IN
  IF last.items = << >> THEN "EMPTY_PAGE"
  ELSE IF last.next = None THEN "LAST_PAGE"
  ELSE IF FreshIn(ps) = 0 THEN "NO_NEW_ITEMS"
  ELSE IF CursorSeen(ps) THEN "NEXT_PAGE_ID_REPEATED"
  ELSE IF Total(ps) >= Cap THEN "CAP_REACHED"
  ELSE IF Len(ps) >= MaxPages THEN "MAX_PAGES"
  ELSE ""

ListRun(ps) ==
  [pages |-> ps, cap |-> Cap, stoppedReason |-> StoppedReason(ps),
   capped |-> StoppedReason(ps) = "CAP_REACHED",
   totalItems |-> Least(Total(ps), Cap)]

Previous == cache \notin {None, Unreadable}

\* A faulty variant: a listing that was cut off counts as a complete one.
DegradedIfSmall(run) ==
  run.totalItems = 0 \/ (Previous /\ 2 * run.totalItems < cache.totalItems)
Degraded(run) ==
  \/ run.totalItems = 0
  \/ Previous /\ 2 * run.totalItems < cache.totalItems
  \/ ~run.capped /\ run.stoppedReason # "LAST_PAGE"

\* A good cache stays and the run is parked beside it, or it is written.
Conclude(r, run) ==
  /\ listing' = [listing EXCEPT ![r] = run]
  /\ pages' = [pages EXCEPT ![r] = << >>]
  /\ IF Degraded(run) /\ Previous
     THEN BuildReport(r, run) /\ UNCHANGED cache
     ELSE /\ cache' = Unreadable
          /\ pc' = [pc EXCEPT ![r] = "writing"]
          /\ NoCall(r)
          /\ UNCHANGED chunks

WriteCache(r) ==
  /\ pc[r] = "writing"
  /\ cache' = listing[r]
  /\ UNCHANGED listing
  /\ BuildReport(r, listing[r])
  /\ UNCHANGED <<setup, inventory, lock, holder, pages, total, since, contested, crashes>>

\* The reports and the shortlist are written.
Finish(r) ==
  /\ pc[r] = "report"
  /\ pc' = [pc EXCEPT ![r] = AfterRun(r)]
  /\ listing' = [listing EXCEPT ![r] = None]
  /\ UNCHANGED <<setup, inventory, lock, holder, call, timer, attempt, chunks, pages,
                 cache, clientVars, contested, crashes>>

-----------------------------------------------------------------------------
(* getOnce().                                                              *)

\* A call fails for good.  Only the listing's failure ends the run.
Fail(r) ==
  \/ /\ call[r].of = "version"
     /\ GetJson(r, "list")
     /\ UNCHANGED <<chunks, pages, listing, cache>>
  \/ /\ call[r].of = "list"
     /\ Throw(r)
  \/ /\ call[r].of = "keys"
     /\ pc' = [pc EXCEPT ![r] = "report"]
     /\ NoCall(r)
     /\ UNCHANGED <<chunks, pages, listing, cache>>

\* A faulty variant: a call does not wait for the ones before it.
TurnAtOnce(r) == call[r].state \in {"queued", "backoff"} /\ timer[r] = 0
Turn(r) ==
  /\ Head(queue[Client(r)]) = r
  /\ call[r].state \in {"queued", "backoff"} /\ timer[r] = 0

Send(r) ==
  /\ since' = [since EXCEPT ![Client(r)] = 0]
  /\ total' = [total EXCEPT ![Client(r)] = @ + 1]
  /\ call' = [call EXCEPT ![r].state = "sending"]
  /\ UNCHANGED <<pc, timer, attempt, queue, chunks, pages, listing, cache>>

\* The head of the loop: the budget, and the wait since the last request.
Attempt(r) ==
  /\ pc[r] = "call"
  /\ Turn(r)
  /\ MayMove(r)
  /\ \/ /\ total[Client(r)] >= ApiBudget
        /\ Fail(r)
        /\ UNCHANGED <<total, since>>
     \/ /\ total[Client(r)] < ApiBudget
        /\ since[Client(r)] < MinInterval
        /\ call' = [call EXCEPT ![r].state = "spacing"]
        /\ timer' = [timer EXCEPT ![r] = MinInterval - since[Client(r)]]
        /\ UNCHANGED <<pc, attempt, queue, chunks, pages, listing, cache, total, since>>
     \/ /\ total[Client(r)] < ApiBudget
        /\ since[Client(r)] >= MinInterval
        /\ Send(r)
  /\ UNCHANGED <<setup, inventory, lock, holder, contested, crashes>>

Spaced(r) ==
  /\ call[r].state = "spacing" /\ timer[r] = 0
  /\ MayMove(r)
  /\ Send(r)
  /\ UNCHANGED <<setup, inventory, lock, holder, contested, crashes>>

\* A good answer, and what the run asks next.
Answer(r) ==
  \/ /\ call[r].of = "version"
     /\ GetJson(r, "list")
     /\ UNCHANGED <<chunks, pages, listing, cache>>
  \/ /\ call[r].of = "list"
     /\ \E page \in Pages :
          LET ps == Append(pages[r], page) IN
          IF StoppedReason(ps) # "" THEN Conclude(r, ListRun(ps))
          ELSE /\ GetJson(r, "list")
               /\ pages' = [pages EXCEPT ![r] = ps]
               /\ UNCHANGED <<chunks, listing, cache>>
  \/ /\ call[r].of = "keys"
     /\ chunks' = [chunks EXCEPT ![r] = @ - 1]
     /\ IF chunks[r] > 1 THEN GetJson(r, "keys")
        ELSE pc' = [pc EXCEPT ![r] = "report"] /\ NoCall(r)
     /\ UNCHANGED <<pages, listing, cache>>

Answered(r) ==
  /\ call[r].state = "sending"
  /\ MayMove(r)
  /\ Answer(r)
  /\ UNCHANGED <<setup, inventory, lock, holder, total, since, contested, crashes>>

\* 429, 5xx, a timeout or a broken connection, tried again while it may be;
\* anything else at once an error.
Failed(r) ==
  /\ call[r].state = "sending"
  /\ MayMove(r)
  /\ \/ /\ attempt[r] < MaxRetries
        /\ attempt' = [attempt EXCEPT ![r] = @ + 1]
        /\ call' = [call EXCEPT ![r].state = "backoff"]
        /\ \E ticks \in Backoffs : timer' = [timer EXCEPT ![r] = ticks]
        /\ UNCHANGED <<pc, queue, chunks, pages, listing, cache>>
     \/ Fail(r)
  /\ UNCHANGED <<setup, inventory, lock, holder, total, since, contested, crashes>>

-----------------------------------------------------------------------------
\* A killed process leaves its lock, and the file it was writing.
Crash(p) ==
  /\ crashes < MaxCrashes
  /\ Alive(p)
  /\ crashes' = crashes + 1
  /\ LET Ours(r) == Proc(r) = p IN
     /\ pc' = [r \in Runs |-> IF Ours(r) THEN "done" ELSE pc[r]]
     /\ call' = [r \in Runs |-> IF Ours(r) THEN [of |-> "none", state |-> "idle"] ELSE call[r]]
     /\ timer' = [r \in Runs |-> IF Ours(r) THEN 0 ELSE timer[r]]
     /\ queue' = [c \in Clients |->
                    IF \E r \in Runs : Ours(r) /\ Client(r) = c THEN << >> ELSE queue[c]]
     /\ holder' = [r \in Runs |-> IF Ours(r) THEN None ELSE holder[r]]
     /\ attempt' = [r \in Runs |-> IF Ours(r) THEN 0 ELSE attempt[r]]
     /\ chunks' = [r \in Runs |-> IF Ours(r) THEN 0 ELSE chunks[r]]
     /\ pages' = [r \in Runs |-> IF Ours(r) THEN << >> ELSE pages[r]]
     /\ listing' = [r \in Runs |-> IF Ours(r) THEN None ELSE listing[r]]
  /\ UNCHANGED <<setup, inventory, lock, cache, total, since, contested>>

\* Time passes for the clients that are asked something.
Late(c) == queue[c] # << >> /\ since[c] < MinInterval
Tick ==
  /\ (\E r \in Runs : timer[r] > 0) \/ (\E c \in Clients : Late(c))
  /\ timer' = [r \in Runs |-> IF timer[r] > 0 THEN timer[r] - 1 ELSE 0]
  /\ since' = [c \in Clients |-> IF Late(c) THEN since[c] + 1 ELSE since[c]]
  /\ UNCHANGED <<setup, inventory, lock, pc, holder, call, attempt, chunks, pages,
                 listing, cache, queue, total, contested, crashes>>

AllDone == (\A r \in Runs : pc[r] = "done") /\ UNCHANGED vars

Next ==
  \/ \E r \in Runs :
       \/ Begin(r) \/ LockRead(r) \/ LockKill(r) \/ LockRemove(r) \/ LockWrite(r)
       \/ Release(r) \/ Ready(r) \/ WriteCache(r) \/ Finish(r)
       \/ Attempt(r) \/ Spaced(r) \/ Answered(r) \/ Failed(r)
  \/ \E r \in Runs : Crash(Proc(r))
  \/ Tick
  \/ AllDone

Spec == Init /\ [][Next]_vars

-----------------------------------------------------------------------------
(* Properties.                                                             *)

\* The requests of a client never overlap and are MinInterval apart, those
\* that are tried again and those of concurrent callers included, and stay
\* within the budget (getJson and getOnce).  A run that holds the lock has the
\* API for itself when it sends one, as long as the lock was never contested:
\* acquireLock() tests and takes it in separate calls, so nothing is promised
\* once two runs were taking it at once, or one took it from a process that
\* lives (discover.ts:21-28).
Sends(r) == call[r].state # "sending" /\ call'[r].state = "sending"
RateHolds ==
  [][\A r \in Runs : Sends(r) =>
       /\ since[Client(r)] = MinInterval
       /\ total[Client(r)] < ApiBudget
       /\ \A q \in Runs : Client(q) = Client(r) => call[q].state # "sending"
       /\ \A q \in Runs \ {r} :
            (Locks(r) /\ Locks(q) /\ ~contested) => pc[q] \notin Holding]_vars

\* The file of a listing that can be read is only given up for one that has
\* pools, at least half of the pools of the old, and either reaches the last
\* page or is full (runDiscovery: never let a degraded run destroy a good
\* cache), as long as the lock was never contested; both are counted as a
\* later run reads them from their pages.
CoverageKept ==
  [][(~contested /\ cache \notin {None, Unreadable} /\ cache' # cache) =>
       \E r \in Runs :
         /\ pc'[r] = "writing"
         /\ LET run == listing'[r]
                now == Len(ItemsFromPages(run.pages, run.cap))
                then == Len(ItemsFromPages(cache.pages, cache.cap))
            IN  /\ now > 0 /\ 2 * now >= then
                /\ run.pages[Len(run.pages)].next = None \/ now = run.cap]_vars

\* A report's shortlist keeps its limits, comes in pairs of real routes,
\* gives up a route only for a limit, and does not depend on the order of
\* the rows or on poorer copies of them (buildPopulation: byte-identical
\* regardless of input order).
ShortlistIsHonest ==
  \A r \in Runs : pc[r] = "report" =>
    LET raydium == PoolRefsFromRun(listing[r])
        limits == setup[r].limits
        report == BuildPopulation(raydium, PumpswapRows, limits)
        rows == raydium \o PumpswapRows
    IN  /\ WithinLimits(report.shortlist, limits)
        /\ RoutesAreReal(report.shortlist, rows)
        /\ NothingLeftOut(report, rows, limits)
        /\ report = BuildPopulation(Reordered(raydium), Reordered(PumpswapRows), limits)
=============================================================================
