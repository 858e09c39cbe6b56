----------------------------- MODULE Population -----------------------------
(***************************************************************************)
(* What discovery makes of the pools it heard of: src/discovery/           *)
(* population.ts with the readers of its two sources, raydium_api.ts and   *)
(* local_inventory.ts.  Nothing here is verified on the chain: a row is    *)
(* what a source says of a pool.                                           *)
(*                                                                         *)
(* Addresses and mints are numbers, so that cmpStr() is <.  A row keeps    *)
(* the hints that decide something; Unknown stands for null.  No address   *)
(* belongs to two programs, so no two routes rank the same.                *)
(***************************************************************************)
EXTENDS Integers, SequencesExt

CONSTANTS
  Wsol,            \* WSOL_B58
  Item(_),         \* what the Raydium API says of the pool with this id
  DefaultRoutesPerMint   \* maxRoutesPerMint ?? 32, which no caller overrides

Unknown == -1
Least(a, b) == IF a < b THEN a ELSE b
Known(x) == x # Unknown

\* The members of a set in their order, as a sequence.
InOrder(S, Precedes(_, _)) ==
  [n \in 1..Cardinality(S) |->
     CHOOSE x \in S : Cardinality({y \in S : Precedes(y, x)}) = n - 1]

-----------------------------------------------------------------------------
(* The sources.                                                            *)

\* Where the pages of a listing name an id, and where for the first time.
Occurrences(pages) == UNION {{i} \X DOMAIN pages[i].items : i \in DOMAIN pages}
IdAt(pages, o) == pages[o[1]].items[o[2]]
Earlier(o, p) == o[1] < p[1] \/ (o[1] = p[1] /\ o[2] < p[2])

FirstOccurrences(pages) ==
  LET all == Occurrences(pages) IN
  {o \in all : \A p \in all : Earlier(p, o) => IdAt(pages, p) # IdAt(pages, o)}

\* The distinct ids of a listing's pages, in order.
DistinctIds(pages) ==
  LET firsts == InOrder(FirstOccurrences(pages), Earlier)
  IN  [n \in DOMAIN firsts |-> IdAt(pages, firsts[n])]

\* itemsFromPages(): truncated at the cap of the listing.
ItemsFromPages(pages, cap) ==
  LET ids == DistinctIds(pages) IN SubSeq(ids, 1, Least(cap, Len(ids)))

\* The places of the pools of the right type.
FilterCpmm(ids) == {i \in DOMAIN ids : Item(ids[i]).cpmm}

\* The mint beside WSOL, Unknown when neither or both are WSOL.
WsolCounterMint(mintA, mintB) ==
  IF Unknown \in {mintA, mintB} THEN Unknown
  ELSE IF mintA = Wsol /\ mintB # Wsol THEN mintB
  ELSE IF mintB = Wsol /\ mintA # Wsol THEN mintA
  ELSE Unknown

RaydiumItemToPoolRef(id) ==
  [adapter |-> "raydium_cpmm", address |-> id, mintA |-> Item(id).mintA,
   mintB |-> Item(id).mintB, tvl |-> Item(id).tvl, canonical |-> Unknown]

\* Items without both mints are skipped.
PoolRefsFromRun(run) ==
  LET ids == ItemsFromPages(run.pages, run.cap)
      usable == InOrder({i \in FilterCpmm(ids) : Known(Item(ids[i]).mintA)
                                                 /\ Known(Item(ids[i]).mintB)}, <)
  IN  [n \in DOMAIN usable |-> RaydiumItemToPoolRef(ids[usable[n]])]

\* A line that does not parse is skipped; so is one whose quote is not WSOL.
ReadableRecord(line) ==
  /\ line.parses
  /\ line.quote = Wsol
  /\ line.base # line.quote

\* The first line of a pool is kept.
ReadPumpswapInventory(lines) ==
  LET readable == {i \in DOMAIN lines : ReadableRecord(lines[i])}
      kept == InOrder({i \in readable : \A j \in readable :
                         j < i => lines[j].pool # lines[i].pool}, <)
  IN  [n \in DOMAIN kept |->
         [adapter |-> "pumpswap", address |-> lines[kept[n]].pool,
          mintA |-> lines[kept[n]].base, mintB |-> lines[kept[n]].quote,
          tvl |-> Unknown, canonical |-> lines[kept[n]].canonical]]

-----------------------------------------------------------------------------
(* One row per address.                                                    *)

CounterMintOf(row) == WsolCounterMint(row.mintA, row.mintB)

\* Positive when row p beats row q: more hints, then more liquidity, then
\* the text of the hints, for which the mints and the flag stand.
HintScore(row) ==
  <<Cardinality({f \in {"mintA", "mintB", "tvl", "canonical"} : Known(row[f])}),
    IF row.tvl > 0 THEN row.tvl ELSE 0, row.mintA, row.mintB, row.canonical>>

Above(s, t) ==
  \E i \in DOMAIN s : s[i] > t[i] /\ \A j \in 1..(i - 1) : s[j] = t[j]

Richer(p, q) == Above(HintScore(p), HintScore(q))

\* A faulty variant: the first row of an address stays.
BeatsLater(rows, i, j) == i < j

\* Of two rows of an address the later one has to be richer to win.
Beats(rows, i, j) ==
  IF i < j THEN ~Richer(rows[j], rows[i]) ELSE Richer(rows[i], rows[j])

\* dedupAndIndex(): the rows kept, one per address, WSOL pairs only.
Deduped(rows, adapter) ==
  LET mine == {i \in DOMAIN rows : rows[i].adapter = adapter}
      Rivals(i) == {j \in mine \ {i} : rows[j].address = rows[i].address}
      winners == {i \in mine : \A j \in Rivals(i) : Beats(rows, i, j)}
  IN  {rows[i] : i \in {k \in winners : Known(CounterMintOf(rows[k]))}}

ByMint(kept, mint) == {row \in kept : CounterMintOf(row) = mint}
MintsOf(kept) == {CounterMintOf(row) : row \in kept}

-----------------------------------------------------------------------------
(* Routes and their order.                                                 *)

\* A route between two pools; what is known of its liquidity is its rank.
Route(category, mint, pa, pb) ==
  [category |-> category, mint |-> mint, poolA |-> pa, poolB |-> pb,
   rank |-> IF Known(pa.tvl) /\ Known(pb.tvl) THEN Least(pa.tvl, pb.tvl)
            ELSE IF category = "cross_adapter" THEN pa.tvl ELSE Unknown,
   canonicalCount |-> Cardinality({p \in {pa, pb} : p.canonical = 1})]

MakeRoute(category, mint, a, b) ==
  LET swapped == IF category = "cross_adapter" THEN a.adapter # "raydium_cpmm"
                 ELSE a.address > b.address
  IN  IF swapped THEN Route(category, mint, b, a) ELSE Route(category, mint, a, b)

\* compareRoutes(): known liquidity first and most of it, then the count of
\* canonical pools, then mint and addresses.  Unknown ranks below all.
RouteKey(r) == <<-r.rank, -r.canonicalCount, r.mint, r.poolA.address, r.poolB.address>>
Before(x, y) == Above(RouteKey(y), RouteKey(x))

\* The place of a route among others.
Place(r, routes) == Cardinality({x \in routes : Before(x, r)}) + 1

\* The best `cap` pairs of one mint: of one source's pools each two of them,
\* of two sources' pools one of each.
RankedPairs(category, mint, left, right, cap) ==
  LET pairs == {p \in left \X right : category # "cross_adapter" => p[1].address # p[2].address}
      all == {MakeRoute(category, mint, p[1], p[2]) : p \in pairs}
  IN  {r \in all : Place(r, all) <= cap}

Pairs(category, left, right) ==
  UNION {RankedPairs(category, m, ByMint(left, m), ByMint(right, m), DefaultRoutesPerMint) :
           m \in MintsOf(left)}

RouteSet(ray, pump) ==
  Pairs("pumpswap_x2", pump, pump) \cup Pairs("cross_adapter", ray, pump)
    \cup Pairs("raydium_x2", ray, ray)
RoutesOf(ray, pump) == InOrder(RouteSet(ray, pump), Before)

-----------------------------------------------------------------------------
(* The shortlist: the ranked routes, as long as the limits allow.          *)

EmptyShortlist == [pools |-> << >>, routes |-> << >>]

MintsListed(list) == {list.pools[i].mint : i \in DOMAIN list.pools}
PoolsListedOf(list, mint) == {i \in DOMAIN list.pools : list.pools[i].mint = mint}

FreshOf(list, r) ==
  LET Unlisted(p) ==
        IF \E i \in DOMAIN list.pools : list.pools[i].address = p.address THEN << >> ELSE <<p>>
  IN  Unlisted(r.poolA) \o Unlisted(r.poolB)

MaxPoolsPerMint(limits) == IF limits.maxPoolsPerMint > 2 THEN limits.maxPoolsPerMint ELSE 2

\* Room for the route's pools that are not listed yet.
Fits(list, r, limits) ==
  LET fresh == Len(FreshOf(list, r)) IN
  /\ Len(list.pools) < limits.maxPools
  /\ Len(list.pools) + fresh <= limits.maxPools
  /\ Cardinality(PoolsListedOf(list, r.mint)) + fresh <= MaxPoolsPerMint(limits)
  /\ r.mint \in MintsListed(list) \/ Cardinality(MintsListed(list)) < limits.maxMints

Admit(list, r, limits) ==
  IF ~Fits(list, r, limits) THEN list
  ELSE LET fresh == FreshOf(list, r) IN
       [pools |-> list.pools \o [i \in DOMAIN fresh |->
                    [adapter |-> fresh[i].adapter, address |-> fresh[i].address,
                     mint |-> r.mint]],
        routes |-> Append(list.routes, r)]

Shortlist(routes, limits) ==
  LET walk[n \in 0..Len(routes)] ==
        IF n = 0 THEN EmptyShortlist ELSE Admit(walk[n - 1], routes[n], limits)
  IN  walk[Len(routes)]

\* buildPopulation(), without its counts and texts.
BuildPopulation(raydium, pumpswap, limits) ==
  LET routes == RoutesOf(Deduped(raydium, "raydium_cpmm"), Deduped(pumpswap, "pumpswap"))
  IN  [routes |-> routes, shortlist |-> Shortlist(routes, limits)]

-----------------------------------------------------------------------------
(* What a population promises.                                             *)

\* The limits hold, a listed pool comes with a partner for its mint, and
\* the routes listed are in their order.
WithinLimits(list, limits) ==
  /\ Len(list.pools) <= limits.maxPools
  /\ Cardinality(MintsListed(list)) <= limits.maxMints
  /\ \A m \in MintsListed(list) :
       Cardinality(PoolsListedOf(list, m)) \in 2..MaxPoolsPerMint(limits)
  /\ \A i \in DOMAIN list.pools : \A j \in DOMAIN list.pools :
       list.pools[i].address = list.pools[j].address => i = j

\* Two distinct pools of one WSOL mint, each in a source and in the list.
RoutesAreReal(list, rows) ==
  \A i \in DOMAIN list.routes :
    LET r == list.routes[i] IN
    /\ r.poolA.address # r.poolB.address
    /\ \A p \in {r.poolA, r.poolB} :
         /\ \E k \in DOMAIN rows : rows[k].address = p.address /\ CounterMintOf(rows[k]) = r.mint
         /\ \E k \in DOMAIN list.pools : list.pools[k].address = p.address
                                          /\ list.pools[k].mint = r.mint

\* The rows again in another order, with a poorer copy of each before it.
Poorer(row) == [row EXCEPT !.tvl = Unknown, !.canonical = Unknown]
Reordered(rows) ==
  Reverse(rows \o [i \in DOMAIN rows |-> Poorer(rows[i])])

\* Where no limit binds every route is listed.
NothingLeftOut(report, rows, limits) ==
  (/\ limits.maxPools > Len(rows)
   /\ limits.maxPoolsPerMint >= Len(rows)
   /\ limits.maxMints >= Len(rows))
  => report.shortlist.routes = report.routes
=============================================================================
