---------------------------- MODULE MCDiscovery -----------------------------
(* Two runs: of two processes that take the lock, of a process that does    *)
(* and one that reads the cache without it, or of one process with a        *)
(* shared client.  Five Raydium pools, of which a listing keeps three, and  *)
(* an inventory of PumpSwap lines with duplicates and useless ones.         *)
EXTENDS Discovery

CONSTANTS r1, r2, p1, p2, c1, c2, cursor1, cursor2

McRuns == {r1, r2}

Wide == [maxPools |-> 9, maxMints |-> 9, maxPoolsPerMint |-> 9]
Narrow == [maxPools |-> 4, maxMints |-> 1, maxPoolsPerMint |-> 1]
Odd == [maxPools |-> 3, maxMints |-> 2, maxPoolsPerMint |-> 3]

FromCli(p, c, network, reuse, limits) ==
  [proc |-> p, client |-> c, cli |-> TRUE, network |-> network, reuse |-> reuse,
   limits |-> limits]
Shared(limits) ==
  [proc |-> p1, client |-> c1, cli |-> FALSE, network |-> TRUE, reuse |-> FALSE,
   limits |-> limits]

McSetups ==
  {r1 :> FromCli(p1, c1, TRUE, FALSE, Wide) @@ r2 :> FromCli(p2, c2, TRUE, TRUE, Narrow),
   r1 :> FromCli(p1, c1, TRUE, FALSE, Odd) @@ r2 :> FromCli(p2, c2, FALSE, FALSE, Narrow),
   r1 :> Shared(Wide) @@ r2 :> Shared(Odd)}

McWsol == 0
McItem(id) ==
  CASE id = 1 -> [cpmm |-> TRUE, mintA |-> 0, mintB |-> 7, tvl |-> 5]
    [] id = 2 -> [cpmm |-> TRUE, mintA |-> 7, mintB |-> 0, tvl |-> -1]
    [] id = 3 -> [cpmm |-> TRUE, mintA |-> 8, mintB |-> 0, tvl |-> 3]
    [] id = 4 -> [cpmm |-> FALSE, mintA |-> 0, mintB |-> 8, tvl |-> 9]
    [] id = 5 -> [cpmm |-> TRUE, mintA |-> 0, mintB |-> -1, tvl |-> 2]

Line(pool, base, canonical) ==
  [parses |-> TRUE, pool |-> pool, base |-> base, quote |-> 0, canonical |-> canonical]
Bad == [parses |-> FALSE, pool |-> 13, base |-> 7, quote |-> 0, canonical |-> 1]
McInventories ==
  {<<Line(11, 7, 0), Line(12, 7, 1), Line(11, 7, 0), Line(13, 8, 1)>>,
   <<Bad, Line(14, 8, 0), Line(15, 0, 1), [Line(16, 8, 1) EXCEPT !.quote = 7]>>}

Page(items, next) == [items |-> items, next |-> next]
McPages ==
  {Page(<< >>, None), Page(<<1, 2>>, cursor1), Page(<<2, 3>>, cursor1),
   Page(<<5, 3>>, cursor2), Page(<<4>>, None)}
McBackoffs == {1}

\* What follows a contested lock is not explored: two runs hold it then, and
\* the properties about it promise nothing.
OneAtATime == ~contested
=============================================================================
