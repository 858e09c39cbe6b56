----------------------------- MODULE MCSnapshot -----------------------------
EXTENDS Snapshot

\* Two Raydium pools that share a config, and a PumpSwap pool with its globals.
MCPools == {"r1", "r2", "q"}
MCKeys == MCPools \cup {"cfg", "va", "vb", "vc", "vq", "global", "fee"}
MCIsPump(p) == p = "q"

Account(dependents) == [foreign |-> FALSE, layout |-> "documented", dependents |-> dependents]

MCStart ==
  [k \in MCKeys |->
     CASE k = "r1" -> Account({"cfg", "va"})
       [] k = "r2" -> Account({"cfg", "vb"})
       [] k = "q" -> Account({"vq"})
       [] OTHER -> "old"]

\* A pool that is gone, changes hands, stops decoding or names another vault.
MCContents(k) ==
  IF k \in MCPools
  THEN {MCStart[k], [MCStart[k] EXCEPT !.foreign = TRUE], [MCStart[k] EXCEPT !.layout = "another"],
        [MCStart[k] EXCEPT !.dependents = IF k = "q" THEN {"vb"} ELSE {"cfg", "vc"}], Absent}
  ELSE {"old", "new", "unreadable", "unacceptable", Absent}

\* The first fits in one request with its dependents, the second does not.
MCRequests == {{"r1", "r2"}, {"q", "r1"}}
MCGlobalKeys == {"global", "fee"}
=============================================================================
