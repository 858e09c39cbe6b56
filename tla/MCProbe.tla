------------------------------- MODULE MCProbe -------------------------------
(* A small market: two tokens, one of them with a transfer fee, and a pool of
   each exchange for both.  r3 has a configuration that no swap may rely on. *)
EXTENDS Probe

CONSTANTS r1, p1, r2, p2, r3, t1, t2

Tier(epoch, maxFee, bps) == [epoch |-> epoch, maxFee |-> maxFee, bps |-> bps]

Charged == [charged |-> TRUE, older |-> Tier(0, 3, 2), newer |-> Tier(2, 9, 1)]

Fees(lp, protocol, creator) == [lp |-> lp, protocol |-> protocol, creator |-> creator]

RayPool(token, config, feeOn, creator, fund) ==
    [kind |-> "raydium_cpmm", token |-> token, mismatches |-> {}, extensions |-> {"MetadataPointer"},
     swapDisabled |-> FALSE, openTime |-> 1, creatorFeeOn |-> feeOn,
     enableCreatorFee |-> creator,
     rates |-> [trade |-> 1, creator |-> 1, protocol |-> 12, fund |-> fund],
     transferFee |-> [wsol |-> NoFee, token |-> config], virtual |-> 0]

PumpPool(token, config, virtual) ==
    [kind |-> "pumpswap", token |-> token, mismatches |-> {}, extensions |-> {"Pausable"},
     disabled |-> {}, virtual |-> virtual, supply |-> 2, canonical |-> TRUE,
     tiers |-> <<[threshold |-> 1, fees |-> Fees(1, 1, 1)],
                 [threshold |-> 3, fees |-> Fees(1, 0, 0)]>>,
     flatFees |-> Fees(1, 1, 0), creatorFeeConfigurable |-> FALSE, creatorFeeBps |-> 0,
     hasCoinCreator |-> TRUE, transferFee |-> [wsol |-> NoFee, token |-> config]]

MCPools == {r1, p1, r2, p2, r3}

MCInfo == (r1 :> RayPool(t1, NoFee, "token", TRUE, 8)) @@ (p1 :> PumpPool(t1, NoFee, 55))
       @@ (r2 :> RayPool(t2, Charged, "both", TRUE, 7)) @@ (p2 :> PumpPool(t2, Charged, 0))
       @@ (r3 :> [RayPool(t1, NoFee, "both", FALSE, 20) EXCEPT !.rates.trade = 6, !.rates.protocol = 16])

Decoded(p, wsol, token, epoch) ==
    [vault |-> [wsol |-> wsol, token |-> token],
     owed |-> [s \in Side |-> [protocol |-> 1, fund |-> 0, creator |-> 0]],
     epoch |-> epoch, now |-> 2, hash |-> <<<<p, wsol, epoch>>>>]

MCSnapshots ==
    (r1 :> {Decoded(r1, 40, 61, 1)}) @@ (p1 :> {Decoded(p1, 15, 40, 1)})
    @@ (r2 :> {Decoded(r2, 90, 40, e) : e \in {1, 2}}) @@ (p2 :> {Decoded(p2, 30, 90, e) : e \in {1, 2}})
    @@ (r3 :> {Decoded(r3, 50, 50, 1)})

MCAmounts == {2, 15}
MCGrid == {0, 2, 6, 10, 40}
=============================================================================
