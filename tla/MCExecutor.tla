----------------------------- MODULE MCExecutor -----------------------------
EXTENDS ExecutorLegs, TLC

Raydium(m, v, p, c, o) ==
  [kind |-> "raydium", mints |-> m, vaults |-> v, programs |-> p, config |-> c,
   observation |-> o]

Pump(v, length, cashback, creator) ==
  [kind |-> "pump", mints |-> <<"token", "wsol">>, vaults |-> v, length |-> length,
   coinCreator |-> creator, isMayhemMode |-> 0, isCashbackCoin |-> cashback,
   canEditCreatorFee |-> 1, isHolderReward |-> 0]

\* Two Raydium pools that order the mints differently, one of another token,
\* PumpSwap pools of several lengths, with and without cashback and creator, two
\* that do not decode, and a false pool.
MCPoolData ==
  "ray1" :> Raydium(<<"token", "wsol">>, <<"v1", "v2">>,
                    <<"token_2022_program", "token_program">>, "config1", "obs1")
  @@ "ray2" :> Raydium(<<"wsol", "token">>, <<"v3", "v4">>,
                       <<"token_program", "token_2022_program">>, "config2", "obs2")
  @@ "ray_other" :> Raydium(<<"wsol", "token2">>, <<"v5", "v6">>,
                            <<"token_program", "token_program">>, "config1", "obs3")
  @@ "pump1" :> Pump(<<"v7", "v8">>, 211, 0, "default")
  @@ "pump2" :> Pump(<<"v9", "v10">>, 244, 0, "creator")
  @@ "pump_cash" :> Pump(<<"v11", "v12">>, 271, 1, "default")
  @@ "pump_both" :> Pump(<<"v13", "v14">>, 300, 1, "creator")
  @@ "pump_flag" :> Pump(<<"v15", "v16">>, 261, 2, "creator")
  @@ "pump_odd" :> Pump(<<"v17", "v18">>, 280, 0, "default")
  @@ "false_pool" :> Pump(<<"v7", "base_ta">>, 271, 0, "default")

MCOwner ==
  [p \in DOMAIN MCPoolData |->
     IF p = "false_pool" THEN "other_program"
     ELSE Program(IF MCPoolData[p].kind = "raydium" THEN "raydium" ELSE "pump_buy")]
  @@ "base_ta" :> "token_program" @@ "inter_ta" :> "token_2022_program"
  @@ "wsol" :> "token_program" @@ "token" :> "token_2022_program"
  @@ "token2" :> "token_program" @@ "other_ta" :> "token_program"
  @@ "false_ta" :> "token_program"

Holding(mint, owner, length) ==
  [mint |-> mint, owner |-> owner, length |-> length, accountType |-> 2, state |-> 1]

MCTokenData ==
  "base_ta" :> Holding("wsol", "user", 165) @@ "inter_ta" :> Holding("token", "user", 170)
  @@ "other_ta" :> Holding("wsol", "somebody", 165)
  @@ "false_ta" :> Holding("wsol", "user", 355)

Figures == [amountIn |-> 1, minProfit |-> 1, maxSpend |-> 0, legAMinOut |-> 1]

\* What circuits are built of: both sides of every guard of a u64 that ends at
\* 2 and a profit that overflows, and every kind of pool for either leg.
ByFigures ==
  [x \in 1..6 |-> [figures |-> [Figures EXCEPT !.minProfit = x % 3, !.maxSpend = x \div 4],
                   a |-> "ray1", b |-> "ray2"]]
  \o <<[figures |-> [Figures EXCEPT !.amountIn = 2], a |-> "ray1", b |-> "ray2"],
       [figures |-> [Figures EXCEPT !.legAMinOut = 0], a |-> "pump1", b |-> "ray2"]>>

\* A pool that does not decode is in no circuit.
RoutableOf(pools) == SelectSeq(pools, LAMBDA p : Routable(MCPoolData[p]))

PoolsOfA == RoutableOf(<<"ray1", "pump1", "pump_cash", "pump_flag", "pump_both">>)
PoolsOfB == RoutableOf(<<"ray2", "pump_odd", "pump2", "pump_cash">>)
ByPools ==
  [x \in 1..12 |-> [figures |-> Figures, a |-> PoolsOfA[1 + (x % Len(PoolsOfA))],
                    b |-> PoolsOfB[1 + (x % Len(PoolsOfB))]]]

\* What is forged: one circuit, then two.
Originals ==
  <<[figures |-> Figures, a |-> "ray1", b |-> "ray2"],
    [figures |-> Figures, a |-> "ray1", b |-> "pump2"],
    [figures |-> Figures, a |-> "pump1", b |-> "ray1"]>>

Recipes == ByFigures \o ByPools \o Originals

Built ==
  LET From(recipes) ==
        [x \in DOMAIN recipes |->
           BuildExecuteCircuit(recipes[x].figures, recipes[x].a, recipes[x].b, "token")]
  IN  From(Recipes)

\* Each account of a circuit replaced by one that is out of place.
Intruders == <<"base_ta", "inter_ta", "other_ta", "false_ta", "ray2", "ray_other", "false_pool", "v3">>

Forged(s) == [s EXCEPT !.builtOf = << >>]

ReplacedIn(s) ==
  [x \in 1..(8 * Len(s.accounts)) |->
     Forged([s EXCEPT !.accounts[1 + ((x - 1) \div 8)] = Intruders[1 + ((x - 1) % 8)]])]

\* Neighbouring accounts of a circuit exchanged.
ExchangedIn(s) ==
  [i \in 1..(Len(s.accounts) - 1) |->
     Forged([s EXCEPT !.accounts[i] = s.accounts[i + 1], !.accounts[i + 1] = s.accounts[i]])]

\* Kinds, counts and the signature that do not fit the accounts.
KindList == <<"raydium", "pump_buy", "pump_sell", "unknown">>
Malformed(s) ==
  [x \in 1..4 |-> Forged([s EXCEPT !.legAKind = KindList[x]])]
  \o [x \in 1..4 |-> Forged([s EXCEPT !.legBKind = KindList[x]])]
  \o <<Forged([s EXCEPT !.signed = FALSE]),
       Forged([s EXCEPT !.countA = @ + 1]),
       Forged([s EXCEPT !.countA = @ + 1, !.countB = @ - 1])>>

MCInstructions ==
  LET WithForgeries(built, plain, one, two) ==
        SubSeq(built, 1, Len(built) - 3) \o Malformed(plain)
        \o ReplacedIn(one) \o ReplacedIn(two) \o ExchangedIn(one) \o ExchangedIn(two)
      From(built, n) == WithForgeries(built, built[n - 2], built[n - 1], built[n])
  IN  From(Built, Len(Recipes))

\* Every verdict on these instructions is among them.
MCTransactions == {t \in Transaction : t.amountIn \in 1..2 /\ t.maxSpend < 2 /\ t.legAMinOut < 2}
=============================================================================
