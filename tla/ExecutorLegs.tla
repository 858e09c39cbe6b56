---------------------------- MODULE ExecutorLegs ----------------------------
(***************************************************************************)
(* The accounts behind the verdicts of Executor: what process_instruction  *)
(* makes of the flat list of accounts of an instruction, and the lists the *)
(* TypeScript builders make of a circuit.                                  *)
(*                                                                         *)
(* programs/arb_executor/src/{lib,legs,token,params}.rs; executor_ix.ts    *)
(* and buildSwapInstruction of both adapters.  A key is a name.  An        *)
(* account is what the checks read of it: the program that owns it and,    *)
(* for token accounts and pools, its fields.  Positions count from 0 in    *)
(* the accounts of a leg, as in the code; flags are left out.              *)
(***************************************************************************)
EXTENDS Executor, Sequences

CONSTANTS
  Instructions, \* the instructions that may be submitted, a sequence
  Owner,        \* the program that owns each account, for keys that have one
  TokenData,    \* token accounts: length, account type, mint, owner, state
  PoolData      \* pools: kind, mints, vaults, programs, config, observation, and
                \* for a PumpSwap pool length, coinCreator and the bytes that are flags

VARIABLE submission  \* the instruction that runs, by its index, or NoSubmission

legVars == <<vars, submission>>

NoSubmission == 0

At(cpi, position) == cpi[position + 1]
Has(table, key) == key \in DOMAIN table

\* The fixed accounts, by side: "base" is WSOL, "inter" the intermediate token.
Fixed(accounts) ==
  [user |-> accounts[1],
   ta |-> [base |-> accounts[2], inter |-> accounts[3]],
   mint |-> [base |-> accounts[4], inter |-> accounts[5]],
   prog |-> [base |-> accounts[6], inter |-> accounts[7]]]

FixedAccounts == 7

\* check_account_total().
TotalFits(s) == Len(s.accounts) = FixedAccounts + s.countA + s.countB

Segment(s, role) ==
  LET start == FixedAccounts + (IF role = "A" THEN 0 ELSE s.countA)
      count == IF role = "A" THEN s.countA ELSE s.countB
  IN  SubSeq(s.accounts, start + 1, start + count)

LegKind(s, role) == IF role = "A" THEN s.legAKind ELSE s.legBKind

TokenAccountLen == 165

\* check_account_type(): extensions follow a byte that says what they are of.
CheckAccountType(d, isToken2022) ==
  \/ d.length = TokenAccountLen
  \/ isToken2022 /\ d.length > TokenAccountLen /\ d.accountType = 2

\* parse_token_account() accepts: 1 is initialized, 2 frozen.
ParsesAsTokenAccount(d) == d.length >= TokenAccountLen /\ d.state = 1

\* validate_fixed(), for one side.
TokenAccountSound(fixed, side) ==
  LET ta == fixed.ta[side]
      prog == fixed.prog[side]
  IN  /\ prog \in {"token_program", "token_2022_program"}
      /\ Has(Owner, ta) /\ Owner[ta] = prog
      /\ Has(Owner, fixed.mint[side]) /\ Owner[fixed.mint[side]] = prog
      /\ Has(TokenData, ta)
      /\ CheckAccountType(TokenData[ta], prog = "token_2022_program")
      /\ ParsesAsTokenAccount(TokenData[ta])
      /\ TokenData[ta].owner = fixed.user
      /\ TokenData[ta].mint = fixed.mint[side]

\* What is checked before the legs.
FixedSound(s) ==
  LET fixed == Fixed(s.accounts)
  IN  /\ TotalFits(s)
      /\ s.signed
      /\ fixed.ta.base # fixed.ta.inter
      /\ fixed.mint.base # fixed.mint.inter
      /\ fixed.mint.base = "wsol"
      /\ \A side \in {"base", "inter"} : TokenAccountSound(fixed, side)

-----------------------------------------------------------------------------
(* The checks of a leg.                                                    *)

IsPump(kind) == kind \in {"pump_buy", "pump_sell"}

\* expected_program().
Program(kind) == IF kind = "raydium" THEN "raydium_program" ELSE "pump_program"

PoolPosition(kind) == IF kind = "raydium" THEN 3 ELSE 0
UserPosition(kind) == IF kind = "raydium" THEN 0 ELSE 1

\* user_token_positions(): Raydium names its accounts by direction, PumpSwap
\* by the pool's base, which is the intermediate token here.
UserTokenPositions(kind, role) ==
  CASE IsPump(kind) -> [base |-> 6, inter |-> 5]
    [] kind = "raydium" /\ role = "A" -> [base |-> 4, inter |-> 5]
    [] OTHER -> [base |-> 5, inter |-> 4]

\* check_cpi_count().
CountFits(kind, count) ==
  CASE kind = "raydium" -> count = 13
    [] kind = "pump_buy" -> count \in 23..26
    [] kind = "pump_sell" -> count \in 21..24
    [] OTHER -> FALSE

\* A faulty variant: only the account that gains is looked for.
NotAliasedBase(fixed, cpi, at) ==
  \A i \in 0..(Len(cpi) - 1) : At(cpi, i) = fixed.ta.base => i = at.base

\* check_aliasing().
NotAliased(fixed, cpi, at) ==
  \A i \in 0..(Len(cpi) - 1), side \in {"base", "inter"} :
    At(cpi, i) = fixed.ta[side] => i = at[side]

\* The accounts at given positions are the expected ones.
Matches(cpi, expected) == \A e \in expected : At(cpi, e[1]) = e[2]

\* validate_raydium(): i is the side of the pool that the leg pays into.
RaydiumSound(fixed, role, cpi, pool) ==
  LET in == IF role = "A" THEN "base" ELSE "inter"
      out == IF role = "A" THEN "inter" ELSE "base"
  IN  /\ pool.kind = "raydium"
      /\ \E i \in 1..2 : LET o == 3 - i IN
           /\ <<pool.mints[i], pool.mints[o]>> = <<fixed.mint[in], fixed.mint[out]>>
           /\ <<pool.programs[i], pool.programs[o]>> = <<fixed.prog[in], fixed.prog[out]>>
           /\ Matches(cpi,
                {<<1, "raydium_authority">>, <<2, pool.config>>,
                 <<6, pool.vaults[i]>>, <<7, pool.vaults[o]>>,
                 <<8, fixed.prog[in]>>, <<9, fixed.prog[out]>>,
                 <<10, fixed.mint[in]>>, <<11, fixed.mint[out]>>,
                 <<12, pool.observation>>})

\* A faulty variant: the position of a purchase is used for a sale.
FeeConfigPositionBuy(kind) == 21

FeeConfigPosition(kind) == IF kind = "pump_buy" THEN 21 ELSE 19

\* validate_pump(): the pool's first side is its base.
PumpSound(fixed, kind, cpi, pool) ==
  LET fee == FeeConfigPosition(kind)
  IN  /\ pool.kind = "pump" /\ pool.length >= 211
      /\ pool.mints = <<fixed.mint.inter, fixed.mint.base>>
      /\ fee + 1 < Len(cpi)
      /\ Matches(cpi,
           {<<2, "pump_global_config">>, <<3, pool.mints[1]>>, <<4, pool.mints[2]>>,
            <<7, pool.vaults[1]>>, <<8, pool.vaults[2]>>,
            <<11, fixed.prog.inter>>, <<12, fixed.prog.base>>,
            <<13, "system_program">>, <<14, "ata_program">>,
            <<15, "pump_event_authority">>, <<16, "pump_program">>,
            <<fee, "pump_fee_config">>, <<fee + 1, "pump_fee_program">>})

\* validate_leg().
ValidateLeg(fixed, role, kind, cpi) ==
  LET at == UserTokenPositions(kind, role)
      pool == At(cpi, PoolPosition(kind))
  IN  /\ CountFits(kind, Len(cpi))
      /\ Has(Owner, pool) /\ Owner[pool] = Program(kind)
      /\ At(cpi, UserPosition(kind)) = fixed.user
      /\ NotAliased(fixed, cpi, at)
      /\ \A side \in {"base", "inter"} : At(cpi, at[side]) = fixed.ta[side]
      /\ Has(PoolData, pool)
      /\ IF kind = "raydium" THEN RaydiumSound(fixed, role, cpi, PoolData[pool])
         ELSE PumpSound(fixed, kind, cpi, PoolData[pool])

\* The part of validate_segment() behind the kind's role, which Executor checks.
LegSound(s, role) ==
  LET segment == Segment(s, role)
      kind == LegKind(s, role)
  IN  /\ TotalFits(s)
      /\ kind # "unknown" /\ Len(segment) >= 2 /\ segment[1] = Program(kind)
      /\ PoolPosition(kind) < Len(segment) - 1
      /\ ValidateLeg(Fixed(s.accounts), role, kind, Tail(segment))

\* What the executor makes of an instruction.
TransactionOf(s) ==
  [amountIn |-> s.amountIn, minProfit |-> s.minProfit, maxSpend |-> s.maxSpend,
   legAMinOut |-> s.legAMinOut, legAKind |-> s.legAKind, legBKind |-> s.legBKind,
   fixedSound |-> FixedSound(s),
   legASound |-> LegSound(s, "A"), legBSound |-> LegSound(s, "B")]

Verdicts == [n \in DOMAIN Instructions |-> TransactionOf(Instructions[n])]

ASSUME InstructionsAssumption == \A n \in DOMAIN Instructions : Verdicts[n] \in Transactions

\* Accounts are a list of keys; the counts are bytes of the instruction data.
ASSUME AccountsAssumption ==
  \A n \in DOMAIN Instructions :
    /\ Instructions[n].accounts \in Seq(STRING)
    /\ Instructions[n].countA \in Nat /\ Instructions[n].countB \in Nat

-----------------------------------------------------------------------------
(* The builders.  A circuit is a pair of pools; the user's accounts are    *)
(* the associated token accounts of the two mints.                         *)

\* The lengths an account of a PumpSwap pool has had, and those grown further.
KnownLength(n) == n \in {211, 243, 244, 245, 261, 270, 271} \/ n >= 300

\* Where each field ends that a shorter account lacks.
EndOf ==
  [coinCreator |-> 243, isMayhemMode |-> 244, isCashbackCoin |-> 245,
   canEditCreatorFee |-> 270, isHolderReward |-> 271]

Present(d, field) == d.length >= EndOf[field]

\* decodePool(): a field the account lacks reads as 0, a flag is 0 or 1.
DecodePool(d) ==
  [ok |-> /\ KnownLength(d.length)
          /\ \A f \in DOMAIN EndOf \ {"coinCreator"} : Present(d, f) => d[f] \in {0, 1},
   cashback |-> Present(d, "isCashbackCoin") /\ d.isCashbackCoin = 1,
   creator |-> Present(d, "coinCreator") /\ d.coinCreator # "default"]

\* A circuit only goes through pools that decode.
Routable(pool) == pool.kind = "pump" => DecodePool(pool).ok

UserAccount(mint) == IF mint = "wsol" THEN "base_ta" ELSE "inter_ta"

\* buildSwapInstruction() of the Raydium adapter.
BuildRaydium(pool, in, out) ==
  LET d == PoolData[pool]
      i == CHOOSE j \in 1..2 : d.mints[j] = in
      o == 3 - i
  IN  <<"user", "raydium_authority", d.config, pool, UserAccount(in), UserAccount(out),
        d.vaults[i], d.vaults[o], Owner[in], Owner[out], in, out, d.observation>>

\* buildSwapInstruction() of the PumpSwap adapter.
BuildPump(pool, isBuy) ==
  LET d == PoolData[pool]
      named == <<pool, "user", "pump_global_config", d.mints[1], d.mints[2],
                 UserAccount(d.mints[1]), UserAccount(d.mints[2]),
                 d.vaults[1], d.vaults[2], "fee_recipient", "fee_recipient_ata",
                 Owner[d.mints[1]], Owner[d.mints[2]], "system_program", "ata_program",
                 "pump_event_authority", "pump_program", "creator_vault_ata",
                 "creator_vault_authority">>
      fees == <<"pump_fee_config", "pump_fee_program">>
      volume == IF isBuy THEN <<"global_volume", "user_volume">> ELSE << >>
      decoded == DecodePool(d)
      cashback == IF ~decoded.cashback THEN << >>
                  ELSE IF isBuy THEN <<"user_volume_ata">> ELSE <<"user_volume_ata", "user_volume">>
      poolV2 == IF decoded.creator THEN <<"pool_v2">> ELSE << >>
  IN  named \o volume \o fees \o cashback \o poolV2 \o <<"buyback", "buyback_ata">>

KindOf(pool, role) ==
  IF PoolData[pool].kind = "raydium" THEN "raydium"
  ELSE IF role = "A" THEN "pump_buy" ELSE "pump_sell"

BuildLeg(pool, role, token) ==
  LET kind == KindOf(pool, role)
      in == IF role = "A" THEN "wsol" ELSE token
      out == IF role = "A" THEN token ELSE "wsol"
  IN  IF kind = "raydium" THEN BuildRaydium(pool, in, out) ELSE BuildPump(pool, role = "A")

\* buildExecuteCircuitIx(), whatever checkLeg() says; figures are the caller's.
BuildExecuteCircuit(figures, a, b, token) ==
  LET segmentA == <<Program(KindOf(a, "A"))>> \o BuildLeg(a, "A", token)
      segmentB == <<Program(KindOf(b, "B"))>> \o BuildLeg(b, "B", token)
  IN  [amountIn |-> figures.amountIn, minProfit |-> figures.minProfit,
       maxSpend |-> figures.maxSpend, legAMinOut |-> figures.legAMinOut,
       accounts |-> <<"user", "base_ta", "inter_ta", "wsol", token, Owner["wsol"], Owner[token]>>
                    \o segmentA \o segmentB,
       countA |-> Len(segmentA), countB |-> Len(segmentB),
       legAKind |-> KindOf(a, "A"), legBKind |-> KindOf(b, "B"),
       signed |-> TRUE, builtOf |-> <<a, b>>]

\* checkLeg(): the accounts that legFromInstruction() agrees to.
CpiAccountCount(kind) ==
  CASE kind = "raydium" -> 13..13
    [] kind = "pump_buy" -> 23..26
    [] kind = "pump_sell" -> 21..24

CheckLeg(s, role) == Len(Segment(s, role)) - 1 \in CpiAccountCount(LegKind(s, role))

\* The user's associated account of a mint is one the executor takes.
HasAccountOf(mint) ==
  LET ta == UserAccount(mint) IN
  /\ mint \notin {"base_ta", "inter_ta"} /\ mint \in STRING
  /\ {mint, ta} \subseteq DOMAIN Owner /\ Owner[ta] = Owner[mint]
  /\ Owner[mint] \in {"token_program", "token_2022_program"}
  /\ Has(TokenData, ta)
  /\ CheckAccountType(TokenData[ta], Owner[mint] = "token_2022_program")
  /\ ParsesAsTokenAccount(TokenData[ta])
  /\ TokenData[ta].owner = "user" /\ TokenData[ta].mint = mint

\* A pool of WSOL and the token as its exchange keeps one: a Raydium pool has
\* them in either order, a PumpSwap pool sells the token for WSOL and decodes.
\* Its accounts are not the user's.
Names(keys) == \A i \in DOMAIN keys : keys[i] \in STRING \ {"base_ta", "inter_ta"}
PoolOf(pool, token) ==
  LET d == PoolData[pool] IN
  /\ Has(Owner, pool)
  /\ \/ /\ d.kind = "raydium" /\ Owner[pool] = "raydium_program"
        /\ Names(<<pool, d.vaults[1], d.vaults[2], d.config, d.observation>>)
        /\ d.mints \in {<<token, "wsol">>, <<"wsol", token>>}
        /\ d.programs = <<Owner[d.mints[1]], Owner[d.mints[2]]>>
     \/ /\ d.kind = "pump" /\ Owner[pool] = "pump_program"
        /\ Names(<<pool, d.vaults[1], d.vaults[2]>>)
        /\ d.mints = <<token, "wsol">>
        /\ d.length \in Nat /\ Routable(d)

\* What was not forged is the builders' instruction of a circuit.
ASSUME CircuitsAssumption ==
  \A n \in DOMAIN Instructions : Instructions[n].builtOf # << >> =>
    \E a \in DOMAIN PoolData, b \in DOMAIN PoolData, token \in DOMAIN Owner \ {"wsol"} :
      /\ HasAccountOf("wsol") /\ HasAccountOf(token)
      /\ PoolOf(a, token) /\ PoolOf(b, token)
      /\ Instructions[n] = BuildExecuteCircuit(Instructions[n], a, b, token)

-----------------------------------------------------------------------------
LegsInit == tx = Verdicts[1] /\ Init /\ submission = NoSubmission

\* An instruction is there until it is over.
SubmitAccounts(n) == Submit(Verdicts[n]) /\ submission' = n

Proceed ==
  /\ Validate \/ CallLegA \/ MeasureLegA \/ CallLegB \/ Guard
  /\ submission' = IF stage' = "idle" THEN NoSubmission ELSE submission

LegsNext == (\E n \in DOMAIN Instructions : SubmitAccounts(n)) \/ Proceed

LegsSpec == LegsInit /\ [][LegsNext]_legVars

-----------------------------------------------------------------------------
\* The accounts of an exchange's instruction by name, for its direction.
ExchangeAccounts(kind) ==
  CASE kind = "raydium" -> [payer |-> 0, pool |-> 3, input |-> 4, output |-> 5,
                            inVault |-> 6, outVault |-> 7]
    [] kind = "pump_buy" -> [payer |-> 1, pool |-> 0, input |-> 6, output |-> 5,
                             inVault |-> 8, outVault |-> 7]
    [] kind = "pump_sell" -> [payer |-> 1, pool |-> 0, input |-> 5, output |-> 6,
                              inVault |-> 7, outVault |-> 8]

\* The leg swaps between the two guarded accounts, in its direction, against
\* the vaults of a pool of the two mints, and lists neither anywhere else.
PlaysItsRole(s, role) ==
  LET cpi == Tail(Segment(s, role))
      x == ExchangeAccounts(LegKind(s, role))
      pool == PoolData[At(cpi, x.pool)]
      fixed == Fixed(s.accounts)
      in == IF role = "A" THEN "base" ELSE "inter"
      out == IF role = "A" THEN "inter" ELSE "base"
  IN  /\ TotalFits(s) /\ LegKind(s, role) # "unknown" /\ Len(Segment(s, role)) > 9
      /\ s.signed /\ At(cpi, x.payer) = fixed.user
      /\ Has(PoolData, At(cpi, x.pool))
      /\ Owner[At(cpi, x.pool)] = Program(LegKind(s, role))
      /\ <<At(cpi, x.input), At(cpi, x.output)>> = <<fixed.ta[in], fixed.ta[out]>>
      /\ \E i \in 1..2 :
           /\ <<pool.mints[i], pool.mints[3 - i]>> = <<fixed.mint[in], fixed.mint[out]>>
           /\ <<pool.vaults[i], pool.vaults[3 - i]>> = <<At(cpi, x.inVault), At(cpi, x.outVault)>>
      /\ \A i \in 0..(Len(cpi) - 1) :
           At(cpi, i) \in {fixed.ta.base, fixed.ta.inter} => i \in {x.input, x.output}

Playing ==
  {n \in DOMAIN Instructions :
     PlaysItsRole(Instructions[n], "A") /\ PlaysItsRole(Instructions[n], "B")}

(***************************************************************************)
(* Whatever accounts an instruction lists, an exchange is only called to   *)
(* swap between the two accounts whose balances the executor guards, in    *)
(* the direction of the leg and against the vaults of a pool of the two    *)
(* mints; and at no other place, not even one the executor does not check, *)
(* does the exchange find one of the two.                                  *)
(***************************************************************************)
LegsPlayTheirRoles ==
  stage \in {"calling_a", "called_a", "calling_b", "called_b"} => submission \in Playing

\* A sale of a coin with cashback, and a purchase of one that also has a
\* creator, need more accounts than a leg may have (docs/EXECUTOR_ABI.md).
TooLong(role, pool) ==
  pool.kind = "pump" /\ DecodePool(pool).cashback /\ (role = "A" => DecodePool(pool).creator)

LegFits(s, role, pool, sound) ==
  /\ CheckLeg(s, role) <=> ~TooLong(role, pool)
  /\ sound <=> ~TooLong(role, pool)

BuiltFits(s) ==
  s.builtOf # << >> =>
    /\ tx.fixedSound
    /\ LegFits(s, "A", PoolData[s.builtOf[1]], tx.legASound)
    /\ LegFits(s, "B", PoolData[s.builtOf[2]], tx.legBSound)

(***************************************************************************)
(* The executor accepts what the builders make of a circuit, and the       *)
(* builders' own check refuses exactly the legs that are too long for it.  *)
(***************************************************************************)
BuiltLegsFit == stage = "entered" => BuiltFits(Instructions[submission])
=============================================================================
