--------------------------- MODULE ExecutorProofs ---------------------------
(***************************************************************************)
(* The executor implements the atomic circuit, for every width of the      *)
(* balances and every set of transactions.  The invariant says what the    *)
(* two mappings of a step need: what the program remembers is what the     *)
(* chain shows, and no instruction runs outside the stages.                *)
(***************************************************************************)
EXTENDS ExecutorLegs, SequenceTheorems, TLAPS

\* What the program remembers of the balances is what the chain shows; before
\* the first call it is what the accounts show too.
Remembered ==
  /\ first = chain
  /\ stage \in {"idle", "entered", "calling_a"} => held = chain

\* The user waits for a result exactly while the program is in a stage.
RunningInStage == result = "running" <=> stage # "idle"

\* Leg B spends what leg A brought in, and something.
DeltaPositive == stage \in {"calling_b", "called_b"} => delta > 0

IInv ==
  /\ TypeOK
  /\ Remembered
  /\ RunningInStage
  /\ DeltaPositive
  /\ NoLegBeforeBothAreSound

-----------------------------------------------------------------------------
LEMMA InitIInv == Init => IInv
<1> SUFFICES ASSUME Init PROVE IInv
  OBVIOUS
<1>1. 0 \in U64
  BY WidthAssumption DEF U64
<1>2. TypeOK
  BY <1>1 DEF Init, TypeOK, Stages
<1> QED
  BY <1>2 DEF Init, IInv, Remembered, RunningInStage, DeltaPositive,
              NoLegBeforeBothAreSound

\* The end of an instruction, whatever its outcome, restores the invariant.
LEMMA EndIInv ==
  ASSUME IInv, NEW outcome \in {"committed", "aborted"}, NEW b \in Holdings,
         End(outcome, b)
  PROVE  IInv'
<1>1. 0 \in U64
  BY WidthAssumption DEF U64
<1>2. TypeOK'
  BY <1>1 DEF IInv, TypeOK, End, Stages
<1> QED
  BY <1>2 DEF IInv, End, Remembered, RunningInStage, DeltaPositive,
              NoLegBeforeBothAreSound

LEMMA FailIInv == IInv /\ Fail => IInv'
<1>1. IInv => chain \in Holdings
  BY DEF IInv, TypeOK
<1> QED
  BY <1>1, EndIInv DEF Fail

LEMMA NextIInv == IInv /\ [Next]_vars => IInv'
<1> SUFFICES ASSUME IInv, [Next]_vars PROVE IInv'
  OBVIOUS
<1> USE DEF IInv, TypeOK, Stages, Remembered, RunningInStage, DeltaPositive,
            NoLegBeforeBothAreSound
<1>1. ASSUME NEW t \in Transactions, Submit(t) PROVE IInv'
  BY <1>1 DEF Submit
<1>2. CASE Validate
  <2>1. ASSUME Accepted(tx), stage = "entered", first' = held,
               stage' = "calling_a",
               UNCHANGED <<tx, chain, held, delta, result>>
        PROVE  IInv'
    BY <2>1 DEF Accepted, LegsSound, SegmentSound, KindFits
  <2> QED
    BY <1>2, <2>1, FailIInv DEF Validate
<1>3. CASE CallLegA
  <2>1. ASSUME stage = "calling_a", held' \in Holdings, stage' = "called_a",
               UNCHANGED <<tx, chain, first, delta, result>>
        PROVE  IInv'
    BY <2>1
  <2> QED
    BY <1>3, <2>1, FailIInv DEF CallLegA, Call
<1>4. CASE MeasureLegA
  <2>1. ASSUME stage = "called_a", HasOutput(first.inter, held.inter),
               delta' = held.inter - first.inter, stage' = "calling_b",
               UNCHANGED <<tx, chain, held, first, result>>
        PROVE  IInv'
    <3>1. first.inter \in U64 /\ held.inter \in U64
      BY DEF Holdings
    <3>2. delta' \in U64 /\ delta' > 0
      BY <2>1, <3>1, WidthAssumption DEF HasOutput, U64
    <3> QED
      BY <2>1, <3>2
  <2> QED
    BY <1>4, <2>1, FailIInv DEF MeasureLegA
<1>5. CASE CallLegB
  <2>1. ASSUME stage = "calling_b", held' \in Holdings, stage' = "called_b",
               UNCHANGED <<tx, chain, first, delta, result>>
        PROVE  IInv'
    BY <2>1
  <2> QED
    BY <1>5, <2>1, FailIInv DEF CallLegB, Call
<1>6. CASE Guard
  BY <1>6, EndIInv, FailIInv DEF Guard
<1>7. CASE UNCHANGED vars
  BY <1>7 DEF vars
<1> QED
  BY <1>1, <1>2, <1>3, <1>4, <1>5, <1>6, <1>7 DEF Next

\* Type correctness (process_instruction): what leg A brought in never leaves
\* the u64 it is computed in.
THEOREM TypeCorrect == Spec => []TypeOK
<1>1. IInv => TypeOK  BY DEF IInv
<1> QED  BY <1>1, InitIInv, NextIInv, PTL DEF Spec

\* No exchange is called before both legs have been validated (lib.rs's
\* process_instruction), for every set of transactions.
THEOREM BothLegsFirst == Spec => []NoLegBeforeBothAreSound
<1>1. IInv => NoLegBeforeBothAreSound  BY DEF IInv
<1> QED  BY <1>1, InitIInv, NextIInv, PTL DEF Spec

-----------------------------------------------------------------------------
\* The order a transaction carries.
OrderOf == [minProfit |-> tx.minProfit, maxSpend |-> tx.maxSpend]

LEMMA OrderType == TypeOK => OrderOf \in Orders
BY TransactionsAssumption DEF TypeOK, OrderOf, Orders, Transaction

\* The guards that the code makes on wrapping integers are the inequalities
\* the circuit promises.
LEMMA GuardedFulfils ==
  ASSUME IInv, Guarded
  PROVE  Atomic!Fulfilled(chain, held, OrderOf)
<1>1. /\ first.base \in Int /\ held.base \in Int
      /\ first.lamports \in Int /\ held.lamports \in Int
  BY WidthAssumption DEF IInv, TypeOK, Holdings, U64
<1>2. tx.minProfit \in Int /\ tx.maxSpend \in Int /\ tx.maxSpend >= 0
  BY WidthAssumption, TransactionsAssumption
     DEF IInv, TypeOK, Transaction, U64
<1>3. held.base >= first.base + tx.minProfit
  BY DEF Guarded, ProfitReached
<1>4. held.lamports >= first.lamports - tx.maxSpend
  BY <1>1, <1>2 DEF Guarded, SpendWithin
<1> QED
  BY <1>3, <1>4 DEF IInv, Remembered, Guarded, Atomic!Fulfilled, OrderOf

\* A failing instruction is an abort of the circuit.
LEMMA FailAborts ==
  ASSUME IInv, stage # "idle", Fail
  PROVE  Atomic!Abort
BY DEF IInv, RunningInStage, Fail, End, Atomic!Abort

LEMMA StepRefines ==
  ASSUME IInv, [Next]_vars
  PROVE  [Atomic!Next]_<<chain, OrderOf, result>>
<1>1. ASSUME NEW t \in Transactions, Submit(t) PROVE Atomic!Submit
  <2>1. OrderOf' \in Orders
    BY <1>1, TransactionsAssumption DEF Submit, OrderOf, Orders, Transaction
  <2> QED
    BY <1>1, <2>1 DEF Submit, IInv, RunningInStage, Atomic!Submit, OrderOf
<1>2. CASE Validate
  BY <1>2, FailAborts DEF Validate, Atomic!Next, OrderOf
<1>3. CASE CallLegA
  BY <1>3, FailAborts DEF CallLegA, Call, Atomic!Next, OrderOf
<1>4. CASE MeasureLegA
  BY <1>4, FailAborts DEF MeasureLegA, Atomic!Next, OrderOf
<1>5. CASE CallLegB
  BY <1>5, FailAborts DEF CallLegB, Call, Atomic!Next, OrderOf
<1>6. CASE Guard
  <2>1. ASSUME stage = "called_b", Guarded, End("committed", held)
        PROVE  Atomic!Commit
    <3>1. Atomic!Fulfilled(chain, held, OrderOf)
      BY <2>1, GuardedFulfils
    <3>2. held \in Holdings /\ result = "running"
      BY <2>1 DEF IInv, TypeOK, RunningInStage
    <3> QED
      BY <2>1, <3>1, <3>2 DEF End, Atomic!Commit, OrderOf
  <2> QED
    BY <1>6, <2>1, FailAborts DEF Guard, Atomic!Next
<1>7. CASE UNCHANGED vars
  BY <1>7 DEF vars, OrderOf
<1> QED
  BY <1>1, <1>2, <1>3, <1>4, <1>5, <1>6, <1>7 DEF Next, Atomic!Next

\* The executor (lib.rs's process_instruction with guard.rs) implements the
\* atomic circuit: all or nothing, whatever the two exchanges do.
THEOREM ExecutorIsAtomic == Spec => ImplementsAtomicCircuit
<1>1. Init => Atomic!Init
  <2>1. ASSUME Init PROVE Atomic!Init
    <3>1. OrderOf \in Orders
      BY <2>1, InitIInv, OrderType DEF IInv
    <3> QED
      BY <2>1, <3>1 DEF Init, Atomic!Init, OrderOf
  <2> QED  BY <2>1
<1>2. IInv /\ [Next]_vars => [Atomic!Next]_<<chain, OrderOf, result>>
  BY StepRefines
<1> QED
  BY <1>1, <1>2, InitIInv, NextIInv, PTL
     DEF Spec, ImplementsAtomicCircuit, Atomic!Spec, OrderOf

-----------------------------------------------------------------------------
(***************************************************************************)
(* The account checks behind the verdicts of Executor, for any list of     *)
(* instructions: the executor with its accounts is the executor, so that   *)
(* what is proved above carries over, and an exchange is only called with  *)
(* legs that play their roles.                                             *)
(***************************************************************************)

Calling == stage \in {"calling_a", "called_a", "calling_b", "called_b"}

\* While an instruction runs, its verdict is the transaction that runs.
Judged ==
  stage # "idle" => submission \in DOMAIN Instructions /\ tx = Verdicts[submission]

AccountsAccepted == Calling => tx.fixedSound

LInv == IInv /\ Judged /\ AccountsAccepted

-----------------------------------------------------------------------------
\* The cross-program accounts of a leg, as a list.
LEMMA LegList ==
  ASSUME NEW n \in DOMAIN Instructions, NEW role \in {"A", "B"},
         LegSound(Instructions[n], role)
  PROVE  /\ Tail(Segment(Instructions[n], role)) \in Seq(STRING)
         /\ Len(Segment(Instructions[n], role)) = Len(Tail(Segment(Instructions[n], role))) + 1
<1> DEFINE s == Instructions[n]
           start == FixedAccounts + (IF role = "A" THEN 0 ELSE s.countA)
           count == IF role = "A" THEN s.countA ELSE s.countB
<1>1. /\ s.accounts \in Seq(STRING) /\ s.countA \in Nat /\ s.countB \in Nat
      /\ Len(s.accounts) = FixedAccounts + s.countA + s.countB
  BY AccountsAssumption DEF LegSound, TotalFits
<1>2. /\ start \in Int /\ count \in Int /\ start >= 0
      /\ start + count <= Len(s.accounts)
  BY <1>1 DEF FixedAccounts
<1>3. \A i \in (start + 1)..(start + count) : s.accounts[i] \in STRING
  BY <1>1, <1>2
<1> HIDE DEF s, start, count
<1>4. SubSeq(s.accounts, start + 1, start + count) \in Seq(STRING)
  BY <1>2, <1>3, SubSeqProperties
<1>5. Segment(s, role) \in Seq(STRING)
  BY <1>4 DEF Segment, start, count
<1>6. Len(Segment(s, role)) >= 2
  BY DEF LegSound, s
<1>7. Segment(s, role) # << >>
  BY <1>6
<1> QED
  BY <1>5, <1>7, HeadTailProperties DEF s

\* validate_leg() finds the roles: of a Raydium leg...
LEMMA RaydiumPlays ==
  ASSUME NEW n \in DOMAIN Instructions, NEW role \in {"A", "B"},
         LegSound(Instructions[n], role), Instructions[n].signed,
         LegKind(Instructions[n], role) = "raydium"
  PROVE  PlaysItsRole(Instructions[n], role)
<1> DEFINE s == Instructions[n]
           cpi == Tail(Segment(s, role))
           fixed == Fixed(s.accounts)
           pool == PoolData[At(cpi, 3)]
           in == IF role = "A" THEN "base" ELSE "inter"
           out == IF role = "A" THEN "inter" ELSE "base"
           at == UserTokenPositions("raydium", role)
<1>1. cpi \in Seq(STRING) /\ Len(Segment(s, role)) = Len(cpi) + 1
  BY LegList
<1>2. TotalFits(s) /\ ValidateLeg(fixed, role, "raydium", cpi)
  BY DEF LegSound
<1> HIDE DEF s, cpi, fixed
<1>3. Len(Segment(s, role)) > 9
  <2>1. CountFits("raydium", Len(cpi))
    BY <1>2, Zenon DEF ValidateLeg
  <2>2. Len(cpi) = 13
    BY <2>1 DEF CountFits
  <2> QED
    BY <1>1, <2>2
<1>4. at.base = (IF role = "A" THEN 4 ELSE 5) /\ at.inter = (IF role = "A" THEN 5 ELSE 4)
  BY DEF UserTokenPositions, IsPump
<1>5. /\ Has(PoolData, At(cpi, 3)) /\ Owner[At(cpi, 3)] = Program("raydium")
      /\ At(cpi, 0) = fixed.user
      /\ At(cpi, at.base) = fixed.ta.base /\ At(cpi, at.inter) = fixed.ta.inter
      /\ \A i \in 0..(Len(cpi) - 1), side \in {"base", "inter"} :
           At(cpi, i) = fixed.ta[side] => i = at[side]
      /\ RaydiumSound(fixed, role, cpi, pool)
  BY <1>2 DEF ValidateLeg, NotAliased, PoolPosition, UserPosition
<1>6. PICK i \in 1..2 :
        /\ <<pool.mints[i], pool.mints[3 - i]>> = <<fixed.mint[in], fixed.mint[out]>>
        /\ At(cpi, 6) = pool.vaults[i] /\ At(cpi, 7) = pool.vaults[3 - i]
  BY <1>5 DEF RaydiumSound, Matches
<1>7. At(cpi, 4) = fixed.ta[in] /\ At(cpi, 5) = fixed.ta[out]
  BY <1>4, <1>5
<1>8. \A j \in 0..(Len(cpi) - 1) : At(cpi, j) \in {fixed.ta.base, fixed.ta.inter} => j \in {4, 5}
  BY <1>4, <1>5
<1>9. LegKind(s, role) = "raydium" /\ s.signed
  BY DEF s
<1> DEFINE x == ExchangeAccounts("raydium")
<1>10. /\ x.payer = 0 /\ x.pool = 3 /\ x.input = 4 /\ x.output = 5
       /\ x.inVault = 6 /\ x.outVault = 7
  BY DEF ExchangeAccounts
<1> HIDE DEF x
<1>11. /\ <<At(cpi, x.input), At(cpi, x.output)>> = <<fixed.ta[in], fixed.ta[out]>>
       /\ At(cpi, x.payer) = fixed.user
       /\ Has(PoolData, At(cpi, x.pool)) /\ Owner[At(cpi, x.pool)] = Program("raydium")
  BY <1>5, <1>7, <1>10
<1>12. \E k \in 1..2 :
         LET p == PoolData[At(cpi, x.pool)]
         IN  /\ <<p.mints[k], p.mints[3 - k]>> = <<fixed.mint[in], fixed.mint[out]>>
             /\ <<p.vaults[k], p.vaults[3 - k]>> = <<At(cpi, x.inVault), At(cpi, x.outVault)>>
  BY <1>6, <1>10
<1>13. \A j \in 0..(Len(cpi) - 1) :
         At(cpi, j) \in {fixed.ta.base, fixed.ta.inter} => j \in {x.input, x.output}
  BY <1>8, <1>10
<1>14. PlaysItsRole(s, role)
  BY <1>2, <1>3, <1>9, <1>11, <1>12, <1>13
     DEF PlaysItsRole, cpi, fixed, x
<1> QED
  BY <1>14 DEF s

\* ... and of a PumpSwap leg whose kind fits its role.
LEMMA PumpPlays ==
  ASSUME NEW n \in DOMAIN Instructions, NEW role \in {"A", "B"},
         LegSound(Instructions[n], role), Instructions[n].signed,
         LegKind(Instructions[n], role) = IF role = "A" THEN "pump_buy" ELSE "pump_sell"
  PROVE  PlaysItsRole(Instructions[n], role)
<1> DEFINE s == Instructions[n]
           kind == LegKind(s, role)
           cpi == Tail(Segment(s, role))
           fixed == Fixed(s.accounts)
           pool == PoolData[At(cpi, 0)]
           in == IF role = "A" THEN "base" ELSE "inter"
           out == IF role = "A" THEN "inter" ELSE "base"
           x == ExchangeAccounts(kind)
<1>1. cpi \in Seq(STRING) /\ Len(Segment(s, role)) = Len(cpi) + 1
  BY LegList
<1>2. TotalFits(s) /\ ValidateLeg(fixed, role, kind, cpi) /\ s.signed
  BY DEF LegSound
<1>3. kind = IF role = "A" THEN "pump_buy" ELSE "pump_sell"
  OBVIOUS
<1> HIDE DEF s, kind, cpi, fixed
<1>4. Len(Segment(s, role)) > 9
  <2>1. CountFits(kind, Len(cpi))
    BY <1>2, Zenon DEF ValidateLeg
  <2>2. Len(cpi) \in 21..26
    <3>1. CASE role = "A"
      BY <1>3, <2>1, <3>1 DEF CountFits
    <3>2. CASE role = "B"
      BY <1>3, <2>1, <3>2 DEF CountFits
    <3> QED
      BY <3>1, <3>2
  <2>3. \A l \in 21..26 : l \in Int /\ l + 1 > 9
    OBVIOUS
  <2> QED
    BY <1>1, <2>2, <2>3, Zenon
<1>5. /\ PoolPosition(kind) = 0 /\ UserPosition(kind) = 1
      /\ UserTokenPositions(kind, role).base = 6
      /\ UserTokenPositions(kind, role).inter = 5
      /\ kind # "raydium" /\ kind # "unknown"
  BY <1>3 DEF PoolPosition, UserPosition, UserTokenPositions, IsPump
<1>6. /\ Has(PoolData, At(cpi, 0)) /\ Owner[At(cpi, 0)] = Program(kind)
      /\ At(cpi, 1) = fixed.user
      /\ At(cpi, 6) = fixed.ta.base /\ At(cpi, 5) = fixed.ta.inter
      /\ \A i \in 0..(Len(cpi) - 1) :
           At(cpi, i) \in {fixed.ta.base, fixed.ta.inter} => i \in {5, 6}
      /\ PumpSound(fixed, kind, cpi, pool)
  BY <1>2, <1>5 DEF ValidateLeg, NotAliased
<1>7. /\ pool.mints = <<fixed.mint.inter, fixed.mint.base>>
      /\ At(cpi, 7) = pool.vaults[1] /\ At(cpi, 8) = pool.vaults[2]
  BY <1>6 DEF PumpSound, Matches
<1>8. /\ x.payer = 1 /\ x.pool = 0
      /\ x.input = (IF role = "A" THEN 6 ELSE 5) /\ x.output = (IF role = "A" THEN 5 ELSE 6)
      /\ x.inVault = (IF role = "A" THEN 8 ELSE 7) /\ x.outVault = (IF role = "A" THEN 7 ELSE 8)
  BY <1>3 DEF ExchangeAccounts
<1> HIDE DEF x
<1>9. /\ <<At(cpi, x.input), At(cpi, x.output)>> = <<fixed.ta[in], fixed.ta[out]>>
      /\ At(cpi, x.payer) = fixed.user
      /\ Has(PoolData, At(cpi, x.pool)) /\ Owner[At(cpi, x.pool)] = Program(kind)
  BY <1>6, <1>8
<1>10. \E k \in 1..2 :
         LET p == PoolData[At(cpi, x.pool)]
         IN  /\ <<p.mints[k], p.mints[3 - k]>> = <<fixed.mint[in], fixed.mint[out]>>
             /\ <<p.vaults[k], p.vaults[3 - k]>> = <<At(cpi, x.inVault), At(cpi, x.outVault)>>
  <2>1. CASE role = "A"
    <3>1. /\ <<pool.mints[2], pool.mints[1]>> = <<fixed.mint[in], fixed.mint[out]>>
          /\ <<pool.vaults[2], pool.vaults[1]>> = <<At(cpi, x.inVault), At(cpi, x.outVault)>>
      BY <1>7, <1>8, <2>1
    <3> QED
      BY <3>1, <1>8
  <2>2. CASE role = "B"
    <3>1. /\ <<pool.mints[1], pool.mints[2]>> = <<fixed.mint[in], fixed.mint[out]>>
          /\ <<pool.vaults[1], pool.vaults[2]>> = <<At(cpi, x.inVault), At(cpi, x.outVault)>>
      BY <1>7, <1>8, <2>2
    <3> QED
      BY <3>1, <1>8
  <2> QED
    BY <2>1, <2>2
<1>11. \A j \in 0..(Len(cpi) - 1) :
         At(cpi, j) \in {fixed.ta.base, fixed.ta.inter} => j \in {x.input, x.output}
  BY <1>6, <1>8
<1>12. PlaysItsRole(s, role)
  BY <1>2, <1>4, <1>5, <1>9, <1>10, <1>11
     DEF PlaysItsRole, cpi, fixed, x, kind
<1> QED
  BY <1>12 DEF s

-----------------------------------------------------------------------------
\* An instruction whose verdict the executor accepted.
LEMMA AcceptedPlays ==
  ASSUME LInv, Calling
  PROVE  submission \in Playing
<1> DEFINE s == Instructions[submission]
<1>1. submission \in DOMAIN Instructions /\ tx = TransactionOf(s)
  BY DEF LInv, Judged, Calling, Verdicts
<1>2. /\ LegSound(s, "A") /\ LegSound(s, "B") /\ FixedSound(s)
      /\ LegKind(s, "A") \in {"raydium", "pump_buy"}
      /\ LegKind(s, "B") \in {"raydium", "pump_sell"}
  BY <1>1 DEF LInv, IInv, NoLegBeforeBothAreSound, AccountsAccepted, Calling,
              TransactionOf, LegKind
<1>3. s.signed
  BY <1>2 DEF FixedSound
<1>4. PlaysItsRole(s, "A")
  BY <1>1, <1>2, <1>3, RaydiumPlays, PumpPlays
<1>5. PlaysItsRole(s, "B")
  BY <1>1, <1>2, <1>3, RaydiumPlays, PumpPlays
<1> QED
  BY <1>1, <1>4, <1>5 DEF Playing

\* The executor with its accounts is the executor.
LEMMA InitStep == LegsInit => Init /\ LInv
<1> SUFFICES ASSUME LegsInit PROVE LInv
  BY DEF LegsInit
<1> QED
  BY InitIInv DEF LegsInit, Init, LInv, Judged, AccountsAccepted, Calling

LEMMA LegsStep == [LegsNext]_legVars => [Next]_vars
<1> SUFFICES ASSUME [LegsNext]_legVars PROVE [Next]_vars
  OBVIOUS
<1>1. ASSUME NEW n \in DOMAIN Instructions, SubmitAccounts(n) PROVE Next
  BY <1>1, InstructionsAssumption DEF SubmitAccounts, Next
<1>2. CASE Proceed
  BY <1>2 DEF Proceed, Next
<1>3. CASE UNCHANGED legVars
  BY <1>3 DEF legVars
<1> QED
  BY <1>1, <1>2, <1>3 DEF LegsNext

LEMMA LInvStep == LInv /\ [LegsNext]_legVars => LInv'
<1> SUFFICES ASSUME LInv, [LegsNext]_legVars PROVE LInv'
  OBVIOUS
<1>1. IInv'
  BY LegsStep, NextIInv DEF LInv
<1>2. ASSUME NEW n \in DOMAIN Instructions, SubmitAccounts(n)
      PROVE  Judged' /\ AccountsAccepted'
  BY <1>2 DEF SubmitAccounts, Submit, Judged, AccountsAccepted, Calling
<1>3. CASE Proceed
  <2>1. ASSUME stage' # "idle" PROVE submission' = submission /\ tx' = tx /\ stage # "idle"
    BY <1>3, <2>1 DEF Proceed, Validate, CallLegA, MeasureLegA, CallLegB, Call, Guard, Fail, End
  <2>2. ASSUME Calling', ~Calling PROVE tx.fixedSound
    BY <1>3, <2>2 DEF Proceed, Validate, Accepted, CallLegA, MeasureLegA, CallLegB, Call,
                      Guard, Fail, End, Calling
  <2>3. Judged'
    BY <2>1 DEF LInv, Judged
  <2>4. AccountsAccepted'
    BY <2>1, <2>2 DEF LInv, AccountsAccepted, Calling
  <2> QED
    BY <1>1, <2>3, <2>4 DEF LInv
<1>4. CASE UNCHANGED legVars
  <2>1. vars' = vars /\ submission' = submission
    BY <1>4 DEF legVars
  <2>2. stage' = stage /\ tx' = tx
    BY <2>1 DEF vars
  <2> QED
    BY <1>1, <2>1, <2>2 DEF LInv, Judged, AccountsAccepted, Calling
<1> QED
  BY <1>1, <1>2, <1>3, <1>4 DEF LegsNext, LInv

\* The executor with its accounts (lib.rs and legs.rs) behaves as Executor
\* says, its verdicts being what the checks of the accounts find; hence it
\* is as atomic as the executor is.
THEOREM LegsAreAtomic == LegsSpec => Spec /\ ImplementsAtomicCircuit
<1>1. LegsSpec => Spec
  BY InitStep, LegsStep, PTL DEF LegsSpec, Spec
<1> QED
  BY <1>1, ExecutorIsAtomic

\* Whatever accounts an instruction lists, an exchange is only called to swap
\* between the two guarded accounts, and finds them in no other place
\* (validate_leg and check_aliasing).
THEOREM LegsPlay == LegsSpec => []LegsPlayTheirRoles
<1>1. LInv => LegsPlayTheirRoles
  BY AcceptedPlays DEF LegsPlayTheirRoles, Calling
<1> QED
  BY <1>1, InitStep, LInvStep, PTL DEF LegsSpec

-----------------------------------------------------------------------------
(***************************************************************************)
(* What the builders make of a circuit, for any pools of WSOL and one      *)
(* token: the positions the executor looks at, read off the lists.         *)
(***************************************************************************)

\* The names the builders know, which are strings too; the provers do not know
\* that a text is one.
BuilderNames ==
  {"user", "base_ta", "inter_ta", "raydium_program", "pump_program", "raydium_authority",
   "pump_global_config", "fee_recipient", "fee_recipient_ata", "system_program",
   "ata_program", "pump_event_authority", "creator_vault_ata", "creator_vault_authority",
   "pump_fee_config", "pump_fee_program", "global_volume", "user_volume",
   "user_volume_ata", "pool_v2", "buyback", "buyback_ata", "wsol", "token_program",
   "token_2022_program"}
Keys == STRING \cup BuilderNames

\* Names that are not the user's accounts.
Foreign == Keys \ {"base_ta", "inter_ta"}

\* A list that goes on after another.
LEMMA ListGoesOn ==
  ASSUME NEW S, NEW s \in Seq(S), NEW t \in Seq(S)
  PROVE  /\ s \o t \in Seq(S)
         /\ Len(s \o t) = Len(s) + Len(t)
         /\ \A i \in 1..Len(s) : (s \o t)[i] = s[i]
         /\ \A i \in 1..Len(t) : (s \o t)[Len(s) + i] = t[i]
<1>1. /\ s \o t \in Seq(S) /\ Len(s \o t) = Len(s) + Len(t)
      /\ \A i \in 1..(Len(s) + Len(t)) :
           (s \o t)[i] = IF i <= Len(s) THEN s[i] ELSE t[i - Len(s)]
  BY ConcatProperties
<1>2. Len(s) \in Nat /\ Len(t) \in Nat
  BY LenProperties
<1> QED
  BY <1>1, <1>2

\* A leg that follows the program it is for, and is followed by others.
LEMMA SegmentOfLists ==
  ASSUME NEW S, NEW s \in Seq(S), NEW t \in Seq(S), NEW u \in Seq(S), NEW x \in S
  PROVE  /\ SubSeq(s \o t \o u, Len(s) + 1, Len(s) + Len(t)) = t
         /\ SubSeq(s \o t \o u, Len(s) + Len(t) + 1, Len(s) + Len(t) + Len(u)) = u
         /\ Len(s \o t \o u) = Len(s) + Len(t) + Len(u)
         /\ <<x>> \o t \in Seq(S) /\ Len(<<x>> \o t) = Len(t) + 1
         /\ (<<x>> \o t)[1] = x /\ Tail(<<x>> \o t) = t
<1> DEFINE a == s \o t
           all == a \o u
           long == <<x>> \o t
<1>1. Len(s) \in Nat /\ Len(t) \in Nat /\ Len(u) \in Nat
  BY LenProperties
<1>2. /\ a \in Seq(S) /\ Len(a) = Len(s) + Len(t)
      /\ \A i \in 1..Len(s) : a[i] = s[i]
      /\ \A i \in 1..Len(t) : a[Len(s) + i] = t[i]
  BY ListGoesOn
<1> HIDE DEF a
<1>3. /\ all \in Seq(S) /\ Len(all) = Len(a) + Len(u)
      /\ \A i \in 1..Len(a) : all[i] = a[i]
      /\ \A i \in 1..Len(u) : all[Len(a) + i] = u[i]
  <2>1. \A v \in Seq(S) :
          /\ v \o u \in Seq(S) /\ Len(v \o u) = Len(v) + Len(u)
          /\ \A i \in 1..Len(v) : (v \o u)[i] = v[i]
          /\ \A i \in 1..Len(u) : (v \o u)[Len(v) + i] = u[i]
    BY ListGoesOn
  <2> QED
    BY <1>2, <2>1
<1> HIDE DEF all
<1>4. SubSeq(all, Len(s) + 1, Len(s) + Len(t)) = t
  <2> DEFINE sub == SubSeq(all, Len(s) + 1, Len(s) + Len(t))
  <2>1. /\ sub \in Seq(S) /\ Len(sub) = Len(t)
        /\ \A i \in 1..Len(t) : sub[i] = all[Len(s) + i]
    BY <1>1, <1>2, <1>3
  <2> HIDE DEF sub
  <2>2. \A i \in 1..Len(t) : sub[i] = t[i]
    <3> SUFFICES ASSUME NEW i \in 1..Len(t) PROVE sub[i] = t[i]
      OBVIOUS
    <3>1. Len(s) + i \in 1..Len(a)
      BY <1>1, <1>2
    <3> QED
      BY <1>2, <1>3, <2>1, <3>1
  <2>3. sub = t
    BY <2>1, <2>2, SeqEqual
  <2> QED
    BY <2>3 DEF sub
<1>5. SubSeq(all, Len(s) + Len(t) + 1, Len(s) + Len(t) + Len(u)) = u
  <2> DEFINE sub == SubSeq(all, Len(s) + Len(t) + 1, Len(s) + Len(t) + Len(u))
  <2>1. /\ sub \in Seq(S) /\ Len(sub) = Len(u)
        /\ \A i \in 1..Len(u) : sub[i] = all[Len(s) + Len(t) + i]
    BY <1>1, <1>2, <1>3
  <2> HIDE DEF sub
  <2>2. \A i \in 1..Len(u) : sub[i] = u[i]
    BY <1>1, <1>2, <1>3, <2>1
  <2>3. sub = u
    BY <2>1, <2>2, SeqEqual
  <2> QED
    BY <2>3 DEF sub
<1>6. <<x>> \in Seq(S) /\ Len(<<x>>) = 1 /\ <<x>>[1] = x
  OBVIOUS
<1>7. /\ long \in Seq(S) /\ Len(long) = 1 + Len(t)
      /\ long[1] = x
      /\ \A i \in 1..Len(t) : long[1 + i] = t[i]
  BY <1>6, ListGoesOn
<1>8. Tail(long) = t
  <2> HIDE DEF long
  <2>1. long # << >>
    BY <1>1, <1>7
  <2>2. /\ Tail(long) \in Seq(S) /\ Len(Tail(long)) = Len(t)
        /\ \A i \in 1..Len(t) : Tail(long)[i] = long[i + 1]
    BY <1>1, <1>7, <2>1, HeadTailProperties
  <2>3. \A i \in 1..Len(t) : Tail(long)[i] = t[i]
    BY <1>1, <1>7, <2>2
  <2> QED
    BY <2>2, <2>3, SeqEqual
<1> QED
  BY <1>1, <1>2, <1>3, <1>4, <1>5, <1>7, <1>8 DEF all, a

\* The fixed accounts of a circuit through a token.
FixedOf(token) ==
  [user |-> "user",
   ta |-> [base |-> "base_ta", inter |-> "inter_ta"],
   mint |-> [base |-> "wsol", inter |-> token],
   prog |-> [base |-> Owner["wsol"], inter |-> Owner[token]]]

MintIn(role, token) == IF role = "A" THEN "wsol" ELSE token
MintOut(role, token) == IF role = "A" THEN token ELSE "wsol"

\* Mints and token programs are none of the user's accounts.
LEMMA OwnNames ==
  ASSUME NEW mint, HasAccountOf(mint)
  PROVE  /\ mint \in Foreign
         /\ Owner[mint] \in {"token_program", "token_2022_program"}
         /\ Owner[mint] \in Foreign
<1>1. mint \in Foreign /\ Owner[mint] \in {"token_program", "token_2022_program"}
  BY DEF HasAccountOf, Foreign, Keys
<1>2. {"token_program", "token_2022_program"} \subseteq Foreign
  BY DEF Foreign, Keys, BuilderNames
<1> QED
  BY <1>1, <1>2

\* The list that the Raydium adapter makes is what the executor looks for.
LEMMA BuiltRaydium ==
  ASSUME NEW pool, NEW token, NEW role \in {"A", "B"}, token # "wsol",
         HasAccountOf("wsol"), HasAccountOf(token),
         Has(PoolData, pool), PoolOf(pool, token), PoolData[pool].kind = "raydium"
  PROVE  LET cpi == BuildRaydium(pool, MintIn(role, token), MintOut(role, token))
         IN  /\ cpi \in Seq(Keys)
             /\ Len(cpi) = 13
             /\ ValidateLeg(FixedOf(token), role, "raydium", cpi)
<1> DEFINE in == MintIn(role, token)
           out == MintOut(role, token)
           d == PoolData[pool]
           i == CHOOSE j \in 1..2 : d.mints[j] = in
           o == 3 - i
           cpi == BuildRaydium(pool, in, out)
           fixed == FixedOf(token)
<1>1. /\ {in, out} = {"wsol", token} /\ in # out
      /\ in = (IF role = "A" THEN "wsol" ELSE token)
      /\ out = (IF role = "A" THEN token ELSE "wsol")
  BY DEF MintIn, MintOut
<1>2. /\ Has(Owner, pool) /\ Owner[pool] = "raydium_program"
      /\ d.mints \in {<<token, "wsol">>, <<"wsol", token>>}
      /\ d.programs = <<Owner[d.mints[1]], Owner[d.mints[2]]>>
      /\ Names(<<pool, d.vaults[1], d.vaults[2], d.config, d.observation>>)
  BY DEF PoolOf
<1>3. {pool, d.vaults[1], d.vaults[2], d.config, d.observation} \subseteq Foreign
  <2> DEFINE keys == <<pool, d.vaults[1], d.vaults[2], d.config, d.observation>>
  <2>1. \A k \in 1..5 : keys[k] \in Foreign
    BY <1>2 DEF Names, Foreign, Keys
  <2>2. /\ keys[1] = pool /\ keys[2] = d.vaults[1] /\ keys[3] = d.vaults[2]
        /\ keys[4] = d.config /\ keys[5] = d.observation
    OBVIOUS
  <2> HIDE DEF keys
  <2>3. keys[1] \in Foreign /\ keys[2] \in Foreign /\ keys[3] \in Foreign
        /\ keys[4] \in Foreign /\ keys[5] \in Foreign
    BY <2>1
  <2> QED
    BY <2>2, <2>3
<1>4. i \in 1..2 /\ d.mints[i] = in /\ d.mints[o] = out
  <2>1. \E j \in 1..2 : d.mints[j] = in
    BY <1>1, <1>2
  <2>2. i \in 1..2 /\ d.mints[i] = in
    BY <2>1
  <2> HIDE DEF i
  <2>3. CASE d.mints = <<token, "wsol">>
    BY <1>1, <2>2, <2>3
  <2>4. CASE d.mints = <<"wsol", token>>
    BY <1>1, <2>2, <2>4
  <2> QED
    BY <1>2, <2>3, <2>4
<1>5. cpi = <<"user", "raydium_authority", d.config, pool, UserAccount(in), UserAccount(out),
              d.vaults[i], d.vaults[o], Owner[in], Owner[out], in, out, d.observation>>
  BY DEF BuildRaydium
<1>6. /\ UserAccount(in) = (IF role = "A" THEN "base_ta" ELSE "inter_ta")
      /\ UserAccount(out) = (IF role = "A" THEN "inter_ta" ELSE "base_ta")
  BY <1>1 DEF UserAccount
<1>7. {in, out, Owner[in], Owner[out]} \subseteq Foreign
  <2>1. \A m \in {"wsol", token} : m \in Foreign /\ Owner[m] \in Foreign
    BY OwnNames
  <2> QED
    BY <1>1, <2>1
<1> HIDE DEF in, out, i
<1>8. /\ d.vaults[i] \in Foreign /\ d.vaults[o] \in Foreign
      /\ d.programs[i] = Owner[in] /\ d.programs[o] = Owner[out]
  <2>1. i \in {1, 2}
    BY <1>4
  <2>2. CASE i = 1
    BY <1>2, <1>3, <1>4, <2>2
  <2>3. CASE i = 2
    BY <1>2, <1>3, <1>4, <2>3
  <2> QED
    BY <2>1, <2>2, <2>3
<1> HIDE DEF cpi, d
<1>9. /\ cpi \in Seq(Keys) /\ Len(cpi) = 13
      /\ \A k \in 0..12 : At(cpi, k) \in Foreign \/ k \in {4, 5}
  <2>1. "user" \in Foreign /\ "raydium_authority" \in Foreign
    BY DEF Foreign, Keys, BuilderNames
  <2>2. UserAccount(in) \in Keys /\ UserAccount(out) \in Keys
    BY <1>6 DEF Keys, BuilderNames
  <2>3. \A x \in Foreign : x \in Keys
    BY DEF Foreign
  <2>4. cpi \in Seq(Keys) /\ Len(cpi) = 13
    BY <1>3, <1>5, <1>7, <1>8, <2>1, <2>2, <2>3
  <2>5. \A k \in 1..13 : cpi[k] \in Foreign \/ k \in {5, 6}
    BY <1>3, <1>5, <1>7, <1>8, <2>1
  <2> QED
    BY <2>4, <2>5 DEF At
<1>10. /\ At(cpi, 0) = "user" /\ At(cpi, 1) = "raydium_authority" /\ At(cpi, 2) = d.config
       /\ At(cpi, 3) = pool /\ At(cpi, 4) = UserAccount(in) /\ At(cpi, 5) = UserAccount(out)
       /\ At(cpi, 6) = d.vaults[i] /\ At(cpi, 7) = d.vaults[o] /\ At(cpi, 8) = Owner[in]
       /\ At(cpi, 9) = Owner[out] /\ At(cpi, 10) = in /\ At(cpi, 11) = out
       /\ At(cpi, 12) = d.observation
  BY <1>5 DEF At
<1>11. /\ fixed.user = "user" /\ fixed.ta.base = "base_ta" /\ fixed.ta.inter = "inter_ta"
       /\ fixed.mint.base = "wsol" /\ fixed.mint.inter = token
       /\ fixed.prog.base = Owner["wsol"] /\ fixed.prog.inter = Owner[token]
  BY DEF FixedOf
<1> HIDE DEF fixed
<1> DEFINE at == UserTokenPositions("raydium", role)
<1>12. at.base = (IF role = "A" THEN 4 ELSE 5) /\ at.inter = (IF role = "A" THEN 5 ELSE 4)
  BY DEF UserTokenPositions, IsPump
<1> HIDE DEF at
<1>13. \A side \in {"base", "inter"} : At(cpi, at[side]) = fixed.ta[side]
  BY <1>6, <1>10, <1>11, <1>12
<1>14. NotAliased(fixed, cpi, at)
  <2> SUFFICES ASSUME NEW k \in 0..12, NEW side \in {"base", "inter"},
                      At(cpi, k) = fixed.ta[side]
               PROVE  k = at[side]
    BY <1>9 DEF NotAliased
  <2>1. At(cpi, k) \notin Foreign
    BY <1>11 DEF Foreign
  <2>2. k \in {4, 5}
    BY <1>9, <2>1
  <2> QED
    BY <1>6, <1>10, <1>11, <1>12, <2>2
<1>15. RaydiumSound(fixed, role, cpi, d)
  <2> DEFINE sin == IF role = "A" THEN "base" ELSE "inter"
             sout == IF role = "A" THEN "inter" ELSE "base"
  <2>1. /\ fixed.mint[sin] = in /\ fixed.mint[sout] = out
        /\ fixed.prog[sin] = Owner[in] /\ fixed.prog[sout] = Owner[out]
    BY <1>1, <1>11
  <2>2. Matches(cpi,
          {<<1, "raydium_authority">>, <<2, d.config>>,
           <<6, d.vaults[i]>>, <<7, d.vaults[o]>>,
           <<8, fixed.prog[sin]>>, <<9, fixed.prog[sout]>>,
           <<10, fixed.mint[sin]>>, <<11, fixed.mint[sout]>>,
           <<12, d.observation>>})
    BY <1>10, <2>1 DEF Matches
  <2>3. /\ <<d.mints[i], d.mints[o]>> = <<fixed.mint[sin], fixed.mint[sout]>>
        /\ <<d.programs[i], d.programs[o]>> = <<fixed.prog[sin], fixed.prog[sout]>>
    BY <1>4, <1>8, <2>1
  <2>4. d.kind = "raydium"
    BY DEF d
  <2> HIDE DEF sin, sout
  <2> QED
    BY <1>4, <2>2, <2>3, <2>4 DEF RaydiumSound, sin, sout
<1>16. ValidateLeg(fixed, role, "raydium", cpi)
  <2>1. CountFits("raydium", Len(cpi))
    BY <1>9 DEF CountFits
  <2>2. At(cpi, PoolPosition("raydium")) = pool /\ At(cpi, UserPosition("raydium")) = fixed.user
    BY <1>10, <1>11 DEF PoolPosition, UserPosition
  <2>3. Owner[pool] = Program("raydium")
    BY <1>2 DEF Program
  <2> QED
    BY <1>2, <1>13, <1>14, <1>15, <2>1, <2>2, <2>3 DEF ValidateLeg, at, d
<1> QED
  BY <1>9, <1>16 DEF cpi, fixed, in, out

\* A list of foreign names goes on after one of 19 that has the user's two
\* accounts at its places 6 and 7.
PumpHead(c, head) ==
  /\ c \in Seq(Keys) /\ Len(c) >= 19
  /\ \A i \in 1..19 : c[i] = head[i]
  /\ \A i \in 1..Len(c) : c[i] \in Foreign \/ i \in {6, 7}

LEMMA PumpGoesOn ==
  ASSUME NEW head, NEW c, PumpHead(c, head), NEW t \in Seq(Foreign)
  PROVE  /\ PumpHead(c \o t, head)
         /\ Len(c \o t) = Len(c) + Len(t)
         /\ \A i \in 1..Len(c) : (c \o t)[i] = c[i]
         /\ \A i \in 1..Len(t) : (c \o t)[Len(c) + i] = t[i]
<1>1. t \in Seq(Keys) /\ c \in Seq(Keys)
  <2>1. Foreign \subseteq Keys
    BY DEF Foreign
  <2> QED
    BY <2>1, SeqMonotonic DEF PumpHead
<1>2. /\ c \o t \in Seq(Keys)
      /\ Len(c \o t) = Len(c) + Len(t)
      /\ \A i \in 1..Len(c) : (c \o t)[i] = c[i]
      /\ \A i \in 1..Len(t) : (c \o t)[Len(c) + i] = t[i]
  BY <1>1, ListGoesOn
<1> DEFINE long == c \o t
<1>3. Len(c) \in Nat /\ Len(t) \in Nat /\ \A i \in 1..Len(t) : t[i] \in Foreign
  BY <1>1
<1> HIDE DEF long
<1>4. /\ long \in Seq(Keys)
      /\ Len(long) = Len(c) + Len(t)
      /\ \A i \in 1..Len(c) : long[i] = c[i]
      /\ \A i \in 1..Len(t) : long[Len(c) + i] = t[i]
  BY <1>2 DEF long
<1>5. ASSUME NEW i \in 1..Len(long) PROVE long[i] \in Foreign \/ i \in {6, 7}
  <2>1. CASE i <= Len(c)
    <3>1. i \in 1..Len(c)
      BY <1>3, <1>4, <2>1
    <3>2. long[i] = c[i] /\ (c[i] \in Foreign \/ i \in {6, 7})
      BY <1>4, <3>1 DEF PumpHead
    <3> QED
      BY <3>2
  <2>2. CASE i > Len(c)
    <3>1. i - Len(c) \in 1..Len(t) /\ Len(c) + (i - Len(c)) = i
      BY <1>3, <1>4, <2>2
    <3> QED
      BY <1>3, <1>4, <3>1
  <2> QED
    BY <1>3, <1>4, <2>1, <2>2
<1>6. Len(long) >= 19 /\ \A i \in 1..19 : long[i] = head[i]
  <2>1. Len(c) >= 19 /\ \A i \in 1..19 : c[i] = head[i]
    BY DEF PumpHead
  <2>2. \A i \in 1..19 : i \in 1..Len(c)
    BY <1>3, <2>1
  <2>3. Len(long) >= 19
    BY <1>3, <1>4, <2>1
  <2> QED
    BY <1>4, <2>1, <2>2, <2>3
<1>7. PumpHead(long, head)
  BY <1>4, <1>5, <1>6 DEF PumpHead
<1> QED
  BY <1>2, <1>7 DEF long

\* What the PumpSwap adapter lists, by position.
NamedOf(pool) ==
  LET d == PoolData[pool] IN
  <<pool, "user", "pump_global_config", d.mints[1], d.mints[2],
    UserAccount(d.mints[1]), UserAccount(d.mints[2]),
    d.vaults[1], d.vaults[2], "fee_recipient", "fee_recipient_ata",
    Owner[d.mints[1]], Owner[d.mints[2]], "system_program", "ata_program",
    "pump_event_authority", "pump_program", "creator_vault_ata",
    "creator_vault_authority">>

PumpLength(pool, isBuy) ==
  LET decoded == DecodePool(PoolData[pool])
  IN  23 + (IF isBuy THEN 2 ELSE 0)
         + (IF ~decoded.cashback THEN 0 ELSE IF isBuy THEN 1 ELSE 2)
         + (IF decoded.creator THEN 1 ELSE 0)

LEMMA PumpList ==
  ASSUME NEW pool, NEW token, NEW isBuy \in BOOLEAN, token # "wsol",
         HasAccountOf("wsol"), HasAccountOf(token),
         PoolOf(pool, token), PoolData[pool].kind = "pump"
  PROVE  LET cpi == BuildPump(pool, isBuy)
             fee == IF isBuy THEN 22 ELSE 20
         IN  /\ PumpHead(cpi, NamedOf(pool))
             /\ Len(cpi) = PumpLength(pool, isBuy)
             /\ cpi[fee] = "pump_fee_config" /\ cpi[fee + 1] = "pump_fee_program"
<1> DEFINE d == PoolData[pool]
           head == NamedOf(pool)
           decoded == DecodePool(d)
           fees == <<"pump_fee_config", "pump_fee_program">>
           volume == IF isBuy THEN <<"global_volume", "user_volume">> ELSE << >>
           cashback == IF ~decoded.cashback THEN << >>
                       ELSE IF isBuy THEN <<"user_volume_ata">> ELSE <<"user_volume_ata", "user_volume">>
           poolV2 == IF decoded.creator THEN <<"pool_v2">> ELSE << >>
           last == <<"buyback", "buyback_ata">>
<1>1. BuildPump(pool, isBuy) = head \o volume \o fees \o cashback \o poolV2 \o last
  BY DEF BuildPump, NamedOf
<1>2. /\ Names(<<pool, d.vaults[1], d.vaults[2]>>)
      /\ d.mints = <<token, "wsol">>
  BY DEF PoolOf
<1>3. pool \in Foreign /\ d.vaults[1] \in Foreign /\ d.vaults[2] \in Foreign
  <2> DEFINE keys == <<pool, d.vaults[1], d.vaults[2]>>
  <2>1. \A k \in 1..3 : keys[k] \in Foreign
    BY <1>2 DEF Names, Foreign, Keys
  <2>2. keys[1] = pool /\ keys[2] = d.vaults[1] /\ keys[3] = d.vaults[2]
    OBVIOUS
  <2> HIDE DEF keys
  <2>3. keys[1] \in Foreign /\ keys[2] \in Foreign /\ keys[3] \in Foreign
    BY <2>1
  <2> QED
    BY <2>2, <2>3
<1>4. {token, "wsol", Owner[token], Owner["wsol"]} \subseteq Foreign
  BY OwnNames
<1>5. UserAccount(token) = "inter_ta" /\ UserAccount("wsol") = "base_ta"
  BY DEF UserAccount
<1>6. BuilderNames \ {"base_ta", "inter_ta"} \subseteq Foreign
  BY DEF Foreign, Keys
<1>7. head = <<pool, "user", "pump_global_config", token, "wsol", "inter_ta", "base_ta",
               d.vaults[1], d.vaults[2], "fee_recipient", "fee_recipient_ata",
               Owner[token], Owner["wsol"], "system_program", "ata_program",
               "pump_event_authority", "pump_program", "creator_vault_ata",
               "creator_vault_authority">>
  BY <1>2, <1>5 DEF NamedOf
<1> HIDE DEF head, d
<1>8. PumpHead(head, head)
  <2>1. {"user", "pump_global_config", "fee_recipient", "fee_recipient_ata", "system_program",
         "ata_program", "pump_event_authority", "pump_program", "creator_vault_ata",
         "creator_vault_authority"} \subseteq Foreign
    BY <1>6 DEF BuilderNames
  <2>2. "inter_ta" \in Keys /\ "base_ta" \in Keys
    BY DEF Keys, BuilderNames
  <2>3. \A x \in Foreign : x \in Keys
    BY DEF Foreign
  <2>4. head \in Seq(Keys) /\ Len(head) = 19
    BY <1>3, <1>4, <1>7, <2>1, <2>2, <2>3
  <2>5. \A i \in 1..19 : head[i] \in Foreign \/ i \in {6, 7}
    BY <1>3, <1>4, <1>7, <2>1
  <2> QED
    BY <2>4, <2>5 DEF PumpHead
<1>9. Len(head) = 19
  BY <1>7
<1>10. /\ volume \in Seq(Foreign) /\ Len(volume) = (IF isBuy THEN 2 ELSE 0)
       /\ fees \in Seq(Foreign) /\ Len(fees) = 2
       /\ fees[1] = "pump_fee_config" /\ fees[2] = "pump_fee_program"
  BY <1>6 DEF BuilderNames
<1>11. /\ cashback \in Seq(Foreign)
       /\ Len(cashback) = (IF ~decoded.cashback THEN 0 ELSE IF isBuy THEN 1 ELSE 2)
  BY <1>6 DEF BuilderNames
<1>12. /\ poolV2 \in Seq(Foreign) /\ Len(poolV2) = (IF decoded.creator THEN 1 ELSE 0)
       /\ last \in Seq(Foreign) /\ Len(last) = 2
  BY <1>6 DEF BuilderNames
<1> HIDE DEF volume, fees, cashback, poolV2, last, decoded
<1>30. \A c, t : PumpHead(c, head) /\ t \in Seq(Foreign) =>
        /\ PumpHead(c \o t, head)
        /\ Len(c \o t) = Len(c) + Len(t)
        /\ \A i \in 1..Len(c) : (c \o t)[i] = c[i]
        /\ \A i \in 1..Len(t) : (c \o t)[Len(c) + i] = t[i]
  BY PumpGoesOn
<1> DEFINE c1 == head \o volume
           c2 == c1 \o fees
           c3 == c2 \o cashback
           c4 == c3 \o poolV2
           c5 == c4 \o last
           fee == IF isBuy THEN 22 ELSE 20
<1>13. PumpHead(c1, head) /\ Len(c1) = Len(head) + Len(volume)
  BY <1>8, <1>10, <1>30
<1> HIDE DEF c1
<1>14. /\ PumpHead(c2, head) /\ Len(c2) = Len(c1) + Len(fees)
       /\ \A i \in 1..Len(fees) : c2[Len(c1) + i] = fees[i]
  <2>1. PumpHead(c1, head)
    BY <1>13
  <2>2. fees \in Seq(Foreign)
    BY <1>10
  <2> QED
    BY <1>30, <2>1, <2>2
<1> HIDE DEF c2
<1>15. /\ PumpHead(c3, head) /\ Len(c3) = Len(c2) + Len(cashback)
       /\ \A i \in 1..Len(c2) : c3[i] = c2[i]
  <2>1. PumpHead(c2, head)
    BY <1>14
  <2>2. cashback \in Seq(Foreign)
    BY <1>11
  <2> QED
    BY <1>30, <2>1, <2>2
<1> HIDE DEF c3
<1>16. /\ PumpHead(c4, head) /\ Len(c4) = Len(c3) + Len(poolV2)
       /\ \A i \in 1..Len(c3) : c4[i] = c3[i]
  <2>1. PumpHead(c3, head)
    BY <1>15
  <2>2. poolV2 \in Seq(Foreign)
    BY <1>12
  <2> QED
    BY <1>30, <2>1, <2>2
<1> HIDE DEF c4
<1>17. /\ PumpHead(c5, head) /\ Len(c5) = Len(c4) + Len(last)
       /\ \A i \in 1..Len(c4) : c5[i] = c4[i]
  <2>1. PumpHead(c4, head)
    BY <1>16
  <2>2. last \in Seq(Foreign)
    BY <1>12
  <2> QED
    BY <1>30, <2>1, <2>2
<1> HIDE DEF c5
<1>18. Len(c1) + 1 = fee /\ Len(c2) = fee + 1
  BY <1>9, <1>10, <1>13, <1>14
<1>19. Len(cashback) \in Nat /\ Len(poolV2) \in Nat /\ Len(c1) \in Nat
  BY <1>9, <1>10, <1>11, <1>12, <1>13
<1>20. c2[fee] = "pump_fee_config" /\ c2[fee + 1] = "pump_fee_program"
  BY <1>10, <1>14, <1>18, <1>19
<1>21. /\ fee \in 1..Len(c2) /\ fee + 1 \in 1..Len(c2)
       /\ fee \in 1..Len(c3) /\ fee + 1 \in 1..Len(c3)
       /\ fee \in 1..Len(c4) /\ fee + 1 \in 1..Len(c4)
  BY <1>15, <1>16, <1>18, <1>19
<1>22. c5[fee] = "pump_fee_config" /\ c5[fee + 1] = "pump_fee_program"
  BY <1>15, <1>16, <1>17, <1>20, <1>21
<1>23. Len(c5) = PumpLength(pool, isBuy)
  BY <1>9, <1>10, <1>11, <1>12, <1>13, <1>14, <1>15, <1>16, <1>17
     DEF PumpLength, decoded, d
<1>24. BuildPump(pool, isBuy) = c5
  BY <1>1 DEF c1, c2, c3, c4, c5
<1> QED
  BY <1>17, <1>22, <1>23, <1>24 DEF head

\* The executor takes what the PumpSwap adapter lists unless it is too long.
LEMMA BuiltPump ==
  ASSUME NEW pool, NEW token, NEW role \in {"A", "B"}, token # "wsol",
         HasAccountOf("wsol"), HasAccountOf(token),
         Has(PoolData, pool), PoolOf(pool, token), PoolData[pool].kind = "pump"
  PROVE  LET cpi == BuildPump(pool, role = "A")
             kind == IF role = "A" THEN "pump_buy" ELSE "pump_sell"
         IN  /\ cpi \in Seq(Keys)
             /\ CountFits(kind, Len(cpi)) <=> ~TooLong(role, PoolData[pool])
             /\ ValidateLeg(FixedOf(token), role, kind, cpi) <=> ~TooLong(role, PoolData[pool])
<1> DEFINE d == PoolData[pool]
           isBuy == role = "A"
           cpi == BuildPump(pool, isBuy)
           kind == IF role = "A" THEN "pump_buy" ELSE "pump_sell"
           fixed == FixedOf(token)
           head == NamedOf(pool)
           long == TooLong(role, d)
           decoded == DecodePool(d)
           fee == FeeConfigPosition(kind)
           at == UserTokenPositions(kind, role)
<1>1. /\ PumpHead(cpi, head)
      /\ Len(cpi) = PumpLength(pool, isBuy)
      /\ cpi[IF isBuy THEN 22 ELSE 20] = "pump_fee_config"
      /\ cpi[(IF isBuy THEN 22 ELSE 20) + 1] = "pump_fee_program"
  <2>1. isBuy \in BOOLEAN
    OBVIOUS
  <2> QED
    BY <2>1, PumpList
<1>2. /\ d.kind = "pump" /\ d.mints = <<token, "wsol">> /\ d.length >= 211
      /\ Has(Owner, pool) /\ Owner[pool] = "pump_program"
  <2>1. /\ d.mints = <<token, "wsol">> /\ d.length \in Nat /\ Routable(d)
        /\ Has(Owner, pool) /\ Owner[pool] = "pump_program"
    BY DEF PoolOf
  <2>2. d.length >= 211
    BY <2>1 DEF Routable, DecodePool, KnownLength
  <2> QED
    BY <2>1, <2>2
<1>3. /\ fixed.user = "user" /\ fixed.ta.base = "base_ta" /\ fixed.ta.inter = "inter_ta"
      /\ fixed.mint.base = "wsol" /\ fixed.mint.inter = token
      /\ fixed.prog.base = Owner["wsol"] /\ fixed.prog.inter = Owner[token]
  BY DEF FixedOf
<1>4. UserAccount(token) = "inter_ta" /\ UserAccount("wsol") = "base_ta"
  BY DEF UserAccount
<1>5. head = <<pool, "user", "pump_global_config", token, "wsol", "inter_ta", "base_ta",
               d.vaults[1], d.vaults[2], "fee_recipient", "fee_recipient_ata",
               Owner[token], Owner["wsol"], "system_program", "ata_program",
               "pump_event_authority", "pump_program", "creator_vault_ata",
               "creator_vault_authority">>
  BY <1>2, <1>4 DEF NamedOf
<1>6. /\ fee = (IF role = "A" THEN 21 ELSE 19)
      /\ at.base = 6 /\ at.inter = 5
      /\ PoolPosition(kind) = 0 /\ UserPosition(kind) = 1 /\ Program(kind) = "pump_program"
      /\ kind # "raydium"
  BY DEF FeeConfigPosition, UserTokenPositions, IsPump, PoolPosition, UserPosition, Program
<1>7. CountFits(kind, Len(cpi)) <=> ~long
  <2>1. CASE role = "A"
    <3>1. Len(cpi) = 25 + (IF decoded.cashback THEN 1 ELSE 0) + (IF decoded.creator THEN 1 ELSE 0)
      BY <1>1, <2>1 DEF PumpLength
    <3>2. long <=> decoded.cashback /\ decoded.creator
      BY <1>2, <2>1 DEF TooLong
    <3>3. CountFits(kind, Len(cpi)) <=> Len(cpi) \in 23..26
      BY <2>1 DEF CountFits
    <3> HIDE DEF cpi, long, kind, decoded
    <3> QED
      BY <3>1, <3>2, <3>3
  <2>2. CASE role = "B"
    <3>1. Len(cpi) = 23 + (IF decoded.cashback THEN 2 ELSE 0) + (IF decoded.creator THEN 1 ELSE 0)
      BY <1>1, <2>2 DEF PumpLength
    <3>2. long <=> decoded.cashback
      BY <1>2, <2>2 DEF TooLong
    <3>3. CountFits(kind, Len(cpi)) <=> Len(cpi) \in 21..24
      BY <2>2 DEF CountFits
    <3> HIDE DEF cpi, long, kind, decoded
    <3> QED
      BY <3>1, <3>2, <3>3
  <2> QED
    BY <2>1, <2>2
<1>8. Len(cpi) \in Nat /\ fee + 1 < Len(cpi)
  BY <1>1, <1>6 DEF PumpLength
<1> HIDE DEF cpi, head, fixed, long, at, fee, kind
<1>9. /\ At(cpi, 0) = pool /\ At(cpi, 1) = "user" /\ At(cpi, 2) = "pump_global_config"
      /\ At(cpi, 3) = token /\ At(cpi, 4) = "wsol"
      /\ At(cpi, 5) = "inter_ta" /\ At(cpi, 6) = "base_ta"
      /\ At(cpi, 7) = d.vaults[1] /\ At(cpi, 8) = d.vaults[2]
      /\ At(cpi, 11) = Owner[token] /\ At(cpi, 12) = Owner["wsol"]
      /\ At(cpi, 13) = "system_program" /\ At(cpi, 14) = "ata_program"
      /\ At(cpi, 15) = "pump_event_authority" /\ At(cpi, 16) = "pump_program"
  <2>1. \A i \in 1..19 : cpi[i] = head[i]
    BY <1>1 DEF PumpHead
  <2>2. /\ cpi[1] = head[1] /\ cpi[2] = head[2] /\ cpi[3] = head[3] /\ cpi[4] = head[4]
        /\ cpi[5] = head[5] /\ cpi[6] = head[6] /\ cpi[7] = head[7] /\ cpi[8] = head[8]
        /\ cpi[9] = head[9] /\ cpi[12] = head[12] /\ cpi[13] = head[13] /\ cpi[14] = head[14]
        /\ cpi[15] = head[15] /\ cpi[16] = head[16] /\ cpi[17] = head[17]
    BY <2>1
  <2> QED
    BY <1>5, <2>2 DEF At
<1>10. At(cpi, fee) = "pump_fee_config" /\ At(cpi, fee + 1) = "pump_fee_program"
  BY <1>1, <1>6 DEF At
<1>11. \A side \in {"base", "inter"} : At(cpi, at[side]) = fixed.ta[side]
  BY <1>3, <1>6, <1>9
<1>12. NotAliased(fixed, cpi, at)
  <2> SUFFICES ASSUME NEW k \in 0..(Len(cpi) - 1), NEW side \in {"base", "inter"},
                      At(cpi, k) = fixed.ta[side]
               PROVE  k = at[side]
    BY DEF NotAliased
  <2>1. At(cpi, k) \notin Foreign
    BY <1>3 DEF Foreign
  <2>2. k + 1 \in 1..Len(cpi)
    BY <1>8
  <2>3. k + 1 \in {6, 7}
    BY <1>1, <2>1, <2>2 DEF At, PumpHead
  <2>4. k \in {5, 6}
    BY <1>8, <2>3
  <2> QED
    BY <1>3, <1>6, <1>9, <2>4
<1>13. PumpSound(fixed, kind, cpi, d)
  <2>1. d.mints[1] = token /\ d.mints[2] = "wsol"
    BY <1>2
  <2>2. Matches(cpi,
          {<<2, "pump_global_config">>, <<3, d.mints[1]>>, <<4, d.mints[2]>>,
           <<7, d.vaults[1]>>, <<8, d.vaults[2]>>,
           <<11, fixed.prog.inter>>, <<12, fixed.prog.base>>,
           <<13, "system_program">>, <<14, "ata_program">>,
           <<15, "pump_event_authority">>, <<16, "pump_program">>,
           <<fee, "pump_fee_config">>, <<fee + 1, "pump_fee_program">>})
    BY <1>3, <1>9, <1>10, <2>1 DEF Matches
  <2> QED
    BY <1>2, <1>3, <1>8, <2>2 DEF PumpSound, fee
<1>14. ValidateLeg(fixed, role, kind, cpi) <=> CountFits(kind, Len(cpi))
  BY <1>2, <1>3, <1>6, <1>9, <1>11, <1>12, <1>13 DEF ValidateLeg, at
<1>15. cpi \in Seq(Keys)
  BY <1>1 DEF PumpHead
<1> QED
  BY <1>7, <1>14, <1>15 DEF cpi, kind, fixed, long

\* A leg of a circuit, of either exchange.
LegTaken(pool, role, token) ==
  LET cpi == BuildLeg(pool, role, token)
      kind == KindOf(pool, role)
  IN  /\ cpi \in Seq(Keys) /\ Len(cpi) >= 13
      /\ kind \in {"raydium", "pump_buy", "pump_sell"} /\ Program(kind) \in Keys
      /\ Len(cpi) \in CpiAccountCount(kind) <=> ~TooLong(role, PoolData[pool])
      /\ ValidateLeg(FixedOf(token), role, kind, cpi) <=> ~TooLong(role, PoolData[pool])

LEMMA BuiltLeg ==
  ASSUME NEW pool, NEW token, NEW role \in {"A", "B"}, token # "wsol",
         HasAccountOf("wsol"), HasAccountOf(token),
         Has(PoolData, pool), PoolOf(pool, token)
  PROVE  LegTaken(pool, role, token)
<1> DEFINE cpi == BuildLeg(pool, role, token)
           kind == KindOf(pool, role)
           d == PoolData[pool]
<1>1. CASE d.kind = "raydium"
  <2>1. kind = "raydium"
    BY <1>1 DEF KindOf
  <2>2. cpi = BuildRaydium(pool, MintIn(role, token), MintOut(role, token))
    BY <2>1 DEF BuildLeg, MintIn, MintOut
  <2>3. cpi \in Seq(Keys) /\ Len(cpi) = 13 /\ ValidateLeg(FixedOf(token), role, kind, cpi)
    BY <1>1, <2>1, <2>2, BuiltRaydium
  <2>4. ~TooLong(role, d)
    BY <1>1 DEF TooLong
  <2>5. CpiAccountCount(kind) = 13..13
    BY <2>1 DEF CpiAccountCount
  <2>6. Program(kind) \in Keys
    BY <2>1 DEF Program, Keys, BuilderNames
  <2> HIDE DEF cpi, kind, d
  <2>7. Len(cpi) \in CpiAccountCount(kind) <=> ~TooLong(role, d)
    BY <2>3, <2>4, <2>5
  <2>8. Len(cpi) >= 13
    BY <2>3
  <2> QED
    BY <2>1, <2>3, <2>4, <2>6, <2>7, <2>8, Zenon DEF LegTaken, cpi, kind, d
<1>2. CASE d.kind = "pump"
  <2>1. kind = IF role = "A" THEN "pump_buy" ELSE "pump_sell"
    BY <1>2 DEF KindOf
  <2>2. cpi = BuildPump(pool, role = "A")
    BY <2>1 DEF BuildLeg
  <2>3. /\ cpi \in Seq(Keys)
        /\ CountFits(kind, Len(cpi)) <=> ~TooLong(role, d)
        /\ ValidateLeg(FixedOf(token), role, kind, cpi) <=> ~TooLong(role, d)
    BY <1>2, <2>1, <2>2, BuiltPump
  <2>4. CountFits(kind, Len(cpi)) <=> Len(cpi) \in CpiAccountCount(kind)
    BY <2>1 DEF CountFits, CpiAccountCount
  <2>5. Len(cpi) >= 13
    <3>1. (role = "A") \in BOOLEAN
      OBVIOUS
    <3>2. PumpHead(cpi, NamedOf(pool))
      BY <1>2, <2>2, <3>1, PumpList
    <3>3. Len(cpi) >= 19 /\ Len(cpi) \in Nat
      BY <3>2 DEF PumpHead
    <3> QED
      BY <3>3
  <2>6. Program(kind) \in Keys
    BY <2>1 DEF Program, Keys, BuilderNames
  <2>7. kind \in {"raydium", "pump_buy", "pump_sell"}
    BY <2>1
  <2> HIDE DEF cpi, kind, d
  <2> QED
    BY <2>3, <2>4, <2>5, <2>6, <2>7, Zenon DEF LegTaken, cpi, kind, d
<1> QED
  BY <1>1, <1>2 DEF PoolOf

\* A leg's part of a built instruction is what its adapter lists, behind its
\* program.
LEMMA BuiltSegments ==
  ASSUME NEW figures, NEW a, NEW b, NEW token,
         HasAccountOf("wsol"), HasAccountOf(token),
         LegTaken(a, "A", token), LegTaken(b, "B", token)
  PROVE  LET s == BuildExecuteCircuit(figures, a, b, token)
             programA == Program(KindOf(a, "A"))
             programB == Program(KindOf(b, "B"))
         IN  /\ s.signed /\ TotalFits(s) /\ s.builtOf = <<a, b>>
             /\ Fixed(s.accounts) = FixedOf(token)
             /\ s.legAKind = KindOf(a, "A") /\ s.legBKind = KindOf(b, "B")
             /\ Len(Segment(s, "A")) = Len(BuildLeg(a, "A", token)) + 1
             /\ Len(Segment(s, "B")) = Len(BuildLeg(b, "B", token)) + 1
             /\ Segment(s, "A")[1] = programA /\ Segment(s, "B")[1] = programB
             /\ Tail(Segment(s, "A")) = BuildLeg(a, "A", token)
             /\ Tail(Segment(s, "B")) = BuildLeg(b, "B", token)
<1> DEFINE s == BuildExecuteCircuit(figures, a, b, token)
           legA == BuildLeg(a, "A", token)
           legB == BuildLeg(b, "B", token)
           programA == Program(KindOf(a, "A"))
           programB == Program(KindOf(b, "B"))
           segA == <<programA>> \o legA
           segB == <<programB>> \o legB
           fixed == <<"user", "base_ta", "inter_ta", "wsol", token, Owner["wsol"], Owner[token]>>
<1>1. /\ s.accounts = fixed \o segA \o segB
      /\ s.countA = Len(segA) /\ s.countB = Len(segB)
      /\ s.legAKind = KindOf(a, "A") /\ s.legBKind = KindOf(b, "B")
      /\ s.signed = TRUE /\ s.builtOf = <<a, b>>
  BY DEF BuildExecuteCircuit
<1>2. legA \in Seq(Keys) /\ legB \in Seq(Keys) /\ programA \in Keys /\ programB \in Keys
  BY DEF LegTaken
<1>3. fixed \in Seq(Keys) /\ Len(fixed) = 7
  <2>1. \A x \in {"user", "base_ta", "inter_ta", "wsol"} : x \in Keys
    BY DEF Keys, BuilderNames
  <2>2. token \in Keys /\ Owner["wsol"] \in Keys /\ Owner[token] \in Keys
    BY OwnNames DEF Foreign
  <2> QED
    BY <2>1, <2>2
<1> HIDE DEF s, legA, legB, programA, programB
<1>4. \A x \in Keys, t \in Seq(Keys) :
        /\ <<x>> \o t \in Seq(Keys) /\ Len(<<x>> \o t) = Len(t) + 1
        /\ (<<x>> \o t)[1] = x /\ Tail(<<x>> \o t) = t
  <2> SUFFICES ASSUME NEW x \in Keys, NEW t \in Seq(Keys)
               PROVE  /\ <<x>> \o t \in Seq(Keys) /\ Len(<<x>> \o t) = Len(t) + 1
                      /\ (<<x>> \o t)[1] = x /\ Tail(<<x>> \o t) = t
    OBVIOUS
  <2> QED
    BY SegmentOfLists
<1>5. /\ segA \in Seq(Keys) /\ Len(segA) = Len(legA) + 1
      /\ segA[1] = programA /\ Tail(segA) = legA
      /\ segB \in Seq(Keys) /\ Len(segB) = Len(legB) + 1
      /\ segB[1] = programB /\ Tail(segB) = legB
  BY <1>2, <1>4
<1> HIDE DEF segA, segB
<1>6. /\ SubSeq(fixed \o segA \o segB, Len(fixed) + 1, Len(fixed) + Len(segA)) = segA
      /\ SubSeq(fixed \o segA \o segB, Len(fixed) + Len(segA) + 1,
                Len(fixed) + Len(segA) + Len(segB)) = segB
      /\ Len(fixed \o segA \o segB) = Len(fixed) + Len(segA) + Len(segB)
  <2>1. \A u, v, w \in Seq(Keys) :
          /\ SubSeq(u \o v \o w, Len(u) + 1, Len(u) + Len(v)) = v
          /\ SubSeq(u \o v \o w, Len(u) + Len(v) + 1, Len(u) + Len(v) + Len(w)) = w
          /\ Len(u \o v \o w) = Len(u) + Len(v) + Len(w)
    BY SegmentOfLists, "user" \in Keys DEF Keys, BuilderNames
  <2> HIDE DEF fixed
  <2> QED
    BY <1>3, <1>5, <2>1
<1>7. \A i \in 1..7 : s.accounts[i] = fixed[i]
  <2> HIDE DEF fixed
  <2>1. \A u, v \in Seq(Keys) : /\ u \o v \in Seq(Keys)
                                /\ Len(u \o v) = Len(u) + Len(v)
                                /\ \A i \in 1..Len(u) : (u \o v)[i] = u[i]
    BY ListGoesOn
  <2> DEFINE both == fixed \o segA
  <2>2. /\ both \in Seq(Keys) /\ Len(both) = 7 + Len(segA)
        /\ \A i \in 1..7 : both[i] = fixed[i]
    <3>1. /\ fixed \o segA \in Seq(Keys)
          /\ Len(fixed \o segA) = Len(fixed) + Len(segA)
          /\ \A i \in 1..Len(fixed) : (fixed \o segA)[i] = fixed[i]
      BY <1>3, <1>5, <2>1
    <3> QED
      BY <1>3, <3>1
  <2>3. s.accounts = both \o segB
    BY <1>1
  <2>4. Len(segA) \in Nat
    BY <1>5
  <2> HIDE DEF both
  <2>5. \A i \in 1..Len(both) : (both \o segB)[i] = both[i]
    BY <1>5, <2>1, <2>2
  <2>6. \A i \in 1..7 : i \in 1..Len(both)
    BY <2>2, <2>4
  <2> QED
    BY <2>2, <2>3, <2>5, <2>6
<1>8. Fixed(s.accounts) = FixedOf(token)
  <2>1. /\ s.accounts[1] = fixed[1] /\ s.accounts[2] = fixed[2] /\ s.accounts[3] = fixed[3]
        /\ s.accounts[4] = fixed[4] /\ s.accounts[5] = fixed[5] /\ s.accounts[6] = fixed[6]
        /\ s.accounts[7] = fixed[7]
    BY <1>7
  <2> QED
    BY <2>1 DEF Fixed, FixedOf
<1>9. TotalFits(s)
  BY <1>1, <1>3, <1>6 DEF TotalFits, FixedAccounts
<1>10. Segment(s, "A") = segA
  BY <1>1, <1>3, <1>5, <1>6 DEF Segment, FixedAccounts
<1>11. Segment(s, "B") = segB
  BY <1>1, <1>3, <1>5, <1>6 DEF Segment, FixedAccounts
<1> QED
  BY <1>1, <1>5, <1>8, <1>9, <1>10, <1>11
     DEF s, legA, legB, programA, programB

\* The verdicts on what the builders make of a circuit.
LEMMA BuiltVerdict ==
  ASSUME NEW n \in DOMAIN Instructions, Instructions[n].builtOf # << >>,
         tx = Verdicts[n]
  PROVE  BuiltFits(Instructions[n])
<1> DEFINE s == Instructions[n]
<1>1. PICK a \in DOMAIN PoolData, b \in DOMAIN PoolData, token \in DOMAIN Owner \ {"wsol"} :
        /\ HasAccountOf("wsol") /\ HasAccountOf(token)
        /\ PoolOf(a, token) /\ PoolOf(b, token)
        /\ s = BuildExecuteCircuit(s, a, b, token)
  BY CircuitsAssumption
<1> DEFINE built == BuildExecuteCircuit(s, a, b, token)
           legA == BuildLeg(a, "A", token)
           legB == BuildLeg(b, "B", token)
           kindA == KindOf(a, "A")
           kindB == KindOf(b, "B")
<1>2. LegTaken(a, "A", token) /\ LegTaken(b, "B", token)
  BY <1>1, BuiltLeg DEF Has
<1>3. /\ s.signed /\ TotalFits(s) /\ s.builtOf = <<a, b>>
      /\ Fixed(s.accounts) = FixedOf(token)
      /\ s.legAKind = kindA /\ s.legBKind = kindB
      /\ Len(Segment(s, "A")) = Len(legA) + 1
      /\ Len(Segment(s, "B")) = Len(legB) + 1
      /\ Segment(s, "A")[1] = Program(kindA) /\ Segment(s, "B")[1] = Program(kindB)
      /\ Tail(Segment(s, "A")) = legA
      /\ Tail(Segment(s, "B")) = legB
  <2>1. s = built
    BY <1>1
  <2>2. /\ built.signed /\ TotalFits(built) /\ built.builtOf = <<a, b>>
        /\ Fixed(built.accounts) = FixedOf(token)
        /\ built.legAKind = kindA /\ built.legBKind = kindB
        /\ Len(Segment(built, "A")) = Len(legA) + 1
        /\ Len(Segment(built, "B")) = Len(legB) + 1
        /\ Segment(built, "A")[1] = Program(kindA) /\ Segment(built, "B")[1] = Program(kindB)
        /\ Tail(Segment(built, "A")) = legA
        /\ Tail(Segment(built, "B")) = legB
    BY <1>1, <1>2, BuiltSegments
  <2> HIDE DEF s, built, legA, legB, kindA, kindB
  <2> QED
    BY <2>1, <2>2
<1>4. tx = TransactionOf(s)
  BY DEF Verdicts
<1> HIDE DEF s
<1>5. tx.fixedSound = FixedSound(s) /\ tx.legASound = LegSound(s, "A")
      /\ tx.legBSound = LegSound(s, "B")
  BY <1>4 DEF TransactionOf
<1>6. FixedSound(s)
  <2> DEFINE fixed == FixedOf(token)
  <2>1. /\ fixed.user = "user" /\ fixed.ta.base = "base_ta" /\ fixed.ta.inter = "inter_ta"
        /\ fixed.mint.base = "wsol" /\ fixed.mint.inter = token
        /\ fixed.prog.base = Owner["wsol"] /\ fixed.prog.inter = Owner[token]
    BY DEF FixedOf
  <2> HIDE DEF fixed
  <2>2. TokenAccountSound(fixed, "base")
    <3>1. UserAccount("wsol") = "base_ta"
      BY DEF UserAccount
    <3> QED
      BY <1>1, <2>1, <3>1 DEF TokenAccountSound, HasAccountOf, Has
  <2>3. TokenAccountSound(fixed, "inter")
    <3>1. UserAccount(token) = "inter_ta"
      BY <1>1 DEF UserAccount
    <3> QED
      BY <1>1, <2>1, <3>1 DEF TokenAccountSound, HasAccountOf, Has
  <2>4. token # "wsol"
    BY <1>1
  <2> QED
    BY <1>3, <2>1, <2>2, <2>3, <2>4 DEF FixedSound, fixed
<1>7. ASSUME NEW role \in {"A", "B"}, NEW pool, NEW cpi, NEW kind,
             LegKind(s, role) = kind, kind = KindOf(pool, role),
             LegTaken(pool, role, token), cpi = BuildLeg(pool, role, token),
             Len(Segment(s, role)) = Len(cpi) + 1, Segment(s, role)[1] = Program(kind),
             Tail(Segment(s, role)) = cpi
      PROVE  LegFits(s, role, PoolData[pool], LegSound(s, role))
  <2>1. /\ cpi \in Seq(Keys) /\ Len(cpi) >= 13
        /\ kind \in {"raydium", "pump_buy", "pump_sell"}
        /\ Len(cpi) \in CpiAccountCount(kind) <=> ~TooLong(role, PoolData[pool])
        /\ ValidateLeg(FixedOf(token), role, kind, cpi) <=> ~TooLong(role, PoolData[pool])
    BY <1>7 DEF LegTaken
  <2>2. Len(cpi) \in Nat /\ (Len(cpi) + 1) - 1 = Len(cpi)
    BY <2>1
  <2>3. CheckLeg(s, role) <=> ~TooLong(role, PoolData[pool])
    BY <1>7, <2>1, <2>2 DEF CheckLeg
  <2>4. PoolPosition(kind) \in {0, 3}
    BY <2>1 DEF PoolPosition
  <2>5. kind # "unknown" /\ Len(Segment(s, role)) >= 2
        /\ PoolPosition(kind) < Len(Segment(s, role)) - 1
    BY <1>7, <2>1, <2>2, <2>4
  <2>6. LegSound(s, role) <=> ValidateLeg(FixedOf(token), role, kind, cpi)
    BY <1>3, <1>7, <2>5 DEF LegSound
  <2> QED
    BY <2>1, <2>3, <2>6 DEF LegFits
<1>8. LegFits(s, "A", PoolData[a], LegSound(s, "A"))
  <2>1. LegKind(s, "A") = kindA
    BY <1>3 DEF LegKind
  <2> HIDE DEF kindA, legA
  <2>2. kindA = KindOf(a, "A") /\ legA = BuildLeg(a, "A", token)
    BY DEF kindA, legA
  <2> QED
    BY <1>2, <1>3, <1>7, <2>1, <2>2
<1>9. LegFits(s, "B", PoolData[b], LegSound(s, "B"))
  <2>1. LegKind(s, "B") = kindB
    BY <1>3 DEF LegKind
  <2> HIDE DEF kindB, legB
  <2>2. kindB = KindOf(b, "B") /\ legB = BuildLeg(b, "B", token)
    BY DEF kindB, legB
  <2> QED
    BY <1>2, <1>3, <1>7, <2>1, <2>2
<1>10. s.builtOf[1] = a /\ s.builtOf[2] = b
  BY <1>3
<1>11. BuiltFits(s)
  BY <1>5, <1>6, <1>8, <1>9, <1>10 DEF BuiltFits
<1> QED
  BY <1>11 DEF s

\* The executor accepts what the builders make of a circuit through any two
\* pools of a token, and the builders' own check refuses exactly the legs that
\* are too long for it (buildExecuteCircuitIx, checkLeg and validate_leg).
THEOREM BuiltFit == LegsSpec => []BuiltLegsFit
<1>1. LInv => BuiltLegsFit
  <2> SUFFICES ASSUME LInv, stage = "entered" PROVE BuiltFits(Instructions[submission])
    BY DEF BuiltLegsFit
  <2>1. submission \in DOMAIN Instructions /\ tx = Verdicts[submission]
    BY DEF LInv, Judged
  <2> QED
    BY <2>1, BuiltVerdict DEF BuiltFits
<1> QED
  BY <1>1, InitStep, LInvStep, PTL DEF LegsSpec
=============================================================================
