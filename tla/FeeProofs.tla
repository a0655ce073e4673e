----------------------------- MODULE FeeProofs -----------------------------
(***************************************************************************)
(* Theorems about Fee, for all values of its constants: any fee period,     *)
(* any number of fee pools, any team size, up to the width of the counter.  *)
(*                                                                         *)
(* The safety properties of Fee are not inductive.  Who pays what rests on  *)
(* the wallet the loop wants next (feeActive) being the one it mines for    *)
(* while it scans (SessionInv); that a session that works resets a backoff  *)
(* and not the count taken from it is harmless because such a session is    *)
(* only made with the count at zero (BackoffInv); and the account is exact  *)
(* as long as a cycle is under way, overpaid only after it (LedgerInv).     *)
(***************************************************************************)
EXTENDS Fee, TLAPS

Leaving == pc \in {"leaving", "leavingCheck"}
Mining == Leaving \/ pc \in {"start", "matrix", "scan"}

\* The wallet of each session: wanted, given to the pool, and noted.
SessionInv ==
  /\ authIsDev = devWallet
  /\ pc = "connecting" =>
       /\ sessionDev = feeActive /\ target.dev = feeActive
       /\ ~feeActive => target.pool = UsersPool
  /\ WalletMatchesPool
  /\ pc = "scan" => authIsDev = feeActive
  /\ Leaving => timeBased /\ authIsDev # feeActive

\* A fee session without a job belongs to a cycle that is not to be skipped.
BackoffInv ==
  /\ BackoffsHold
  /\ sessionDev /\ ~gotJob => feeActive
  /\ Mining /\ sessionDev => gotJob

\* What the debt may be for the wallet wanted and the wallet mined for.
LedgerInv ==
  /\ ~known => debt = 0 /\ ~feeActive /\ ~authIsDev
  /\ ~timeBased \/ Mining => known
  /\ feeActive => IF timeBased THEN debt > 0 ELSE debt >= Threshold
  /\ authIsDev /\ ~feeActive => debt < Threshold /\ (timeBased => debt = 0)

\* The account is exact but after the end of a Quantus fee cycle.
AccountInv ==
  /\ ~timeBased \/ ~authIsDev \/ feeActive => balance = debt
  /\ timeBased => /\ balance <= debt
                  /\ debt - balance < Period * MaxCharge * (1 + stragglers)

\* How far the debt has grown, by where the loop is.
DebtInv ==
  /\ debt < Threshold + MaxCharge * (1 + MaxStragglers)
  /\ ~timeBased => debt < Threshold + MaxCharge
  /\ ~authIsDev /\ pc = "scan" => debt < Threshold
  /\ ~authIsDev /\ pc = "matrix" => debt < Threshold + MaxCharge
  /\ Leaving => debt < Threshold + MaxCharge * (1 + stragglers)

\* Where the loop would dial next.
NextTarget == [pool |-> IF feeActive THEN poolIdx ELSE UsersPool, dev |-> feeActive]

\* A fruitless attempt leaves a wait behind, or another pool or wallet to try.
RetryInv ==
  /\ Mining => fruitful
  /\ ~fruitful /\ pc # "dial" =>
       /\ delay >= DelayMin
       /\ target.dev = sessionDev
       /\ sessionDev => target.pool = poolIdx
  /\ ~fruitful /\ pc = "dial" /\ target = NextTarget => delay >= DelayMin

IInv == /\ TypeOK /\ SessionInv /\ BackoffInv /\ RetryInv
        /\ LedgerInv /\ AccountInv /\ DebtInv

-----------------------------------------------------------------------------
(***************************************************************************)
(* Arithmetic.                                                              *)
(***************************************************************************)
LEMMA ConstantTypes ==
  /\ Period \in Nat \ {0} /\ T \in Nat \ {0} /\ MaxWord \in Nat
  /\ MaxCharge \in Nat \ {0} /\ MaxStragglers \in Nat
  /\ PoolCount \in Nat /\ BackoffMax \in Nat \ {0}
  /\ DelayMin \in Nat \ {0} /\ DelayMax \in Nat /\ DelayMin <= DelayMax
BY LedgerAssumption, WordAssumption, PoolAssumption

\* Products keep the order of their factors.
LEMMA TimesMonotone ==
  ASSUME NEW k \in Nat, NEW m \in Nat, NEW n \in Nat, m <= n
  PROVE  k * m \in Nat /\ k * n \in Nat /\ k * m <= k * n
<1>1. PICK d \in Nat : n = m + d
  <2>1. n - m \in Nat /\ n = m + (n - m)
    OBVIOUS
  <2> QED
    BY <2>1
<1>2. k * n = k * m + k * d
  BY <1>1
<1>3. k * m \in Nat /\ k * n \in Nat /\ k * d \in Nat
  OBVIOUS
<1> QED
  BY <1>2, <1>3

LEMMA ThresholdAndSeed ==
  /\ Threshold \in Nat \ {0} /\ T <= Threshold
  /\ Seed \in Nat /\ Seed <= Threshold
<1>1. Period \div 2 \in Nat /\ Period \div 2 <= Period
  BY ConstantTypes
<1>2. T * 1 <= T * Period /\ T * Period \in Nat
  BY ConstantTypes, TimesMonotone
<1>3. T * (Period \div 2) \in Nat /\ T * (Period \div 2) <= T * Period
  BY <1>1, ConstantTypes, TimesMonotone
<1>4. T * Period = Threshold /\ T * (Period \div 2) = Seed
  BY <1>1, ConstantTypes DEF Threshold, Seed
<1> QED
  BY <1>2, <1>3, <1>4, ConstantTypes

\* The quotient the code compares with says when the product overflows.
LEMMA Overflow ==
  ASSUME NEW units \in Nat, units > MaxWord \div Period
  PROVE  Period * units > MaxWord
<1> DEFINE q == MaxWord \div Period
<1>1. q \in Nat /\ MaxWord < Period * (q + 1)
  BY ConstantTypes
<1>2. Period * (q + 1) <= Period * units
  <2>1. q + 1 \in Nat /\ q + 1 <= units
    BY <1>1
  <2> HIDE DEF q
  <2> QED
    BY <2>1, ConstantTypes, TimesMonotone
<1>3. Period * units \in Nat /\ Period * (q + 1) \in Nat
  BY <1>1, ConstantTypes
<1> QED
  BY <1>1, <1>2, <1>3, ConstantTypes

\* The cap on a backoff.
LEMMA NextBackoffType ==
  ASSUME NEW cycles \in 0..BackoffMax
  PROVE  NextBackoff(cycles) \in 1..BackoffMax
BY ConstantTypes DEF NextBackoff, Least

-----------------------------------------------------------------------------
(***************************************************************************)
(* The steps in groups; every lemma below has one case for each.            *)
(***************************************************************************)
EndStep == Reconnect \/ ConnectFails
MoveStep == LoginFails \/ SessionDrops \/ Leave \/ JobEnds
JobStep == GetJob \/ JobOfRejectedSession
CheckStep == CheckFee \/ StragglerChecksFee

\* The steps, by what they change.
LEMMA StepCases ==
  ASSUME [Next]_vars
  PROVE  \/ EndStep \/ Dial \/ Login \/ MoveStep \/ JobStep \/ CheckStep \/ ScanStep
         \/ UNCHANGED vars
BY DEF Next, ConnectStep, SessionStep, MineStep, Rest, EndStep, MoveStep, JobStep, CheckStep

\* The fee is chosen once.
LEMMA KindStep ==
  ASSUME IInv, [Next]_vars
  PROVE  timeBased' = timeBased /\ timeBased \in BOOLEAN
<1>1. timeBased \in BOOLEAN
  BY KindAssumption DEF IInv, TypeOK
<1> QED
  BY <1>1, StepCases DEF EndStep, MoveStep, JobStep, CheckStep, ScanStep, Reconnect,
     ConnectFails, LoginFails, SessionDrops, Leave, JobEnds, GetJob,
     JobOfRejectedSession, CheckFee, StragglerChecksFee, Scan, Straggle, Dial, Login,
     vars, loginVars

\* What a charge does: the subtraction stops at zero, and nothing overflows.
LEMMA Charge ==
  ASSUME IInv, NEW units \in 0..MaxCharge,
         pc = "scan" \/ (pc = "leaving" /\ stragglers < MaxStragglers),
         NoteTiles(units)
  PROVE  /\ Period * units \in Nat /\ Period * units <= Period * MaxCharge
         /\ Period * MaxCharge \in Nat
         /\ IF units > 0 THEN Period * units > 0 ELSE Period * units = 0
         /\ authIsDev =>
              /\ debt' = IF Period * units >= debt THEN 0 ELSE debt - Period * units
              /\ balance' = balance - Period * units
              /\ feeActive' = (feeActive /\
                   ~(units > 0 /\ IF timeBased THEN debt' = 0 ELSE debt' < Threshold))
         /\ ~authIsDev =>
              debt' = debt + units /\ balance' = balance + units /\ feeActive' = feeActive
<1>1. Period * units \in Nat /\ Period * MaxCharge \in Nat /\ Period * units <= Period * MaxCharge
  BY ConstantTypes, TimesMonotone
<1>2. IF units > 0 THEN Period * units > 0 ELSE Period * units = 0
  <2>1. CASE units > 0
    <3>1. Period * 1 <= Period * units
      BY <2>1, ConstantTypes, TimesMonotone
    <3> QED
      BY <2>1, <3>1, <1>1, ConstantTypes
  <2>2. CASE ~(units > 0)
    <3>1. units = 0
      BY <2>2, ConstantTypes
    <3> QED
      BY <3>1, ConstantTypes
  <2> QED
    BY <2>1, <2>2
<1>3. CASE authIsDev
  <2>1. devWallet
    BY <1>3 DEF IInv, SessionInv
  <2>2. units > MaxWord \div Period => Period * units >= debt
    BY Overflow, ConstantTypes, <1>1 DEF IInv, TypeOK
  <2>3. debt' = IF Period * units >= debt THEN 0 ELSE debt - Period * units
    BY <1>3, <2>2 DEF NoteTiles
  <2> QED
    BY <1>1, <1>2, <1>3, <2>1, <2>3 DEF NoteTiles, BalanceAfter
<1>4. CASE ~authIsDev
  <2>1. ~devWallet
    BY <1>4 DEF IInv, SessionInv
  <2>2. debt + units <= MaxWord
    <3>1. Threshold + MaxCharge * (1 + MaxStragglers) <= MaxWord
      BY WordAssumption DEF Threshold
    <3>2. CASE pc = "scan"
      <4>1. debt < Threshold
        BY <1>4, <3>2 DEF IInv, DebtInv
      <4>2. MaxCharge * 1 <= MaxCharge * (1 + MaxStragglers) /\ MaxCharge * (1 + MaxStragglers) \in Nat
        BY ConstantTypes, TimesMonotone
      <4> QED
        BY <3>1, <4>1, <4>2, ConstantTypes, ThresholdAndSeed DEF IInv, TypeOK
    <3>3. CASE pc = "leaving" /\ stragglers < MaxStragglers
      <4>1. debt < Threshold + MaxCharge * (1 + stragglers)
        BY <3>3 DEF IInv, DebtInv, Leaving
      <4>2. /\ MaxCharge * (2 + stragglers) <= MaxCharge * (1 + MaxStragglers)
            /\ MaxCharge * (1 + MaxStragglers) \in Nat
        <5>1. 2 + stragglers \in Nat /\ 2 + stragglers <= 1 + MaxStragglers
          BY <3>3, ConstantTypes DEF IInv, TypeOK
        <5> QED
          BY <5>1, ConstantTypes, TimesMonotone
      <4>3. MaxCharge * (2 + stragglers) = MaxCharge * (1 + stragglers) + MaxCharge
        BY ConstantTypes DEF IInv, TypeOK
      <4>4. MaxCharge * (1 + stragglers) \in Nat
        BY ConstantTypes DEF IInv, TypeOK
      <4> HIDE DEF Threshold
      <4> QED
        BY <3>1, <4>1, <4>2, <4>3, <4>4, ConstantTypes, ThresholdAndSeed DEF IInv, TypeOK
    <3> QED
      BY <3>2, <3>3
  <2>3. debt' = debt + units
    BY <1>4, <2>2, ConstantTypes DEF NoteTiles, Least, IInv, TypeOK
  <2> QED
    BY <1>1, <1>2, <1>4, <2>1, <2>3 DEF NoteTiles, BalanceAfter
<1> QED
  BY <1>3, <1>4 DEF IInv, TypeOK

\* What the end of a session does to the ledger: nothing, or a cycle given up.
LEMMA EndOfSession ==
  ASSUME IInv, SessionEnd
  PROVE  /\ known' = known /\ sessionDev' = FALSE /\ gotJob' = FALSE
         /\ \/ UNCHANGED <<debt, balance, feeActive>>
            \/ /\ feeActive /\ ~feeActive'
               /\ debt' = debt - Forgiven /\ balance' = balance - Forgiven
BY DEF SessionEnd, SessionFailed, NextFeePool, GiveUpCycle, PayFeeCycle

\* What is forgiven is owed, and what is left of a Pearl debt is under the threshold.
LEMMA ForgivenIsOwed ==
  ASSUME IInv
  PROVE  /\ Forgiven \in Nat /\ Forgiven <= debt
         /\ timeBased => debt - Forgiven = 0
         /\ ~timeBased => debt - Forgiven < Threshold
<1>1. ~timeBased => debt < Threshold + Threshold
  <2>1. ~timeBased => MaxCharge = T
    BY LedgerAssumption, KindAssumption DEF IInv, TypeOK
  <2> QED
    BY <2>1, ThresholdAndSeed, ConstantTypes DEF IInv, DebtInv, TypeOK
<1> QED
  BY <1>1, ThresholdAndSeed, ConstantTypes DEF Forgiven, IInv, TypeOK

\* What the check of the fee does to the ledger: only the user's work makes it due.
LEMMA FeeCheck ==
  ASSUME IInv, PrepareMatrix
  PROVE  /\ known' = known
         /\ \/ ~FeeDue /\ UNCHANGED <<debt, balance, feeActive>>
            \/ FeeDue /\ ~authIsDev /\ feeActive' /\ UNCHANGED <<debt, balance>>
            \/ /\ FeeDue /\ ~authIsDev /\ ~feeActive /\ ~feeActive'
               /\ debt' = debt - Forgiven /\ balance' = balance - Forgiven
<1>1. FeeDue => ~authIsDev /\ ~feeActive
  BY ThresholdAndSeed DEF FeeDue, IInv, LedgerInv, TypeOK
<1> QED
  BY <1>1 DEF PrepareMatrix, StartOrSkipCycle, PayFeeCycle

-----------------------------------------------------------------------------
(***************************************************************************)
(* Types.                                                                   *)
(***************************************************************************)
LEMMA SeedFits == Seed \in 0..MaxWord
<1>1. MaxCharge * (1 + MaxStragglers) \in Nat
  BY ConstantTypes, TimesMonotone
<1>2. Threshold + MaxCharge * (1 + MaxStragglers) <= MaxWord
  BY WordAssumption DEF Threshold
<1> QED
  BY <1>1, <1>2, ThresholdAndSeed, ConstantTypes

LEMMA InitType == Init => TypeOK
<1> SUFFICES ASSUME Init PROVE TypeOK
  OBVIOUS
<1>1. debt \in 0..MaxWord /\ balance \in Int /\ known \in BOOLEAN
  BY SeedFits, ConstantTypes, KindAssumption DEF Init
<1>2. target \in [pool: 0..PoolCount + 1, dev: BOOLEAN]
  BY ConstantTypes DEF Init, NoTarget, UsersPool
<1>3. /\ feeActive \in BOOLEAN /\ authIsDev \in BOOLEAN /\ sessionDev \in BOOLEAN
      /\ gotJob \in BOOLEAN /\ devWallet \in BOOLEAN /\ fruitful \in BOOLEAN
  BY DEF Init
<1>4. /\ poolIdx \in 0..PoolCount /\ poolGood \in 0..PoolCount
      /\ fixedRest \in 0..BackoffMax /\ fixedBackoff \in 0..BackoffMax
      /\ skipRest \in 0..BackoffMax /\ skipBackoff \in 0..BackoffMax
      /\ stragglers \in 0..MaxStragglers
  BY ConstantTypes DEF Init
<1>5. delay \in Delays /\ pc = "reconnect" /\ timeBased \in Kinds
  BY DEF Init, Delays
<1> QED
  BY <1>1, <1>2, <1>3, <1>4, <1>5 DEF TypeOK

\* The debt fits its word.
LEMMA DebtFits ==
  ASSUME IInv
  PROVE  debt < MaxWord
<1>1. Threshold + MaxCharge * (1 + MaxStragglers) <= MaxWord
  BY WordAssumption DEF Threshold
<1>2. MaxCharge * (1 + MaxStragglers) \in Nat
  BY ConstantTypes, TimesMonotone
<1> QED
  BY <1>1, <1>2, ConstantTypes, ThresholdAndSeed DEF IInv, DebtInv, TypeOK

LEMMA TypeStep == ASSUME IInv, [Next]_vars PROVE TypeOK'
<1> USE DEF ledgerVars, poolVars, sessionVars, loginVars
<1>0. TypeOK
  BY DEF IInv
<1>1. CASE EndStep
  <2>1. SessionEnd
    BY <1>1 DEF EndStep, Reconnect, ConnectFails
  <2>2. debt' \in 0..MaxWord /\ balance' \in Int
    <3>1. Forgiven \in Nat /\ Forgiven <= debt
      BY ForgivenIsOwed
    <3>2. \/ debt' = debt /\ balance' = balance
          \/ debt' = debt - Forgiven /\ balance' = balance - Forgiven
      BY <2>1, EndOfSession
    <3> QED
      BY <1>0, <3>1, <3>2, ConstantTypes DEF TypeOK
  <2>3. /\ feeActive' \in BOOLEAN /\ known' \in BOOLEAN
        /\ sessionDev' = FALSE /\ gotJob' = FALSE
    BY <1>0, <2>1 DEF TypeOK, SessionEnd, NextFeePool, GiveUpCycle, PayFeeCycle
  <2>4. /\ poolIdx' \in 0..PoolCount /\ poolGood' \in 0..PoolCount
        /\ fixedRest' \in 0..BackoffMax /\ fixedBackoff' \in 0..BackoffMax
        /\ skipRest' \in 0..BackoffMax /\ skipBackoff' \in 0..BackoffMax
    BY <1>0, <2>1, NextBackoffType, ConstantTypes
       DEF TypeOK, SessionEnd, NextFeePool, GiveUpFixedPools, GiveUpCycle
  <2>5. delay' \in Delays
    BY <1>0, <2>1 DEF TypeOK, SessionEnd, Delays
  <2> QED
    BY <1>0, <1>1, <2>2, <2>3, <2>4, <2>5 DEF TypeOK, EndStep, Reconnect, ConnectFails
<1>2. CASE Dial
  <2>1. delay' \in Delays
    BY <1>0, <1>2, ConstantTypes DEF TypeOK, Dial, Delays, Least
  <2>2. target' \in [pool: 0..PoolCount + 1, dev: BOOLEAN]
    BY <1>0, <1>2, ConstantTypes DEF TypeOK, Dial, UsersPool
  <2> QED
    BY <1>0, <1>2, <2>1, <2>2 DEF TypeOK, Dial
<1>3. CASE Login
  BY <1>0, <1>3, ConstantTypes DEF TypeOK, Login
<1>4. CASE MoveStep
  BY <1>0, <1>4 DEF TypeOK, MoveStep, LoginFails, SessionDrops, Leave, JobEnds
<1>5. CASE JobStep
  <2>1. debt' \in 0..MaxWord /\ balance' \in Int /\ known' \in BOOLEAN /\ feeActive' = feeActive
    <3>1. CASE GetJob
      BY <1>0, <3>1, SeedFits, ConstantTypes DEF TypeOK, GetJob, SetTiles
    <3>2. CASE JobOfRejectedSession
      BY <1>0, <3>2 DEF TypeOK, JobOfRejectedSession
    <3> QED
      BY <1>5, <3>1, <3>2 DEF JobStep
  <2>2. SessionOk
    BY <1>5 DEF JobStep, GetJob, JobOfRejectedSession
  <2>3. /\ gotJob' \in BOOLEAN /\ sessionDev' = sessionDev
        /\ fruitful' = TRUE /\ target' = target /\ delay' \in Delays
    BY <1>0, <2>2 DEF TypeOK, SessionOk, Delays
  <2>4. /\ poolIdx' = poolIdx /\ poolGood' \in 0..PoolCount
        /\ fixedRest' = fixedRest /\ fixedBackoff' \in 0..BackoffMax
        /\ skipRest' = skipRest /\ skipBackoff' \in 0..BackoffMax
    BY <1>0, <2>2, ConstantTypes DEF TypeOK, SessionOk
  <2>5. UNCHANGED loginVars /\ pc' \in {"start", "reconnect"}
    BY <1>5 DEF JobStep, GetJob, JobOfRejectedSession
  <2> QED
    BY <1>0, <2>1, <2>3, <2>4, <2>5 DEF TypeOK
<1>6. CASE CheckStep
  <2>1. PrepareMatrix
    BY <1>6 DEF CheckStep, CheckFee, StragglerChecksFee
  <2>2. debt' \in 0..MaxWord /\ balance' \in Int
    <3>1. Forgiven \in Nat /\ Forgiven <= debt
      BY ForgivenIsOwed
    <3>2. \/ debt' = debt /\ balance' = balance
          \/ debt' = debt - Forgiven /\ balance' = balance - Forgiven
      BY <2>1, FeeCheck
    <3> QED
      BY <1>0, <3>1, <3>2, ConstantTypes DEF TypeOK
  <2>3. feeActive' \in BOOLEAN
    BY <1>0, <2>1 DEF TypeOK, PrepareMatrix, StartOrSkipCycle, PayFeeCycle
  <2>4. /\ poolIdx' \in 0..PoolCount
        /\ fixedRest' \in 0..BackoffMax /\ skipRest' \in 0..BackoffMax
    BY <1>0, <2>1, ConstantTypes DEF TypeOK, PrepareMatrix, StartOrSkipCycle, UsersPool
  <2> QED
    BY <1>0, <1>6, <2>1, <2>2, <2>3, <2>4 DEF TypeOK, CheckStep, CheckFee, StragglerChecksFee, PrepareMatrix
<1>7. CASE ScanStep
  <2>1. PICK units \in 0..MaxCharge : Scan(units) \/ Straggle(units)
    BY <1>7 DEF ScanStep
  <2>2. /\ NoteTiles(units)
        /\ pc = "scan" \/ (pc = "leaving" /\ stragglers < MaxStragglers)
    BY <2>1 DEF Scan, Straggle
  <2>3. debt' \in 0..MaxWord
    <3>1. CASE authIsDev
      BY <1>0, <2>2, <3>1, Charge, ConstantTypes DEF TypeOK
    <3>2. CASE ~authIsDev
      BY <1>0, <2>2, <3>2, ConstantTypes DEF TypeOK, NoteTiles, Least
    <3> QED
      BY <3>1, <3>2
  <2>4. balance' \in Int
    BY <1>0, <2>2, Charge, ConstantTypes DEF TypeOK
  <2>5. feeActive' \in BOOLEAN
    BY <1>0, <2>2 DEF TypeOK, NoteTiles
  <2> QED
    BY <1>0, <2>1, <2>3, <2>4, <2>5, ConstantTypes DEF TypeOK, Scan, Straggle
<1>8. CASE UNCHANGED vars
  BY <1>0, <1>8 DEF TypeOK, vars
<1> QED
  BY <1>1, <1>2, <1>3, <1>4, <1>5, <1>6, <1>7, <1>8, StepCases

-----------------------------------------------------------------------------
(***************************************************************************)
(* Wallets.                                                                 *)
(***************************************************************************)
LEMMA SessionStepInv == ASSUME IInv, [Next]_vars PROVE SessionInv'
<1> USE DEF IInv, SessionInv, WalletMatchesPool, Leaving,
    ledgerVars, poolVars, sessionVars, loginVars
<1>1. CASE EndStep
  BY <1>1 DEF EndStep, Reconnect, ConnectFails
<1>2. CASE Dial
  BY <1>2 DEF Dial
<1>3. CASE Login
  BY <1>3 DEF Login
<1>4. CASE MoveStep
  BY <1>4 DEF MoveStep, LoginFails, SessionDrops, Leave, JobEnds, AtCancelCheck
<1>5. CASE JobStep
  BY <1>5 DEF JobStep, GetJob, JobOfRejectedSession, SessionOk
<1>6. CASE CheckStep
  <2>1. CASE CheckFee
    BY <2>1 DEF CheckFee, NeedsSwitch
  <2>2. CASE StragglerChecksFee
    <3>1. feeActive' = feeActive
      BY <2>2, FeeCheck, ThresholdAndSeed DEF StragglerChecksFee, FeeDue, LedgerInv, TypeOK
    <3> QED
      BY <2>2, <3>1 DEF StragglerChecksFee
  <2> QED
    BY <1>6, <2>1, <2>2 DEF CheckStep
<1>7. CASE ScanStep
  <2>1. PICK units \in 0..MaxCharge : Scan(units) \/ Straggle(units)
    BY <1>7 DEF ScanStep
  <2>2. CASE Scan(units)
    BY <2>2 DEF Scan
  <2>3. CASE Straggle(units)
    <3>1. feeActive' = feeActive
      BY <2>3, Charge DEF Straggle, TypeOK
    <3> QED
      BY <2>3, <3>1 DEF Straggle
  <2> QED
    BY <2>1, <2>2, <2>3
<1>8. CASE UNCHANGED vars
  BY <1>8 DEF vars
<1> QED
  BY <1>1, <1>2, <1>3, <1>4, <1>5, <1>6, <1>7, <1>8, StepCases

-----------------------------------------------------------------------------
(***************************************************************************)
(* Backing off.                                                             *)
(***************************************************************************)
LEMMA BackoffStep == ASSUME IInv, [Next]_vars PROVE BackoffInv'
<1> USE DEF IInv, BackoffInv, BackoffsHold, Mining, Leaving,
    ledgerVars, poolVars, sessionVars, loginVars
<1>1. CASE EndStep
  <2>1. SessionEnd
    BY <1>1 DEF EndStep, Reconnect, ConnectFails
  <2>2. BackoffsHold'
    BY <2>1, NextBackoffType, ConstantTypes
       DEF SessionEnd, SessionFailed, NextFeePool, GiveUpFixedPools, GiveUpCycle,
           PayFeeCycle, TypeOK
  <2> QED
    BY <2>1, <2>2 DEF SessionEnd
<1>2. CASE Dial
  BY <1>2 DEF Dial
<1>3. CASE Login
  BY <1>3 DEF Login
<1>4. CASE MoveStep
  BY <1>4 DEF MoveStep, LoginFails, SessionDrops, Leave, JobEnds, AtCancelCheck
<1>5. CASE JobStep
  BY <1>5 DEF JobStep, GetJob, JobOfRejectedSession, SessionOk, SetTiles, TypeOK
<1>6. CASE CheckStep
  <2>1. PrepareMatrix /\ UNCHANGED sessionVars
    BY <1>6 DEF CheckStep, CheckFee, StragglerChecksFee
  <2>2. BackoffsHold'
    BY <2>1, ConstantTypes DEF PrepareMatrix, StartOrSkipCycle, PayFeeCycle, TypeOK, UsersPool, FeeDue
  <2>3. Mining
    BY <1>6 DEF CheckStep, CheckFee, StragglerChecksFee
  <2> QED
    BY <2>1, <2>2, <2>3
<1>7. CASE ScanStep
  <2>1. PICK units \in 0..MaxCharge : Scan(units) \/ Straggle(units)
    BY <1>7 DEF ScanStep
  <2>2. feeActive' => feeActive
    BY <2>1, Charge DEF Scan, Straggle, TypeOK
  <2> QED
    BY <2>1, <2>2 DEF Scan, Straggle
<1>8. CASE UNCHANGED vars
  BY <1>8 DEF vars
<1> QED
  BY <1>1, <1>2, <1>3, <1>4, <1>5, <1>6, <1>7, <1>8, StepCases

-----------------------------------------------------------------------------
(***************************************************************************)
(* Retries.                                                                 *)
(***************************************************************************)
LEMMA RetryStep == ASSUME IInv, [Next]_vars PROVE RetryInv'
<1> USE DEF RetryInv, Mining, Leaving, ledgerVars, poolVars, sessionVars, loginVars
<1>0. TypeOK /\ RetryInv
  BY DEF IInv
<1>1. CASE EndStep
  <2>1. /\ SessionEnd /\ pc' = "dial" /\ pc # "dial"
        /\ target' = target /\ fruitful' = fruitful
    BY <1>1 DEF EndStep, Reconnect, ConnectFails
  <2>2. CASE SessionFailed
    <3>1. CASE NextFeePool
      <4>1. ~fruitful => NextTarget'.pool # target.pool
        BY <1>0, <2>1, <2>2, <3>1
           DEF NextFeePool, SessionFailed, NextTarget, TypeOK
      <4> QED
        BY <2>1, <4>1
    <3>2. CASE GiveUpCycle
      <4>1. ~fruitful => NextTarget'.dev # target.dev
        BY <1>0, <2>1, <2>2, <3>2
           DEF GiveUpCycle, PayFeeCycle, SessionFailed, NextTarget, TypeOK
      <4> QED
        BY <2>1, <4>1
    <3> QED
      BY <2>1, <2>2, <3>1, <3>2 DEF SessionEnd
  <2>3. CASE ~SessionFailed
    BY <1>0, <2>1, <2>3 DEF SessionEnd
  <2> QED
    BY <2>2, <2>3
<1>2. CASE Dial
  <2>1. delay' >= DelayMin
    BY <1>0, <1>2, ConstantTypes DEF Dial, Least, Delays, TypeOK
  <2> QED
    BY <1>2, <2>1 DEF Dial
<1>3. CASE Login
  BY <1>0, <1>3 DEF Login
<1>4. CASE MoveStep
  BY <1>0, <1>4 DEF MoveStep, LoginFails, SessionDrops, Leave, JobEnds, AtCancelCheck
<1>5. CASE JobStep
  BY <1>5 DEF JobStep, GetJob, JobOfRejectedSession, SessionOk
<1>6. CASE CheckStep
  BY <1>0, <1>6 DEF CheckStep, CheckFee, StragglerChecksFee
<1>7. CASE ScanStep
  BY <1>0, <1>7 DEF ScanStep, Scan, Straggle
<1>8. CASE UNCHANGED vars
  BY <1>0, <1>8 DEF vars, NextTarget
<1> QED
  BY <1>1, <1>2, <1>3, <1>4, <1>5, <1>6, <1>7, <1>8, StepCases

-----------------------------------------------------------------------------
(***************************************************************************)
(* The ledger: what the debt is, how exact it is, how large it gets.        *)
(***************************************************************************)

\* A charge of the loop or of a straggler, as one case.
Charged(units) ==
  /\ NoteTiles(units) /\ known' = known
  /\ authIsDev' = authIsDev
  /\ \/ pc = "scan" /\ pc' \in {"matrix", "halted"} /\ stragglers' = stragglers
     \/ /\ pc = "leaving" /\ pc' = "leavingCheck" /\ stragglers < MaxStragglers
        /\ stragglers' = stragglers + 1

LEMMA ScanCharges ==
  ASSUME ScanStep
  PROVE  \E units \in 0..MaxCharge : Charged(units)
BY DEF ScanStep, Scan, Straggle, Charged, loginVars

LEMMA LedgerStep == ASSUME IInv, [Next]_vars PROVE LedgerInv'
<1> USE DEF ledgerVars, poolVars, sessionVars, loginVars, Mining, Leaving
<1>0. /\ TypeOK /\ LedgerInv /\ Threshold \in Nat \ {0}
      /\ timeBased' = timeBased /\ timeBased \in BOOLEAN
  BY ThresholdAndSeed, KindStep DEF IInv
<1>1. CASE EndStep
  <2>1. SessionEnd /\ authIsDev' = authIsDev /\ pc' = "dial"
    BY <1>1 DEF EndStep, Reconnect, ConnectFails
  <2>2. CASE UNCHANGED <<debt, balance, feeActive>>
    BY <1>0, <2>1, <2>2, EndOfSession DEF LedgerInv
  <2>3. CASE feeActive /\ ~feeActive' /\ debt' = debt - Forgiven
    BY <1>0, <2>1, <2>3, EndOfSession, ForgivenIsOwed DEF LedgerInv
  <2> QED
    BY <2>1, <2>2, <2>3, EndOfSession
<1>2. CASE Dial
  BY <1>0, <1>2 DEF Dial, LedgerInv
<1>3. CASE Login
  BY <1>0, <1>3 DEF Login, LedgerInv
<1>4. CASE MoveStep
  BY <1>0, <1>4 DEF MoveStep, LoginFails, SessionDrops, Leave, JobEnds, AtCancelCheck, LedgerInv
<1>5. CASE JobStep
  <2>1. CASE GetJob
    BY <1>0, <2>1 DEF GetJob, SetTiles, LedgerInv
  <2>2. CASE JobOfRejectedSession
    BY <1>0, <2>2 DEF JobOfRejectedSession, LedgerInv
  <2> QED
    BY <1>5, <2>1, <2>2 DEF JobStep
<1>6. CASE CheckStep
  <2>1. PrepareMatrix /\ authIsDev' = authIsDev /\ Mining
    BY <1>6 DEF CheckStep, CheckFee, StragglerChecksFee
  <2>2. CASE ~FeeDue /\ UNCHANGED <<debt, balance, feeActive>>
    BY <1>0, <2>1, <2>2, FeeCheck DEF LedgerInv
  <2>3. CASE FeeDue /\ ~authIsDev /\ feeActive' /\ UNCHANGED <<debt, balance>>
    BY <1>0, <2>1, <2>3, FeeCheck DEF LedgerInv, FeeDue, TypeOK
  <2>4. CASE FeeDue /\ ~authIsDev /\ ~feeActive' /\ debt' = debt - Forgiven
    <3>1. known
      BY <1>0, <2>4 DEF LedgerInv, FeeDue, TypeOK
    <3> QED
      BY <1>0, <2>1, <2>4, <3>1, FeeCheck, ForgivenIsOwed DEF LedgerInv
  <2> QED
    BY <2>1, <2>2, <2>3, <2>4, FeeCheck
<1>7. CASE ScanStep
  <2>1. PICK units \in 0..MaxCharge : Charged(units)
    BY <1>7, ScanCharges
  <2>2. pc = "scan" \/ (pc = "leaving" /\ stragglers < MaxStragglers)
    BY <2>1 DEF Charged
  <2>3. known /\ known' = known /\ authIsDev' = authIsDev /\ NoteTiles(units)
    BY <1>0, <2>1 DEF Charged, LedgerInv, Mining, Leaving
  <2>4. CASE ~authIsDev
    <3>1. debt' = debt + units /\ feeActive' = feeActive
      BY <2>2, <2>3, <2>4, Charge
    <3> QED
      BY <1>0, <2>3, <2>4, <3>1, ConstantTypes DEF LedgerInv, TypeOK
  <2>5. CASE authIsDev
    <3> DEFINE paid == Period * units
    <3>1. /\ paid \in Nat /\ IF units > 0 THEN paid > 0 ELSE paid = 0
          /\ debt' = IF paid >= debt THEN 0 ELSE debt - paid
          /\ feeActive' = (feeActive /\
                ~(units > 0 /\ IF timeBased THEN debt' = 0 ELSE debt' < Threshold))
      BY <2>2, <2>3, <2>5, Charge
    <3> HIDE DEF paid
    <3>2. CASE feeActive'
      <4>1. feeActive /\ (units > 0 => IF timeBased THEN debt' # 0 ELSE ~(debt' < Threshold))
        BY <3>1, <3>2
      <4>2. units > 0 \/ debt' = debt
        BY <1>0, <3>1, <4>1 DEF LedgerInv, TypeOK
      <4>3. IF timeBased THEN debt' > 0 ELSE debt' >= Threshold
        BY <1>0, <3>1, <4>1, <4>2 DEF LedgerInv, TypeOK
      <4> QED
        BY <1>0, <2>3, <2>5, <3>2, <4>3 DEF LedgerInv
    <3>3. CASE ~feeActive'
      <4>1. ~feeActive \/ IF timeBased THEN debt' = 0 ELSE debt' < Threshold
        BY <3>1, <3>3
      <4>2. debt' < Threshold /\ (timeBased => debt' = 0)
        BY <1>0, <2>5, <3>1, <4>1 DEF LedgerInv, TypeOK
      <4> QED
        BY <1>0, <2>3, <2>5, <3>3, <4>2 DEF LedgerInv
    <3> QED
      BY <3>2, <3>3
  <2> QED
    BY <1>0, <2>4, <2>5 DEF TypeOK
<1>8. CASE UNCHANGED vars
  BY <1>0, <1>8 DEF vars, LedgerInv
<1> QED
  BY <1>1, <1>2, <1>3, <1>4, <1>5, <1>6, <1>7, <1>8, StepCases

\* What one more straggler adds.
LEMMA Chunks ==
  ASSUME NEW c \in Nat \ {0}, NEW n \in Nat
  PROVE  c * (1 + n) \in Nat /\ c <= c * (1 + n) /\ c * (1 + (n + 1)) = c * (1 + n) + c
<1>1. c * 1 <= c * (1 + n) /\ c * (1 + n) \in Nat
  BY TimesMonotone
<1>2. c * (1 + (n + 1)) = c * (1 + n) + c
  OBVIOUS
<1> QED
  BY <1>1, <1>2

LEMMA GapGrows ==
  ASSUME NEW n \in Nat
  PROVE  /\ Period * MaxCharge \in Nat \ {0}
         /\ Period * MaxCharge * (1 + n) \in Nat
         /\ Period * MaxCharge <= Period * MaxCharge * (1 + n)
         /\ Period * MaxCharge * (1 + (n + 1)) = Period * MaxCharge * (1 + n) + Period * MaxCharge
<1>1. Period * MaxCharge \in Nat \ {0}
  <2>1. Period * 1 <= Period * MaxCharge /\ Period * MaxCharge \in Nat
    BY ConstantTypes, TimesMonotone
  <2> QED
    BY <2>1, ConstantTypes
<1> QED
  BY <1>1, Chunks

LEMMA AccountStep == ASSUME IInv, [Next]_vars PROVE AccountInv'
<1> DEFINE gap == Period * MaxCharge * (1 + stragglers)
<1> USE DEF ledgerVars, poolVars, sessionVars, loginVars
<1>0. TypeOK /\ LedgerInv /\ AccountInv /\ timeBased' = timeBased /\ timeBased \in BOOLEAN
  BY KindStep DEF IInv
<1>a. gap \in Nat /\ Period * MaxCharge \in Nat \ {0} /\ Period * MaxCharge <= gap
  BY <1>0, GapGrows DEF TypeOK
<1>1. CASE EndStep
  <2>1. SessionEnd /\ authIsDev' = authIsDev /\ stragglers' = stragglers
    BY <1>1 DEF EndStep, Reconnect, ConnectFails
  <2>2. CASE UNCHANGED <<debt, balance, feeActive>>
    BY <1>0, <2>1, <2>2 DEF AccountInv
  <2>3. CASE feeActive /\ debt' = debt - Forgiven /\ balance' = balance - Forgiven
    BY <1>0, <1>a, <2>1, <2>3, ForgivenIsOwed DEF AccountInv, TypeOK
  <2> QED
    BY <2>1, <2>2, <2>3, EndOfSession
<1>2. CASE Dial
  BY <1>0, <1>2 DEF Dial, AccountInv
<1>3. CASE Login
  <2>1. Period * MaxCharge * (1 + 0) = Period * MaxCharge
    BY ConstantTypes
  <2>2. debt' = debt /\ feeActive' = feeActive /\ authIsDev' = feeActive /\ stragglers' = 0
    BY <1>3 DEF Login
  <2>3. balance' = debt
    BY <1>0, <1>3 DEF Login, AccountInv
  <2> QED
    BY <1>0, <1>a, <2>1, <2>2, <2>3 DEF AccountInv, TypeOK
<1>4. CASE MoveStep
  BY <1>0, <1>4 DEF MoveStep, LoginFails, SessionDrops, Leave, JobEnds, AccountInv
<1>5. CASE JobStep
  <2>1. CASE GetJob
    BY <1>0, <1>a, <2>1, ThresholdAndSeed DEF GetJob, SetTiles, AccountInv, LedgerInv, TypeOK
  <2>2. CASE JobOfRejectedSession
    BY <1>0, <2>2 DEF JobOfRejectedSession, AccountInv
  <2> QED
    BY <1>5, <2>1, <2>2 DEF JobStep
<1>6. CASE CheckStep
  <2>1. PrepareMatrix /\ authIsDev' = authIsDev /\ stragglers' = stragglers
    BY <1>6 DEF CheckStep, CheckFee, StragglerChecksFee
  <2>2. CASE UNCHANGED <<debt, balance, feeActive>>
    BY <1>0, <2>1, <2>2 DEF AccountInv
  <2>3. CASE ~authIsDev /\ UNCHANGED <<debt, balance>>
    BY <1>0, <2>1, <2>3 DEF AccountInv
  <2>4. CASE ~authIsDev /\ debt' = debt - Forgiven /\ balance' = balance - Forgiven
    BY <1>0, <1>a, <2>1, <2>4, ForgivenIsOwed DEF AccountInv, TypeOK
  <2> QED
    BY <2>1, <2>2, <2>3, <2>4, FeeCheck
<1>7. CASE ScanStep
  <2>1. PICK units \in 0..MaxCharge : Charged(units)
    BY <1>7, ScanCharges
  <2>2. pc = "scan" \/ (pc = "leaving" /\ stragglers < MaxStragglers)
    BY <2>1 DEF Charged
  <2>3. NoteTiles(units) /\ authIsDev' = authIsDev
    BY <2>1 DEF Charged
  <2>4. /\ gap' \in Nat /\ gap <= gap'
        /\ pc = "leaving" => gap' = gap + Period * MaxCharge
    <3>1. CASE stragglers' = stragglers /\ pc = "scan"
      BY <1>a, <3>1
    <3>2. CASE stragglers' = stragglers + 1
      BY <1>0, <1>a, <3>2, GapGrows DEF TypeOK
    <3> QED
      BY <2>1, <3>1, <3>2 DEF Charged
  <2> DEFINE paid == Period * units
  <2>5. paid \in Nat /\ paid <= Period * MaxCharge /\ IF units > 0 THEN paid > 0 ELSE paid = 0
    BY <2>2, <2>3, Charge
  <2>6. CASE ~authIsDev
    <3>1. debt' = debt + units /\ balance' = balance + units
      BY <2>2, <2>3, <2>6, Charge
    <3> HIDE DEF gap
    <3>2. timeBased => balance' <= debt' /\ debt' - balance' < gap'
      BY <1>0, <1>a, <2>4, <3>1 DEF AccountInv, TypeOK, gap
    <3> QED
      BY <1>0, <2>3, <2>6, <3>1, <3>2 DEF AccountInv, TypeOK, gap
  <2>7. CASE authIsDev
    <3>1. /\ debt' = IF paid >= debt THEN 0 ELSE debt - paid
          /\ balance' = balance - paid
          /\ feeActive' => feeActive /\ (units > 0 /\ timeBased => debt' # 0)
      BY <2>2, <2>3, <2>7, Charge
    <3>2. CASE feeActive /\ ~timeBased
      <4>1. paid <= debt
        <5>1. Period * MaxCharge = Threshold
          BY <1>0, <3>2, LedgerAssumption DEF Threshold, TypeOK
        <5> QED
          BY <1>0, <2>5, <3>2, <5>1, ThresholdAndSeed DEF LedgerInv, TypeOK
      <4> HIDE DEF paid
      <4> QED
        BY <1>0, <2>5, <3>1, <3>2, <4>1 DEF AccountInv, TypeOK
    <3>3. CASE feeActive /\ timeBased
      <4> HIDE DEF paid, gap
      <4>1. debt > 0 /\ balance = debt
        BY <1>0, <3>3 DEF LedgerInv, AccountInv
      <4>2. balance' <= debt' /\ debt' - balance' < gap'
        BY <1>0, <1>a, <2>4, <2>5, <3>1, <4>1 DEF TypeOK
      <4>3. feeActive' => balance' = debt'
        <5>1. ASSUME feeActive' PROVE units > 0 => debt' # 0
          BY <3>1, <3>3, <5>1
        <5> QED
          BY <1>0, <2>5, <3>1, <4>1, <5>1 DEF TypeOK
      <4> QED
        BY <1>0, <2>3, <2>7, <3>3, <4>2, <4>3 DEF AccountInv, gap
    <3>4. CASE ~feeActive
      <4>1. pc = "leaving" /\ timeBased /\ debt = 0
        BY <1>0, <2>2, <2>7, <3>4 DEF IInv, SessionInv, LedgerInv, Leaving
      <4> HIDE DEF paid, gap
      <4>2. balance' <= debt' /\ debt' - balance' < gap'
        BY <1>0, <1>a, <2>4, <2>5, <3>1, <4>1 DEF AccountInv, TypeOK, gap
      <4> QED
        BY <1>0, <2>3, <2>7, <3>1, <3>4, <4>1, <4>2 DEF AccountInv, gap
    <3> QED
      BY <3>2, <3>3, <3>4
  <2> QED
    BY <2>6, <2>7
<1>8. CASE UNCHANGED vars
  BY <1>0, <1>8 DEF vars, AccountInv
<1> QED
  BY <1>1, <1>2, <1>3, <1>4, <1>5, <1>6, <1>7, <1>8, StepCases

LEMMA DebtStep == ASSUME IInv, [Next]_vars PROVE DebtInv'
<1> DEFINE cap(n) == Threshold + MaxCharge * (1 + n)
<1> USE DEF Leaving, ledgerVars, poolVars, sessionVars, loginVars
<1>0. /\ TypeOK /\ DebtInv /\ MaxCharge \in Nat \ {0}
      /\ Threshold \in Nat \ {0} /\ Seed <= Threshold /\ Seed \in Nat
      /\ timeBased' = timeBased /\ timeBased \in BOOLEAN
  BY ThresholdAndSeed, ConstantTypes, KindStep DEF IInv
<1>a. ASSUME NEW n \in Nat
      PROVE  cap(n) \in Nat /\ Threshold + MaxCharge <= cap(n) /\ cap(n + 1) = cap(n) + MaxCharge
  BY <1>0, Chunks
<1>b. /\ debt < cap(MaxStragglers)
      /\ ~timeBased => debt < Threshold + MaxCharge
      /\ ~authIsDev /\ pc = "scan" => debt < Threshold
      /\ ~authIsDev /\ pc = "matrix" => debt < Threshold + MaxCharge
      /\ Leaving => debt < cap(stragglers)
  BY <1>0 DEF DebtInv
<1>c. ASSUME debt' < cap(MaxStragglers),
             ~timeBased => debt' < Threshold + MaxCharge,
             ~authIsDev' /\ pc' = "scan" => debt' < Threshold,
             ~authIsDev' /\ pc' = "matrix" => debt' < Threshold + MaxCharge,
             Leaving' => debt' < cap(stragglers')
      PROVE  DebtInv'
  BY <1>0, <1>c DEF DebtInv, Threshold
<1> HIDE DEF cap
<1>d. /\ cap(MaxStragglers) \in Nat /\ Threshold + MaxCharge <= cap(MaxStragglers)
      /\ cap(stragglers) \in Nat /\ Threshold + MaxCharge <= cap(stragglers)
      /\ cap(stragglers + 1) = cap(stragglers) + MaxCharge
  BY <1>0, <1>a, ConstantTypes DEF TypeOK
<1>e. ASSUME debt' \in Nat, debt' <= debt,
             pc' \notin {"scan", "matrix", "leaving", "leavingCheck"}
      PROVE  DebtInv'
  BY <1>0, <1>b, <1>c, <1>d, <1>e DEF TypeOK
<1>1. CASE EndStep
  <2>1. SessionEnd /\ pc' = "dial"
    BY <1>1 DEF EndStep, Reconnect, ConnectFails
  <2>2. debt' \in Nat /\ debt' <= debt
    BY <1>0, <2>1, EndOfSession, ForgivenIsOwed DEF TypeOK
  <2> QED
    BY <1>e, <2>1, <2>2
<1>2. CASE Dial
  BY <1>0, <1>2, <1>e DEF Dial, TypeOK
<1>3. CASE Login
  BY <1>0, <1>3, <1>e DEF Login, TypeOK
<1>4. CASE MoveStep
  <2>1. pc' \in {"start", "session", "reconnect"} /\ debt' = debt
    BY <1>4 DEF MoveStep, LoginFails, SessionDrops, Leave, JobEnds
  <2> QED
    BY <1>0, <1>e, <2>1 DEF TypeOK
<1>5. CASE JobStep
  <2>1. pc' \in {"start", "reconnect"} /\ (debt' = debt \/ (debt' = Seed /\ timeBased))
    BY <1>5 DEF JobStep, GetJob, JobOfRejectedSession, SetTiles, IInv, LedgerInv
  <2> QED
    BY <1>0, <1>b, <1>c, <1>d, <2>1 DEF TypeOK
<1>6. CASE CheckStep
  <2>1. PrepareMatrix /\ authIsDev' = authIsDev /\ stragglers' = stragglers
    BY <1>6 DEF CheckStep, CheckFee, StragglerChecksFee
  <2>2. debt' \in Nat /\ debt' <= debt
    BY <1>0, <2>1, FeeCheck, ForgivenIsOwed DEF TypeOK
  <2>3. CASE CheckFee
    <3>1. ~authIsDev /\ pc' = "scan" => debt' < Threshold
      <4>1. SUFFICES ASSUME ~authIsDev, ~feeActive' PROVE debt' < Threshold
        BY <2>3 DEF CheckFee, NeedsSwitch, IInv, TypeOK
      <4>2. CASE ~FeeDue /\ UNCHANGED <<debt, balance, feeActive>>
        BY <1>0, <4>1, <4>2 DEF FeeDue, TypeOK
      <4>3. CASE debt' = debt - Forgiven
        BY <1>0, <4>3, ForgivenIsOwed
      <4> QED
        BY <2>1, <4>1, <4>2, <4>3, FeeCheck
    <3>2. pc' = "leaving" => debt' < cap(stragglers)
      <4>1. SUFFICES ASSUME pc = "matrix", feeActive' # authIsDev PROVE debt' < cap(stragglers)
        BY <2>3 DEF CheckFee, NeedsSwitch
      <4>2. CASE ~authIsDev
        BY <1>0, <1>b, <1>d, <2>2, <4>1, <4>2 DEF TypeOK
      <4>3. CASE authIsDev
        <5>1. ~feeActive
          BY <2>1, <4>1, <4>3, FeeCheck DEF TypeOK, IInv
        <5>2. debt < Threshold
          BY <4>3, <5>1 DEF IInv, LedgerInv
        <5> QED
          BY <1>0, <1>d, <2>2, <5>2 DEF TypeOK
      <4> QED
        BY <4>2, <4>3
    <3>3. pc' \in {"scan", "leaving", "reconnect"}
      BY <2>3 DEF CheckFee
    <3> QED
      BY <1>0, <1>b, <1>c, <1>d, <2>1, <2>2, <3>1, <3>2, <3>3 DEF TypeOK
  <2>4. CASE StragglerChecksFee
    <3>1. pc = "leavingCheck" /\ pc' = "leaving"
      BY <2>4 DEF StragglerChecksFee
    <3> QED
      BY <1>0, <1>b, <1>c, <1>d, <2>1, <2>2, <3>1 DEF TypeOK
  <2> QED
    BY <1>6, <2>3, <2>4 DEF CheckStep
<1>7. CASE ScanStep
  <2>1. PICK units \in 0..MaxCharge : Charged(units)
    BY <1>7, ScanCharges
  <2>2. /\ NoteTiles(units) /\ authIsDev' = authIsDev
        /\ pc = "scan" \/ (pc = "leaving" /\ stragglers < MaxStragglers)
    BY <2>1 DEF Charged
  <2>3. debt' \in Nat /\ IF authIsDev THEN debt' <= debt ELSE debt' = debt + units
    <3> DEFINE paid == Period * units
    <3>1. /\ paid \in Nat
          /\ authIsDev => debt' = IF paid >= debt THEN 0 ELSE debt - paid
          /\ ~authIsDev => debt' = debt + units
      BY <2>2, Charge
    <3> HIDE DEF paid
    <3> QED
      BY <1>0, <3>1 DEF TypeOK
  <2>4. CASE pc = "scan"
    <3>1. pc' \in {"matrix", "halted"}
      BY <2>1, <2>4 DEF Charged
    <3> QED
      BY <1>0, <1>b, <1>c, <1>d, <2>2, <2>3, <2>4, <3>1 DEF TypeOK
  <2>5. CASE pc = "leaving" /\ stragglers < MaxStragglers
    <3>1. pc' = "leavingCheck" /\ stragglers' = stragglers + 1 /\ timeBased
      BY <2>1, <2>5 DEF Charged, IInv, SessionInv
    <3>2. cap(stragglers + 1) <= cap(MaxStragglers)
      <4>1. 1 + (stragglers + 1) \in Nat /\ 1 + (stragglers + 1) <= 1 + MaxStragglers
        BY <1>0, <2>5, ConstantTypes DEF TypeOK
      <4>2. MaxCharge * (1 + (stragglers + 1)) <= MaxCharge * (1 + MaxStragglers)
        BY <1>0, <4>1, ConstantTypes, TimesMonotone
      <4>3. /\ MaxCharge * (1 + (stragglers + 1)) \in Nat
            /\ MaxCharge * (1 + MaxStragglers) \in Nat
        BY <1>0, <4>1, ConstantTypes, TimesMonotone
      <4> HIDE DEF Threshold
      <4> QED
        BY <1>0, <4>2, <4>3 DEF cap
    <3>3. debt' < cap(stragglers + 1)
      BY <1>0, <1>b, <1>d, <2>3, <2>5 DEF TypeOK
    <3>4. debt' < cap(stragglers')
      BY <3>1, <3>3
    <3>5. debt' < cap(MaxStragglers)
      BY <1>0, <1>d, <2>3, <3>2, <3>3 DEF TypeOK
    <3> QED
      BY <1>c, <3>1, <3>4, <3>5
  <2> QED
    BY <2>2, <2>4, <2>5
<1>8. CASE UNCHANGED vars
  BY <1>0, <1>8 DEF vars, DebtInv
<1> QED
  BY <1>1, <1>2, <1>3, <1>4, <1>5, <1>6, <1>7, <1>8, StepCases

-----------------------------------------------------------------------------
(***************************************************************************)
(* The invariant.                                                           *)
(***************************************************************************)

\* It holds at the start ...
LEMMA InitIInv == Init => IInv
<1> SUFFICES ASSUME Init PROVE IInv
  OBVIOUS
<1>1. TypeOK
  BY InitType
<1>2. SessionInv /\ BackoffInv
  <2>1. /\ pc = "reconnect" /\ authIsDev = FALSE /\ devWallet = FALSE
        /\ feeActive = FALSE /\ sessionDev = FALSE
        /\ skipRest = 0 /\ fixedRest = 0 /\ skipBackoff = 0 /\ fixedBackoff = 0
    BY DEF Init
  <2>2. SessionInv
    BY <2>1 DEF SessionInv, WalletMatchesPool, Leaving
  <2>3. BackoffsHold
    BY <2>1 DEF BackoffsHold
  <2>4. BackoffInv
    BY <2>1, <2>3 DEF BackoffInv
  <2> QED
    BY <2>2, <2>4
<1>3. LedgerInv
  BY ThresholdAndSeed, ConstantTypes DEF Init, LedgerInv, Mining, Leaving
<1>4. AccountInv
  <2>1. stragglers = 0 /\ balance = debt
    BY DEF Init
  <2> QED
    BY <1>1, <2>1, GapGrows DEF AccountInv, TypeOK
<1>5. DebtInv
  <2>1. debt \in Nat /\ debt <= Threshold
    BY ThresholdAndSeed DEF Init
  <2>2. MaxCharge * (1 + MaxStragglers) \in Nat /\ MaxCharge <= MaxCharge * (1 + MaxStragglers)
    BY Chunks, ConstantTypes
  <2> QED
    BY <2>1, <2>2, ThresholdAndSeed, ConstantTypes DEF Init, DebtInv, Leaving
<1>6. RetryInv
  BY DEF Init, RetryInv, Mining, Leaving
<1> QED
  BY <1>1, <1>2, <1>3, <1>4, <1>5, <1>6 DEF IInv

\* ... is kept by every step ...
LEMMA StepIInv == IInv /\ [Next]_vars => IInv'
BY TypeStep, SessionStepInv, BackoffStep, RetryStep, LedgerStep, AccountStep, DebtStep DEF IInv

(* ... and so holds throughout. *)
THEOREM Invariance == Spec => []IInv
<1>1. Init => IInv
  BY InitIInv
<1>2. IInv /\ [Next]_vars => IInv'
  BY StepIInv
<1> QED
  BY <1>1, <1>2, PTL DEF Spec

(***************************************************************************)
(* Every variable keeps its type; the debt fits the 64-bit counter of       *)
(* cp_fee.cpp, and its subtraction never goes below zero.                   *)
(***************************************************************************)
THEOREM TypeCorrect == Spec => []TypeOK
<1>1. IInv => TypeOK
  BY DEF IInv
<1> QED
  BY <1>1, Invariance, PTL

(***************************************************************************)
(* For every period, matrix size and team, the Pearl debt is exactly the    *)
(* work the pools saw, and a Quantus fee turn is overpaid by less than the  *)
(* chunks that run when it ends.                                            *)
(***************************************************************************)
THEOREM LedgerIsExact == Spec => []LedgerMatchesWork
<1>1. IInv => LedgerMatchesWork
  <2>1. ASSUME IInv PROVE LedgerMatchesWork
    <3>1. CASE ~timeBased
      BY <2>1, <3>1 DEF IInv, AccountInv, LedgerMatchesWork
    <3>2. CASE timeBased
      <4>1. Period * MaxCharge \in Nat /\ stragglers \in Nat /\ stragglers <= MaxStragglers
        BY <2>1, GapGrows, ConstantTypes DEF IInv, TypeOK
      <4>2. /\ Period * MaxCharge * (1 + stragglers) <= Period * MaxCharge * (1 + MaxStragglers)
            /\ Period * MaxCharge * (1 + stragglers) \in Nat
            /\ Period * MaxCharge * (1 + MaxStragglers) \in Nat
        <5> DEFINE c == Period * MaxCharge
        <5>1. 1 + stragglers <= 1 + MaxStragglers /\ 1 + stragglers \in Nat /\ 1 + MaxStragglers \in Nat
          BY <4>1, ConstantTypes
        <5>2. c \in Nat
          BY <4>1
        <5> HIDE DEF c
        <5>3. /\ c * (1 + stragglers) <= c * (1 + MaxStragglers)
              /\ c * (1 + stragglers) \in Nat /\ c * (1 + MaxStragglers) \in Nat
          BY <5>1, <5>2, TimesMonotone
        <5> QED
          BY <5>3 DEF c
      <4>3. balance <= debt /\ debt - balance < Period * MaxCharge * (1 + stragglers)
        BY <2>1, <3>2 DEF IInv, AccountInv
      <4>4. debt \in Nat /\ balance \in Int
        BY <2>1, ConstantTypes DEF IInv, TypeOK
      <4> DEFINE a == Period * MaxCharge * (1 + stragglers)
                 b == Period * MaxCharge * (1 + MaxStragglers)
      <4>5. a \in Nat /\ b \in Nat /\ a <= b /\ debt - balance < a
        BY <4>2, <4>3
      <4> HIDE DEF a, b
      <4>6. debt - balance < b
        BY <4>4, <4>5
      <4> QED
        BY <3>2, <4>3, <4>6 DEF LedgerMatchesWork, b
    <3> QED
      BY <3>1, <3>2 DEF LedgerMatchesWork
  <2> QED
    BY <2>1
<1> QED
  BY <1>1, Invariance, PTL

(***************************************************************************)
(* However pools fail and cycles are skipped, the debt stays under the      *)
(* threshold plus the work under way when it is reached.                    *)
(***************************************************************************)
THEOREM DebtIsBounded == Spec => []DebtBounded
<1>1. IInv => DebtBounded
  <2> SUFFICES ASSUME IInv PROVE DebtBounded
    OBVIOUS
  <2>1. MaxCharge * 1 = MaxCharge
    BY ConstantTypes
  <2> QED
    BY <2>1 DEF IInv, DebtInv, DebtBounded
<1> QED
  BY <1>1, Invariance, PTL

(***************************************************************************)
(* In every session the wallet wanted, given and charged is one, and the    *)
(* user's wallet is only given to the user's pool.                          *)
(***************************************************************************)
THEOREM WalletsMatchPools == Spec => []WalletMatchesPool
<1>1. IInv => WalletMatchesPool
  BY DEF IInv, SessionInv
<1> QED
  BY <1>1, Invariance, PTL

(***************************************************************************)
(* For any number of fee pools and any cap, no cycle that is to be skipped  *)
(* runs, no fee pool is dialled while cycles go to the user's pool, and the *)
(* counts stay under the backoffs.                                          *)
(***************************************************************************)
THEOREM BackingOff == Spec => []BackoffsHold
<1>1. IInv => BackoffsHold
  BY DEF IInv, BackoffInv
<1> QED
  BY <1>1, Invariance, PTL

(***************************************************************************)
(* For any list of fee pools and any delays, the pool and wallet that just  *)
(* got no job are dialled again only after a wait.                          *)
(***************************************************************************)
THEOREM NoImmediateRetries == Spec => NoImmediateRetry
<1>1. ASSUME IInv, [Next]_vars
      PROVE  [pc = "dial" /\ pc' = "connecting" /\ ~fruitful /\ target' = target
                => delay >= DelayMin]_vars
  <2>1. SUFFICES ASSUME pc = "dial", pc' = "connecting", ~fruitful, target' = target
                 PROVE  delay >= DelayMin
    OBVIOUS
  <2>2. Dial
    BY <1>1, <2>1 DEF Next, Rest, vars, ConnectStep, SessionStep, MineStep, ScanStep,
       Reconnect, ConnectFails, Login, LoginFails, GetJob, SessionDrops,
       JobOfRejectedSession, CheckFee, StragglerChecksFee, Leave, JobEnds, Scan, Straggle
  <2>3. target = NextTarget
    BY <2>1, <2>2 DEF Dial, NextTarget
  <2> QED
    BY <1>1, <2>1, <2>3 DEF IInv, RetryInv
<1> QED
  BY <1>1, Invariance, PTL DEF Spec, NoImmediateRetry
=============================================================================
