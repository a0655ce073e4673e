-------------------------------- MODULE Fee --------------------------------
(***************************************************************************)
(* The developer fee (src/common/cp_fee.cpp) and the session loop around it *)
(* (src/common/cp_pool_session.cpp, the charges in cp_mine.cpp and          *)
(* cp_qpow_mine.cpp).  A ledger of debt grows with the work done for the    *)
(* user and falls, Period times as fast, with the work done for the         *)
(* developer.  When it reaches Period * T the miner reconnects under the    *)
(* developer's wallet, to a list of fee pools tried in order and then to    *)
(* the user's own pool, and goes back when the fee is paid or no pool takes *)
(* the wallet.                                                              *)
(*                                                                         *)
(* Everything here runs in the mining thread (the CPU team of Quantus       *)
(* charges under fee_mx); what is left open is what the pools do and how    *)
(* much of a scan is done when it ends.  The fee is enabled.                *)
(***************************************************************************)
EXTENDS Integers

CONSTANTS
  Kinds,           \* which fees may be chosen: see timeBased
  Period,          \* CP_FEE_PERIOD, 100
  T,               \* tiles of one matrix, or the length of a turn
  PoolCount,       \* fixed fee pools: 6 for Pearl, 5 for Quantus
  BackoffMax,      \* CP_FEE_BACKOFF_MAX_CYCLES, 64
  DelayMin,        \* CP_RECONNECT_DELAY_MIN_SEC, 5
  DelayMax,        \* CP_RECONNECT_DELAY_MAX_SEC, 60
  MaxWord,         \* UINT64_MAX
  MaxCharge,       \* bound: units one scan or chunk is charged
  MaxStragglers,   \* bound: charges of a CPU team after its stop was asked for
  JobBeforeReject  \* may a pool send a job and then reject the wallet?

ASSUME KindAssumption == Kinds \subseteq BOOLEAN /\ JobBeforeReject \in BOOLEAN
ASSUME LedgerAssumption == /\ Period \in Nat \ {0} /\ T \in Nat \ {0}
                           /\ MaxCharge \in Nat \ {0} /\ MaxStragglers \in Nat
                           /\ FALSE \in Kinds => MaxCharge = T
ASSUME WordAssumption ==
  MaxWord \in Nat /\ Period * T + MaxCharge * (1 + MaxStragglers) <= MaxWord
ASSUME PoolAssumption == /\ PoolCount \in Nat /\ BackoffMax \in Nat \ {0}
                         /\ DelayMin \in Nat \ {0} /\ DelayMax \in Nat
                         /\ DelayMin <= DelayMax

VARIABLES
  timeBased,  \* Quantus (microseconds, a whole turn) or Pearl (tiles)
  debt, known, feeActive, authIsDev,          \* the ledger; known: T is set
  poolIdx, poolGood, sessionDev, gotJob,      \* failover
  fixedRest, fixedBackoff, skipRest, skipBackoff,
  delay,                                      \* g_reconnect_delay_sec
  pc,                                         \* where the mining thread is
  stragglers,                                 \* counts up to MaxStragglers
  \* history: the wallet the pool was given, the pool and wallet of the last
  \* attempt, whether it got a job, and the ledger kept by that wallet
  devWallet, target, fruitful, balance

ledgerVars  == <<debt, known, feeActive, balance>>
poolVars    == <<poolIdx, poolGood, fixedRest, fixedBackoff, skipRest, skipBackoff>>
sessionVars == <<sessionDev, gotJob, delay, target, fruitful>>
loginVars   == <<timeBased, authIsDev, devWallet, stragglers>>
vars == <<ledgerVars, poolVars, sessionVars, loginVars, pc>>

Least(a, b) == IF a < b THEN a ELSE b

Threshold == Period * T
Seed == (Period \div 2) * T

UsersPool == PoolCount
NoTarget == [pool |-> UsersPool + 1, dev |-> FALSE]

\* Pearl sets T before the first session (main.cpp:148-155), Quantus per job.
Init ==
  /\ timeBased \in Kinds
  /\ known = ~timeBased /\ debt = (IF timeBased THEN 0 ELSE Seed)
  /\ balance = debt /\ feeActive = FALSE /\ authIsDev = FALSE
  /\ poolIdx = 0 /\ poolGood = 0 /\ sessionDev = FALSE /\ gotJob = FALSE
  /\ fixedRest = 0 /\ fixedBackoff = 0 /\ skipRest = 0 /\ skipBackoff = 0
  /\ delay = 0 /\ pc = "reconnect" /\ stragglers = 0
  /\ devWallet = FALSE /\ target = NoTarget /\ fruitful = TRUE

-----------------------------------------------------------------------------
\* The ledger

\* Mutant: no cap.
NextBackoffUncapped(cycles) == IF cycles = 0 THEN 1 ELSE 2 * cycles

NextBackoff(cycles) == IF cycles = 0 THEN 1 ELSE Least(2 * cycles, BackoffMax)

\* What pay_fee_cycle takes off the debt.
Forgiven == IF timeBased \/ debt < Threshold THEN debt ELSE Threshold

\* Mutant: the cycle is closed but stays unpaid.
PayFeeCycleNot ==
  feeActive' = FALSE /\ UNCHANGED <<debt, balance>>

\* pay_fee_cycle: the cycle counts as mined.
PayFeeCycle ==
  /\ debt' = debt - Forgiven /\ balance' = balance - Forgiven
  /\ feeActive' = FALSE

\* The work as the pool sees it: by the wallet it was given.
BalanceAfter(units) ==
  balance' = IF devWallet THEN balance - Period * units ELSE balance + units

\* Mutant: charged by the wallet wanted next.
NoteTilesByNext(units) ==
  /\ BalanceAfter(units)
  /\ IF feeActive
     THEN /\ debt' = (IF Period * units >= debt THEN 0 ELSE debt - Period * units)
          /\ feeActive' = (IF timeBased THEN debt' > 0 ELSE debt' >= Threshold)
     ELSE debt' = debt + units /\ UNCHANGED feeActive

\* Mutant: a Pearl fee cycle ends only with the debt paid off.
NoteTilesToZero(units) ==
  /\ BalanceAfter(units)
  /\ IF authIsDev
     THEN /\ debt' = (IF Period * units >= debt THEN 0 ELSE debt - Period * units)
          /\ feeActive' = (feeActive /\ debt' > 0)
     ELSE debt' = debt + units /\ UNCHANGED feeActive

\* cp_fee_note_tiles
NoteTiles(units) ==
  /\ BalanceAfter(units)
  /\ IF authIsDev
     THEN /\ debt' = (IF units > MaxWord \div Period \/ Period * units >= debt
                      THEN 0 ELSE debt - Period * units)
          /\ feeActive' = (feeActive /\
               ~(units > 0 /\ IF timeBased THEN debt' = 0 ELSE debt' < Threshold))
     ELSE /\ debt' = Least(debt + units, MaxWord)
          /\ UNCHANGED feeActive

FeeDue == ~feeActive /\ debt >= Threshold

\* Mutant: a cycle that is to be skipped is tried.
StartOrSkipCycleAlways ==
  /\ feeActive' = TRUE /\ poolIdx' = (IF fixedRest > 0 THEN UsersPool ELSE poolGood)
  /\ fixedRest' = (IF fixedRest > 0 THEN fixedRest - 1 ELSE 0)
  /\ UNCHANGED <<debt, balance, skipRest>>

\* The body of cp_fee_prepare_matrix when the fee is due.
StartOrSkipCycle ==
  IF skipRest > 0
  THEN /\ skipRest' = skipRest - 1 /\ PayFeeCycle
       /\ UNCHANGED <<poolIdx, fixedRest>>
  ELSE /\ feeActive' = TRUE
       /\ IF fixedRest > 0
          THEN fixedRest' = fixedRest - 1 /\ poolIdx' = UsersPool
          ELSE poolIdx' = poolGood /\ UNCHANGED fixedRest
       /\ UNCHANGED <<debt, balance, skipRest>>

PrepareMatrix ==
  /\ IF FeeDue THEN StartOrSkipCycle
     ELSE UNCHANGED <<debt, balance, feeActive, poolIdx, fixedRest, skipRest>>
  /\ UNCHANGED <<known, poolGood, fixedBackoff, skipBackoff>>

NeedsSwitch(wanted) == wanted # authIsDev

-----------------------------------------------------------------------------
\* Connecting: pool_session_connect

OnFeePool == sessionDev /\ poolIdx < PoolCount

\* A fee session that never got a job: cp_fee_session_end then returns 1.
SessionFailed == sessionDev /\ ~gotJob /\ feeActive

\* Every fixed pool failed: the user's pool, for the next fee cycles too.
GiveUpFixedPools ==
  /\ poolGood' = 0 /\ fixedBackoff' = NextBackoff(fixedBackoff)
  /\ fixedRest' = NextBackoff(fixedBackoff)

\* Mutant: the failed pool is tried again.
NextFeePoolSame ==
  /\ poolIdx < PoolCount
  /\ UNCHANGED <<poolIdx, poolGood, fixedRest, fixedBackoff>>
  /\ UNCHANGED <<debt, balance, feeActive, skipRest, skipBackoff>>

NextFeePool ==
  /\ poolIdx < PoolCount /\ poolIdx' = poolIdx + 1
  /\ IF poolIdx + 1 < PoolCount
     THEN UNCHANGED <<poolGood, fixedRest, fixedBackoff>>
     ELSE GiveUpFixedPools
  /\ UNCHANGED <<debt, balance, feeActive, skipRest, skipBackoff>>

\* The user's pool does not take the fee wallet either: skip this cycle.
GiveUpCycle ==
  /\ poolIdx >= PoolCount /\ PayFeeCycle
  /\ skipBackoff' = NextBackoff(skipBackoff)
  /\ skipRest' = NextBackoff(skipBackoff)
  /\ UNCHANGED <<poolIdx, poolGood, fixedRest, fixedBackoff>>

\* cp_fee_session_end; the next connect goes out at once after a failure.
SessionEnd ==
  /\ IF SessionFailed THEN (NextFeePool \/ GiveUpCycle) /\ delay' = 0
     ELSE UNCHANGED <<debt, balance, feeActive, poolVars, delay>>
  /\ sessionDev' = FALSE /\ gotJob' = FALSE /\ UNCHANGED known

\* The reconnect label: the session that was is over.
Reconnect ==
  /\ pc = "reconnect" /\ pc' = "dial" /\ SessionEnd
  /\ UNCHANGED <<loginVars, target, fruitful>>

\* Mutant: the pool is chosen by the wallet of the session before.
DialByLastWallet ==
  /\ pc = "dial" /\ pc' = "connecting"
  /\ delay' = IF delay = 0 THEN DelayMin ELSE Least(2 * delay, DelayMax)
  /\ sessionDev' = authIsDev /\ gotJob' = FALSE
  /\ target' = [pool |-> IF authIsDev THEN poolIdx ELSE UsersPool, dev |-> authIsDev]
  /\ fruitful' = FALSE
  /\ UNCHANGED <<ledgerVars, poolVars, loginVars>>

\* pool_reconnect_wait, which is over now, and cp_fee_session_pool.
Dial ==
  /\ pc = "dial" /\ pc' = "connecting"
  /\ delay' = IF delay = 0 THEN DelayMin ELSE Least(2 * delay, DelayMax)
  /\ sessionDev' = feeActive /\ gotJob' = FALSE
  /\ target' = [pool |-> IF feeActive THEN poolIdx ELSE UsersPool, dev |-> feeActive]
  /\ fruitful' = FALSE
  /\ UNCHANGED <<ledgerVars, poolVars, loginVars>>

ConnectFails ==
  /\ pc = "connecting" /\ pc' = "dial" /\ SessionEnd
  /\ UNCHANGED <<loginVars, target, fruitful>>

(***************************************************************************)
(* Connected and authorized or logged in with cp_fee_wallet(), then         *)
(* cp_fee_on_authorized; or neither, and the loop reconnects.               *)
(***************************************************************************)
Login ==
  /\ pc = "connecting" /\ pc' = "session"
  /\ authIsDev' = feeActive /\ devWallet' = feeActive /\ stragglers' = 0
  /\ balance' = IF timeBased /\ ~feeActive THEN debt ELSE balance
  /\ UNCHANGED <<timeBased, debt, known, feeActive, poolVars, sessionVars>>

LoginFails ==
  /\ pc = "connecting" /\ pc' = "reconnect"
  /\ UNCHANGED <<ledgerVars, poolVars, sessionVars, loginVars>>

-----------------------------------------------------------------------------
\* In a session

\* pool_session_ok: the session got a job; cp_fee_session_ok.
SessionOk ==
  /\ delay' = 0 /\ fruitful' = TRUE
  /\ IF sessionDev /\ ~gotJob
     THEN /\ gotJob' = TRUE /\ skipBackoff' = 0
          /\ IF poolIdx < PoolCount
             THEN poolGood' = poolIdx /\ fixedBackoff' = 0
             ELSE UNCHANGED <<poolGood, fixedBackoff>>
     ELSE UNCHANGED <<gotJob, skipBackoff, poolGood, fixedBackoff>>
  /\ UNCHANGED <<sessionDev, target, poolIdx, fixedRest, skipRest>>

\* cp_fee_set_tiles_per_matrix: the first T seeds the debt.
SetTiles ==
  /\ known' = TRUE /\ UNCHANGED feeActive
  /\ IF known THEN UNCHANGED <<debt, balance>>
     ELSE debt' = Seed /\ balance' = balance + Seed

\* A job is mined: up to the check of the fee.
GetJob ==
  /\ pc = "session" /\ pc' = "start" /\ SessionOk /\ SetTiles
  /\ UNCHANGED loginVars

(***************************************************************************)
(* The pool sent a job and rejected the authorize, and the reader handled   *)
(* both lines before the session loop took the job from the inbox: the loop *)
(* notes a job, whose mining ends before its first scan.                    *)
(***************************************************************************)
JobOfRejectedSession ==
  /\ JobBeforeReject /\ ~timeBased
  /\ pc = "session" /\ pc' = "reconnect" /\ SessionOk
  /\ UNCHANGED <<ledgerVars, loginVars>>

\* No authorize reply, no job, or the connection is lost.
SessionDrops ==
  /\ pc = "session" /\ pc' = "reconnect"
  /\ UNCHANGED <<ledgerVars, poolVars, sessionVars, loginVars>>

\* Where the job loop looks at cancellation: Pearl before the fee, Quantus after.
AtCancelCheck == IF timeBased THEN pc = "scan" ELSE pc \in {"start", "matrix"}

\* The job is over: the pending job, the next line, or the connection is lost.
JobEnds ==
  /\ AtCancelCheck /\ pc' \in {"start", "session", "reconnect"}
  /\ UNCHANGED <<ledgerVars, poolVars, sessionVars, loginVars>>

\* cp_fee_prepare_matrix, then the switch of wallets if one is needed; a
\* Quantus job under way is left only when its threads are done.
CheckFee ==
  /\ pc \in {"start", "matrix"} /\ PrepareMatrix
  /\ pc' = IF ~NeedsSwitch(feeActive') THEN "scan"
           ELSE IF timeBased /\ pc = "matrix" THEN "leaving" ELSE "reconnect"
  /\ UNCHANGED <<sessionVars, loginVars>>

\* One scan or chunk, complete or not, is charged; a backend may also fail.
Scan(units) ==
  /\ pc = "scan" /\ pc' \in {"matrix", "halted"} /\ NoteTiles(units)
  /\ UNCHANGED <<known, poolVars, sessionVars, loginVars>>

(***************************************************************************)
(* The other threads of a Quantus CPU team finish their chunk, and charge   *)
(* it, after one of them asked for the switch; the last to store the result *)
(* may make it a cancelled job instead.                                     *)
(***************************************************************************)
Straggle(units) ==
  /\ pc = "leaving" /\ stragglers < MaxStragglers /\ stragglers' = stragglers + 1
  /\ pc' = "leavingCheck" /\ NoteTiles(units)
  /\ UNCHANGED <<timeBased, known, poolVars, sessionVars, authIsDev, devWallet>>

StragglerChecksFee ==
  /\ pc = "leavingCheck" /\ pc' = "leaving" /\ PrepareMatrix
  /\ UNCHANGED <<sessionVars, loginVars>>

Leave ==
  /\ pc = "leaving" /\ pc' \in {"reconnect", "session", "start"}
  /\ UNCHANGED <<ledgerVars, poolVars, sessionVars, loginVars>>

-----------------------------------------------------------------------------
ConnectStep == Reconnect \/ Dial \/ ConnectFails \/ Login \/ LoginFails
SessionStep == GetJob \/ SessionDrops
MineStep == CheckFee \/ StragglerChecksFee \/ Leave

ScanStep == \E units \in 0..MaxCharge : Scan(units) \/ Straggle(units)

\* The backend failed and the program ended.
Rest == pc = "halted" /\ UNCHANGED vars

Next == ConnectStep \/ SessionStep \/ JobOfRejectedSession \/ MineStep \/ JobEnds
        \/ ScanStep \/ Rest

Spec == Init /\ [][Next]_vars

(***************************************************************************)
(* The loop runs; a session gets a job or ends (the deadlines of the        *)
(* reader); and of the sessions that get a job not every one is dropped     *)
(* before its loop looks at the fee, or before anything is scanned.         *)
(***************************************************************************)
FairSpec ==
  /\ Spec /\ WF_vars(ConnectStep) /\ WF_vars(SessionStep) /\ WF_vars(MineStep)
  /\ SF_vars(CheckFee)
  /\ SF_vars(\E units \in 1..MaxCharge : Scan(units))

-----------------------------------------------------------------------------
(***************************************************************************)
(* Properties                                                               *)
(***************************************************************************)

Delays == {0} \cup DelayMin..DelayMax

\* Every variable has its type (the statics of cp_fee.cpp).
TypeOK ==
  /\ timeBased \in Kinds
  /\ debt \in 0..MaxWord /\ balance \in Int
  /\ known \in BOOLEAN /\ feeActive \in BOOLEAN /\ authIsDev \in BOOLEAN
  /\ poolIdx \in 0..PoolCount /\ poolGood \in 0..PoolCount
  /\ sessionDev \in BOOLEAN /\ gotJob \in BOOLEAN
  /\ fixedRest \in 0..BackoffMax /\ fixedBackoff \in 0..BackoffMax
  /\ skipRest \in 0..BackoffMax /\ skipBackoff \in 0..BackoffMax
  /\ delay \in Delays
  /\ pc \in {"reconnect", "dial", "connecting", "session", "start", "matrix",
             "scan", "leaving", "leavingCheck", "halted"}
  /\ stragglers \in 0..MaxStragglers
  /\ devWallet \in BOOLEAN /\ fruitful \in BOOLEAN
  /\ target \in [pool: 0..PoolCount + 1, dev: BOOLEAN]

(***************************************************************************)
(* The debt is the work the pools saw: +1 a unit under the user's wallet,   *)
(* -Period a unit under the developer's, minus the cycles given up.  Pearl  *)
(* is exact.  A Quantus turn is overpaid by less than the chunks running    *)
(* when it ends (the comment at cp_fee.cpp:258-260).                        *)
(***************************************************************************)
LedgerMatchesWork ==
  IF timeBased
  THEN balance <= debt /\ debt - balance < Period * MaxCharge * (1 + MaxStragglers)
  ELSE balance = debt

(***************************************************************************)
(* The fee is asked for in time: the debt never exceeds the threshold by    *)
(* more than the work that was running when it was reached, in whatever     *)
(* order pools fail and cycles are skipped.                                 *)
(***************************************************************************)
DebtBounded ==
  debt < Threshold + MaxCharge * (IF timeBased THEN 1 + MaxStragglers ELSE 1)

(***************************************************************************)
(* While connected, the work is charged by the wallet the pool was given;   *)
(* a fee pool is given only the developer's, and the user's wallet is only  *)
(* given to the user's pool (and with it --pool-pass,                       *)
(* cp_pool_session.cpp:319).                                                *)
(***************************************************************************)
WalletMatchesPool ==
  pc \in {"session", "start", "matrix", "scan", "leaving", "leavingCheck"} =>
    /\ authIsDev = devWallet /\ sessionDev = devWallet
    /\ target.dev = devWallet
    /\ ~devWallet => target.pool = UsersPool

(***************************************************************************)
(* Backing off: no fee session runs while cycles are to be skipped, no fee  *)
(* pool is dialled while cycles are to go to the user's pool, and neither   *)
(* count exceeds the backoff it was taken from, although a session that     *)
(* works resets the backoff and not the count.                              *)
(***************************************************************************)
BackoffsHold ==
  /\ skipRest > 0 => ~feeActive
  /\ feeActive /\ poolIdx < PoolCount => fixedRest = 0
  /\ skipRest <= skipBackoff /\ fixedRest <= fixedBackoff

(***************************************************************************)
(* "a failing pool is not hammered" (cp_pool_session.cpp:160-162): the pool *)
(* and wallet that just got no job are tried again only after a wait,       *)
(* although a failed fee session clears the delay.                          *)
(***************************************************************************)
NoImmediateRetry ==
  [][pc = "dial" /\ pc' = "connecting" /\ ~fruitful /\ target' = target
       => delay >= DelayMin]_vars

(***************************************************************************)
(* "a pool that rejects the fee wallet never stops the user's mining"       *)
(* (include/cp_fee.h:25-27): every fee cycle ends, paid or skipped.  It     *)
(* does not when a Pearl pool sends a job before it rejects the authorize:  *)
(* the session then counts as one that got a job, and the next one goes to  *)
(* the same pool at once.                                                   *)
(***************************************************************************)
FeeCycleEnds == feeActive ~> ~feeActive \/ pc = "halted"

(***************************************************************************)
(* Every fee cycle ends, whichever pools fail and however often they do     *)
(* (cp_fee_session_end), unless pools reject the wallet after a job again   *)
(* and again.                                                               *)
(***************************************************************************)
FeeCycleEndsUnlessRejected ==
  <>[][~JobOfRejectedSession]_vars => FeeCycleEnds
=============================================================================
