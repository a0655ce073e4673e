\* Both fees: Pearl (whole matrices, exact accounts) with a pool that rejects
\* late, and Quantus (turns of hashing time) with a team of CPU threads.
CONSTANTS
  Kinds = {TRUE, FALSE}
  Period = 4
  T = 3
  PoolCount = 2
  BackoffMax = 3
  DelayMin = 5
  DelayMax = 60
  MaxWord = 1000000
  MaxCharge = 3
  MaxStragglers = 1
  JobBeforeReject = TRUE
SPECIFICATION FairSpec
INVARIANTS TypeOK LedgerMatchesWork DebtBounded WalletMatchesPool BackoffsHold
PROPERTIES NoImmediateRetry FeeCycleEndsUnlessRejected
