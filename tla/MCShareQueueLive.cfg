\* Liveness of the share queue and its refinement of the hand-off contract.
CONSTANTS
  Modes <- LiveModes
  MaxDepth = 1
  MaxNonce = 2
  MaxJobs = 1
  MaxSessions = 2
  PoolMayStall = FALSE
SPECIFICATION FairSpec
PROPERTIES EveryShareSettled MinerNeverStuck ImplementsHandoff
