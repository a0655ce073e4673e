\* Safety of the share queue in every backend mode.
CONSTANTS
  Modes <- AllModes
  MaxDepth = 1
  MaxNonce = 2
  MaxJobs = 2
  MaxSessions = 2
  PoolMayStall = TRUE
SPECIFICATION Spec
INVARIANTS TypeOK OneOwner JobsApart SubmitsAccounted
PROPERTY ReclaimFindsBuffers
