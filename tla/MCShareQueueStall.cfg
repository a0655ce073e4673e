\* A pool that keeps the connection open but stops reading from it.
CONSTANTS
  Modes <- OneHostMode
  MaxDepth = 1
  MaxNonce = 1
  MaxJobs = 1
  MaxSessions = 2
  PoolMayStall = TRUE
SPECIFICATION FairSpec
PROPERTY LostConnectionIsLeft
