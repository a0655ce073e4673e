\* Both session loops: safety and liveness.
CONSTANTS
  Algos = {"pearl", "quantus"}
  MaxJobs = 3
  MaxSessions = 2
  MaxInbox = 1
  ResendUntil = 2
SPECIFICATION FairSpec
INVARIANTS TypeOK NoLineSleptOn CancelledForNewerOrResent MinedJobOfThisSession
PROPERTIES SilentPoolIsLeft ReconnectCompletes
