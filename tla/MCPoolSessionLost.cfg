\* The session loop may miss the loss of the connection.
CONSTANTS
  Algos = {"pearl"}
  MaxJobs = 1
  MaxSessions = 1
  MaxInbox = 1
  ResendUntil = 0
SPECIFICATION FairSpec
PROPERTY LostConnectionIsNoticed
