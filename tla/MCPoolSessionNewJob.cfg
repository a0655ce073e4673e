\* A job queued while another is mined may be left behind.
CONSTANTS
  Algos = {"pearl"}
  MaxJobs = 2
  MaxSessions = 1
  MaxInbox = 1
  ResendUntil = 0
SPECIFICATION FairSpec
PROPERTY NewJobIsMined
