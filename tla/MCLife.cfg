\* Every route, job and actor over one message.
SPECIFICATION FairSpec
CONSTANTS
  Msgs = {m1}
  Archived = {m1}
  Actions = {"cleanup", "restore", "forever", "empty", "detach", "other"}
  UidPlus = TRUE
  MaxAttempts = 2
  MaxUid = 3
  MaxExecutes = 1
  MaxRequests = 1
  MaxCrashes = 1

  
PROPERTIES
  
  
  QueueDrains
CHECK_DEADLOCK FALSE
