\* Live capture and the sweep share a budget of two messages a day.
SPECIFICATION FairSpec
CONSTANTS
  OldMail = {1}
  WindowMail = {2}
  NewMail = {3}
  Anonymous = {}
  Copies = {1, 2, 3}
  FetchBatch = 2
  Budget = 2
  MaxFailures = 1
  MaxCrashes = 1
  MaxRenumbers = 0
  MaxPurges = 0
  MaxSearches = 0
  MaxGcs = 0
INVARIANTS
  
  SweptOrMissed
PROPERTY FullySynced
CHECK_DEADLOCK FALSE
