SPECIFICATION Spec
CONSTANTS
  OldMail = {1}
  WindowMail = {2}
  NewMail = {}
  Anonymous = {}
  Copies = {1, 2}
  FetchBatch = 2
  Budget = 2
  MaxFailures = 1
  MaxCrashes = 2
  MaxRenumbers = 1
  MaxPurges = 1
  MaxSearches = 1
  MaxGcs = 1
INVARIANTS SourceOnDisk
CHECK_DEADLOCK FALSE
