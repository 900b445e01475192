\* Preferences: two keys, two edits.  Settings: one key, two saves at once, two changes.
\* Session: one outage, expiry or sign-out, one reload, in both set-ups.  Rules: two of
\* them, two messages around one instant, batches of one.  Review: two messages of a
\* sender, one page each, one filter, one request, run and thing done elsewhere at a time.
\* A list: four messages, one of them to come and one not yet cached, pages of two, one
\* request failing, departure or change elsewhere.
SPECIFICATION FairSpec
CONSTANTS
  Keys = {k1, k2}
  Values = {0, 1}
  Default = 0
  InOrder = TRUE
  MaxPushes = 1
  MaxReads = 1
  MaxEdits = 2
  MaxTrouble = 1
  SettingKeys = {k1}
  MaxSaves = 2
  MaxLoads = 1
  MaxChanges = 2
  MaxMishaps = 2
  Modes = {"login", "gateway"}
  MaxStrain = 1
  Labels = {x}
  Depth = 2
  Accounts = {a1}
  Furnished = {a1}
  Scopes = {a1, "every"}
  Moves = {"spam", "archive"}
  Marks = {}
  Letters = {m1, m2}
  Clients = {c1}
  Batch = 1
  MaxPasses = 3
  MaxRules = 2
  MaxTime = 1
  Size = 2
  Hits = {1}
  Gated = {2}
  Slices = {"storage", "newsletters"}
  PerPage = 1
  Faults = {"list", "run"}
  MaxAsks = 1
  MaxRuns = 1
  MaxStirs = 1
  Length = 4
  Expected = 1
  Away = 1
  Ties = {}
  OldUnread = {1}
  Tops = {TRUE, FALSE}
  PageSize = 2
  Failing = {"head", "more"}
  MaxHeads = 1
  MaxHitches = 1
CHECK_DEADLOCK FALSE
INVARIANTS LoneEditIsKept SignedOutStaysOut SpecificRuleWins NoReachBack
  MarkedIsSpared NoHole
PROPERTIES DeviceAgrees ComesBack LoopLeavesNone ListSettles
