\* The worker: two threads, the first may crash.  Notifications: a message around one
\* second, two credentials, two taps, one fault.  Contacts: two cards and a free name in
\* two books, two facts, one edit elsewhere, one write, one fault.  The flag:
\* two taps, each tried twice, one change elsewhere, one restart, lost reply or cut pass.
SPECIFICATION FairSpec
CONSTANTS
  Accounts = {a1}
  Threads = {t1, t2}
  MaxNudges = 2
  MaxCrashes = 1
  Msgs = {m1}
  Tokens = {k1, k2}
  Limit = 1
  MaxTime = 1
  MaxToggles = 2
  MaxFaults = 1
  Hrefs = {h1, h2, h3}
  First = {h1, h2}
  Books = {b1, b2}
  Configured = b1
  Facts = {f1, f2}
  Clients = {c1}
  MaxEdits = 1
  MaxWrites = 1
  MaxDavFaults = 1
  CondStore = TRUE
  MaxAttempts = 2
  MaxTaps = 2
  MaxOthers = 1
  MaxTrouble = 1
CHECK_DEADLOCK FALSE
INVARIANTS OfferedOnce 
PROPERTIES DueIsDrained 
