\* The cursor of one folder: deliveries, expunges, a new UIDVALIDITY, a lost
\* connection, one message per fetch.
SPECIFICATION Spec
CONSTANTS
  Msgs = {m1, m2, m3}
  Folders = {"inbox"}
  Old = {m3}
  Frozen = {}
  Shells = {}
  FirstUid = 1
  FetchBatch = 1
  UidPlus = TRUE
  MaxUid = 3
  MaxEpoch = 2
  MaxDrops = 1
  OwnDests = {}
INVARIANT NothingIsOverlooked
