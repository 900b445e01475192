\* Two folders, two connections, maily's own deletes and restores, beside a
\* detached message and a purged one that another client brings back.
SPECIFICATION FairSpec
CONSTANTS
  Msgs = {m1, m2, m3}
  Folders = {"inbox", "trash"}
  Old = {}
  Frozen = {m3}
  Shells = {m2}
  FirstUid = 1
  FetchBatch = 1
  UidPlus = TRUE
  MaxUid = 2
  MaxEpoch = 1
  MaxDrops = 1
  OwnDests = {"trash"}
PROPERTY Converges
