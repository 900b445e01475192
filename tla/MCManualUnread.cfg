SPECIFICATION ReaderSpec
CONSTANTS
  Views = {TRUE}
  Dwells = {"at once"}
  MaxUnread = 1
  MaxDeeds = 2
  MaxLosses = 0
CHECK_DEADLOCK FALSE
INVARIANT ManualUnreadStands
