\* The inbox: one delete of a message or two, two events of others, one fault.  Search: two
\* edits, two things done.  The reader: a conversation of two, one of them unread at first, read
\* as a conversation or not, marked at once or after a while, two things done, one loss.  The
\* dashboard: two messages, two thresholds, one place in the cache, one write, run and thing done.
\* The composer: one edit, one file, one row, one thing going wrong.
SPECIFICATION FairSpec
CONSTANTS
  Mails = {m1}
  Stages = {s1, s2}
  MaxEvents = 2
  MaxFaults = 1
  MaxSignals = 2
  StrayQuotes = FALSE
  MaxEdits = 2
  MaxSearchDeeds = 2
  Views = {TRUE, FALSE}
  Dwells = {"at once", "later"}
  MaxUnread = 1
  MaxReadDeeds = 2
  MaxLosses = 1
  Size = 2
  Thresholds = {1, 2}
  Entries = 1
  MaxWrites = 1
  MaxMoves = 1
  MaxDashDeeds = 1
  SendRows = {r1}
  Uploads = {u1}
  HasDrafts = TRUE
  MaxAttempts = 1
  MaxWords = 1
  MaxTrouble = 1
CHECK_DEADLOCK FALSE
INVARIANTS HidingIsTrue SearchIsTrue ReaderIsTrue FiguresAreTrue 
PROPERTY Converges
