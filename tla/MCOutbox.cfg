\* Two rows, every failure the code can meet.
SPECIFICATION Spec
CONSTANTS
  MaxRows = 2
  Kinds = {"send", "delete", "flags"}
  MaxAttempts = 2
  Batch = 2
  MaxRestarts = 1
  LostReplies = TRUE
  WriteFaults = TRUE
INVARIANTS NeverBothWin 
PROPERTY ImplementsContract
