\* All four intents on one message, on the server or detached, with a crash,
\* lost answers and retries; the queue's own properties on the way.
SPECIFICATION MailFairSpec
CONSTANTS
  MaxRows = 2
  Kinds = {"delete", "archive", "move", "flags"}
  MaxAttempts = 2
  Batch = 2
  MaxRestarts = 1
  LostReplies = TRUE
  WriteFaults = FALSE
  Msgs = {m1}
  Flags = {"seen"}
  Folders = {"inbox", "archive", "junk", "trash"}
  Detachable = {m1}
  UidPlus = TRUE
  BothFlags = FALSE
INVARIANTS
  
  
  NewestStandingToggleRules
  NudgeHonoured
PROPERTY EveryRowSettles
