CONSTANTS
  w1 = w1
  w2 = w2
  NoWorker = NoWorker
  MaxMention = 1
  OwnReplies = {}
  Workers = {w1}
  SendErrors = {"timeout", "reset"}
  Posting = FALSE
  MaxFaults = 0
SPECIFICATION FairSpec
INVARIANTS
  RefusedWasNeverSent
CHECK_DEADLOCK FALSE
