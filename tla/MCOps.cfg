CONSTANTS
  w1 = w1
  w2 = w2
  NoWorker = NoWorker
  c1 = c1
  c2 = c2
  c3 = c3
  m1 = m1
  m2 = m2
  ann = ann
  bea = bea
  MaxMention = 3
  OwnReplies <- TheReply
  Workers = {w1, w2}
  SendErrors <- BothErrors
  Posting = TRUE
  MaxFaults = 3
  Connections <- TheConnections
  WalletOf <- TheirWallets
  Matches <- TheMatches
  SeedWindow = 1
  DealWindow = 1
  CreateWindow = 1
  MaxJoins = 4
  MaxRepeats = 1
SPECIFICATION LoopsSpec
INVARIANTS
  ActedOnce
  NothingIsSkipped
  VerdictsAreTrue
  NobodyIsLockedOut
PROPERTIES
  NoSendWhileUnresolved
  EveryMentionEnds
  DeckIsForALivePairing
  EveryPairEnds
  EveryDuelIsTold
CHECK_DEADLOCK FALSE
