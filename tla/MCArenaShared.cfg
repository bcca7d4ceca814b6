CONSTANTS
  alice = alice
  bob = bob
  k1 = k1
  x = x
  d1 = d1
  d2 = d2
  NoAgent = NoAgent
  Nobody = Nobody
  Players <- ThePlayers
  Openers <- TheOpener
  Agents <- NoAgents
  Matches <- TheMatches
  Markets <- TheMarket
  Expiry <- TheExpiry
  Decks <- TheDeck
  TierChoices <- TheTier
  ParamsChoices <- TheWindows
  PauseChoices <- NeverPaused
  Stakes = {2}
  Fills <- TheFills
  Ttls = {1}
  MAX_DECK = 1
  MaxCreatedAt = 0
  MaxNamedAt = 0
  MaxTime = 3
  PlayersOf <- TheirPlayers
  Cycles <- TwoCycles
  SPAN = 3
  Histories <- TheLog
  MaxLog = 9
  MaxLive = 2
  MaxCrashes = 1
  MaxMisses = 1
SPECIFICATION ArenasSpec
INVARIANTS
  HoldingsAreAttributed
  NoPickIsStranded
  WorklistIsComplete
  LadderCountsOnce
CHECK_DEADLOCK FALSE
