CONSTANTS
  alice = alice
  bob = bob
  x = x
  y = y
  d1 = d1
  NoAgent = NoAgent
  Nobody = Nobody
  Players = {alice, bob}
  Openers = {alice}
  Agents = {}
  Matches = {d1}
  Markets = {x, y}
  Expiry <- DuelExpiry
  Decks <- DuelDecks
  TierChoices <- MCTiers
  ParamsChoices <- MCParams
  PauseChoices = {TRUE, FALSE}
  Stakes = {2}
  Fills <- OneFill
  Ttls = {1}
  MAX_DECK = 2
  MaxCreatedAt = 0
  MaxNamedAt = 0
  MaxTime = 4
SPECIFICATION FairSpec
INVARIANTS
  CreditsAreEarned
  PotFollowsPlay
PROPERTIES
  PotSpec
  EveryPotIsDecided
  EveryPickIsPaid
CHECK_DEADLOCK FALSE
