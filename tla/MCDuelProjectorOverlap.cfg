CONSTANTS
  m1 = m1
  ann = ann
  bea = bea
  Matches <- TheMatch
  PlayersOf <- ThePlayers
  Cycles <- TwoCycles
  SPAN = 1
  Histories <- NothingLogged
  MaxLog = 7
  MaxLive = 1
  MaxCrashes = 1
  MaxMisses = 0
SPECIFICATION Spec
INVARIANT CaughtUpIsTrue
CHECK_DEADLOCK FALSE
