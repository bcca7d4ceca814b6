CONSTANTS
  o1 = o1
  b1 = b1
  b2 = b2
  p1 = p1
  p2 = p2
  k1 = k1
  Bets = {b1, b2}
  Owners = {o1}
  OwnerOf <- MCOwnerOf
  Stake = 2
  Fills <- MCFills
  Deposits = {4}
  PauseChoices = {TRUE}
  DeskKeys = {k1}
  Key = k1
  MaxDeposited = 4
  Processes = {p1, p2}
  Serves <- MCServes
  Verdicts <- MCVerdicts
  MaxFaults = 1
SPECIFICATION FairSpec
INVARIANTS
  PoolIsEachBets
  TicketsAreBought
PROPERTY ChargesComeHome
CHECK_DEADLOCK FALSE
