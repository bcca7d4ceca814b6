CONSTANTS
  s1 = s1
  s2 = s2
  o1 = o1
  m1 = m1
  m2 = m2
  Suppliers = {s1, s2}
  Owners = {o1}
  Markets = {m1, m2}
  Expiry <- MCExpiry
  ParamsChoices <- MCParams
  PauseChoices = {TRUE, FALSE}
  Supplies = {4}
  Redemptions = {2, 4}
  MaxIntake = 8
  Outcomes = {0}
  Stakes = {2}
  Leverages <- MCLeverages
  Offers <- MCOffers
  Lot = 3
  Proceeds = {0, 3}
  One = 3
  MaxFee = 0
  MaxPositions = 2
  MaxTime = 1
SPECIFICATION Spec
SYMMETRY Symmetric
INVARIANTS
  BooksFollowPositions
  OpenListIsLive
  ReserveIsRepaidFirst
PROPERTIES
  NoStaleWithdrawal
  HouseSpec
CHECK_DEADLOCK FALSE
