CONSTANTS
  o1 = o1
  o2 = o2
  d1 = d1
  m1 = m1
  m2 = m2
  Owners = {o1, o2}
  Acting = {o1, o2}
  Actors = {d1}
  SignedKinds = {"STRATEGY"}
  Markets = {m1}
  Prices = {1}
  Quantities = {2}
  Amounts = {2}
  One = 2
  DayLength = 1
  Landings = {TRUE}
  Lot = 1
  MaxFee = 1
  MaxTime = 0
  MaxGrants = 1
  MaxIntake = 2
  MaxFills = 2
  CapsChoices <- MCCaps
SPECIFICATION MCSpec
SYMMETRY Symmetric
INVARIANTS
  BooksBalance
  CustodyIsAttributed
  BudgetsAreReachable
  DailyCapHolds
  PositionCapHolds
PROPERTY NoDivert
CHECK_DEADLOCK FALSE
