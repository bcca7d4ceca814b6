CONSTANTS
  s1 = s1
  m1 = m1
  Suppliers = {s1}
  Supplies = {8}
  Redemptions = {3}
  PauseChoices = {TRUE, FALSE}
  MaxIntake = 8
  Markets = {m1}
  Expiry <- MCExpiry
  ParamsChoices <- MCParams
  Bids = {1}
  Asks = {2}
  Quantities = {4}
  Lot = 2
  One = 4
  LazyChoices = {TRUE}
  MaxQuotes = 2
  MaxTime = 3
SPECIFICATION Spec
INVARIANTS
  NothingIsLeftBehind
CHECK_DEADLOCK FALSE
