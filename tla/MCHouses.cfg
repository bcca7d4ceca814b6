CONSTANTS
  s1 = s1
  o1 = o1
  m1 = m1
  m2 = m2
  btc = btc
  eth = eth
  Suppliers = {s1}
  Supplies = {4}
  Redemptions = {3}
  PauseChoices = {TRUE, FALSE}
  MaxIntake = 8
  Owners = {o1}
  Times = {1, 2}
  MaxBets = 2
  Payouts = {4}
  One = 4
  Markets = {m1, m2}
  Expiry <- MCExpiry
  MaxTime = 2
  ParlayParams <- MCParlayParams
  Prices = {2, 3}
  RangeParams <- MCRangeParams
  RangeMarkets = {m1}
  RangeExpiry <- MCRangeExpiry
  RangeTime = 3
  Questions = {1, 2}
  Closing <- MCClosing
  Opening <- MCOpening
  AssetOf <- MCAssetOf
  Assets = {btc, eth}
  Rated = {btc}
  Prints = {1, 2}
  Bands <- MCBands
  Stakes = {2}
  MakerParams <- MCMakerParams
  MakerSupplies = {8}
  MakerPauses = {FALSE}
  Bids = {1}
  Asks = {2}
  Quantities = {4}
  Lot = 4
  LazyChoices = {TRUE}
  MaxQuotes = 2
SPECIFICATION Spec
INVARIANTS
  MoneyIsBooked
  BetsEndAsJudged
PROPERTIES
  IsAHouse
  NobodyOutrunsALoss
  EveryRoundEnds
CHECK_DEADLOCK FALSE
