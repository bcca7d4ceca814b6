CONSTANTS
  s1 = s1
  s2 = s2
  o1 = o1
  m1 = m1
  p1 = p1
  p2 = p2
  g1 = g1
  Strategies = {s1, s2}
  Agents = {s2}
  Owners = {o1}
  Markets = {m1}
  GrantOf <- OneGrant
  OwnerSides = {"up"}
  Processes = {p1}
  SendErrors = {"timeout"}
  MaxFaults = 1
SPECIFICATION RunnersSpec
INVARIANTS
  OrdersAreSingle
  AttemptsAreTrue
PROPERTY FillsAreRecorded
CHECK_DEADLOCK FALSE
