SPECIFICATION EvidenceSpec
CONSTANTS
  Users = {u1}
  Keys = {k1, k2}
  Sales = {s1}
  s1 = s1
  Items = {i1}
  i1 = i1
  SaleOf <- MCSaleOf
  Total <- MCTotal
  PerUserLimit <- MCPerUserLimit
  MaxOpensIn = 0
  MaxQuantity = 1
  OrderIds = {o1}
  AttemptIds = {a1, a2}
  Scenarios = {"SUCCESS"}
  HoldSeconds = 4
  PaymentWindow = 1
  MaxClock = 6
PROPERTIES
  MissedDeadlineStaysCounted
CHECK_DEADLOCK FALSE
