SPECIFICATION LocksSpec
CONSTANTS
  s1 = s1
  i1 = i1
  i2 = i2
  Users = {u1}
  Keys = {k1, k2}
  Sales = {s1}
  Items = {i1, i2}
  SaleOf <- MCSaleOf
  Total <- MCTotal
  PerUserLimit <- MCPerUserLimit
  Position <- MCPosition
  MaxOpensIn = 0
  MaxQuantity = 1
  OrderIds = {o1, o2}
  AttemptIds = {a1, a2}
  Scenarios = {"SUCCESS"}
  HoldSeconds = 1
  PaymentWindow = 0
  Sessions = {c1, c2}
SYMMETRY Symmetry
INVARIANTS
  NoCircularWait
PROPERTIES
  CommitsAreAtomic
CHECK_DEADLOCK FALSE
