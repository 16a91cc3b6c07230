SPECIFICATION Spec
CONSTANTS
  s1 = s1
  i1 = i1
  i2 = i2
  Users = {u1, u2}
  Keys = {k1, k2}
  Sales = {s1}
  Items = {i1, i2}
  SaleOf <- MCSaleOf
  Total <- MCTotal
  PerUserLimit <- MCPerUserLimit
  MaxOpensIn = 1
  MaxQuantity = 2
  OrderIds = {o1, o2, o3}
  AttemptIds = {a1, a2}
  Scenarios = {"SUCCESS"}
  HoldSeconds = 1
  PaymentWindow = 1
SYMMETRY Symmetry
INVARIANTS
  TypeOK
  StockMatchesOrders
  WithinUserLimit
  OneOrderPerKey
  OrdersAgree
PROPERTIES
  FinishedIsFinal
  ReleasedOnlyUnpaid
  AllocatesStock
CHECK_DEADLOCK FALSE
