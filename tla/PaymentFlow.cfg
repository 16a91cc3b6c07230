SPECIFICATION FlowSpec
CONSTANTS
  Users = {u1}
  Keys = {k1, k2}
  Sales = {s1}
  s1 = s1
  Items = {i1}
  i1 = i1
  SaleOf <- MCSaleOf
  Total <- MCTotal
  PerUserLimit <- MCPerUserLimit
  MaxOpensIn = 0
  MaxQuantity = 1
  OrderIds = {o1}
  AttemptIds = {a1, a2}
  Scenarios = {"LOST_RESPONSE", "DELAYED_SUCCESS", "FAILURE"}
  HoldSeconds = 2
  PaymentWindow = 2
  Workers = {w1, w2}
  Nobody = Nobody
  LeaseSeconds = 1
  RecheckSeconds = 1
  SettleSeconds = 1
  SweepLimit = 1
SYMMETRY Symmetry
INVARIANTS
  FlowTypeOK
  NoDoubleCharge
  ChargedKeepsStock
  ResultIsTheProviders
PROPERTIES
  TakenUpInTime
CHECK_DEADLOCK FALSE
