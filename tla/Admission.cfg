CONSTANTS
  Buyers = {b1, b2}
  Calls = {c1, c2}
  Nobody = Nobody
  Tokens = {k1, k2, k3}
  Units = 1
  Permits = 1
  PermitFor = 2
  RateGap = 1
  EmptyFor = 2
  TicketFor = 3
  LateSets = 2
SPECIFICATION AdmissionSpec
SYMMETRY Alike
INVARIANTS
  AdmissionTypeOK
  PermitsAreKept
  StaleForAMoment
PROPERTIES
  OrdersAreReplayed
  LateTicketsBuyNothing
