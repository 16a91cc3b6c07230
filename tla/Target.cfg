CONSTANTS
  Rates = {1, 40}
  Durations = {1, 60, 180}
  Stocks = {60, 1000, 3000}
  Users = {10, 50000}
  Count = 2
  Rate = 2
  Fixture = 3
  Vus = 2
  MaxVus = 3
  OpensAt = 1
  LastTick = 2
SPECIFICATION MCSpec
INVARIANTS
  PlansFit
  LoadFits
  VerdictsFit
CHECK_DEADLOCK FALSE
