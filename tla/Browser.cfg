CONSTANTS
  Plans <- MCPlans
  Latencies = {0, 1}
  BrowserFor = 36
  MaxJoins = 5
  MaxTries = 5
  LongestThink = 9
  OneSecond = {0, 1}
  BurstAt = 12
  RetryAfters = {0, 3}
  TicketFor = 2
  HoldFor = 59
  GracefulStop = 84
SPECIFICATION MCSpec
INVARIANTS
  KeepsItsTimes
  TestsPass
PROPERTIES
  ImplementsIteration
CHECK_DEADLOCK FALSE
