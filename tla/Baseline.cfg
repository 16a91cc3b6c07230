CONSTANTS
  Measured = {"purchase-spike", "capacity"}
  Rate = 1
  FlowStock = 3
  Stocks = {2, 3}
  FirstRate = 1
  Vus = 1
  Servers = {"api1", "api2"}
  Conns = 1
SPECIFICATION MCSpec
INVARIANTS
  ExperimentsAreFair
  FirstRecordsAgree
CHECK_DEADLOCK FALSE
