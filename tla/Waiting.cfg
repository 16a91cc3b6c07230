SPECIFICATION WaitingSpec
CONSTANTS
  s1 = s1
  Sales = {s1}
  Total <- MCTotal
  Publishers = {p1}
  CatalogFor = 1
  LateSets = {}
  MaxOpensIn = 0
  Ids = {1, 2, 3}
  WaitFor = 3
  ReadyFor = 2
  LiveFor = 3
  SoonRetry = 1
  LateRetry = 2
  Near = 1
  RateInterval = 1
  ReadyLimit = 1
  MaxWaiting = 2
  PurgeLimit = 1
INVARIANTS
  PlacesAgree
  LimitsAreKept
  PolitenessPays
PROPERTIES
  DismissedForGood
