SPECIFICATION FairCatalog
CONSTANTS
  s1 = s1
  s2 = s2
  Sales = {s1, s2}
  Total <- MCTotal
  Publishers = {p1, p2}
  CatalogFor = 2
  LateSets = {l1}
  MaxOpensIn = 1
INVARIANTS
  SoldOutIsFinal
PROPERTIES
  CleanedStaysClean
  CatchesUp
