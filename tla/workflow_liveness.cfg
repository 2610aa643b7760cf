SPECIFICATION FairSpec
CONSTANTS
  r1 = r1
  r2 = r2
  p1 = p1
  Requests <- MCRequests
  Products <- MCProducts
  Quantities <- MCQuantities
  InitialStock = 5
  MaxChanges = 1
  MaxApplies = 2
  MaxSales = 0
  MayCrash = TRUE
  MayLoseAnswers = TRUE
  RowsMayGoBad = TRUE
PROPERTY EveryRequestAnswered
