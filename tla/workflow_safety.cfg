SPECIFICATION Spec
CONSTANTS
  r1 = r1
  r2 = r2
  p1 = p1
  Requests <- MCRequests
  Products <- MCProducts
  Quantities <- MCQuantities
  InitialStock = 5
  MaxChanges = 2
  MaxApplies = 2
  MaxSales = 1
  MayCrash = TRUE
  MayLoseAnswers = TRUE
  RowsMayGoBad = FALSE
SYMMETRY Symmetry
INVARIANTS
  Bookkeeping
  ExactlyOnce
  StockAccounted
PROPERTY LifecycleSpec
