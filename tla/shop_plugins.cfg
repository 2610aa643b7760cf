SPECIFICATION PluginsSpec
CONSTANTS
  Browsers = {b1, b2}
  Workers = {w1, w2}
  Carts = {c1}
  Ttl = 1
  ClockSkew = 1
  Offsets <- MCOffsets
  MaxCodes = 2
  MaxClock = 3
  p1 = p1
  p2 = p2
  t1 = t1
  t2 = t2
  Products <- MCProducts
  Currencies <- MCCurrencies
  Drafts <- MCDrafts
  Calls <- MCCalls
  MaxChanges = 2
  MaxApplies = 2
  MaxSales = 1
  MaxFaults = 1
SYMMETRY Symmetry
INVARIANTS
  RedeemedOnceInTime
  ClocksAreTolerated
  RowsTellTheWrites
PROPERTIES
  CustomerKeepsTheCart
  LifecycleSpec
CHECK_DEADLOCK FALSE
