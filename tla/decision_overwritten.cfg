SPECIFICATION PluginsSpec
CONSTANTS
  Browsers = {b1}
  Workers = {w1}
  Carts = {c1}
  Ttl = 1
  ClockSkew = 1
  Offsets <- MCOffsets
  MaxCodes = 1
  MaxClock = 1
  p1 = p1
  p2 = p2
  t1 = t1
  t2 = t2
  Products <- MCProducts
  Currencies <- MCCurrencies
  Drafts <- MCDrafts
  Calls <- MCCalls
  MaxChanges = 1
  MaxApplies = 1
  MaxSales = 1
  MaxFaults = 0
PROPERTIES
  NeverReopened
CHECK_DEADLOCK FALSE
