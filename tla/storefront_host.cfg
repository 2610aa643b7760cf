SPECIFICATION HostSpec
CONSTANTS
  Customers = {alice, bob}
  Calls = {c1, c2}
  Logins = {l1, l2}
  MaxTokens = 4
  MaxFaults = 1
  f = f
  a = a
  b = b
  p = p
  t1 = t1
  t2 = t2
  s1 = s1
  s2 = s2
  Children <- MCChildren
  Tasks = {t1, t2}
  SessionOf <- MCSessionOf
  Attached <- MCAttached
  Asked = {f, a, p}
  Titled = {a}
  Requested = "auto"
  HasAccessKey = TRUE
  Advertised = {"policy-search", "disclosure", "fulfillment-options"}
  OutAtStart = {{a}}
  MaxShopSteps = 1
  MayFlap = FALSE
  Asks <- MCAsks
  Skews <- MCSkews
  Lifetime = 2
  MaxLifetime = 5
  Tolerance = 1
  MaxFlight = 3
  None = None
INVARIANTS
  StoredTokenIsTheirs
  AskedIsDone
  ResendingIsSafe
PROPERTIES
  SignedOutStaysOut
  WhatIsAsked
CHECK_DEADLOCK FALSE
