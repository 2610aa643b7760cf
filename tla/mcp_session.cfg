CONSTANTS
  Tasks = {t1, t2, t3}
  MaxCalls = 3
  MaxForgets = 2
  MaxFaults = 2
SPECIFICATION Spec
INVARIANTS
  OneCallAtATime
  ReplaysAreSafe
PROPERTY CallsEnd
CHECK_DEADLOCK FALSE
