SPECIFICATION Spec
CONSTANTS
  Kinds <- MCKinds
  MaxRuns = 3
  MaxFaults = 2
  MaxStaff = 1
INVARIANTS
  FinishedIsVerified
  HistoryIsSeededOnce
PROPERTY HostsAreNotCutOff
CHECK_DEADLOCK FALSE
