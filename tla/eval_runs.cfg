SPECIFICATION FairEvalSpec
CONSTANTS
  Case <- MCCase
  Suites <- MCSuites
  Concurrency = 2
  Trials = 2
  MAX_ATTEMPTS = 2
  Replies <- MCReplies
  Usages <- MCUsages
  Floor <- MCFloor
  MinHitRate = 80
  MaxCost = 10
  MaxErrorShare = 25
  MaxCalls <- MCMaxCalls
INVARIANT GreenMeansSafe
PROPERTY RunEnds
CHECK_DEADLOCK FALSE
