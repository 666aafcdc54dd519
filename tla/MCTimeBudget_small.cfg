CONSTANTS
  NumPO = 4
  Counts <- SmallCounts
  BruteForce = 18
  MaxDep = 25
  TimeLimit = 20
  MaxStart = 4
  MaxOverrun = 3
SPECIFICATION Spec
INVARIANTS TypeOK DenominatorCountsAhead DeadlineBeforeHorizon NoStarvation
