CONSTANTS
  NumPO = 3
  Counts <- WideCounts
  BruteForce = 18
  MaxDep = 25
  TimeLimit = 20
  MaxStart = 4
  MaxOverrun = 3
SPECIFICATION Spec
INVARIANTS DeadlineWithinTimeLimit
