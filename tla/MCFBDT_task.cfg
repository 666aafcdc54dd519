CONSTANTS
  NumPI = 4
  Pads = {p0}
  OnesPad = p0
  ZerosPad = p0
  NumDraws = 1
  ExactDepth <- TolerantFromTheRoot
  MaxDepth = 2
  MaxBudget = 4
  Oracles <- FourInputOracles
SPECIFICATION FairSpec
PROPERTIES Termination EndsNearer ImplementsTask
