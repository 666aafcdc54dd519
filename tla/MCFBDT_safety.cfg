CONSTANTS
  NumPI = 3
  Pads = {p0, p1}
  OnesPad = p1
  ZerosPad = p0
  NumDraws = 1
  ExactDepth = 16
  MaxDepth = 25
  MaxBudget = 7
  Oracles <- AllFunctions
SPECIFICATION Spec
INVARIANTS TypeOK Coverage SizeIsAssigned NoFullCube XorAnchored InfoFits ExactWhenSmall
PROPERTIES SplitsSmallCubesFresh
