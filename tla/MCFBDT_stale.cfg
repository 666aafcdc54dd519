CONSTANTS
  NumPI = 3
  Pads = {p0}
  OnesPad = p0
  ZerosPad = p0
  NumDraws = 1
  ExactDepth = 16
  MaxDepth = 25
  MaxBudget = 3
  Oracles <- AllFunctions
SPECIFICATION Spec
PROPERTIES GuessFollowsSetTendency
