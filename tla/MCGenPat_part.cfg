CONSTANTS
  NumPI = 5
  VarPairs <- PartOfBlock
  Asked <- AllAsked
  BlockBits = 3
  ShiftBits = 3
SPECIFICATION FairSpec
INVARIANTS TypeOK CircuitSeesDrawn
PROPERTIES Returns
