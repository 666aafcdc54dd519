CONSTANTS
  NumPI = 4
  VarPairs <- WholeBlock
  Asked <- LargerAsked
  BlockBits = 2
  ShiftBits = 2
SPECIFICATION FairSpec
PROPERTIES Returns
