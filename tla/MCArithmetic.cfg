CONSTANTS
  NumPI = 5
  NumPO = 4
  PI_del <- PIPart
  PO_del <- POPart
  MinLiterals = 2
  Boxes <- SomeBoxes
SPECIFICATION Spec
INVARIANTS TypeOK WideEnough CircuitIsSum ExactOnSums MostSignificantFirst
