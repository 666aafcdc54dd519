CONSTANTS
  NumPI = 3
  NumPO = 3
  BatchBits = 3
  Boxes <- TwoBoxes
  Draws <- SomeDraws
  OutputVars <- OneVariable
  Circuits <- TwoCircuits
  Templates <- TwoTemplates
  Minterms <- OneMinterm
  FBDTResults <- SomeResults
  GateCounts <- SomeGateCounts
  Leftovers <- TwoDirectories
SPECIFICATION Spec
INVARIANTS TypeOK ValidatedIsBuilt PlainRecordedIsBuilt VerdictFits CountsBounded SmallestDelivered
