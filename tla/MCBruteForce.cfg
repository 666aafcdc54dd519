CONSTANTS
  NumPI = 3
  NumPO = 3
  BlockBits = 2
  Oracles <- TwoOutputsAndOne
  SampleIter = 1
  NumSamples = 2
  Depth = 2
SPECIFICATION Spec
INVARIANTS TypeOK EveryAssignmentOnce ExactWhenDependenciesFound
PROPERTIES RankingAgrees
