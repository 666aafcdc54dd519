CONSTANTS
  NumPI = 4
  Classes <- OneBitVars
  Oracles <- MCOracles
  QueueBound = 2
  Depths <- MCDepths
SPECIFICATION FairSpec
INVARIANTS TypeOK SecondsGroupedOnce AskedIsBuilt ExactWhenDetermined LiteralsWhenDetermined
PROPERTIES ReturnsWhenDetermined SplitsFresh
