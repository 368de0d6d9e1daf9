CONSTANTS
  Object <- MCObject
  NameRank <- MCNameRank
SPECIFICATION FairSpec
INVARIANTS DependenciesFirst RefusedForCycle
PROPERTIES LayersImplemented OrderingEnds
CHECK_DEADLOCK FALSE
