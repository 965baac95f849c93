SPECIFICATION FairMutexSpec
CONSTANTS
  N = 2
  Rounds = 2
INVARIANTS
  TypeOK
  MutexesAreOwned
  NeighboursTakeTurns
  NoCircularWait
  FlagsAreHeeded
  EndsInOrder
PROPERTIES
  ImplementsDining
  EveryRunEnds
