SPECIFICATION FairSpec
CONSTANTS
  Lengths = {0, 2, 3, 6}
  ChunkSize = 2
  Wire = 3
  NONE = NONE
INVARIANTS
  ClientIsServed
  OnceUnlessCut
PROPERTIES
  StreamEnds
