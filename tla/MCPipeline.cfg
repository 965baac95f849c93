SPECIFICATION FairSpec
CONSTANTS
  f = f
  g = g
  NONE = NONE
  Files = {f, g}
  Lines <- Typed
  Fd = {0, 1, 2, 3, 4, 5, 6, 7, 8, 9}
  PipeSize = 1
  Volume = 2
INVARIANTS
  WiredAsAsked
  DescriptorsRestored
  LineIsRun
PROPERTIES
  EveryLineEnds
CHECK_DEADLOCK FALSE
