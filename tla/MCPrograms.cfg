SPECIFICATION AllSpec
CONSTANTS
  NULL = NULL
  Files <- CubFiles
  MAP_MAX = 7
  Headings <- CubHeadings
  HEADING = 2
  CELL = 4
  REACH = 1
  STEP = 1
  SCREEN_Y = 9
  WIDTH = 3
  HEIGHT = 5
INVARIANTS
  GameStaysWinnable
  SortsAnything
  LineIsUnderstood
  RaysStayInside
  MergesFrugally
  FunctionsAgree
  ObjectsKeepTheirWord
PROPERTIES
  ImplementsStore
  PairIsRun
  LinesAreGiven
CHECK_DEADLOCK FALSE
