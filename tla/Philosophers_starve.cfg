SPECIFICATION MonitorSpec
CONSTANTS
  N = 2
  Rounds <- NoRounds
PROPERTIES
  StarvingEnds
