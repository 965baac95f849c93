SPECIFICATION AllSpec
CONSTANTS
  Servers = {"p", "q"}
  Browsers = {"b"}
  Users = {"u", "v"}
  Sids = {"s", "t"}
  None = ""
  TTL = 1
  MaxTime = 2
  MaxSent = 2
  HEAD = HEAD
  NL = NL
  BB = BB
  DD = DD
  NONE = NONE
  FILE = FILE
  PAGE = PAGE
INVARIANTS
  BodyIsCountedOnce
CHECK_DEADLOCK FALSE
