SPECIFICATION Spec
CONSTANTS
  Ctx = {c1, c2}
  NULL = NULL
  Capacity = 4
  MaxPeers = 1
  Requests = {"script"}
  Faults = FALSE
INVARIANTS
  ContextUsedOnce
