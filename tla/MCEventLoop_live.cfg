SPECIFICATION FairSpec
CONSTANTS
  Ctx = {c1, c2}
  NULL = NULL
  Capacity = 4
  MaxPeers = 1
  Requests = {"page", "bad", "script", "post"}
  Faults = TRUE
PROPERTIES
  EveryRequestIsAnswered
  ClosedIsDestroyed
