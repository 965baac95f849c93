SPECIFICATION Spec
CONSTANTS
  Ctx = {c1, c2, c3}
  NULL = NULL
  Capacity = 4
  MaxPeers = 2
  Requests = {"script"}
  Faults = FALSE
SYMMETRY Addresses
INVARIANTS
  TypeOK
  EventsAreLive
  CountsAreExact
  HeldJobIsOwn
  OwnerOutlivesJob
  FinishedIsParsed
