SPECIFICATION Spec
CONSTANTS
  c1 = c1
  c2 = c2
  f = f
  g = g
  Clients = {c1}
  Files = {f, g}
  Bodies <- TwoFiles
  OLD <- Older
  Deletes = 0
  HEAD = HEAD
  NL = NL
  BB = BB
  DD = DD
  NONE = NONE
INVARIANTS
  AcceptedIsWhole
