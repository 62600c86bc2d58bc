CONSTANTS
  c1 = c1
  c2 = c2
  Clients = {c1, c2}
  NoClient = NoClient
  MaxKeys = 4
  Overlap = TRUE
SPECIFICATION Spec
INVARIANT OwnKey
