SPECIFICATION Spec
CONSTANTS
  None = None
  Missing = Missing
  NoOne = NoOne
  d1 = d1
  Replica = {r1, r2}
  r1 = r1
  r2 = r2
  c1 = c1
  c2 = c2
  Client = {c1, c2}
  Server <- OneEach
  Request <- NestedRequests
  MaxWrites = 2
SYMMETRY Symmetry
PROPERTIES ReadsLinearizable
