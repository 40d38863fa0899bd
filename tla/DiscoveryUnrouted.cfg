\* As in RpcDiscovery.cfg; the server that registers no handler is found.
SPECIFICATION Spec
CONSTANTS
  Sessions = {s1, s2}
  Declares = {s1}
  Ids = {i1, i2}
  Calls = {c1, c2, c3}
  MaxVersion = 2
  None = None
  Disturbances = {}
INVARIANTS
  ChangesAreSeen
SYMMETRY Symmetry
CHECK_DEADLOCK FALSE
