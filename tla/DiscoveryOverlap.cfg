\* A call of another session arrives while a discovery awaits its client.
SPECIFICATION Spec
CONSTANTS
  Sessions = {s1, s2}
  Declares = {s1}
  Ids = {i1, i2}
  Calls = {c1, c2, c3}
  MaxVersion = 2
  None = None
  Disturbances = {"overlap"}
INVARIANTS
  OwnFunctions
SYMMETRY Symmetry
CHECK_DEADLOCK FALSE
