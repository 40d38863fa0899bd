\* Two sessions one after the other or interleaved outside discovery, three
\* calls, with and without a handler for the changes.  All sessions and calls may
\* be spent: no deadlock check.
SPECIFICATION Spec
CONSTANTS
  Sessions = {s1, s2}
  Declares = {s1}
  Ids = {i1, i2}
  Calls = {c1, c2, c3}
  MaxVersion = 2
  None = None
  Disturbances = {}
INVARIANTS
  TypeOK
  OwnFunctions
  FailureIsNotCached
PROPERTIES
  ImplementsDirectory
SYMMETRY Symmetry
CHECK_DEADLOCK FALSE
