\* An item of one batch is decided by what the client of another answered
\* for the remaining items of its own.
SPECIFICATION Spec
CONSTANTS
  Calls = {c1, c2}
  NoCall = NoCall
  Symbols = {s1, s2}
  MaxItems = 2
INVARIANTS
  AnswersStayInTheirBatch
SYMMETRY Symmetry
CHECK_DEADLOCK FALSE
