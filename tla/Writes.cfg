\* Two calls, one after the other or at once.  The calls come to an end: no
\* deadlock check.
SPECIFICATION MCSpec
CONSTANTS
  Calls = {c1, c2}
  NoCall = NoCall
  Symbols = {s1, s2}
  MaxItems = 2
  Manual = {m1}
  Programs = {p1, p2}
  Nowhere = Nowhere
  Targets = {t1}
INVARIANTS
  TypeOK
  DecisionsAreOfBatchesInProgress
  FailuresLeaveLittle
  StaysInItsProgram
PROPERTIES
  OverwritesWereSettled
  BatchesHaveTheirOwnAnswer
  ReportedIsKept
SYMMETRY Symmetry
CHECK_DEADLOCK FALSE
