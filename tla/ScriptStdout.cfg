\* Two overlapping calls leave sys.stdout on the tee of a finished call.
SPECIFICATION Spec
CONSTANTS
  Calls = {c1, c2}
  NoCall = NoCall
  Terminal = Terminal
  NoGlobals = NoGlobals
  Names <- MCOneName
  SelfName <- MCSelfName
  Escape <- MCNoEscape
  Reserved <- MCReserved
INVARIANTS
  StdoutRestored
CHECK_DEADLOCK FALSE
