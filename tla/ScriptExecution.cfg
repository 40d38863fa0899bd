\* Two overlapping or re-entrant calls, every step of both.  The calls come to
\* an end, after which nothing is left to do: no deadlock check.
SPECIFICATION MCSpec
CONSTANTS
  Calls = {c1, c2}
  NoCall = NoCall
  Terminal = Terminal
  NoGlobals = NoGlobals
  Names <- MCNames
  SelfName <- MCSelfName
  Escape <- MCEscape
  Reserved <- MCReserved
INVARIANTS
  TypeOK
  SoloCallCapturesItsOwnOutput
  CallbacksUseTheirOwnScope
  NoLiveCallbackBetweenExecutions
PROPERTIES
  SessionLossIsDeliberate
  ImplementsSingleFlight
  EveryCallEnds
CHECK_DEADLOCK FALSE
