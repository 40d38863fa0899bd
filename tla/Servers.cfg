\* Two windows, two programs, two ports; one launcher with two writes and two
\* signals; two requests each of a caller with a timeout and one without.
\* Launches, calls and requests come to an end: no deadlock check.
SPECIFICATION MCSpec
CONSTANTS
  Windows = {w1, w2}
  Programs = {p1, p2}
  Ports <- MCPorts
  Opens = {o1}
  None = None
  Other = Other
  Writes = {x1, x2}
  MaxInterrupts = 2
  Callers = {r1, r2}
  Custom = {r1}
  MaxRequests = 2
INVARIANTS
  TypeOK
  RecordsAreDistinct
  SocketsAreShown
  ServersEndWithPrograms
  SavedOnExit
  RpcTypeOK
  AnswersGoHome
  StreamsMatchRequests
PROPERTIES
  PortIsKept
  FirstOpenIsServed
  EventThreadReturns
  SentRequestsEnd
  ImplementsRequests
CHECK_DEADLOCK FALSE
