\* open_program answers with a port that serves another program, or nothing.
SPECIFICATION Spec
CONSTANTS
  Windows = {w1, w2}
  Programs = {p1, p2}
  Ports <- MCPorts
  Opens = {o1}
  None = None
  Other = Other
PROPERTIES
  ReadyIsDedicated
CHECK_DEADLOCK FALSE
