------------------------- MODULE MCScriptExecution -------------------------
(* Instances of ScriptExecution for TLC: the projected root `mcp` and its    *)
(* escaped form `_mcp`, which is escaped no further; or `mcp` alone, which    *)
(* has no escape, where names do not matter.                                 *)
EXTENDS ScriptExecution, TLC

MCNames == {"mcp", "_mcp"}
MCOneName == {"mcp"}
MCSelfName == "mcp"
MCEscape == [n \in MCNames |-> "_mcp"]
MCNoEscape == [n \in MCOneName |-> n]
MCReserved == {}

\* By symmetry, one of the calls comes first.
OneCall == CHOOSE c \in Calls : TRUE
InTurn == \A c \in Calls : pc[c] # "new" => pc[OneCall] # "new"

MCSpec == Init /\ [][Next /\ InTurn']_vars /\ Fairness
=============================================================================
