---------------------------- MODULE SingleFlight ----------------------------
(***************************************************************************)
(* What the `pyghidra` tool promises about its shared scripting session:   *)
(* one script runs at a time, an overlapping or re-entrant call is turned  *)
(* away at once instead of waiting, and it is turned away only because a   *)
(* script really is running.  ScriptExecution implements this module.      *)
(***************************************************************************)
CONSTANTS Calls,    \* the invocations of the tool
          NoCall    \* no invocation

VARIABLES running,  \* the invocation that owns the session, or NoCall
          status    \* what has become of each invocation

vars == <<running, status>>

Statuses == {"waiting", "running", "finished", "rejected"}

Init == /\ running = NoCall
        /\ status = [c \in Calls |-> "waiting"]

Begin(c) == /\ status[c] = "waiting"
            /\ running = NoCall
            /\ running' = c
            /\ status' = [status EXCEPT ![c] = "running"]

Reject(c) == /\ status[c] = "waiting"
             /\ running \in Calls
             /\ status' = [status EXCEPT ![c] = "rejected"]
             /\ UNCHANGED running

End(c) == /\ status[c] = "running"
          /\ running = c
          /\ running' = NoCall
          /\ status' = [status EXCEPT ![c] = "finished"]

Next == \E c \in Calls : Begin(c) \/ Reject(c) \/ End(c)

Spec == Init /\ [][Next]_vars
=============================================================================
