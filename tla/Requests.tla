------------------------------ MODULE Requests ------------------------------
(***************************************************************************)
(* What the server may rely on when it asks its client to call a function: *)
(* the client executes a request at most once; a request is reported as    *)
(* answered only if the client executed it; and it ends once, for good.    *)
(* A request that failed, by a timeout for instance, may have been         *)
(* executed, and may still be.  RpcTransport implements this module.       *)
(***************************************************************************)
CONSTANT Asked      \* the requests

VARIABLES status,   \* what the caller knows of each request
          executed  \* the requests the client executed

vars == <<status, executed>>

Statuses == {"new", "pending", "answered", "failed"}

Init == /\ status = [r \in Asked |-> "new"]
        /\ executed = {}

Ask(r) == /\ status[r] = "new"
          /\ status' = [status EXCEPT ![r] = "pending"]
          /\ UNCHANGED executed

Execute(r) == /\ status[r] # "new"
              /\ r \notin executed
              /\ executed' = executed \cup {r}
              /\ UNCHANGED status

Answer(r) == /\ status[r] = "pending"
             /\ r \in executed
             /\ status' = [status EXCEPT ![r] = "answered"]
             /\ UNCHANGED executed

Fail(r) == /\ status[r] = "pending"
           /\ status' = [status EXCEPT ![r] = "failed"]
           /\ UNCHANGED executed

Next == \E r \in Asked : Ask(r) \/ Execute(r) \/ Answer(r) \/ Fail(r)

Spec == Init /\ [][Next]_vars
=============================================================================
