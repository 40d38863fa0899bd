------------------------- MODULE CallbackDirectory -------------------------
(***************************************************************************)
(* What the server promises about the functions that a client offers to    *)
(* its scripts, without the cache: every call of the `pyghidra` tool is    *)
(* served a list of its own client, no older than the last change the      *)
(* server has heard of from that client, save that a change heard of while *)
(* a script runs may be put off to the end of that script.  Nothing is     *)
(* served only to a client that offers nothing, or to one that was asked   *)
(* and gave no answer.  RpcDiscovery implements this module.               *)
(***************************************************************************)
EXTENDS Naturals

CONSTANTS
  Sessions,   \* the clients
  Declares,   \* those that offer functions
  Calls,      \* invocations of the tool
  None        \* nothing

VARIABLES
  list,       \* list[s]: the version of what s offers
  heard,      \* heard[s]: the last version s has told the server of
  late,       \* a change is put off
  running,    \* the call whose script runs, or None
  phase,      \* how far each call has come
  client,     \* whose call it is
  served      \* the list a call was given

vars == <<list, heard, late, running, phase, client, served>>

Phases == {"new", "asked", "ready", "running", "done"}

Init ==
  /\ list = [s \in Sessions |-> 0] /\ heard = [s \in Sessions |-> 0]
  /\ late = FALSE /\ running = None
  /\ phase = [c \in Calls |-> "new"]
  /\ client = [c \in Calls |-> None] /\ served = [c \in Calls |-> None]

\* What s may be found to offer: its pages may be of several versions.
Offers(s) == {[owner |-> s, seen |-> vs] : vs \in (SUBSET (0..list[s])) \ {{}}}
Current(l) == \A v \in l.seen : v >= heard[l.owner]

Proceed(c, p) == phase' = [phase EXCEPT ![c] = p]

Change(s) ==
  /\ s \in Declares
  /\ list' = [list EXCEPT ![s] = @ + 1]
  /\ UNCHANGED <<heard, late, running, phase, client, served>>

\* The server hears of a change; it may put it off if a script runs.
Hear(s) ==
  /\ heard' = [heard EXCEPT ![s] = list[s]]
  /\ late' \in {late, running # None}
  /\ UNCHANGED <<list, running, phase, client, served>>

\* The client is asked for its list.
Ask(c, s) ==
  /\ phase[c] = "new" /\ s \in Declares
  /\ Proceed(c, "asked")
  /\ client' = [client EXCEPT ![c] = s]
  /\ UNCHANGED <<list, heard, late, running, served>>

\* It is served what it offers at present, or nothing if it did not answer.
ServeAsked(c) ==
  /\ phase[c] = "asked"
  /\ \E l \in Offers(client[c]) \cup {None} :
       /\ l # None => Current(l)
       /\ served' = [served EXCEPT ![c] = l]
  /\ Proceed(c, "ready")
  /\ UNCHANGED <<list, heard, late, running, client>>

\* A call is served without asking: nothing where nothing is offered, else a
\* list that is out of date only while a change is put off.
ServeAtOnce(c, s) ==
  /\ phase[c] = "new"
  /\ \E l \in Offers(s) \cup {None} :
       /\ l = None <=> s \notin Declares
       /\ l # None => late \/ Current(l)
       /\ served' = [served EXCEPT ![c] = l]
  /\ client' = [client EXCEPT ![c] = s]
  /\ Proceed(c, "ready")
  /\ UNCHANGED <<list, heard, late, running>>

Run(c) ==
  /\ phase[c] = "ready" /\ running = None
  /\ running' = c
  /\ Proceed(c, "running")
  /\ UNCHANGED <<list, heard, late, client, served>>

NotRun(c) ==
  /\ phase[c] = "ready"
  /\ Proceed(c, "done")
  /\ UNCHANGED <<list, heard, late, running, client, served>>

\* The end of a script is the end of every delay.
End(c) ==
  /\ phase[c] = "running" /\ running = c
  /\ running' = None /\ late' = FALSE
  /\ Proceed(c, "done")
  /\ UNCHANGED <<list, heard, client, served>>

Next ==
  \/ \E s \in Sessions : Change(s) \/ Hear(s)
  \/ \E c \in Calls :
       \/ \E s \in Sessions : Ask(c, s) \/ ServeAtOnce(c, s)
       \/ ServeAsked(c) \/ Run(c) \/ NotRun(c) \/ End(c)

Spec == Init /\ [][Next]_vars
=============================================================================
