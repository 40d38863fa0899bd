----------------------------- MODULE MCServers -----------------------------
(* Servers and RpcTransport, for TLC: a behaviour is one of two windows,      *)
(* programs and ports, one of the launcher, or one of the requests a server   *)
(* of either makes of its clients.  The three share no state.                 *)
EXTENDS Servers, RpcTransport, TLC

MCPorts == {6050, 6051}

\* No disturbance or both: what happens under one of them happens under both.
\* What rests is in one state.
MCInit ==
  /\ half \in {"windows", "headless", "requests"}
  /\ env \in {{}, {"stops", "slow"}}
  /\ Init /\ H!Init /\ RpcInit
  /\ half # "windows" => env = {} /\ holder = [q \in Ports |-> None]

\* By symmetry, one of the programs is the one open_program is called with.
OneProgram == CHOOSE p \in Programs : TRUE
AskedForOne == \A o \in Opens : asked[o] \in {None, OneProgram}

MCNext ==
  \/ HalfNext /\ AskedForOne' /\ UNCHANGED rpcVars
  \/ half = "requests" /\ RpcNext /\ UNCHANGED halfVars

MCSpec == MCInit /\ [][MCNext]_<<halfVars, rpcVars>> /\ Fairness /\ RpcFairness
=============================================================================
