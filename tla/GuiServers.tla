------------------------------ MODULE GuiServers ------------------------------
(***************************************************************************)
(* The MCP servers of Ghidra's tool windows: GhidraMcpServer and           *)
(* MCPPortManager of mcpserver.py, the plugin's event handlers and menu    *)
(* actions of mcpyghidra.py, bind_listen_socket of portspec.py, and the    *)
(* open_program tool that waits for a new window's server.                 *)
(*                                                                         *)
(* Ghidra's event thread runs every start and stop; a start that waits for *)
(* its server, or a stop that waits for the thread's end, keeps all        *)
(* windows waiting.  Beside it run the thread of each server and, for each *)
(* open_program, an opening thread and a worker thread that polls the port *)
(* records.  Window, menu and program events are the user's.               *)
(*                                                                         *)
(* env says what happens besides: "stops", programs are closed and servers *)
(* stopped from the menu; "slow", a server needs more than the second it   *)
(* is given to start, fails to, or its thread ends while it is shown as    *)
(* running, which nobody notices.  Whether a program that is shown starts  *)
(* a server is a matter of the options and of what was running before      *)
(* (_previously_running): it may or may not.                               *)
(***************************************************************************)
EXTENDS Naturals

CONSTANTS
  Windows,   \* tool windows
  Programs,  \* programs, by their path in the project
  Ports,     \* port_start .. port_start + PORT_SPAN - 1
  Opens,     \* invocations of open_program
  None,      \* Python's None
  Other      \* another process, as the holder of a port

ASSUME GuiAssumption ==
  /\ Ports \subseteq Nat
  /\ None \notin Windows \cup Programs \cup Ports
  /\ Other \notin Windows \cup {None}

VARIABLES
  env,
  opened,      \* opened[w]: the programs open in w
  current,     \* current[w]: ... the one it shows
  state,       \* state[w]: GhidraMcpServerState
  thread,      \* thread[w]: _server_thread, and how far it is
  record,      \* _program_path_to_port
  holder,      \* holder[q]: whose socket listens on port q
  edt,         \* what the event thread is in the middle of, for which window
  asked,       \* asked[o]: the program o is to open
  job,         \* job[o]: how far its opening thread is
  polling,     \* the calls whose worker thread is still polling
  unrecorded   \* ... for whose program no port was on record at first (history)

windows == <<opened, current>>
servers == <<state, thread, record, holder>>
opens == <<asked, job, polling, unrecorded>>
vars == <<env, windows, servers, edt, opens>>

Idle == <<"idle", None>>

TypeOK ==
  /\ env \subseteq {"stops", "slow"}
  /\ opened \in [Windows -> SUBSET Programs]
  /\ current \in [Windows -> Programs \cup {None}]
  /\ state \in [Windows -> {"stopped", "starting", "running", "stopping", "error"}]
  /\ thread \in [Windows -> {"none", "starting", "serving", "ended"}]
  /\ record \in [Programs -> Ports \cup {None}]
  /\ holder \in [Ports -> Windows \cup {None, Other}]
  /\ edt \in {Idle} \cup ({"bind", "wait", "join"} \X Windows)
  /\ asked \in [Opens -> Programs \cup {None}]
  /\ job \in [Opens -> {"none", "opening", "launched", "shown", "failed"}]
  /\ polling \subseteq Opens /\ unrecorded \subseteq polling

Init ==
  /\ env \in SUBSET {"stops", "slow"}
  /\ opened = [w \in Windows |-> {}]
  /\ current = [w \in Windows |-> None]
  /\ state = [w \in Windows |-> "stopped"]
  /\ thread = [w \in Windows |-> "none"]
  /\ record = [p \in Programs |-> None]
  /\ holder \in [Ports -> {None, Other}]
  /\ edt = Idle
  /\ asked = [o \in Opens |-> None]
  /\ job = [o \in Opens |-> "none"]
  /\ polling = {} /\ unrecorded = {}

-----------------------------------------------------------------------------
(***************************************************************************)
(* Starting and stopping, on the event thread.                             *)
(***************************************************************************)

\* The first statements of start.
StartServer(w) ==
  IF thread[w] = "none"
  THEN state' = [state EXCEPT ![w] = "starting"] /\ edt' = <<"bind", w>>
  ELSE UNCHANGED <<state, edt>>

\* The first statements of stop.
StopServer(w) ==
  IF thread[w] = "none"
  THEN UNCHANGED <<state, edt>>
  ELSE state' = [state EXCEPT ![w] = "stopping"] /\ edt' = <<"join", w>>

Held(p) == {record[q] : q \in Programs \ {p}}

\* Mutant: the ports of other programs are not left out.
AllCandidates(p) == {q \in Ports : holder[q] = None}

\* The candidates for program p that can be bound.
Candidates(p) == {q \in Ports : holder[q] = None /\ (q = record[p] \/ q \notin Held(p))}

\* Mutant: the port the program had before has no precedence.
Lowest(p, q) == \A r \in Candidates(p) : q <= r

First(p, q) == q = record[p] \/ (record[p] \notin Candidates(p) /\ \A r \in Candidates(p) : q <= r)

\* No program is shown: start raises, and its caller logs that.
NoProgram(w) ==
  /\ edt = <<"bind", w>> /\ current[w] = None
  /\ edt' = Idle
  /\ UNCHANGED <<env, windows, servers, opens>>

\* Mutant: the port is recorded before it is known to be bound.
NoPortRecorded(w) ==
  /\ edt = <<"bind", w>> /\ current[w] # None
  /\ Candidates(current[w]) = {}
  /\ \E q \in Ports \ Held(current[w]) : record' = [record EXCEPT ![current[w]] = q]
  /\ state' = [state EXCEPT ![w] = "error"]
  /\ edt' = Idle
  /\ UNCHANGED <<env, windows, thread, holder, opens>>

NoPort(w) ==
  /\ edt = <<"bind", w>> /\ current[w] # None
  /\ Candidates(current[w]) = {}
  /\ state' = [state EXCEPT ![w] = "error"]
  /\ edt' = Idle
  /\ UNCHANGED <<env, windows, thread, record, holder, opens>>

\* The socket listens, the port is recorded, the server's thread begins.
Bind(w) ==
  /\ edt = <<"bind", w>> /\ current[w] # None
  /\ \E q \in Candidates(current[w]) :
       /\ First(current[w], q)
       /\ holder' = [holder EXCEPT ![q] = w]
       /\ record' = [record EXCEPT ![current[w]] = q]
  /\ thread' = [thread EXCEPT ![w] = "starting"]
  /\ edt' = <<"wait", w>>
  /\ UNCHANGED <<env, windows, state, opens>>

\* Mutant: a state the enumeration does not have.
UpUnknown(w) ==
  /\ edt = <<"wait", w>> /\ thread[w] = "serving"
  /\ state' = [state EXCEPT ![w] = "serving"]
  /\ edt' = Idle
  /\ UNCHANGED <<env, windows, thread, record, holder, opens>>

Up(w) ==
  /\ edt = <<"wait", w>> /\ thread[w] = "serving"
  /\ state' = [state EXCEPT ![w] = "running"]
  /\ edt' = Idle
  /\ UNCHANGED <<env, windows, thread, record, holder, opens>>

\* The deadline has passed, even if the server came up since the last look.
StartTimesOut(w) ==
  /\ edt = <<"wait", w>>
  /\ "slow" \in env
  /\ StopServer(w)
  /\ UNCHANGED <<env, windows, thread, record, holder, opens>>

\* Mutant: a thread that does not end in time keeps its socket.
ForgetOnly(w) ==
  /\ thread' = [thread EXCEPT ![w] = "none"]
  /\ state' = [state EXCEPT ![w] = "stopped"]
  /\ edt' = Idle
  /\ UNCHANGED <<env, windows, record, holder, opens>>

\* The sockets are closed and the thread is forgotten, ended or not.
Forget(w) ==
  /\ thread' = [thread EXCEPT ![w] = "none"]
  /\ holder' = [q \in Ports |-> IF holder[q] = w THEN None ELSE holder[q]]
  /\ state' = [state EXCEPT ![w] = "stopped"]
  /\ edt' = Idle
  /\ UNCHANGED <<env, windows, record, opens>>

Join(w) == edt = <<"join", w>> /\ thread[w] = "ended" /\ Forget(w)

\* Mutant: the second join waits as long as it takes.
JoinForever(w) == edt = <<"join", w>> /\ thread[w] = "ended" /\ Forget(w)

\* A request in progress outlives both joins.
JoinTimesOut(w) == edt = <<"join", w>> /\ thread[w] # "ended" /\ Forget(w)

EventThread(w) ==
  NoProgram(w) \/ NoPort(w) \/ Bind(w) \/ Up(w) \/ StartTimesOut(w) \/ Join(w) \/ JoinTimesOut(w)

\* The server's thread comes up, or ends: because it could not start, because
\* it was told to, when its requests are through, or of itself, when something
\* like a script's SystemExit reaches its event loop.  Its socket stays open.
Serves(w) ==
  /\ thread[w] = "starting"
  /\ thread' = [thread EXCEPT ![w] = "serving"]
  /\ UNCHANGED <<env, windows, state, record, holder, edt, opens>>

Ends(w) ==
  /\ thread[w] \in {"starting", "serving"}
  /\ \/ state[w] = "stopping"
     \/ "slow" \in env /\ (thread[w] = "starting" \/ state[w] = "running")
  /\ thread' = [thread EXCEPT ![w] = "ended"]
  /\ UNCHANGED <<env, windows, state, record, holder, edt, opens>>

-----------------------------------------------------------------------------
(***************************************************************************)
(* The windows.                                                            *)
(***************************************************************************)

\* What _post_program_activated does.
Activated(w) == StartServer(w) \/ UNCHANGED <<state, edt>>

\* The user opens p in w, or turns to it.
Show(w, p) ==
  /\ edt = Idle /\ current[w] # p
  /\ opened' = [opened EXCEPT ![w] = @ \cup {p}]
  /\ current' = [current EXCEPT ![w] = p]
  /\ Activated(w)
  /\ UNCHANGED <<env, thread, record, holder, opens>>

\* Mutant: a closed program leaves the server running.
CloseOnly(w, p) ==
  /\ edt = Idle /\ "stops" \in env /\ p \in opened[w]
  /\ opened' = [opened EXCEPT ![w] = @ \ {p}]
  /\ current' = [current EXCEPT ![w] = IF @ = p THEN None ELSE @]
  /\ UNCHANGED <<env, servers, edt, opens>>

\* The server stops whichever program is closed.  If it was the one shown,
\* another is shown later, by Show, or was before.
Close(w, p) ==
  /\ edt = Idle /\ "stops" \in env /\ p \in opened[w]
  /\ opened' = [opened EXCEPT ![w] = @ \ {p}]
  /\ current' = [current EXCEPT ![w] = IF @ = p THEN None ELSE @]
  /\ StopServer(w)
  /\ UNCHANGED <<env, thread, record, holder, opens>>

\* The menu actions, where they are enabled.
StartClicked(w) ==
  /\ edt = Idle /\ state[w] = "stopped"
  /\ StartServer(w)
  /\ UNCHANGED <<env, windows, thread, record, holder, opens>>

StopClicked(w) ==
  /\ edt = Idle /\ "stops" \in env /\ state[w] = "running"
  /\ StopServer(w)
  /\ UNCHANGED <<env, windows, thread, record, holder, opens>>

-----------------------------------------------------------------------------
(***************************************************************************)
(* open_program: its worker thread polls while its opening thread works.   *)
(***************************************************************************)

Call(o, p) ==
  /\ job[o] = "none"
  /\ job' = [job EXCEPT ![o] = "opening"]
  /\ asked' = [asked EXCEPT ![o] = p]
  /\ polling' = polling \cup {o}
  /\ unrecorded' = unrecorded \cup {x \in {o} : record[p] = None}
  /\ UNCHANGED <<env, windows, servers, edt>>

\* The opening thread has had the window launched, or failed.
Opened(o, success) ==
  /\ job[o] = "opening"
  /\ job' = [job EXCEPT ![o] = IF success THEN "launched" ELSE "failed"]
  /\ UNCHANGED <<env, windows, servers, edt, asked, polling, unrecorded>>

\* The new window comes up with the program.
Appears(o, w) ==
  /\ edt = Idle /\ job[o] = "launched"
  /\ opened[w] = {} /\ state[w] = "stopped"
  /\ job' = [job EXCEPT ![o] = "shown"]
  /\ opened' = [opened EXCEPT ![w] = {asked[o]}]
  /\ current' = [current EXCEPT ![w] = asked[o]]
  /\ Activated(w)
  /\ UNCHANGED <<env, thread, record, holder, asked, polling, unrecorded>>

Answered(o) ==
  /\ o \in polling
  /\ polling' = polling \ {o} /\ unrecorded' = unrecorded \ {o}
  /\ UNCHANGED <<env, windows, servers, edt, asked, job>>

\* An iteration of the loop finds a port recorded for the program, and that
\* is the answer: "ready", or "analyzing" for a call that was not to wait.
FindPort(o) ==
  /\ job[o] \in {"launched", "shown"}
  /\ record[asked[o]] # None
  /\ Answered(o)

\* The opening thread has left an error; or the deadline has passed.
GiveUp(o) == Answered(o)

Next ==
  \/ \E w \in Windows :
       \/ EventThread(w) \/ Serves(w) \/ Ends(w)
       \/ \E p \in Programs : Show(w, p) \/ Close(w, p)
       \/ StartClicked(w) \/ StopClicked(w)
       \/ \E o \in Opens : Appears(o, w)
  \/ \E o \in Opens :
       \/ \E p \in Programs : Call(o, p)
       \/ \E success \in BOOLEAN : Opened(o, success)
       \/ FindPort(o) \/ GiveUp(o)

Spec == Init /\ [][Next]_vars

\* The event thread goes on where it can, and a server that is not slow
\* comes up.  Nothing makes a server that was told to end do so.
Fairness == \A w \in Windows : WF_vars(EventThread(w)) /\ WF_vars(Serves(w))

FairSpec == Spec /\ Fairness

-----------------------------------------------------------------------------

\* No port is on record for two programs at a time: open_program never names
\* one port for two programs, and a server is never started on the port that
\* is on record for another program, whose own may be stopped.  (Which program
\* is served there is another matter, see ReadyIsDedicated; and the port that
\* a program had before it got another one may be given away.)
RecordsAreDistinct ==
  \A p, q \in Programs : p # q /\ record[p] # None => record[p] # record[q]

\* When the event thread is through, the server of every window shown as
\* running has a socket that listens, on one port, and no other window has
\* one: neither a start that timed out nor a thread that would not end leaves
\* a socket behind.  (Whether its thread still serves is not known.)
SocketsAreShown ==
  edt = Idle => \A w \in Windows :
    /\ state[w] = "running" => \E q \in Ports : holder[q] = w
    /\ \A q, r \in Ports : holder[q] = w /\ holder[r] = w => q = r
    /\ (\E q \in Ports : holder[q] = w) => state[w] = "running"

\* No server stays up in a window without a program.
ServersEndWithPrograms ==
  edt = Idle => \A w \in Windows : state[w] = "running" => opened[w] # {}

\* A program keeps the port it had as long as nobody else has bound it.
PortIsKept == [][
  \A p \in Programs :
    record[p] # None /\ record'[p] # record[p] => holder[record[p]] # None]_vars

\* The first time a program is opened, the port open_program answers with is
\* one on which a window with that program listens, if no server is stopped
\* meanwhile.
FirstOpenIsServed == [][
  env = {} => \A o \in unrecorded : FindPort(o) =>
    \E w \in Windows : holder[record[asked[o]]] = w /\ asked[o] \in opened[w]]_vars

\* The event thread, and with it Ghidra's whole interface, never waits for a
\* server for ever.
EventThreadReturns == []<>(edt = Idle)

\* "Returns new server connection info so the client can connect to the
\* dedicated server for that binary." (server.py:1568)  The code violates
\* it: a record outlives its server, and a window turns to other programs.
ReadyIsDedicated == [][
  \A o \in Opens : FindPort(o) =>
    \E w \in Windows : holder[record[asked[o]]] = w /\ current[w] = asked[o]]_vars
=============================================================================
