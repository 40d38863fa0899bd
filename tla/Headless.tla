------------------------------ MODULE Headless ------------------------------
(***************************************************************************)
(* The headless launcher: _main, _run_server and _create_server of         *)
(* headless.py, and the status lines of cli_status.py.                     *)
(*                                                                         *)
(* The main thread goes through its phases once; each may raise, and an    *)
(* interrupt (SIGINT, or SIGTERM once its handler is installed) raises     *)
(* KeyboardInterrupt wherever the main thread is, the save included.       *)
(* What is raised unwinds the program's and the project's contexts; from   *)
(* the moment the server is made, the program is saved on the way.         *)
(*                                                                         *)
(* The server runs in a daemon thread: it comes up late or never, need not *)
(* end when it is told to, and writes to the program until the process     *)
(* ends.                                                                   *)
(***************************************************************************)
EXTENDS Naturals, Sequences

CONSTANTS
  Writes,        \* what clients ask to be written
  MaxInterrupts  \* bound: the signals sent to the process

VARIABLES
  phase,       \* what the main thread does
  leaving,     \* what it unwinds with: SystemExit (argparse's: "usage"),
               \* KeyboardInterrupt, another exception; or what killed it
  inside,      \* the try around open_project has begun
  lines,       \* the status lines printed to stdout
  server,      \* the server's thread
  told,        \* should_exit or force_exit is set
  answered,    \* writes the server did and answered
  saved,       \* writes in the saved program
  save,        \* what became of program.save
  alone,       \* the server was down when the program was saved (history)
  late,        \* closing the program or the project raised (history)
  interrupts   \* signals so far

main == <<phase, leaving, inside, lines>>
serving == <<server, told, answered>>
saving == <<saved, save, alone, late>>
vars == <<main, serving, saving, interrupts>>

StartupReasons == {"binary_not_found", "bad_port", "missing_install_dir"}
Lines == StartupReasons \cup
           {"jvm_not_found", "open_failed", "port_unavailable", "internal", "ready"}

\* What the main thread does in turn until it serves.
Opening == <<"parse", "resolve", "jvm", "project", "import", "program", "analyze">>
Phases == {Opening[i] : i \in DOMAIN Opening} \cup
            {"bind", "start", "ready", "serve", "stop", "force", "save", "close", "exited"}

TypeOK ==
  /\ phase \in Phases
  /\ leaving \in {"no", "usage", "exit", "interrupt", "error", "killed"}
  /\ inside \in BOOLEAN
  /\ lines \in Seq(Lines)
  /\ server \in {"none", "starting", "up", "down"}
  /\ told \in BOOLEAN
  /\ answered \subseteq Writes /\ saved \subseteq answered
  /\ save \in {"none", "ok", "failed", "interrupted"}
  /\ alone \in BOOLEAN /\ late \in BOOLEAN
  /\ interrupts \in 0..MaxInterrupts

Init ==
  /\ phase = "parse" /\ leaving = "no" /\ inside = FALSE
  /\ lines = <<>>
  /\ server = "none" /\ told = FALSE
  /\ answered = {} /\ saved = {}
  /\ save = "none" /\ alone = FALSE /\ late = FALSE
  /\ interrupts = 0

-----------------------------------------------------------------------------
\* Whether an exception meets the finally block that saves.
Saves(at) == at \in {"bind", "start", "ready", "serve", "stop", "force"}

\* Mutant: the save follows _run_server without a finally.
UnwindPast(how) ==
  /\ leaving' = how
  /\ phase' = IF how = "error" /\ Saves(phase) THEN "save" ELSE "close"

\* What is raised in a phase.
Unwind(how) ==
  /\ leaving' = how
  /\ phase' = IF Saves(phase) THEN "save" ELSE "close"

\* sys.exit(emit_error(reason, ...))
ExitWith(reason) ==
  /\ lines' = Append(lines, reason)
  /\ Unwind("exit")

\* argparse ends the process itself, without a status line.
UsageError ==
  /\ phase = "parse"
  /\ Unwind("usage")
  /\ UNCHANGED <<inside, lines, serving, saving, interrupts>>

\* SIGTERM before its handler is installed ends the process at once.
Killed ==
  /\ phase \in {"parse", "resolve"} /\ interrupts < MaxInterrupts
  /\ interrupts' = interrupts + 1
  /\ leaving' = "killed" /\ phase' = "exited"
  /\ UNCHANGED <<inside, lines, serving, saving>>

StartupError(reason) ==
  /\ phase = "resolve"
  /\ ExitWith(reason)
  /\ UNCHANGED <<inside, serving, saving, interrupts>>

NoJvm ==
  /\ phase = "jvm"
  /\ ExitWith("jvm_not_found")
  /\ UNCHANGED <<inside, serving, saving, interrupts>>

\* A program that is in the project is not imported, one that was analyzed is
\* not analyzed again; to the launcher it is all one.
Advance ==
  /\ \E i \in 1..(Len(Opening) - 1) : phase = Opening[i] /\ phase' = Opening[i + 1]
  /\ inside' = (inside \/ phase' = "project")
  /\ UNCHANGED <<leaving, lines, serving, saving, interrupts>>

RunServer ==
  /\ phase = "analyze"
  /\ phase' = "bind"
  /\ UNCHANGED <<leaving, inside, lines, serving, saving, interrupts>>

\* Anything between these calls may raise, before the JVM is up or after.
Raises ==
  /\ phase \in {"resolve", "jvm", "project", "import", "program", "analyze", "bind"}
  /\ Unwind("error")
  /\ UNCHANGED <<inside, lines, serving, saving, interrupts>>

NoPort ==
  /\ phase = "bind"
  /\ ExitWith("port_unavailable")
  /\ UNCHANGED <<inside, serving, saving, interrupts>>

Bind ==
  /\ phase = "bind"
  /\ phase' = "start"
  /\ server' = "starting"
  /\ UNCHANGED <<leaving, inside, lines, told, answered, saving, interrupts>>

\* Five seconds have passed.
NotStarted ==
  /\ phase = "start" /\ server # "up"
  /\ told' = TRUE
  /\ ExitWith("internal")
  /\ UNCHANGED <<inside, server, answered, saving, interrupts>>

Started ==
  /\ phase = "start" /\ server = "up"
  /\ phase' = "ready"
  /\ UNCHANGED <<leaving, inside, lines, serving, saving, interrupts>>

EmitReady ==
  /\ phase = "ready"
  /\ lines' = Append(lines, "ready")
  /\ phase' = "serve"
  /\ UNCHANGED <<leaving, inside, serving, saving, interrupts>>

\* KeyboardInterrupt: the loop that serves catches it and stops the server;
\* anywhere else it unwinds.
Interrupt ==
  /\ phase # "exited" /\ interrupts < MaxInterrupts
  /\ interrupts' = interrupts + 1
  /\ IF phase = "serve"
       THEN /\ phase' = "stop" /\ told' = TRUE
            /\ UNCHANGED <<leaving, save>>
       ELSE /\ Unwind("interrupt")
            /\ save' = IF phase = "save" THEN "interrupted" ELSE save
            /\ UNCHANGED told
  /\ UNCHANGED <<inside, lines, server, answered, saved, alone, late>>

Join ==
  /\ phase \in {"stop", "force"} /\ server = "down"
  /\ phase' = "save"
  /\ UNCHANGED <<leaving, inside, lines, serving, saving, interrupts>>

\* One second, then the forced exit and four more.
JoinTimesOut ==
  /\ phase \in {"stop", "force"} /\ server # "down"
  /\ phase' = IF phase = "stop" THEN "force" ELSE "save"
  /\ UNCHANGED <<leaving, inside, lines, serving, saving, interrupts>>

Save ==
  /\ phase = "save"
  /\ phase' = "close"
  /\ alone' = (server \in {"none", "down"})
  /\ \/ save' = "ok" /\ saved' = answered /\ UNCHANGED leaving
     \/ save' = "failed" /\ leaving' = "error" /\ UNCHANGED saved
  /\ UNCHANGED <<inside, lines, serving, late, interrupts>>

CloseFails ==
  /\ phase = "close" /\ inside /\ ~late
  /\ late' = TRUE
  /\ leaving' = "error"
  /\ UNCHANGED <<phase, inside, lines, serving, saved, save, alone, interrupts>>

\* Mutant: `except BaseException` around the whole takes SystemExit as well.
ExitTwice ==
  /\ phase = "close"
  /\ phase' = "exited"
  /\ lines' = IF leaving \in {"exit", "error"}
                THEN Append(lines, IF inside THEN "open_failed" ELSE "internal") ELSE lines
  /\ UNCHANGED <<leaving, inside, serving, saving, interrupts>>

\* The contexts are closed, and what is raised is answered: another exception
\* by open_failed, or by the last resort of main.
Exit ==
  /\ phase = "close"
  /\ phase' = "exited"
  /\ lines' = IF leaving = "error"
                THEN Append(lines, IF inside THEN "open_failed" ELSE "internal") ELSE lines
  /\ UNCHANGED <<leaving, inside, serving, saving, interrupts>>

-----------------------------------------------------------------------------
\* The server's thread.

ComesUp ==
  /\ server = "starting" /\ phase # "exited"
  /\ server' = "up"
  /\ UNCHANGED <<main, told, answered, saving, interrupts>>

\* It ends when it is told to, or of itself, which nobody notices.
Ends ==
  /\ server \in {"starting", "up"} /\ phase # "exited"
  /\ server' = "down"
  /\ UNCHANGED <<main, told, answered, saving, interrupts>>

Write(w) ==
  /\ server = "up" /\ phase # "exited"
  /\ answered' = answered \cup {w}
  /\ UNCHANGED <<main, server, told, saving, interrupts>>

MainStep ==
  \/ Advance \/ RunServer \/ Raises \/ NoPort \/ Bind \/ NotStarted \/ Started \/ EmitReady
  \/ UsageError \/ NoJvm \/ \E reason \in StartupReasons : StartupError(reason)
  \/ Join \/ JoinTimesOut \/ Save \/ CloseFails \/ Exit

Next ==
  \/ MainStep \/ Interrupt \/ Killed
  \/ ComesUp \/ Ends \/ \E w \in Writes : Write(w)

Spec == Init /\ [][Next]_vars

-----------------------------------------------------------------------------

\* On every way out after something was written, the save was tried; and if it
\* came through, and the server had obeyed and was down by then, everything
\* its clients were told is written has been saved.
SavedOnExit ==
  phase = "exited" /\ answered # {} =>
    /\ save # "none"
    /\ save = "ok" /\ alone => saved = answered

Ready == \E i \in DOMAIN lines : lines[i] = "ready"


\* What does hold of the status lines: none is printed only for a wrong
\* command line or when the launcher is stopped before it is ready, and a
\* second one only when the save or the closing after it fails.
OneStatusLine ==
  phase = "exited" =>
    /\ lines = <<>> => leaving \in {"usage", "interrupt", "killed"}
    /\ Len(lines) > 1 => save = "failed" \/ late
    /\ Len(lines) <= 2
=============================================================================
