--------------------------- MODULE ScriptExecution ---------------------------
(***************************************************************************)
(* The `pyghidra` tool: _pyghidra_eval_sync of tools/scripting.py, run by  *)
(* one worker thread per call against one process-wide session.            *)
(*                                                                         *)
(* Every call redirects sys.stdout to a tee of its own, tries the single-  *)
(* flight lock, and, when it gets it, builds or keeps the persistent       *)
(* globals, injects the client's callbacks and mcp.self under names that   *)
(* are free, runs the script, withdraws what it injected, releases the     *)
(* lock and puts sys.stdout back.  The threads interleave between any two  *)
(* of these statements.                                                    *)
(*                                                                         *)
(* Abstractions.  sys.stderr is saved, replaced and restored beside        *)
(* sys.stdout by the next statement and is left out.  A value in the       *)
(* globals is unbound, the session's own, or projected for one call; the   *)
(* projected object of call c checks c's CallbackScope when it is called.  *)
(* Text is the set of calls whose prints it holds.  The function-list      *)
(* flags the finally block also writes are RpcDiscovery's.  The locals of  *)
(* a finished call (saved, injected, parent, using) are set back to their  *)
(* initial values, so that states that differ in them alone are one.       *)
(***************************************************************************)
EXTENDS FiniteSets

CONSTANTS
  Calls,      \* invocations of the tool, each on its own worker thread
  NoCall,     \* no invocation
  Terminal,   \* the stream sys.stdout names when the server starts
  NoGlobals,  \* _persistent_globals = None
  Names,      \* the global names the properties tell apart
  SelfName,   \* "mcp"
  Escape,     \* a name with a leading underscore added
  Reserved    \* builtins, keywords, importable modules, GhidraScript globals

Unbound == "unbound"
Own == "own"
Values == {Unbound, Own} \cup Calls
Streams == Calls \cup {Terminal}

ASSUME NamesAssumption ==
  /\ SelfName \in Names
  /\ Escape \in [Names -> Names]
  /\ Reserved \subseteq Names

ASSUME CallsAssumption ==
  /\ NoCall \notin Calls
  /\ Terminal \notin Calls
  /\ NoGlobals \notin [Names -> Values]
  /\ Unbound \notin Calls
  /\ Own \notin Calls

VARIABLES
  pc,        \* pc[c]: the statement call c executes next
  saved,     \* saved[c]: old_stdout, as read on entry
  outcome,   \* outcome[c]: how the call ended
  scope,     \* scope[c]: the call's CallbackScope
  injected,  \* injected[c]: the keys of its injected_globals
  reply,     \* reply[c]: whose prints the ScriptResult carries, if there is one
  parent,    \* parent[c]: the call whose callback made the client issue c
  using,     \* using[c]: the call whose scope let c's pending request out
  stdout,    \* sys.stdout
  lock,      \* _script_lock's owner
  globals,   \* _persistent_globals
  roots,     \* _active_import_roots
  written,   \* written[s]: the calls whose prints reached stream s
  solo       \* solo[c]: no other call has overlapped c (history)

perCall == <<saved, outcome, scope, injected, reply, parent, using>>
session == <<lock, globals, roots>>
vars == <<pc, perCall, session, stdout, written, solo>>

Holding == {"build", "inject", "run", "calling", "cleanup", "release"}
PCs == Holding \cup {"new", "saved", "tee", "catch", "restore", "done"}
Outcomes == {"none", "busy", "value", "error", "escaped"}
NoReply == {NoCall}

TypeOK ==
  /\ pc \in [Calls -> PCs]
  /\ saved \in [Calls -> Streams]
  /\ outcome \in [Calls -> Outcomes]
  /\ scope \in [Calls -> {"none", "valid", "expired"}]
  /\ injected \in [Calls -> SUBSET Names]
  /\ reply \in [Calls -> (SUBSET Calls) \cup {NoReply}]
  /\ parent \in [Calls -> Calls \cup {NoCall}]
  /\ using \in [Calls -> Calls \cup {NoCall}]
  /\ stdout \in Streams
  /\ lock \in Calls \cup {NoCall}
  /\ globals \in [Names -> Values] \cup {NoGlobals}
  /\ roots \in SUBSET Names
  /\ written \in [Streams -> SUBSET Calls]
  /\ solo \in [Calls -> BOOLEAN]

Init ==
  /\ pc = [c \in Calls |-> "new"]
  /\ saved = [c \in Calls |-> Terminal]
  /\ outcome = [c \in Calls |-> "none"]
  /\ scope = [c \in Calls |-> "none"]
  /\ injected = [c \in Calls |-> {}]
  /\ reply = [c \in Calls |-> NoReply]
  /\ parent = [c \in Calls |-> NoCall]
  /\ using = [c \in Calls |-> NoCall]
  /\ stdout = Terminal
  /\ lock = NoCall
  /\ globals = NoGlobals
  /\ roots = {}
  /\ written = [s \in Streams |-> {}]
  /\ solo = [c \in Calls |-> TRUE]

Active(c) == pc[c] \notin {"new", "done"}
Goto(c, label) == pc' = [pc EXCEPT ![c] = label]

(***************************************************************************)
(* The captured-output protocol and the lock.                              *)
(***************************************************************************)

\* The call arrives, from a client at large or from inside the callback of
\* a running script, and reads sys.stdout.
Enter(c, p) ==
  /\ pc[c] = "new"
  /\ p \in Calls => pc[p] = "calling"
  /\ saved' = [saved EXCEPT ![c] = stdout]
  /\ parent' = [parent EXCEPT ![c] = p]
  /\ solo' = [d \in Calls |->
                solo[d] /\ (IF d = c THEN \A e \in Calls : ~Active(e)
                                     ELSE ~Active(d))]
  /\ Goto(c, "saved")
  /\ UNCHANGED <<outcome, scope, injected, reply, using, session, stdout, written>>

\* Mutant: the tee is built but never installed.
TeeNotInstalled(c) ==
  /\ pc[c] = "saved"
  /\ Goto(c, "tee")
  /\ UNCHANGED <<perCall, session, stdout, written, solo>>

InstallTee(c) ==
  /\ pc[c] = "saved"
  /\ stdout' = c
  /\ Goto(c, "tee")
  /\ UNCHANGED <<perCall, session, written, solo>>

\* Mutant: the result of acquire(blocking=False) is not looked at.
AcquireUnchecked(c) ==
  /\ pc[c] = "tee"
  /\ lock' = c
  /\ Goto(c, "build")
  /\ UNCHANGED <<perCall, globals, roots, stdout, written, solo>>

AcquireLock(c) ==
  /\ pc[c] = "tee"
  /\ lock = NoCall
  /\ lock' = c
  /\ Goto(c, "build")
  /\ UNCHANGED <<perCall, globals, roots, stdout, written, solo>>

\* Mutant: acquire() blocks, so a busy call is never turned away.
WaitForLock(c) == FALSE

RejectBusy(c) ==
  /\ pc[c] = "tee"
  /\ lock # NoCall
  /\ outcome' = [outcome EXCEPT ![c] = "busy"]
  /\ reply' = [reply EXCEPT ![c] = written[c]]
  /\ Goto(c, "restore")
  /\ UNCHANGED <<saved, scope, injected, parent, using, session, stdout, written, solo>>

(***************************************************************************)
(* The session's globals.                                                  *)
(***************************************************************************)

FreshGlobals == [n \in Names |-> Unbound]

Fail(c) ==
  /\ outcome' = [outcome EXCEPT ![c] = "error"]
  /\ Goto(c, "release")
  /\ UNCHANGED <<saved, scope, injected, reply, parent, using, session, stdout, written, solo>>

\* Kept unless reset was asked for; rebuilt when it was, or the first time.
BuildGlobals(c) ==
  /\ pc[c] = "build"
  /\ \/ globals # NoGlobals /\ UNCHANGED globals
     \/ globals' = FreshGlobals
  /\ Goto(c, "inject")
  /\ UNCHANGED <<perCall, lock, roots, stdout, written, solo>>

FailBuild(c) == pc[c] = "build" /\ Fail(c)

\* Where a projected root goes: its name if that is free, else the escaped
\* name, else nowhere.
Free(n) == n \notin Reserved /\ globals[n] = Unbound

\* Mutant: a root is projected over whatever its name is bound to.
PlaceAnywhere(n) == {n}

Place(n) == IF Free(n) THEN {n} ELSE IF Free(Escape[n]) THEN {Escape[n]} ELSE {}

\* available: the client declared callbacks and wire are their top names.
\* A failure to build mcp.self is logged and swallowed: selfBuilt is FALSE,
\* and the rest is injected without it.
InjectGlobals(c, available, wire, selfBuilt) ==
  /\ pc[c] = "inject"
  /\ available \/ wire = {}
  /\ LET keys == UNION {Place(n) : n \in wire \cup (IF selfBuilt THEN {SelfName} ELSE {})}
     IN /\ injected' = [injected EXCEPT ![c] = keys]
        /\ globals' = [n \in Names |-> IF n \in keys THEN c ELSE globals[n]]
        /\ roots' = keys
  /\ scope' = [scope EXCEPT ![c] = IF available THEN "valid" ELSE "none"]
  /\ Goto(c, "run")
  /\ UNCHANGED <<saved, outcome, reply, parent, using, lock, stdout, written, solo>>

\* What can raise here does so before the globals are updated; the statements
\* between the update and the script store to module variables and dicts.
FailInject(c) == pc[c] = "inject" /\ Fail(c)

(***************************************************************************)
(* The script.                                                             *)
(***************************************************************************)

WriteText(c) ==
  /\ pc[c] = "run"
  /\ written' = [written EXCEPT ![stdout] = @ \cup {c}]
  /\ UNCHANGED <<pc, perCall, session, stdout, solo>>

\* n = ..., n = m for a projected m (a captured handle), or del n.
Assign(c, n, v) ==
  /\ pc[c] = "run"
  /\ v \in {Unbound, Own} \cup {globals[m] : m \in Names}
  /\ globals' = [globals EXCEPT ![n] = v]
  /\ UNCHANGED <<pc, perCall, lock, roots, stdout, written, solo>>

\* Mutant: the wrapper does not check its scope.
CallUnchecked(c, n) ==
  /\ pc[c] = "run"
  /\ globals[n] \in Calls
  /\ using' = [using EXCEPT ![c] = globals[n]]
  /\ Goto(c, "calling")
  /\ UNCHANGED <<saved, outcome, scope, injected, reply, parent, session, stdout, written, solo>>

\* callback_fn and sync_call: the request goes out if the scope is valid and
\* the worker thread blocks on the answer ...
CallCallback(c, n) ==
  /\ pc[c] = "run"
  /\ globals[n] \in Calls
  /\ scope[globals[n]] = "valid"
  /\ using' = [using EXCEPT ![c] = globals[n]]
  /\ Goto(c, "calling")
  /\ UNCHANGED <<saved, outcome, scope, injected, reply, parent, session, stdout, written, solo>>

Resume(c) ==
  /\ using' = [using EXCEPT ![c] = NoCall]
  /\ Goto(c, "run")
  /\ UNCHANGED <<saved, outcome, scope, injected, reply, parent, session, stdout, written, solo>>

\* ... until the client is through with it, the tool calls it made included.
CallbackReturns(c) ==
  /\ pc[c] = "calling"
  /\ \A d \in Calls : parent[d] # c
  /\ Resume(c)

\* _rpc_timeout runs out first; the script may catch the RPCTimeoutError.
CallbackTimesOut(c) ==
  /\ pc[c] = "calling"
  /\ Resume(c)

\* Mutant: the cleanup is not in a finally block, so a script that raises
\* skips it.
EndWithoutFinally(c, result) ==
  /\ pc[c] = "run"
  /\ outcome' = [outcome EXCEPT ![c] = result]
  /\ reply' = [reply EXCEPT ![c] = IF result = "value" THEN written[c] ELSE @]
  /\ Goto(c, IF result = "value" THEN "cleanup" ELSE "release")
  /\ UNCHANGED <<saved, scope, injected, parent, using, session, stdout, written, solo>>

\* The expression or the last statement is evaluated, or the script raises:
\* an Exception (an expired callback's RuntimeError is one), or a
\* BaseException, such as exit()'s SystemExit.  That one passes the `except
\* Exception`: no ScriptResult is made of it, and it goes on from the worker
\* thread to whoever awaits it on the event loop.
EndScript(c, result) ==
  /\ pc[c] = "run"
  /\ outcome' = [outcome EXCEPT ![c] = result]
  /\ reply' = [reply EXCEPT ![c] = IF result = "value" THEN written[c] ELSE @]
  /\ Goto(c, "cleanup")
  /\ UNCHANGED <<saved, scope, injected, parent, using, session, stdout, written, solo>>

Cleanup(c) ==
  /\ pc[c] = "cleanup"
  /\ scope' = [scope EXCEPT ![c] = IF @ = "valid" THEN "expired" ELSE @]
  /\ globals' = [n \in Names |-> IF n \in injected[c] THEN Unbound ELSE globals[n]]
  /\ roots' = {}
  /\ injected' = [injected EXCEPT ![c] = {}]
  /\ Goto(c, "release")
  /\ UNCHANGED <<saved, outcome, reply, parent, using, lock, stdout, written, solo>>

ReleaseLock(c) ==
  /\ pc[c] = "release"
  /\ lock' = NoCall
  /\ Goto(c, IF outcome[c] = "error" THEN "catch" ELSE "restore")
  /\ UNCHANGED <<perCall, globals, roots, stdout, written, solo>>

CatchException(c) ==
  /\ pc[c] = "catch"
  /\ reply' = [reply EXCEPT ![c] = written[c]]
  /\ Goto(c, "restore")
  /\ UNCHANGED <<saved, outcome, scope, injected, parent, using, session, stdout, written, solo>>

\* Mutant: sys.stdout is reset to None instead of the saved stream.
ResetStdout(c) ==
  /\ pc[c] = "restore"
  /\ stdout' = NoCall
  /\ Goto(c, "done")
  /\ UNCHANGED <<perCall, session, written, solo>>

RestoreStdout(c) ==
  /\ pc[c] = "restore"
  /\ stdout' = saved[c]
  /\ saved' = [saved EXCEPT ![c] = Terminal]
  /\ parent' = [parent EXCEPT ![c] = NoCall]
  /\ Goto(c, "done")
  /\ UNCHANGED <<outcome, scope, injected, reply, using, session, written, solo>>

Script(c) ==
  \/ WriteText(c)
  \/ \E n \in Names : CallCallback(c, n) \/ \E v \in Values : Assign(c, n, v)
  \/ CallbackTimesOut(c)

EndsScript(c) == \E result \in {"value", "error", "escaped"} : EndScript(c, result)

\* What the call does of itself, the script apart.
Step(c) ==
  \/ InstallTee(c) \/ AcquireLock(c) \/ RejectBusy(c)
  \/ BuildGlobals(c) \/ FailBuild(c)
  \/ \E available, selfBuilt \in BOOLEAN, wire \in SUBSET Names :
        InjectGlobals(c, available, wire, selfBuilt)
  \/ FailInject(c)
  \/ CallbackReturns(c)
  \/ Cleanup(c) \/ ReleaseLock(c) \/ CatchException(c) \/ RestoreStdout(c)

Next == \E c \in Calls :
  \/ \E p \in Calls \cup {NoCall} : Enter(c, p)
  \/ Step(c) \/ Script(c) \/ EndsScript(c)

Spec == Init /\ [][Next]_vars

\* A worker thread that can go on does, the client answers the callbacks it
\* is sent, and a script, however often it calls back, comes to its end.
Fairness == \A c \in Calls : WF_vars(Step(c)) /\ SF_vars(EndsScript(c))

FairSpec == Spec /\ Fairness

-----------------------------------------------------------------------------

\* A call that nobody overlapped returns exactly what its own script printed,
\* whichever stream sys.stdout named when it came: nothing of it went to
\* another stream, and nobody else's text is in the reply.
SoloCallCapturesItsOwnOutput ==
  \A c \in Calls : pc[c] = "done" /\ solo[c] /\ outcome[c] # "escaped" =>
    /\ reply[c] = written[c] /\ reply[c] \subseteq {c}
    /\ \A s \in Streams \ {c} : c \notin written[s]

\* A request to the client is only ever made under the scope of the very
\* execution that makes it: a handle kept in a session variable, or left by
\* an earlier execution, sends nothing.
CallbacksUseTheirOwnScope == \A c \in Calls : using[c] \in {c, NoCall}

\* While no script runs the importer is disarmed and no session variable
\* holds a callback that would still send a request.
NoLiveCallbackBetweenExecutions ==
  lock = NoCall =>
    /\ roots = {}
    /\ globals # NoGlobals =>
         \A n \in Names : globals[n] \in Calls => scope[globals[n]] # "valid"

LossIsDeliberate ==
  \A n \in Names : globals # NoGlobals /\ globals[n] = Own /\ globals'[n] # Own =>
    \E c \in Calls : /\ lock = c
                     /\ \/ pc[c] \in {"run", "build"}
                        \/ pc[c] = "cleanup" /\ n \in injected[c]

\* A session variable changes only by a script's own statement, by a reset,
\* or, at the end of the execution that had injected an object under that
\* very name, by the withdrawal of the name.  Injection never takes one over.
SessionLossIsDeliberate == [][LossIsDeliberate]_vars

\* A call has left the tool, with a ScriptResult; or, if its script raised a
\* BaseException, with that and no result.
Ended(c) == pc[c] = "done" /\ (outcome[c] # "escaped" => reply[c] # NoReply)

\* Every call that came in ends, a re-entrant one included: it is turned away
\* at once instead of waiting for the script that waits for it.  All calls
\* but those whose script raised a BaseException are answered.
EveryCallEnds == \A c \in Calls : []<>(pc[c] = "new" \/ Ended(c))

\* Once no call is in progress, sys.stdout is the stream it was before the
\* first: overlapping calls do not race on that shared state
\* (tools/scripting.py:294-295).  The code violates it.
StdoutRestored == (\A c \in Calls : ~Active(c)) => stdout = Terminal

-----------------------------------------------------------------------------

\* The implemented promise: the lock's owner is the running call.
Status(c) == IF pc[c] \in {"new", "saved", "tee"} THEN "waiting"
             ELSE IF pc[c] \in Holding THEN "running"
             ELSE IF outcome[c] = "busy" THEN "rejected" ELSE "finished"

SF == INSTANCE SingleFlight
        WITH running <- lock, status <- [c \in Calls |-> Status(c)]

\* One script at a time, and a call is turned away only while one runs.
ImplementsSingleFlight == SF!Spec
=============================================================================
