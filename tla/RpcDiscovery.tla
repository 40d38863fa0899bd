---------------------------- MODULE RpcDiscovery ----------------------------
(***************************************************************************)
(* The server's cache of the client's callback functions: the _rpc_*       *)
(* globals of server.py, _discover_rpc_functions, _on_functions_changed,   *)
(* the `pyghidra` handler that discovers before it executes, and the end   *)
(* of an execution, where a deferred change is applied.                    *)
(*                                                                         *)
(* Handlers run on the event loop and interleave where they await: inside  *)
(* mcpy/listFunctions and while the script runs on its worker thread.  The *)
(* cache is one per process and is keyed by id(session), an address that a *)
(* later session can be given once the earlier object is collected.        *)
(*                                                                         *)
(* Nothing in the server registers _on_functions_changed; its tests call   *)
(* it.  The variable routed, which never changes, tells the server as it   *)
(* is built (FALSE: a change notification is dropped) from the one its     *)
(* handler is written for.  The constant Disturbances says which of these  *)
(* the environment does, the last two of them only to a routed server:     *)
(*   "overlap"   a session's call arrives while another session's          *)
(*               discovery awaits its client                               *)
(*   "reuse"     a new session is given the address of a collected one     *)
(*   "inflight"  a change is handled while a discovery awaits its client   *)
(*   "split"     the handler's test of _script_executing and its store to  *)
(*               _rpc_update_deferred are separated by the worker's steps  *)
(***************************************************************************)
EXTENDS Naturals

CONSTANTS
  Sessions,     \* ServerSession objects
  Declares,     \* the sessions whose client declares mcpy/rpcCallbacks
  Ids,          \* addresses
  Calls,        \* invocations of the `pyghidra` tool
  MaxVersion,   \* bound: how often each client changes its function list
  None,         \* Python's None
  Disturbances

ASSUME DiscoveryAssumption ==
  /\ Declares \subseteq Sessions
  /\ MaxVersion \in Nat
  /\ None \notin Sessions \cup Ids \cup Calls
  /\ Disturbances \subseteq {"overlap", "reuse", "inflight", "split"}

Versions == 0..MaxVersion

\* A discovered function list: whose, and the versions its pages are from.
Namespaces == [owner : Sessions, seen : SUBSET Versions]
ASSUME NoneAssumption == None \notin Namespaces

VARIABLES
  idOf,        \* idOf[s]: the address of a live session, else None
  gone,        \* sessions that have been collected
  version,     \* version[s]: the client's current list
  pending,     \* sessions with an unprocessed change notification
  handled,     \* handled[s]: the last version whose change notice was taken
  routed,      \* the notice reaches _on_functions_changed
  namespace,   \* _rpc_namespace
  discovered,  \* _rpc_functions_discovered
  cachedId,    \* _rpc_session_id
  executing,   \* _script_executing
  deferred,    \* _rpc_update_deferred
  deferring,   \* sessions whose handler has seen a script executing
  pc, sess, pages, ns,  \* per call: label, session, pages' versions, result
  owner        \* the call holding the single-flight lock

clients == <<idOf, gone, version, pending, handled, routed>>
cache == <<namespace, discovered, cachedId>>
flags == <<executing, deferred, deferring>>
calls == <<pc, sess, pages, ns>>
vars == <<clients, cache, flags, calls, owner>>

PCs == {"new", "listing", "answered", "ready",
        "executing", "ending", "applying", "done"}

TypeOK ==
  /\ idOf \in [Sessions -> Ids \cup {None}]
  /\ gone \in SUBSET Sessions
  /\ version \in [Sessions -> Versions] /\ handled \in [Sessions -> Versions]
  /\ routed \in BOOLEAN
  /\ pending \in SUBSET Sessions /\ deferring \in SUBSET Sessions
  /\ namespace \in Namespaces \cup {None}
  /\ cachedId \in Ids \cup {None}
  /\ discovered \in BOOLEAN /\ executing \in BOOLEAN /\ deferred \in BOOLEAN
  /\ pc \in [Calls -> PCs]
  /\ sess \in [Calls -> Sessions \cup {None}]
  /\ pages \in [Calls -> SUBSET Versions]
  /\ ns \in [Calls -> Namespaces \cup {None}]
  /\ owner \in Calls \cup {None}

Init ==
  /\ idOf = [s \in Sessions |-> None] /\ gone = {}
  /\ version = [s \in Sessions |-> 0] /\ handled = [s \in Sessions |-> 0]
  /\ routed \in BOOLEAN
  /\ pending = {} /\ deferring = {}
  /\ namespace = None /\ discovered = FALSE /\ cachedId = None
  /\ executing = FALSE /\ deferred = FALSE
  /\ pc = [c \in Calls |-> "new"] /\ sess = [c \in Calls |-> None]
  /\ pages = [c \in Calls |-> {}] /\ ns = [c \in Calls |-> None]
  /\ owner = None

Live(s) == idOf[s] # None
Awaiting(c) == pc[c] \in {"listing", "answered"}
Goto(c, label) == pc' = [pc EXCEPT ![c] = label]

\* The notification handler does not await: the event loop does nothing else
\* until it is through.
LoopIsFree == deferring = {}

(***************************************************************************)
(* Sessions come and go.                                                   *)
(***************************************************************************)

UsedIds == {idOf[s] : s \in {t \in Sessions : Live(t)}}

Connect(s, i) ==
  /\ ~Live(s) /\ s \notin gone
  /\ i \notin UsedIds
  /\ "reuse" \in Disturbances \/ cachedId # i
  /\ idOf' = [idOf EXCEPT ![s] = i]
  /\ UNCHANGED <<gone, version, pending, handled, routed, cache, flags, calls, owner>>

\* A session is collected when no call refers to it any more.
Collect(s) ==
  /\ Live(s)
  /\ s \notin deferring
  /\ \A c \in Calls : sess[c] = s => pc[c] = "done"
  /\ idOf' = [idOf EXCEPT ![s] = None]
  /\ gone' = gone \cup {s}
  /\ pending' = pending \ {s}
  /\ UNCHANGED <<version, handled, routed, cache, flags, calls, owner>>

(***************************************************************************)
(* The `pyghidra` handler: discovery.                                      *)
(***************************************************************************)

\* Mutant: the cached functions are not tied to a session.
NeverStale(s) == cachedId = None

Stale(s) == cachedId # idOf[s]

Arrives(c, s) ==
  /\ pc[c] = "new" /\ Live(s) /\ LoopIsFree
  /\ "overlap" \in Disturbances \/ \A d \in Calls : Awaiting(d) => sess[d] = s
  /\ sess' = [sess EXCEPT ![c] = s]
  /\ cachedId' = idOf[s]

\* The cached list of this very session.
Hit(c, s) ==
  /\ Arrives(c, s)
  /\ ~Stale(s) /\ discovered
  /\ ns' = [ns EXCEPT ![c] = namespace]
  /\ Goto(c, "ready")
  /\ UNCHANGED <<clients, namespace, discovered, flags, pages, owner>>

\* The client does not declare the capability, which is cached too.
NotSupported(c, s) ==
  /\ Arrives(c, s)
  /\ Stale(s) \/ ~discovered
  /\ s \notin Declares
  /\ discovered' = TRUE /\ namespace' = None
  /\ Goto(c, "ready")
  /\ UNCHANGED <<clients, flags, pages, ns, owner>>

\* mcpy/listFunctions is sent and awaited.
StartListing(c, s) ==
  /\ Arrives(c, s)
  /\ Stale(s) \/ ~discovered
  /\ s \in Declares
  /\ discovered' = FALSE
  /\ namespace' = IF Stale(s) THEN None ELSE namespace
  /\ Goto(c, "listing")
  /\ UNCHANGED <<clients, flags, pages, ns, owner>>

\* The client answers with a page of its current list: with a cursor, so
\* another request follows, or as the last page.
Answer(c, last) ==
  /\ pc[c] = "listing"
  /\ pages' = [pages EXCEPT ![c] = @ \cup {version[sess[c]]}]
  /\ Goto(c, IF last THEN "answered" ELSE "listing")
  /\ UNCHANGED <<clients, cache, flags, sess, ns, owner>>

\* The handler resumes with the last page and fills the cache.
FinishListing(c) ==
  /\ pc[c] = "answered" /\ LoopIsFree
  /\ LET found == [owner |-> sess[c], seen |-> pages[c]]
     IN /\ namespace' = found
        /\ ns' = [ns EXCEPT ![c] = found]
  /\ discovered' = TRUE
  /\ Goto(c, "ready")
  /\ UNCHANGED <<clients, cachedId, flags, sess, pages, owner>>

\* Mutant: a failed discovery is remembered as "no callbacks".
CacheFailure(c) ==
  /\ Awaiting(c) /\ LoopIsFree
  /\ discovered' = TRUE
  /\ Goto(c, "ready")
  /\ UNCHANGED <<clients, namespace, cachedId, flags, sess, pages, ns, owner>>

\* A timeout, an error response or a malformed page: not cached.
ListingFails(c) ==
  /\ Awaiting(c) /\ LoopIsFree
  /\ Goto(c, "ready")
  /\ UNCHANGED <<clients, cache, flags, sess, pages, ns, owner>>

(***************************************************************************)
(* The `pyghidra` handler: execution (ScriptExecution has the details).    *)
(***************************************************************************)

BeginScript(c) ==
  /\ pc[c] = "ready" /\ owner = None
  /\ owner' = c /\ executing' = TRUE
  /\ Goto(c, "executing")
  /\ UNCHANGED <<clients, cache, deferred, deferring, sess, pages, ns>>

\* Turned away because a script runs, or the session cannot be built.
NotExecuted(c) ==
  /\ pc[c] = "ready"
  /\ Goto(c, "done")
  /\ UNCHANGED <<clients, cache, flags, sess, pages, ns, owner>>

ClearExecuting(c) ==
  /\ pc[c] = "executing"
  /\ "split" \in Disturbances \/ deferring = {}
  /\ executing' = FALSE
  /\ Goto(c, "ending")
  /\ UNCHANGED <<clients, cache, deferred, deferring, sess, pages, ns, owner>>

\* The rest of the finally block: _rpc_update_deferred is tested ...
Release(c) ==
  /\ owner' = None
  /\ Goto(c, "done")
  /\ UNCHANGED <<clients, namespace, cachedId, flags, sess, pages, ns>>

\* Mutant: the test is missing.
AlwaysNothingDeferred(c) ==
  /\ pc[c] = "ending"
  /\ Release(c) /\ UNCHANGED discovered

NothingDeferred(c) ==
  /\ pc[c] = "ending" /\ ~deferred
  /\ Release(c) /\ UNCHANGED discovered

\* ... cleared ...
TakeDeferred(c) ==
  /\ pc[c] = "ending" /\ deferred
  /\ deferred' = FALSE
  /\ Goto(c, "applying")
  /\ UNCHANGED <<clients, cache, executing, deferring, sess, pages, ns, owner>>

\* Mutant: the deferred change is taken, but the cache is kept.
KeepCache(c) ==
  /\ pc[c] = "applying"
  /\ Release(c) /\ UNCHANGED discovered

\* ... and applied, by the worker thread: the event loop may run in between.
DropCache(c) ==
  /\ pc[c] = "applying"
  /\ discovered' = FALSE
  /\ Release(c)

(***************************************************************************)
(* notifications/mcpy/functions/list_changed.                              *)
(***************************************************************************)

ChangeList(s) ==
  /\ Live(s) /\ s \in Declares
  /\ version[s] < MaxVersion
  /\ version' = [version EXCEPT ![s] = @ + 1]
  /\ pending' = pending \cup {s}
  /\ UNCHANGED <<idOf, gone, handled, routed, cache, flags, calls, owner>>

Handle(s) ==
  /\ s \in pending /\ LoopIsFree
  /\ pending' = pending \ {s}
  /\ "inflight" \in Disturbances \/ \A c \in Calls : ~Awaiting(c)

Processed(s) == handled' = [handled EXCEPT ![s] = version[s]]

\* Mutant: None is stored instead of False.
InvalidateToNone(s) ==
  /\ Handle(s) /\ Processed(s)
  /\ ~routed \/ ~executing
  /\ discovered' = None
  /\ UNCHANGED <<idOf, gone, version, routed, namespace, cachedId, flags, calls, owner>>

\* No script is running: the cache is invalidated at once.  As it stands the
\* server registers no handler, and the notification does nothing.
InvalidateNow(s) ==
  /\ Handle(s) /\ Processed(s)
  /\ ~routed \/ ~executing
  /\ discovered' = (discovered /\ ~routed)
  /\ UNCHANGED <<idOf, gone, version, routed, namespace, cachedId, flags, calls, owner>>

\* A script is running: the test of _script_executing ...
SeeExecuting(s) ==
  /\ routed /\ Handle(s)
  /\ executing
  /\ deferring' = deferring \cup {s}
  /\ UNCHANGED <<idOf, gone, version, handled, routed, cache, executing, deferred,
                 calls, owner>>

\* ... and the store that puts the update off.
SetDeferred(s) ==
  /\ s \in deferring
  /\ deferring' = deferring \ {s}
  /\ deferred' = TRUE
  /\ Processed(s)
  /\ UNCHANGED <<idOf, gone, version, pending, routed, cache, executing, calls, owner>>

Client(s) ==
  \/ \E i \in Ids : Connect(s, i)
  \/ Collect(s) \/ ChangeList(s)

Notification(s) ==
  InvalidateNow(s) \/ SeeExecuting(s) \/ SetDeferred(s)

Handler(c) ==
  \/ \E s \in Sessions : Hit(c, s) \/ NotSupported(c, s) \/ StartListing(c, s)
  \/ \E last \in BOOLEAN : Answer(c, last)
  \/ FinishListing(c) \/ ListingFails(c)
  \/ BeginScript(c) \/ NotExecuted(c)
  \/ ClearExecuting(c) \/ NothingDeferred(c) \/ TakeDeferred(c) \/ DropCache(c)

Next == \/ \E s \in Sessions : Client(s) \/ Notification(s)
        \/ \E c \in Calls : Handler(c)

Spec == Init /\ [][Next]_vars

-----------------------------------------------------------------------------

\* A script is given the callback functions of the session that called it,
\* and none of another client's: the session whose id is kept is the one
\* that populated the cache (server.py:132).
OwnFunctions ==
  \A c \in Calls : ns[c] # None => ns[c].owner = sess[c] /\ sess[c] \in Declares

\* A failed discovery is retried: a live client that declares callbacks is
\* never on record as having none.
FailureIsNotCached ==
  \A s \in Declares : Live(s) /\ ~Stale(s) /\ discovered => namespace # None

\* A change is put off: until the finally block has dropped the cache.
PutOff == deferred \/ \E c \in Calls : pc[c] = "applying"

\* A processed change is not forgotten: what the next call of the session
\* would be served from the cache is at least as new, or the cache will be
\* dropped when the running script ends.
ChangesAreSeen ==
  discovered /\ namespace # None =>
    \A s \in Sessions : Live(s) /\ ~Stale(s) /\ namespace.owner = s =>
      \/ PutOff
      \/ \A v \in namespace.seen : v >= handled[s]

\* What the server has heard of a client's changes: nothing, if the notice
\* reaches no handler.
Heard == IF routed THEN handled ELSE [s \in Sessions |-> 0]

\* The whole is CallbackDirectory: the cache cannot be told from asking the
\* client every time, save for the changes the server has not heard of and
\* those that are put off while a script runs.
Phase(c) ==
  IF Awaiting(c) THEN "asked"
  ELSE IF pc[c] \in {"executing", "ending", "applying"} THEN "running"
  ELSE pc[c]

Directory == INSTANCE CallbackDirectory
  WITH list <- version, heard <- Heard, late <- PutOff, running <- owner,
       phase <- [c \in Calls |-> Phase(c)], client <- sess, served <- ns

\* Every call of the tool is served a list of its own client.  From a server
\* that routes the change notice it is as new as what the server has heard,
\* or older only while a script runs that holds a change back; from the one
\* that is built it is some list its client has offered (server.py
\* _discover_rpc_functions, _on_functions_changed and the finally block of
\* tools/scripting.py).
ImplementsDirectory == Directory!Spec
=============================================================================
