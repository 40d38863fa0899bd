------------------------- MODULE RpcDiscoveryProofs -------------------------
(***************************************************************************)
(* Theorems about RpcDiscovery, for every number of sessions, addresses    *)
(* and calls and every number of list changes.                             *)
(*                                                                         *)
(* Which of the environment's disturbances break which promise is shown by *)
(* the runs; here each promise is proved from the absence of exactly those *)
(* that break it, and whatever the others do.  A server with one session   *)
(* meets neither "overlap" nor "reuse", and the server as it is built,     *)
(* which routes no change notice, neither "inflight" nor "split": for that *)
(* server nothing is assumed.  The arguments share the typing invariant    *)
(* TypeInv: only a client that declares callbacks is ever asked for its    *)
(* list, and only a routed server puts a change off.                       *)
(***************************************************************************)
EXTENDS RpcDiscovery, TLAPS

-----------------------------------------------------------------------------
(***************************************************************************)
(* Types.                                                                  *)
(***************************************************************************)

\* A call that awaits a list awaits it from a session that declares one.
Asked == \A c \in Calls : Awaiting(c) => sess[c] \in Declares

TypeInv == TypeOK /\ Asked /\ (deferring # {} => routed)

LEMMA InitTypeInv == Init => TypeInv
<1>1. 0 \in Versions
  BY DiscoveryAssumption DEF Versions
<1> QED
  BY <1>1 DEF Init, TypeInv, TypeOK, PCs, Asked, Awaiting

LEMMA NextTypeInv == TypeInv /\ [Next]_vars => TypeInv'
<1> SUFFICES ASSUME TypeInv, [Next]_vars PROVE TypeInv'
  OBVIOUS
<1> USE DiscoveryAssumption
<1> USE DEF TypeInv, TypeOK, PCs, Asked, Awaiting, Goto,
            clients, cache, flags, calls
<1>1. ASSUME NEW s \in Sessions, NEW i \in Ids, Connect(s, i)
      PROVE  TypeInv'
  BY <1>1 DEF Connect, UsedIds
<1>2. ASSUME NEW s \in Sessions, Collect(s)
      PROVE  TypeInv'
  BY <1>2 DEF Collect
<1>3. ASSUME NEW s \in Sessions, ChangeList(s)
      PROVE  TypeInv'
  <2>1. version[s] + 1 \in Versions
    BY <1>3 DEF ChangeList, Versions
  <2> QED BY <1>3, <2>1 DEF ChangeList
<1>4. ASSUME NEW s \in Sessions, InvalidateNow(s)
      PROVE  TypeInv'
  BY <1>4 DEF InvalidateNow, Handle, Processed
<1>5. ASSUME NEW s \in Sessions, SeeExecuting(s)
      PROVE  TypeInv'
  BY <1>5 DEF SeeExecuting, Handle
<1>6. ASSUME NEW s \in Sessions, SetDeferred(s)
      PROVE  TypeInv'
  BY <1>6 DEF SetDeferred, Processed
<1>7. ASSUME NEW c \in Calls, NEW s \in Sessions, Hit(c, s)
      PROVE  TypeInv'
  BY <1>7 DEF Hit, Arrives
<1>8. ASSUME NEW c \in Calls, NEW s \in Sessions, NotSupported(c, s)
      PROVE  TypeInv'
  BY <1>8 DEF NotSupported, Arrives
<1>9. ASSUME NEW c \in Calls, NEW s \in Sessions, StartListing(c, s)
      PROVE  TypeInv'
  BY <1>9 DEF StartListing, Arrives
<1>10. ASSUME NEW c \in Calls, NEW last \in BOOLEAN, Answer(c, last)
       PROVE  TypeInv'
  BY <1>10 DEF Answer
<1>11. ASSUME NEW c \in Calls, FinishListing(c)
       PROVE  TypeInv'
  <2>1. [owner |-> sess[c], seen |-> pages[c]] \in Namespaces
    BY <1>11 DEF FinishListing, Namespaces
  <2> QED BY <1>11, <2>1 DEF FinishListing
<1>12. ASSUME NEW c \in Calls, ListingFails(c)
       PROVE  TypeInv'
  BY <1>12 DEF ListingFails
<1>13. ASSUME NEW c \in Calls, BeginScript(c)
       PROVE  TypeInv'
  BY <1>13 DEF BeginScript
<1>14. ASSUME NEW c \in Calls, NotExecuted(c)
       PROVE  TypeInv'
  BY <1>14 DEF NotExecuted
<1>15. ASSUME NEW c \in Calls, ClearExecuting(c)
       PROVE  TypeInv'
  BY <1>15 DEF ClearExecuting
<1>16. ASSUME NEW c \in Calls, NothingDeferred(c)
       PROVE  TypeInv'
  BY <1>16 DEF NothingDeferred, Release
<1>17. ASSUME NEW c \in Calls, TakeDeferred(c)
       PROVE  TypeInv'
  BY <1>17 DEF TakeDeferred
<1>18. ASSUME NEW c \in Calls, DropCache(c)
       PROVE  TypeInv'
  BY <1>18 DEF DropCache, Release
<1>19. CASE UNCHANGED vars
  BY <1>19 DEF vars
<1> QED
  BY <1>1, <1>2, <1>3, <1>4, <1>5, <1>6, <1>7, <1>8, <1>9, <1>10, <1>11,
      <1>12, <1>13, <1>14, <1>15, <1>16, <1>17, <1>18, <1>19 DEF Next,
      Client, Notification, Handler

\* Every variable keeps the type TypeOK gives it: what the cache holds is a
\* list some client was really asked for (server.py _discover_rpc_functions).
THEOREM TypeCorrect == Spec => []TypeOK
<1>1. TypeInv => TypeOK
  BY DEF TypeInv
<1> QED BY <1>1, InitTypeInv, NextTypeInv, PTL DEF Spec

-----------------------------------------------------------------------------
(***************************************************************************)
(* The end of a script.                                                    *)
(***************************************************************************)

\* A call holds the lock from the start of its script to the end of its
\* finally block, and the flags are up only at the labels where they may be.
FlagsInv ==
  /\ \A c \in Calls : owner = c <=> pc[c] \in {"executing", "ending", "applying"}
  /\ executing => owner # None /\ pc[owner] = "executing"
  /\ deferring # {} => executing
  /\ deferred => owner # None /\ pc[owner] # "applying"

LEMMA NextFlagsInv ==
  ASSUME routed => "split" \notin Disturbances, TypeInv, FlagsInv, [Next]_vars
  PROVE  FlagsInv'
<1> USE DiscoveryAssumption
<1> USE DEF TypeInv, TypeOK, PCs, FlagsInv, Goto, clients, cache, flags, calls
<1>1. ASSUME NEW s \in Sessions, NEW i \in Ids, Connect(s, i)
      PROVE  FlagsInv'
  BY <1>1 DEF Connect, UsedIds
<1>2. ASSUME NEW s \in Sessions, Collect(s)
      PROVE  FlagsInv'
  BY <1>2 DEF Collect
<1>3. ASSUME NEW s \in Sessions, ChangeList(s)
      PROVE  FlagsInv'
  BY <1>3 DEF ChangeList
<1>4. ASSUME NEW s \in Sessions, InvalidateNow(s)
      PROVE  FlagsInv'
  BY <1>4 DEF InvalidateNow, Handle, Processed
<1>5. ASSUME NEW s \in Sessions, SeeExecuting(s)
      PROVE  FlagsInv'
  BY <1>5 DEF SeeExecuting, Handle
<1>6. ASSUME NEW s \in Sessions, SetDeferred(s)
      PROVE  FlagsInv'
  BY <1>6 DEF SetDeferred, Processed
<1>7. ASSUME NEW c \in Calls, NEW s \in Sessions, Hit(c, s)
      PROVE  FlagsInv'
  BY <1>7 DEF Hit, Arrives
<1>8. ASSUME NEW c \in Calls, NEW s \in Sessions, NotSupported(c, s)
      PROVE  FlagsInv'
  BY <1>8 DEF NotSupported, Arrives
<1>9. ASSUME NEW c \in Calls, NEW s \in Sessions, StartListing(c, s)
      PROVE  FlagsInv'
  BY <1>9 DEF StartListing, Arrives
<1>10. ASSUME NEW c \in Calls, NEW last \in BOOLEAN, Answer(c, last)
       PROVE  FlagsInv'
  BY <1>10 DEF Answer
<1>11. ASSUME NEW c \in Calls, FinishListing(c)
       PROVE  FlagsInv'
  BY <1>11 DEF FinishListing
<1>12. ASSUME NEW c \in Calls, ListingFails(c)
       PROVE  FlagsInv'
  BY <1>12 DEF ListingFails, Awaiting
<1>13. ASSUME NEW c \in Calls, BeginScript(c)
       PROVE  FlagsInv'
  BY <1>13 DEF BeginScript
<1>14. ASSUME NEW c \in Calls, NotExecuted(c)
       PROVE  FlagsInv'
  BY <1>14 DEF NotExecuted
<1>15. ASSUME NEW c \in Calls, ClearExecuting(c)
       PROVE  FlagsInv'
  BY <1>15 DEF ClearExecuting
<1>16. ASSUME NEW c \in Calls, NothingDeferred(c)
       PROVE  FlagsInv'
  BY <1>16 DEF NothingDeferred, Release
<1>17. ASSUME NEW c \in Calls, TakeDeferred(c)
       PROVE  FlagsInv'
  BY <1>17 DEF TakeDeferred
<1>18. ASSUME NEW c \in Calls, DropCache(c)
       PROVE  FlagsInv'
  BY <1>18 DEF DropCache, Release
<1>19. CASE UNCHANGED vars
  BY <1>19 DEF vars
<1> QED
  BY <1>1, <1>2, <1>3, <1>4, <1>5, <1>6, <1>7, <1>8, <1>9, <1>10, <1>11,
      <1>12, <1>13, <1>14, <1>15, <1>16, <1>17, <1>18, <1>19 DEF Next,
      Client, Notification, Handler

\* A change is put off to the end of the script that is running, never beyond.
DeferredUntilScriptEnds == deferred => owner # None

\* A change of the function list that arrives while a script runs is put off
\* to the end of that script and no further, provided the handler's test and
\* store are not separated by the worker's steps (server.py
\* _on_functions_changed, tools/scripting.py finally block).
THEOREM DeferralEnds ==
  ASSUME "split" \notin Disturbances
  PROVE  Spec => []DeferredUntilScriptEnds
<1>1. Init => FlagsInv
  BY DiscoveryAssumption DEF Init, FlagsInv
<1>2. TypeInv /\ FlagsInv /\ [Next]_vars => FlagsInv'
  BY NextFlagsInv
<1>3. FlagsInv => DeferredUntilScriptEnds
  BY DEF FlagsInv, DeferredUntilScriptEnds
<1> QED BY <1>1, <1>2, <1>3, InitTypeInv, NextTypeInv, PTL DEF Spec

-----------------------------------------------------------------------------
(***************************************************************************)
(* Whose functions.                                                        *)
(***************************************************************************)

\* The sessions keep apart: there is one, or no call of another comes in
\* during a discovery and no address is given out twice.
Apart ==
  \/ \A s, t \in Sessions : s = t
  \/ "overlap" \notin Disturbances /\ "reuse" \notin Disturbances

\* Addresses tell live sessions apart; a call that awaits its list keeps the
\* cache keyed to its own session; and a filled cache belongs to the live
\* session that bears the cached address, if there is one.
OwnerInv ==
  /\ \A s, t \in Sessions : Live(s) /\ idOf[s] = idOf[t] => s = t
  /\ \A c \in Calls : Awaiting(c) => Live(sess[c]) /\ idOf[sess[c]] = cachedId
  /\ \A c \in Calls : pc[c] = "new" => ns[c] = None
  /\ namespace # None =>
       /\ namespace.owner \in Declares
       /\ \A s \in Sessions : Live(s) /\ idOf[s] = cachedId => s = namespace.owner
  /\ "reuse" \in Disturbances =>
       \A s \in Sessions : Live(s) \/ s \in gone \/ cachedId = None
  /\ OwnFunctions
  /\ FailureIsNotCached

LEMMA NextOwnerInv ==
  ASSUME Apart, TypeInv, OwnerInv, [Next]_vars
  PROVE  OwnerInv'
<1> USE DiscoveryAssumption
<1> USE DEF TypeInv, TypeOK, PCs, Asked, Awaiting, OwnerInv, Live, OwnFunctions,
            FailureIsNotCached, Stale, Goto, Apart, clients, cache, flags, calls
<1>1. ASSUME NEW s \in Sessions, NEW i \in Ids, Connect(s, i)
      PROVE  OwnerInv'
  BY <1>1 DEF Connect, UsedIds
<1>2. ASSUME NEW s \in Sessions, Collect(s)
      PROVE  OwnerInv'
  BY <1>2 DEF Collect
<1>3. ASSUME NEW s \in Sessions, ChangeList(s)
      PROVE  OwnerInv'
  BY <1>3 DEF ChangeList
<1>4. ASSUME NEW s \in Sessions, InvalidateNow(s)
      PROVE  OwnerInv'
  BY <1>4 DEF InvalidateNow, Handle, Processed
<1>5. ASSUME NEW s \in Sessions, SeeExecuting(s)
      PROVE  OwnerInv'
  BY <1>5 DEF SeeExecuting, Handle
<1>6. ASSUME NEW s \in Sessions, SetDeferred(s)
      PROVE  OwnerInv'
  BY <1>6 DEF SetDeferred, Processed
<1>7. ASSUME NEW c \in Calls, NEW s \in Sessions, Hit(c, s)
      PROVE  OwnerInv'
  BY <1>7 DEF Hit, Arrives
<1>8. ASSUME NEW c \in Calls, NEW s \in Sessions, NotSupported(c, s)
      PROVE  OwnerInv'
  BY <1>8 DEF NotSupported, Arrives
<1>9. ASSUME NEW c \in Calls, NEW s \in Sessions, StartListing(c, s)
      PROVE  OwnerInv'
  BY <1>9 DEF StartListing, Arrives
<1>10. ASSUME NEW c \in Calls, NEW last \in BOOLEAN, Answer(c, last)
       PROVE  OwnerInv'
  BY <1>10 DEF Answer
<1>11. ASSUME NEW c \in Calls, FinishListing(c)
       PROVE  OwnerInv'
  <2>1. Live(sess[c]) /\ idOf[sess[c]] = cachedId /\ sess[c] \in Declares
    BY <1>11 DEF FinishListing
  <2>2. namespace'.owner = sess[c] /\ ns'[c] = namespace'
    BY <1>11 DEF FinishListing
  <2>3. namespace' # None
    BY <1>11, <2>1, NoneAssumption DEF FinishListing, Namespaces
  <2>4. UNCHANGED <<idOf, cachedId, sess>>
    BY <1>11 DEF FinishListing
  <2>5. \A d \in Calls : ns'[d] = IF d = c THEN namespace' ELSE ns[d]
    BY <1>11 DEF FinishListing
  <2>6. \A d \in Calls : pc'[d] = IF d = c THEN "ready" ELSE pc[d]
    BY <1>11 DEF FinishListing
  <2> QED BY <2>1, <2>2, <2>3, <2>4, <2>5, <2>6
<1>12. ASSUME NEW c \in Calls, ListingFails(c)
       PROVE  OwnerInv'
  BY <1>12 DEF ListingFails
<1>13. ASSUME NEW c \in Calls, BeginScript(c)
       PROVE  OwnerInv'
  BY <1>13 DEF BeginScript
<1>14. ASSUME NEW c \in Calls, NotExecuted(c)
       PROVE  OwnerInv'
  BY <1>14 DEF NotExecuted
<1>15. ASSUME NEW c \in Calls, ClearExecuting(c)
       PROVE  OwnerInv'
  BY <1>15 DEF ClearExecuting
<1>16. ASSUME NEW c \in Calls, NothingDeferred(c)
       PROVE  OwnerInv'
  BY <1>16 DEF NothingDeferred, Release
<1>17. ASSUME NEW c \in Calls, TakeDeferred(c)
       PROVE  OwnerInv'
  BY <1>17 DEF TakeDeferred
<1>18. ASSUME NEW c \in Calls, DropCache(c)
       PROVE  OwnerInv'
  BY <1>18 DEF DropCache, Release
<1>19. CASE UNCHANGED vars
  BY <1>19 DEF vars
<1> QED
  BY <1>1, <1>2, <1>3, <1>4, <1>5, <1>6, <1>7, <1>8, <1>9, <1>10, <1>11,
      <1>12, <1>13, <1>14, <1>15, <1>16, <1>17, <1>18, <1>19 DEF Next,
      Client, Notification, Handler

\* No script is ever given the callbacks of another client, as long as there
\* is one session, or no other session's call comes in during a discovery and
\* no session is given the address of a collected one (server.py
\* _discover_rpc_functions).
THEOREM OwnFunctionsOnly ==
  ASSUME Apart
  PROVE  Spec => []OwnFunctions
<1>1. Init => OwnerInv
  BY DEF Init, OwnerInv, Live, Awaiting, OwnFunctions, FailureIsNotCached
<1>2. TypeInv /\ OwnerInv /\ [Next]_vars => OwnerInv'
  BY NextOwnerInv
<1>3. OwnerInv => OwnFunctions
  BY DEF OwnerInv
<1> QED BY <1>1, <1>2, <1>3, InitTypeInv, NextTypeInv, PTL DEF Spec

\* Under the same provisos a live client that declares callbacks is never on
\* record as having none: a failed discovery is retried.
THEOREM FailureRetried ==
  ASSUME Apart
  PROVE  Spec => []FailureIsNotCached
<1>1. Init => OwnerInv
  BY DEF Init, OwnerInv, Live, Awaiting, OwnFunctions, FailureIsNotCached
<1>2. TypeInv /\ OwnerInv /\ [Next]_vars => OwnerInv'
  BY NextOwnerInv
<1>3. OwnerInv => FailureIsNotCached
  BY DEF OwnerInv
<1> QED BY <1>1, <1>2, <1>3, InitTypeInv, NextTypeInv, PTL DEF Spec

-----------------------------------------------------------------------------
(***************************************************************************)
(* Which version.                                                          *)
(***************************************************************************)

\* What a routed server has heard of is older than the client's list and than
\* every page of a discovery under way, which no change interrupts; a filled
\* cache is as new as the last change it has heard of, or is about to be
\* dropped.
ChangesInv ==
  /\ \A s \in Sessions : handled[s] =< version[s]
  /\ deferring # {} => \A c \in Calls : ~Awaiting(c)
  /\ \A c \in Calls : pc[c] = "new" => pages[c] = {}
  /\ routed =>
       /\ \A c \in Calls : Awaiting(c) => \A v \in pages[c] : v >= handled[sess[c]]
       /\ discovered /\ namespace # None /\ ~PutOff =>
            \A v \in namespace.seen : v >= handled[namespace.owner]

LEMMA NextChangesInv ==
  ASSUME routed => "inflight" \notin Disturbances, TypeInv, ChangesInv, [Next]_vars
  PROVE  ChangesInv'
<1> USE DiscoveryAssumption
<1> USE DEF TypeInv, TypeOK, PCs, Versions, Namespaces, Asked, Awaiting, LoopIsFree,
            ChangesInv, PutOff, Goto, clients, cache, flags, calls
<1>1. ASSUME NEW s \in Sessions, NEW i \in Ids, Connect(s, i)
      PROVE  ChangesInv'
  BY <1>1 DEF Connect, UsedIds
<1>2. ASSUME NEW s \in Sessions, Collect(s)
      PROVE  ChangesInv'
  BY <1>2 DEF Collect
<1>3. ASSUME NEW s \in Sessions, ChangeList(s)
      PROVE  ChangesInv'
  BY <1>3 DEF ChangeList
<1>4. ASSUME NEW s \in Sessions, InvalidateNow(s)
      PROVE  ChangesInv'
  BY <1>4 DEF InvalidateNow, Handle, Processed
<1>5. ASSUME NEW s \in Sessions, SeeExecuting(s)
      PROVE  ChangesInv'
  BY <1>5 DEF SeeExecuting, Handle
<1>6. ASSUME NEW s \in Sessions, SetDeferred(s)
      PROVE  ChangesInv'
  BY <1>6 DEF SetDeferred, Processed
<1>7. ASSUME NEW c \in Calls, NEW s \in Sessions, Hit(c, s)
      PROVE  ChangesInv'
  BY <1>7 DEF Hit, Arrives
<1>8. ASSUME NEW c \in Calls, NEW s \in Sessions, NotSupported(c, s)
      PROVE  ChangesInv'
  BY <1>8 DEF NotSupported, Arrives
<1>9. ASSUME NEW c \in Calls, NEW s \in Sessions, StartListing(c, s)
      PROVE  ChangesInv'
  BY <1>9 DEF StartListing, Arrives
<1>10. ASSUME NEW c \in Calls, NEW last \in BOOLEAN, Answer(c, last)
       PROVE  ChangesInv'
  BY <1>10 DEF Answer
<1>11. ASSUME NEW c \in Calls, FinishListing(c)
       PROVE  ChangesInv'
  BY <1>11 DEF FinishListing
<1>12. ASSUME NEW c \in Calls, ListingFails(c)
       PROVE  ChangesInv'
  BY <1>12 DEF ListingFails
<1>13. ASSUME NEW c \in Calls, BeginScript(c)
       PROVE  ChangesInv'
  BY <1>13 DEF BeginScript
<1>14. ASSUME NEW c \in Calls, NotExecuted(c)
       PROVE  ChangesInv'
  BY <1>14 DEF NotExecuted
<1>15. ASSUME NEW c \in Calls, ClearExecuting(c)
       PROVE  ChangesInv'
  BY <1>15 DEF ClearExecuting
<1>16. ASSUME NEW c \in Calls, NothingDeferred(c)
       PROVE  ChangesInv'
  BY <1>16 DEF NothingDeferred, Release
<1>17. ASSUME NEW c \in Calls, TakeDeferred(c)
       PROVE  ChangesInv'
  BY <1>17 DEF TakeDeferred
<1>18. ASSUME NEW c \in Calls, DropCache(c)
       PROVE  ChangesInv'
  BY <1>18 DEF DropCache, Release
<1>19. CASE UNCHANGED vars
  BY <1>19 DEF vars
<1> QED
  BY <1>1, <1>2, <1>3, <1>4, <1>5, <1>6, <1>7, <1>8, <1>9, <1>10, <1>11,
      <1>12, <1>13, <1>14, <1>15, <1>16, <1>17, <1>18, <1>19 DEF Next,
      Client, Notification, Handler

-----------------------------------------------------------------------------
(***************************************************************************)
(* The whole: RpcDiscovery implements CallbackDirectory.                   *)
(***************************************************************************)

\* What a list was seen in is never ahead of its client, and a discovery that
\* ends has seen a page; a call has no list before it is served one.
DirectoryInv ==
  /\ \A c \in Calls : pc[c] = "new" \/ Awaiting(c) => ns[c] = None
  /\ \A c \in Calls : pc[c] = "answered" => pages[c] # {}
  /\ \A c \in Calls : Awaiting(c) => \A v \in pages[c] : v =< version[sess[c]]
  /\ namespace # None =>
       /\ namespace.seen # {}
       /\ \A v \in namespace.seen : v =< version[namespace.owner]

LEMMA NextDirectoryInv ==
  ASSUME TypeInv, ChangesInv, DirectoryInv, [Next]_vars
  PROVE  DirectoryInv'
<1> USE DiscoveryAssumption
<1> USE DEF TypeInv, TypeOK, PCs, Versions, Namespaces, Asked, Awaiting, ChangesInv,
            DirectoryInv, Goto, clients, cache, flags, calls
<1>1. ASSUME NEW s \in Sessions, NEW i \in Ids, Connect(s, i)
      PROVE  DirectoryInv'
  BY <1>1 DEF Connect, UsedIds
<1>2. ASSUME NEW s \in Sessions, Collect(s)
      PROVE  DirectoryInv'
  BY <1>2 DEF Collect
<1>3. ASSUME NEW s \in Sessions, ChangeList(s)
      PROVE  DirectoryInv'
  BY <1>3 DEF ChangeList
<1>4. ASSUME NEW s \in Sessions, Notification(s)
      PROVE  DirectoryInv'
  BY <1>4 DEF Notification, InvalidateNow, SeeExecuting, SetDeferred, Handle, Processed
<1>5. ASSUME NEW c \in Calls, NEW s \in Sessions, Hit(c, s)
      PROVE  DirectoryInv'
  BY <1>5 DEF Hit, Arrives
<1>6. ASSUME NEW c \in Calls, NEW s \in Sessions, NotSupported(c, s)
      PROVE  DirectoryInv'
  BY <1>6 DEF NotSupported, Arrives
<1>7. ASSUME NEW c \in Calls, NEW s \in Sessions, StartListing(c, s)
      PROVE  DirectoryInv'
  BY <1>7 DEF StartListing, Arrives
<1>8. ASSUME NEW c \in Calls, NEW last \in BOOLEAN, Answer(c, last)
      PROVE  DirectoryInv'
  BY <1>8 DEF Answer
<1>9. ASSUME NEW c \in Calls, FinishListing(c)
      PROVE  DirectoryInv'
  BY <1>9 DEF FinishListing
<1>10. ASSUME NEW c \in Calls, ListingFails(c)
       PROVE  DirectoryInv'
  BY <1>10 DEF ListingFails
<1>11. ASSUME NEW c \in Calls,
               \/ BeginScript(c) \/ NotExecuted(c) \/ ClearExecuting(c)
               \/ NothingDeferred(c) \/ TakeDeferred(c) \/ DropCache(c)
       PROVE  DirectoryInv'
  BY <1>11 DEF BeginScript, NotExecuted, ClearExecuting, NothingDeferred,
                TakeDeferred, DropCache, Release
<1>12. CASE UNCHANGED vars
  BY <1>12 DEF vars
<1> QED
  BY <1>1, <1>2, <1>3, <1>4, <1>5, <1>6, <1>7, <1>8, <1>9, <1>10, <1>11, <1>12
     DEF Next, Client, Handler

\* A change is not handled while a client is asked for its list, nor its test
\* and store parted: of itself where no change is handled.
Calm == routed => "inflight" \notin Disturbances /\ "split" \notin Disturbances

\* All that the parts above establish.
WholeInv == Calm /\ TypeInv /\ FlagsInv /\ OwnerInv /\ ChangesInv /\ DirectoryInv

\* A call that comes to a new label is in the phase of that label, the others
\* stay in theirs.
LEMMA PhaseSteps ==
  ASSUME TypeInv, NEW c \in Calls, NEW label \in PCs, Goto(c, label)
  PROVE  /\ Phase(c)' = IF label \in {"listing", "answered"} THEN "asked"
                        ELSE IF label \in {"executing", "ending", "applying"}
                             THEN "running" ELSE label
         /\ \A d \in Calls \ {c} : Phase(d)' = Phase(d)
         /\ \A d \in Calls \ {c} : pc'[d] = pc[d]
         /\ pc'[c] = label
BY DEF TypeInv, TypeOK, PCs, Goto, Phase, Awaiting

\* A list whose versions its client has had is on offer.
LEMMA OnOffer ==
  ASSUME TypeInv, NEW l \in Namespaces, l.seen # {},
         \A v \in l.seen : v =< version[l.owner]
  PROVE  l \in Directory!Offers(l.owner)
<1>1. l = [owner |-> l.owner, seen |-> l.seen] /\ l.owner \in Sessions
  BY DEF Namespaces
<1>2. l.seen \in (SUBSET (0..version[l.owner])) \ {{}}
  BY <1>1, DiscoveryAssumption DEF TypeInv, TypeOK, Namespaces, Versions
<1> QED BY <1>1, <1>2 DEF Directory!Offers

\* Every step of the cache is a step of the directory or changes nothing it
\* knows of.
LEMMA StepsOfDirectory ==
  ASSUME WholeInv, [Next]_vars
  PROVE  [Directory!Next]_Directory!vars
<1> USE DiscoveryAssumption
<1> DEFINE Same == /\ UNCHANGED <<version, Heard, owner, sess, ns>>
                   /\ PutOff' = PutOff
                   /\ \A c \in Calls : Phase(c)' = Phase(c)
<1>0. UNCHANGED <<handled, routed>> => UNCHANGED Heard
  BY DEF Heard
<1>1. Calm /\ TypeInv /\ FlagsInv /\ OwnerInv /\ ChangesInv /\ DirectoryInv
  BY DEF WholeInv
<1>2. Same => UNCHANGED Directory!vars
  BY DEF Directory!vars
<1>3. ASSUME NEW s \in Sessions, (\E i \in Ids : Connect(s, i)) \/ Collect(s) \/ SeeExecuting(s)
      PROVE  Same
  BY <1>0, <1>3 DEF Connect, Collect, SeeExecuting, Handle, cache, calls, flags, PutOff,
              Phase, Awaiting
<1>4. ASSUME NEW s \in Sessions, ChangeList(s) PROVE Directory!Change(s)
  BY <1>0, <1>4 DEF ChangeList, Directory!Change, cache, calls, flags, PutOff, Phase, Awaiting
<1>5. ASSUME NEW s \in Sessions, InvalidateNow(s) \/ SetDeferred(s), routed
      PROVE  Directory!Hear(s)
  <2>1. UNCHANGED <<version, owner, sess, ns, pc, routed>>
    BY <1>5 DEF InvalidateNow, SetDeferred, cache, calls
  <2>2. handled' = [handled EXCEPT ![s] = version[s]]
    BY <1>5 DEF InvalidateNow, SetDeferred, Processed
  <2>3. Heard' = [Heard EXCEPT ![s] = version[s]]
    BY <1>5, <2>1, <2>2 DEF Heard
  <2>4. PutOff' \in {PutOff, owner # None}
    BY <1>1, <1>5, <2>1 DEF InvalidateNow, SetDeferred, FlagsInv, PutOff, flags, TypeInv, TypeOK
  <2> QED BY <2>1, <2>3, <2>4 DEF Directory!Hear, Phase, Awaiting
<1>5a. ASSUME NEW s \in Sessions, InvalidateNow(s) \/ SetDeferred(s), ~routed
       PROVE  Same
  <2>1. InvalidateNow(s)
    BY <1>1, <1>5a DEF SetDeferred, TypeInv
  <2>2. UNCHANGED <<version, owner, sess, ns, pc, routed, deferred>>
    BY <2>1 DEF InvalidateNow, flags, calls
  <2>3. UNCHANGED Heard
    BY <1>5a, <2>2 DEF Heard
  <2> QED BY <2>2, <2>3 DEF PutOff, Phase, Awaiting
<1>6. ASSUME NEW c \in Calls, NEW s \in Sessions, Hit(c, s) \/ NotSupported(c, s)
      PROVE  Directory!ServeAtOnce(c, s)
  <2> DEFINE l == IF Hit(c, s) THEN namespace ELSE None
  <2>1. /\ pc[c] = "new" /\ Goto(c, "ready") /\ Live(s)
        /\ sess' = [sess EXCEPT ![c] = s]
        /\ UNCHANGED <<version, Heard, owner, deferred>>
    BY <1>0, <1>6 DEF Hit, NotSupported, Arrives, flags, clients
  <2>2. ns' = [ns EXCEPT ![c] = l]
    BY <1>1, <1>6, <2>1 DEF Hit, NotSupported, DirectoryInv, TypeInv, TypeOK
  <2>3. l # None => /\ l \in Namespaces /\ l.owner = s /\ s \in Declares
                    /\ l.seen # {} /\ \A v \in l.seen : v =< version[s]
                    /\ PutOff \/ \A v \in l.seen : v >= Heard[s]
    BY <1>1, <2>1 DEF Hit, Stale, TypeInv, TypeOK, OwnerInv, DirectoryInv, ChangesInv, Heard,
               Versions, Namespaces
  <2>4. l = None => s \notin Declares
    BY <1>1, <1>6, <2>1 DEF Hit, NotSupported, OwnerInv, FailureIsNotCached
  <2>5. l \in Directory!Offers(s) \cup {None}
    BY <1>1, <2>3, OnOffer
  <2>6. l # None => PutOff \/ Directory!Current(l)
    BY <2>3 DEF Directory!Current
  <2>7. /\ Phase(c) = "new" /\ Phase(c)' = "ready"
        /\ \A d \in Calls \ {c} : Phase(d)' = Phase(d)
    BY <1>1, <2>1, PhaseSteps DEF Phase, Awaiting, PCs
  <2>8. PutOff' = PutOff
    BY <1>1, <2>1 DEF PutOff, Goto, TypeInv, TypeOK
  <2> HIDE DEF l
  <2> QED BY <2>1, <2>2, <2>3, <2>4, <2>5, <2>6, <2>7, <2>8
             DEF Directory!ServeAtOnce, Directory!Proceed
<1>7. ASSUME NEW c \in Calls, NEW s \in Sessions, StartListing(c, s)
      PROVE  Directory!Ask(c, s)
  <2>1. /\ pc[c] = "new" /\ Goto(c, "listing") /\ s \in Declares
        /\ sess' = [sess EXCEPT ![c] = s]
        /\ UNCHANGED <<version, Heard, owner, ns, deferred>>
    BY <1>0, <1>7 DEF StartListing, Arrives, clients, flags
  <2>2. /\ Phase(c) = "new" /\ Phase(c)' = "asked"
        /\ \A d \in Calls \ {c} : Phase(d)' = Phase(d)
    BY <1>1, <2>1, PhaseSteps DEF Phase, Awaiting, PCs
  <2>3. PutOff' = PutOff
    BY <1>1, <2>1 DEF PutOff, Goto, TypeInv, TypeOK
  <2> QED BY <2>1, <2>2, <2>3 DEF Directory!Ask, Directory!Proceed
<1>8. ASSUME NEW c \in Calls, NEW last \in BOOLEAN, Answer(c, last) PROVE Same
  <2>1. /\ pc[c] = "listing" /\ UNCHANGED <<version, Heard, owner, sess, ns, deferred>>
        /\ Goto(c, "answered") \/ Goto(c, "listing")
    BY <1>0, <1>8 DEF Answer, clients, flags
  <2>2. Phase(c) = "asked" /\ \A d \in Calls : Phase(d)' = Phase(d)
    BY <1>1, <2>1, PhaseSteps DEF Phase, Awaiting, PCs
  <2>3. PutOff' = PutOff
    BY <1>1, <2>1 DEF PutOff, Goto, TypeInv, TypeOK
  <2> QED BY <2>1, <2>2, <2>3
<1>9. ASSUME NEW c \in Calls, FinishListing(c) \/ ListingFails(c)
      PROVE  Directory!ServeAsked(c)
  <2> DEFINE l == IF FinishListing(c) THEN [owner |-> sess[c], seen |-> pages[c]] ELSE None
  <2>1. /\ Awaiting(c) /\ Goto(c, "ready")
        /\ UNCHANGED <<version, Heard, owner, sess, deferred>>
    BY <1>0, <1>9 DEF FinishListing, ListingFails, Awaiting, clients, flags
  <2>2. ns' = [ns EXCEPT ![c] = l]
    BY <1>1, <1>9, <2>1 DEF FinishListing, ListingFails, DirectoryInv, TypeInv, TypeOK
  <2>3. l # None => /\ l \in Namespaces /\ l.owner = sess[c]
                    /\ l.seen # {} /\ \A v \in l.seen : v =< version[sess[c]]
                    /\ \A v \in l.seen : v >= Heard[sess[c]]
    BY <1>1, <2>1 DEF FinishListing, TypeInv, TypeOK, Asked, Namespaces, DirectoryInv,
               ChangesInv, Heard, Versions
  <2>4. l \in Directory!Offers(sess[c]) \cup {None}
    BY <1>1, <2>3, OnOffer
  <2>5. l # None => Directory!Current(l)
    BY <2>3 DEF Directory!Current
  <2>6. /\ Phase(c) = "asked" /\ Phase(c)' = "ready"
        /\ \A d \in Calls \ {c} : Phase(d)' = Phase(d)
    BY <1>1, <2>1, PhaseSteps DEF Phase, PCs
  <2>7. PutOff' = PutOff
    BY <1>1, <2>1 DEF PutOff, Goto, Awaiting, TypeInv, TypeOK
  <2> HIDE DEF l
  <2> QED BY <2>1, <2>2, <2>4, <2>5, <2>6, <2>7
             DEF Directory!ServeAsked, Directory!Proceed
<1>10. ASSUME NEW c \in Calls, BeginScript(c) PROVE Directory!Run(c)
  <2>1. /\ pc[c] = "ready" /\ Goto(c, "executing") /\ owner = None /\ owner' = c
        /\ UNCHANGED <<version, Heard, sess, ns, deferred>>
    BY <1>0, <1>10 DEF BeginScript, clients
  <2>2. /\ Phase(c) = "ready" /\ Phase(c)' = "running"
        /\ \A d \in Calls \ {c} : Phase(d)' = Phase(d)
    BY <1>1, <2>1, PhaseSteps DEF Phase, Awaiting, PCs
  <2>3. PutOff' = PutOff
    BY <1>1, <2>1 DEF PutOff, Goto, TypeInv, TypeOK
  <2> QED BY <2>1, <2>2, <2>3 DEF Directory!Run, Directory!Proceed
<1>11. ASSUME NEW c \in Calls, NotExecuted(c) PROVE Directory!NotRun(c)
  <2>1. /\ pc[c] = "ready" /\ Goto(c, "done")
        /\ UNCHANGED <<version, Heard, owner, sess, ns, deferred>>
    BY <1>0, <1>11 DEF NotExecuted, clients, flags
  <2>2. /\ Phase(c) = "ready" /\ Phase(c)' = "done"
        /\ \A d \in Calls \ {c} : Phase(d)' = Phase(d)
    BY <1>1, <2>1, PhaseSteps DEF Phase, Awaiting, PCs
  <2>3. PutOff' = PutOff
    BY <1>1, <2>1 DEF PutOff, Goto, TypeInv, TypeOK
  <2> QED BY <2>1, <2>2, <2>3 DEF Directory!NotRun, Directory!Proceed
<1>12. ASSUME NEW c \in Calls, ClearExecuting(c) \/ TakeDeferred(c) PROVE Same
  <2>1. /\ UNCHANGED <<version, Heard, owner, sess, ns>>
        /\ \/ pc[c] = "executing" /\ Goto(c, "ending") /\ UNCHANGED deferred
           \/ pc[c] = "ending" /\ Goto(c, "applying") /\ deferred
    BY <1>0, <1>12 DEF ClearExecuting, TakeDeferred, clients
  <2>2. Phase(c) = "running" /\ \A d \in Calls : Phase(d)' = Phase(d)
    BY <1>1, <2>1, PhaseSteps DEF Phase, Awaiting, PCs
  <2>3. PutOff' = PutOff
    BY <1>1, <2>1 DEF PutOff, Goto, TypeInv, TypeOK
  <2> QED BY <2>1, <2>2, <2>3
<1>13. ASSUME NEW c \in Calls, NothingDeferred(c) \/ DropCache(c) PROVE Directory!End(c)
  <2>1. /\ pc[c] \in {"ending", "applying"} /\ Goto(c, "done") /\ owner' = None
        /\ UNCHANGED <<version, Heard, sess, ns, deferred>>
    BY <1>0, <1>13 DEF NothingDeferred, DropCache, Release, clients, flags
  <2>2. /\ Phase(c) = "running" /\ Phase(c)' = "done"
        /\ \A d \in Calls \ {c} : Phase(d)' = Phase(d)
    BY <1>1, <2>1, PhaseSteps DEF Phase, Awaiting, PCs
  <2>3. owner = c
    BY <1>1, <2>1 DEF FlagsInv
  <2>4. ~deferred
    BY <1>1, <1>13, <2>3 DEF FlagsInv, NothingDeferred, DropCache
  <2>5. PutOff' = FALSE
    BY <1>1, <2>1, <2>3, <2>4 DEF FlagsInv, PutOff, Goto, TypeInv, TypeOK
  <2> QED BY <2>1, <2>2, <2>3, <2>5 DEF Directory!End, Directory!Proceed
<1>14. ASSUME UNCHANGED vars PROVE Same
  BY <1>0, <1>14 DEF vars, clients, flags, calls, PutOff, Phase, Awaiting
<1> HIDE DEF Same
<1>15. CASE Next
  BY <1>15, <1>2, <1>3, <1>4, <1>5, <1>5a, <1>6, <1>7, <1>8, <1>9, <1>10, <1>11, <1>12, <1>13
     DEF Next, Client, Notification, Handler, Directory!Next
<1> QED BY <1>2, <1>14, <1>15

\* As long as its sessions keep apart, the server as it is built cannot be
\* told from one that asks the client every time and is never told of a
\* change; and one that routes the notices, none of them while a client is
\* asked, from one that knows of every change but those a running script holds
\* back.  Both for any number of clients, calls and changes (server.py
\* _discover_rpc_functions and _on_functions_changed, tools/scripting.py
\* finally block).
THEOREM DirectoryRefined ==
  ASSUME Apart
  PROVE  Spec /\ Calm => ImplementsDirectory
<1>1. Init /\ Calm => WholeInv
  <2>1. Init => FlagsInv /\ OwnerInv
    BY DiscoveryAssumption DEF Init, FlagsInv, OwnerInv, Live, Awaiting, OwnFunctions,
                               FailureIsNotCached
  <2>2. Init => ChangesInv /\ DirectoryInv
    BY DiscoveryAssumption DEF Init, ChangesInv, DirectoryInv, Versions, Awaiting
  <2> QED BY <2>1, <2>2, InitTypeInv DEF WholeInv
<1>2. WholeInv /\ [Next]_vars => WholeInv'
  <2> SUFFICES ASSUME WholeInv, [Next]_vars PROVE WholeInv'
    OBVIOUS
  <2>1. Calm /\ TypeInv /\ FlagsInv /\ OwnerInv /\ ChangesInv /\ DirectoryInv
    BY DEF WholeInv
  <2>2. UNCHANGED routed
    BY DEF Next, Client, Notification, Handler, Connect, Collect, ChangeList,
           InvalidateNow, SeeExecuting, SetDeferred, Hit, NotSupported, StartListing,
           Answer, FinishListing, ListingFails, BeginScript, NotExecuted,
           ClearExecuting, NothingDeferred, TakeDeferred, DropCache, Release,
           clients, vars
  <2>3. Calm'
    BY <2>1, <2>2 DEF Calm
  <2>4. TypeInv' /\ FlagsInv'
    BY <2>1, NextTypeInv, NextFlagsInv DEF Calm
  <2>5. OwnerInv' /\ ChangesInv' /\ DirectoryInv'
    BY <2>1, NextOwnerInv, NextChangesInv, NextDirectoryInv DEF Calm
  <2> QED BY <2>3, <2>4, <2>5 DEF WholeInv
<1>3. Init => Directory!Init
  BY DEF Init, Directory!Init, PutOff, Heard, Phase, Awaiting
<1>4. WholeInv /\ [Next]_vars => [Directory!Next]_Directory!vars
  BY StepsOfDirectory
<1> QED BY <1>1, <1>2, <1>3, <1>4, PTL DEF Spec, ImplementsDirectory, Directory!Spec
=============================================================================
