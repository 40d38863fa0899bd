----------------------- MODULE ScriptExecutionProofs -----------------------
(***************************************************************************)
(* Theorems about ScriptExecution, for every set of calls and of names.    *)
(*                                                                         *)
(* The session: who may touch the globals is decided by the lock, so the   *)
(* lock's owner is the one call past the acquire (LockInv), and a valid    *)
(* scope, an armed importer or a request in flight exist only inside the   *)
(* owner's run (SessionInv).  The safety properties and the refinement     *)
(* follow.  The captured output: a call nobody overlapped owns sys.stdout  *)
(* from the tee to its own restore, and no other call ever saved its tee   *)
(* (SoloInv).                                                              *)
(***************************************************************************)
EXTENDS ScriptExecution, TLAPS

\* The owner of the lock is the call between acquire and release.
LockInv == \A c \in Calls : lock = c <=> pc[c] \in Holding

\* The labels between injection and withdrawal.
Live == {"run", "calling", "cleanup"}

\* What is injected, armed or valid belongs to a call at one of them.
SessionInv ==
  /\ \A c \in Calls : scope[c] = "valid" => pc[c] \in Live
  /\ roots # {} => \E c \in Calls : pc[c] \in Live
  /\ \A c \in Calls : pc[c] \in Live \cup {"inject"} => globals # NoGlobals

\* A call that was turned away never holds the lock.
BusyInv == \A c \in Calls : outcome[c] = "busy" => pc[c] \in {"restore", "done"}

IInv == TypeOK /\ LockInv /\ BusyInv /\ SessionInv /\ CallbacksUseTheirOwnScope

-----------------------------------------------------------------------------

\* The first state: nothing runs, nothing is injected.
LEMMA InitIInv == Init => IInv
BY CallsAssumption
   DEF Init, IInv, TypeOK, LockInv, BusyInv, SessionInv, CallbacksUseTheirOwnScope,
       PCs, Holding, Live, Outcomes, Streams

\* Every statement of a call keeps the session invariant.
LEMMA NextIInv == IInv /\ [Next]_vars => IInv'
<1> SUFFICES ASSUME IInv, [Next]_vars PROVE IInv'
  OBVIOUS
<1> USE CallsAssumption, NamesAssumption
<1> USE DEF IInv, Goto, perCall, session, TypeOK, Holding, Live
<1>0. CASE UNCHANGED vars
  BY <1>0 DEF vars, LockInv, BusyInv, SessionInv, CallbacksUseTheirOwnScope
<1>1. ASSUME NEW c \in Calls, NEW p \in Calls \cup {NoCall},
            Enter(c, p)
     PROVE  IInv'
  <2>1. TypeOK'
    BY <1>1 DEF Enter, PCs, Streams
  <2>2. LockInv' /\ BusyInv'
    BY <1>1 DEF Enter, LockInv, BusyInv
  <2>3. SessionInv'
    BY <1>1 DEF Enter, LockInv, SessionInv
  <2>4. CallbacksUseTheirOwnScope'
    BY <1>1 DEF Enter, CallbacksUseTheirOwnScope
  <2> QED BY <2>1, <2>2, <2>3, <2>4
<1>2. ASSUME NEW c \in Calls, InstallTee(c) PROVE IInv'
  <2>1. TypeOK'
    BY <1>2 DEF InstallTee, PCs, Streams
  <2>2. LockInv' /\ BusyInv'
    BY <1>2 DEF InstallTee, LockInv, BusyInv
  <2>3. SessionInv'
    BY <1>2 DEF InstallTee, LockInv, SessionInv
  <2>4. CallbacksUseTheirOwnScope'
    BY <1>2 DEF InstallTee, CallbacksUseTheirOwnScope
  <2> QED BY <2>1, <2>2, <2>3, <2>4
<1>3. ASSUME NEW c \in Calls, AcquireLock(c) PROVE IInv'
  <2>1. TypeOK'
    BY <1>3 DEF AcquireLock, PCs
  <2>2. LockInv' /\ BusyInv'
    BY <1>3 DEF AcquireLock, LockInv, BusyInv
  <2>3. SessionInv'
    BY <1>3 DEF AcquireLock, LockInv, SessionInv
  <2>4. CallbacksUseTheirOwnScope'
    BY <1>3 DEF AcquireLock, CallbacksUseTheirOwnScope
  <2> QED BY <2>1, <2>2, <2>3, <2>4
<1>4. ASSUME NEW c \in Calls, RejectBusy(c) PROVE IInv'
  <2>1. TypeOK'
    BY <1>4 DEF RejectBusy, PCs, Outcomes, Streams
  <2>2. LockInv' /\ BusyInv'
    BY <1>4 DEF RejectBusy, LockInv, BusyInv
  <2>3. SessionInv'
    BY <1>4 DEF RejectBusy, LockInv, SessionInv
  <2>4. CallbacksUseTheirOwnScope'
    BY <1>4 DEF RejectBusy, CallbacksUseTheirOwnScope
  <2> QED BY <2>1, <2>2, <2>3, <2>4
<1>5. ASSUME NEW c \in Calls, BuildGlobals(c) PROVE IInv'
  <2>0. FreshGlobals \in [Names -> Values]
    BY DEF FreshGlobals, Values
  <2>1. TypeOK'
    BY <1>5, <2>0 DEF BuildGlobals, PCs
  <2>2. LockInv' /\ BusyInv'
    BY <1>5 DEF BuildGlobals, LockInv, BusyInv
  <2>3. SessionInv'
    BY <1>5, <2>0 DEF BuildGlobals, LockInv, SessionInv
  <2>4. CallbacksUseTheirOwnScope'
    BY <1>5 DEF BuildGlobals, CallbacksUseTheirOwnScope
  <2> QED BY <2>1, <2>2, <2>3, <2>4
<1>6. ASSUME NEW c \in Calls, FailBuild(c) PROVE IInv'
  <2>1. TypeOK'
    BY <1>6 DEF FailBuild, Fail, PCs, Outcomes
  <2>2. LockInv' /\ BusyInv'
    BY <1>6 DEF FailBuild, Fail, LockInv, BusyInv
  <2>3. SessionInv'
    BY <1>6 DEF FailBuild, Fail, LockInv, SessionInv
  <2>4. CallbacksUseTheirOwnScope'
    BY <1>6 DEF FailBuild, Fail, CallbacksUseTheirOwnScope
  <2> QED BY <2>1, <2>2, <2>3, <2>4
<1>7. ASSUME NEW c \in Calls, NEW available \in BOOLEAN, NEW selfBuilt \in BOOLEAN,
            NEW wire \in SUBSET Names,
            InjectGlobals(c, available, wire, selfBuilt)
     PROVE  IInv'
  <2>1. TypeOK'
    BY <1>7 DEF InjectGlobals, Place, Free, PCs, Values, SessionInv
  <2>2. LockInv' /\ BusyInv'
    BY <1>7 DEF InjectGlobals, LockInv, BusyInv
  <2>3. globals' # NoGlobals
    <3>1. globals' \in [Names -> Values]
      BY <1>7 DEF InjectGlobals, Values, SessionInv
    <3> QED BY <3>1
  <2>4. SessionInv'
    BY <1>7, <2>3 DEF InjectGlobals, SessionInv
  <2>5. CallbacksUseTheirOwnScope'
    BY <1>7 DEF InjectGlobals, CallbacksUseTheirOwnScope
  <2> QED BY <2>1, <2>2, <2>4, <2>5
<1>8. ASSUME NEW c \in Calls, FailInject(c) PROVE IInv'
  <2>1. TypeOK'
    BY <1>8 DEF FailInject, Fail, PCs, Outcomes
  <2>2. LockInv' /\ BusyInv'
    BY <1>8 DEF FailInject, Fail, LockInv, BusyInv
  <2>3. SessionInv'
    BY <1>8 DEF FailInject, Fail, LockInv, SessionInv
  <2>4. CallbacksUseTheirOwnScope'
    BY <1>8 DEF FailInject, Fail, CallbacksUseTheirOwnScope
  <2> QED BY <2>1, <2>2, <2>3, <2>4
<1>9. ASSUME NEW c \in Calls, CallbackReturns(c) PROVE IInv'
  <2>1. TypeOK'
    BY <1>9 DEF CallbackReturns, Resume, PCs
  <2>2. LockInv' /\ BusyInv'
    BY <1>9 DEF CallbackReturns, Resume, LockInv, BusyInv
  <2>3. SessionInv'
    BY <1>9 DEF CallbackReturns, Resume, LockInv, SessionInv
  <2>4. CallbacksUseTheirOwnScope'
    BY <1>9 DEF CallbackReturns, Resume, CallbacksUseTheirOwnScope
  <2> QED BY <2>1, <2>2, <2>3, <2>4
<1>10. ASSUME NEW c \in Calls, Cleanup(c) PROVE IInv'
  <2>1. TypeOK'
    BY <1>10 DEF Cleanup, PCs, Values, SessionInv
  <2>2. LockInv' /\ BusyInv'
    BY <1>10 DEF Cleanup, LockInv, BusyInv
  <2>3. SessionInv'
    BY <1>10 DEF Cleanup, LockInv, SessionInv
  <2>4. CallbacksUseTheirOwnScope'
    BY <1>10 DEF Cleanup, CallbacksUseTheirOwnScope
  <2> QED BY <2>1, <2>2, <2>3, <2>4
<1>11. ASSUME NEW c \in Calls, ReleaseLock(c) PROVE IInv'
  <2>1. TypeOK'
    BY <1>11 DEF ReleaseLock, PCs
  <2>2. LockInv' /\ BusyInv'
    BY <1>11 DEF ReleaseLock, LockInv, BusyInv
  <2>3. SessionInv'
    BY <1>11 DEF ReleaseLock, LockInv, SessionInv
  <2>4. CallbacksUseTheirOwnScope'
    BY <1>11 DEF ReleaseLock, CallbacksUseTheirOwnScope
  <2> QED BY <2>1, <2>2, <2>3, <2>4
<1>12. ASSUME NEW c \in Calls, CatchException(c) PROVE IInv'
  <2>1. TypeOK'
    BY <1>12 DEF CatchException, PCs, Streams
  <2>2. LockInv' /\ BusyInv'
    BY <1>12 DEF CatchException, LockInv, BusyInv
  <2>3. SessionInv'
    BY <1>12 DEF CatchException, LockInv, SessionInv
  <2>4. CallbacksUseTheirOwnScope'
    BY <1>12 DEF CatchException, CallbacksUseTheirOwnScope
  <2> QED BY <2>1, <2>2, <2>3, <2>4
<1>13. ASSUME NEW c \in Calls, RestoreStdout(c) PROVE IInv'
  <2>1. TypeOK'
    BY <1>13 DEF RestoreStdout, PCs, Streams
  <2>2. LockInv' /\ BusyInv'
    BY <1>13 DEF RestoreStdout, LockInv, BusyInv
  <2>3. SessionInv'
    BY <1>13 DEF RestoreStdout, LockInv, SessionInv
  <2>4. CallbacksUseTheirOwnScope'
    BY <1>13 DEF RestoreStdout, CallbacksUseTheirOwnScope
  <2> QED BY <2>1, <2>2, <2>3, <2>4
<1>14. ASSUME NEW c \in Calls, WriteText(c) PROVE IInv'
  <2>1. TypeOK'
    BY <1>14 DEF WriteText, Streams
  <2>2. LockInv' /\ BusyInv'
    BY <1>14 DEF WriteText, LockInv, BusyInv
  <2>3. SessionInv'
    BY <1>14 DEF WriteText, LockInv, SessionInv
  <2>4. CallbacksUseTheirOwnScope'
    BY <1>14 DEF WriteText, CallbacksUseTheirOwnScope
  <2> QED BY <2>1, <2>2, <2>3, <2>4
<1>15. ASSUME NEW c \in Calls, NEW n \in Names, CallCallback(c, n) PROVE IInv'
  <2>1. TypeOK'
    BY <1>15 DEF CallCallback, PCs
  <2>2. LockInv' /\ BusyInv'
    BY <1>15 DEF CallCallback, LockInv, BusyInv
  <2>3. SessionInv'
    BY <1>15 DEF CallCallback, LockInv, SessionInv
  <2>4. CallbacksUseTheirOwnScope'
    BY <1>15 DEF CallCallback, LockInv, SessionInv, CallbacksUseTheirOwnScope
  <2> QED BY <2>1, <2>2, <2>3, <2>4
<1>16. ASSUME NEW c \in Calls, NEW n \in Names, NEW v \in Values,
            Assign(c, n, v)
     PROVE  IInv'
  <2>1. TypeOK'
    BY <1>16 DEF Assign, Values, SessionInv
  <2>2. LockInv' /\ BusyInv'
    BY <1>16 DEF Assign, LockInv, BusyInv
  <2>3. SessionInv'
    BY <1>16 DEF Assign, LockInv, SessionInv
  <2>4. CallbacksUseTheirOwnScope'
    BY <1>16 DEF Assign, CallbacksUseTheirOwnScope
  <2> QED BY <2>1, <2>2, <2>3, <2>4
<1>17. ASSUME NEW c \in Calls, CallbackTimesOut(c) PROVE IInv'
  <2>1. TypeOK'
    BY <1>17 DEF CallbackTimesOut, Resume, PCs
  <2>2. LockInv' /\ BusyInv'
    BY <1>17 DEF CallbackTimesOut, Resume, LockInv, BusyInv
  <2>3. SessionInv'
    BY <1>17 DEF CallbackTimesOut, Resume, LockInv, SessionInv
  <2>4. CallbacksUseTheirOwnScope'
    BY <1>17 DEF CallbackTimesOut, Resume, CallbacksUseTheirOwnScope
  <2> QED BY <2>1, <2>2, <2>3, <2>4
<1>18. ASSUME NEW c \in Calls, NEW result \in {"value", "error", "escaped"},
            EndScript(c, result)
     PROVE  IInv'
  <2>1. TypeOK'
    BY <1>18 DEF EndScript, PCs, Outcomes, Streams
  <2>2. LockInv' /\ BusyInv'
    BY <1>18 DEF EndScript, LockInv, BusyInv
  <2>3. SessionInv'
    BY <1>18 DEF EndScript, LockInv, SessionInv
  <2>4. CallbacksUseTheirOwnScope'
    BY <1>18 DEF EndScript, CallbacksUseTheirOwnScope
  <2> QED BY <2>1, <2>2, <2>3, <2>4
<1> QED BY <1>0, <1>1, <1>2, <1>3, <1>4, <1>5, <1>6, <1>7, <1>8, <1>9,
           <1>10, <1>11, <1>12, <1>13, <1>14, <1>15, <1>16, <1>17, <1>18
           DEF Next, Step, Script, EndsScript

\* The session invariant holds of every execution.
LEMMA SessionTheorem == Spec => []IInv
BY InitIInv, NextIInv, PTL DEF Spec

\* The type invariant: every variable keeps to its declared range.
THEOREM TypeCorrect == Spec => []TypeOK
BY SessionTheorem, PTL DEF IInv

\* Two scripts never run at once: two calls are not both between the
\* acquisition and the release of _script_lock.
THEOREM OneScriptAtATime ==
  Spec => [](\A c, d \in Calls : pc[c] \in Holding /\ pc[d] \in Holding => c = d)
<1>1. IInv => \A c, d \in Calls : pc[c] \in Holding /\ pc[d] \in Holding => c = d
  BY DEF IInv, LockInv
<1> QED BY <1>1, SessionTheorem, PTL

\* A script's request to the client leaves under its own execution's scope,
\* whatever handles the session variables hold.
THEOREM ScopesAreRespected == Spec => []CallbacksUseTheirOwnScope
BY SessionTheorem, PTL DEF IInv

\* Between executions the importer is disarmed and no callback is alive.
THEOREM NothingLiveBetweenExecutions == Spec => []NoLiveCallbackBetweenExecutions
<1>1. IInv => NoLiveCallbackBetweenExecutions
  BY CallsAssumption
     DEF IInv, TypeOK, LockInv, SessionInv, Live, Holding, Values,
         NoLiveCallbackBetweenExecutions
<1> QED BY <1>1, SessionTheorem, PTL

-----------------------------------------------------------------------------

\* A session variable is lost to nothing but a script, a reset or the
\* withdrawal of a name that was injected.
THEOREM SessionLossTheorem == Spec => SessionLossIsDeliberate
<1>1. ASSUME IInv, [Next]_vars PROVE [LossIsDeliberate]_vars
  <2> SUFFICES ASSUME NEW n \in Names, globals # NoGlobals, globals[n] = Own,
                      globals'[n] # Own
               PROVE  \E c \in Calls :
                        /\ lock = c
                        /\ \/ pc[c] \in {"run", "build"}
                           \/ pc[c] = "cleanup" /\ n \in injected[c]
    BY DEF LossIsDeliberate
  <2> USE <1>1 DEF IInv, LockInv, Holding, TypeOK
  <2>1. CASE UNCHANGED globals
    BY <2>1
  <2>2. ASSUME NEW c \in Calls, BuildGlobals(c) PROVE lock = c /\ pc[c] = "build"
    BY <2>2 DEF BuildGlobals
  <2>3. ASSUME NEW c \in Calls, NEW available \in BOOLEAN, NEW selfBuilt \in BOOLEAN,
               NEW wire \in SUBSET Names, InjectGlobals(c, available, wire, selfBuilt)
        PROVE  FALSE
    BY <2>3 DEF InjectGlobals, Place, Free, Own, Unbound
  <2>4. ASSUME NEW c \in Calls, NEW m \in Names, NEW v \in Values, Assign(c, m, v)
        PROVE  lock = c /\ pc[c] = "run"
    BY <2>4 DEF Assign
  <2>5. ASSUME NEW c \in Calls, Cleanup(c)
        PROVE  lock = c /\ pc[c] = "cleanup" /\ n \in injected[c]
    BY <2>5 DEF Cleanup
  <2>6. ASSUME NEW c \in Calls,
               \/ \E p \in Calls \cup {NoCall} : Enter(c, p)
               \/ InstallTee(c) \/ AcquireLock(c) \/ RejectBusy(c)
               \/ FailBuild(c) \/ FailInject(c) \/ CallbackReturns(c)
               \/ ReleaseLock(c) \/ CatchException(c) \/ RestoreStdout(c)
               \/ WriteText(c) \/ \E m \in Names : CallCallback(c, m)
               \/ CallbackTimesOut(c) \/ EndsScript(c)
        PROVE  UNCHANGED globals
    BY <2>6 DEF Enter, InstallTee, AcquireLock, RejectBusy, FailBuild, FailInject, Fail,
                CallbackReturns, Resume, ReleaseLock, CatchException, RestoreStdout,
                WriteText, CallCallback, CallbackTimesOut, EndsScript, EndScript, session
  <2>7. CASE UNCHANGED vars
    BY <2>1, <2>7 DEF vars, session
  <2> QED BY <2>1, <2>2, <2>3, <2>4, <2>5, <2>6, <2>7 DEF Next, Step, Script
<1> QED BY <1>1, SessionTheorem, PTL DEF Spec, SessionLossIsDeliberate

\* The session implements the single-flight promise: calls begin, end and
\* are turned away as SingleFlight says, every other step is invisible.
THEOREM Refinement == Spec => ImplementsSingleFlight
<1>1. Init => SF!Init
  BY DEF Init, SF!Init, Status
<1>2. ASSUME IInv, [Next]_vars PROVE [SF!Next]_SF!vars
  <2> USE <1>2, CallsAssumption DEF IInv, TypeOK, LockInv, BusyInv, Holding, Goto
  <2>1. ASSUME NEW c \in Calls, AcquireLock(c) PROVE SF!Begin(c)
    <3>1. /\ Status(c) = "waiting" /\ Status(c)' = "running"
          /\ \A d \in Calls \ {c} : Status(d)' = Status(d)
      BY <2>1 DEF AcquireLock, perCall, Status
    <3> QED BY <2>1, <3>1 DEF AcquireLock, SF!Begin
  <2>2. ASSUME NEW c \in Calls, RejectBusy(c) PROVE SF!Reject(c)
    <3>1. /\ Status(c) = "waiting" /\ Status(c)' = "rejected"
          /\ \A d \in Calls \ {c} : Status(d)' = Status(d)
      BY <2>2 DEF RejectBusy, Status
    <3> QED BY <2>2, <3>1 DEF RejectBusy, SF!Reject, session
  <2>3. ASSUME NEW c \in Calls, ReleaseLock(c) PROVE SF!End(c)
    <3>1. /\ Status(c) = "running" /\ Status(c)' = "finished"
          /\ \A d \in Calls \ {c} : Status(d)' = Status(d)
      BY <2>3 DEF ReleaseLock, perCall, Status
    <3> QED BY <2>3, <3>1 DEF ReleaseLock, SF!End
  <2>4. ASSUME NEW c \in Calls,
               \/ \E p \in Calls \cup {NoCall} : Enter(c, p)
               \/ InstallTee(c) \/ BuildGlobals(c) \/ FailBuild(c) \/ FailInject(c)
               \/ \E available, selfBuilt \in BOOLEAN, wire \in SUBSET Names :
                     InjectGlobals(c, available, wire, selfBuilt)
               \/ CallbackReturns(c) \/ Cleanup(c) \/ CatchException(c)
               \/ RestoreStdout(c) \/ Script(c) \/ EndsScript(c)
        PROVE  lock' = lock /\ \A d \in Calls : Status(d)' = Status(d)
    BY <2>4 DEF Enter, InstallTee, BuildGlobals, FailBuild, FailInject, Fail,
                InjectGlobals, CallbackReturns, Resume, Cleanup, CatchException,
                RestoreStdout, Script, WriteText, CallCallback, Assign, CallbackTimesOut,
                EndsScript, EndScript, perCall, session, Status
  <2>5. CASE UNCHANGED vars
    BY <2>5 DEF vars, perCall, session, Status, SF!vars
  <2> QED BY <2>1, <2>2, <2>3, <2>4, <2>5 DEF Next, Step, SF!Next, SF!vars
<1> QED BY <1>1, <1>2, SessionTheorem, PTL DEF Spec, ImplementsSingleFlight, SF!Spec

-----------------------------------------------------------------------------

\* The labels at which a call's tee is installed.
Teed == {"tee", "catch", "restore"} \cup Holding

\* Before its tee is installed nobody can have seen or saved it, and a
\* finished call saves nothing.
TeeIsFresh ==
  /\ \A c \in Calls : pc[c] \in {"new", "saved"} =>
       stdout # c /\ written[c] = {} /\ \A d \in Calls : saved[d] # c
  /\ \A d \in Calls : ~Active(d) => saved[d] = Terminal

\* A call nobody overlapped is alone, owns sys.stdout, and leaves no trace.
SoloOwnsStdout == \A c \in Calls : solo[c] =>
  /\ Active(c) => \A d \in Calls \ {c} : ~Active(d)
  /\ pc[c] \in Teed => stdout = c
  /\ pc[c] = "done" => stdout # c
  /\ \A d \in Calls : saved[d] # c
  /\ written[c] \subseteq {c}
  /\ \A s \in Streams \ {c} : c \notin written[s]

\* When the reply is taken, and that it is the tee's content.
ReplyInv ==
  /\ \A c \in Calls : pc[c] \in {"cleanup", "release"} =>
       outcome[c] \in {"value", "error", "escaped"}
  /\ \A c \in Calls : pc[c] \in {"new", "saved", "tee", "build", "inject", "run", "calling"} =>
       outcome[c] = "none"
  /\ \A c \in Calls :
       solo[c] /\ outcome[c] # "escaped" /\ (outcome[c] = "value" \/ pc[c] \in {"restore", "done"})
         => reply[c] = written[c]

OutputInv == TeeIsFresh /\ SoloOwnsStdout /\ ReplyInv

\* The first state: every tee is fresh.
LEMMA InitOutputInv == Init => OutputInv
BY CallsAssumption
   DEF Init, OutputInv, TeeIsFresh, SoloOwnsStdout, ReplyInv, Active, Teed, Holding, Streams

\* Every statement of a call keeps the output invariant.
LEMMA NextOutputInv == IInv /\ OutputInv /\ [Next]_vars => OutputInv'
<1> SUFFICES ASSUME IInv, OutputInv, [Next]_vars PROVE OutputInv'
  OBVIOUS
<1> USE CallsAssumption
<1> USE DEF IInv, OutputInv, Goto, perCall, session, TypeOK, Holding, Teed, Active
<1>0. CASE UNCHANGED vars
  BY <1>0 DEF vars, TeeIsFresh, SoloOwnsStdout, ReplyInv
<1>1. ASSUME NEW c \in Calls, NEW p \in Calls \cup {NoCall},
            Enter(c, p)
     PROVE  OutputInv'
  <2>1. TeeIsFresh'
    <3>1. ASSUME NEW e \in Calls, pc'[e] \in {"new", "saved"}
          PROVE  stdout' # e /\ written'[e] = {} /\ \A d \in Calls : saved'[d] # e
      <4>1. pc[e] \in {"new", "saved"}
        BY <1>1, <3>1 DEF Enter
      <4> QED BY <1>1, <4>1 DEF Enter, TeeIsFresh
    <3>2. ASSUME NEW d \in Calls, ~Active(d)' PROVE saved'[d] = Terminal
      BY <1>1, <3>2 DEF Enter, TeeIsFresh
    <3> QED BY <3>1, <3>2 DEF TeeIsFresh
  <2>2. SoloOwnsStdout'
    <3> SUFFICES ASSUME NEW e \in Calls, solo'[e]
                 PROVE  /\ Active(e)' => \A d \in Calls \ {e} : ~Active(d)'
                        /\ pc'[e] \in Teed => stdout' = e
                        /\ pc'[e] = "done" => stdout' # e
                        /\ \A d \in Calls : saved'[d] # e
                        /\ written'[e] \subseteq {e}
                        /\ \A s \in Streams \ {e} : e \notin written'[s]
      BY DEF SoloOwnsStdout
    <3>1. solo'[e] = (solo[e] /\ (IF e = c THEN \A d \in Calls : ~Active(d)
                                          ELSE ~Active(e)))
      BY <1>1, Zenon DEF Enter
    <3>2. solo[e] /\ ~Active(e) /\ (e = c => \A d \in Calls : ~Active(d))
      BY <3>1, Zenon DEF Enter
    <3>3. /\ stdout # e /\ \A d \in Calls : saved[d] # e
          /\ written[e] \subseteq {e} /\ \A s \in Streams \ {e} : e \notin written[s]
      BY <3>2 DEF TeeIsFresh, SoloOwnsStdout
    <3>4. /\ stdout' = stdout /\ written' = written
          /\ \A d \in Calls : saved'[d] \in {saved[d], stdout}
      BY <1>1 DEF Enter
    <3>5. Active(e)' => \A d \in Calls \ {e} : ~Active(d)'
      BY <1>1, <3>2 DEF Enter
    <3>6. pc'[e] \notin Teed
      BY <1>1, <3>2 DEF Enter
    <3> QED BY <3>3, <3>4, <3>5, <3>6
  <2>3. ReplyInv'
    BY <1>1 DEF Enter, SoloOwnsStdout, ReplyInv
  <2> QED BY <2>1, <2>2, <2>3
<1>2. ASSUME NEW c \in Calls, InstallTee(c) PROVE OutputInv'
  <2>1. TeeIsFresh'
    BY <1>2 DEF InstallTee, TeeIsFresh
  <2>2. SoloOwnsStdout'
    BY <1>2 DEF InstallTee, TeeIsFresh, SoloOwnsStdout
  <2>3. ReplyInv'
    BY <1>2 DEF InstallTee, SoloOwnsStdout, ReplyInv
  <2> QED BY <2>1, <2>2, <2>3
<1>3. ASSUME NEW c \in Calls, AcquireLock(c) PROVE OutputInv'
  <2>1. TeeIsFresh'
    BY <1>3 DEF AcquireLock, TeeIsFresh
  <2>2. SoloOwnsStdout'
    BY <1>3 DEF AcquireLock, TeeIsFresh, SoloOwnsStdout
  <2>3. ReplyInv'
    BY <1>3 DEF AcquireLock, SoloOwnsStdout, ReplyInv
  <2> QED BY <2>1, <2>2, <2>3
<1>4. ASSUME NEW c \in Calls, RejectBusy(c) PROVE OutputInv'
  <2>1. TeeIsFresh'
    BY <1>4 DEF RejectBusy, TeeIsFresh
  <2>2. SoloOwnsStdout'
    BY <1>4 DEF RejectBusy, TeeIsFresh, SoloOwnsStdout
  <2>3. ReplyInv'
    BY <1>4 DEF RejectBusy, SoloOwnsStdout, ReplyInv
  <2> QED BY <2>1, <2>2, <2>3
<1>5. ASSUME NEW c \in Calls, BuildGlobals(c) PROVE OutputInv'
  <2>1. TeeIsFresh'
    BY <1>5 DEF BuildGlobals, TeeIsFresh
  <2>2. SoloOwnsStdout'
    BY <1>5 DEF BuildGlobals, TeeIsFresh, SoloOwnsStdout
  <2>3. ReplyInv'
    BY <1>5 DEF BuildGlobals, SoloOwnsStdout, ReplyInv
  <2> QED BY <2>1, <2>2, <2>3
<1>6. ASSUME NEW c \in Calls, FailBuild(c) PROVE OutputInv'
  <2>1. TeeIsFresh'
    BY <1>6 DEF FailBuild, Fail, TeeIsFresh
  <2>2. SoloOwnsStdout'
    BY <1>6 DEF FailBuild, Fail, TeeIsFresh, SoloOwnsStdout
  <2>3. ReplyInv'
    BY <1>6 DEF FailBuild, Fail, SoloOwnsStdout, ReplyInv
  <2> QED BY <2>1, <2>2, <2>3
<1>7. ASSUME NEW c \in Calls, NEW available \in BOOLEAN, NEW selfBuilt \in BOOLEAN,
            NEW wire \in SUBSET Names,
            InjectGlobals(c, available, wire, selfBuilt)
     PROVE  OutputInv'
  <2>1. TeeIsFresh'
    BY <1>7 DEF InjectGlobals, Place, Free, TeeIsFresh
  <2>2. SoloOwnsStdout'
    BY <1>7 DEF InjectGlobals, Place, Free, TeeIsFresh, SoloOwnsStdout
  <2>3. ReplyInv'
    BY <1>7 DEF InjectGlobals, Place, Free, SoloOwnsStdout, ReplyInv
  <2> QED BY <2>1, <2>2, <2>3
<1>8. ASSUME NEW c \in Calls, FailInject(c) PROVE OutputInv'
  <2>1. TeeIsFresh'
    BY <1>8 DEF FailInject, Fail, TeeIsFresh
  <2>2. SoloOwnsStdout'
    BY <1>8 DEF FailInject, Fail, TeeIsFresh, SoloOwnsStdout
  <2>3. ReplyInv'
    BY <1>8 DEF FailInject, Fail, SoloOwnsStdout, ReplyInv
  <2> QED BY <2>1, <2>2, <2>3
<1>9. ASSUME NEW c \in Calls, CallbackReturns(c) PROVE OutputInv'
  <2>1. TeeIsFresh'
    BY <1>9 DEF CallbackReturns, Resume, TeeIsFresh
  <2>2. SoloOwnsStdout'
    BY <1>9 DEF CallbackReturns, Resume, TeeIsFresh, SoloOwnsStdout
  <2>3. ReplyInv'
    BY <1>9 DEF CallbackReturns, Resume, SoloOwnsStdout, ReplyInv
  <2> QED BY <2>1, <2>2, <2>3
<1>10. ASSUME NEW c \in Calls, Cleanup(c) PROVE OutputInv'
  <2>1. TeeIsFresh'
    BY <1>10 DEF Cleanup, TeeIsFresh
  <2>2. SoloOwnsStdout'
    BY <1>10 DEF Cleanup, TeeIsFresh, SoloOwnsStdout
  <2>3. ReplyInv'
    BY <1>10 DEF Cleanup, SoloOwnsStdout, ReplyInv
  <2> QED BY <2>1, <2>2, <2>3
<1>11. ASSUME NEW c \in Calls, ReleaseLock(c) PROVE OutputInv'
  <2>1. TeeIsFresh'
    BY <1>11 DEF ReleaseLock, TeeIsFresh
  <2>2. SoloOwnsStdout'
    BY <1>11 DEF ReleaseLock, TeeIsFresh, SoloOwnsStdout
  <2>3. ReplyInv'
    BY <1>11 DEF ReleaseLock, SoloOwnsStdout, ReplyInv
  <2> QED BY <2>1, <2>2, <2>3
<1>12. ASSUME NEW c \in Calls, CatchException(c) PROVE OutputInv'
  <2>1. TeeIsFresh'
    BY <1>12 DEF CatchException, TeeIsFresh
  <2>2. SoloOwnsStdout'
    BY <1>12 DEF CatchException, TeeIsFresh, SoloOwnsStdout
  <2>3. ReplyInv'
    BY <1>12 DEF CatchException, SoloOwnsStdout, ReplyInv
  <2> QED BY <2>1, <2>2, <2>3
<1>13. ASSUME NEW c \in Calls, RestoreStdout(c) PROVE OutputInv'
  <2>1. TeeIsFresh'
    BY <1>13 DEF RestoreStdout, TeeIsFresh
  <2>2. SoloOwnsStdout'
    BY <1>13 DEF RestoreStdout, TeeIsFresh, SoloOwnsStdout
  <2>3. ReplyInv'
    BY <1>13 DEF RestoreStdout, SoloOwnsStdout, ReplyInv
  <2> QED BY <2>1, <2>2, <2>3
<1>14. ASSUME NEW c \in Calls, WriteText(c) PROVE OutputInv'
  <2>1. TeeIsFresh'
    BY <1>14 DEF WriteText, TeeIsFresh
  <2>2. SoloOwnsStdout'
    BY <1>14 DEF WriteText, TeeIsFresh, SoloOwnsStdout
  <2>3. ReplyInv'
    BY <1>14 DEF WriteText, SoloOwnsStdout, ReplyInv
  <2> QED BY <2>1, <2>2, <2>3
<1>15. ASSUME NEW c \in Calls, NEW n \in Names,
            CallCallback(c, n)
     PROVE  OutputInv'
  <2>1. TeeIsFresh'
    BY <1>15 DEF CallCallback, TeeIsFresh
  <2>2. SoloOwnsStdout'
    BY <1>15 DEF CallCallback, TeeIsFresh, SoloOwnsStdout
  <2>3. ReplyInv'
    BY <1>15 DEF CallCallback, SoloOwnsStdout, ReplyInv
  <2> QED BY <2>1, <2>2, <2>3
<1>16. ASSUME NEW c \in Calls, NEW n \in Names, NEW v \in Values,
            Assign(c, n, v)
     PROVE  OutputInv'
  <2>1. TeeIsFresh'
    BY <1>16 DEF Assign, TeeIsFresh
  <2>2. SoloOwnsStdout'
    BY <1>16 DEF Assign, TeeIsFresh, SoloOwnsStdout
  <2>3. ReplyInv'
    BY <1>16 DEF Assign, SoloOwnsStdout, ReplyInv
  <2> QED BY <2>1, <2>2, <2>3
<1>17. ASSUME NEW c \in Calls, CallbackTimesOut(c) PROVE OutputInv'
  <2>1. TeeIsFresh'
    BY <1>17 DEF CallbackTimesOut, Resume, TeeIsFresh
  <2>2. SoloOwnsStdout'
    BY <1>17 DEF CallbackTimesOut, Resume, TeeIsFresh, SoloOwnsStdout
  <2>3. ReplyInv'
    BY <1>17 DEF CallbackTimesOut, Resume, SoloOwnsStdout, ReplyInv
  <2> QED BY <2>1, <2>2, <2>3
<1>18. ASSUME NEW c \in Calls, NEW result \in {"value", "error", "escaped"},
            EndScript(c, result)
     PROVE  OutputInv'
  <2>1. TeeIsFresh'
    BY <1>18 DEF EndScript, TeeIsFresh
  <2>2. SoloOwnsStdout'
    BY <1>18 DEF EndScript, TeeIsFresh, SoloOwnsStdout
  <2>3. ReplyInv'
    BY <1>18 DEF EndScript, SoloOwnsStdout, ReplyInv
  <2> QED BY <2>1, <2>2, <2>3
<1> QED BY <1>0, <1>1, <1>2, <1>3, <1>4, <1>5, <1>6, <1>7, <1>8, <1>9,
           <1>10, <1>11, <1>12, <1>13, <1>14, <1>15, <1>16, <1>17, <1>18
           DEF Next, Step, Script, EndsScript

\* A call that nobody overlapped returns all its script printed and nothing
\* else, whatever earlier overlaps left in sys.stdout.
THEOREM SoloOutput == Spec => []SoloCallCapturesItsOwnOutput
<1>1. IInv /\ OutputInv => SoloCallCapturesItsOwnOutput
  BY DEF OutputInv, SoloOwnsStdout, ReplyInv, SoloCallCapturesItsOwnOutput
<1> QED BY <1>1, SessionTheorem, InitOutputInv, NextOutputInv, PTL DEF Spec
=============================================================================
