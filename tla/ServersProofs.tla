---------------------------- MODULE ServersProofs ----------------------------
(***************************************************************************)
(* Theorems about the halves of Servers: GuiServers, for any number of     *)
(* windows, programs, ports and invocations of open_program, and Headless, *)
(* for any number of writes and signals.                                   *)
(*                                                                         *)
(* The event thread is what makes the servers consistent: a server has a   *)
(* thread and a socket exactly while it is shown as running or while the   *)
(* event thread is in the middle of starting or stopping it (Owned).  The  *)
(* launcher's is the invariant HeadlessInv: what has been said and saved   *)
(* in each of its phases.                                                  *)
(***************************************************************************)
EXTENDS Servers, Sequences, SequenceTheorems, TLAPS

\* All steps, each with its window, program or invocation.
WindowStep(w) ==
  \/ NoProgram(w) \/ NoPort(w) \/ Bind(w) \/ Up(w) \/ StartTimesOut(w)
  \/ Join(w) \/ JoinTimesOut(w) \/ Serves(w) \/ Ends(w)
  \/ \E p \in Programs : Show(w, p) \/ Close(w, p)
  \/ StartClicked(w) \/ StopClicked(w)
  \/ \E o \in Opens : Appears(o, w)

OpenStep(o) ==
  \/ \E p \in Programs : Call(o, p)
  \/ \E success \in BOOLEAN : Opened(o, success)
  \/ FindPort(o) \/ GiveUp(o)

LEMMA Steps ==
  Next <=> (\E w \in Windows : WindowStep(w)) \/ (\E o \in Opens : OpenStep(o))
BY DEF Next, WindowStep, OpenStep, EventThread

-----------------------------------------------------------------------------
(***************************************************************************)
(* Types, and that a window shows a program that is open in it.            *)
(***************************************************************************)

ShownIsOpen == \A w \in Windows : current[w] = None \/ current[w] \in opened[w]

AskedInv == \A o \in Opens :
  /\ o \in polling => job[o] # "none"
  /\ job[o] # "none" => asked[o] \in Programs

TypeInv == TypeOK /\ ShownIsOpen /\ AskedInv

LEMMA InitTypeInv == Init => TypeInv
BY DEF Init, TypeInv, TypeOK, ShownIsOpen, AskedInv, Idle

LEMMA WindowTypeInv ==
  ASSUME TypeInv, NEW w \in Windows, WindowStep(w) PROVE TypeInv'
<1> USE GuiAssumption
<1> USE DEF TypeInv, TypeOK, ShownIsOpen, AskedInv, Idle, windows, servers, opens
<1>1. CASE NoProgram(w)
  BY <1>1 DEF NoProgram
<1>2. CASE NoPort(w)
  BY <1>2 DEF NoPort
<1>3. CASE Bind(w)
  BY <1>3 DEF Bind, Candidates
<1>4. CASE Up(w)
  BY <1>4 DEF Up
<1>5. CASE StartTimesOut(w)
  BY <1>5 DEF StartTimesOut, StopServer
<1>6. CASE Join(w) \/ JoinTimesOut(w)
  <2>1. Forget(w)
    BY <1>6 DEF Join, JoinTimesOut
  <2>2. holder' \in [Ports -> Windows \cup {None, Other}]
    BY <2>1 DEF Forget
  <2> QED
    BY <2>1, <2>2 DEF Forget
<1>7. CASE Serves(w)
  BY <1>7 DEF Serves
<1>8. CASE Ends(w)
  BY <1>8 DEF Ends
<1>9. ASSUME NEW p \in Programs, Show(w, p) PROVE TypeInv'
  BY <1>9 DEF Show, Activated, StartServer
<1>10. ASSUME NEW p \in Programs, Close(w, p) PROVE TypeInv'
  BY <1>10 DEF Close, StopServer
<1>11. CASE StartClicked(w)
  BY <1>11 DEF StartClicked, StartServer
<1>12. CASE StopClicked(w)
  BY <1>12 DEF StopClicked, StopServer
<1>13. ASSUME NEW o \in Opens, Appears(o, w) PROVE TypeInv'
  BY <1>13 DEF Appears, Activated, StartServer
<1> QED
  BY <1>1, <1>2, <1>3, <1>4, <1>5, <1>6, <1>7, <1>8, <1>9, <1>10, <1>11, <1>12, <1>13
     DEF WindowStep

LEMMA StepTypeInv == TypeInv /\ [Next]_vars => TypeInv'
<1> SUFFICES ASSUME TypeInv, [Next]_vars PROVE TypeInv'
  OBVIOUS
<1>1. ASSUME NEW o \in Opens, OpenStep(o) PROVE TypeInv'
  <2> USE DEF TypeInv, TypeOK, ShownIsOpen, AskedInv, windows, servers
  <2>1. ASSUME NEW p \in Programs, Call(o, p) PROVE TypeInv'
    BY <2>1 DEF Call
  <2>2. ASSUME NEW success \in BOOLEAN, Opened(o, success) PROVE TypeInv'
    BY <2>2 DEF Opened
  <2>3. CASE FindPort(o) \/ GiveUp(o)
    BY <2>3 DEF FindPort, GiveUp, Answered
  <2> QED
    BY <1>1, <2>1, <2>2, <2>3 DEF OpenStep
<1>2. CASE UNCHANGED vars
  BY <1>2 DEF TypeInv, TypeOK, ShownIsOpen, AskedInv, vars, windows, servers, opens
<1> QED
  BY <1>1, <1>2, WindowTypeInv, Steps

\* States, records, sockets and answers keep their types.
THEOREM TypeCorrect == Spec => []TypeOK
<1>1. TypeInv => TypeOK
  BY DEF TypeInv
<1> QED
  BY <1>1, InitTypeInv, StepTypeInv, PTL DEF Spec

-----------------------------------------------------------------------------
(***************************************************************************)
(* The port records change only where a server is bound.                   *)
(***************************************************************************)

LEMMA OnlyBindRecords ==
  ASSUME TypeInv, [Next]_vars
  PROVE  record' = record \/ \E w \in Windows : Bind(w)
BY Steps
   DEF WindowStep, OpenStep, NoProgram, NoPort, Up, StartTimesOut, Join, JoinTimesOut, Forget,
       Serves, Ends, Show, Close, StartClicked, StopClicked, Appears, Call, Opened,
       FindPort, GiveUp, Answered, vars, servers

LEMMA BindRecords ==
  ASSUME TypeInv, NEW w \in Windows, Bind(w)
  PROVE  /\ current[w] \in Programs
         /\ \E q \in Ports :
              /\ record' = [record EXCEPT ![current[w]] = q]
              /\ holder' = [holder EXCEPT ![q] = w]
              /\ holder[q] = None
              /\ q = record[current[w]] \/ q \notin Held(current[w])
              /\ q # record[current[w]] /\ record[current[w]] # None =>
                   holder[record[current[w]]] # None
<1>1. current[w] \in Programs
  BY DEF Bind, TypeInv, TypeOK
<1>2. PICK q \in Candidates(current[w]) :
        /\ First(current[w], q)
        /\ record' = [record EXCEPT ![current[w]] = q]
        /\ holder' = [holder EXCEPT ![q] = w]
  BY DEF Bind
<1>3. /\ q \in Ports /\ holder[q] = None
      /\ q = record[current[w]] \/ q \notin Held(current[w])
  BY <1>2 DEF Candidates
<1>4. ASSUME q # record[current[w]], record[current[w]] # None
      PROVE  holder[record[current[w]]] # None
  <2>1. record[current[w]] \notin Candidates(current[w])
    BY <1>2, <1>4 DEF First
  <2>2. record[current[w]] \in Ports
    BY <1>1, <1>4 DEF TypeInv, TypeOK
  <2> QED
    BY <2>1, <2>2 DEF Candidates
<1> QED
  BY <1>1, <1>2, <1>3, <1>4

LEMMA StepRecords == TypeInv /\ RecordsAreDistinct /\ [Next]_vars => RecordsAreDistinct'
<1> SUFFICES ASSUME TypeInv, RecordsAreDistinct, [Next]_vars PROVE RecordsAreDistinct'
  OBVIOUS
<1>1. CASE record' = record
  BY <1>1 DEF RecordsAreDistinct
<1>2. ASSUME NEW w \in Windows, Bind(w) PROVE RecordsAreDistinct'
  <2> DEFINE p == current[w]
  <2>1. PICK q \in Ports : /\ record' = [record EXCEPT ![p] = q]
                           /\ q = record[p] \/ q \notin Held(p)
    BY <1>2, BindRecords
  <2>2. p \in Programs
    BY <1>2, BindRecords
  <2>3. CASE q = record[p]
    BY <2>1, <2>3 DEF RecordsAreDistinct, TypeInv, TypeOK
  <2>4. CASE q \notin Held(p)
    BY <2>1, <2>2, <2>4 DEF RecordsAreDistinct, Held, TypeInv, TypeOK
  <2> QED
    BY <2>1, <2>3, <2>4
<1> QED
  BY <1>1, <1>2, OnlyBindRecords

\* A port on record for one program is never put on record for another.
THEOREM DistinctRecords == Spec => []RecordsAreDistinct
<1>1. Init => TypeInv /\ RecordsAreDistinct
  BY InitTypeInv DEF Init, RecordsAreDistinct
<1>2. TypeInv /\ RecordsAreDistinct /\ [Next]_vars => (TypeInv /\ RecordsAreDistinct)'
  BY StepTypeInv, StepRecords
<1> QED
  BY <1>1, <1>2, PTL DEF Spec

\* A program's port changes only when somebody else has bound it.
THEOREM KeptPorts == Spec => PortIsKept
<1>1. TypeInv /\ [Next]_vars =>
        [\A p \in Programs :
           record[p] # None /\ record'[p] # record[p] => holder[record[p]] # None]_vars
  <2> SUFFICES ASSUME TypeInv, [Next]_vars, NEW p \in Programs,
                      record[p] # None, record'[p] # record[p]
               PROVE  holder[record[p]] # None
    OBVIOUS
  <2>1. PICK w \in Windows : Bind(w)
    BY OnlyBindRecords
  <2>2. p = current[w]
    BY <2>1, BindRecords DEF TypeInv, TypeOK
  <2> QED
    BY <2>1, <2>2, BindRecords DEF TypeInv, TypeOK
<1> QED
  BY <1>1, InitTypeInv, StepTypeInv, PTL DEF Spec, PortIsKept

-----------------------------------------------------------------------------
(***************************************************************************)
(* Servers, threads and sockets.                                           *)
(***************************************************************************)

Owned ==
  \A w \in Windows :
    /\ thread[w] # "none" <=>
         state[w] = "running" \/ edt = <<"wait", w>> \/ edt = <<"join", w>>
    /\ state[w] = "running" =>
         edt # <<"bind", w>> /\ edt # <<"wait", w>> /\ edt # <<"join", w>>
    /\ thread[w] # "none" <=> \E q \in Ports : holder[q] = w
    /\ thread[w] # "none" /\ edt # <<"join", w>> => opened[w] # {}
    /\ \A q, r \in Ports : holder[q] = w /\ holder[r] = w => q = r

LEMMA StepOwned == TypeInv /\ Owned /\ [Next]_vars => Owned'
<1> SUFFICES ASSUME TypeInv, Owned, [Next]_vars PROVE Owned'
  OBVIOUS
<1> USE GuiAssumption
<1> USE DEF TypeInv, TypeOK, Owned, Idle
<1>1. ASSUME NEW w \in Windows, NoProgram(w) PROVE Owned'
  BY <1>1 DEF NoProgram, windows, servers
<1>2. ASSUME NEW w \in Windows, NoPort(w) PROVE Owned'
  BY <1>2 DEF NoPort, windows
<1>3. ASSUME NEW w \in Windows, Bind(w) PROVE Owned'
  <2>1. PICK q \in Ports : holder' = [holder EXCEPT ![q] = w] /\ holder[q] = None
    BY <1>3, BindRecords
  <2>2. opened[w] # {}
    BY <1>3 DEF Bind, ShownIsOpen
  <2>3. thread[w] = "none" /\ edt = <<"bind", w>>
    BY <1>3 DEF Bind
  <2> QED
    BY <1>3, <2>1, <2>2, <2>3 DEF Bind, windows
<1>4. ASSUME NEW w \in Windows, Up(w) PROVE Owned'
  BY <1>4 DEF Up, windows
<1>5. ASSUME NEW w \in Windows, StartTimesOut(w) PROVE Owned'
  BY <1>5 DEF StartTimesOut, StopServer, windows
<1>6. ASSUME NEW w \in Windows, Join(w) \/ JoinTimesOut(w) PROVE Owned'
  <2>1. edt = <<"join", w>> /\ Forget(w)
    BY <1>6 DEF Join, JoinTimesOut
  <2> QED
    BY <2>1 DEF Forget, windows
<1>7. ASSUME NEW w \in Windows, Serves(w) \/ Ends(w) PROVE Owned'
  <2>1. \A v \in Windows : thread'[v] = "none" <=> thread[v] = "none"
    BY <1>7 DEF Serves, Ends
  <2>2. UNCHANGED <<state, edt, holder, opened>>
    BY <1>7 DEF Serves, Ends, windows
  <2> QED
    BY <2>1, <2>2
<1>8. ASSUME NEW w \in Windows, NEW p \in Programs, Show(w, p) PROVE Owned'
  BY <1>8 DEF Show, Activated, StartServer
<1>9. ASSUME NEW w \in Windows, NEW p \in Programs, Close(w, p) PROVE Owned'
  BY <1>9 DEF Close, StopServer
<1>10. ASSUME NEW w \in Windows, StartClicked(w) PROVE Owned'
  BY <1>10 DEF StartClicked, StartServer, windows
<1>11. ASSUME NEW w \in Windows, StopClicked(w) PROVE Owned'
  BY <1>11 DEF StopClicked, StopServer, windows
<1>12. ASSUME NEW w \in Windows, NEW o \in Opens, Appears(o, w) PROVE Owned'
  BY <1>12 DEF Appears, Activated, StartServer
<1>13. ASSUME NEW o \in Opens, OpenStep(o) PROVE Owned'
  BY <1>13 DEF OpenStep, Call, Opened, FindPort, GiveUp, Answered, windows, servers
<1>14. CASE UNCHANGED vars
  BY <1>14 DEF vars, windows, servers
<1> HIDE DEF TypeInv, TypeOK, Owned, Idle
<1> QED
  BY <1>1, <1>2, <1>3, <1>4, <1>5, <1>6, <1>7, <1>8, <1>9, <1>10, <1>11, <1>12, <1>13,
     <1>14, Steps DEF WindowStep

LEMMA IdleIsIdle ==
  \A w : Idle # <<"bind", w>> /\ Idle # <<"wait", w>> /\ Idle # <<"join", w>>
BY DEF Idle

LEMMA InitOwned == Init => Owned
<1> SUFFICES ASSUME Init, NEW w \in Windows
             PROVE  /\ thread[w] = "none" /\ state[w] # "running" /\ edt = Idle
                    /\ \A q \in Ports : holder[q] # w
  BY IdleIsIdle DEF Owned
<1>1. thread[w] = "none" /\ state[w] # "running" /\ edt = Idle
  BY DEF Init
<1>2. ASSUME NEW q \in Ports PROVE holder[q] # w
  <2>1. holder[q] \in {None, Other}
    BY DEF Init
  <2> QED
    BY <2>1, GuiAssumption
<1> QED
  BY <1>1, <1>2

\* When the event thread is through, the servers shown as running are those
\* that listen.
THEOREM ShownSockets == Spec => []SocketsAreShown
<1>1. Owned => SocketsAreShown
  BY IdleIsIdle DEF Owned, SocketsAreShown
<1>2. TypeInv /\ Owned /\ [Next]_vars => (TypeInv /\ Owned)'
  BY StepTypeInv, StepOwned
<1> QED
  BY <1>1, <1>2, InitTypeInv, InitOwned, PTL DEF Spec

\* No server stays up in a window without a program.
THEOREM NoServerAlone == Spec => []ServersEndWithPrograms
<1>1. Owned => ServersEndWithPrograms
  BY IdleIsIdle DEF Owned, ServersEndWithPrograms
<1>2. TypeInv /\ Owned /\ [Next]_vars => (TypeInv /\ Owned)'
  BY StepTypeInv, StepOwned
<1> QED
  BY <1>1, <1>2, InitTypeInv, InitOwned, PTL DEF Spec

-----------------------------------------------------------------------------
(***************************************************************************)
(* open_program, for a program without a record, while no server stops.    *)
(***************************************************************************)

ServedInv ==
  env = {} =>
    /\ \A w \in Windows : edt # <<"join", w>>
    /\ \A o \in unrecorded : record[asked[o]] # None =>
         \E w \in Windows : holder[record[asked[o]]] = w /\ asked[o] \in opened[w]

LEMMA StepServed == TypeInv /\ ServedInv /\ [Next]_vars => ServedInv'
<1> SUFFICES ASSUME TypeInv, ServedInv, [Next]_vars PROVE ServedInv'
  OBVIOUS
<1>0. env' = env
  BY Steps
     DEF WindowStep, OpenStep, NoProgram, NoPort, Bind, Up, StartTimesOut, Join, JoinTimesOut,
         Forget, Serves, Ends, Show, Close, StartClicked, StopClicked, Appears, Call, Opened,
         FindPort, GiveUp, Answered, vars
<1> SUFFICES ASSUME env = {} PROVE ServedInv'
  BY <1>0 DEF ServedInv
<1> USE GuiAssumption
<1> USE DEF TypeInv, TypeOK, ServedInv, Idle
<1>1. ASSUME NEW w \in Windows, NoProgram(w) PROVE ServedInv'
  BY <1>1 DEF NoProgram, windows, servers, opens
<1>2. ASSUME NEW w \in Windows, NoPort(w) PROVE ServedInv'
  BY <1>2 DEF NoPort, windows, opens
<1>3. ASSUME NEW w \in Windows, Bind(w) PROVE ServedInv'
  <2>1. PICK q \in Ports : /\ record' = [record EXCEPT ![current[w]] = q]
                           /\ holder' = [holder EXCEPT ![q] = w] /\ holder[q] = None
    BY <1>3, BindRecords
  <2>2. current[w] \in opened[w] /\ current[w] \in Programs
    BY <1>3, BindRecords DEF Bind, ShownIsOpen
  <2>3. /\ opened' = opened /\ asked' = asked /\ unrecorded' = unrecorded
        /\ edt' = <<"wait", w>>
    BY <1>3 DEF Bind, windows, opens
  <2>4. ASSUME NEW o \in unrecorded, record'[asked[o]] # None
        PROVE  \E v \in Windows : holder'[record'[asked[o]]] = v /\ asked[o] \in opened[v]
    <3>1. asked[o] \in Programs
      BY DEF AskedInv
    <3>2. CASE asked[o] = current[w]
      BY <2>1, <2>2, <3>2
    <3>3. CASE asked[o] # current[w]
      <4>1. record'[asked[o]] = record[asked[o]] /\ record[asked[o]] \in Ports
        BY <2>1, <2>4, <3>1, <3>3
      <4>2. holder[record[asked[o]]] # None
        BY <4>1, <2>4
      <4> QED
        BY <2>1, <2>4, <4>1, <4>2
    <3> QED
      BY <3>2, <3>3
  <2> QED
    BY <2>3, <2>4
<1>4. ASSUME NEW w \in Windows, Up(w) \/ Serves(w) \/ Ends(w) PROVE ServedInv'
  BY <1>4 DEF Up, Serves, Ends, windows, opens
<1>5. ASSUME NEW w \in Windows, StartTimesOut(w) \/ Join(w) \/ JoinTimesOut(w) PROVE ServedInv'
  BY <1>5 DEF StartTimesOut, Join, JoinTimesOut
<1>6. ASSUME NEW w \in Windows, NEW p \in Programs, Show(w, p) PROVE ServedInv'
  BY <1>6 DEF Show, Activated, StartServer, opens
<1>7. ASSUME NEW w \in Windows, NEW p \in Programs, Close(w, p) PROVE ServedInv'
  BY <1>7 DEF Close
<1>8. ASSUME NEW w \in Windows, StartClicked(w) \/ StopClicked(w) PROVE ServedInv'
  BY <1>8 DEF StartClicked, StopClicked, StartServer, windows, opens
<1>9. ASSUME NEW w \in Windows, NEW o \in Opens, Appears(o, w) PROVE ServedInv'
  BY <1>9 DEF Appears, Activated, StartServer
<1>10. ASSUME NEW o \in Opens, NEW p \in Programs, Call(o, p) PROVE ServedInv'
  BY <1>10 DEF Call, AskedInv, windows, servers
<1>11. ASSUME NEW o \in Opens, NEW success \in BOOLEAN, Opened(o, success) PROVE ServedInv'
  BY <1>11 DEF Opened, windows, servers
<1>12. ASSUME NEW o \in Opens, FindPort(o) \/ GiveUp(o) PROVE ServedInv'
  BY <1>12 DEF FindPort, GiveUp, Answered, windows, servers
<1>13. CASE UNCHANGED vars
  BY <1>13 DEF vars, windows, servers, opens
<1> HIDE DEF TypeInv, TypeOK, ServedInv, Idle
<1> QED
  BY <1>1, <1>2, <1>3, <1>4, <1>5, <1>6, <1>7, <1>8, <1>9, <1>10, <1>11, <1>12, <1>13,
     Steps DEF WindowStep, OpenStep

\* The first answer about a program names a port where it is served.
THEOREM FirstOpens == Spec => FirstOpenIsServed
<1>1. Init => TypeInv /\ ServedInv
  BY InitTypeInv DEF Init, ServedInv, Idle
<1>2. TypeInv /\ ServedInv /\ [Next]_vars => (TypeInv /\ ServedInv)'
  BY StepTypeInv, StepServed
<1>3. TypeInv /\ ServedInv /\ [Next]_vars =>
        [env = {} => \A o \in unrecorded : FindPort(o) =>
           \E w \in Windows : holder[record[asked[o]]] = w /\ asked[o] \in opened[w]]_vars
  BY DEF ServedInv, FindPort
<1> QED
  BY <1>1, <1>2, <1>3, PTL DEF Spec, FirstOpenIsServed

-----------------------------------------------------------------------------
(***************************************************************************)
(* The two halves: what holds of either holds of them side by side.        *)
(***************************************************************************)

LEMMA WindowsHalf == HalfSpec => Spec
<1>1. HalfInit => Init
  BY DEF HalfInit
<1>2. [HalfNext]_halfVars => [Next]_vars
  BY DEF HalfNext, halfVars
<1> QED
  BY <1>1, <1>2, PTL DEF HalfSpec, Spec

LEMMA HeadlessHalf == HalfSpec => H!Spec
<1>1. HalfInit => H!Init
  BY DEF HalfInit
<1>2. [HalfNext]_halfVars => [H!Next]_H!vars
  BY DEF HalfNext, halfVars, headlessVars, H!vars, H!main, H!serving, H!saving
<1> QED
  BY <1>1, <1>2, PTL DEF HalfSpec, H!Spec

-----------------------------------------------------------------------------
(***************************************************************************)
(* The launcher.  Its main thread passes its phases in order; what the     *)
(* phase says of the server and of the save is Course, what it says of the *)
(* status lines is Printed.                                                  *)
(***************************************************************************)

\* No server yet, and nothing printed.
Startup == {"parse", "resolve", "jvm", "project", "import", "program", "analyze", "bind"}

\* Nothing is answered without a server, and no server is there before the
\* program is held by the context that saves it.  The save is tried once, and
\* what it found when the server was down stays all there is.
Course ==
  /\ answered # {} => server # "none"
  /\ phase \in Startup => server = "none"
  /\ phase \in {"close", "exited"} /\ server # "none" => save # "none"
  /\ save # "none" => phase \in {"close", "exited"}
  /\ save = "ok" /\ alone => server \in {"none", "down"} /\ saved = answered

\* The lines printed so far, and why there are none or two.
Printed ==
  /\ phase \in Startup \cup {"start", "ready"} => lines = <<>>
  /\ Len(lines) <= (IF phase = "exited" THEN 2 ELSE 1)
  /\ phase \in {"serve", "stop", "force"} => lines # <<>>
  /\ phase \notin {"save", "close", "exited"} => leaving = "no"
  /\ lines = <<>> /\ phase \in {"save", "close"} => leaving \in {"usage", "interrupt", "error"}
  /\ phase # "exited" /\ lines # <<>> /\ leaving = "error" => save = "failed" \/ late
  /\ phase = "exited" => H!OneStatusLine

HeadlessInv == H!TypeOK /\ Course /\ Printed

LEMMA AllPhases ==
  H!Phases = Startup \cup
    {"start", "ready", "serve", "stop", "force", "save", "close", "exited"}
<1>1. DOMAIN H!Opening = 1..7
  BY DEF H!Opening
<1>2. {H!Opening[i] : i \in DOMAIN H!Opening} =
        {"parse", "resolve", "jvm", "project", "import", "program", "analyze"}
  <2>1. 1..7 = {1, 2, 3, 4, 5, 6, 7}
    OBVIOUS
  <2> QED
    BY <1>1, <2>1 DEF H!Opening
<1> QED
  BY <1>2 DEF H!Phases, Startup

LEMMA HeadlessInit == H!Init => HeadlessInv
<1> SUFFICES ASSUME H!Init PROVE HeadlessInv
  OBVIOUS
<1> USE DEF H!Init
<1>1. phase \in H!Phases
  BY AllPhases DEF Startup
<1>2. interrupts \in 0..MaxInterrupts
  BY InterruptsAssumption
<1>3. H!TypeOK
  BY <1>1, <1>2, EmptySeq DEF H!TypeOK
<1> QED
  BY <1>3 DEF HeadlessInv, Course, Printed, Startup

\* A line is printed at the end of those there are.
LEMMA OneMore ==
  ASSUME lines \in Seq(H!Lines), NEW l \in H!Lines, lines' = Append(lines, l)
  PROVE  lines' \in Seq(H!Lines) /\ Len(lines') = Len(lines) + 1 /\ lines' # <<>>
BY AppendProperties

LEMMA NoLine ==
  ASSUME lines \in Seq(H!Lines)
  PROVE  (lines = <<>> <=> Len(lines) = 0) /\ Len(lines) \in Nat
BY EmptySeq

LEMMA HeadlessStep == HeadlessInv /\ [H!Next]_H!vars => HeadlessInv'
<1> SUFFICES ASSUME HeadlessInv, [H!Next]_H!vars PROVE HeadlessInv'
  OBVIOUS
<1> USE InterruptsAssumption, AllPhases
<1>m. lines \in Seq(H!Lines) /\ (lines = <<>> <=> Len(lines) = 0) /\ Len(lines) \in Nat
  BY NoLine DEF HeadlessInv, H!TypeOK
<1> USE DEF HeadlessInv, Course, Printed, Startup, H!TypeOK, H!OneStatusLine,
            H!main, H!serving, H!saving, H!Unwind, H!Saves
<1>1. CASE H!Advance
  <2>1. phase \in Startup \ {"analyze", "bind"} /\ phase' \in Startup \ {"parse", "bind"}
    BY <1>1 DEF H!Advance, H!Opening
  <2> QED
    BY <1>1, <2>1 DEF H!Advance, H!Opening
<1>2. CASE H!RunServer
  BY <1>2 DEF H!RunServer
<1>3. CASE H!Raises
  BY <1>3 DEF H!Raises
<1>4. CASE H!NoPort
  BY <1>4, <1>m, OneMore DEF H!NoPort, H!ExitWith, H!Lines
<1>5. CASE H!Bind
  BY <1>5 DEF H!Bind
<1>6. CASE H!NotStarted
  BY <1>6, <1>m, OneMore DEF H!NotStarted, H!ExitWith, H!Lines
<1>7. CASE H!Started
  BY <1>7 DEF H!Started
<1>8. CASE H!EmitReady
  BY <1>8, <1>m, OneMore DEF H!EmitReady, H!Lines
<1>9. CASE H!UsageError
  BY <1>9 DEF H!UsageError
<1>10. CASE H!NoJvm
  BY <1>10, <1>m, OneMore DEF H!NoJvm, H!ExitWith, H!Lines
<1>11. ASSUME NEW reason \in H!StartupReasons, H!StartupError(reason) PROVE HeadlessInv'
  <2>1. reason \in H!Lines
    BY <1>11 DEF H!Lines
  <2> QED
    BY <1>11, <2>1, <1>m, OneMore DEF H!StartupError, H!ExitWith
<1>12. CASE H!Join \/ H!JoinTimesOut
  BY <1>12 DEF H!Join, H!JoinTimesOut
<1>13. CASE H!Save
  <2>1. H!TypeOK'
    BY <1>13, <1>m DEF H!Save
  <2>2. Course'
    BY <1>13, <1>m DEF H!Save
  <2>3. Printed'
    BY <1>13, <1>m DEF H!Save
  <2> QED
    BY <2>1, <2>2, <2>3 DEF HeadlessInv
<1>14. CASE H!CloseFails
  BY <1>14 DEF H!CloseFails
<1>15. CASE H!Exit
  <2>1. H!TypeOK'
    BY <1>15, <1>m, OneMore DEF H!Exit, H!Lines
  <2>2. Course'
    BY <1>15, <1>m, OneMore DEF H!Exit, H!Lines
  <2>3. Printed'
    BY <1>15, <1>m, OneMore DEF H!Exit, H!Lines
  <2> QED
    BY <2>1, <2>2, <2>3 DEF HeadlessInv
<1>16. CASE H!Interrupt
  <2>1. H!TypeOK'
    <3>1. interrupts' \in 0..MaxInterrupts
      BY <1>16 DEF H!Interrupt
    <3>2. phase' \in H!Phases /\ save' \in {"none", "ok", "failed", "interrupted"}
      BY <1>16 DEF H!Interrupt
    <3> QED
      BY <1>16, <3>1, <3>2 DEF H!Interrupt
  <2>2. Course'
    BY <1>16, <1>m DEF H!Interrupt
  <2>3. Printed'
    BY <1>16, <1>m DEF H!Interrupt
  <2> QED
    BY <2>1, <2>2, <2>3 DEF HeadlessInv
<1>17. CASE H!Killed
  BY <1>17, <1>m DEF H!Killed
<1>18. CASE H!ComesUp
  BY <1>18 DEF H!ComesUp
<1>19. CASE H!Ends
  BY <1>19 DEF H!Ends
<1>20. ASSUME NEW w \in Writes, H!Write(w) PROVE HeadlessInv'
  BY <1>20 DEF H!Write
<1>21. CASE UNCHANGED H!vars
  BY <1>21 DEF H!vars
<1> QED
  BY <1>1, <1>2, <1>3, <1>4, <1>5, <1>6, <1>7, <1>8, <1>9, <1>10, <1>11, <1>12, <1>13, <1>14,
     <1>15, <1>16, <1>17, <1>18, <1>19, <1>20, <1>21 DEF H!Next, H!MainStep

LEMMA HeadlessTheorem == HalfSpec => []HeadlessInv
<1>1. H!Spec => []HeadlessInv
  BY HeadlessInit, HeadlessStep, PTL DEF H!Spec
<1> QED
  BY <1>1, HeadlessHalf, PTL

\* However the launcher ends, the program was saved, or tried to be, on the
\* way out once clients could write to it, and a save behind a server that had
\* ended keeps all they were told is written (_run_server's finally).
THEOREM SavedOnEveryExit == HalfSpec => []SavedOnExit
<1>1. HeadlessInv => SavedOnExit
  BY DEF HeadlessInv, Course, SavedOnExit, H!SavedOnExit
<1> QED
  BY <1>1, HeadlessTheorem, PTL

\* What does hold of the launcher's output: one status line, none only for a
\* usage error, an interrupt or a kill, and two only if the end went wrong
\* (main and _main).
THEOREM StatusLineIsOne == HalfSpec => []OneStatusLine
<1>1. HeadlessInv => OneStatusLine
  BY DEF HeadlessInv, Printed, OneStatusLine, H!OneStatusLine
<1> QED
  BY <1>1, HeadlessTheorem, PTL
=============================================================================
