------------------------------- MODULE Servers -------------------------------
(* The two ways to serve, side by side: a behaviour is one of the servers in  *)
(* Ghidra's windows (GuiServers) or one of the headless launcher (Headless).  *)
(* The halves share no state.  The types of the second half are part of its   *)
(* first property.                                                            *)
EXTENDS GuiServers

CONSTANTS Writes, MaxInterrupts

ASSUME InterruptsAssumption == MaxInterrupts \in Nat

VARIABLES
  half,   \* "windows" or "headless"
  phase, leaving, inside, lines, server, told, answered, saved, save, alone, late, interrupts

headlessVars ==
  <<phase, leaving, inside, lines, server, told, answered, saved, save, alone, late, interrupts>>

H == INSTANCE Headless

\* The launcher's part of the state is typed, and on every way out the save
\* was tried and kept what clients were told (Headless).
SavedOnExit == H!TypeOK /\ H!SavedOnExit

\* What holds of the launcher's status lines (Headless).
OneStatusLine == H!OneStatusLine

HalfInit == half \in {"windows", "headless"} /\ Init /\ H!Init

HalfNext ==
  \/ half = "windows" /\ Next /\ UNCHANGED <<half, headlessVars>>
  \/ half = "headless" /\ H!Next /\ UNCHANGED <<half, vars>>

halfVars == <<half, vars, headlessVars>>

HalfSpec == HalfInit /\ [][HalfNext]_halfVars
=============================================================================
