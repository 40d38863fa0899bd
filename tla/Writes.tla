------------------------------- MODULE Writes -------------------------------
(* The writing tools, side by side: a behaviour is one of rename batches and  *)
(* their questions (BatchRename), or one of calls of any of the tools and     *)
(* what becomes of their writing (WriteTools).  The halves share no state.    *)
(* The types of the second half are part of its first property.               *)
EXTENDS BatchRename

CONSTANTS Manual, Programs, Nowhere, Targets

ASSUME WritesAssumption ==
  /\ NoCall \notin Calls /\ Calls \cap Manual = {}
  /\ Nowhere \notin Programs
  /\ MaxItems \in Nat \ {0}

VARIABLES
  half,   \* "questions" or "writing"
  wEnv, current, cache, tool, wItems, wPc, nth, step, where, held, raised, on,
  reported, failed, entries, doomed, before, content, begun

wVars == <<wEnv, current, cache, tool, wItems, wPc, nth, step, where, held, raised, on,
           reported, failed, entries, doomed, before, content, begun>>

W == INSTANCE WriteTools WITH env <- wEnv, items <- wItems, pc <- wPc

\* What was reported as written stays (WriteTools).
ReportedIsKept == W!ReportedIsKept

\* The calls' part of the state is typed, and what was reported as failed has
\* changed nothing but what its tool is known to leave (WriteTools).
FailuresLeaveLittle == W!TypeOK /\ W!FailuresLeaveLittle

\* A call writes to one program (WriteTools).
StaysInItsProgram == W!StaysInItsProgram

HalfInit == half \in {"questions", "writing"} /\ Init /\ W!Init

HalfNext ==
  \/ half = "questions" /\ Next /\ UNCHANGED <<half, wVars>>
  \/ half = "writing" /\ W!Next /\ UNCHANGED <<half, vars>>

halfVars == <<half, vars, wVars>>

HalfSpec == HalfInit /\ [][HalfNext]_halfVars
=============================================================================
