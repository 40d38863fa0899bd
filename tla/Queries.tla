------------------------------- MODULE Queries -------------------------------
(* What the read-only requests compute, side by side: a behaviour is a walk   *)
(* of the call graph (CallGraph), a normalization of a control flow graph     *)
(* (CfgNormalize), a projection of a client's functions (Projection) or the   *)
(* reading of a long answer (Paging).  The parts share no state.              *)
EXTENDS CallGraph

CONSTANTS
  Starts, Sizes, Ways, FirstAddr, EndAddr,              \* of CfgNormalize,
  Wire, Keywords, Builtins, Modules, Scripts,           \* ... Projection
  Entries, Kinds, Offsets, Limits, PageLimit, MaxChanges \* ... and Paging

VARIABLES
  part,   \* "graph", "blocks", "names" or "pages"
  blocks, length, given, kept, live, size, succ, content, joins, visit, changed, round,
  listed, existing, next, tree, phase,
  there, kind, filtering, rows, offset, target, seen, got, pc, expected, gone, came

blockVars == <<blocks, length, given, kept, live, size, succ, content, joins, visit, changed, round>>
nameVars == <<listed, existing, next, tree, phase>>
pageVars == <<there, kind, filtering, rows, offset, target, seen, got, pc, expected, gone, came>>

B == INSTANCE CfgNormalize WITH todo <- visit, pass <- round
N == INSTANCE Projection
P == INSTANCE Paging WITH Starts <- Offsets, limit <- rows

\* Addresses are numbers and no block is empty.
ASSUME BlocksAssumption ==
  /\ Starts \subseteq Nat /\ Sizes \subseteq Nat \ {0}
  /\ Ways \subseteq Seq(Nat)

\* No real module is named _mcp, which the server's own tools take when mcp is
\* a name of the script's.
ASSUME NamesAssumption ==
  /\ Wire \in Seq(Seq(Nat \X STRING))
  /\ N!Escaped(N!Mcp) \notin Modules

\* Things are enumerated in one order, by their places, which count from 1.
ASSUME PagesAssumption ==
  /\ IsFiniteSet(Entries)
  /\ \A e \in Entries : e.at \in Nat \ {0}
  /\ \A e, f \in Entries : e.at = f.at => e = f
  /\ Kinds \subseteq {"function", "memory_segment", "import", "export", "string", "class",
                      "namespace", "type"} \cup P!References \cup P!Searches
  /\ Offsets \subseteq Int /\ Limits \subseteq Int /\ PageLimit \in Int
  /\ MaxChanges \in Nat

\* The types of all parts.
PartTypes == TypeOK /\ B!TypeOK /\ N!TypeOK /\ P!TypeOK

\* What is returned is the given graph in its normal form (CfgNormalize).
NormalForm == B!NormalForm

\* The script finds the client's functions by their names, and its own things
\* where they were (Projection).
ProjectionIsFaithful == N!ProjectionIsFaithful

\* The pages together are the answer (Paging).
PagingIsHonest == P!PagingIsHonest

PartInit ==
  /\ part \in {"graph", "blocks", "names", "pages"}
  /\ Init /\ B!Init /\ N!Init /\ P!Init

PartNext ==
  \/ part = "graph" /\ Next /\ UNCHANGED <<part, blockVars, nameVars, pageVars>>
  \/ part = "blocks" /\ B!Next /\ UNCHANGED <<part, vars, nameVars, pageVars>>
  \/ part = "names" /\ N!Next /\ UNCHANGED <<part, vars, blockVars, pageVars>>
  \/ part = "pages" /\ P!Next /\ UNCHANGED <<part, vars, blockVars, nameVars>>

partVars == <<part, vars, blockVars, nameVars, pageVars>>

PartSpec == PartInit /\ [][PartNext]_partVars
=============================================================================
