----------------------------- MODULE Projection -----------------------------
(***************************************************************************)
(* How the functions of a client become names of a script: project_name    *)
(* (rpc_callbacks.py), _build_rpc_globals and _install_rpc_path            *)
(* (server.py), _install_self_namespace and _rpc_import (scripting.py).    *)
(* mcp__svc__list is reached as mcp.svc.list and imported from mcp.svc;    *)
(* the server's own tools are at mcp.self.                                 *)
(*                                                                         *)
(* A segment of a name is a pair of the underscores it begins with and the *)
(* word after them; a function is the sequence its wire name splits into   *)
(* at every run of two or more underscores, so that two functions may be   *)
(* the same one.  The tree of ToolNamespace objects is a function from     *)
(* paths.                                                                  *)
(***************************************************************************)
EXTENDS Naturals, Sequences, SequencesExt

CONSTANTS
  Wire,       \* the functions clients may list, in the order of their names
  Keywords,   \* words that are Python keywords,
  Builtins,   \* ... names of builtins,
  Modules,    \* ... and of modules that can be imported
  Scripts     \* the names a script's globals may hold already

VARIABLES
  listed,    \* namespace._definitions: indices of Wire
  existing,  \* existing_globals
  next,      \* the function that is projected next
  tree,      \* roots and everything below: a Namespace, an OwnTool or the
             \* index of the function that is called there
  phase      \* "project", "self" or "ready"

vars == <<listed, existing, next, tree, phase>>

Name(w) == <<0, w>>
Escaped(s) == <<s[1] + 1, s[2]>>
Mcp == Name("mcp")
Self == Name("self")

\* What a node is when it is no function of the client.
Namespace == 0
OwnTool == Len(Wire) + 1
Nodes == {Namespace, OwnTool} \cup listed

TypeOK ==
  /\ listed \subseteq DOMAIN Wire /\ existing \subseteq Scripts
  /\ next \in 1..(Len(Wire) + 1)
  /\ \A p \in DOMAIN tree : p # <<>> /\ tree[p] \in Nodes
  /\ phase \in {"project", "self", "ready"}

Init ==
  /\ listed \in SUBSET (DOMAIN Wire)
  /\ existing \in SUBSET Scripts
  /\ next = 1
  /\ tree = [p \in {} |-> Namespace]
  /\ phase = "project"

-----------------------------------------------------------------------------

\* project_name: a segment that is a keyword gets an underscore.
Projected(i) ==
  [k \in DOMAIN Wire[i] |->
     IF Wire[i][k][1] = 0 /\ Wire[i][k][2] \in Keywords THEN Escaped(Wire[i][k]) ELSE Wire[i][k]]

Denied == Builtins \cup {Name(w) : w \in Keywords}
IsNameSafe(s) == s \notin Denied \cup existing

\* mcp is the one module that may be shadowed.
ShadowsRealModule(s) == s \in Modules \ {Mcp}

Collides(s) == ~IsNameSafe(s) \/ ShadowsRealModule(s)

\* The names function i may get for the first segment of its path: none if
\* the escaped one collides as well.
Tops(i) ==
  LET top == Projected(i)[1] IN
  IF ~Collides(top) THEN {top} ELSE {Escaped(top)} \ {s \in {Escaped(top)} : Collides(s)}

\* The path of function i, at most one: none for a name without segments, one
\* that collides, and one in the namespace of this server's tools.
Paths(i) ==
  IF Wire[i] = <<>> THEN {}
  ELSE {p \in {<<top>> \o Tail(Projected(i)) : top \in Tops(i)} : ~IsPrefix(<<Mcp, Self>>, p)}

\* The namespaces above p.
Above(p) == {SubSeq(p, 1, k) : k \in 1..(Len(p) - 1)}

\* Mutant: the last function with a path gets it.
NothingInTheWay(p) == \A q \in Above(p) : q \in DOMAIN tree => tree[q] = Namespace

\* No callable above p, and nothing at p.
Open(p) ==
  /\ \A q \in Above(p) : q \in DOMAIN tree => tree[q] = Namespace
  /\ p \notin DOMAIN tree

Put(i, p) ==
  [q \in DOMAIN tree \cup Above(p) \cup {p} |->
     IF q = p THEN i ELSE IF q \in DOMAIN tree THEN tree[q] ELSE Namespace]

\* One iteration of the loop of _build_rpc_globals.
Install ==
  /\ phase = "project" /\ next \in listed
  /\ \E p \in Paths(next) : Open(p) /\ tree' = Put(next, p)
  /\ next' = next + 1
  /\ UNCHANGED <<listed, existing, phase>>

\* A function without a path, or whose place is taken, is left out.
Skip ==
  /\ phase = "project" /\ next \in DOMAIN Wire
  /\ next \in listed => \A p \in Paths(next) : ~Open(p)
  /\ next' = next + 1
  /\ UNCHANGED <<listed, existing, tree, phase>>

Projection ==
  /\ phase = "project" /\ next > Len(Wire)
  /\ phase' = "self"
  /\ UNCHANGED <<listed, existing, next, tree>>

\* The root of the server's own tools, if one of the two names is safe.
OwnRoots ==
  IF IsNameSafe(Mcp) THEN {Mcp} ELSE IF IsNameSafe(Escaped(Mcp)) THEN {Escaped(Mcp)} ELSE {}

OwnTools(top) ==
  LET own == <<top, Self>>
      rest == {p \in DOMAIN tree : ~IsPrefix(own, p)} IN
  [p \in rest \cup {<<top>>, own} |->
     IF p = own THEN OwnTool ELSE IF p \in rest THEN tree[p] ELSE Namespace]

CanHoldOwn(top) == <<top>> \in DOMAIN tree => tree[<<top>>] = Namespace

\* The tools are built; that building them fails is InjectGlobals' selfBuilt, in
\* ScriptExecution.
InstallSelf ==
  /\ phase = "self"
  /\ IF \E top \in OwnRoots : CanHoldOwn(top)
       THEN \E top \in OwnRoots : tree' = OwnTools(top)
       ELSE UNCHANGED tree
  /\ phase' = "ready"
  /\ UNCHANGED <<listed, existing, next>>

Ready == phase = "ready" /\ UNCHANGED vars

Next == Install \/ Skip \/ Projection \/ InstallSelf \/ Ready

Spec == Init /\ [][Next]_vars

-----------------------------------------------------------------------------

RealModule == OwnTool + 1

\* What an import statement of the script gets: the node of the tree when the
\* first segment is a namespace and the rest can be found in it.
Import(p) == IF p \in DOMAIN tree /\ tree[<<p[1]>>] = Namespace THEN tree[p] ELSE RealModule

\* The script's own names, the builtins and the modules are what they were.
NothingShadowed ==
  /\ \A p \in DOMAIN tree : IsNameSafe(p[1])
  /\ \A m \in Modules \ {Mcp} : Import(<<m>>) = RealModule

\* The tree hangs together: what is above a node is a namespace, and a
\* namespace holds something that can be called.
NoEmptyNamespace ==
  \A p \in DOMAIN tree :
    /\ \A q \in Above(p) : q \in DOMAIN tree /\ tree[q] = Namespace
    /\ tree[p] = Namespace => \E q \in DOMAIN tree : p \in Above(q) /\ tree[q] # Namespace

\* A function is called where its name says, or nowhere; it is nowhere only if
\* it has no path, or a function earlier in the order, or the server's own
\* tools, are called at its path, above or below it.
FirstClaimWins ==
  \A i \in listed : i < next =>
    LET places == {p \in DOMAIN tree : tree[p] = i} IN
    \/ places # {} /\ places = Paths(i)
    \/ /\ places = {}
       /\ \A p \in Paths(i) : \E q \in DOMAIN tree :
            /\ tree[q] # Namespace /\ (IsPrefix(p, q) \/ IsPrefix(q, p))
            /\ tree[q] = OwnTool \/ \E j \in listed : j < i /\ tree[q] = j

\* The server's own tools are within reach unless neither name of their root
\* is free for them.
OwnToolsAreThere ==
  phase = "ready" /\ (\A top \in OwnRoots : \A i \in listed : Paths(i) # {<<top>>}) /\ OwnRoots # {}
    => \E top \in OwnRoots : Import(<<top, Self>>) = OwnTool

ProjectionIsFaithful ==
  NothingShadowed /\ NoEmptyNamespace /\ FirstClaimWins /\ OwnToolsAreThere
=============================================================================
