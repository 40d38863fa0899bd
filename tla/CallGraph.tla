------------------------------ MODULE CallGraph ------------------------------
(***************************************************************************)
(* The `callgraph` tool: callgraph_sync of tools/cfg.py, a depth-first     *)
(* walk over the calls of a program with a depth, a node and an edge       *)
(* limit, forward (callees), backward (callers) or first one, then the     *)
(* other (both).                                                           *)
(*                                                                         *)
(* The recursion of traverse is a stack of functions, one step of the      *)
(* model per iteration of its loop; the depth of a frame is its place on   *)
(* the stack.  The related functions come from a Python set, in any order. *)
(* truncated and limit_reason are set together and are one variable.       *)
(* _get_callees and _get_callers are read off one relation: that the call  *)
(* references of a function's instructions and those to its entry agree is *)
(* Ghidra's business.                                                      *)
(***************************************************************************)
EXTENDS Integers, FiniteSets, Sequences

CONSTANTS
  Functions,   \* the functions of the program
  Depths,      \* the values of max_depth asked for
  NodeLimits,  \* ... of max_nodes
  EdgeLimits   \* ... of max_edges

ASSUME CallGraphAssumption ==
  /\ IsFiniteSet(Functions)
  /\ Depths \subseteq Int /\ NodeLimits \subseteq Int /\ EdgeLimits \subseteq Int

VARIABLES
  calls,    \* the program: who calls whom
  query,    \* the arguments of the tool
  pass,     \* which traversal is under way
  stack,    \* the frames of traverse, outermost first
  todo,     \* todo[f]: the related functions f's loop has still to visit
  visited,  \* visited
  nodes,    \* the keys of nodes
  depthOf,  \* depthOf[f]: the depth recorded for a node
  edges,    \* edges
  limit     \* limit_reason, "none" while not truncated

walk == <<stack, todo, visited, nodes, depthOf>>
vars == <<calls, query, pass, walk, edges, limit>>

Queries == [root : Functions, direction : {"callees", "callers", "both"},
            depth : Depths, nodes : NodeLimits, edges : EdgeLimits]

TypeOK ==
  /\ calls \subseteq Functions \X Functions
  /\ query \in Queries
  /\ pass \in {"start", "callees", "callers", "done"}
  /\ stack \in Seq(Functions)
  /\ todo \in [Functions -> SUBSET Functions]
  /\ visited \subseteq Functions /\ nodes \subseteq Functions
  /\ depthOf \in [Functions -> Nat]
  /\ edges \subseteq Functions \X Functions
  /\ limit \in {"none", "depth", "nodes", "edges"}

Init ==
  /\ calls \in SUBSET (Functions \X Functions)
  /\ query \in Queries
  /\ pass = "start"
  /\ stack = <<>> /\ todo = [f \in Functions |-> {}]
  /\ visited = {} /\ nodes = {} /\ depthOf = [f \in Functions |-> 0]
  /\ edges = {} /\ limit = "none"

(***************************************************************************)
(* traverse(f), called on the next function g of the loop of the topmost   *)
(* frame, or on the root: what it does before its own loop.  seen and left *)
(* are visited and todo as the call finds them.                            *)
(***************************************************************************)

Callees(f) == {g \in Functions : <<f, g>> \in calls}
Callers(f) == {g \in Functions : <<g, f>> \in calls}
Related(way, f) == IF way = "callees" THEN Callees(f) ELSE Callers(f)

Seen(f, seen, left) ==
  /\ f \in seen
  /\ visited' = seen /\ todo' = left
  /\ UNCHANGED <<stack, nodes, depthOf, limit>>

Stop(reason, seen, left) ==
  /\ limit' = reason
  /\ visited' = seen /\ todo' = left
  /\ UNCHANGED <<stack, nodes, depthOf>>

\* Mutant: one level too many.
TooDeepByOne == Len(stack) > query.depth + 1

Deep == Len(stack) > query.depth

TooDeep(f, seen, left) ==
  /\ f \notin seen
  /\ Deep
  /\ Stop("depth", seen, left)

NodesFull == Cardinality(nodes) >= query.nodes

\* Mutant: the limit is tested before visited is.
NoRoomFirst(f, seen, left) ==
  /\ ~Deep
  /\ NodesFull
  /\ Stop("nodes", seen, left)

NoRoom(f, seen, left) ==
  /\ f \notin seen
  /\ ~Deep
  /\ NodesFull
  /\ Stop("nodes", seen, left)

Enter(way, f, seen, left) ==
  /\ f \notin seen
  /\ ~Deep
  /\ ~NodesFull
  /\ visited' = seen \cup {f}
  /\ nodes' = nodes \cup {f}
  /\ depthOf' = IF f \in nodes THEN depthOf ELSE [depthOf EXCEPT ![f] = Len(stack)]
  /\ todo' = [left EXCEPT ![f] = Related(way, f)]
  /\ stack' = Append(stack, f)
  /\ UNCHANGED limit

Traverse(way, f, seen, left) ==
  \/ Seen(f, seen, left) \/ TooDeep(f, seen, left) \/ NoRoom(f, seen, left)
  \/ Enter(way, f, seen, left)

(***************************************************************************)
(* The passes and the loop.                                                *)
(***************************************************************************)

\* visited, as a pass begins: for both it is set to the root in between.
FirstVisited == IF pass = "start" THEN {} ELSE {query.root}

Begin(way) ==
  /\ \/ pass = "start" /\ way = IF query.direction = "callers" THEN "callers" ELSE "callees"
     \/ pass = "callees" /\ query.direction = "both" /\ way = "callers"
  /\ stack = <<>>
  /\ pass' = way
  /\ UNCHANGED <<calls, query, edges>>

Start(way) ==
  /\ Begin(way) /\ limit = "none"
  /\ Traverse(way, query.root, FirstVisited, todo)

\* The first pass was cut short: the second returns at once.
Skip(way) ==
  /\ Begin(way) /\ limit # "none"
  /\ visited' = FirstVisited
  /\ UNCHANGED <<stack, todo, nodes, depthOf, limit>>

Top == stack[Len(stack)]
Looping == stack # <<>> /\ limit = "none" /\ todo[Top] # {}

\* An edge goes from caller to callee in either direction.
Edge(way, f, g) == IF way = "callees" THEN <<f, g>> ELSE <<g, f>>

\* Mutant: the edge is turned around for neither direction.
AlwaysForward(g) ==
  /\ edges' = edges \cup {<<Top, g>>}
  /\ Traverse(pass, g, visited, [todo EXCEPT ![Top] = @ \ {g}])

Link(g) ==
  /\ edges' = edges \cup {Edge(pass, Top, g)}
  /\ Traverse(pass, g, visited, [todo EXCEPT ![Top] = @ \ {g}])

Follow(g) ==
  /\ Looping /\ g \in todo[Top]
  /\ Cardinality(edges) < query.edges
  /\ Link(g)
  /\ UNCHANGED <<calls, query, pass>>

\* Mutant: a reason the result's schema does not know.
UnknownReason ==
  /\ Looping
  /\ Cardinality(edges) >= query.edges
  /\ limit' = "truncated"
  /\ UNCHANGED <<calls, query, pass, walk, edges>>

EdgesFull ==
  /\ Looping
  /\ Cardinality(edges) >= query.edges
  /\ limit' = "edges"
  /\ UNCHANGED <<calls, query, pass, walk, edges>>

\* A frame's loop is through, or breaks because the walk was cut short.
Return ==
  /\ stack # <<>> /\ ~Looping
  /\ stack' = SubSeq(stack, 1, Len(stack) - 1)
  /\ UNCHANGED <<calls, query, pass, todo, visited, nodes, depthOf, edges, limit>>

Finish ==
  /\ stack = <<>>
  /\ pass = IF query.direction = "callees" THEN "callees" ELSE "callers"
  /\ pass' = "done"
  /\ UNCHANGED <<calls, query, walk, edges, limit>>

\* The result is returned; nothing else is left to do.
Done == pass = "done" /\ UNCHANGED vars

Next ==
  \/ \E way \in {"callees", "callers"} : Start(way) \/ Skip(way)
  \/ \E g \in Functions : Follow(g)
  \/ EdgesFull \/ Return \/ Finish \/ Done

Spec == Init /\ [][Next]_vars

-----------------------------------------------------------------------------

\* The reference: the least set of functions that holds the root and is
\* closed under the calls, and the calls out of (into) it.
Closed(S, way) == \A f \in S : Related(way, f) \subseteq S

Reach(way) ==
  {f \in Functions : \A S \in SUBSET Functions :
                        query.root \in S /\ Closed(S, way) => f \in S}

Links(way) ==
  {e \in calls : (IF way = "callees" THEN e[1] ELSE e[2]) \in Reach(way)}

\* A walk in one direction that reports no truncation returns the functions
\* that can be reached from the root and the calls between them, all of them
\* and nothing else, whatever cycles and shared callees the program has.
WalkIsExact ==
  pass = "done" /\ limit = "none" /\ query.direction # "both" =>
    nodes = Reach(query.direction) /\ edges = Links(query.direction)

\* A recorded depth is that of a real path: the root alone is at 0, and every
\* other node is one deeper than a node it is linked with in the result.
DepthsAreRealised ==
  \A f \in nodes :
    /\ depthOf[f] <= query.depth
    /\ f # query.root => \E g \in nodes :
         /\ depthOf[f] = depthOf[g] + 1
         /\ \/ query.direction # "callers" /\ <<g, f>> \in edges
            \/ query.direction # "callees" /\ <<f, g>> \in edges

\* The result is never larger than was asked for.
LimitsAreKept ==
  /\ nodes # {} => Cardinality(nodes) <= query.nodes
  /\ edges # {} => Cardinality(edges) <= query.edges

\* Truncation is reported only when something was left out: a program that
\* just fits the limits is not called truncated.
TruncationIsReal ==
  limit # "none" =>
    LET way == IF query.direction = "callers" THEN "callers" ELSE "callees"
    IN ~(Reach(way) \subseteq nodes /\ Links(way) \subseteq edges)

\* For both, the callers are traversed from the root after the callees
\* (tools/cfg.py:387-388).  The code violates it: the root counts as visited.
BothListsCallers ==
  pass = "done" /\ limit = "none" /\ query.direction = "both" =>
    Callers(query.root) \subseteq nodes
=============================================================================
