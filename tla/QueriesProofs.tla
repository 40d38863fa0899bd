---------------------------- MODULE QueriesProofs ----------------------------
(***************************************************************************)
(* Theorems about the parts of Queries: CallGraph, CfgNormalize (by the    *)
(* theorems of CfgNormalizeProofs), Projection and Paging.                 *)
(*                                                                         *)
(* CallGraph, for every finite set of functions, every program over it and *)
(* all limits.  The first pass of a walk is exact because a visited        *)
(* function's related functions are each still to be visited by its loop,  *)
(* or visited and linked (Accounted), a loop with something to visit is on *)
(* the stack (Pending), and only functions of every closed set around the  *)
(* root are entered (Sound): with the stack empty the nodes are a closed   *)
(* set, and the least one.                                                 *)
(*                                                                         *)
(* Projection, for every list of functions and all names (NamesInv), and   *)
(* Paging, for every finite set of entries and any number of changes       *)
(* (PagesInv): each is introduced where its invariant is defined.          *)
(***************************************************************************)
EXTENDS Queries, FiniteSetTheorems, TLAPS

OneWay == query.direction # "both"

\* The direction of the first pass, which is the only one that finds anything.
First == IF query.direction = "callers" THEN "callers" ELSE "callees"

\* What is shared by the proofs: the passes, and where the frames are.
Frames ==
  /\ pass = "start" =>
       /\ visited = {} /\ nodes = {} /\ edges = {} /\ limit = "none"
       /\ stack = <<>> /\ todo = [f \in Functions |-> {}]
  /\ pass = "done" => stack = <<>>
  /\ query.direction = "both" /\ pass # "start" /\ pass # "callees" => stack = <<>>
  /\ query.direction = "callers" => pass # "callees"
  /\ query.direction = "callees" => pass # "callers"
  /\ query.direction # "both" \/ pass = "callees" => nodes = visited
  /\ \A i \in 1..Len(stack) : stack[i] \in visited

Base == TypeOK /\ Frames

LEMMA InitBase == Init => Base
BY DEF Init, Base, TypeOK, Frames, Queries

\* The steps of a traversal, for the start of a pass and for the loop.
LEMMA TraverseBase ==
  ASSUME Base, NEW way \in {"callees", "callers"}, NEW f \in Functions,
         NEW old \in SUBSET Functions, NEW left \in [Functions -> SUBSET Functions],
         limit = "none", Traverse(way, f, old, left)
  PROVE  /\ stack' \in Seq(Functions) /\ todo' \in [Functions -> SUBSET Functions]
         /\ visited' \subseteq Functions /\ nodes' \subseteq Functions
         /\ depthOf' \in [Functions -> Nat]
         /\ limit' \in {"none", "depth", "nodes", "edges"}
         /\ visited' = old \/ visited' = old \cup {f}
         /\ (nodes = old => nodes' = visited')
         /\ \/ stack' = stack
            \/ stack' = Append(stack, f) /\ f \in visited' /\ f \notin old
<1> USE DEF Base, TypeOK
<1>1. CASE Seen(f, old, left)
  BY <1>1 DEF Seen
<1>2. CASE TooDeep(f, old, left)
  BY <1>2 DEF TooDeep, Stop
<1>3. CASE NoRoom(f, old, left)
  BY <1>3 DEF NoRoom, Stop
<1>4. CASE Enter(way, f, old, left)
  <2>1. Related(way, f) \subseteq Functions
    BY DEF Related, Callees, Callers
  <2>2. Len(stack) \in Nat
    OBVIOUS
  <2>3. depthOf' \in [Functions -> Nat] /\ todo' \in [Functions -> SUBSET Functions]
    BY <1>4, <2>1, <2>2 DEF Enter
  <2> QED BY <1>4, <2>3 DEF Enter
<1> QED BY <1>1, <1>2, <1>3, <1>4 DEF Traverse

\* How the loop calls traverse: on a function not yet visited by it.
LEMMA LinkContext ==
  ASSUME Base, Looping
  PROVE  /\ Len(stack) \in 1..Len(stack) /\ Top \in visited /\ Top \in Functions
         /\ pass \in {"callees", "callers"}
         /\ ~(query.direction = "both" /\ pass = "callers")
         /\ OneWay => pass = query.direction
         /\ pass = First
         /\ nodes = visited
         /\ \A g \in todo[Top] : [todo EXCEPT ![Top] = @ \ {g}] \in [Functions -> SUBSET Functions]
BY DEF Base, TypeOK, Frames, Looping, Top, Queries, OneWay, First

\* The passes and frames are as said, after every step.
LEMMA NextBase == Base /\ [Next]_vars => Base'
<1> SUFFICES ASSUME Base, [Next]_vars PROVE Base'
  OBVIOUS
<1> USE DEF Base, TypeOK, Queries
<1>1. ASSUME NEW way \in {"callees", "callers"}, Start(way) PROVE Base'
  <2>1. FirstVisited \in SUBSET Functions /\ query.root \in Functions /\ stack = <<>>
    BY <1>1 DEF FirstVisited, Start, Begin
  <2>2. /\ stack' \in Seq(Functions) /\ todo' \in [Functions -> SUBSET Functions]
        /\ visited' \subseteq Functions /\ nodes' \subseteq Functions
        /\ depthOf' \in [Functions -> Nat]
        /\ limit' \in {"none", "depth", "nodes", "edges"}
        /\ visited' = FirstVisited \/ visited' = FirstVisited \cup {query.root}
        /\ (nodes = FirstVisited => nodes' = visited')
        /\ \/ stack' = stack
           \/ stack' = Append(stack, query.root) /\ query.root \in visited'
                /\ query.root \notin FirstVisited
    <3>1. Traverse(way, query.root, FirstVisited, todo) /\ limit = "none"
      BY <1>1 DEF Start
    <3>2. todo \in [Functions -> SUBSET Functions]
      OBVIOUS
    <3> HIDE DEF Base, TypeOK
    <3> QED BY <2>1, <3>1, <3>2, TraverseBase
  <2>3. TypeOK'
    BY <1>1, <2>2 DEF Start, Begin
  <2>4. \A i \in 1..Len(stack') : stack'[i] \in visited'
    BY <2>1, <2>2
  <2>5. pass = "start" => nodes = FirstVisited
    BY DEF Frames, FirstVisited
  <2> QED BY <1>1, <2>1, <2>2, <2>3, <2>4, <2>5 DEF Start, Begin, Frames, FirstVisited
<1>2. ASSUME NEW way \in {"callees", "callers"}, Skip(way) PROVE Base'
  BY <1>2 DEF Skip, Begin, Frames, FirstVisited
<1>3. ASSUME NEW g \in Functions, Follow(g) PROVE Base'
  <2> DEFINE left == [todo EXCEPT ![Top] = @ \ {g}]
  <2>1. Looping /\ g \in todo[Top] /\ Traverse(pass, g, visited, left) /\ limit = "none"
    BY <1>3 DEF Follow, Link, Looping
  <2>2. /\ Top \in Functions /\ pass \in {"callees", "callers"} /\ nodes = visited
        /\ left \in [Functions -> SUBSET Functions]
        /\ ~(query.direction = "both" /\ pass = "callers")
    BY <2>1, LinkContext
  <2>3. /\ stack' \in Seq(Functions) /\ todo' \in [Functions -> SUBSET Functions]
        /\ visited' \subseteq Functions /\ nodes' \subseteq Functions
        /\ depthOf' \in [Functions -> Nat]
        /\ limit' \in {"none", "depth", "nodes", "edges"}
        /\ visited' = visited \/ visited' = visited \cup {g}
        /\ (nodes = visited => nodes' = visited')
        /\ \/ stack' = stack
           \/ stack' = Append(stack, g) /\ g \in visited' /\ g \notin visited
    <3>1. visited \in SUBSET Functions
      OBVIOUS
    <3> HIDE DEF left, Base, TypeOK
    <3> QED BY <2>1, <2>2, <3>1, TraverseBase
  <2>4. edges' \subseteq Functions \X Functions
    BY <1>3, <2>2 DEF Follow, Link, Edge
  <2>5. TypeOK'
    BY <1>3, <2>3, <2>4 DEF Follow
  <2>6. \A i \in 1..Len(stack') : stack'[i] \in visited'
    <3>1. ASSUME NEW i \in 1..Len(stack) PROVE stack[i] \in visited
      BY <3>1 DEF Frames
    <3>2. CASE stack' = stack
      BY <2>3, <3>1, <3>2
    <3>3. CASE stack' = Append(stack, g) /\ g \in visited'
      BY <2>3, <3>1, <3>3
    <3> QED BY <2>3, <3>2, <3>3
  <2> QED BY <1>3, <2>2, <2>3, <2>5, <2>6 DEF Follow, Frames
<1>4. CASE EdgesFull
  <2>1. pass # "start"
    BY <1>4 DEF EdgesFull, Looping, Frames
  <2> QED BY <1>4, <2>1 DEF EdgesFull, walk, Frames
<1>5. CASE Return
  <2>1. pass # "start" /\ pass # "done"
    BY <1>5 DEF Return, Frames
  <2>2. /\ stack' \in Seq(Functions)
        /\ \A i \in 1..Len(stack') : i \in 1..Len(stack) /\ stack'[i] = stack[i]
    BY <1>5 DEF Return
  <2>3. query.direction = "both" => pass = "callees"
    BY <1>5, <2>1 DEF Return, Frames
  <2> QED BY <1>5, <2>1, <2>2, <2>3 DEF Return, Frames
<1>6. CASE Finish
  BY <1>6 DEF Finish, walk, Frames
<1>7. CASE UNCHANGED vars
  BY <1>7 DEF vars, walk, Frames
<1> QED BY <1>1, <1>2, <1>3, <1>4, <1>5, <1>6, <1>7 DEF Next, Done

LEMMA BaseTheorem == Spec => []Base
BY InitBase, NextBase, PTL DEF Spec

\* The type invariant: every variable keeps to its declared range.
THEOREM TypeCorrect == Spec => []TypeOK
BY BaseTheorem, PTL DEF Base

-----------------------------------------------------------------------------

\* One more element in a finite set that is below a limit keeps it.
LEMMA AddOne ==
  ASSUME NEW S, IsFiniteSet(S), NEW e, NEW m \in Int, Cardinality(S) < m
  PROVE  IsFiniteSet(S \cup {e}) /\ Cardinality(S \cup {e}) <= m
<1>1. Cardinality(S) \in Nat
  BY FS_CardinalityType
<1>2. /\ IsFiniteSet(S \cup {e})
      /\ Cardinality(S \cup {e}) = Cardinality(S) \/ Cardinality(S \cup {e}) = Cardinality(S) + 1
  BY FS_AddElement
<1> QED BY <1>1, <1>2

\* What is returned never exceeds max_nodes and max_edges.
THEOREM LimitsHold == Spec => []LimitsAreKept
<1>1. Init => LimitsAreKept
  BY DEF Init, LimitsAreKept
<1>2. Base => IsFiniteSet(nodes) /\ IsFiniteSet(edges)
  <2> SUFFICES ASSUME Base PROVE IsFiniteSet(nodes) /\ IsFiniteSet(edges)
    OBVIOUS
  <2>1. IsFiniteSet(Functions \X Functions)
    BY FS_Product, CallGraphAssumption
  <2>2. nodes \subseteq Functions /\ edges \subseteq Functions \X Functions
    BY DEF Base, TypeOK
  <2> QED BY <2>1, <2>2, FS_Subset, CallGraphAssumption
<1>3. Base => query.nodes \in Int /\ query.edges \in Int
  BY CallGraphAssumption DEF Base, TypeOK, Queries
<1>4. ASSUME Base, LimitsAreKept, [Next]_vars PROVE LimitsAreKept'
  <2> USE <1>2, <1>3, <1>4
  <2>1. ASSUME NEW way, NEW f, NEW old, NEW left, Traverse(way, f, old, left)
        PROVE  nodes' = nodes \/ (Cardinality(nodes) < query.nodes /\ nodes' = nodes \cup {f})
    <3>1. Cardinality(nodes) \in Nat
      BY FS_CardinalityType
    <3> QED BY <2>1, <3>1 DEF Traverse, Seen, TooDeep, NoRoom, Stop, Enter, NodesFull
  <2>2. \/ nodes' = nodes
        \/ Cardinality(nodes) < query.nodes /\ \E f : nodes' = nodes \cup {f}
    BY <2>1 DEF Next, Start, Skip, Follow, Link, EdgesFull, Return, Finish, Done, vars, walk
  <2>3. \/ edges' = edges
        \/ Cardinality(edges) < query.edges /\ \E e : edges' = edges \cup {e}
    BY DEF Next, Start, Skip, Begin, Follow, Link, EdgesFull, Return, Finish, Done, vars
  <2>4. query' = query
    BY DEF Next, Start, Skip, Begin, Follow, EdgesFull, Return, Finish, Done, vars
  <2>5. nodes' # {} => Cardinality(nodes') <= query.nodes
    BY <2>2, AddOne DEF LimitsAreKept
  <2>6. edges' # {} => Cardinality(edges') <= query.edges
    BY <2>3, AddOne DEF LimitsAreKept
  <2> QED BY <2>4, <2>5, <2>6 DEF LimitsAreKept
<1> QED BY <1>1, <1>4, BaseTheorem, PTL DEF Spec

-----------------------------------------------------------------------------

\* A loop only holds functions related to its own.
Todo == \A f \in Functions : todo[f] \subseteq Related(First, f)

\* Nothing is entered that some closed set around the root leaves out.
Sound == \A S \in SUBSET Functions :
  query.root \in S /\ Closed(S, First) => nodes \subseteq S

\* An edge is a call out of (into) a node.
EdgesAreCalls == \A e \in edges :
  e \in calls /\ (IF First = "callees" THEN e[1] ELSE e[2]) \in nodes

\* What is related to a node is still to be visited by its loop, or a node and
\* linked.
Accounted == limit = "none" =>
  \A f \in nodes : \A g \in Related(First, f) :
    g \in todo[f] \/ (g \in nodes /\ Edge(First, f, g) \in edges)

\* A loop with something to visit is on the stack.
Pending == limit = "none" =>
  \A f \in Functions : todo[f] # {} => \E i \in 1..Len(stack) : stack[i] = f

RootVisited == limit = "none" /\ pass # "start" => query.root \in nodes

ExactInv == Todo /\ Sound /\ EdgesAreCalls /\ Accounted /\ Pending /\ RootVisited

LEMMA InitExact == Init => ExactInv
BY DEF Init, ExactInv, Todo, Sound, EdgesAreCalls, Accounted, Pending, RootVisited

\* One call of traverse in the direction of the first pass, from a loop that has
\* taken f off its list and linked it.
LEMMA TraverseExact ==
  ASSUME Base, limit = "none", NEW f \in Functions,
         NEW left \in [Functions -> SUBSET Functions],
         Traverse(First, f, visited, left),
         UNCHANGED <<calls, query>>, nodes = visited,
         \A h \in Functions : left[h] \subseteq Related(First, h),
         \A S \in SUBSET Functions :
           query.root \in S /\ Closed(S, First) => nodes \subseteq S /\ f \in S,
         EdgesAreCalls', pass' # "start",
         query.root \in visited \cup {f},
         \A h \in visited : \A g \in Related(First, h) :
           \/ g \in left[h]
           \/ g \in visited \cup {f} /\ Edge(First, h, g) \in edges',
         \A h \in Functions : left[h] # {} => \E i \in 1..Len(stack) : stack[i] = h
  PROVE  ExactInv'
<1> DEFINE dir == First
<1>0. /\ \A h : Related(dir, h)' = Related(dir, h)
      /\ \A S : Closed(S, dir)' = Closed(S, dir)
      /\ \A h, g : Edge(dir, h, g)' = Edge(dir, h, g)
      /\ First' = dir /\ query.root' = query.root
  BY DEF First, Related, Callees, Callers, Closed, Edge
<1> USE <1>0
<1>1. CASE Seen(f, visited, left) \/ TooDeep(f, visited, left) \/ NoRoom(f, visited, left)
  <2>1. /\ visited' = visited /\ todo' = left /\ UNCHANGED <<stack, nodes>>
        /\ limit' = "none" => f \in visited
    BY <1>1 DEF Seen, TooDeep, NoRoom, Stop
  <2>2. Todo'
    BY <2>1 DEF Todo
  <2>3. Sound'
    BY <2>1 DEF Sound
  <2>4. Accounted'
    BY <2>1 DEF Accounted
  <2>5. Pending' /\ RootVisited'
    BY <2>1 DEF Pending, RootVisited
  <2> QED BY <2>2, <2>3, <2>4, <2>5 DEF ExactInv
<1>2. CASE Enter(dir, f, visited, left)
  <2>1. /\ visited' = visited \cup {f} /\ nodes' = nodes \cup {f}
        /\ todo' = [left EXCEPT ![f] = Related(dir, f)]
        /\ stack' = Append(stack, f) /\ f \notin visited
    BY <1>2 DEF Enter
  <2>2. Todo'
    BY <2>1 DEF Todo
  <2>3. Sound'
    BY <2>1 DEF Sound
  <2>4. Accounted'
    <3>1. visited \subseteq Functions
      BY DEF Base, TypeOK
    <3> QED BY <2>1, <3>1 DEF Accounted
  <2>5. Pending'
    <3>1. stack \in Seq(Functions)
      BY DEF Base, TypeOK
    <3>2. /\ Len(stack') = Len(stack) + 1 /\ stack'[Len(stack) + 1] = f
          /\ \A i \in 1..Len(stack) : stack'[i] = stack[i]
      BY <2>1, <3>1
    <3>3. Len(stack) \in Nat
      BY <3>1
    <3> SUFFICES ASSUME NEW h \in Functions, todo'[h] # {}
                 PROVE  \E i \in 1..Len(stack') : stack'[i] = h
      BY DEF Pending
    <3>4. CASE h = f
      BY <3>2, <3>3, <3>4
    <3>5. CASE h # f
      BY <2>1, <3>2, <3>3, <3>5
    <3> QED BY <3>4, <3>5
  <2>6. RootVisited'
    BY <2>1 DEF RootVisited
  <2> QED BY <2>2, <2>3, <2>4, <2>5, <2>6 DEF ExactInv
<1> QED BY <1>1, <1>2 DEF Traverse

\* Every step of a walk keeps the exactness invariant.
LEMMA NextExact == Base /\ ExactInv /\ [Next]_vars => ExactInv'
<1> SUFFICES ASSUME Base, ExactInv, [Next]_vars PROVE ExactInv'
  OBVIOUS
<1> DEFINE dir == First
<1>0. Todo /\ Sound /\ EdgesAreCalls /\ Accounted /\ Pending /\ RootVisited
  BY DEF ExactInv
<1>1. ASSUME UNCHANGED <<calls, query, stack, todo, nodes, edges>>,
             limit' = "none" => limit = "none" /\ pass # "start"
      PROVE  ExactInv'
  BY <1>0, <1>1 DEF ExactInv, Todo, Sound, EdgesAreCalls, Accounted, Pending, RootVisited,
                    First, Related, Callees, Callers, Closed, Edge
<1>2. ASSUME NEW way \in {"callees", "callers"}, Start(way) PROVE ExactInv'
  <2>1. CASE pass = "start"
    <3>1. way = dir
      BY <1>2, <2>1 DEF Start, Begin, First
    <3>2. /\ visited = {} /\ nodes = {} /\ edges = {} /\ FirstVisited = visited
          /\ todo = [f \in Functions |-> {}]
      BY <2>1 DEF Base, Frames, FirstVisited
    <3>3. /\ Traverse(dir, query.root, visited, todo) /\ UNCHANGED <<calls, query, edges>>
          /\ limit = "none" /\ pass' # "start"
      BY <1>2, <3>1, <3>2 DEF Start, Begin
    <3>4. query.root \in Functions /\ todo \in [Functions -> SUBSET Functions]
      BY DEF Base, TypeOK, Queries
    <3>5. EdgesAreCalls'
      BY <3>2, <3>3 DEF EdgesAreCalls
    <3> QED BY <3>2, <3>3, <3>4, <3>5, TraverseExact
  <2>2. CASE pass # "start"
    <3>1. FirstVisited = {query.root} /\ UNCHANGED <<calls, query, edges>>
      BY <1>2, <2>2 DEF Start, Begin, FirstVisited
    <3>2. Seen(query.root, FirstVisited, todo) /\ limit = "none"
      BY <1>2, <3>1 DEF Start, Traverse, Seen, TooDeep, NoRoom, Enter
    <3> QED BY <1>1, <2>2, <3>1, <3>2 DEF Seen
  <2> QED BY <2>1, <2>2
<1>3. ASSUME NEW way \in {"callees", "callers"}, Skip(way) PROVE ExactInv'
  BY <1>3, <1>1 DEF Skip, Begin
<1>4. ASSUME NEW g \in Functions, Follow(g) PROVE ExactInv'
  <2> DEFINE left == [todo EXCEPT ![Top] = @ \ {g}]
  <2>1. /\ Looping /\ g \in todo[Top] /\ limit = "none" /\ pass' = pass
        /\ UNCHANGED <<calls, query>>
        /\ edges' = edges \cup {Edge(pass, Top, g)}
        /\ Traverse(pass, g, visited, left)
    BY <1>4 DEF Follow, Link, Looping
  <2>2. /\ Top \in visited /\ Top \in Functions /\ pass = dir /\ nodes = visited
        /\ left \in [Functions -> SUBSET Functions] /\ dir \in {"callees", "callers"}
    BY <2>1, LinkContext
  <2>3. g \in Related(dir, Top)
    BY <1>0, <2>1, <2>2 DEF Todo
  <2>4. todo \in [Functions -> SUBSET Functions]
    BY DEF Base, TypeOK
  <2>5. \A h \in Functions : left[h] \subseteq Related(dir, h)
    BY <1>0, <2>2, <2>4 DEF Todo
  <2>6. \A S \in SUBSET Functions :
          query.root \in S /\ Closed(S, dir) => nodes \subseteq S /\ g \in S
    BY <1>0, <2>2, <2>3 DEF Sound, Closed
  <2>7. EdgesAreCalls'
    <3>1. nodes \subseteq nodes'
      BY <2>1 DEF Traverse, Seen, TooDeep, NoRoom, Stop, Enter
    <3>2. LET e == Edge(dir, Top, g)
          IN e \in calls /\ (IF dir = "callees" THEN e[1] ELSE e[2]) = Top
      BY <2>2, <2>3 DEF Edge, Related, Callees, Callers
    <3>3. First' = dir
      BY <2>1 DEF First
    <3> QED BY <1>0, <2>1, <2>2, <3>1, <3>2, <3>3 DEF EdgesAreCalls
  <2>8. \A h \in visited : \A f \in Related(dir, h) :
          \/ f \in left[h]
          \/ f \in visited \cup {g} /\ Edge(dir, h, f) \in edges'
    <3> SUFFICES ASSUME NEW h \in visited, NEW f \in Related(dir, h), f \notin left[h]
                 PROVE  f \in visited \cup {g} /\ Edge(dir, h, f) \in edges'
      OBVIOUS
    <3>1. h \in Functions
      BY DEF Base, TypeOK
    <3>2. CASE f \in todo[h]
      <4>1. h = Top /\ f = g
        BY <2>2, <2>4, <3>1, <3>2
      <4> QED BY <2>1, <2>2, <4>1
    <3>3. CASE f \notin todo[h]
      BY <1>0, <2>1, <2>2, <3>3 DEF Accounted
    <3> QED BY <3>2, <3>3
  <2>9. \A h \in Functions : left[h] # {} => \E i \in 1..Len(stack) : stack[i] = h
    <3> SUFFICES ASSUME NEW h \in Functions, left[h] # {}
                 PROVE  \E i \in 1..Len(stack) : stack[i] = h
      OBVIOUS
    <3>1. todo[h] # {}
      BY <2>2, <2>4
    <3> QED BY <1>0, <2>1, <3>1 DEF Pending
  <2>10. query.root \in visited \cup {g} /\ pass' # "start"
    BY <1>0, <2>1, <2>2 DEF RootVisited
  <2> HIDE DEF left
  <2> QED BY <2>1, <2>2, <2>5, <2>6, <2>7, <2>8, <2>9, <2>10, TraverseExact
<1>5. CASE EdgesFull
  BY <1>5, <1>1 DEF EdgesFull, walk
<1>6. CASE Return
  <2>1. stack \in Seq(Functions) /\ stack # <<>>
    BY <1>6 DEF Return, Base, TypeOK
  <2>2. /\ UNCHANGED <<calls, query, pass, todo, visited, nodes, edges, limit>>
        /\ \A i \in 1..Len(stack) : i # Len(stack) =>
              i \in 1..Len(stack') /\ stack'[i] = stack[i]
    BY <1>6, <2>1 DEF Return
  <2>3. Pending'
    <3> SUFFICES ASSUME limit = "none", NEW h \in Functions, todo[h] # {}
                 PROVE  \E i \in 1..Len(stack') : stack'[i] = h
      BY <2>2 DEF Pending
    <3>1. PICK i \in 1..Len(stack) : stack[i] = h
      BY <1>0 DEF Pending
    <3>2. i # Len(stack)
      BY <1>6, <3>1 DEF Return, Looping, Top
    <3> QED BY <2>2, <3>1, <3>2
  <2> QED BY <1>0, <2>2, <2>3 DEF ExactInv, Todo, Sound, EdgesAreCalls, Accounted, RootVisited,
                                  First, Related, Callees, Callers, Closed, Edge
<1>7. CASE Finish \/ UNCHANGED vars
  <2>1. CASE Finish
    <3>1. pass # "start"
      BY <2>1 DEF Finish, Base, TypeOK, Queries
    <3> QED BY <1>1, <2>1, <3>1 DEF Finish, walk
  <2>2. CASE UNCHANGED vars
    <3>1. CASE pass # "start"
      BY <1>1, <2>2, <3>1 DEF vars, walk
    <3>2. CASE pass = "start"
      <4>1. /\ UNCHANGED <<calls, query, pass>> /\ nodes' = {} /\ edges' = {}
            /\ todo' = [f \in Functions |-> {}]
        BY <2>2, <3>2 DEF vars, walk, Base, Frames
      <4>2. Todo' /\ Pending'
        BY <4>1 DEF Todo, Pending
      <4>3. Sound' /\ EdgesAreCalls' /\ Accounted' /\ RootVisited'
        BY <3>2, <4>1 DEF Sound, EdgesAreCalls, Accounted, RootVisited
      <4> QED BY <4>2, <4>3 DEF ExactInv
    <3> QED BY <3>1, <3>2
  <2> QED BY <1>7, <2>1, <2>2
<1> QED BY <1>2, <1>3, <1>4, <1>5, <1>6, <1>7 DEF Next, Done

\* When all is done and nothing was cut short, the nodes and edges are those of
\* the first pass: everything that can be reached in its direction.
LEMMA FirstPassIsExact ==
  ASSUME Base, ExactInv, pass = "done", limit = "none"
  PROVE  nodes = Reach(First) /\ edges = Links(First)
<1> DEFINE dir == First
<1>0. Todo /\ Sound /\ EdgesAreCalls /\ Accounted /\ Pending /\ RootVisited
  BY DEF ExactInv
<1>1. /\ nodes \subseteq Functions /\ query.root \in nodes
      /\ dir \in {"callees", "callers"} /\ calls \subseteq Functions \X Functions
  BY <1>0 DEF Base, TypeOK, RootVisited, First
<1>2. \A f \in Functions : todo[f] = {}
  BY <1>0 DEF Pending, Base, Frames
<1>3. \A f \in nodes : \A g \in Related(dir, f) : g \in nodes /\ Edge(dir, f, g) \in edges
  BY <1>0, <1>1, <1>2 DEF Accounted
<1>4. Closed(nodes, dir)
  BY <1>3 DEF Closed
<1>5. nodes = Reach(dir)
  BY <1>0, <1>1, <1>4 DEF Reach, Sound
<1>6. edges \subseteq Links(dir)
  BY <1>0, <1>5 DEF EdgesAreCalls, Links
<1>7. Links(dir) \subseteq edges
  <2> SUFFICES ASSUME NEW e \in Links(dir) PROVE e \in edges
    OBVIOUS
  <2>1. /\ e \in calls /\ e[1] \in Functions /\ e[2] \in Functions /\ e = <<e[1], e[2]>>
        /\ (IF dir = "callees" THEN e[1] ELSE e[2]) \in nodes
    BY <1>1, <1>5 DEF Links
  <2>2. CASE dir = "callees"
    BY <1>3, <2>1, <2>2 DEF Related, Callees, Edge
  <2>3. CASE dir = "callers"
    BY <1>3, <2>1, <2>3 DEF Related, Callers, Edge
  <2> QED BY <1>1, <2>2, <2>3
<1> QED BY <1>5, <1>6, <1>7

\* A walk in one direction that is not cut short returns exactly what can be
\* reached from the root, in every program.
THEOREM WalkExact == Spec => []WalkIsExact
<1>1. Base /\ ExactInv => WalkIsExact
  BY FirstPassIsExact DEF WalkIsExact, First, Base, TypeOK, Queries
<1>2. Spec => []ExactInv
  BY InitExact, NextExact, BaseTheorem, PTL DEF Spec
<1> QED BY <1>1, <1>2, BaseTheorem, PTL

\* What direction="both" returns in every program: the callees, as
\* direction="callees" would, and not one caller more.  The second pass of
\* callgraph_sync finds its root among the visited and returns at once.
BothIsCallees ==
  pass = "done" /\ limit = "none" /\ query.direction = "both" =>
    nodes = Reach("callees") /\ edges = Links("callees")

\* What the run callgraph_both shows of one program holds of all of them: a
\* caller is listed only if it is a callee as well.
THEOREM BothReturnsCallees == Spec => []BothIsCallees
<1>1. Base /\ ExactInv => BothIsCallees
  BY FirstPassIsExact DEF BothIsCallees, First
<1>2. Spec => []ExactInv
  BY InitExact, NextExact, BaseTheorem, PTL DEF Spec
<1> QED BY <1>1, <1>2, BaseTheorem, PTL

-----------------------------------------------------------------------------

\* The frames' depths are those recorded for their functions.
FramesHaveDepths ==
  \A i \in 1..Len(stack) : stack[i] \in nodes /\ depthOf[stack[i]] = i - 1

DepthInv == FramesHaveDepths /\ DepthsAreRealised

\* Every step keeps the recorded depths realised.
LEMMA NextDepth == Base /\ DepthInv /\ [Next]_vars => DepthInv'
<1> SUFFICES ASSUME Base, DepthInv, [Next]_vars PROVE DepthInv'
  OBVIOUS
<1>0. /\ stack \in Seq(Functions) /\ depthOf \in [Functions -> Nat] /\ nodes \subseteq Functions
      /\ query.direction \in {"callees", "callers", "both"} /\ query.root \in Functions
      /\ query.depth \in Int
      /\ \A i \in 1..Len(stack) : stack[i] \in nodes /\ depthOf[stack[i]] = i - 1
  BY CallGraphAssumption DEF Base, TypeOK, Queries, DepthInv, FramesHaveDepths
<1>1. ASSUME UNCHANGED <<query, stack, nodes, depthOf>>, edges \subseteq edges' PROVE DepthInv'
  BY <1>1, <1>0 DEF DepthInv, FramesHaveDepths, DepthsAreRealised
<1>2. ASSUME NEW way, NEW f, NEW old, NEW left, Traverse(way, f, old, left),
            ~Enter(way, f, old, left)
      PROVE  UNCHANGED <<stack, nodes, depthOf>>
  BY <1>2 DEF Traverse, Seen, TooDeep, NoRoom, Stop
<1>3. ASSUME NEW f \in Functions, NEW way, NEW left, Enter(way, f, nodes, left),
            UNCHANGED query, edges \subseteq edges',
            f # query.root =>
              /\ stack # <<>>
              /\ \/ query.direction # "callers" /\ <<Top, f>> \in edges'
                 \/ query.direction # "callees" /\ <<f, Top>> \in edges'
      PROVE  DepthInv'
  <2>1. /\ f \notin nodes /\ Len(stack) <= query.depth /\ nodes' = nodes \cup {f}
        /\ depthOf' = [depthOf EXCEPT ![f] = Len(stack)] /\ stack' = Append(stack, f)
    BY <1>0, <1>3 DEF Enter, Deep
  <2>2. /\ Len(stack') = Len(stack) + 1 /\ stack'[Len(stack) + 1] = f /\ Len(stack) \in Nat
        /\ \A i \in 1..Len(stack) : stack'[i] = stack[i]
    BY <2>1, <1>0
  <2>3. depthOf'[f] = Len(stack) /\ \A g \in nodes : depthOf'[g] = depthOf[g]
    BY <2>1, <1>0
  <2>4. FramesHaveDepths'
    <3> SUFFICES ASSUME NEW i \in 1..Len(stack')
                 PROVE  stack'[i] \in nodes' /\ depthOf'[stack'[i]] = i - 1
      BY DEF FramesHaveDepths
    <3>1. CASE i = Len(stack) + 1
      BY <2>1, <2>2, <2>3, <3>1
    <3>2. CASE i # Len(stack) + 1
      <4>1. i \in 1..Len(stack)
        BY <2>2, <3>2
      <4> QED BY <1>0, <2>1, <2>2, <2>3, <4>1
    <3> QED BY <3>1, <3>2
  <2>5. ASSUME f # query.root
        PROVE  Top \in nodes /\ depthOf'[f] = depthOf'[Top] + 1
    <3>1. Len(stack) \in 1..Len(stack)
      BY <1>0, <1>3, <2>5
    <3>2. Top \in nodes /\ depthOf[Top] = Len(stack) - 1
      BY <1>0, <3>1 DEF Top
    <3> QED BY <2>2, <2>3, <3>2
  <2>6. DepthsAreRealised'
    <3> SUFFICES ASSUME NEW h \in nodes'
                 PROVE  /\ depthOf'[h] <= query.depth
                        /\ h # query.root => \E g \in nodes' :
                             /\ depthOf'[h] = depthOf'[g] + 1
                             /\ \/ query.direction # "callers" /\ <<g, h>> \in edges'
                                \/ query.direction # "callees" /\ <<h, g>> \in edges'
      BY <1>3 DEF DepthsAreRealised
    <3>1. CASE h = f
      BY <1>3, <2>1, <2>3, <2>5, <3>1
    <3>2. CASE h \in nodes
      <4>1. depthOf[h] <= query.depth
        BY <3>2 DEF DepthInv, DepthsAreRealised
      <4>2. ASSUME h # query.root
            PROVE  \E g \in nodes : /\ depthOf[h] = depthOf[g] + 1
                                    /\ \/ query.direction # "callers" /\ <<g, h>> \in edges
                                       \/ query.direction # "callees" /\ <<h, g>> \in edges
        BY <3>2, <4>2 DEF DepthInv, DepthsAreRealised
      <4> QED BY <1>3, <2>1, <2>3, <3>2, <4>1, <4>2
    <3> QED BY <2>1, <3>1, <3>2
  <2> QED BY <2>4, <2>6 DEF DepthInv
<1>4. ASSUME NEW way \in {"callees", "callers"}, Start(way) PROVE DepthInv'
  <2>1. /\ UNCHANGED <<query, edges>>
        /\ Traverse(way, query.root, FirstVisited, todo)
    BY <1>4 DEF Start, Begin
  <2>2. CASE pass = "start"
    <3>1. FirstVisited = nodes
      BY <2>2 DEF Base, Frames, FirstVisited
    <3> QED BY <1>0, <1>1, <1>2, <1>3, <2>1, <3>1
  <2>3. CASE pass # "start"
    <3>1. ~Enter(way, query.root, FirstVisited, todo)
      BY <2>3 DEF Enter, FirstVisited
    <3> QED BY <1>1, <1>2, <2>1, <3>1
  <2> QED BY <2>2, <2>3
<1>5. ASSUME NEW g \in Functions, Follow(g) PROVE DepthInv'
  <2> DEFINE left == [todo EXCEPT ![Top] = @ \ {g}]
  <2>1. /\ Looping /\ UNCHANGED query /\ stack # <<>>
        /\ edges' = edges \cup {Edge(pass, Top, g)}
        /\ Traverse(pass, g, visited, left)
    BY <1>5 DEF Follow, Link, Looping
  <2>2. /\ visited = nodes /\ pass \in {"callees", "callers"}
        /\ ~(query.direction = "both" /\ pass = "callers")
        /\ query.direction # "both" => pass = query.direction
    BY <2>1, LinkContext DEF OneWay
  <2>3. \/ query.direction # "callers" /\ <<Top, g>> \in edges'
        \/ query.direction # "callees" /\ <<g, Top>> \in edges'
    BY <1>0, <2>1, <2>2 DEF Edge
  <2> HIDE DEF left
  <2>4. CASE Enter(pass, g, visited, left)
    BY <1>3, <2>1, <2>2, <2>3, <2>4
  <2>5. CASE ~Enter(pass, g, visited, left)
    BY <1>1, <1>2, <2>1, <2>5
  <2> QED BY <2>4, <2>5
<1>6. CASE Return
  <2>1. /\ UNCHANGED <<query, nodes, depthOf, edges>>
        /\ \A i \in 1..Len(stack') : i \in 1..Len(stack) /\ stack'[i] = stack[i]
    BY <1>0, <1>6 DEF Return
  <2> QED BY <1>0, <2>1 DEF DepthInv, FramesHaveDepths, DepthsAreRealised
<1>7. ASSUME (\E way \in {"callees", "callers"} : Skip(way)) \/ EdgesFull \/ Finish \/ UNCHANGED vars
      PROVE  DepthInv'
  BY <1>1, <1>7 DEF Skip, Begin, EdgesFull, Finish, vars, walk
<1> QED BY <1>4, <1>5, <1>6, <1>7 DEF Next, Done

\* Every recorded depth is within max_depth and is that of a path of edges.
THEOREM DepthsHold == Spec => []DepthsAreRealised
<1>1. Init => DepthInv
  BY DEF Init, DepthInv, FramesHaveDepths, DepthsAreRealised
<1> QED BY <1>1, NextDepth, BaseTheorem, PTL DEF Spec, DepthInv

-----------------------------------------------------------------------------

\* A loop has only functions related to its own before it, and has linked none
\* of them yet.
Unlinked == \A f \in Functions : \A g \in todo[f] :
  g \in Related(First, f) /\ Edge(First, f, g) \notin edges

\* Edges leave the nodes, and every node can be reached.
FromNodes == \A e \in edges : (IF First = "callees" THEN e[1] ELSE e[2]) \in nodes
Reachable == nodes \subseteq Reach(First)

RealInv == Unlinked /\ FromNodes /\ Reachable /\ TruncationIsReal

LEMMA InitReal == Init => RealInv
BY DEF Init, RealInv, Unlinked, FromNodes, Reachable, TruncationIsReal

LEMMA RootIsReached == Base => query.root \in Reach(First)
BY DEF Base, TypeOK, Queries, Reach

\* What is related to a function that can be reached can be reached.
LEMMA ReachIsClosed ==
  ASSUME Base, NEW f \in Reach(First), NEW g \in Related(First, f)
  PROVE  g \in Reach(First)
BY DEF Reach, Closed, Related, Callees, Callers

\* One call of traverse on f, from a loop that has taken it off its list.
LEMMA TraverseReal ==
  ASSUME Base, limit = "none", Reachable, NEW f \in Reach(First),
         NEW left \in [Functions -> SUBSET Functions],
         Traverse(First, f, nodes, left),
         UNCHANGED <<calls, query>>, FromNodes',
         \A h \in Functions : \A g \in left[h] :
           g \in Related(First, h) /\ Edge(First, h, g) \notin edges',
         f \notin nodes => \A g \in Functions : Edge(First, f, g) \notin edges'
  PROVE  RealInv'
<1>0. /\ First' = First /\ Reach(First)' = Reach(First)
      /\ \A h : Related(First, h)' = Related(First, h)
      /\ \A h, g : Edge(First, h, g)' = Edge(First, h, g)
  BY DEF First, Reach, Closed, Related, Callees, Callers, Edge
<1>1. f \in Functions
  BY DEF Reach
<1>2. CASE Seen(f, nodes, left)
  <2>1. todo' = left /\ nodes' = nodes /\ limit' = "none"
    BY <1>2 DEF Seen
  <2> QED BY <1>0, <2>1 DEF RealInv, Unlinked, Reachable, TruncationIsReal
<1>3. CASE TooDeep(f, nodes, left) \/ NoRoom(f, nodes, left)
  <2>1. todo' = left /\ nodes' = nodes /\ f \notin nodes
    BY <1>3 DEF TooDeep, NoRoom, Stop
  <2>2. TruncationIsReal'
    BY <1>0, <2>1 DEF TruncationIsReal, First
  <2> QED BY <1>0, <2>1, <2>2 DEF RealInv, Unlinked, Reachable
<1>4. CASE Enter(First, f, nodes, left)
  <2>1. /\ todo' = [left EXCEPT ![f] = Related(First, f)] /\ limit' = "none"
        /\ nodes' = nodes \cup {f} /\ f \notin nodes
    BY <1>4 DEF Enter
  <2>2. Unlinked'
    <3> SUFFICES ASSUME NEW h \in Functions, NEW g \in todo'[h]
                 PROVE  g \in Related(First, h) /\ Edge(First, h, g) \notin edges'
      BY <1>0 DEF Unlinked
    <3>1. CASE h = f
      BY <2>1, <3>1 DEF Related, Callees, Callers
    <3>2. CASE h # f
      BY <2>1, <3>2
    <3> QED BY <3>1, <3>2
  <2> QED BY <1>0, <2>1, <2>2 DEF RealInv, Reachable, TruncationIsReal
<1> QED BY <1>2, <1>3, <1>4 DEF Traverse

\* A step that is not part of a traversal and does not cut the walk short.
LEMMA QuietReal ==
  ASSUME RealInv, UNCHANGED <<calls, query, todo, nodes, edges, limit>>
  PROVE  RealInv'
BY DEF RealInv, Unlinked, FromNodes, Reachable, TruncationIsReal, First, Reach, Links, Closed,
       Related, Callees, Callers, Edge

LEMMA NextReal == Base /\ RealInv /\ [Next]_vars => RealInv'
<1> SUFFICES ASSUME Base, RealInv, [Next]_vars PROVE RealInv'
  OBVIOUS
<1>0. Unlinked /\ FromNodes /\ Reachable /\ TruncationIsReal
  BY DEF RealInv
<1>1. ASSUME NEW way \in {"callees", "callers"}, Start(way) PROVE RealInv'
  <2>1. /\ UNCHANGED <<calls, query, edges>> /\ limit = "none"
        /\ Traverse(way, query.root, FirstVisited, todo)
    BY <1>1 DEF Start, Begin
  <2>2. CASE pass = "start"
    <3>1. FirstVisited = nodes /\ edges = {} /\ todo = [f \in Functions |-> {}] /\ way = First
      BY <1>1, <2>2 DEF Base, Frames, FirstVisited, Start, Begin, First
    <3>2. todo \in [Functions -> SUBSET Functions]
      BY DEF Base, TypeOK
    <3>3. FromNodes'
      BY <2>1, <3>1 DEF FromNodes
    <3> QED BY <1>0, <2>1, <3>1, <3>2, <3>3, RootIsReached, TraverseReal
  <2>3. CASE pass # "start"
    <3>1. query.root \in FirstVisited
      BY <2>3 DEF FirstVisited
    <3>2. UNCHANGED <<todo, nodes, limit>>
      BY <2>1, <3>1 DEF Traverse, Seen, TooDeep, NoRoom, Enter
    <3> QED BY <2>1, <3>2, QuietReal
  <2> QED BY <2>2, <2>3
<1>2. ASSUME NEW g \in Functions, Follow(g) PROVE RealInv'
  <2> DEFINE left == [todo EXCEPT ![Top] = @ \ {g}]
  <2>1. /\ Looping /\ g \in todo[Top] /\ limit = "none" /\ UNCHANGED <<calls, query>>
        /\ edges' = edges \cup {Edge(pass, Top, g)}
        /\ Traverse(pass, g, visited, left)
    BY <1>2 DEF Follow, Link, Looping
  <2>2. /\ Top \in visited /\ Top \in Functions /\ nodes = visited
        /\ left \in [Functions -> SUBSET Functions] /\ pass = First
    BY <2>1, LinkContext DEF First, OneWay, Base, TypeOK, Queries
  <2>3. g \in Reach(First)
    BY <1>0, <2>1, <2>2, ReachIsClosed DEF Unlinked, Reachable
  <2>4. nodes \subseteq nodes'
    BY <2>1 DEF Traverse, Seen, TooDeep, NoRoom, Stop, Enter
  <2>5. FromNodes'
    <3>1. \A e \in edges' : (IF First = "callees" THEN e[1] ELSE e[2]) \in nodes
      BY <1>0, <2>1, <2>2 DEF FromNodes, Edge
    <3> QED BY <2>1, <2>4, <3>1 DEF FromNodes, First
  <2>6. ASSUME NEW h \in Functions, NEW f \in left[h]
        PROVE  f \in Related(First, h) /\ Edge(First, h, f) \notin edges'
    <3>1. todo \in [Functions -> SUBSET Functions]
      BY DEF Base, TypeOK
    <3>2. f \in todo[h] /\ <<h, f>> # <<Top, g>>
      BY <2>2, <2>6, <3>1
    <3>3. Edge(First, h, f) # Edge(First, Top, g)
      BY <3>2 DEF Edge
    <3> QED BY <1>0, <2>1, <2>2, <3>2, <3>3 DEF Unlinked
  <2>7. ASSUME g \notin nodes, NEW f \in Functions PROVE Edge(First, g, f) \notin edges'
    <3>1. (IF First = "callees" THEN Edge(First, g, f)[1] ELSE Edge(First, g, f)[2]) = g
      BY DEF Edge
    <3>2. Edge(First, g, f) \notin edges
      BY <1>0, <2>7, <3>1 DEF FromNodes
    <3>3. Edge(First, g, f) # Edge(First, Top, g)
      BY <2>2, <2>7 DEF Edge
    <3> QED BY <2>1, <2>2, <3>2, <3>3
  <2> HIDE DEF left
  <2> QED BY <1>0, <2>1, <2>2, <2>3, <2>5, <2>6, <2>7, TraverseReal
<1>3. CASE EdgesFull
  <2>1. Looping /\ UNCHANGED <<calls, query, todo, nodes, edges>>
    BY <1>3 DEF EdgesFull, walk
  <2>2. Top \in nodes /\ Top \in Functions /\ todo[Top] # {}
    BY <2>1, LinkContext DEF Looping
  <2>3. PICK g \in todo[Top] : g \in Related(First, Top) /\ Edge(First, Top, g) \notin edges
    BY <1>0, <2>2 DEF Unlinked
  <2>4. Edge(First, Top, g) \in Links(First)
    BY <1>0, <2>2, <2>3 DEF Links, Edge, Related, Callees, Callers, Reachable, First
  <2>5. TruncationIsReal'
    BY <2>1, <2>3, <2>4 DEF TruncationIsReal, First, Reach, Links, Closed, Related, Callees, Callers
  <2> QED BY <1>0, <2>1, <2>5 DEF RealInv, Unlinked, FromNodes, Reachable, First, Reach, Closed,
                                  Related, Callees, Callers, Edge
<1>4. ASSUME (\E way \in {"callees", "callers"} : Skip(way)) \/ Return \/ Finish \/ UNCHANGED vars
      PROVE  RealInv'
  BY <1>4, QuietReal DEF Skip, Begin, Return, Finish, vars, walk
<1> QED BY <1>1, <1>2, <1>3, <1>4 DEF Next, Done

\* A walk that says it was cut short has left something out that the program
\* has, whichever limit it met and in whatever order it went.
THEOREM TruncationHolds == Spec => []TruncationIsReal
BY InitReal, NextReal, BaseTheorem, PTL DEF Spec, RealInv

-----------------------------------------------------------------------------
(***************************************************************************)
(* The parts: what holds of each holds of them side by side.               *)
(***************************************************************************)

LEMMA GraphPart == PartSpec => Spec
<1>1. PartInit => Init
  BY DEF PartInit
<1>2. [PartNext]_partVars => [Next]_vars
  BY DEF PartNext, partVars
<1> QED
  BY <1>1, <1>2, PTL DEF PartSpec, Spec

LEMMA NamesPart == PartSpec => N!Spec
<1>1. PartInit => N!Init
  BY DEF PartInit
<1>2. [PartNext]_partVars => [N!Next]_N!vars
  BY DEF PartNext, partVars, nameVars, N!vars
<1> QED
  BY <1>1, <1>2, PTL DEF PartSpec, N!Spec

LEMMA PagesPart == PartSpec => P!Spec
<1>1. PartInit => P!Init
  BY DEF PartInit
<1>2. [PartNext]_partVars => [P!Next]_P!vars
  BY DEF PartNext, partVars, pageVars, P!vars, P!call, P!history
<1> QED
  BY <1>1, <1>2, PTL DEF PartSpec, P!Spec

-----------------------------------------------------------------------------
(***************************************************************************)
(* The normal form, from CfgNormalizeProofs: BP names its theorems about   *)
(* this instance.                                                          *)
(***************************************************************************)

BP == INSTANCE CfgNormalizeProofs WITH todo <- visit, pass <- round

\* The two names stand for the same steps.
LEMMA SameBlocks ==
  /\ B!Init <=> BP!Init
  /\ B!Next <=> BP!Next
  /\ UNCHANGED B!vars <=> UNCHANGED BP!vars
<1>1. B!Init <=> BP!Init
  BY DEF B!Init, BP!Init
<1>2. B!Filter <=> BP!Filter
  BY Zenon DEF B!Filter, B!At, B!Cardinality, B!InFunction, B!input,
         BP!Filter, BP!At, BP!Cardinality, BP!InFunction, BP!input
<1>3. B!Sort <=> BP!Sort
  BY Zenon DEF B!Sort, B!Ascending, B!ToSet, B!Cardinality, B!input,
         BP!Sort, BP!Ascending, BP!ToSet, BP!Cardinality, BP!input
<1>4. B!Next <=> BP!Next
  BY <1>2, <1>3 DEF B!input, B!result, B!vars, B!Joins, B!Count, B!Straight,
         B!Merge, B!Pass, B!EndRound, B!Done, B!Next,
         BP!input, BP!result, BP!vars, BP!Joins, BP!Count, BP!Straight,
         BP!Merge, BP!Pass, BP!EndRound, BP!Done, BP!Next
<1>5. UNCHANGED B!vars <=> UNCHANGED BP!vars
  BY DEF B!vars, B!input, B!result, BP!vars, BP!input, BP!result
<1> QED
  BY ONLY <1>1, <1>4, <1>5

LEMMA BlocksPart == PartSpec => BP!Spec
<1>1. PartInit => BP!Init
  BY SameBlocks DEF PartInit
<1>2. [PartNext]_partVars => [BP!Next]_BP!vars
  <2> SUFFICES ASSUME [PartNext]_partVars PROVE B!Next \/ UNCHANGED B!vars
    BY SameBlocks
  <2> QED
    BY DEF PartNext, partVars, blockVars, B!vars, B!input, B!result
<1> QED
  BY <1>1, <1>2, PTL DEF PartSpec, BP!Spec

\* Whatever graph is given and in whatever order its blocks are visited, what
\* is returned has every chain joined and no block lost (normalize_ghidra_cfg).
THEOREM BlocksAreNormal == PartSpec => []NormalForm
<1>1. BP!Spec => []BP!NormalForm
  BY BlocksAssumption, BP!ChainsAreJoined
<1>2. BP!NormalForm => NormalForm
  BY Zenon DEF NormalForm, B!NormalForm, B!Continues, B!Joins, B!Last, B!InFunction,
         B!Times, B!ToSet, B!Cardinality,
         BP!NormalForm, BP!Continues, BP!Joins, BP!Last, BP!InFunction,
         BP!Times, BP!ToSet, BP!Cardinality
<1> QED
  BY <1>1, <1>2, BlocksPart, PTL
-----------------------------------------------------------------------------
(***************************************************************************)
(* The projection of a client's functions.  NamesInv is the property with  *)
(* what a node can be (Values) and which names roots may take (Roots).     *)
(***************************************************************************)

\* The prover does not know that a literal is in STRING.
Words == STRING \cup {"mcp", "self"}
Segment == Nat \X Words
Path == Seq(Segment)

LEMMA PrefixIs ==
  ASSUME NEW s \in Path, NEW t \in Path
  PROVE  N!IsPrefix(s, t) <=> Len(s) <= Len(t) /\ \A k \in 1..Len(s) : s[k] = t[k]
<1>1. SubSeq(s, 1, Len(s)) = s
  BY DEF Path
<1>2. ASSUME Len(s) <= Len(t)
      PROVE  /\ SubSeq(t, 1, Len(s)) \in Path /\ Len(SubSeq(t, 1, Len(s))) = Len(s)
             /\ \A k \in 1..Len(s) : SubSeq(t, 1, Len(s))[k] = t[k]
  BY <1>2 DEF Path
<1>3. ASSUME NEW u \in Path, Len(u) = Len(s), \A k \in 1..Len(s) : u[k] = s[k]
      PROVE  u = s
  BY <1>3 DEF Path
<1> QED
  BY <1>1, <1>2, <1>3 DEF N!IsPrefix

LEMMA AboveIs ==
  ASSUME NEW p \in Path, NEW q
  PROVE  q \in N!Above(p) <=>
           q \in Path /\ Len(q) \in 1..(Len(p) - 1) /\ \A k \in 1..Len(q) : q[k] = p[k]
<1>1. ASSUME NEW k \in 1..(Len(p) - 1)
      PROVE  /\ SubSeq(p, 1, k) \in Path /\ Len(SubSeq(p, 1, k)) = k
             /\ \A i \in 1..k : SubSeq(p, 1, k)[i] = p[i]
  BY DEF Path
<1>2. ASSUME q \in Path, Len(q) \in 1..(Len(p) - 1), \A k \in 1..Len(q) : q[k] = p[k]
      PROVE  q = SubSeq(p, 1, Len(q))
  BY <1>1, <1>2 DEF Path
<1> QED
  BY <1>1, <1>2 DEF N!Above

\* A function's path, if it has one, begins with a name that is free.
Free(s) == N!IsNameSafe(s) /\ s \notin Modules \ {N!Mcp}

LEMMA WordsArePaths == ASSUME NEW s \in Seq(Nat \X STRING) PROVE s \in Path
<1>1. \A k \in 1..Len(s) : s[k] \in Segment
  BY DEF Segment, Words
<1>2. Len(s) \in Nat /\ s = [k \in 1..Len(s) |-> s[k]]
  OBVIOUS
<1>3. s \in [1..Len(s) -> Segment]
  BY <1>1, <1>2
<1> QED
  BY <1>2, <1>3 DEF Path

LEMMA PathsAre ==
  ASSUME NEW i \in DOMAIN Wire
  PROVE  /\ \A p \in N!Paths(i) : p \in Path /\ p # <<>> /\ Free(p[1])
         /\ \A p, q \in N!Paths(i) : p = q
<1> DEFINE w == Wire[i]
<1>1. w \in Path
  <2>1. w \in Seq(Nat \X STRING)
    BY NamesAssumption
  <2> HIDE DEF w
  <2> QED
    BY <2>1, WordsArePaths
<1>2. CASE w = <<>>
  BY <1>2 DEF N!Paths
<1>3. CASE w # <<>>
  <2> DEFINE pr == N!Projected(i)
  <2>1. \A s \in Segment : N!Escaped(s) \in Segment
    BY DEF Segment, N!Escaped
  <2>2. \A k \in DOMAIN w : w[k] \in Segment /\ pr[k] \in Segment
    BY <1>1, <2>1 DEF N!Projected, Path
  <2>3. pr \in Path /\ Len(pr) = Len(w) /\ pr # <<>>
    BY <1>1, <1>3, <2>2 DEF N!Projected, Path
  <2>4. pr[1] \in Segment /\ Tail(pr) \in Path
    BY <2>3 DEF Path
  <2>5. /\ \A top \in N!Tops(i) : top \in Segment /\ ~N!Collides(top)
        /\ \A s, t \in N!Tops(i) : s = t
    BY <2>1, <2>4 DEF N!Tops
  <2>6. \A top \in N!Tops(i) : LET p == <<top>> \o Tail(pr)
                               IN p \in Path /\ p # <<>> /\ p[1] = top
    BY <2>4, <2>5 DEF Path
  <2>7. \A top \in N!Tops(i) : Free(top)
    BY <2>5 DEF Free, N!Collides, N!ShadowsRealModule
  <2> HIDE DEF pr, w
  <2>8. \A p \in N!Paths(i) : \E top \in N!Tops(i) : p = <<top>> \o Tail(pr)
    BY <1>3 DEF N!Paths, w, pr
  <2> QED
    BY <2>5, <2>6, <2>7, <2>8
<1> QED
  BY <1>2, <1>3

-----------------------------------------------------------------------------

\* What stands at a path, and the names the roots have.
Values == \A p \in DOMAIN tree :
  /\ p \in Path /\ p # <<>>
  /\ \/ tree[p] = N!Namespace
     \/ phase = "ready" /\ tree[p] = N!OwnTool
     \/ \E j \in listed : j < next /\ tree[p] = j

Roots == \A p \in DOMAIN tree : Free(p[1])

NamesInv ==
  /\ N!TypeOK /\ Values /\ Roots
  /\ phase # "project" => next = Len(Wire) + 1
  /\ N!NoEmptyNamespace /\ N!FirstClaimWins /\ N!OwnToolsAreThere

LEMMA NamesInit == N!Init => NamesInv
<1> SUFFICES ASSUME N!Init PROVE NamesInv
  OBVIOUS
<1>1. DOMAIN tree = {}
  BY DEF N!Init
<1>2. Len(Wire) \in Nat
  BY NamesAssumption
<1> QED
  BY <1>1, <1>2 DEF NamesInv, N!Init, N!TypeOK, Values, Roots, N!NoEmptyNamespace, N!FirstClaimWins,
                    N!OwnToolsAreThere

LEMMA AboveFacts ==
  ASSUME NEW p \in Path, NEW q \in N!Above(p)
  PROVE  /\ q \in Path /\ q # <<>> /\ q # p /\ q[1] = p[1]
         /\ N!Above(q) \subseteq N!Above(p)
         /\ N!IsPrefix(q, p)
<1>1. q \in Path /\ Len(q) \in 1..(Len(p) - 1) /\ \A k \in 1..Len(q) : q[k] = p[k]
  BY AboveIs
<1>2. Len(p) \in Nat /\ Len(q) \in Nat
  BY <1>1 DEF Path
<1>3. ASSUME NEW r \in N!Above(q) PROVE r \in N!Above(p)
  <2>1. r \in Path /\ Len(r) \in 1..(Len(q) - 1) /\ \A k \in 1..Len(r) : r[k] = q[k]
    BY <1>1, <1>3, AboveIs
  <2>2. Len(r) \in 1..(Len(p) - 1) /\ \A k \in 1..Len(r) : r[k] = p[k]
    BY <1>1, <1>2, <2>1
  <2> QED
    BY <2>1, <2>2, AboveIs
<1> QED
  BY <1>1, <1>2, <1>3, PrefixIs

LEMMA WireFacts ==
  /\ Len(Wire) \in Nat /\ DOMAIN Wire = 1..Len(Wire)
  /\ N!Namespace = 0 /\ N!OwnTool = Len(Wire) + 1
BY NamesAssumption DEF N!Namespace, N!OwnTool

LEMMA InstallNames == NamesInv /\ N!Install => NamesInv'
<1> SUFFICES ASSUME NamesInv, N!Install PROVE NamesInv'
  OBVIOUS
<1>1. /\ phase = "project" /\ phase' = "project" /\ next \in listed /\ next' = next + 1
      /\ listed' = listed /\ existing' = existing
  BY DEF N!Install
<1>2. PICK p \in N!Paths(next) : N!Open(p) /\ tree' = N!Put(next, p)
  BY DEF N!Install
<1>3. /\ listed \subseteq 1..Len(Wire) /\ Len(Wire) \in Nat /\ next \in 1..Len(Wire)
      /\ DOMAIN Wire = 1..Len(Wire)
  BY <1>1, WireFacts DEF NamesInv, N!TypeOK
<1>4. p \in Path /\ p # <<>> /\ Free(p[1]) /\ N!Paths(next) = {p}
  BY <1>2, <1>3, PathsAre
<1>5. \A q \in N!Above(p) : /\ q \in Path /\ q # <<>> /\ q # p /\ q[1] = p[1]
                            /\ N!Above(q) \subseteq N!Above(p)
  BY <1>4, AboveFacts
<1>6. /\ DOMAIN tree' = DOMAIN tree \cup N!Above(p) \cup {p}
      /\ p \notin DOMAIN tree /\ tree'[p] = next
      /\ \A q \in DOMAIN tree : q # p /\ tree'[q] = tree[q]
      /\ \A q \in N!Above(p) : tree'[q] = N!Namespace
  BY <1>2, <1>5 DEF N!Put, N!Open
<1>7. N!Namespace = 0 /\ N!OwnTool = Len(Wire) + 1
  BY WireFacts
<1>8. N!TypeOK'
  BY <1>1, <1>3, <1>4, <1>5, <1>6 DEF NamesInv, N!TypeOK, N!Nodes
<1>9. Values'
  BY <1>1, <1>3, <1>4, <1>5, <1>6 DEF NamesInv, Values
<1>10. Roots'
  BY <1>1, <1>4, <1>5, <1>6 DEF NamesInv, Roots, Free, N!IsNameSafe, N!Denied
<1>11. N!NoEmptyNamespace'
  BY <1>3, <1>5, <1>6, <1>7 DEF NamesInv, N!NoEmptyNamespace
<1>12. N!FirstClaimWins'
  <2>1. \A j \in listed : j < next => {q \in DOMAIN tree' : tree'[q] = j} = {q \in DOMAIN tree : tree[q] = j}
    BY <1>3, <1>6, <1>7
  <2>2. {q \in DOMAIN tree' : tree'[q] = next} = {p}
    <3>1. \A q \in DOMAIN tree : tree[q] # next
      BY <1>1, <1>3, <1>7 DEF NamesInv, Values
    <3> QED
      BY <1>3, <1>6, <1>7, <3>1
  <2>3. \A j \in listed : N!Paths(j)' = N!Paths(j)
    BY <1>1 DEF N!Paths, N!Tops, N!Projected, N!Collides, N!IsNameSafe, N!Denied, N!ShadowsRealModule
  <2>4. ASSUME NEW j \in listed, j < next,
               {q \in DOMAIN tree : tree[q] = j} = {},
               NEW r \in N!Paths(j)
        PROVE  \E q \in DOMAIN tree' :
                 /\ tree'[q] # N!Namespace /\ (N!IsPrefix(r, q) \/ N!IsPrefix(q, r))
                 /\ tree'[q] = N!OwnTool \/ \E k \in listed : k < j /\ tree'[q] = k
    <3>1. PICK q \in DOMAIN tree :
                 /\ tree[q] # N!Namespace /\ (N!IsPrefix(r, q) \/ N!IsPrefix(q, r))
                 /\ tree[q] = N!OwnTool \/ \E k \in listed : k < j /\ tree[q] = k
      BY <2>4 DEF NamesInv, N!FirstClaimWins
    <3> QED
      BY <1>6, <3>1
  <2> QED
    BY <1>1, <1>3, <1>4, <2>1, <2>2, <2>3, <2>4 DEF NamesInv, N!FirstClaimWins
<1>13. N!OwnToolsAreThere'
  BY <1>1 DEF N!OwnToolsAreThere
<1> QED
  BY <1>1, <1>8, <1>9, <1>10, <1>11, <1>12, <1>13 DEF NamesInv

LEMMA SkipNames == NamesInv /\ N!Skip => NamesInv'
<1> SUFFICES ASSUME NamesInv, N!Skip PROVE NamesInv'
  OBVIOUS
<1>1. /\ phase = "project" /\ phase' = "project" /\ next \in DOMAIN Wire /\ next' = next + 1
      /\ listed' = listed /\ existing' = existing /\ tree' = tree
  BY DEF N!Skip
<1>2. /\ listed \subseteq 1..Len(Wire) /\ Len(Wire) \in Nat /\ next \in 1..Len(Wire)
      /\ DOMAIN Wire = 1..Len(Wire) /\ N!Namespace = 0 /\ N!OwnTool = Len(Wire) + 1
  BY <1>1, WireFacts DEF NamesInv, N!TypeOK
<1>3. N!TypeOK' /\ Values' /\ Roots'
  BY <1>1, <1>2 DEF NamesInv, N!TypeOK, N!Nodes, Values, Roots, Free, N!IsNameSafe, N!Denied
<1>4. N!NoEmptyNamespace' /\ N!OwnToolsAreThere'
  BY <1>1 DEF NamesInv, N!NoEmptyNamespace, N!OwnToolsAreThere
<1>5. N!FirstClaimWins'
  <2>1. \A q \in DOMAIN tree : tree[q] # next
    BY <1>1, <1>2 DEF NamesInv, Values
  <2>2. ASSUME next \in listed, NEW p \in N!Paths(next)
        PROVE  \E q \in DOMAIN tree :
                 /\ tree[q] # N!Namespace /\ (N!IsPrefix(p, q) \/ N!IsPrefix(q, p))
                 /\ tree[q] = N!OwnTool \/ \E k \in listed : k < next /\ tree[q] = k
    <3>1. p \in Path /\ ~N!Open(p)
      BY <1>1, <2>2, PathsAre DEF N!Skip
    <3>2. CASE \E q \in N!Above(p) : q \in DOMAIN tree /\ tree[q] # N!Namespace
      <4>1. PICK q \in N!Above(p) : q \in DOMAIN tree /\ tree[q] # N!Namespace
        BY <3>2
      <4>2. N!IsPrefix(q, p)
        BY <3>1, AboveFacts
      <4> QED
        BY <1>1, <4>1, <4>2 DEF NamesInv, Values
    <3>3. CASE p \in DOMAIN tree /\ tree[p] # N!Namespace
      <4>1. N!IsPrefix(p, p)
        BY <3>1, PrefixIs DEF Path
      <4> QED
        BY <1>1, <3>3, <4>1 DEF NamesInv, Values
    <3>4. CASE p \in DOMAIN tree /\ tree[p] = N!Namespace
      <4>1. PICK q \in DOMAIN tree : p \in N!Above(q) /\ tree[q] # N!Namespace
        BY <3>4 DEF NamesInv, N!NoEmptyNamespace
      <4>2. N!IsPrefix(p, q)
        BY <4>1, AboveFacts DEF NamesInv, Values
      <4> QED
        BY <1>1, <4>1, <4>2 DEF NamesInv, Values
    <3> QED
      BY <3>1, <3>2, <3>3, <3>4 DEF N!Open
  <2>3. \A j \in listed : N!Paths(j)' = N!Paths(j)
    BY <1>1 DEF N!Paths, N!Tops, N!Projected, N!Collides, N!IsNameSafe, N!Denied, N!ShadowsRealModule
  <2>4. \A j \in listed : j < next' => j < next \/ j = next
    BY <1>1, <1>2
  <2> DEFINE Won(j) ==
        LET places == {p \in DOMAIN tree : tree[p] = j} IN
        \/ places # {} /\ places = N!Paths(j)
        \/ /\ places = {}
           /\ \A p \in N!Paths(j) : \E q \in DOMAIN tree :
                /\ tree[q] # N!Namespace /\ (N!IsPrefix(p, q) \/ N!IsPrefix(q, p))
                /\ tree[q] = N!OwnTool \/ \E k \in listed : k < j /\ tree[q] = k
  <2>5. \A j \in listed : j < next => Won(j)
    BY DEF NamesInv, N!FirstClaimWins
  <2>6. next \in listed => Won(next)
    BY <2>1, <2>2
  <2>7. \A j \in listed : j < next' => Won(j)
    BY <2>4, <2>5, <2>6
  <2> QED
    BY <1>1, <2>3, <2>7 DEF N!FirstClaimWins
<1> QED
  BY <1>1, <1>3, <1>4, <1>5 DEF NamesInv

LEMMA ProjectionNames == NamesInv /\ N!Projection => NamesInv'
<1> SUFFICES ASSUME NamesInv, N!Projection PROVE NamesInv'
  OBVIOUS
<1>1. /\ phase = "project" /\ phase' = "self" /\ next > Len(Wire) /\ next' = next
      /\ listed' = listed /\ existing' = existing /\ tree' = tree
  BY DEF N!Projection
<1>2. N!TypeOK' /\ Values' /\ Roots' /\ next = Len(Wire) + 1
  BY <1>1, WireFacts DEF NamesInv, N!TypeOK, N!Nodes, Values, Roots, Free, N!IsNameSafe, N!Denied
<1>3. N!NoEmptyNamespace' /\ N!OwnToolsAreThere'
  BY <1>1 DEF NamesInv, N!NoEmptyNamespace, N!OwnToolsAreThere
<1>4. \A j \in listed : N!Paths(j)' = N!Paths(j)
  BY <1>1 DEF N!Paths, N!Tops, N!Projected, N!Collides, N!IsNameSafe, N!Denied, N!ShadowsRealModule
<1>5. N!FirstClaimWins'
  BY <1>1, <1>4 DEF NamesInv, N!FirstClaimWins
<1> QED
  BY <1>1, <1>2, <1>3, <1>5 DEF NamesInv

LEMMA QuietNames == NamesInv /\ UNCHANGED nameVars => NamesInv'
<1> SUFFICES ASSUME NamesInv, UNCHANGED nameVars PROVE NamesInv'
  OBVIOUS
<1>1. UNCHANGED <<listed, existing, next, tree, phase>>
  BY DEF nameVars
<1>2. \A j : N!Paths(j)' = N!Paths(j)
  BY <1>1 DEF N!Paths, N!Tops, N!Projected, N!Collides, N!IsNameSafe, N!Denied, N!ShadowsRealModule
<1>3. N!FirstClaimWins'
  BY <1>1, <1>2 DEF NamesInv, N!FirstClaimWins
<1>4. N!OwnToolsAreThere'
  BY <1>1, <1>2 DEF NamesInv, N!OwnToolsAreThere, N!OwnRoots, N!IsNameSafe, N!Denied, N!Import
<1> QED
  BY <1>1, <1>3, <1>4 DEF NamesInv, N!TypeOK, N!Nodes, Values, Roots, Free, N!IsNameSafe, N!Denied,
                          N!NoEmptyNamespace

LEMMA OneIs ==
  ASSUME NEW p \in Path, Len(p) = 1
  PROVE  p = <<p[1]>>
BY DEF Path

LEMMA Comparable ==
  ASSUME NEW p \in Path, NEW q \in Path, NEW r \in Path,
         N!IsPrefix(r, q), N!IsPrefix(p, q) \/ N!IsPrefix(q, p)
  PROVE  N!IsPrefix(p, r) \/ N!IsPrefix(r, p)
<1>1. Len(p) \in Nat /\ Len(q) \in Nat /\ Len(r) \in Nat
  BY DEF Path
<1>2. /\ Len(r) <= Len(q) /\ \A k \in 1..Len(r) : r[k] = q[k]
      /\ \/ Len(p) <= Len(q) /\ \A k \in 1..Len(p) : p[k] = q[k]
         \/ Len(q) <= Len(p) /\ \A k \in 1..Len(q) : q[k] = p[k]
  BY PrefixIs
<1>3. \/ Len(p) <= Len(r) /\ \A k \in 1..Len(p) : p[k] = r[k]
      \/ Len(r) <= Len(p) /\ \A k \in 1..Len(r) : r[k] = p[k]
  BY <1>1, <1>2
<1> QED
  BY <1>3, PrefixIs

\* The root of the server's own tools and their place.
LEMMA OwnPlace ==
  ASSUME NEW top \in N!OwnRoots
  PROVE  /\ top \in Segment /\ <<top>> \in Path /\ <<top, N!Self>> \in Path
         /\ Free(top) /\ N!OwnRoots = {top}
         /\ <<top>> # <<top, N!Self>>
         /\ N!IsPrefix(<<top, N!Self>>, <<top, N!Self>>)
         /\ ~N!IsPrefix(<<top, N!Self>>, <<top>>)
         /\ N!Above(<<top>>) = {} /\ N!Above(<<top, N!Self>>) = {<<top>>}
<1>1. N!Mcp \in Segment /\ N!Escaped(N!Mcp) \in Segment /\ N!Self \in Segment
  <2>1. N!Mcp = <<0, "mcp">> /\ N!Self = <<0, "self">>
    BY DEF N!Mcp, N!Self, N!Name
  <2>2. N!Escaped(N!Mcp) = <<1, "mcp">>
    BY <2>1 DEF N!Escaped
  <2> QED
    BY <2>1, <2>2 DEF Segment, Words
<1>2. top \in Segment /\ Free(top) /\ N!OwnRoots = {top}
  BY <1>1, NamesAssumption DEF N!OwnRoots, Free
<1>3. <<top>> \in Path /\ <<top, N!Self>> \in Path /\ Len(<<top>>) = 1 /\ Len(<<top, N!Self>>) = 2
  BY <1>1, <1>2 DEF Path
<1>4. N!IsPrefix(<<top, N!Self>>, <<top, N!Self>>) /\ ~N!IsPrefix(<<top, N!Self>>, <<top>>)
  BY <1>3, PrefixIs
<1>5. N!Above(<<top>>) = {} /\ N!Above(<<top, N!Self>>) = {<<top>>}
  <2>1. \A q : q \notin N!Above(<<top>>)
    BY <1>3, AboveIs
  <2>2. ASSUME NEW q PROVE q \in N!Above(<<top, N!Self>>) <=> q = <<top>>
    <3>1. q \in N!Above(<<top, N!Self>>) <=>
            q \in Path /\ Len(q) \in 1..(2 - 1) /\ \A k \in 1..Len(q) : q[k] = <<top, N!Self>>[k]
      <4>1. Len(<<top, N!Self>>) = 2
        BY <1>3
      <4> QED
        BY <1>3, <4>1, AboveIs
    <3>2. CASE q \in Path /\ Len(q) = 1
      <4>1. q = <<q[1]>> /\ 1..Len(q) = {1}
        BY <3>2, OneIs
      <4>2. <<top, N!Self>>[1] = top
        OBVIOUS
      <4>3. q = <<top>> <=> q[1] = top
        BY <4>1
      <4>4. \A k \in 1..Len(q) : k = 1
        BY <4>1
      <4>5. Len(q) \in 1..1 /\ 1 \in 1..Len(q)
        BY <3>2
      <4> QED
        BY <3>1, <3>2, <4>2, <4>3, <4>4, <4>5
    <3>3. CASE ~(q \in Path /\ Len(q) = 1)
      BY <1>3, <3>1, <3>3
    <3> QED
      BY <3>2, <3>3
  <2> QED
    BY <2>1, <2>2
<1> QED
  BY <1>2, <1>3, <1>4, <1>5

\* The server's own tools stay out: their root is a function of the client's.
LEMMA OwnOutNames ==
  NamesInv /\ N!InstallSelf /\ ~(\E top \in N!OwnRoots : N!CanHoldOwn(top)) => NamesInv'
<1> SUFFICES ASSUME NamesInv, N!InstallSelf, ~(\E top \in N!OwnRoots : N!CanHoldOwn(top))
             PROVE  NamesInv'
  OBVIOUS
<1>1. /\ phase = "self" /\ phase' = "ready" /\ next' = next
      /\ listed' = listed /\ existing' = existing /\ tree' = tree
  BY DEF N!InstallSelf
<1>2. N!TypeOK' /\ Values' /\ Roots' /\ next' = Len(Wire) + 1 /\ N!NoEmptyNamespace'
  BY <1>1 DEF NamesInv, N!TypeOK, N!Nodes, Values, Roots, Free, N!IsNameSafe, N!Denied,
              N!NoEmptyNamespace
<1>3. \A j \in listed : N!Paths(j)' = N!Paths(j)
  BY <1>1 DEF N!Paths, N!Tops, N!Projected, N!Collides, N!IsNameSafe, N!Denied, N!ShadowsRealModule
<1>4. N!FirstClaimWins'
  BY <1>1, <1>3 DEF NamesInv, N!FirstClaimWins
<1>5. ASSUME NEW top \in N!OwnRoots
      PROVE  \E j \in listed : N!Paths(j) = {<<top>>}
  <2>1. <<top>> \in DOMAIN tree /\ tree[<<top>>] # N!Namespace
    BY <1>5 DEF N!CanHoldOwn
  <2>2. PICK j \in listed : j < next /\ tree[<<top>>] = j
    BY <1>1, <2>1 DEF NamesInv, Values
  <2>3. <<top>> \in N!Paths(j) /\ j \in DOMAIN Wire
    BY <2>1, <2>2 DEF NamesInv, N!FirstClaimWins, N!TypeOK
  <2> QED
    BY <2>3, PathsAre
<1>6. N!OwnToolsAreThere'
  <2>1. N!OwnRoots' = N!OwnRoots
    BY <1>1 DEF N!OwnRoots, N!IsNameSafe, N!Denied
  <2> QED
    BY <1>1, <1>3, <1>5, <2>1 DEF N!OwnToolsAreThere
<1> QED
  BY <1>1, <1>2, <1>4, <1>6 DEF NamesInv

\* They are installed, over everything that stands in their namespace.
LEMMA OwnInNames ==
  NamesInv /\ N!InstallSelf /\ (\E top \in N!OwnRoots : N!CanHoldOwn(top)) => NamesInv'
<1> SUFFICES ASSUME NamesInv, N!InstallSelf, \E top \in N!OwnRoots : N!CanHoldOwn(top)
             PROVE  NamesInv'
  OBVIOUS
<1>1. /\ phase = "self" /\ phase' = "ready" /\ next' = next /\ next = Len(Wire) + 1
      /\ listed' = listed /\ existing' = existing
  BY DEF N!InstallSelf, NamesInv
<1>2. PICK top \in N!OwnRoots : tree' = N!OwnTools(top)
  BY DEF N!InstallSelf
<1> DEFINE own == <<top, N!Self>>
           rest == {p \in DOMAIN tree : ~N!IsPrefix(own, p)}
<1>3. /\ top \in Segment /\ <<top>> \in Path /\ own \in Path /\ own # <<>> /\ <<top>> # <<>>
      /\ Free(top) /\ N!OwnRoots = {top} /\ <<top>> # own /\ own[1] = top /\ <<top>>[1] = top
      /\ N!IsPrefix(own, own) /\ ~N!IsPrefix(own, <<top>>)
      /\ N!Above(<<top>>) = {} /\ N!Above(own) = {<<top>>}
  BY OwnPlace
<1>4. /\ listed \subseteq 1..Len(Wire) /\ Len(Wire) \in Nat /\ DOMAIN Wire = 1..Len(Wire)
      /\ N!Namespace = 0 /\ N!OwnTool = Len(Wire) + 1
  BY WireFacts DEF NamesInv, N!TypeOK
<1>5. \A p \in DOMAIN tree : p \in Path /\ p # <<>>
  BY DEF NamesInv, Values
<1>6. N!CanHoldOwn(top)
  BY <1>3
<1>7. /\ DOMAIN tree' = rest \cup {<<top>>, own}
      /\ tree'[own] = N!OwnTool /\ tree'[<<top>>] = N!Namespace
      /\ \A p \in rest : p \in DOMAIN tree /\ p # own /\ tree'[p] = tree[p]
  BY <1>2, <1>3, <1>6 DEF N!OwnTools, N!CanHoldOwn
<1>8. \A p \in DOMAIN tree : p \notin rest => N!IsPrefix(own, p)
  OBVIOUS
<1>9. \A p \in rest : ~N!IsPrefix(own, p)
  OBVIOUS
<1> HIDE DEF own, rest
<1>10. N!TypeOK'
  BY <1>1, <1>3, <1>4, <1>7 DEF NamesInv, N!TypeOK, N!Nodes
<1>11. Values'
  BY <1>1, <1>3, <1>7 DEF NamesInv, Values
<1>12. Roots'
  BY <1>1, <1>3, <1>7 DEF NamesInv, Roots, Free, N!IsNameSafe, N!Denied
<1>13. N!NoEmptyNamespace'
  <2>1. ASSUME NEW p \in rest, NEW q \in N!Above(p)
        PROVE  q \in DOMAIN tree' /\ tree'[q] = N!Namespace
    <3>1. q \in DOMAIN tree /\ tree[q] = N!Namespace
      BY <1>7, <2>1 DEF NamesInv, N!NoEmptyNamespace
    <3>2. q \in Path /\ p \in Path /\ N!IsPrefix(q, p)
      BY <1>5, <1>7, <2>1, AboveFacts
    <3>3. ~N!IsPrefix(own, q)
      BY <1>3, <1>9, <2>1, <3>2, PrefixIs DEF Path
    <3> QED
      BY <1>7, <1>8, <3>1, <3>3
  <2>2. ASSUME NEW p \in rest, tree[p] = N!Namespace
        PROVE  \E q \in DOMAIN tree' : p \in N!Above(q) /\ tree'[q] # N!Namespace
    <3>1. PICK q \in DOMAIN tree : p \in N!Above(q) /\ tree[q] # N!Namespace
      BY <1>7, <2>2 DEF NamesInv, N!NoEmptyNamespace
    <3>2. CASE q \in rest
      BY <1>7, <3>1, <3>2
    <3>3. CASE q \notin rest
      <4>1. N!IsPrefix(own, q) /\ q \in Path /\ p \in Path
        BY <1>5, <1>7, <1>8, <3>1, <3>3
      <4>2. /\ Len(own) = 2 /\ own[1] = top /\ Len(<<top>>) = 1
            /\ Len(own) <= Len(q) /\ \A k \in 1..Len(own) : own[k] = q[k]
        BY <1>3, <4>1, PrefixIs DEF own
      <4>3. Len(p) \in 1..(Len(q) - 1) /\ \A k \in 1..Len(p) : p[k] = q[k]
        BY <3>1, <4>1, AboveIs
      <4>4. Len(p) < 2
        <5>1. ~(Len(own) <= Len(p) /\ \A k \in 1..Len(own) : own[k] = p[k])
          BY <1>3, <1>9, <4>1, PrefixIs
        <5> QED
          BY <4>1, <4>2, <4>3, <5>1 DEF Path
      <4>5. p = <<top>>
        <5>0. Len(p) \in Nat /\ Len(q) \in Nat
          BY <4>1 DEF Path
        <5>1. Len(p) = 1
          <6>1. Len(p) \in 1..(Len(q) - 1)
            BY <4>3
          <6>2. \A m, n \in Nat : m \in 1..(n - 1) /\ m < 2 => m = 1
            OBVIOUS
          <6> QED
            BY <4>4, <5>0, <6>1, <6>2
        <5>2. 1 \in 1..Len(p) /\ 1 \in 1..Len(own)
          BY <4>2, <5>1
        <5>3. p[1] = q[1] /\ q[1] = top
          BY <4>2, <4>3, <5>2
        <5>4. p = <<p[1]>>
          BY <4>1, <5>1, OneIs
        <5> QED
          BY <5>3, <5>4
      <4> QED
        BY <1>3, <1>4, <1>7, <4>5
    <3> QED
      BY <3>2, <3>3
  <2> QED
    BY <1>3, <1>4, <1>7, <2>1, <2>2 DEF N!NoEmptyNamespace
<1>14. \A j \in listed : N!Paths(j)' = N!Paths(j)
  BY <1>1 DEF N!Paths, N!Tops, N!Projected, N!Collides, N!IsNameSafe, N!Denied, N!ShadowsRealModule
<1>15. N!FirstClaimWins'
  <2> SUFFICES ASSUME NEW j \in listed
               PROVE  LET places == {p \in DOMAIN tree' : tree'[p] = j} IN
                      \/ places # {} /\ places = N!Paths(j)
                      \/ /\ places = {}
                         /\ \A p \in N!Paths(j) : \E q \in DOMAIN tree' :
                              /\ tree'[q] # N!Namespace /\ (N!IsPrefix(p, q) \/ N!IsPrefix(q, p))
                              /\ tree'[q] = N!OwnTool \/ \E k \in listed : k < j /\ tree'[q] = k
    BY <1>1, <1>14 DEF N!FirstClaimWins
  <2> DEFINE before == {p \in DOMAIN tree : tree[p] = j}
  <2>1. {p \in DOMAIN tree' : tree'[p] = j} = before \cap rest
    BY <1>4, <1>7
  <2>2. j < next /\ j \in DOMAIN Wire
    BY <1>1, <1>4
  <2>3. \/ before # {} /\ before = N!Paths(j)
        \/ /\ before = {}
           /\ \A p \in N!Paths(j) : \E q \in DOMAIN tree :
                /\ tree[q] # N!Namespace /\ (N!IsPrefix(p, q) \/ N!IsPrefix(q, p))
                /\ tree[q] = N!OwnTool \/ \E k \in listed : k < j /\ tree[q] = k
    BY <2>2 DEF NamesInv, N!FirstClaimWins
  <2>4. N!Namespace # N!OwnTool
    BY <1>4
  <2> HIDE DEF before
  <2>5. CASE before # {} /\ before = N!Paths(j)
    <3>1. PICK p \in N!Paths(j) : before = {p}
      BY <2>2, <2>5, PathsAre
    <3>2. p \in DOMAIN tree
      BY <3>1 DEF before
    <3>3. CASE p \in rest
      BY <2>1, <2>5, <3>1, <3>3
    <3>4. CASE p \notin rest
      <4>1. before \cap rest = {} /\ N!Paths(j) = {p} /\ N!IsPrefix(own, p)
        BY <1>8, <2>5, <3>1, <3>2, <3>4
      <4> QED
        BY <1>7, <2>1, <2>4, <4>1
    <3> QED
      BY <3>3, <3>4
  <2>6. CASE before = {}
    <3>1. ASSUME NEW p \in N!Paths(j)
          PROVE  \E q \in DOMAIN tree' :
                   /\ tree'[q] # N!Namespace /\ (N!IsPrefix(p, q) \/ N!IsPrefix(q, p))
                   /\ tree'[q] = N!OwnTool \/ \E k \in listed : k < j /\ tree'[q] = k
      <4>1. PICK q \in DOMAIN tree :
                   /\ tree[q] # N!Namespace /\ (N!IsPrefix(p, q) \/ N!IsPrefix(q, p))
                   /\ tree[q] = N!OwnTool \/ \E k \in listed : k < j /\ tree[q] = k
        BY <2>3, <2>6, <3>1
      <4>2. CASE q \in rest
        BY <1>7, <4>1, <4>2
      <4>3. CASE q \notin rest
        <5>1. N!IsPrefix(own, q) /\ q \in Path /\ p \in Path
          BY <1>5, <1>8, <2>2, <3>1, <4>3, PathsAre
        <5>2. N!IsPrefix(p, own) \/ N!IsPrefix(own, p)
          BY <1>3, <4>1, <5>1, Comparable
        <5> QED
          BY <1>7, <2>4, <5>2
      <4> QED
        BY <4>2, <4>3
    <3> QED
      BY <2>1, <2>6, <3>1
  <2> QED
    BY <2>3, <2>5, <2>6
<1>16. N!OwnToolsAreThere'
  <2>1. N!OwnRoots' = N!OwnRoots
    BY <1>1 DEF N!OwnRoots, N!IsNameSafe, N!Denied
  <2>2. own[1] = top
    BY <1>3
  <2>3. N!Import(own)' = N!OwnTool
    BY <1>7, <2>2 DEF N!Import
  <2> QED
    BY <1>2, <2>1, <2>3 DEF N!OwnToolsAreThere, own
<1> QED
  BY <1>1, <1>10, <1>11, <1>12, <1>13, <1>15, <1>16 DEF NamesInv

LEMMA NamesStep == NamesInv /\ [N!Next]_nameVars => NamesInv'
<1>1. CASE N!Ready
  BY <1>1, QuietNames DEF N!Ready, N!vars, nameVars
<1> QED
  BY <1>1, InstallNames, SkipNames, ProjectionNames, OwnOutNames, OwnInNames, QuietNames DEF N!Next

LEMMA NamesTheorem == N!Spec => []NamesInv
<1>1. NamesInv /\ [N!Next]_N!vars => NamesInv'
  BY NamesStep DEF N!vars, nameVars
<1> QED
  BY <1>1, NamesInit, PTL DEF N!Spec

\* The names a script finds are those its client's functions ask for, whatever
\* the client lists and the script's globals hold: each function is at its
\* place or gave way to one with an earlier claim, no namespace is empty, and
\* no name of the script, of Python or of an importable module is hidden.
THEOREM NamesAreFaithful == PartSpec => []ProjectionIsFaithful
<1>1. NamesInv => ProjectionIsFaithful
  <2> SUFFICES ASSUME NamesInv PROVE N!NothingShadowed
    BY DEF ProjectionIsFaithful, N!ProjectionIsFaithful, NamesInv
  <2>1. \A p \in DOMAIN tree : N!IsNameSafe(p[1])
    BY DEF NamesInv, Roots, Free
  <2>2. ASSUME NEW m \in Modules \ {N!Mcp} PROVE N!Import(<<m>>) = N!RealModule
    <3>1. <<m>>[1] = m
      OBVIOUS
    <3>2. <<m>> \notin DOMAIN tree
      BY <2>2, <3>1 DEF NamesInv, Roots, Free
    <3> QED
      BY <3>2 DEF N!Import
  <2> QED
    BY <2>1, <2>2 DEF N!NothingShadowed
<1> QED
  BY <1>1, NamesPart, NamesTheorem, PTL
-----------------------------------------------------------------------------
(***************************************************************************)
(* Paging.  First what it means to stand before an entry: lemmas about     *)
(* finite sets of entries, whose places all differ.                        *)
(***************************************************************************)

LEMMA CardIs == ASSUME NEW S PROVE P!Cardinality(S) = Cardinality(S)
BY DEF P!Cardinality, Cardinality

LEMMA BeforeIs ==
  ASSUME NEW S, NEW e
  PROVE  P!Before(S, e) = Cardinality({x \in S : x.at < e.at})
BY CardIs DEF P!Before

LEMMA Finite ==
  ASSUME NEW S \in SUBSET Entries
  PROVE  IsFiniteSet(S) /\ Cardinality(S) \in Nat
BY PagesAssumption, FS_Subset, FS_CardinalityType

LEMMA Smaller ==
  ASSUME NEW T \in SUBSET Entries, NEW S \in SUBSET T
  PROVE  Cardinality(S) <= Cardinality(T)
BY Finite, FS_Subset

LEMMA Union ==
  ASSUME NEW S \in SUBSET Entries, NEW T \in SUBSET Entries
  PROVE  Cardinality(S \cup T) + Cardinality(S \cap T) = Cardinality(S) + Cardinality(T)
<1>1. IsFiniteSet(S) /\ IsFiniteSet(T)
  BY Finite
<1>2. Cardinality(S \cup T) = Cardinality(S) + Cardinality(T) - Cardinality(S \cap T)
  BY <1>1, FS_Union
<1>3. S \cap T \in SUBSET Entries /\ S \cup T \in SUBSET Entries
  OBVIOUS
<1>4. /\ Cardinality(S) \in Nat /\ Cardinality(T) \in Nat
      /\ Cardinality(S \cap T) \in Nat /\ Cardinality(S \cup T) \in Nat
  BY <1>3, Finite
<1> QED
  BY <1>2, <1>4

LEMMA Apart ==
  ASSUME NEW S \in SUBSET Entries, NEW T \in SUBSET Entries, S \cap T = {}
  PROVE  Cardinality(S \cup T) = Cardinality(S) + Cardinality(T)
<1>1. Cardinality(S \cap T) = 0
  BY FS_EmptySet
<1>2. S \cup T \in SUBSET Entries
  OBVIOUS
<1>3. Cardinality(S) \in Nat /\ Cardinality(T) \in Nat /\ Cardinality(S \cup T) \in Nat
  BY <1>2, Finite
<1> QED
  BY <1>1, <1>3, Union

LEMMA BeforeNat ==
  ASSUME NEW S \in SUBSET Entries, NEW e
  PROVE  P!Before(S, e) \in Nat /\ P!Before(S, e) <= Cardinality(S)
<1>1. {x \in S : x.at < e.at} \in SUBSET S
  OBVIOUS
<1> QED
  BY <1>1, BeforeIs, Finite, Smaller

LEMMA BeforeGrows ==
  ASSUME NEW T \in SUBSET Entries, NEW S \in SUBSET T,
         NEW e \in Entries, NEW f \in Entries, e.at <= f.at
  PROVE  P!Before(S, e) <= P!Before(T, f)
<1>1. {x \in S : x.at < e.at} \subseteq {x \in T : x.at < f.at}
  BY PagesAssumption
<1> QED
  BY <1>1, BeforeIs, Smaller

LEMMA BeforeStrict ==
  ASSUME NEW S \in SUBSET Entries, NEW e \in S, NEW f \in Entries, e.at < f.at
  PROVE  P!Before(S, e) < P!Before(S, f)
<1> DEFINE A == {x \in S : x.at < e.at}
           C == {x \in S : x.at < f.at}
<1>1. A \cup {e} \subseteq C /\ e \notin A /\ C \subseteq Entries /\ A \subseteq Entries
  BY PagesAssumption
<1> HIDE DEF A, C
<1>2. Cardinality(A \cup {e}) = Cardinality(A) + 1
  BY <1>1, Finite, FS_AddElement
<1>3. Cardinality(A \cup {e}) <= Cardinality(C)
  BY <1>1, Smaller
<1>4. Cardinality(A) \in Nat /\ Cardinality(C) \in Nat
  BY <1>1, Finite
<1>5. P!Before(S, e) = Cardinality(A) /\ P!Before(S, f) = Cardinality(C)
  BY BeforeIs DEF A, C
<1> QED
  BY <1>2, <1>3, <1>4, <1>5

LEMMA SamePlace ==
  ASSUME NEW S \in SUBSET Entries, NEW e \in S, NEW f \in S,
         P!Before(S, e) = P!Before(S, f)
  PROVE  e = f
<1>1. P!Before(S, e) \in Nat /\ P!Before(S, f) \in Nat
  BY BeforeNat
<1>2. ~(e.at < f.at) /\ ~(f.at < e.at)
  BY <1>1, BeforeStrict
<1> QED
  BY <1>2, PagesAssumption

\* An entry that stands before another is at a smaller place.
LEMMA BeforeOrder ==
  ASSUME NEW S \in SUBSET Entries, NEW e \in Entries, NEW f \in Entries,
         P!Before(S, e) < P!Before(S, f)
  PROVE  e.at < f.at
<1>1. P!Before(S, e) \in Nat /\ P!Before(S, f) \in Nat
  BY BeforeNat
<1>2. f.at <= e.at => P!Before(S, f) <= P!Before(S, e)
  BY BeforeGrows
<1> QED
  BY <1>1, <1>2, PagesAssumption

LEMMA BeforeBoth ==
  ASSUME NEW S \in SUBSET Entries, NEW T \in SUBSET Entries, S \cap T = {}, NEW e
  PROVE  P!Before(S \cup T, e) = P!Before(S, e) + P!Before(T, e)
<1> DEFINE A == {x \in S : x.at < e.at}
           C == {x \in T : x.at < e.at}
<1>1. /\ {x \in S \cup T : x.at < e.at} = A \cup C
      /\ A \cap C = {} /\ A \subseteq Entries /\ C \subseteq Entries
  OBVIOUS
<1>2. P!Before(S \cup T, e) = Cardinality(A \cup C)
  BY <1>1, BeforeIs
<1>3. P!Before(S, e) = Cardinality(A) /\ P!Before(T, e) = Cardinality(C)
  BY BeforeIs
<1> HIDE DEF A, C
<1>4. Cardinality(A \cup C) = Cardinality(A) + Cardinality(C)
  BY <1>1, Apart
<1> QED
  BY <1>2, <1>3, <1>4

LEMMA BeforeOne ==
  ASSUME NEW e \in Entries, NEW f \in Entries
  PROVE  P!Before({e}, f) = IF e.at < f.at THEN 1 ELSE 0
<1>1. {x \in {e} : x.at < f.at} = IF e.at < f.at THEN {e} ELSE {}
  OBVIOUS
<1> QED
  BY <1>1, BeforeIs, FS_Singleton, FS_EmptySet

LEMMA BeforeWith ==
  ASSUME NEW S \in SUBSET Entries, NEW e \in Entries, e \notin S, NEW f \in Entries
  PROVE  P!Before(S \cup {e}, f) = P!Before(S, f) + (IF e.at < f.at THEN 1 ELSE 0)
<1>1. S \cap {e} = {} /\ {e} \subseteq Entries
  OBVIOUS
<1>2. P!Before(S \cup {e}, f) = P!Before(S, f) + P!Before({e}, f)
  BY <1>1, BeforeBoth
<1> QED
  BY <1>2, BeforeOne

LEMMA BeforeWithout ==
  ASSUME NEW S \in SUBSET Entries, NEW e \in S, NEW f \in Entries
  PROVE  P!Before(S, f) = P!Before(S \ {e}, f) + (IF e.at < f.at THEN 1 ELSE 0)
<1> DEFINE R == S \ {e}
<1>1. R \subseteq Entries /\ e \notin R /\ R \cup {e} = S /\ e \in Entries
  OBVIOUS
<1> HIDE DEF R
<1>2. P!Before(R \cup {e}, f) = P!Before(R, f) + (IF e.at < f.at THEN 1 ELSE 0)
  BY <1>1, BeforeWith
<1> QED
  BY <1>1, <1>2 DEF R

\* A set that has at most one element another has not is larger by one at most.
LEMMA OneMore ==
  ASSUME NEW S \in SUBSET Entries, NEW T \in SUBSET Entries,
         \A x, y \in T \ S : x = y
  PROVE  Cardinality(T) <= Cardinality(S) + 1
<1>1. CASE T \ S = {}
  <2>1. T \in SUBSET S
    BY <1>1
  <2> QED
    BY <2>1, Smaller, Finite
<1>2. CASE T \ S # {}
  <2>1. PICK x \in T \ S : T \ S = {x}
    BY <1>2
  <2>2. T \in SUBSET (S \cup {x}) /\ S \cup {x} \in SUBSET Entries
    BY <2>1
  <2>3. Cardinality(S \cup {x}) = Cardinality(S) + 1
    BY <2>1, Finite, FS_AddElement
  <2> QED
    BY <2>2, <2>3, Smaller
<1> QED
  BY <1>1, <1>2

\* As many entries as n have fewer than n before them, at most.
LEMMA FewBefore ==
  ASSUME NEW S \in SUBSET Entries, NEW n \in Nat
  PROVE  Cardinality({e \in S : P!Before(S, e) < n}) <= n
<1> DEFINE A == {e \in S : P!Before(S, e) < n}
           at == [e \in A |-> P!Before(S, e)]
<1>1. at \in [A -> 0..(n - 1)]
  BY BeforeNat
<1>2. \A e, f \in A : at[e] = at[f] => e = f
  BY SamePlace
<1> HIDE DEF A, at
<1>3. at \in Injection(A, 0..(n - 1))
  BY <1>1, <1>2 DEF Injection, IsInjective
<1>4. IsFiniteSet(0..(n - 1)) /\ Cardinality(0..(n - 1)) = n
  BY FS_Interval
<1>5. Cardinality(A) <= n
  BY <1>3, <1>4, FS_Injection
<1> QED
  BY <1>5 DEF A

-----------------------------------------------------------------------------
(* The rows of a page.                                                      *)

LEMMA RangeIs == ASSUME NEW s \in Seq(Entries) PROVE P!ToSet(s) = {s[i] : i \in 1..Len(s)}
BY DEF P!ToSet

LEMMA RangeEmpty == P!ToSet(<<>>) = {} /\ Len(<<>>) = 0 /\ Cardinality({}) = 0
<1>1. <<>> \in Seq(Entries) /\ Len(<<>>) = 0 /\ 1..0 = {}
  OBVIOUS
<1>2. P!ToSet(<<>>) = {<<>>[i] : i \in 1..Len(<<>>)}
  BY <1>1, RangeIs
<1> QED
  BY <1>1, <1>2, FS_EmptySet

LEMMA RangeAppend ==
  ASSUME NEW s \in Seq(Entries), NEW e \in Entries
  PROVE  /\ Append(s, e) \in Seq(Entries) /\ Len(Append(s, e)) = Len(s) + 1
         /\ P!ToSet(Append(s, e)) = P!ToSet(s) \cup {e}
         /\ Append(s, e)[Len(s) + 1] = e
         /\ \A i \in 1..Len(s) : Append(s, e)[i] = s[i]
<1>1. /\ Append(s, e) \in Seq(Entries) /\ Len(Append(s, e)) = Len(s) + 1
      /\ Append(s, e)[Len(s) + 1] = e
      /\ \A i \in 1..Len(s) : Append(s, e)[i] = s[i]
  OBVIOUS
<1>2. Len(s) \in Nat
  OBVIOUS
<1>3. 1..(Len(s) + 1) = 1..Len(s) \cup {Len(s) + 1}
  BY <1>2
<1> DEFINE t == Append(s, e)
<1> HIDE DEF t
<1>4. P!ToSet(t) = {t[i] : i \in 1..(Len(s) + 1)} /\ P!ToSet(s) = {s[i] : i \in 1..Len(s)}
  BY <1>1, RangeIs DEF t
<1>5. t[Len(s) + 1] = e /\ \A i \in 1..Len(s) : t[i] = s[i]
  BY <1>1 DEF t
<1>6. P!ToSet(t) = P!ToSet(s) \cup {e}
  BY <1>3, <1>4, <1>5
<1> QED
  BY <1>1, <1>6 DEF t

LEMMA RangeConcat ==
  ASSUME NEW s \in Seq(Entries), NEW t \in Seq(Entries)
  PROVE  /\ s \o t \in Seq(Entries) /\ Len(s \o t) = Len(s) + Len(t)
         /\ P!ToSet(s \o t) = P!ToSet(s) \cup P!ToSet(t)
<1>1. /\ s \o t \in Seq(Entries) /\ Len(s \o t) = Len(s) + Len(t)
      /\ Len(s) \in Nat /\ Len(t) \in Nat
      /\ \A i \in 1..(Len(s) + Len(t)) : (s \o t)[i] = IF i <= Len(s) THEN s[i] ELSE t[i - Len(s)]
  OBVIOUS
<1> DEFINE u == s \o t
<1> HIDE DEF u
<1>5. /\ P!ToSet(u) = {u[i] : i \in 1..(Len(s) + Len(t))}
      /\ P!ToSet(s) = {s[i] : i \in 1..Len(s)} /\ P!ToSet(t) = {t[i] : i \in 1..Len(t)}
      /\ \A i \in 1..(Len(s) + Len(t)) : u[i] = IF i <= Len(s) THEN s[i] ELSE t[i - Len(s)]
  BY <1>1, RangeIs DEF u
<1>2. ASSUME NEW e \in P!ToSet(u) PROVE e \in P!ToSet(s) \cup P!ToSet(t)
  <2>1. PICK i \in 1..(Len(s) + Len(t)) : e = u[i]
    BY <1>2, <1>5
  <2>2. i <= Len(s) \/ i - Len(s) \in 1..Len(t)
    BY <1>1
  <2> QED
    BY <2>1, <2>2, <1>5
<1>3. ASSUME NEW e \in P!ToSet(s) PROVE e \in P!ToSet(u)
  <2>1. PICK i \in 1..Len(s) : e = s[i]
    BY <1>3, <1>5
  <2>2. i \in 1..(Len(s) + Len(t)) /\ u[i] = s[i]
    BY <1>1, <2>1, <1>5
  <2> QED
    BY <2>1, <2>2, <1>5
<1>4. ASSUME NEW e \in P!ToSet(t) PROVE e \in P!ToSet(u)
  <2>1. PICK i \in 1..Len(t) : e = t[i]
    BY <1>4, <1>5
  <2>2. i + Len(s) \in 1..(Len(s) + Len(t)) /\ ~(i + Len(s) <= Len(s)) /\ i + Len(s) - Len(s) = i
    BY <1>1
  <2>3. u[i + Len(s)] = t[i]
    BY <2>2, <1>5
  <2> QED
    BY <2>1, <2>2, <2>3, <1>5
<1> QED
  BY <1>1, <1>2, <1>3, <1>4 DEF u

LEMMA RangeSet == ASSUME NEW s \in Seq(Entries) PROVE P!ToSet(s) \in SUBSET Entries
BY RangeIs

\* A part of a sequence that is in order is the set of those at its places.
InOrder(s) == \A i \in 1..Len(s) : P!Before(P!ToSet(s), s[i]) = i - 1

Between(S, a, b) == {e \in S : a <= P!Before(S, e) /\ P!Before(S, e) < b}

LEMMA PartIs ==
  ASSUME NEW s \in Seq(Entries), InOrder(s), NEW a \in Nat, NEW b \in Nat, b <= Len(s)
  PROVE  /\ SubSeq(s, a + 1, b) \in Seq(Entries)
         /\ P!ToSet(SubSeq(s, a + 1, b)) = Between(P!ToSet(s), a, b)
         /\ Cardinality(Between(P!ToSet(s), a, b)) = Len(SubSeq(s, a + 1, b))
         /\ Len(SubSeq(s, a + 1, b)) = IF a <= b THEN b - a ELSE 0
<1> DEFINE t == SubSeq(s, a + 1, b)
           n == IF a <= b THEN b - a ELSE 0
           A == Between(P!ToSet(s), a, b)
           f == [i \in 1..n |-> s[a + i]]
<1>1. /\ t \in Seq(Entries) /\ n \in Nat /\ Len(t) = n /\ \A i \in 1..n : t[i] = s[a + i]
  OBVIOUS
<1>2. \A i \in 1..n : a + i \in 1..Len(s)
  OBVIOUS
<1>3. \A i \in 1..n : s[a + i] \in A
  <2> SUFFICES ASSUME NEW i \in 1..n PROVE s[a + i] \in A
    OBVIOUS
  <2>1. a + i \in 1..Len(s) /\ a <= a + i - 1 /\ a + i - 1 < b
    OBVIOUS
  <2>2. s[a + i] \in P!ToSet(s) /\ P!Before(P!ToSet(s), s[a + i]) = a + i - 1
    BY <2>1, RangeIs DEF InOrder
  <2> QED
    BY <2>1, <2>2 DEF Between
<1>4. \A e \in A : \E i \in 1..n : e = s[a + i]
  <2> SUFFICES ASSUME NEW e \in A PROVE \E i \in 1..n : e = s[a + i]
    OBVIOUS
  <2>1. PICK j \in 1..Len(s) : e = s[j]
    BY RangeIs DEF Between
  <2>2. a <= j - 1 /\ j - 1 < b
    BY <2>1 DEF InOrder, Between
  <2>3. j - a \in 1..n /\ a + (j - a) = j
    BY <2>2
  <2> QED
    BY <2>1, <2>3
<1>5. \A i, j \in 1..n : s[a + i] = s[a + j] => i = j
  <2>1. \A i \in 1..n : P!Before(P!ToSet(s), s[a + i]) = a + i - 1
    BY <1>2 DEF InOrder
  <2> QED
    BY <2>1
<1>6. f \in Bijection(1..n, A)
  <2>1. f \in [1..n -> A]
    BY <1>3
  <2>2. \A i, j \in 1..n : f[i] = f[j] => i = j
    BY <1>5
  <2>3. \A e \in A : \E i \in 1..n : f[i] = e
    BY <1>4
  <2> HIDE DEF f, A, n
  <2> QED
    BY <2>1, <2>2, <2>3 DEF Bijection, Injection, Surjection, IsInjective
<1>7. IsFiniteSet(1..n) /\ Cardinality(1..n) = n
  BY <1>1, FS_Interval
<1> HIDE DEF t, n, A, f
<1>8. P!ToSet(t) = A
  <2>1. P!ToSet(t) = {t[i] : i \in 1..n}
    BY <1>1, RangeIs
  <2>2. \A e \in P!ToSet(t) : e \in A
    BY <1>1, <1>3, <2>1
  <2>3. \A e \in A : e \in P!ToSet(t)
    BY <1>1, <1>4, <2>1
  <2> QED
    BY <2>2, <2>3
<1>9. Cardinality(A) = n
  BY <1>6, <1>7, FS_Bijection DEF ExistsBijection
<1> QED
  BY <1>1, <1>8, <1>9 DEF t, n, A

IsPart(s, a, b) ==
  /\ SubSeq(s, a + 1, b) \in Seq(Entries)
  /\ P!ToSet(SubSeq(s, a + 1, b)) = Between(P!ToSet(s), a, b)
  /\ Cardinality(Between(P!ToSet(s), a, b)) = Len(SubSeq(s, a + 1, b))
  /\ Cardinality(Between(P!ToSet(s), a, b)) = IF a <= b THEN b - a ELSE 0

LEMMA PartOf ==
  ASSUME NEW s \in Seq(Entries), InOrder(s), NEW a \in Nat, NEW b \in Nat, b <= Len(s)
  PROVE  IsPart(s, a, b)
<1>1. /\ SubSeq(s, a + 1, b) \in Seq(Entries)
      /\ P!ToSet(SubSeq(s, a + 1, b)) = Between(P!ToSet(s), a, b)
      /\ Cardinality(Between(P!ToSet(s), a, b)) = Len(SubSeq(s, a + 1, b))
      /\ Len(SubSeq(s, a + 1, b)) = IF a <= b THEN b - a ELSE 0
  BY PartIs
<1> QED
  BY <1>1 DEF IsPart

-----------------------------------------------------------------------------
(***************************************************************************)
(* The inductive invariant.  While a page is computed, what it is computed *)
(* from is not what the program holds: View is what the call has come      *)
(* across with what still lies ahead.  A page is cut from it at offset, so *)
(* NoneMissed needs what is missing below offset (Missed) and what the     *)
(* next offset counts although it has been removed (Lost); and NoneTwice,  *)
(* for every place k below offset, the rows at k or after it (Again) and   *)
(* what the next offset does not count although it has been added (Late).  *)
(***************************************************************************)

View == IF pc = "scan" THEN P!ToSet(seen) \cup P!Ahead ELSE P!Listed
NextOffset == IF pc = "scan" THEN offset + P!Size ELSE offset

Low(S, n) == {e \in S : P!Before(S, e) < n}
Missed == (expected \cap Low(View, offset)) \ P!ToSet(got)
Lost == Low(View, NextOffset) \ P!Listed

Twice == Len(got) - Cardinality(P!ToSet(got))
After(R, S, k) == {e \in R : P!Before(S, e) >= k}
Again(k) == After(P!ToSet(got), View, k)
Late == {e \in P!Listed \ View : P!Before(View, e) < NextOffset}

SeenInOrder ==
  /\ Cardinality(P!ToSet(seen)) = Len(seen)
  /\ \A x \in P!ToSet(seen) : x.at <= P!Reached
  /\ InOrder(seen)
  /\ kind \in P!Searches => Len(seen) <= offset + P!Size + 1
  /\ \A e \in expected : e.at <= P!Reached => e \in P!ToSet(seen)

Counts ==
  /\ got # <<>> => offset >= 0 /\ P!Size > 0 /\ Cardinality(View) + gone >= offset
  /\ Cardinality(Missed) + Cardinality(Lost) <= gone
  /\ \A k \in 0..offset : Cardinality(Again(k)) + Twice + Cardinality(Late) <= offset - k + came

PagesInv ==
  /\ P!TypeOK
  /\ expected \subseteq P!Listed
  /\ pc = "scan" => offset >= 0 /\ P!Size > 0 /\ SeenInOrder
  /\ pc \in {"ask", "scan"} => Counts
  /\ P!PagingIsHonest

LEMMA HonestIs ==
  P!PagingIsHonest <=>
    /\ pc = "done" => Cardinality(expected \ P!ToSet(got)) <= gone
    /\ Twice <= came
    /\ pc = "refused" /\ got # <<>> => gone > 0 \/ target = "lost"
BY CardIs DEF P!PagingIsHonest, P!NoneMissed, P!NoneTwice, P!NotRefused, Twice

LEMMA ReachedIs == P!Reached = IF seen = <<>> THEN 0 ELSE seen[Len(seen)].at
BY DEF P!Reached, P!Last

LEMMA Numbers ==
  ASSUME P!TypeOK
  PROVE  /\ offset \in Int /\ P!Size \in Int /\ NextOffset \in Int
         /\ gone \in Nat /\ came \in Nat
         /\ Len(seen) \in Nat /\ Len(got) \in Nat /\ P!Reached \in Nat
         /\ P!ToSet(seen) \in SUBSET Entries /\ P!ToSet(got) \in SUBSET Entries
         /\ expected \in SUBSET Entries
         /\ Twice \in Int
<1>1. rows \in Int /\ P!Size \in Int
  BY PagesAssumption DEF P!TypeOK, P!Size
<1>2. P!Reached \in Nat
  <2>1. seen \in Seq(Entries)
    BY DEF P!TypeOK
  <2>2. seen # <<>> => seen[Len(seen)] \in Entries
    BY <2>1
  <2> QED
    BY <2>2, ReachedIs, PagesAssumption
<1>3. P!ToSet(seen) \in SUBSET Entries /\ P!ToSet(got) \in SUBSET Entries
  BY RangeSet DEF P!TypeOK
<1>4. Cardinality(P!ToSet(got)) \in Nat
  BY <1>3, Finite
<1>5. gone \in Nat /\ came \in Nat /\ Len(seen) \in Nat /\ Len(got) \in Nat
  BY PagesAssumption DEF P!TypeOK
<1> QED
  BY <1>1, <1>2, <1>3, <1>4, <1>5 DEF P!TypeOK, NextOffset, Twice

\* What a question asks for is told by the entry alone.
Asked(e) ==
  \/ kind = "function" /\ "function" \in e.holds /\ P!Matching(e)
  \/ kind = "memory_segment" /\ "memory_segment" \in e.holds
  \/ kind = "import" /\ "import" \in e.holds
  \/ kind = "export" /\ e.holds \cap {"function", "import", "class", "namespace", "label"} # {}
  \/ kind = "string" /\ "string" \in e.holds /\ P!Matching(e)
  \/ kind = "class" /\ "class" \in e.holds
  \/ kind = "namespace" /\ "namespace" \in e.holds
  \/ kind = "type" /\ "type" \in e.holds /\ P!Matching(e)
  \/ kind = "to" /\ "to" \in e.holds
  \/ kind = "from" /\ "from" \in e.holds
  \/ kind = "bytes" /\ "bytes" \in e.holds
  \/ kind = "insns" /\ "insns" \in e.holds

LEMMA ListedIs ==
  ASSUME P!TypeOK
  PROVE  P!Listed = {e \in there : Asked(e)} /\ P!Listed \in SUBSET Entries
<1>1. kind \in {"function", "memory_segment", "import", "export", "string", "class",
                "namespace", "type", "to", "from", "bytes", "insns"}
  BY PagesAssumption DEF P!TypeOK, P!References, P!Searches
<1>2. P!Listed = {e \in there : Asked(e)}
  <2>1. CASE kind = "function"
    BY <2>1 DEF P!Listed, P!FunctionRows, Asked
  <2>2. CASE kind = "memory_segment"
    BY <2>2 DEF P!Listed, P!Segments, Asked
  <2>3. CASE kind = "import"
    BY <2>3 DEF P!Listed, P!Imports, Asked
  <2>4. CASE kind = "export"
    BY <2>4 DEF P!Listed, P!Exports, Asked
  <2>5. CASE kind = "string"
    BY <2>5 DEF P!Listed, P!Strings, Asked
  <2>6. CASE kind = "class"
    BY <2>6 DEF P!Listed, P!Classes, Asked
  <2>7. CASE kind = "namespace"
    BY <2>7 DEF P!Listed, P!Namespaces, Asked
  <2>8. CASE kind = "type"
    BY <2>8 DEF P!Listed, P!Types, Asked
  <2>9. CASE kind = "to"
    BY <2>9 DEF P!Listed, P!ReferencesTo, Asked
  <2>10. CASE kind = "from"
    BY <2>10 DEF P!Listed, P!ReferencesFrom, Asked
  <2>11. CASE kind = "bytes"
    BY <2>11 DEF P!Listed, P!ByteMatches, Asked
  <2>12. CASE kind = "insns"
    BY <2>12 DEF P!Listed, P!InsnMatches, Asked
  <2> QED
    BY <1>1, <2>1, <2>2, <2>3, <2>4, <2>5, <2>6, <2>7, <2>8, <2>9, <2>10, <2>11, <2>12
<1> QED
  BY <1>2 DEF P!TypeOK

\* What is computed from, while a page is.
LEMMA Views ==
  ASSUME P!TypeOK, SeenInOrder, pc = "scan"
  PROVE  /\ View = P!ToSet(seen) \cup P!Ahead /\ P!ToSet(seen) \cap P!Ahead = {}
         /\ P!Ahead \in SUBSET Entries /\ View \in SUBSET Entries
         /\ \A e \in Entries : e.at <= P!Reached =>
              P!Before(View, e) = P!Before(P!ToSet(seen), e)
         /\ \A e \in Entries : e.at > P!Reached =>
              P!Before(View, e) = Len(seen) + P!Before(P!Ahead, e)
<1>1. P!ToSet(seen) \in SUBSET Entries /\ P!Listed \in SUBSET Entries /\ P!Reached \in Nat
  BY Numbers, ListedIs
<1>2. /\ View = P!ToSet(seen) \cup P!Ahead /\ P!Ahead \in SUBSET Entries
      /\ \A e \in P!Ahead : e.at > P!Reached
  BY <1>1 DEF View, P!Ahead
<1>3. P!ToSet(seen) \cap P!Ahead = {}
  <2>1. \A x \in P!ToSet(seen) : x.at <= P!Reached /\ x.at \in Nat
    BY <1>1, PagesAssumption DEF SeenInOrder
  <2> QED
    BY <1>1, <1>2, <2>1
<1>4. \A e : P!Before(View, e) = P!Before(P!ToSet(seen), e) + P!Before(P!Ahead, e)
  <2>1. \A S, T \in SUBSET Entries : S \cap T = {} =>
          \A e : P!Before(S \cup T, e) = P!Before(S, e) + P!Before(T, e)
    BY BeforeBoth
  <2> QED
    BY <1>1, <1>2, <1>3, <2>1
<1>5. ASSUME NEW e \in Entries, e.at <= P!Reached
      PROVE  P!Before(P!Ahead, e) = 0
  <2>1. \A x \in P!Ahead : ~(x.at < e.at)
    BY <1>1, <1>2, <1>5, PagesAssumption
  <2>2. {x \in P!Ahead : x.at < e.at} = {}
    BY <2>1
  <2> QED
    BY <2>2, BeforeIs, FS_EmptySet
<1>6. ASSUME NEW e \in Entries, e.at > P!Reached
      PROVE  P!Before(P!ToSet(seen), e) = Len(seen)
  <2>1. \A x \in P!ToSet(seen) : x.at < e.at
    BY <1>1, <1>6, PagesAssumption DEF SeenInOrder
  <2>2. {x \in P!ToSet(seen) : x.at < e.at} = P!ToSet(seen)
    BY <2>1
  <2> QED
    BY <2>2, BeforeIs DEF SeenInOrder
<1>7. \A e \in Entries : P!Before(P!ToSet(seen), e) \in Nat
  BY <1>1, BeforeNat
<1>8. View \in SUBSET Entries
  BY <1>1, <1>2
<1>9. ASSUME NEW e \in Entries, e.at <= P!Reached
      PROVE  P!Before(View, e) = P!Before(P!ToSet(seen), e)
  <2>1. P!Before(P!Ahead, e) = 0 /\ P!Before(P!ToSet(seen), e) \in Nat
    BY <1>5, <1>7, <1>9
  <2> QED
    BY <1>4, <2>1
<1>10. ASSUME NEW e \in Entries, e.at > P!Reached
      PROVE  P!Before(View, e) = Len(seen) + P!Before(P!Ahead, e)
  BY <1>4, <1>6, <1>10
<1> QED
  BY <1>2, <1>3, <1>8, <1>9, <1>10

LEMMA BelowIs ==
  ASSUME P!TypeOK, pc \in {"ask", "scan"}, pc = "scan" => SeenInOrder, NEW e \in Entries
  PROVE  P!Below(e) <=>
           P!Before(View, e) < IF pc = "scan" /\ e.at <= P!Reached THEN NextOffset ELSE offset
<1>1. CASE pc = "ask"
  BY <1>1 DEF P!Below, View
<1>2. CASE pc = "scan" /\ e.at > P!Reached
  <2>1. ~(e.at <= P!Reached)
    BY <1>2, Numbers, PagesAssumption
  <2>2. P!Before(View, e) = Len(seen) + P!Before(P!Ahead, e)
    BY <1>2, Views
  <2>3. P!Below(e) <=> Len(seen) + P!Before(P!Ahead, e) < offset
    BY <1>2, <2>1 DEF P!Below
  <2> QED
    BY <1>2, <2>1, <2>2, <2>3
<1>3. CASE pc = "scan" /\ e.at <= P!Reached
  <2>1. ~(e.at > P!Reached)
    BY <1>3, Numbers, PagesAssumption
  <2>2. P!Before(View, e) = P!Before(P!ToSet(seen), e)
    BY <1>3, Views
  <2>3. P!Below(e) <=> P!Before(P!ToSet(seen), e) < offset + P!Size
    BY <1>3, <2>1 DEF P!Below
  <2> QED
    BY <1>3, <2>1, <2>2, <2>3 DEF NextOffset
<1> QED
  BY <1>1, <1>2, <1>3, Numbers, PagesAssumption

LEMMA LowWithout ==
  ASSUME NEW S \in SUBSET Entries, NEW e \in S, NEW n \in Int
  PROVE  /\ \A x, y \in Low(S \ {e}, n) \ Low(S, n) : x = y
         /\ P!Before(S, e) >= n => Low(S \ {e}, n) \subseteq Low(S, n)
<1>1. ASSUME NEW x \in Low(S \ {e}, n), x \notin Low(S, n)
      PROVE  x \in S /\ P!Before(S, x) = n /\ e.at < x.at
  <2>1. x \in S /\ x \in Entries /\ P!Before(S \ {e}, x) < n /\ ~(P!Before(S, x) < n)
    BY <1>1 DEF Low
  <2>2. P!Before(S, x) = P!Before(S \ {e}, x) + (IF e.at < x.at THEN 1 ELSE 0)
    BY <2>1, BeforeWithout
  <2>3. P!Before(S \ {e}, x) \in Nat
    BY BeforeNat
  <2> QED
    BY <2>1, <2>2, <2>3
<1>2. \A x, y \in Low(S \ {e}, n) \ Low(S, n) : x = y
  BY <1>1, SamePlace
<1>3. ASSUME P!Before(S, e) >= n, NEW x \in Low(S \ {e}, n), x \notin Low(S, n)
      PROVE  FALSE
  <2>1. x \in S /\ P!Before(S, x) = n /\ e.at < x.at
    BY <1>1, <1>3
  <2>2. P!Before(S, e) < P!Before(S, x)
    BY <2>1, BeforeStrict
  <2>3. P!Before(S, e) \in Nat
    BY BeforeNat
  <2> QED
    BY <1>3, <2>1, <2>2, <2>3
<1> QED
  BY <1>2, <1>3

LEMMA LowWith ==
  ASSUME NEW S \in SUBSET Entries, NEW e \in Entries, e \notin S, NEW n \in Int
  PROVE  Low(S \cup {e}, n) \subseteq Low(S, n) \cup {e}
<1> SUFFICES ASSUME NEW x \in Low(S \cup {e}, n), x # e PROVE x \in Low(S, n)
  OBVIOUS
<1>1. x \in S /\ x \in Entries /\ P!Before(S \cup {e}, x) < n
  BY DEF Low
<1>2. P!Before(S \cup {e}, x) = P!Before(S, x) + (IF e.at < x.at THEN 1 ELSE 0)
  BY <1>1, BeforeWith
<1>3. P!Before(S, x) \in Nat
  BY BeforeNat
<1> QED
  BY <1>1, <1>2, <1>3 DEF Low

LEMMA AfterWithout ==
  ASSUME NEW S \in SUBSET Entries, NEW e \in S, NEW R \in SUBSET Entries, NEW k \in Int
  PROVE  After(R, S \ {e}, k) \subseteq After(R, S, k)
<1> SUFFICES ASSUME NEW x \in After(R, S \ {e}, k) PROVE x \in After(R, S, k)
  OBVIOUS
<1>1. x \in R /\ x \in Entries /\ P!Before(S \ {e}, x) >= k
  BY DEF After
<1>2. P!Before(S, x) = P!Before(S \ {e}, x) + (IF e.at < x.at THEN 1 ELSE 0)
  BY <1>1, BeforeWithout
<1>3. P!Before(S \ {e}, x) \in Nat
  BY BeforeNat
<1> QED
  BY <1>1, <1>2, <1>3 DEF After

LEMMA AfterWith ==
  ASSUME NEW S \in SUBSET Entries, NEW e \in Entries, e \notin S, NEW R \in SUBSET Entries,
         NEW k \in Int
  PROVE  /\ After(R, S \cup {e}, k) \subseteq After(R, S, k - 1)
         /\ P!Before(S, e) >= k => After(R, S \cup {e}, k) \subseteq After(R, S, k)
<1>1. ASSUME NEW x \in After(R, S \cup {e}, k)
      PROVE  /\ x \in After(R, S, k - 1)
             /\ P!Before(S, e) >= k => x \in After(R, S, k)
  <2>1. x \in R /\ x \in Entries /\ P!Before(S \cup {e}, x) >= k
    BY <1>1 DEF After
  <2>2. P!Before(S \cup {e}, x) = P!Before(S, x) + (IF e.at < x.at THEN 1 ELSE 0)
    BY <2>1, BeforeWith
  <2>3. P!Before(S, x) \in Nat /\ P!Before(S, e) \in Nat
    BY BeforeNat
  <2>4. e.at < x.at => P!Before(S, e) <= P!Before(S, x)
    BY <2>1, BeforeGrows, PagesAssumption
  <2> QED
    BY <2>1, <2>2, <2>3, <2>4 DEF After
<1> QED
  BY <1>1

\* Where the reading has come stays when the question, the offset and what
\* the call has come across do.
LEMMA SeenStays ==
  ASSUME UNCHANGED <<kind, filtering, rows, offset, seen, got, pc>>, expected' \subseteq expected
  PROVE  /\ P!Reached' = P!Reached /\ P!Size' = P!Size /\ NextOffset' = NextOffset
         /\ P!ToSet(seen)' = P!ToSet(seen) /\ P!ToSet(got)' = P!ToSet(got) /\ Twice' = Twice
         /\ SeenInOrder => SeenInOrder'
<1>1. P!Reached' = P!Reached /\ P!Size' = P!Size /\ NextOffset' = NextOffset /\ Twice' = Twice
  BY DEF P!Reached, P!Last, P!Size, NextOffset, Twice, P!References
<1> QED
  BY <1>1 DEF SeenInOrder, InOrder, P!Searches

LEMMA ListedChanges ==
  ASSUME P!TypeOK, UNCHANGED <<kind, filtering>>
  PROVE  P!Listed' = {e \in there' : Asked(e)}
<1>1. kind \in {"function", "memory_segment", "import", "export", "string", "class",
                "namespace", "type", "to", "from", "bytes", "insns"}
  BY PagesAssumption DEF P!TypeOK, P!References, P!Searches
<1> QED
  <2>1. CASE kind = "function"
    BY <2>1 DEF P!Listed, P!FunctionRows, Asked, P!Matching
  <2>2. CASE kind = "memory_segment"
    BY <2>2 DEF P!Listed, P!Segments, Asked
  <2>3. CASE kind = "import"
    BY <2>3 DEF P!Listed, P!Imports, Asked
  <2>4. CASE kind = "export"
    BY <2>4 DEF P!Listed, P!Exports, Asked
  <2>5. CASE kind = "string"
    BY <2>5 DEF P!Listed, P!Strings, Asked, P!Matching
  <2>6. CASE kind = "class"
    BY <2>6 DEF P!Listed, P!Classes, Asked
  <2>7. CASE kind = "namespace"
    BY <2>7 DEF P!Listed, P!Namespaces, Asked
  <2>8. CASE kind = "type"
    BY <2>8 DEF P!Listed, P!Types, Asked, P!Matching
  <2>9. CASE kind = "to"
    BY <2>9 DEF P!Listed, P!ReferencesTo, Asked
  <2>10. CASE kind = "from"
    BY <2>10 DEF P!Listed, P!ReferencesFrom, Asked
  <2>11. CASE kind = "bytes"
    BY <2>11 DEF P!Listed, P!ByteMatches, Asked
  <2>12. CASE kind = "insns"
    BY <2>12 DEF P!Listed, P!InsnMatches, Asked
  <2> QED
    BY <1>1, <2>1, <2>2, <2>3, <2>4, <2>5, <2>6, <2>7, <2>8, <2>9, <2>10, <2>11, <2>12

LEMMA Sets ==
  ASSUME P!TypeOK, pc \in {"ask", "scan"}, pc = "scan" => SeenInOrder
  PROVE  /\ View \in SUBSET Entries /\ P!Listed \in SUBSET Entries
         /\ Missed \in SUBSET Entries /\ Lost \in SUBSET Entries /\ Late \in SUBSET Entries
         /\ \A k : Again(k) \in SUBSET Entries
<1>1. View \in SUBSET Entries
  BY Views, ListedIs DEF View
<1> QED
  BY <1>1, ListedIs, Numbers DEF Missed, Lost, Late, Again, After, Low

LEMMA SumSame ==
  ASSUME NEW a \in Nat, NEW b \in Nat, NEW k \in Int, NEW m \in Nat, NEW n \in Nat,
         a <= b, m <= n
  PROVE  a + k - k <= b + n - m
OBVIOUS

LEMMA Sum ==
  ASSUME NEW a \in Int, NEW b \in Int, NEW t \in Int, NEW o \in Int, NEW i \in Int,
         NEW k \in Int, NEW m \in Int, NEW n \in Int,
         a + k - i <= b + n - m, b + t <= o - i + m
  PROVE  a + t <= o - k + n
OBVIOUS

\* What happens to the rows at a place or after it.
AgainFollows ==
  \A k \in 0..offset : \E j \in 0..offset :
    Cardinality(Again(k)') + Cardinality(Late') + k - j
      <= Cardinality(Again(j)) + Cardinality(Late) + came' - came

\* Counts that are not negative.
LEMMA CountsAreNat ==
  ASSUME P!TypeOK, pc \in {"ask", "scan"}, pc = "scan" => SeenInOrder
  PROVE  /\ Cardinality(Missed) \in Nat /\ Cardinality(Lost) \in Nat /\ Cardinality(Late) \in Nat
         /\ Cardinality(View) \in Nat /\ \A k : Cardinality(Again(k)) \in Nat
BY Sets, Finite

LEMMA AgainFollow ==
  ASSUME P!TypeOK, P!TypeOK', pc \in {"ask", "scan"}, pc = "scan" => SeenInOrder, Counts,
         Late' \in SUBSET Entries, AgainFollows, NEW k \in 0..offset
  PROVE  Cardinality(Again(k)') + Twice + Cardinality(Late') <= offset - k + came'
<1>1. PICK i \in 0..offset :
         Cardinality(Again(k)') + Cardinality(Late') + k - i
           <= Cardinality(Again(i)) + Cardinality(Late) + came' - came
  BY DEF AgainFollows
<1>2. Cardinality(Again(i)) + Twice + Cardinality(Late) <= offset - i + came
  BY DEF Counts
<1>3. P!ToSet(got') \in SUBSET Entries
  BY RangeSet DEF P!TypeOK
<1>4. Again(k)' \in SUBSET Entries
  BY <1>3 DEF Again, After
<1>5. /\ Cardinality(Again(k)') \in Nat /\ Cardinality(Again(i)) \in Nat
      /\ Cardinality(Late) \in Nat /\ Cardinality(Late') \in Nat
  BY <1>4, CountsAreNat, Finite
<1>6. offset \in Int /\ Twice \in Int /\ came \in Nat /\ came' \in Nat /\ k \in Int /\ i \in Int
  <2>1. came' \in Nat
    BY PagesAssumption DEF P!TypeOK
  <2> QED
    BY <2>1, Numbers
<1> QED
  BY <1>1, <1>2, <1>5, <1>6, Sum

\* The counts after a step that leaves the rows and the offset alone.
LEMMA CountsFollow ==
  ASSUME P!TypeOK, P!TypeOK', pc \in {"ask", "scan"}, pc = "scan" => SeenInOrder, Counts,
         offset' = offset, got' = got, P!Size' = P!Size, Twice' = Twice,
         Missed' \in SUBSET Entries, Lost' \in SUBSET Entries, Late' \in SUBSET Entries,
         View' \in SUBSET Entries,
         offset >= 0 /\ Cardinality(View) + gone >= offset => Cardinality(View') + gone' >= offset,
         Cardinality(Missed') + Cardinality(Lost') <= Cardinality(Missed) + Cardinality(Lost) + gone' - gone,
         AgainFollows
  PROVE  Counts'
<1>1. Cardinality(Missed') + Cardinality(Lost') <= gone'
  <2>1. /\ Cardinality(Missed) \in Nat /\ Cardinality(Lost) \in Nat
        /\ Cardinality(Missed') \in Nat /\ Cardinality(Lost') \in Nat
    BY CountsAreNat, Finite
  <2>2. gone \in Nat /\ gone' \in Nat
    BY Numbers, PagesAssumption DEF P!TypeOK
  <2>3. Cardinality(Missed) + Cardinality(Lost) <= gone
    BY DEF Counts
  <2> QED
    BY <2>1, <2>2, <2>3
<1>2. got # <<>> => offset >= 0 /\ P!Size > 0 /\ Cardinality(View') + gone' >= offset
  BY DEF Counts
<1>3. \A k \in 0..offset : Cardinality(Again(k)') + Twice + Cardinality(Late') <= offset - k + came'
  BY AgainFollow
<1> QED
  BY <1>1, <1>2, <1>3 DEF Counts

\* What a removal leaves alone.
LEMMA VanishRest ==
  ASSUME PagesInv, NEW e \in Entries, P!Vanish(e)
  PROVE  /\ pc \in {"ask", "scan"} /\ (pc = "scan" => SeenInOrder)
         /\ e \in P!Listed /\ P!Listed' = P!Listed \ {e} /\ expected' = expected \ {e}
         /\ gone' = IF P!Below(e) THEN gone + 1 ELSE gone
         /\ UNCHANGED <<kind, filtering, rows, offset, seen, got, pc, came>>
         /\ P!TypeOK' /\ expected' \subseteq P!Listed'
         /\ pc' = "scan" => offset' >= 0 /\ P!Size' > 0 /\ SeenInOrder'
         /\ P!PagingIsHonest'
<1>1. /\ pc \in {"ask", "scan"} /\ gone + came < MaxChanges
      /\ e \in P!Listed /\ there' = there \ {e} /\ expected' = expected \ {e}
      /\ gone' = IF P!Below(e) THEN gone + 1 ELSE gone
      /\ UNCHANGED <<kind, filtering, rows, offset, target, seen, got, pc, came>>
  BY DEF P!Vanish, P!Changing, P!call
<1>2. P!TypeOK
  BY DEF PagesInv
<1>3. P!TypeOK'
  <2>1. gone \in Nat /\ came \in Nat
    BY <1>2, Numbers
  <2>2. gone' \in 0..MaxChanges /\ came' \in 0..MaxChanges
    BY <1>1, <1>2, <2>1, PagesAssumption DEF P!TypeOK
  <2> QED
    BY <1>1, <1>2, <2>2 DEF P!TypeOK
<1>4. P!Listed' = P!Listed \ {e}
  <2>1. P!Listed' = {x \in there' : Asked(x)} /\ P!Listed = {x \in there : Asked(x)}
    BY <1>1, <1>2, ListedIs, ListedChanges
  <2> QED
    BY <1>1, <2>1
<1>5. expected' \subseteq P!Listed'
  BY <1>1, <1>4 DEF PagesInv
<1>6. pc' = "scan" => offset' >= 0 /\ P!Size' > 0 /\ SeenInOrder'
  <2>1. P!Size' = P!Size /\ (SeenInOrder => SeenInOrder')
    BY <1>1, SeenStays
  <2> QED
    BY <1>1, <2>1 DEF PagesInv
<1>7. P!PagingIsHonest'
  BY <1>1 DEF PagesInv, P!PagingIsHonest, P!NoneMissed, P!NoneTwice, P!NotRefused
<1> QED
  BY <1>1, <1>3, <1>4, <1>5, <1>6, <1>7 DEF PagesInv

LEMMA VanishPages ==
  ASSUME PagesInv, NEW e \in Entries, P!Vanish(e)
  PROVE  PagesInv'
<1>1. /\ pc \in {"ask", "scan"} /\ (pc = "scan" => SeenInOrder)
      /\ e \in P!Listed /\ P!Listed' = P!Listed \ {e} /\ expected' = expected \ {e}
      /\ gone' = IF P!Below(e) THEN gone + 1 ELSE gone
      /\ UNCHANGED <<kind, filtering, rows, offset, seen, got, pc, came>>
      /\ P!TypeOK' /\ expected' \subseteq P!Listed'
      /\ pc' = "scan" => offset' >= 0 /\ P!Size' > 0 /\ SeenInOrder'
      /\ P!PagingIsHonest'
  BY VanishRest
<1>2. P!TypeOK /\ Counts
  BY <1>1 DEF PagesInv
<1>3. /\ P!Reached' = P!Reached /\ P!Size' = P!Size /\ NextOffset' = NextOffset
      /\ P!ToSet(seen)' = P!ToSet(seen) /\ P!ToSet(got)' = P!ToSet(got) /\ Twice' = Twice
  BY <1>1, SeenStays
<1>4. /\ offset \in Int /\ NextOffset \in Int /\ gone \in Nat /\ came \in Nat
      /\ View \in SUBSET Entries /\ P!Listed \in SUBSET Entries
      /\ Missed \in SUBSET Entries /\ Lost \in SUBSET Entries /\ Late \in SUBSET Entries
      /\ P!ToSet(got) \in SUBSET Entries /\ P!ToSet(seen) \in SUBSET Entries /\ P!Reached \in Nat
  BY <1>1, <1>2, Sets, Numbers
<1>5. /\ Cardinality(Missed) \in Nat /\ Cardinality(Lost) \in Nat /\ Cardinality(Late) \in Nat
      /\ Cardinality(View) \in Nat /\ \A k : Cardinality(Again(k)) \in Nat
  BY <1>1, <1>2, CountsAreNat
\* What is left when the sets are.
<1>6. ASSUME View' \in SUBSET View, Late' \in SUBSET Late, Lost' \in SUBSET Entries,
             Missed' \in SUBSET Entries,
             offset >= 0 /\ Cardinality(View) + gone >= offset
               => Cardinality(View') + gone' >= offset,
             Cardinality(Missed') + Cardinality(Lost')
               <= Cardinality(Missed) + Cardinality(Lost) + gone' - gone,
             \A k \in 0..offset : Again(k)' \in SUBSET Again(k)
      PROVE  PagesInv'
  <2>1. AgainFollows
    <3> SUFFICES ASSUME NEW k \in 0..offset
                 PROVE  Cardinality(Again(k)') + Cardinality(Late') + k - k
                          <= Cardinality(Again(k)) + Cardinality(Late) + came' - came
      BY DEF AgainFollows
    <3>1. Again(k) \in SUBSET Entries
      BY <1>1, <1>2, Sets
    <3>2. Cardinality(Again(k)') <= Cardinality(Again(k)) /\ Cardinality(Again(k)') \in Nat
      BY <1>6, <3>1, Smaller, Finite
    <3>3. Cardinality(Late') <= Cardinality(Late) /\ Cardinality(Late') \in Nat
      BY <1>4, <1>6, Smaller, Finite
    <3> QED
      BY <1>1, <1>4, <1>5, <3>2, <3>3
  <2>2. Counts'
    BY <1>1, <1>2, <1>3, <1>4, <1>6, <2>1, CountsFollow
  <2> QED
    BY <1>1, <2>2 DEF PagesInv
<1>7. CASE pc = "ask" \/ e.at > P!Reached
  <2>1. e \in View /\ View' = View \ {e}
    <3>1. CASE pc = "ask"
      BY <1>1, <3>1 DEF View
    <3>2. CASE pc = "scan" /\ e.at > P!Reached
      <4>1. View = P!ToSet(seen) \cup P!Ahead /\ View' = P!ToSet(seen) \cup P!Ahead'
        BY <1>1, <1>3, <3>2 DEF View
      <4>2. e \in P!Ahead /\ P!Ahead' = P!Ahead \ {e}
        BY <1>1, <1>3, <3>2 DEF P!Ahead
      <4>3. e \notin P!ToSet(seen)
        BY <1>1, <1>2, <3>2, <4>2, Views
      <4> QED
        BY <4>1, <4>2, <4>3
    <3> QED
      BY <1>1, <1>7, <3>1, <3>2
  <2>2. P!Below(e) <=> P!Before(View, e) < offset
    <3>1. ~(pc = "scan" /\ e.at <= P!Reached)
      BY <1>4, <1>7, PagesAssumption
    <3> QED
      BY <1>1, <1>2, <3>1, BelowIs
  <2>3. P!Before(View, e) \in Nat /\ P!Before(View, e) < Cardinality(View)
    <3>1. View \ {e} \in SUBSET Entries /\ Cardinality(View) = Cardinality(View \ {e}) + 1
      BY <1>4, <2>1, Finite, FS_RemoveElement
    <3>2. {x \in View : x.at < e.at} \in SUBSET (View \ {e})
      BY PagesAssumption
    <3>3. P!Before(View, e) <= Cardinality(View \ {e})
      BY <3>1, <3>2, Smaller, BeforeIs
    <3>4. P!Before(View, e) \in Nat /\ Cardinality(View \ {e}) \in Nat
      BY <1>4, <3>1, BeforeNat, Finite
    <3> QED
      BY <3>1, <3>3, <3>4
  <2>4. Cardinality(View') = Cardinality(View) - 1
    BY <1>4, <2>1, Finite, FS_RemoveElement
  <2>5. Missed' = ((expected \ {e}) \cap Low(View \ {e}, offset)) \ P!ToSet(got)
    BY <1>1, <1>3, <2>1 DEF Missed, Low
  <2>6. Missed' \in SUBSET Entries
    BY <1>4, <2>5 DEF Low
  <2>7. Cardinality(Missed') <= Cardinality(Missed) + (IF P!Below(e) THEN 1 ELSE 0)
    <3>1. CASE P!Below(e)
      <4>1. \A x, y \in Missed' \ Missed : x = y
        BY <1>4, <2>1, <2>5, LowWithout DEF Missed
      <4> QED
        BY <1>4, <2>6, <3>1, <4>1, OneMore
    <3>2. CASE ~P!Below(e)
      <4>1. P!Before(View, e) >= offset
        BY <1>4, <2>2, <2>3, <3>2
      <4>2. Missed' \in SUBSET Missed
        BY <1>4, <2>1, <2>5, <4>1, LowWithout DEF Missed
      <4> QED
        BY <1>4, <1>5, <2>6, <3>2, <4>2, Smaller, Finite
    <3> QED
      BY <3>1, <3>2
  \* What is behind does not move.
  <2>8. ASSUME pc = "scan", NEW x \in Entries, x.at <= P!Reached
        PROVE  P!Before(View \ {e}, x) = P!Before(View, x)
    <3>1. ~(e.at < x.at)
      BY <1>4, <1>7, <2>8, PagesAssumption
    <3>2. P!Before(View \ {e}, x) \in Nat
      BY <1>4, BeforeNat
    <3> QED
      BY <1>4, <2>1, <3>1, <3>2, BeforeWithout
  <2>9. Lost' \in SUBSET Lost
    <3>1. Lost' = Low(View \ {e}, NextOffset) \ (P!Listed \ {e})
      BY <1>1, <1>3, <2>1 DEF Lost, Low
    <3>2. CASE pc = "ask"
      BY <3>1, <3>2 DEF Low, View
    <3>3. CASE pc = "scan"
      <4> SUFFICES ASSUME NEW x \in Lost' PROVE x \in Lost
        OBVIOUS
      <4>1. x \in View /\ x # e /\ x \notin P!Listed /\ P!Before(View \ {e}, x) < NextOffset
        BY <3>1 DEF Low
      <4>2. x \in P!ToSet(seen)
        BY <3>3, <4>1 DEF View, P!Ahead
      <4>3. x.at <= P!Reached /\ x \in Entries
        BY <1>1, <1>4, <3>3, <4>2 DEF SeenInOrder
      <4> QED
        BY <2>8, <3>3, <4>1, <4>3 DEF Lost, Low
    <3> QED
      BY <1>1, <3>2, <3>3
  <2>10. Late' \in SUBSET Late
    <3>1. Late' = {x \in (P!Listed \ {e}) \ (View \ {e}) : P!Before(View \ {e}, x) < NextOffset}
      BY <1>1, <1>3, <2>1 DEF Late
    <3>2. CASE pc = "ask"
      BY <3>1, <3>2 DEF View
    <3>3. CASE pc = "scan"
      <4> SUFFICES ASSUME NEW x \in Late' PROVE x \in Late
        OBVIOUS
      <4>1. x \in P!Listed /\ x \notin View /\ P!Before(View \ {e}, x) < NextOffset
        BY <3>1
      <4>2. x \in Entries /\ x.at <= P!Reached
        BY <1>4, <3>3, <4>1, PagesAssumption DEF View, P!Ahead
      <4> QED
        BY <2>8, <3>3, <4>1, <4>2 DEF Late
    <3> QED
      BY <1>1, <3>2, <3>3
  <2>11. ASSUME NEW k \in 0..offset PROVE Again(k)' \in SUBSET Again(k)
    <3>1. Again(k)' = After(P!ToSet(got), View \ {e}, k)
      BY <1>3, <2>1 DEF Again, After
    <3> QED
      BY <1>4, <2>1, <3>1, AfterWithout DEF Again
  <2>12. Cardinality(Lost') <= Cardinality(Lost) /\ Lost' \in SUBSET Entries
    BY <1>4, <2>9, Smaller
  <2>13. Cardinality(Missed') \in Nat /\ Cardinality(Lost') \in Nat
    BY <2>6, <2>12, Finite
  <2>14. gone' = gone + (IF P!Below(e) THEN 1 ELSE 0)
    BY <1>1, <1>4
  <2>15. Cardinality(Missed') + Cardinality(Lost')
           <= Cardinality(Missed) + Cardinality(Lost) + gone' - gone
    BY <1>4, <1>5, <2>7, <2>12, <2>13, <2>14
  <2>16. offset >= 0 /\ Cardinality(View) + gone >= offset => Cardinality(View') + gone' >= offset
    BY <1>4, <1>5, <2>2, <2>3, <2>4, <2>14
  <2> QED
    BY <1>6, <2>1, <2>6, <2>10, <2>11, <2>12, <2>15, <2>16
<1>8. CASE pc = "scan" /\ e.at <= P!Reached
  <2>1. View' = View
    <3>1. View = P!ToSet(seen) \cup P!Ahead /\ View' = P!ToSet(seen) \cup P!Ahead'
      BY <1>1, <1>3, <1>8 DEF View
    <3>2. ~(e.at > P!Reached)
      BY <1>4, <1>8, PagesAssumption
    <3>3. P!Ahead' = P!Ahead
      BY <1>1, <1>3, <3>2 DEF P!Ahead
    <3> QED
      BY <3>1, <3>3
  <2>2. P!Below(e) <=> P!Before(View, e) < NextOffset
    BY <1>1, <1>2, <1>8, BelowIs
  <2>3. Missed' \in SUBSET Missed
    BY <1>1, <1>3, <2>1 DEF Missed, Low
  <2>4. Late' \in SUBSET Late
    BY <1>1, <1>3, <2>1 DEF Late
  <2>5. \A k \in 0..offset : Again(k)' \in SUBSET Again(k)
    BY <1>3, <2>1 DEF Again, After
  <2>6. Lost' \subseteq Lost \cup {e} /\ (~P!Below(e) => Lost' \subseteq Lost)
    BY <1>1, <1>3, <2>1, <2>2 DEF Lost, Low
  <2>7. Lost' \in SUBSET Entries
    BY <1>4, <2>6
  <2>8. Cardinality(Lost') <= Cardinality(Lost) + (IF P!Below(e) THEN 1 ELSE 0)
    <3>1. CASE P!Below(e)
      BY <1>4, <2>6, <2>7, <3>1, OneMore
    <3>2. CASE ~P!Below(e)
      BY <1>4, <1>5, <2>6, <2>7, <3>2, Smaller, Finite
    <3> QED
      BY <3>1, <3>2
  <2>9. Cardinality(Missed') <= Cardinality(Missed) /\ Missed' \in SUBSET Entries
    BY <1>4, <2>3, Smaller
  <2>10. Cardinality(Missed') \in Nat /\ Cardinality(Lost') \in Nat
    BY <2>7, <2>9, Finite
  <2>11. gone' = gone + (IF P!Below(e) THEN 1 ELSE 0)
    BY <1>1, <1>4
  <2>12. Cardinality(Missed') + Cardinality(Lost')
           <= Cardinality(Missed) + Cardinality(Lost) + gone' - gone
    BY <1>4, <1>5, <2>8, <2>9, <2>10, <2>11
  <2>13. offset >= 0 /\ Cardinality(View) + gone >= offset => Cardinality(View') + gone' >= offset
    BY <1>4, <1>5, <2>1, <2>11
  <2> QED
    BY <1>6, <2>1, <2>4, <2>5, <2>7, <2>9, <2>12, <2>13
<1> QED
  BY <1>1, <1>4, <1>7, <1>8, PagesAssumption

\* What an addition leaves alone.
LEMMA AppearRest ==
  ASSUME PagesInv, NEW e \in Entries, P!Appear(e)
  PROVE  /\ pc \in {"ask", "scan"} /\ (pc = "scan" => SeenInOrder)
         /\ e \notin P!Listed /\ e \notin expected
         /\ P!Listed' = IF Asked(e) THEN P!Listed \cup {e} ELSE P!Listed
         /\ came' = IF P!Below(e) THEN came + 1 ELSE came
         /\ UNCHANGED <<kind, filtering, rows, offset, seen, got, pc, expected, gone>>
         /\ P!TypeOK' /\ expected' \subseteq P!Listed'
         /\ pc' = "scan" => offset' >= 0 /\ P!Size' > 0 /\ SeenInOrder'
         /\ P!PagingIsHonest'
<1>1. /\ pc \in {"ask", "scan"} /\ gone + came < MaxChanges
      /\ e \notin there /\ there' = there \cup {e}
      /\ came' = IF P!Below(e) THEN came + 1 ELSE came
      /\ UNCHANGED <<kind, filtering, rows, offset, target, seen, got, pc, expected, gone>>
  BY DEF P!Appear, P!Changing, P!call
<1>2. P!TypeOK
  BY DEF PagesInv
<1>3. gone \in Nat /\ came \in Nat
  BY <1>2, Numbers
<1>4. P!TypeOK'
  <2>1. gone' \in 0..MaxChanges /\ came' \in 0..MaxChanges
    BY <1>1, <1>2, <1>3, PagesAssumption DEF P!TypeOK
  <2> QED
    BY <1>1, <1>2, <2>1 DEF P!TypeOK
<1>5. P!Listed' = IF Asked(e) THEN P!Listed \cup {e} ELSE P!Listed
  <2>1. P!Listed' = {x \in there' : Asked(x)} /\ P!Listed = {x \in there : Asked(x)}
    BY <1>1, <1>2, ListedIs, ListedChanges
  <2> QED
    BY <1>1, <2>1
<1>6. e \notin P!Listed /\ e \notin expected
  BY <1>1, <1>2, ListedIs DEF PagesInv
<1>7. expected' \subseteq P!Listed'
  BY <1>1, <1>5 DEF PagesInv
<1>8. pc' = "scan" => offset' >= 0 /\ P!Size' > 0 /\ SeenInOrder'
  <2>1. P!Size' = P!Size /\ (SeenInOrder => SeenInOrder')
    BY <1>1, SeenStays
  <2> QED
    BY <1>1, <2>1 DEF PagesInv
<1>9. P!PagingIsHonest'
  <2>1. P!ToSet(got)' = P!ToSet(got) /\ Twice' = Twice /\ Twice \in Int
    BY <1>1, <1>2, SeenStays, Numbers
  <2>2. Twice <= came /\ came <= came'
    BY <1>1, <1>3, HonestIs DEF PagesInv
  <2>3. Twice' <= came' /\ came' \in Nat
    BY <1>1, <1>3, <2>1, <2>2
  <2>4. P!NoneTwice'
    BY <2>3, CardIs DEF P!NoneTwice, Twice
  <2> QED
    BY <1>1, <2>4 DEF P!PagingIsHonest, P!NoneMissed, P!NotRefused
<1> QED
  BY <1>1, <1>4, <1>5, <1>6, <1>7, <1>8, <1>9 DEF PagesInv

LEMMA AppearPages ==
  ASSUME PagesInv, NEW e \in Entries, P!Appear(e)
  PROVE  PagesInv'
<1>1. /\ pc \in {"ask", "scan"} /\ (pc = "scan" => SeenInOrder)
      /\ e \notin P!Listed /\ e \notin expected
      /\ P!Listed' = IF Asked(e) THEN P!Listed \cup {e} ELSE P!Listed
      /\ came' = IF P!Below(e) THEN came + 1 ELSE came
      /\ UNCHANGED <<kind, filtering, rows, offset, seen, got, pc, expected, gone>>
      /\ P!TypeOK' /\ expected' \subseteq P!Listed'
      /\ pc' = "scan" => offset' >= 0 /\ P!Size' > 0 /\ SeenInOrder'
      /\ P!PagingIsHonest'
  BY AppearRest
<1>2. P!TypeOK /\ Counts
  BY <1>1 DEF PagesInv
<1>3. /\ P!Reached' = P!Reached /\ P!Size' = P!Size /\ NextOffset' = NextOffset
      /\ P!ToSet(seen)' = P!ToSet(seen) /\ P!ToSet(got)' = P!ToSet(got) /\ Twice' = Twice
  BY <1>1, SeenStays
<1>4. /\ offset \in Int /\ NextOffset \in Int /\ gone \in Nat /\ came \in Nat
      /\ View \in SUBSET Entries /\ P!Listed \in SUBSET Entries
      /\ Missed \in SUBSET Entries /\ Lost \in SUBSET Entries /\ Late \in SUBSET Entries
      /\ P!ToSet(got) \in SUBSET Entries /\ P!ToSet(seen) \in SUBSET Entries /\ P!Reached \in Nat
  BY <1>1, <1>2, Sets, Numbers
<1>5. /\ Cardinality(Missed) \in Nat /\ Cardinality(Lost) \in Nat /\ Cardinality(Late) \in Nat
      /\ Cardinality(View) \in Nat /\ \A k : Cardinality(Again(k)) \in Nat
  BY <1>1, <1>2, CountsAreNat
<1>6. came' = came + (IF P!Below(e) THEN 1 ELSE 0)
  BY <1>1, <1>4
\* What is left when the sets are.
<1>7. ASSUME View \subseteq View', View' \in SUBSET Entries, Late' \in SUBSET Entries,
             Lost' \in SUBSET Lost, Missed' \in SUBSET Missed, AgainFollows
      PROVE  PagesInv'
  <2>1. /\ Cardinality(Missed') <= Cardinality(Missed) /\ Cardinality(Missed') \in Nat
        /\ Cardinality(Lost') <= Cardinality(Lost) /\ Cardinality(Lost') \in Nat
        /\ Cardinality(View) <= Cardinality(View') /\ Cardinality(View') \in Nat
    BY <1>4, <1>7, Smaller, Finite
  <2>2. /\ offset >= 0 /\ Cardinality(View) + gone >= offset => Cardinality(View') + gone' >= offset
        /\ Cardinality(Missed') + Cardinality(Lost')
             <= Cardinality(Missed) + Cardinality(Lost) + gone' - gone
    BY <1>1, <1>4, <1>5, <2>1
  <2>3. Missed' \in SUBSET Entries /\ Lost' \in SUBSET Entries
    BY <1>4, <1>7
  <2>4. Counts'
    BY <1>1, <1>2, <1>3, <1>7, <2>2, <2>3, CountsFollow
  <2> QED
    BY <1>1, <2>4 DEF PagesInv
<1>8. CASE ~Asked(e)
  <2>1. P!Listed' = P!Listed
    BY <1>1, <1>8
  <2>2. View' = View
    BY <1>1, <1>3, <2>1 DEF View, P!Ahead
  <2>3. /\ Missed' = Missed /\ Lost' = Lost /\ Late' = Late
        /\ \A k : Again(k)' = Again(k)
    BY <1>1, <1>3, <2>1, <2>2 DEF Missed, Lost, Late, Again, After, Low
  <2>4. AgainFollows
    <3> SUFFICES ASSUME NEW k \in 0..offset
                 PROVE  Cardinality(Again(k)') + Cardinality(Late') + k - k
                          <= Cardinality(Again(k)) + Cardinality(Late) + came' - came
      BY DEF AgainFollows
    <3> QED
      BY <1>4, <1>5, <1>6, <2>3
  <2> QED
    BY <1>4, <1>7, <2>2, <2>3, <2>4
<1>9. CASE Asked(e) /\ (pc = "ask" \/ e.at > P!Reached)
  <2>1. e \notin View /\ View' = View \cup {e}
    <3>1. CASE pc = "ask"
      BY <1>1, <1>9, <3>1 DEF View
    <3>2. CASE pc = "scan" /\ e.at > P!Reached
      <4>1. View = P!ToSet(seen) \cup P!Ahead /\ View' = P!ToSet(seen) \cup P!Ahead'
        BY <1>1, <1>3, <3>2 DEF View
      <4>2. e \notin P!Ahead /\ P!Ahead' = P!Ahead \cup {e}
        BY <1>1, <1>3, <1>9, <3>2 DEF P!Ahead
      <4>3. e \notin P!ToSet(seen)
        BY <1>1, <1>4, <3>2, PagesAssumption DEF SeenInOrder
      <4> QED
        BY <4>1, <4>2, <4>3
    <3> QED
      BY <1>1, <1>9, <3>1, <3>2
  <2>2. P!Below(e) <=> P!Before(View, e) < offset
    <3>1. ~(pc = "scan" /\ e.at <= P!Reached)
      BY <1>4, <1>9, PagesAssumption
    <3> QED
      BY <1>1, <1>2, <3>1, BelowIs
  <2>3. Missed' \in SUBSET Missed
    <3>1. Missed' = (expected \cap Low(View \cup {e}, offset)) \ P!ToSet(got)
      BY <1>1, <1>3, <2>1 DEF Missed, Low
    <3>2. Low(View \cup {e}, offset) \subseteq Low(View, offset) \cup {e}
      BY <1>4, <2>1, LowWith
    <3> QED
      BY <1>1, <3>1, <3>2 DEF Missed
  <2>4. Lost' \in SUBSET Lost
    <3>1. Lost' = Low(View \cup {e}, NextOffset) \ (P!Listed \cup {e})
      BY <1>1, <1>3, <1>9, <2>1 DEF Lost, Low
    <3>2. Low(View \cup {e}, NextOffset) \subseteq Low(View, NextOffset) \cup {e}
      BY <1>4, <2>1, LowWith
    <3> QED
      BY <3>1, <3>2 DEF Lost
  <2>5. Late' \in SUBSET Late
    <3>1. Late' = {x \in (P!Listed \cup {e}) \ (View \cup {e}) : P!Before(View \cup {e}, x) < NextOffset}
      BY <1>1, <1>3, <1>9, <2>1 DEF Late
    <3>2. CASE pc = "ask"
      BY <3>1, <3>2 DEF View
    <3>3. CASE pc = "scan"
      <4> SUFFICES ASSUME NEW x \in Late' PROVE x \in Late
        OBVIOUS
      <4>1. x \in P!Listed /\ x \notin View /\ P!Before(View \cup {e}, x) < NextOffset
        BY <3>1
      <4>2. x \in Entries /\ x.at <= P!Reached
        BY <1>4, <3>3, <4>1, PagesAssumption DEF View, P!Ahead
      <4>3. ~(e.at < x.at)
        BY <1>4, <1>9, <3>3, <4>2, PagesAssumption
      <4>4. P!Before(View \cup {e}, x) = P!Before(View, x)
        <5>1. P!Before(View, x) \in Nat
          BY <1>4, BeforeNat
        <5> QED
          BY <1>4, <2>1, <4>2, <4>3, <5>1, BeforeWith
      <4> QED
        BY <4>1, <4>4 DEF Late
    <3> QED
      BY <1>1, <3>2, <3>3
  <2>6. AgainFollows
    <3> SUFFICES ASSUME NEW k \in 0..offset
                 PROVE  \E i \in 0..offset :
                          Cardinality(Again(k)') + Cardinality(Late') + k - i
                            <= Cardinality(Again(i)) + Cardinality(Late) + came' - came
      BY DEF AgainFollows
    <3>0. k \in Int
      BY <1>4
    <3>1. Again(k)' = After(P!ToSet(got), View \cup {e}, k)
      BY <1>3, <2>1 DEF Again, After
    <3>2. Cardinality(Late') <= Cardinality(Late) /\ Cardinality(Late') \in Nat
      BY <1>4, <2>5, Smaller, Finite
    <3>3. \A i : Again(i) \in SUBSET Entries
      BY <1>1, <1>2, Sets
    <3>4. CASE P!Before(View, e) >= k
      <4>1. Again(k)' \in SUBSET Again(k)
        BY <1>4, <2>1, <3>0, <3>1, <3>4, AfterWith DEF Again
      <4>2. Cardinality(Again(k)') <= Cardinality(Again(k)) /\ Cardinality(Again(k)') \in Nat
        BY <3>3, <4>1, Smaller, Finite
      <4>3. Cardinality(Again(k)') + Cardinality(Late') + k - k
              <= Cardinality(Again(k)) + Cardinality(Late) + came' - came
        <5>2. /\ Cardinality(Again(k)) \in Nat /\ Cardinality(Late) \in Nat
              /\ Cardinality(Again(k)') + Cardinality(Late') + k - k
                   = Cardinality(Again(k)') + Cardinality(Late')
          BY <1>5, <3>2, <4>2
        <5>3. Cardinality(Again(k)') + Cardinality(Late')
                <= Cardinality(Again(k)) + Cardinality(Late)
          BY <3>2, <4>2, <5>2
        <5> DEFINE a == Cardinality(Again(k)') + Cardinality(Late')
                   b == Cardinality(Again(k)) + Cardinality(Late)
        <5>4. a \in Nat /\ b \in Nat /\ a <= b /\ came \in Nat /\ came' \in Nat
          BY <1>4, <1>6, <3>2, <4>2, <5>2, <5>3
        <5> HIDE DEF a, b
        <5>5. a + k - k <= b + came' - came
          <6>1. came <= came'
            BY <1>4, <1>6
          <6> QED
            BY <3>0, <5>4, <6>1, SumSame
        <5> QED
          BY <5>5 DEF a, b
      <4> QED
        BY <4>3
    <3>5. CASE ~(P!Before(View, e) >= k)
      <4>1. P!Before(View, e) \in Nat /\ P!Before(View, e) < k
        BY <1>4, <3>5, BeforeNat
      <4>2. k - 1 \in 0..offset /\ P!Below(e)
        <5>1. k \in Int /\ k <= offset
          BY <1>4
        <5>2. P!Before(View, e) < offset
          BY <1>4, <4>1, <5>1
        <5>3. k - 1 \in 0..offset
          BY <1>4, <4>1, <5>1
        <5> QED
          BY <2>2, <5>2, <5>3
      <4>3. Again(k)' \in SUBSET Again(k - 1)
        BY <1>4, <2>1, <3>0, <3>1, AfterWith DEF Again
      <4>4. Cardinality(Again(k)') <= Cardinality(Again(k - 1)) /\ Cardinality(Again(k)') \in Nat
        BY <3>3, <4>3, Smaller, Finite
      <4>5. Cardinality(Again(k - 1)) \in Nat /\ came' = came + 1
        BY <1>5, <1>6, <4>2
      <4>6. Cardinality(Again(k)') + Cardinality(Late') + k - (k - 1)
              <= Cardinality(Again(k - 1)) + Cardinality(Late) + came' - came
        <5>1. k - (k - 1) = 1 /\ came' - came = 1
          BY <1>4, <4>5
        <5> QED
          BY <1>4, <1>5, <3>2, <4>4, <4>5, <5>1
      <4> QED
        BY <4>2, <4>6
    <3> QED
      BY <3>4, <3>5
  <2>7. View' \in SUBSET Entries /\ Late' \in SUBSET Entries
    BY <1>4, <2>1, <2>5
  <2> QED
    BY <1>7, <2>1, <2>3, <2>4, <2>6, <2>7
<1>10. CASE Asked(e) /\ pc = "scan" /\ e.at <= P!Reached
  <2>1. View' = View
    <3>1. View = P!ToSet(seen) \cup P!Ahead /\ View' = P!ToSet(seen) \cup P!Ahead'
      BY <1>1, <1>3, <1>10 DEF View
    <3>2. ~(e.at > P!Reached)
      BY <1>4, <1>10, PagesAssumption
    <3>3. P!Ahead' = P!Ahead
      BY <1>1, <1>3, <3>2 DEF P!Ahead
    <3> QED
      BY <3>1, <3>3
  <2>2. P!Below(e) <=> P!Before(View, e) < NextOffset
    BY <1>1, <1>2, <1>10, BelowIs
  <2>3. /\ Missed' = Missed /\ Lost' \in SUBSET Lost
        /\ \A k : Again(k)' = Again(k)
    BY <1>1, <1>3, <2>1 DEF Missed, Lost, Again, After, Low
  <2>4. Late' \subseteq Late \cup {e} /\ (~P!Below(e) => Late' \subseteq Late)
    BY <1>1, <1>3, <2>1, <2>2 DEF Late
  <2>5. Late' \in SUBSET Entries
    BY <1>4, <2>4
  <2>6. Cardinality(Late') <= Cardinality(Late) + (IF P!Below(e) THEN 1 ELSE 0)
    <3>1. CASE P!Below(e)
      BY <1>4, <2>4, <2>5, <3>1, OneMore
    <3>2. CASE ~P!Below(e)
      BY <1>4, <1>5, <2>4, <2>5, <3>2, Smaller, Finite
    <3> QED
      BY <3>1, <3>2
  <2>7. AgainFollows
    <3> SUFFICES ASSUME NEW k \in 0..offset
                 PROVE  Cardinality(Again(k)') + Cardinality(Late') + k - k
                          <= Cardinality(Again(k)) + Cardinality(Late) + came' - came
      BY DEF AgainFollows
    <3>1. Cardinality(Late') \in Nat
      BY <2>5, Finite
    <3> QED
      BY <1>4, <1>5, <1>6, <2>3, <2>6, <3>1
  <2> QED
    BY <1>4, <1>7, <2>1, <2>3, <2>5, <2>7
<1> QED
  BY <1>1, <1>4, <1>8, <1>9, <1>10, PagesAssumption

LEMMA PagesInit == P!Init => PagesInv
<1> SUFFICES ASSUME P!Init PROVE PagesInv
  OBVIOUS
<1>1. /\ there \subseteq Entries /\ kind \in Kinds /\ filtering \in BOOLEAN /\ rows \in Limits
      /\ offset \in Int /\ target = "found" /\ seen = <<>> /\ got = <<>> /\ pc = "ask"
      /\ expected = {e \in P!Listed : P!Before(P!Listed, e) >= offset}
      /\ gone = 0 /\ came = 0
  BY PagesAssumption DEF P!Init
<1>2. P!TypeOK
  <2>1. 0 \in 0..MaxChanges
    BY PagesAssumption
  <2>2. P!Listed \subseteq there
    <3>1. kind \in {"function", "memory_segment", "import", "export", "string", "class",
                    "namespace", "type", "to", "from", "bytes", "insns"}
      BY <1>1, PagesAssumption DEF P!References, P!Searches
    <3> QED
      BY <3>1 DEF P!Listed, P!FunctionRows, P!Segments, P!Imports, P!Exports, P!Strings, P!Classes,
                  P!Namespaces, P!Types, P!ReferencesTo, P!ReferencesFrom, P!ByteMatches,
                  P!InsnMatches
  <2> QED
    BY <1>1, <2>1, <2>2 DEF P!TypeOK
<1>3. View = P!Listed /\ NextOffset = offset /\ P!Listed \in SUBSET Entries
  BY <1>1, <1>2, ListedIs DEF View, NextOffset
<1>4. P!ToSet(got) = {}
  BY <1>1, RangeEmpty
<1>5. Missed = {} /\ Lost = {} /\ Late = {} /\ \A k : Again(k) = {}
  <2>1. ASSUME NEW e \in expected PROVE ~(P!Before(P!Listed, e) < offset)
    <3>1. P!Before(P!Listed, e) \in Nat
      BY <1>3, BeforeNat
    <3>2. P!Before(P!Listed, e) >= offset
      BY <1>1
    <3> QED
      BY <1>1, <3>1, <3>2
  <2>2. \A e \in expected : ~(P!Before(P!Listed, e) < offset)
    BY <2>1
  <2> QED
    BY <1>3, <1>4, <2>2 DEF Missed, Lost, Late, Again, After, Low
<1>6. Cardinality({}) = 0 /\ Twice = 0
  <2>1. Len(got) = 0 /\ Cardinality(P!ToSet(got)) = 0
    BY <1>1, RangeEmpty
  <2> QED
    BY <2>1, RangeEmpty DEF Twice
<1>7. Counts
  <2>1. \A k \in 0..offset : 0 + 0 + 0 <= offset - k + 0
    BY <1>1
  <2>2. \A k \in 0..offset : Cardinality(Again(k)) + Twice + Cardinality(Late) <= offset - k + came
    BY <1>1, <1>5, <1>6, <2>1
  <2> QED
    BY <1>1, <1>5, <1>6, <2>2 DEF Counts
<1>8. P!PagingIsHonest
  BY <1>1, <1>6, HonestIs
<1> QED
  BY <1>1, <1>2, <1>7, <1>8 DEF PagesInv

\* A step that changes neither what is computed from nor what has been got.
LEMMA CountsStay ==
  ASSUME Counts, UNCHANGED <<expected, gone, came, offset, got>>, P!Size' = P!Size,
         View' = View, Lost' = Lost, Late' = Late
  PROVE  Counts'
<1>1. P!ToSet(got)' = P!ToSet(got) /\ Twice' = Twice
  BY DEF Twice
<1>2. Missed' = Missed /\ \A k : Again(k)' = Again(k)
  BY <1>1 DEF Missed, Again, After, Low
<1> QED
  BY <1>1, <1>2 DEF Counts

LEMMA SameQuestion ==
  ASSUME UNCHANGED <<there, kind, filtering, rows>>
  PROVE  P!Listed' = P!Listed /\ P!Size' = P!Size
BY DEF P!Listed, P!FunctionRows, P!Segments, P!Imports, P!Exports, P!Strings, P!Classes,
       P!Namespaces, P!Types, P!ReferencesTo, P!ReferencesFrom, P!ByteMatches, P!InsnMatches,
       P!Matching, P!Size, P!References

LEMMA AskPages == PagesInv /\ P!Ask => PagesInv'
<1> SUFFICES ASSUME PagesInv, P!Ask PROVE PagesInv'
  OBVIOUS
<1>1. /\ pc = "ask" /\ P!Valid /\ pc' = "scan" /\ seen' = <<>>
      /\ UNCHANGED <<there, kind, filtering, rows, offset, target, got, expected, gone, came>>
  BY DEF P!Ask, P!call, P!history
<1>2. P!TypeOK /\ P!TypeOK' /\ expected \subseteq P!Listed /\ Counts
  BY <1>1 DEF PagesInv, P!TypeOK
<1>3. P!Listed' = P!Listed /\ P!Size' = P!Size /\ P!Listed \in SUBSET Entries
  BY <1>1, <1>2, SameQuestion, ListedIs
<1>4. /\ P!Reached' = 0 /\ P!ToSet(seen') = {} /\ Len(seen') = 0
  BY <1>1, RangeEmpty DEF P!Reached
<1>5. View = P!Listed /\ View' = View /\ Lost = {} /\ Late = {} /\ Lost' = {} /\ Late' = {}
  <2>1. P!Ahead' = P!Listed
    BY <1>3, <1>4, PagesAssumption DEF P!Ahead
  <2> QED
    BY <1>1, <1>3, <1>4, <2>1 DEF View, Lost, Late, Low
<1>6. Counts'
  BY <1>1, <1>2, <1>3, <1>5, CountsStay
<1>7. offset >= 0 /\ P!Size > 0
  BY <1>1 DEF P!Valid
<1>8. SeenInOrder'
  <2>1. \A e \in expected' : ~(e.at <= P!Reached')
    BY <1>1, <1>2, <1>3, <1>4, PagesAssumption
  <2>2. Cardinality(P!ToSet(seen')) = Len(seen')
    BY <1>4, FS_EmptySet
  <2>3. Len(seen') <= offset' + P!Size' + 1
    BY <1>1, <1>2, <1>3, <1>4, <1>7, Numbers
  <2> QED
    BY <1>4, <2>1, <2>2, <2>3 DEF SeenInOrder, InOrder
<1>9. P!PagingIsHonest'
  BY <1>1 DEF PagesInv, P!PagingIsHonest, P!NoneMissed, P!NoneTwice, P!NotRefused
<1> QED
  BY <1>1, <1>2, <1>3, <1>6, <1>7, <1>8, <1>9 DEF PagesInv

LEMMA RefusePages == PagesInv /\ P!Refuse => PagesInv'
<1> SUFFICES ASSUME PagesInv, P!Refuse PROVE PagesInv'
  OBVIOUS
<1>1. /\ pc = "ask" /\ ~P!Valid /\ pc' = "refused"
      /\ UNCHANGED <<there, kind, filtering, rows, offset, target, seen, got, expected, gone, came>>
  BY DEF P!Refuse, P!call, P!history
<1>2. P!TypeOK' /\ P!TypeOK /\ expected' \subseteq P!Listed'
  BY <1>1, SameQuestion DEF PagesInv, P!TypeOK
<1>3. got # <<>> => target = "lost"
  BY <1>1, <1>2 DEF PagesInv, Counts, P!Valid, P!TypeOK
<1>4. P!PagingIsHonest'
  BY <1>1, <1>3 DEF PagesInv, P!PagingIsHonest, P!NoneMissed, P!NoneTwice, P!NotRefused
<1> QED
  BY <1>1, <1>2, <1>4 DEF PagesInv

LEMMA BeyondPages == PagesInv /\ P!BeyondTotal => PagesInv'
<1> SUFFICES ASSUME PagesInv, P!BeyondTotal PROVE PagesInv'
  OBVIOUS
<1>1. /\ pc = "scan" /\ P!Ahead = {} /\ offset > Len(seen) /\ pc' = "refused"
      /\ UNCHANGED <<there, kind, filtering, rows, offset, target, seen, got, expected, gone, came>>
  BY DEF P!BeyondTotal, P!call, P!history
<1>2. P!TypeOK' /\ P!TypeOK /\ expected' \subseteq P!Listed'
  BY <1>1, SameQuestion DEF PagesInv, P!TypeOK
<1>3. got # <<>> => gone > 0
  <2>1. View = P!ToSet(seen) /\ Cardinality(View) = Len(seen)
    BY <1>1 DEF View, PagesInv, SeenInOrder
  <2>2. got # <<>> => Len(seen) + gone >= offset
    BY <1>1, <2>1 DEF PagesInv, Counts
  <2> QED
    BY <1>1, <1>2, <2>2, Numbers
<1>4. P!PagingIsHonest'
  BY <1>1, <1>3 DEF PagesInv, P!PagingIsHonest, P!NoneMissed, P!NoneTwice, P!NotRefused
<1> QED
  BY <1>1, <1>2, <1>4 DEF PagesInv

\* A step of which the reading does not take notice.
LEMMA QuietPages ==
  PagesInv /\ UNCHANGED <<there, kind, filtering, rows, offset, seen, got, pc, expected, gone, came>>
  /\ (target' = target \/ target' = "lost") => PagesInv'
<1> SUFFICES ASSUME PagesInv, target' = target \/ target' = "lost",
                    UNCHANGED <<there, kind, filtering, rows, offset, seen, got, pc, expected, gone, came>>
             PROVE  PagesInv'
  OBVIOUS
<1>1. P!TypeOK'
  BY DEF PagesInv, P!TypeOK
<1>2. P!Listed' = P!Listed /\ P!Size' = P!Size
  BY SameQuestion
<1>3. /\ P!Reached' = P!Reached /\ NextOffset' = NextOffset /\ P!ToSet(seen)' = P!ToSet(seen)
      /\ SeenInOrder => SeenInOrder'
  BY SeenStays
<1>4. View' = View
  BY <1>2, <1>3 DEF View, P!Ahead
<1>5. Lost' = Lost /\ Late' = Late
  BY <1>2, <1>3, <1>4 DEF Lost, Late, Low
<1>6. Counts => Counts'
  BY <1>2, <1>4, <1>5, CountsStay
<1>7. P!PagingIsHonest'
  BY DEF PagesInv, P!PagingIsHonest, P!NoneMissed, P!NoneTwice, P!NotRefused
<1> QED
  BY <1>1, <1>2, <1>3, <1>6, <1>7 DEF PagesInv

LEMMA TakePages == PagesInv /\ P!Take => PagesInv'
<1> SUFFICES ASSUME PagesInv, P!Take PROVE PagesInv'
  OBVIOUS
<1>1. /\ pc = "scan" /\ ~P!Enough /\ pc' = "scan"
      /\ UNCHANGED <<there, kind, filtering, rows, offset, target, got, expected, gone, came>>
  BY DEF P!Take, P!call, P!history
<1>2. PICK e \in P!Ahead : (\A x \in P!Ahead : e.at <= x.at) /\ seen' = Append(seen, e)
  BY DEF P!Take
<1>3. /\ P!TypeOK /\ SeenInOrder /\ Counts /\ expected \subseteq P!Listed
      /\ offset >= 0 /\ P!Size > 0
  BY <1>1 DEF PagesInv
<1>4. P!Listed' = P!Listed /\ P!Size' = P!Size /\ P!Listed \in SUBSET Entries
  BY <1>1, <1>3, SameQuestion, ListedIs
<1> DEFINE old == P!ToSet(seen)
<1>5. /\ e \in Entries /\ e \in P!Listed /\ e.at > P!Reached /\ e \notin old
      /\ seen \in Seq(Entries) /\ old \in SUBSET Entries /\ Len(seen) \in Nat
      /\ P!Reached \in Nat /\ e.at \in Nat
  BY <1>1, <1>2, <1>3, <1>4, Views, Numbers, PagesAssumption DEF P!Ahead, P!TypeOK
<1>6. /\ seen' \in Seq(Entries) /\ Len(seen') = Len(seen) + 1 /\ P!ToSet(seen') = old \cup {e}
      /\ seen'[Len(seen) + 1] = e /\ \A i \in 1..Len(seen) : seen'[i] = seen[i]
  BY <1>2, <1>5, RangeAppend
<1>7. P!Reached' = e.at
  BY <1>5, <1>6 DEF P!Reached, P!Last
<1> HIDE DEF old
<1>8. P!TypeOK'
  BY <1>1, <1>3, <1>6 DEF P!TypeOK
<1>9. \A x \in old : x \in Entries /\ x.at < e.at
  BY <1>3, <1>5, PagesAssumption DEF SeenInOrder, old
<1>10. P!Ahead' = P!Ahead \ {e}
  <2>1. \A x \in P!Listed : x.at > e.at <=> x.at > P!Reached /\ x # e
    <3> SUFFICES ASSUME NEW x \in P!Listed PROVE x.at > e.at <=> x.at > P!Reached /\ x # e
      OBVIOUS
    <3>1. x \in Entries /\ x.at \in Nat
      BY <1>4, PagesAssumption
    <3>2. x.at > P!Reached => e.at <= x.at
      BY <1>2 DEF P!Ahead
    <3>3. x # e => x.at # e.at
      BY <1>5, <3>1, PagesAssumption
    <3> QED
      BY <1>5, <3>1, <3>2, <3>3
  <2> QED
    BY <1>4, <1>7, <2>1 DEF P!Ahead
<1>11. View' = View
  BY <1>1, <1>2, <1>6, <1>10 DEF View, old
<1>12. Lost' = Lost /\ Late' = Late
  <2>1. NextOffset' = NextOffset
    BY <1>1, <1>4 DEF NextOffset
  <2> QED
    BY <1>4, <1>11, <2>1 DEF Lost, Late, Low
<1>13. Counts'
  BY <1>1, <1>3, <1>4, <1>11, <1>12, CountsStay
<1>14. SeenInOrder'
  <2>1. Cardinality(P!ToSet(seen')) = Len(seen')
    <3>1. Cardinality(old) = Len(seen)
      BY <1>3 DEF SeenInOrder, old
    <3> QED
      BY <1>5, <1>6, <3>1, Finite, FS_AddElement DEF old
  <2>2. \A x \in P!ToSet(seen') : x.at <= P!Reached'
    BY <1>5, <1>6, <1>7, <1>9, PagesAssumption
  <2>3. ASSUME NEW i \in 1..Len(seen') PROVE P!Before(P!ToSet(seen'), seen'[i]) = i - 1
    <3>1. CASE i \in 1..Len(seen)
      <4>1. seen[i] \in old
        BY <1>5, <3>1, RangeIs DEF old
      <4>2. P!Before(old, seen[i]) = i - 1
        BY <1>3, <3>1 DEF SeenInOrder, InOrder, old
      <4>3. ~(e.at < seen[i].at)
        BY <1>5, <1>9, <4>1, PagesAssumption
      <4>4. P!Before(old \cup {e}, seen[i]) = P!Before(old, seen[i]) + 0
        BY <1>5, <1>9, <4>1, <4>3, BeforeWith DEF old
      <4> QED
        BY <1>6, <3>1, <4>2, <4>4
    <3>2. CASE i = Len(seen) + 1
      <4>1. {x \in old \cup {e} : x.at < e.at} = old
        BY <1>5, <1>9
      <4>2. P!Before(old \cup {e}, e) = Cardinality(old)
        BY <4>1, BeforeIs
      <4>3. Cardinality(old) = Len(seen)
        BY <1>3 DEF SeenInOrder, old
      <4> QED
        BY <1>5, <1>6, <3>2, <4>2, <4>3
    <3> QED
      BY <1>5, <1>6, <3>1, <3>2
  <2>4. kind' \in P!Searches => Len(seen') <= offset' + P!Size' + 1
    <3>1. kind \in P!Searches => Len(seen) <= offset + P!Size + 1 /\ Len(seen) # offset + P!Size + 1
      BY <1>1, <1>3 DEF SeenInOrder, P!Enough
    <3> QED
      BY <1>1, <1>3, <1>4, <1>5, <1>6, <3>1, Numbers
  <2>5. ASSUME NEW x \in expected, x.at <= e.at
        PROVE  x \in old \cup {e}
    <3>1. x \in P!Listed /\ x \in Entries /\ x.at \in Nat
      BY <1>3, <1>4, PagesAssumption
    <3>2. CASE x.at <= P!Reached
      BY <1>3, <3>2 DEF SeenInOrder, old
    <3>3. CASE x.at > P!Reached
      <4>1. e.at <= x.at
        BY <1>2, <3>1, <3>3 DEF P!Ahead
      <4>2. x.at = e.at
        BY <1>5, <2>5, <3>1, <4>1
      <4> QED
        BY <1>5, <3>1, <4>2, PagesAssumption
    <3> QED
      BY <1>5, <3>1, <3>2, <3>3
  <2> QED
    BY <1>1, <1>6, <1>7, <2>1, <2>2, <2>3, <2>4, <2>5 DEF SeenInOrder, InOrder, P!Searches
<1>15. P!PagingIsHonest'
  BY <1>1 DEF PagesInv, P!PagingIsHonest, P!NoneMissed, P!NoneTwice, P!NotRefused
<1> QED
  BY <1>1, <1>3, <1>4, <1>8, <1>13, <1>14, <1>15 DEF PagesInv
-----------------------------------------------------------------------------
(* The end of a page.                                                       *)

LEMMA InPlace ==
  ASSUME P!TypeOK, SeenInOrder, NEW e \in P!ToSet(seen)
  PROVE  e \in Entries /\ P!Before(P!ToSet(seen), e) \in 0..(Len(seen) - 1)
<1>1. seen \in Seq(Entries)
  BY DEF P!TypeOK
<1>2. PICK i \in 1..Len(seen) : e = seen[i]
  BY <1>1, RangeIs
<1>3. P!Before(P!ToSet(seen), e) = i - 1
  BY <1>2 DEF SeenInOrder, InOrder
<1>4. Len(seen) \in Nat /\ e \in Entries
  BY <1>1, <1>2
<1> QED
  BY <1>2, <1>3, <1>4

\* The rows of a page, and what they add to what has been got.
Rows(page, n) ==
  /\ got' \in Seq(Entries) /\ page \in SUBSET Entries
  /\ P!ToSet(got') = P!ToSet(got) \cup page
  /\ Twice' = Twice + Cardinality(P!ToSet(got) \cap page)
  /\ \A e \in P!ToSet(seen) : P!Before(View, e) = P!Before(P!ToSet(seen), e)
  /\ \A e \in page : e \in P!ToSet(seen) /\ offset <= P!Before(View, e) /\ P!Before(View, e) < n

LEMMA PageRows ==
  ASSUME P!TypeOK, SeenInOrder, pc = "scan", offset >= 0, NEW n \in Nat, n <= Len(seen),
         got' = got \o SubSeq(seen, offset + 1, n)
  PROVE  Rows(Between(P!ToSet(seen), offset, n), n)
<1> DEFINE S == P!ToSet(seen)
           t == SubSeq(seen, offset + 1, n)
           page == Between(S, offset, n)
<1>1. /\ seen \in Seq(Entries) /\ got \in Seq(Entries) /\ offset \in Nat /\ InOrder(seen)
      /\ S \in SUBSET Entries /\ P!ToSet(got) \in SUBSET Entries /\ Len(got) \in Nat
  BY Numbers DEF P!TypeOK, SeenInOrder
<1>2. t \in Seq(Entries) /\ P!ToSet(t) = page /\ Cardinality(page) = Len(t)
  <2>1. IsPart(seen, offset, n)
    BY <1>1, PartOf
  <2> QED
    BY <2>1 DEF IsPart
<1>3. page \in SUBSET Entries
  BY <1>1 DEF Between
<1>4. \A e \in S : P!Before(View, e) = P!Before(S, e)
  <2>1. \A e \in S : e \in Entries /\ e.at <= P!Reached
    BY <1>1 DEF SeenInOrder
  <2> QED
    BY <2>1, Views
<1>5. \A e \in page : e \in S /\ offset <= P!Before(View, e) /\ P!Before(View, e) < n
  BY <1>4 DEF Between
<1> HIDE DEF t, page, S
<1>6. got' = got \o t
  BY DEF t
<1>7. /\ got' \in Seq(Entries) /\ Len(got') = Len(got) + Len(t)
      /\ P!ToSet(got') = P!ToSet(got) \cup page
  BY <1>1, <1>2, <1>6, RangeConcat
<1>8. Twice' = Twice + Cardinality(P!ToSet(got) \cap page)
  <2>1. Cardinality(P!ToSet(got) \cup page) + Cardinality(P!ToSet(got) \cap page)
          = Cardinality(P!ToSet(got)) + Cardinality(page)
    BY <1>1, <1>3, Union
  <2>2. /\ Cardinality(P!ToSet(got) \cup page) \in Nat /\ Cardinality(P!ToSet(got) \cap page) \in Nat
        /\ Cardinality(P!ToSet(got)) \in Nat /\ Cardinality(page) \in Nat
    BY <1>1, <1>3, Finite
  <2>3. /\ Twice' = Len(got') - Cardinality(P!ToSet(got) \cup page)
        /\ Twice = Len(got) - Cardinality(P!ToSet(got))
    BY <1>7 DEF Twice
  <2>4. Len(got') = Len(got) + Cardinality(page) /\ Len(got) \in Nat
    BY <1>1, <1>2, <1>7
  <2> DEFINE l == Len(got)
             g == Cardinality(P!ToSet(got))
             p == Cardinality(page)
             u == Cardinality(P!ToSet(got) \cup page)
             i == Cardinality(P!ToSet(got) \cap page)
  <2>5. (l + p) - u = (l - g) + i
    <3>1. l \in Nat /\ g \in Nat /\ p \in Nat /\ u \in Nat /\ i \in Nat /\ u + i = g + p
      BY <2>1, <2>2, <2>4
    <3> HIDE DEF l, g, p, u, i
    <3> QED
      BY <3>1
  <2> QED
    BY <2>3, <2>4, <2>5, Zenon
<1> QED
  BY <1>3, <1>4, <1>5, <1>7, <1>8 DEF page, S, Rows

\* What was expected has been come across or lies ahead.
LEMMA ExpectedSeen ==
  ASSUME P!TypeOK, SeenInOrder, expected \subseteq P!Listed, NEW e \in expected
  PROVE  e \in P!ToSet(seen) \cup P!Ahead
<1>1. e \in P!Listed /\ e.at \in Nat /\ P!Reached \in Nat
  BY ListedIs, Numbers, PagesAssumption
<1>2. e.at <= P!Reached \/ e.at > P!Reached
  BY <1>1
<1> QED
  BY <1>1, <1>2 DEF SeenInOrder, P!Ahead

LEMMA PageLast ==
  ASSUME PagesInv, pc = "scan", P!Ahead = {}, Len(seen) <= offset + P!Size,
         got' = got \o SubSeq(seen, offset + 1, Len(seen)), pc' = "done",
         UNCHANGED <<there, kind, filtering, rows, offset, target, seen, expected, gone, came>>
  PROVE  PagesInv'
<1> DEFINE S == P!ToSet(seen)
           page == Between(S, offset, Len(seen))
<1>1. /\ P!TypeOK /\ SeenInOrder /\ Counts /\ expected \subseteq P!Listed
      /\ offset >= 0 /\ P!Size > 0
  BY DEF PagesInv
<1>2. offset \in Int /\ Len(seen) \in Nat /\ gone \in Nat /\ came \in Nat /\ Twice \in Int
  BY <1>1, Numbers
<1>3. /\ got' \in Seq(Entries) /\ page \in SUBSET Entries
      /\ P!ToSet(got') = P!ToSet(got) \cup page
      /\ Twice' = Twice + Cardinality(P!ToSet(got) \cap page)
      /\ \A e \in S : P!Before(View, e) = P!Before(S, e)
      /\ \A e \in page : e \in S /\ offset <= P!Before(View, e) /\ P!Before(View, e) < Len(seen)
  <2>1. Len(seen) <= Len(seen)
    BY <1>2
  <2>2. Rows(page, Len(seen))
    BY <1>1, <1>2, <2>1, PageRows
  <2> QED
    BY <2>2 DEF Rows
<1>4. P!TypeOK'
  BY <1>1, <1>3 DEF P!TypeOK
<1>5. expected' \subseteq P!Listed'
  BY <1>1, SameQuestion
<1>6. Twice' <= came
  <2>1. P!ToSet(got) \cap page \in SUBSET Again(offset)
    <3> SUFFICES ASSUME NEW e \in P!ToSet(got) \cap page PROVE P!Before(View, e) >= offset
      BY DEF Again, After
    <3>1. P!Before(View, e) = P!Before(S, e) /\ P!Before(S, e) \in 0..(Len(seen) - 1)
      BY <1>1, <1>3, InPlace
    <3>2. offset <= P!Before(View, e)
      BY <1>3
    <3> QED
      BY <1>2, <3>1, <3>2
  <2>2. Again(offset) \in SUBSET Entries
    BY <1>1, Sets
  <2>3. Cardinality(P!ToSet(got) \cap page) <= Cardinality(Again(offset))
    BY <2>1, <2>2, Smaller
  <2>4. /\ Cardinality(P!ToSet(got) \cap page) \in Nat
        /\ Cardinality(Again(offset)) \in Nat /\ Cardinality(Late) \in Nat
    <3>1. P!ToSet(got) \cap page \in SUBSET Entries
      BY <1>3
    <3> QED
      BY <1>1, <3>1, CountsAreNat, Finite
  <2>5. offset \in 0..offset
    BY <1>1, <1>2
  <2>6. Cardinality(Again(offset)) + Twice + Cardinality(Late) <= offset - offset + came
    BY <1>1, <2>5 DEF Counts
  <2> HIDE DEF page
  <2> QED
    BY <1>2, <1>3, <2>3, <2>4, <2>6
<1>7. Cardinality(expected \ P!ToSet(got')) <= gone
  <2>1. ASSUME NEW e \in expected \ P!ToSet(got') PROVE e \in Missed
    <3>1. e \in S /\ e \notin P!ToSet(got) /\ e \notin page
      BY <1>1, <1>3, <2>1, ExpectedSeen
    <3>2. P!Before(View, e) = P!Before(S, e) /\ P!Before(S, e) \in 0..(Len(seen) - 1)
      BY <1>1, <1>3, <3>1, InPlace
    <3>3. ~(offset <= P!Before(S, e) /\ P!Before(S, e) < Len(seen))
      BY <3>1 DEF Between
    <3>4. P!Before(View, e) < offset
      BY <1>2, <3>2, <3>3
    <3>5. e \in View
      BY <1>1, <3>1, Views
    <3> QED
      BY <2>1, <3>1, <3>4, <3>5 DEF Missed, Low
  <2>2. expected \ P!ToSet(got') \in SUBSET Missed /\ Missed \in SUBSET Entries
    BY <1>1, <2>1, Sets
  <2>3. expected \ P!ToSet(got') \in SUBSET Entries
    BY <2>2
  <2>4. /\ Cardinality(expected \ P!ToSet(got')) <= Cardinality(Missed)
        /\ Cardinality(expected \ P!ToSet(got')) \in Nat
        /\ Cardinality(Missed) \in Nat /\ Cardinality(Lost) \in Nat
    BY <1>1, <2>2, <2>3, Smaller, Finite, CountsAreNat
  <2>5. Cardinality(Missed) + Cardinality(Lost) <= gone
    BY <1>1 DEF Counts
  <2> QED
    BY <1>2, <2>4, <2>5
<1>8. P!PagingIsHonest'
  <2>1. P!NoneMissed'
    BY <1>7, CardIs DEF P!NoneMissed
  <2>2. P!NoneTwice'
    BY <1>6, CardIs DEF P!NoneTwice, Twice
  <2>3. P!NotRefused'
    BY DEF P!NotRefused
  <2> QED
    BY <2>1, <2>2, <2>3 DEF P!PagingIsHonest
<1> QED
  BY <1>4, <1>5, <1>8 DEF PagesInv
\* Rows that are got again make up for those that are not new.
LEMMA Overlap ==
  ASSUME NEW G \in SUBSET Entries, NEW Q \in SUBSET Entries, NEW R \in SUBSET Entries,
         NEW A \in SUBSET (G \cup R), NEW Z \in SUBSET Entries,
         G \cup Q \in SUBSET Z, G \cap Q = G \cap R
  PROVE  Cardinality(A) + Cardinality(Q) <= Cardinality(Z) + Cardinality(R)
<1>1. Cardinality(G \cup R) + Cardinality(G \cap R) = Cardinality(G) + Cardinality(R)
  BY Union
<1>2. Cardinality(G \cup Q) + Cardinality(G \cap R) = Cardinality(G) + Cardinality(Q)
  BY Union
<1>3. Cardinality(A) <= Cardinality(G \cup R)
  <2>1. G \cup R \in SUBSET Entries
    OBVIOUS
  <2> QED
    BY <2>1, Smaller
<1>4. Cardinality(G \cup Q) <= Cardinality(Z)
  BY Smaller
<1>5. /\ Cardinality(A) \in Nat /\ Cardinality(Q) \in Nat /\ Cardinality(Z) \in Nat
      /\ Cardinality(R) \in Nat /\ Cardinality(G) \in Nat /\ Cardinality(G \cap R) \in Nat
      /\ Cardinality(G \cup R) \in Nat /\ Cardinality(G \cup Q) \in Nat
  <2>1. /\ A \in SUBSET Entries /\ G \cap R \in SUBSET Entries
        /\ G \cup R \in SUBSET Entries /\ G \cup Q \in SUBSET Entries
    OBVIOUS
  <2> QED
    BY <2>1, Finite
<1> QED
  BY <1>1, <1>2, <1>3, <1>4, <1>5

\* Where an entry stands once what was added meanwhile is counted.
LEMMA Moved ==
  ASSUME NEW V \in SUBSET Entries, NEW L \in SUBSET Entries, NEW n \in Int,
         NEW e \in Entries, P!Before(V, e) < n
  PROVE  P!Before(L, e) <= P!Before(V, e) + Cardinality({x \in L \ V : P!Before(V, x) < n})
<1> DEFINE new == {x \in L \ V : P!Before(V, x) < n}
           C == {x \in L \ V : x.at < e.at}
<1>1. L \cap V \in SUBSET Entries /\ L \ V \in SUBSET Entries
      /\ (L \cap V) \cup (L \ V) = L /\ (L \cap V) \cap (L \ V) = {} /\ L \cap V \in SUBSET V
  OBVIOUS
<1>2. P!Before(L, e) = P!Before(L \cap V, e) + P!Before(L \ V, e)
  <2>1. P!Before((L \cap V) \cup (L \ V), e) = P!Before(L \cap V, e) + P!Before(L \ V, e)
    BY <1>1, BeforeBoth
  <2> QED
    BY <1>1, <2>1
<1>3. P!Before(L \cap V, e) <= P!Before(V, e)
  <2>1. e.at <= e.at
    BY PagesAssumption
  <2> QED
    BY <1>1, <2>1, BeforeGrows
<1>4. P!Before(V, e) \in Nat /\ P!Before(L \cap V, e) \in Nat
  BY <1>1, BeforeNat
<1>5. C \subseteq new
  <2> SUFFICES ASSUME NEW x \in L \ V, x.at < e.at PROVE P!Before(V, x) < n
    OBVIOUS
  <2>1. x.at <= e.at
    BY PagesAssumption
  <2>2. P!Before(V, x) <= P!Before(V, e) /\ P!Before(V, x) \in Nat
    BY <2>1, BeforeGrows, BeforeNat
  <2> QED
    BY <1>4, <2>2
<1>6. P!Before(L \ V, e) = Cardinality(C)
  BY BeforeIs
<1>7. new \in SUBSET Entries
  OBVIOUS
<1> HIDE DEF new, C
<1>8. Cardinality(C) <= Cardinality(new) /\ Cardinality(C) \in Nat /\ Cardinality(new) \in Nat
  <2>1. C \in SUBSET new /\ C \in SUBSET Entries
    BY <1>5, <1>7
  <2> QED
    BY <1>7, <2>1, Smaller, Finite
<1>9. P!Before(L, e) <= P!Before(V, e) + Cardinality(new)
  BY <1>2, <1>3, <1>4, <1>6, <1>8
<1> QED
  BY <1>9 DEF new

\* Removals put no more entries below a place than they took from there.
LEMMA Filled ==
  ASSUME NEW V \in SUBSET Entries, NEW L \in SUBSET Entries, NEW n \in Nat,
         Cardinality(Low(V, n)) = n, NEW F \in SUBSET (V \cap Low(L, n)), F \cap Low(V, n) = {}
  PROVE  Cardinality(F) <= Cardinality(Low(V, n) \ L)
<1> DEFINE D == Low(V, n)
           K == D \cap L
<1>1. D \in SUBSET Entries /\ D \in SUBSET V /\ F \in SUBSET Entries /\ K \in SUBSET Entries
      /\ F \cap K = {} /\ F \in SUBSET L
  BY DEF Low
<1>2. CASE F = {}
  <2>1. D \ L \in SUBSET Entries
    BY <1>1
  <2>2. Cardinality(F) = 0 /\ Cardinality(D \ L) \in Nat
    BY <1>2, <2>1, FS_EmptySet, Finite
  <2> QED
    BY <2>2
<1>3. CASE F # {}
  <2>1. PICK f \in F : TRUE
    BY <1>3
  <2>2. /\ f \in Entries /\ f \in L /\ P!Before(L, f) \in Nat /\ P!Before(L, f) < n
        /\ P!Before(V, f) \in Nat /\ ~(P!Before(V, f) < n)
    BY <1>1, <2>1, BeforeNat DEF Low
  <2>3. ASSUME NEW d \in K PROVE d \in Low(L, n)
    <3>1. d \in Entries /\ d \in L /\ P!Before(V, d) < n /\ P!Before(V, d) \in Nat
      BY <1>1, BeforeNat DEF Low
    <3>2. P!Before(V, d) < P!Before(V, f)
      BY <2>2, <3>1
    <3>3. d.at < f.at
      BY <2>2, <3>1, <3>2, BeforeOrder
    <3>4. d.at <= f.at
      BY <2>2, <3>1, <3>3, PagesAssumption
    <3>5. P!Before(L, d) <= P!Before(L, f) /\ P!Before(L, d) \in Nat
      BY <2>2, <3>1, <3>4, BeforeGrows, BeforeNat
    <3> QED
      BY <2>2, <3>1, <3>5 DEF Low
  <2>4. F \cup K \in SUBSET Low(L, n) /\ Low(L, n) \in SUBSET Entries
    BY <2>3 DEF Low
  <2>5. Cardinality(F \cup K) <= Cardinality(Low(L, n)) /\ Cardinality(Low(L, n)) <= n
    BY <2>4, Smaller, FewBefore DEF Low
  <2> HIDE DEF D, K
  <2>6. Cardinality(F \cup K) = Cardinality(F) + Cardinality(K)
    BY <1>1, Apart
  <2>7. Cardinality(D) = Cardinality(K) + Cardinality(D \ L)
    <3>1. K \cup (D \ L) = D /\ K \cap (D \ L) = {} /\ D \ L \in SUBSET Entries
      BY <1>1 DEF K
    <3>2. Cardinality(K \cup (D \ L)) = Cardinality(K) + Cardinality(D \ L)
      BY <1>1, <3>1, Apart
    <3> QED
      BY <3>1, <3>2
  <2>8. /\ Cardinality(F) \in Nat /\ Cardinality(K) \in Nat /\ Cardinality(D \ L) \in Nat
        /\ Cardinality(Low(L, n)) \in Nat
    <3>1. D \ L \in SUBSET Entries
      BY <1>1
    <3> QED
      BY <1>1, <2>4, <3>1, Finite
  <2>9. Cardinality(D) = n
    BY DEF D
  <2>10. Cardinality(F) <= Cardinality(D \ L)
    BY <2>5, <2>6, <2>7, <2>8, <2>9
  <2> QED
    BY <2>10 DEF D
<1> QED
  BY <1>2, <1>3
\* The step from one page to the next.
PageStep ==
  /\ pc = "scan" /\ Len(seen) > offset + P!Size
  /\ got' = got \o SubSeq(seen, offset + 1, offset + P!Size)
  /\ pc' = "ask" /\ offset' = offset + P!Size
  /\ UNCHANGED <<there, kind, filtering, rows, target, seen, expected, gone, came>>

\* What is known of it: the page, and what it was cut from.
LEMMA PageFacts ==
  ASSUME PagesInv, PageStep
  PROVE  /\ P!TypeOK /\ SeenInOrder /\ Counts /\ expected \subseteq P!Listed /\ P!TypeOK'
         /\ offset \in Nat /\ P!Size \in Nat /\ NextOffset \in Nat
         /\ NextOffset = offset + P!Size /\ offset' = NextOffset
         /\ P!Listed' = P!Listed /\ P!Size' = P!Size /\ View' = P!Listed /\ NextOffset' = NextOffset
         /\ Lost' = {} /\ Late' = {}
         /\ Rows(Between(P!ToSet(seen), offset, NextOffset), NextOffset)
         /\ Low(View, NextOffset) = Between(P!ToSet(seen), 0, NextOffset)
         /\ Cardinality(Low(View, NextOffset)) = NextOffset
<1>1. /\ P!TypeOK /\ SeenInOrder /\ Counts /\ expected \subseteq P!Listed
      /\ offset >= 0 /\ P!Size > 0 /\ pc = "scan" /\ pc' = "ask"
  BY DEF PagesInv, PageStep
<1>2. /\ offset \in Nat /\ P!Size \in Nat /\ NextOffset = offset + P!Size /\ offset' = NextOffset
      /\ NextOffset \in Nat /\ NextOffset <= Len(seen) /\ Len(seen) \in Nat /\ NextOffset < Len(seen)
  <2>1. NextOffset = offset + P!Size /\ Len(seen) > offset + P!Size /\ offset' = offset + P!Size
    BY <1>1 DEF NextOffset, PageStep
  <2>2. offset \in Int /\ P!Size \in Int /\ Len(seen) \in Nat
    BY <1>1, Numbers
  <2> HIDE DEF NextOffset
  <2> QED
    BY <1>1, <2>1, <2>2
<1>3. P!Listed' = P!Listed /\ P!Size' = P!Size
  BY SameQuestion DEF PageStep
<1>4. View' = P!Listed /\ NextOffset' = NextOffset
  BY <1>1, <1>2, <1>3 DEF View, NextOffset
<1>5. Lost' = {} /\ Late' = {}
  BY <1>3, <1>4 DEF Lost, Late, Low
<1>6. Rows(Between(P!ToSet(seen), offset, NextOffset), NextOffset)
  <2>1. got' = got \o SubSeq(seen, offset + 1, NextOffset)
    BY <1>2 DEF PageStep
  <2> QED
    BY <1>1, <1>2, <2>1, PageRows
<1>7. P!TypeOK'
  <2>1. got' \in Seq(Entries)
    BY <1>6 DEF Rows
  <2>2. offset' \in Int
    BY <1>2
  <2> QED
    BY <1>1, <2>1, <2>2 DEF P!TypeOK, PageStep
<1>8. Low(View, NextOffset) = Between(P!ToSet(seen), 0, NextOffset)
  <2>1. View = P!ToSet(seen) \cup P!Ahead /\ P!Ahead \in SUBSET Entries /\ P!ToSet(seen) \in SUBSET Entries
    BY <1>1, Views, Numbers
  <2>2. ASSUME NEW e \in P!Ahead PROVE ~(P!Before(View, e) < NextOffset)
    <3>1. P!Before(View, e) = Len(seen) + P!Before(P!Ahead, e)
      BY <1>1, <2>1, Views DEF P!Ahead
    <3>2. P!Before(P!Ahead, e) \in Nat
      BY <2>1, BeforeNat
    <3> QED
      BY <1>2, <3>1, <3>2
  <2>3. ASSUME NEW e \in P!ToSet(seen)
        PROVE  P!Before(View, e) = P!Before(P!ToSet(seen), e) /\ 0 <= P!Before(P!ToSet(seen), e)
    <3>1. P!Before(View, e) = P!Before(P!ToSet(seen), e)
      BY <1>6 DEF Rows
    <3>2. P!Before(P!ToSet(seen), e) \in Nat
      BY <2>1, BeforeNat
    <3> QED
      BY <3>1, <3>2
  <2> QED
    BY <2>1, <2>2, <2>3 DEF Low, Between
<1>9. Cardinality(Low(View, NextOffset)) = NextOffset
  <2>1. seen \in Seq(Entries) /\ InOrder(seen) /\ 0 \in Nat
    BY <1>1 DEF P!TypeOK, SeenInOrder
  <2>2. IsPart(seen, 0, NextOffset)
    BY <1>2, <2>1, PartOf
  <2>3. Cardinality(Between(P!ToSet(seen), 0, NextOffset)) = NextOffset
    BY <1>2, <2>2 DEF IsPart
  <2> QED
    BY <1>8, <2>3
<1> QED
  BY <1>1, <1>2, <1>3, <1>4, <1>5, <1>6, <1>7, <1>8, <1>9

\* After it, no more is missing below the offset than was removed.
LEMMA PageMissed ==
  ASSUME PagesInv, PageStep
  PROVE  Cardinality(Missed') <= gone /\ Cardinality(P!Listed) + gone >= NextOffset
<1> DEFINE S == P!ToSet(seen)
           n == NextOffset
           D == Low(View, n)
           page == Between(S, offset, n)
           E == Missed' \cap D
           F == Missed' \ D
<1>1. /\ P!TypeOK /\ SeenInOrder /\ Counts /\ expected \subseteq P!Listed /\ pc = "scan"
      /\ offset \in Nat /\ n \in Nat /\ P!TypeOK'
      /\ View' = P!Listed /\ offset' = n /\ expected' = expected
      /\ P!ToSet(got') = P!ToSet(got) \cup page
      /\ D = Between(S, 0, n) /\ Cardinality(D) = n
      /\ \A e \in S : P!Before(View, e) = P!Before(S, e)
  BY PageFacts DEF PageStep, Rows
<1>2. Missed' = (expected \cap Low(P!Listed, n)) \ (P!ToSet(got) \cup page)
  BY <1>1 DEF Missed, Low
<1>3. /\ View \in SUBSET Entries /\ P!Listed \in SUBSET Entries /\ Missed \in SUBSET Entries
      /\ Lost \in SUBSET Entries /\ Lost = D \ P!Listed /\ expected \in SUBSET Entries
      /\ S \in SUBSET Entries
  BY <1>1, Sets, Numbers DEF Lost
<1>4. E \in SUBSET Missed
  <2> SUFFICES ASSUME NEW e \in E PROVE e \in Missed
    OBVIOUS
  <2>1. e \in expected /\ e \notin P!ToSet(got) /\ e \notin page /\ e \in D
    BY <1>2
  <2>2. e \in S /\ e \in View /\ P!Before(S, e) < n /\ P!Before(View, e) = P!Before(S, e)
        /\ P!Before(S, e) \in Nat
    BY <1>1, <1>3, <2>1, BeforeNat DEF Between, Low
  <2>3. P!Before(View, e) < offset
    BY <1>1, <2>1, <2>2 DEF Between
  <2> QED
    BY <2>1, <2>2, <2>3 DEF Missed, Low
<1>5. F \in SUBSET (View \cap Low(P!Listed, n)) /\ F \cap D = {}
  <2>1. expected \subseteq View
    <3>1. View = S \cup P!Ahead
      BY <1>1, Views
    <3> QED
      BY <1>1, <3>1, ExpectedSeen
  <2> QED
    BY <1>2, <2>1
<1>6. Cardinality(F) <= Cardinality(D \ P!Listed)
  <2>1. n \in Nat /\ Cardinality(Low(View, n)) = n /\ F \cap Low(View, n) = {}
    BY <1>1, <1>5
  <2> HIDE DEF n, F
  <2>2. Cardinality(F) <= Cardinality(Low(View, n) \ P!Listed)
    BY <1>3, <1>5, <2>1, Filled
  <2> QED
    BY <2>2
<1>7. Cardinality(D) = Cardinality(D \cap P!Listed) + Cardinality(Lost)
  <2>1. /\ D \cap P!Listed \in SUBSET Entries
        /\ (D \cap P!Listed) \cup Lost = D /\ (D \cap P!Listed) \cap Lost = {}
    BY <1>3
  <2>2. Cardinality((D \cap P!Listed) \cup Lost) = Cardinality(D \cap P!Listed) + Cardinality(Lost)
    BY <1>3, <2>1, Apart
  <2> QED
    BY <2>1, <2>2
<1>8. /\ Cardinality(Missed) + Cardinality(Lost) <= gone /\ gone \in Nat
      /\ Cardinality(Missed) \in Nat /\ Cardinality(Lost) \in Nat
  BY <1>1, CountsAreNat, Numbers DEF Counts
<1>9. Missed' \in SUBSET Entries /\ E \in SUBSET Entries /\ F \in SUBSET Entries
      /\ D \cap P!Listed \in SUBSET P!Listed /\ D \cap P!Listed \in SUBSET Entries
  BY <1>2, <1>3
<1>10. Cardinality(Missed') <= gone
  <2>1. E \cup F = Missed' /\ E \cap F = {}
    OBVIOUS
  <2> HIDE DEF E, F
  <2>2. Cardinality(E \cup F) = Cardinality(E) + Cardinality(F)
    BY <1>9, <2>1, Apart
  <2>3. Cardinality(E) <= Cardinality(Missed)
    BY <1>3, <1>4, Smaller
  <2>4. Cardinality(F) <= Cardinality(Lost)
    BY <1>3, <1>6
  <2>5. Cardinality(E) \in Nat /\ Cardinality(F) \in Nat /\ Cardinality(Missed') = Cardinality(E) + Cardinality(F)
    BY <1>9, <2>1, <2>2, Finite
  <2> HIDE DEF D, S, n, page
  <2> QED
    BY <1>8, <2>3, <2>4, <2>5
<1>11. Cardinality(P!Listed) + gone >= n
  <2>1. /\ Cardinality(D \cap P!Listed) <= Cardinality(P!Listed)
        /\ Cardinality(D \cap P!Listed) \in Nat /\ Cardinality(P!Listed) \in Nat
    BY <1>3, <1>9, Smaller, Finite
  <2>2. Cardinality(D) = n /\ n \in Nat
    BY <1>1
  <2> HIDE DEF D, S, n, page
  <2> QED
    BY <1>7, <1>8, <2>1, <2>2
<1> QED
  BY <1>10, <1>11

\* Nor are more rows got twice than were added.
LEMMA PageAgain ==
  ASSUME PagesInv, PageStep, NEW k \in 0..NextOffset
  PROVE  Cardinality(Again(k)') + Twice' <= NextOffset - k + came
<1> DEFINE S == P!ToSet(seen)
           n == NextOffset
           page == Between(S, offset, n)
           x == Cardinality(Late)
           j == IF k > x THEN k - x ELSE 0
           i == IF j < offset THEN j ELSE offset
           m == IF j < offset THEN offset ELSE j
           G == After(P!ToSet(got), View, j)
           Q == P!ToSet(got) \cap page
           R == Between(S, m, n)
           A == After(P!ToSet(got) \cup page, P!Listed, k)
<1>1. /\ P!TypeOK /\ SeenInOrder /\ Counts /\ pc = "scan"
      /\ offset \in Nat /\ n \in Nat /\ offset <= n
      /\ View' = P!Listed
      /\ P!ToSet(got') = P!ToSet(got) \cup page
      /\ Twice' = Twice + Cardinality(Q)
      /\ n < Len(seen) /\ Len(seen) \in Nat
  <2>1. Len(seen) > offset + P!Size
    BY DEF PageStep
  <2>2. /\ P!TypeOK /\ SeenInOrder /\ Counts /\ pc = "scan" /\ offset \in Nat /\ n \in Nat
        /\ n = offset + P!Size /\ P!Size \in Nat /\ View' = P!Listed
    BY PageFacts DEF PageStep
  <2>3. P!ToSet(got') = P!ToSet(got) \cup page /\ Twice' = Twice + Cardinality(Q)
    BY PageFacts DEF Rows
  <2>4. Len(seen) \in Nat
    BY <2>2, Numbers
  <2>5. n < Len(seen) /\ offset <= n
    <3> HIDE DEF n
    <3> QED
      BY <2>1, <2>2, <2>4
  <2> QED
    BY <2>2, <2>3, <2>4, <2>5
<1>2. \A e \in page : e \in S /\ offset <= P!Before(View, e) /\ P!Before(View, e) < n
  BY PageFacts DEF Rows
<1>3. \A e \in S : P!Before(View, e) = P!Before(S, e)
  BY PageFacts DEF Rows
<1>4. page \in SUBSET Entries
  BY PageFacts DEF Rows
<1>5. Again(k)' = A
  BY <1>1 DEF Again, After
<1>6. /\ View \in SUBSET Entries /\ P!Listed \in SUBSET Entries /\ Late \in SUBSET Entries
      /\ P!ToSet(got) \in SUBSET Entries /\ S \in SUBSET Entries
  BY <1>1, Sets, Numbers
<1>7. x \in Nat /\ k \in Nat /\ k <= n
  BY <1>1, <1>6, Finite
<1>8. /\ j \in Nat /\ i \in Nat /\ m \in Nat /\ j <= n /\ i <= offset /\ m <= n
      /\ m + i = j + offset /\ x + j >= k /\ i <= j /\ j <= m
      /\ (j >= offset => m = j) /\ (j < offset => m = offset)
      /\ i = j \/ i = offset
  <2> HIDE DEF n, x
  <2> QED
    BY <1>1, <1>7
<1>9. \A e \in Entries : P!Before(View, e) \in Nat /\ P!Before(P!Listed, e) \in Nat
  BY <1>6, BeforeNat
<1>10. A \in SUBSET (G \cup R)
  <2> SUFFICES ASSUME NEW e \in A PROVE e \in G \cup R
    OBVIOUS
  <2>1. e \in P!ToSet(got) \cup page /\ e \in Entries /\ P!Before(P!Listed, e) >= k
    BY <1>4, <1>6 DEF After
  <2>2. P!Before(View, e) >= j
    <3>1. CASE P!Before(View, e) < n
      <4>1. P!Before(P!Listed, e) <= P!Before(View, e) + Cardinality({y \in P!Listed \ View : P!Before(View, y) < n})
        BY <1>1, <1>6, <2>1, <3>1, Moved
      <4>2. P!Before(P!Listed, e) <= P!Before(View, e) + x
        BY <4>1 DEF Late
      <4> HIDE DEF x, n
      <4> QED
        BY <1>7, <1>9, <2>1, <4>2
    <3>2. CASE ~(P!Before(View, e) < n)
      <4> HIDE DEF j, n
      <4> QED
        BY <1>1, <1>8, <1>9, <2>1, <3>2
    <3> QED
      BY <3>1, <3>2
  <2>3. CASE e \in P!ToSet(got)
    BY <2>2, <2>3 DEF After
  <2>4. CASE e \in page
    <3>1. e \in S /\ offset <= P!Before(S, e) /\ P!Before(S, e) < n /\ P!Before(S, e) >= j
      BY <1>2, <1>3, <2>2, <2>4
    <3>2. m <= P!Before(S, e)
      BY <3>1
    <3> QED
      BY <3>1, <3>2 DEF Between
  <2> QED
    BY <2>1, <2>3, <2>4
<1>11. G \cup Q \in SUBSET Again(i)
  <2>1. ASSUME NEW e \in G PROVE e \in Again(i)
    <3>1. e \in P!ToSet(got) /\ e \in Entries /\ P!Before(View, e) >= j
      BY <1>6 DEF After
    <3> HIDE DEF i, j
    <3>2. P!Before(View, e) >= i
      BY <1>8, <1>9, <3>1
    <3> QED
      BY <3>1, <3>2 DEF Again, After
  <2>2. ASSUME NEW e \in Q PROVE e \in Again(i)
    <3>1. e \in P!ToSet(got) /\ e \in Entries /\ offset <= P!Before(View, e)
      BY <1>2, <1>4
    <3> HIDE DEF i, j
    <3>2. P!Before(View, e) >= i
      BY <1>1, <1>8, <1>9, <3>1
    <3> QED
      BY <3>1, <3>2 DEF Again, After
  <2> QED
    BY <2>1, <2>2
<1>12. G \cap Q = G \cap R
  <2>1. ASSUME NEW e \in G PROVE e \in page <=> e \in R
    <3>1. e \in Entries /\ P!Before(View, e) >= j /\ P!Before(View, e) \in Nat
      BY <1>6, <1>9 DEF After
    <3>2. e \in S => P!Before(S, e) >= j /\ P!Before(S, e) \in Nat
      BY <1>3, <3>1
    <3>3. e \in S => (offset <= P!Before(S, e) <=> m <= P!Before(S, e))
      <4> HIDE DEF j
      <4> QED
        BY <1>1, <1>8, <3>2
    <3> QED
      BY <3>3 DEF Between
  <2>2. G \subseteq P!ToSet(got)
    BY DEF After
  <2> QED
    BY <2>1, <2>2
<1>13. Cardinality(R) = n - m
  <2>1. seen \in Seq(Entries) /\ InOrder(seen)
    BY <1>1 DEF P!TypeOK, SeenInOrder
  <2>2. n <= Len(seen)
    BY <1>1
  <2> HIDE DEF n, m
  <2>3. IsPart(seen, m, n)
    BY <1>1, <1>8, <2>1, <2>2, PartOf
  <2> QED
    BY <1>8, <2>3 DEF IsPart
<1>14. /\ G \in SUBSET Entries /\ Q \in SUBSET Entries /\ R \in SUBSET Entries
       /\ A \in SUBSET Entries /\ Again(i) \in SUBSET Entries
  BY <1>1, <1>4, <1>6, Sets DEF After, Between
<1>15. Cardinality(Again(i)) + Twice + x <= offset - i + came
  <2> HIDE DEF i
  <2>1. i \in 0..offset
    BY <1>1, <1>8
  <2> QED
    BY <1>1, <2>1 DEF Counts
<1> HIDE DEF A, G, Q, R, page, S
<1>16. Cardinality(A) + Cardinality(Q) <= Cardinality(Again(i)) + Cardinality(R)
  <2> HIDE DEF i
  <2> QED
    BY <1>10, <1>11, <1>12, <1>14, Overlap
<1>17. /\ Cardinality(A) \in Nat /\ Cardinality(Q) \in Nat /\ Cardinality(Again(i)) \in Nat
       /\ Twice \in Int /\ came \in Nat
  BY <1>1, <1>14, Finite, Numbers
<1> HIDE DEF n, m, i, j, x
<1>18. Cardinality(A) + (Twice + Cardinality(Q)) <= n - k + came
  <2> DEFINE a == Cardinality(A)
             q == Cardinality(Q)
             r == Cardinality(R)
             z == Cardinality(Again(i))
  <2>1. /\ a \in Nat /\ q \in Nat /\ z \in Nat /\ Twice \in Int /\ came \in Nat /\ r = n - m
        /\ a + q <= z + r /\ z + Twice + x <= offset - i + came
    BY <1>13, <1>15, <1>16, <1>17
  <2> HIDE DEF a, q, r, z
  <2>2. a + (Twice + q) <= n - k + came
    BY <1>1, <1>7, <1>8, <2>1
  <2> QED
    BY <2>2 DEF a, q
<1> QED
  BY <1>1, <1>5, <1>18 DEF n
LEMMA PageMore == PagesInv /\ PageStep => PagesInv'
<1> SUFFICES ASSUME PagesInv, PageStep PROVE PagesInv'
  OBVIOUS
<1>1. /\ P!TypeOK /\ expected \subseteq P!Listed /\ P!TypeOK' /\ offset \in Nat /\ NextOffset \in Nat
      /\ offset' = NextOffset /\ P!Listed' = P!Listed /\ P!Size' = P!Size /\ View' = P!Listed
      /\ Lost' = {} /\ Late' = {}
  BY PageFacts
<1>2. /\ pc' = "ask" /\ P!Size > 0 /\ UNCHANGED <<expected, gone, came>>
  BY DEF PagesInv, PageStep
<1>3. Cardinality(Missed') <= gone /\ Cardinality(P!Listed) + gone >= NextOffset
  BY PageMissed
<1>4. Cardinality(Missed') \in Nat /\ gone \in Nat /\ came \in Nat /\ Twice' \in Int
  <2>1. P!ToSet(got') \in SUBSET Entries /\ expected' \in SUBSET Entries /\ Len(got') \in Nat
    BY <1>1, RangeSet DEF P!TypeOK
  <2>2. Missed' \in SUBSET Entries
    BY <2>1 DEF Missed
  <2>3. Cardinality(P!ToSet(got')) \in Nat
    BY <2>1, Finite
  <2> QED
    BY <1>1, <2>1, <2>2, <2>3, Finite, Numbers DEF Twice
<1>5. Cardinality(Lost') = 0 /\ Cardinality(Late') = 0
  BY <1>1, RangeEmpty
<1>6. \A k \in 0..NextOffset : Cardinality(Again(k)') \in Nat
  <2>1. P!ToSet(got') \in SUBSET Entries
    BY <1>1, RangeSet DEF P!TypeOK
  <2>2. \A k : Again(k)' \in SUBSET Entries
    BY <2>1 DEF Again, After
  <2> QED
    BY <2>2, Finite
<1>7. \A k \in 0..NextOffset : Cardinality(Again(k)') + Twice' + Cardinality(Late') <= NextOffset - k + came
  <2> SUFFICES ASSUME NEW k \in 0..NextOffset
               PROVE  Cardinality(Again(k)') + Twice' + Cardinality(Late') <= NextOffset - k + came
    OBVIOUS
  <2>1. Cardinality(Again(k)') + Twice' <= NextOffset - k + came
    BY PageAgain
  <2> QED
    BY <1>4, <1>5, <1>6, <2>1
<1>8. Cardinality(Missed') + Cardinality(Lost') <= gone'
  BY <1>2, <1>3, <1>4, <1>5
<1>9. offset' >= 0 /\ P!Size' > 0 /\ Cardinality(View') + gone' >= offset'
  BY <1>1, <1>2, <1>3
<1>10. Counts'
  BY <1>1, <1>2, <1>7, <1>8, <1>9 DEF Counts
<1>11. Twice' <= came'
  <2>1. PICK k \in 0..NextOffset : k = NextOffset
    BY <1>1
  <2>2. Cardinality(Again(k)') + Twice' <= NextOffset - k + came
    BY PageAgain
  <2>3. Cardinality(Again(k)') \in Nat
    BY <1>6
  <2> QED
    BY <1>1, <1>2, <1>4, <2>1, <2>2, <2>3
<1>12. P!PagingIsHonest'
  <2>1. P!NoneTwice'
    BY <1>11, CardIs DEF P!NoneTwice, Twice
  <2> QED
    BY <1>2, <2>1 DEF P!PagingIsHonest, P!NoneMissed, P!NotRefused
<1> QED
  BY <1>1, <1>2, <1>10, <1>12 DEF PagesInv

LEMMA ListPages == PagesInv /\ P!ListPage => PagesInv'
<1> SUFFICES ASSUME PagesInv, P!ListPage PROVE PagesInv'
  OBVIOUS
<1>1. /\ pc = "scan" /\ P!Ahead = {}
      /\ got' = got \o SubSeq(seen, offset + 1, P!Stop)
      /\ UNCHANGED <<there, kind, filtering, rows, target, seen, expected, gone, came>>
  BY DEF P!ListPage, P!call, P!history
<1>2. IF P!Stop < Len(seen) THEN pc' = "ask" /\ offset' = P!Stop
                            ELSE pc' = "done" /\ offset' = offset
  BY DEF P!ListPage
<1>3. offset \in Int /\ P!Size \in Int /\ Len(seen) \in Nat
  BY Numbers DEF PagesInv
<1>4. CASE offset + P!Size < Len(seen)
  <2>1. P!Stop = offset + P!Size
    BY <1>4 DEF P!Stop
  <2>2. PageStep
    BY <1>1, <1>2, <1>3, <1>4, <2>1 DEF PageStep
  <2> QED
    BY <2>2, PageMore
<1>5. CASE ~(offset + P!Size < Len(seen))
  <2>1. P!Stop = Len(seen) /\ Len(seen) <= offset + P!Size /\ ~(Len(seen) < Len(seen))
    BY <1>3, <1>5 DEF P!Stop
  <2>2. pc' = "done" /\ offset' = offset /\ got' = got \o SubSeq(seen, offset + 1, Len(seen))
    BY <1>1, <1>2, <2>1
  <2> QED
    BY <1>1, <2>1, <2>2, PageLast
<1> QED
  BY <1>4, <1>5

LEMMA PartOfRest ==
  ASSUME NEW s \in Seq(Entries), NEW a \in Nat, NEW b \in Nat, a + b <= Len(s)
  PROVE  SubSeq(SubSeq(s, a + 1, Len(s)), 1, b) = SubSeq(s, a + 1, a + b)
<1> DEFINE rest == SubSeq(s, a + 1, Len(s))
           p == SubSeq(rest, 1, b)
           q == SubSeq(s, a + 1, a + b)
<1>1. rest \in Seq(Entries) /\ Len(rest) = Len(s) - a /\ \A i \in 1..(Len(s) - a) : rest[i] = s[a + i]
  OBVIOUS
<1>2. q \in Seq(Entries) /\ Len(q) = b /\ \A i \in 1..b : q[i] = s[a + i]
  OBVIOUS
<1>3. Len(s) - a \in Nat /\ b <= Len(s) - a /\ Len(s) \in Nat
  OBVIOUS
<1> HIDE DEF rest, q
<1>4. p \in Seq(Entries) /\ Len(p) = b /\ \A i \in 1..b : p[i] = rest[i]
  BY <1>1, <1>3
<1> HIDE DEF p
<1>5. \A i \in 1..b : p[i] = q[i]
  BY <1>1, <1>2, <1>3, <1>4
<1>6. p = q
  BY <1>2, <1>4, <1>5
<1> QED
  BY <1>6 DEF p, q, rest

LEMMA SearchPages == PagesInv /\ P!SearchPage => PagesInv'
<1> SUFFICES ASSUME PagesInv, P!SearchPage PROVE PagesInv'
  OBVIOUS
<1> DEFINE matches == SubSeq(seen, offset + 1, Len(seen))
<1>1. /\ pc = "scan" /\ kind \in P!Searches /\ (P!Enough \/ P!Ahead = {})
      /\ UNCHANGED <<there, kind, filtering, rows, target, seen, expected, gone, came>>
      /\ IF Len(matches) > rows
           THEN got' = got \o SubSeq(matches, 1, rows) /\ pc' = "ask" /\ offset' = offset + rows
           ELSE got' = got \o matches /\ pc' = "done" /\ offset' = offset
  BY DEF P!SearchPage, P!call, P!history
<1>2. P!Size = rows
  BY <1>1 DEF P!Size, P!References, P!Searches
<1>3. /\ offset \in Nat /\ rows \in Nat /\ rows > 0 /\ Len(seen) \in Nat /\ seen \in Seq(Entries)
  BY <1>1, <1>2, Numbers DEF PagesInv, P!TypeOK
<1>4. Len(matches) = IF offset <= Len(seen) THEN Len(seen) - offset ELSE 0
  BY <1>3
<1> HIDE DEF matches
<1>5. CASE Len(matches) > rows
  <2>1. Len(seen) > offset + rows /\ offset + rows <= Len(seen)
    BY <1>3, <1>4, <1>5
  <2>2. SubSeq(matches, 1, rows) = SubSeq(seen, offset + 1, offset + rows)
    BY <1>3, <2>1, PartOfRest DEF matches
  <2>3. PageStep
    BY <1>1, <1>2, <1>5, <2>1, <2>2 DEF PageStep
  <2> QED
    BY <2>3, PageMore
<1>6. CASE ~(Len(matches) > rows)
  <2>1. Len(seen) <= offset + rows
    BY <1>3, <1>4, <1>6
  <2>2. P!Ahead = {}
    BY <1>1, <1>2, <1>3, <2>1 DEF P!Enough
  <2>3. pc' = "done" /\ offset' = offset /\ got' = got \o SubSeq(seen, offset + 1, Len(seen))
    BY <1>1, <1>6 DEF matches
  <2> QED
    BY <1>1, <1>2, <2>1, <2>2, <2>3, PageLast
<1> QED
  BY <1>5, <1>6

-----------------------------------------------------------------------------

LEMMA PagesStep == PagesInv /\ [P!Next]_pageVars => PagesInv'
<1> SUFFICES ASSUME PagesInv, [P!Next]_pageVars PROVE PagesInv'
  OBVIOUS
<1>1. CASE \E e \in Entries : P!Vanish(e)
  BY <1>1, VanishPages
<1>2. CASE \E e \in Entries : P!Appear(e)
  BY <1>2, AppearPages
<1>3. CASE P!Rename
  <2>1. /\ target' = "lost"
        /\ UNCHANGED <<there, kind, filtering, rows, offset, seen, got, pc, expected, gone, came>>
    BY <1>3 DEF P!Rename, P!call, P!history
  <2> QED
    BY <2>1, QuietPages
<1>4. CASE P!Finished \/ UNCHANGED pageVars
  <2>1. /\ target' = target
        /\ UNCHANGED <<there, kind, filtering, rows, offset, seen, got, pc, expected, gone, came>>
    BY <1>4 DEF P!Finished, P!vars, P!call, P!history, pageVars
  <2> QED
    BY <2>1, QuietPages
<1> QED
  BY <1>1, <1>2, <1>3, <1>4, AskPages, RefusePages, TakePages, ListPages, BeyondPages, SearchPages
  DEF P!Next

LEMMA PagesTheorem == P!Spec => []PagesInv
<1>1. [P!Next]_P!vars => [P!Next]_pageVars
  BY DEF P!vars, P!call, P!history, pageVars
<1> QED
  BY <1>1, PagesInit, PagesStep, PTL DEF P!Spec

\* A client that reads a long answer page by page gets, once it has come to
\* the end, every row that was there all the time but for one for each removal
\* below the place it had reached, gets a row twice at most once for each
\* addition there, and is refused a later page only after one of these or when
\* the function it asks about has lost its name: list_entries, xrefs,
\* find_bytes and find_insns.
THEOREM PagingHolds == PartSpec => []PagingIsHonest
<1>1. PagesInv => PagingIsHonest
  BY DEF PagesInv, PagingIsHonest
<1> QED
  BY <1>1, PagesPart, PagesTheorem, PTL

\* Every variable of the four parts keeps to its type: the lists of the blocks
\* because of what At and Ascending return, those of the other parts because
\* of their own invariants.
THEOREM TypesOfParts == PartSpec => []PartTypes
<1>1. PartSpec => []TypeOK
  BY GraphPart, TypeCorrect, PTL
<1>2. PartSpec => []B!TypeOK
  <2>1. BP!Spec => []BP!TypeOK
    BY BlocksAssumption, BP!TypesAreRight
  <2>2. BP!TypeOK => B!TypeOK
    BY DEF BP!TypeOK, B!TypeOK
  <2> QED BY <2>1, <2>2, BlocksPart, PTL
<1>3. PartSpec => []N!TypeOK
  <2>1. NamesInv => N!TypeOK
    BY DEF NamesInv
  <2> QED BY <2>1, NamesPart, NamesTheorem, PTL
<1>4. PartSpec => []P!TypeOK
  <2>1. PagesInv => P!TypeOK
    BY DEF PagesInv
  <2> QED BY <2>1, PagesPart, PagesTheorem, PTL
<1> QED
  BY <1>1, <1>2, <1>3, <1>4, PTL DEF PartTypes
=============================================================================
