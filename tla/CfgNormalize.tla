---------------------------- MODULE CfgNormalize ----------------------------
(***************************************************************************)
(* The control flow graph of a function: normalize_ghidra_cfg of           *)
(* tools/cfg.py, which joins the blocks Ghidra splits after every call.    *)
(*                                                                         *)
(* An address is a number, a block its start; what a block holds beside    *)
(* its size and successors (instructions, bytes, calls, strings) is        *)
(* concatenated when blocks are joined: content[a] is the sequence of      *)
(* blocks it came from.  The dict of blocks is visited in any order.       *)
(***************************************************************************)
EXTENDS Naturals, Sequences, SequencesExt

CONSTANTS
  Starts,     \* where blocks may start
  Sizes,      \* how long they may be: not 0
  Ways,       \* what successor lists they may have
  FirstAddr,  \* function_start
  EndAddr     \* function_end, exclusive

VARIABLES
  blocks,   \* the argument: its keys,
  length,   \* ... block.size of each,
  given,    \* ... block.successors of each
  kept,     \* the successors after the first pass
  live,     \* result: its keys,
  size,
  succ,
  content,
  joins,    \* pred_counts: the blocks it has more than one for
  todo,     \* the keys this round has still to visit
  changed,
  pass      \* "filter", "count", "merge", "sort" or "done"

input == <<blocks, length, given>>
result == <<live, size, succ, content>>
vars == <<input, kept, result, joins, todo, changed, pass>>

TypeOK ==
  /\ blocks \subseteq Nat
  /\ length \in [blocks -> Nat \ {0}]
  /\ given \in [blocks -> Seq(Nat)] /\ kept \in [blocks -> Seq(Nat)]
  /\ live \subseteq blocks
  /\ size \in [live -> Nat \ {0}]
  /\ succ \in [live -> Seq(Nat)]
  /\ content \in [live -> Seq(blocks)]
  /\ joins \subseteq blocks /\ todo \subseteq blocks
  /\ changed \in BOOLEAN
  /\ pass \in {"filter", "count", "merge", "sort", "done"}

Init ==
  /\ blocks \in SUBSET Starts
  /\ length \in [blocks -> Sizes]
  /\ given \in [blocks -> Ways]
  /\ kept = given
  /\ live = blocks /\ size = length /\ succ = given
  /\ content = [a \in blocks |-> <<a>>]
  /\ joins = {} /\ todo = {} /\ changed = FALSE
  /\ pass = "filter"

-----------------------------------------------------------------------------

\* Two edges of the graph, or two of one block, lead into b.
Joins(among, edges, b) ==
  \E x, y \in among :
    \E i \in DOMAIN edges[x], j \in DOMAIN edges[y] :
      /\ <<x, i>> # <<y, j>>
      /\ edges[x][i] = b /\ edges[y][j] = b

\* Pass 1: a successor stays if it is a block or lies within the function.
InFunction(b) == b \in blocks \/ (FirstAddr <= b /\ b < EndAddr)

\* The entries of s at the places of ps, in their order.
At(s, ps) ==
  [n \in 1..Cardinality(ps) |->
     s[CHOOSE i \in ps : Cardinality({j \in ps : j <= i}) = n]]

Filter ==
  /\ pass = "filter"
  /\ kept' = [a \in blocks |->
                At(given[a], {i \in 1..Len(given[a]) : InFunction(given[a][i])})]
  /\ succ' = kept'
  /\ pass' = "count"
  /\ UNCHANGED <<input, live, size, content, joins, todo, changed>>

\* Pass 2, the head of its while loop.
Count ==
  /\ pass = "count"
  /\ joins' = {b \in live : Joins(live, succ, b)}
  /\ todo' = live
  /\ changed' = FALSE
  /\ pass' = "merge"
  /\ UNCHANGED <<input, kept, result>>

\* Mutant: a block that can be reached from elsewhere is absorbed as well.
StraightAnyway(a, b) ==
  /\ {a, b} \subseteq live /\ succ[a] = <<b>>
  /\ a + size[a] = b

Straight(a, b) ==
  /\ {a, b} \subseteq live /\ succ[a] = <<b>>
  /\ a + size[a] = b
  /\ b \notin joins

\* a absorbs b; pred_counts stays as it is.
Merge(a, b) ==
  /\ pass = "merge" /\ a \in todo
  /\ Straight(a, b)
  /\ live' = live \ {b}
  /\ size' = [x \in live' |-> IF x = a THEN size[a] + size[b] ELSE size[x]]
  /\ succ' = [x \in live' |-> IF x = a THEN succ[b] ELSE succ[x]]
  /\ content' = [x \in live' |-> IF x = a THEN content[a] \o content[b] ELSE content[x]]
  /\ todo' = todo \ {a}
  /\ changed' = TRUE
  /\ UNCHANGED <<input, kept, joins, pass>>

\* a was absorbed in this round, or absorbs nothing.
Pass(a) ==
  /\ pass = "merge" /\ a \in todo
  /\ \A b \in live : ~Straight(a, b)
  /\ todo' = todo \ {a}
  /\ UNCHANGED <<input, kept, result, joins, changed, pass>>

EndRound ==
  /\ pass = "merge" /\ todo = {}
  /\ pass' = IF changed THEN "count" ELSE "sort"
  /\ UNCHANGED <<input, kept, result, joins, todo, changed>>

\* s from the least entry to the greatest: the n-th is the one with fewer
\* than n entries below it, and n or more that are not above it.
Ascending(s) ==
  [n \in 1..Len(s) |->
     CHOOSE b \in ToSet(s) :
       /\ Cardinality({i \in 1..Len(s) : s[i] < b}) < n
       /\ n <= Cardinality({i \in 1..Len(s) : s[i] <= b})]

\* Pass 3.
Sort ==
  /\ pass = "sort"
  /\ succ' = [a \in live |-> Ascending(succ[a])]
  /\ pass' = "done"
  /\ UNCHANGED <<input, kept, live, size, content, joins, todo, changed>>

\* The result is returned; nothing else is left to do.
Done == pass = "done" /\ UNCHANGED vars

Next ==
  \/ Filter \/ Count
  \/ \E a \in todo : Pass(a) \/ \E b \in live : Merge(a, b)
  \/ EndRound \/ Sort \/ Done

Spec == Init /\ [][Next]_vars

-----------------------------------------------------------------------------

\* The reference: of the graph that was given, b is nothing but the
\* continuation of a.
Continues(a, b) ==
  /\ kept[a] = <<b>> /\ b \in blocks
  /\ a + length[a] = b
  /\ ~Joins(blocks, kept, b)

\* The counts of a round stay right while blocks are absorbed in it: the edges
\* of an absorbed block become those of the block that absorbs it.
CountsStayRight ==
  pass = "merge" => \A b \in live : b \in joins <=> Joins(live, succ, b)

\* How often b is in s.
Times(s, b) == Cardinality({i \in 1..Len(s) : s[i] = b})

\* What is returned is the graph that was given, with every chain of
\* continuations joined into one block, however long, in whatever order the
\* blocks are visited: every block is part of exactly one chain, a chain holds
\* continuations only, and none goes on after its end.  Its successors are
\* those of its end that are in the function, each as often as it was given,
\* in ascending order.
NormalForm ==
  pass = "done" =>
    /\ \A b \in blocks : \E h \in live : \E i \in DOMAIN content[h] :
         /\ content[h][i] = b
         /\ \A g \in live : \A j \in DOMAIN content[g] : content[g][j] = b => g = h /\ j = i
    /\ \A h \in live :
         LET end == Last(content[h]) IN
         /\ content[h][1] = h /\ h + size[h] = end + length[end]
         /\ \A i \in 1..(Len(content[h]) - 1) : Continues(content[h][i], content[h][i + 1])
         /\ \A b \in blocks : ~Continues(end, b)
         /\ \A m, n \in 1..Len(succ[h]) : m <= n => succ[h][m] <= succ[h][n]
         /\ \A b \in ToSet(given[end]) \cup ToSet(succ[h]) :
              Times(succ[h], b) = IF InFunction(b) THEN Times(given[end], b) ELSE 0
=============================================================================
