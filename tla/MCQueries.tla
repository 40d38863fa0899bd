----------------------------- MODULE MCQueries -----------------------------
(* Queries, for TLC: a behaviour is one of a single part, and the three parts *)
(* that rest are in one state.                                                *)
EXTENDS Queries, SequencesExt, TLC

-----------------------------------------------------------------------------
(* Blocks at three of four addresses, with at most two successors each: the   *)
(* addresses of blocks, one within the function where no block starts, and    *)
(* one outside.                                                               *)
MCStarts == 1..4
MCSizes == {1, 2}
MCWays == {<<>>} \cup {<<a>> : a \in {1, 2, 3, 4, 9}} \cup {<<3, 2>>, <<4, 2>>, <<4, 3>>, <<2, 2>>}

\* What the library computes of the same lists by recursion.
ASSUME ListsAssumption ==
  \A s \in SeqOf({1, 4, 9}, 4) :
    /\ B!Ascending(s) = SortSeq(s, <)
    /\ \A b \in {1, 4, 9} :
         B!At(s, {i \in 1..Len(s) : s[i] # b}) = SelectSeq(s, LAMBDA c : c # b)

-----------------------------------------------------------------------------
(* Eleven functions in the order of their wire names; those with a leading    *)
(* underscore come first.                                                     *)
Word(w) == <<0, w>>
Underscored(w) == <<1, w>>
MCWire ==
  << <<>>,
     <<Word("mcp"), Word("a")>>,
     <<Underscored("import"), Word("a")>>,
     <<Underscored("mcp"), Word("self"), Word("a")>>,
     <<Word("foo")>>,
     <<Word("import"), Word("a")>>,
     <<Word("json"), Word("a")>>,
     <<Word("mcp")>>,
     <<Word("mcp"), Word("a")>>,
     <<Word("mcp"), Word("a"), Word("b")>>,
     <<Word("mcp"), Word("self"), Word("a")>> >>
MCBuiltins == {Word("list")}
MCModules == {Word("json"), Word("mcp")}
MCScripts == {Word("mcp"), Underscored("mcp"), Word("foo")}

-----------------------------------------------------------------------------
(* Four places of a program.                                                  *)
Place(at, what, hit) ==
  [at |-> at, holds |-> {what, "bytes", "insns", "to", "from"}, hit |-> hit]
MCEntries ==
  {Place(1, "function", TRUE), Place(2, "function", FALSE), Place(3, "class", TRUE), Place(4, "function", TRUE)}

-----------------------------------------------------------------------------

\* What rests is in one state; the root of a walk is any by symmetry.
MCInit ==
  /\ part \in {"graph", "blocks", "names", "pages"}
  /\ IF part = "graph" THEN TRUE
     ELSE calls = {} /\ query \in [root : Functions, direction : {"both"}, depth : {0}, nodes : {0}, edges : {0}]
  /\ IF part = "blocks" THEN blocks \in kSubset(3, MCStarts) ELSE blocks = {}
  /\ IF part = "names" THEN TRUE ELSE listed = {} /\ existing = {}
  /\ IF part = "pages" THEN TRUE
     ELSE there = {} /\ kind = "function" /\ filtering = FALSE /\ rows = 0 /\ offset = 0
  /\ PartInit

MCSpec == MCInit /\ [][PartNext]_partVars

Symmetry == Permutations(Functions)
=============================================================================
