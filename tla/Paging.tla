------------------------------- MODULE Paging -------------------------------
(***************************************************************************)
(* What a client gets that reads a long answer page by page: list and      *)
(* xrefs (tools/core.py, types.py, analysis.py), which name the next       *)
(* offset, and find_bytes and find_insns (tools/search.py), which only say *)
(* whether there is more.  Every page is computed anew, in a worker        *)
(* thread, from a program that other requests change meanwhile.            *)
(*                                                                         *)
(* An entry is a place of the program: where it stands in the order things *)
(* are enumerated in, all it holds (a function, the source of a reference, *)
(* a match of the bytes that are searched, ...), and whether match_filter  *)
(* is found in its name.  A rename that moves an entry, or lets the filter *)
(* find it no more, is a removal and an addition.  Rows carry nothing but  *)
(* the entry.                                                              *)
(***************************************************************************)
EXTENDS Integers, FiniteSets, Sequences, SequencesExt

CONSTANTS
  Entries,     \* what the program may hold
  Kinds,       \* the questions that are asked
  Starts,      \* the first offsets
  Limits,      \* the limits
  PageLimit,   \* the limit of xrefs when it is asked for none, 500
  MaxChanges   \* bound: changes of the program during the reading

VARIABLES
  there,      \* the entries of the program
  kind,       \* the question: an entry_type of list, a direction of xrefs,
              \* "bytes" or "insns"
  filtering,  \* match_filter is not empty
  limit,
  offset,     \* of the page that is asked for next
  target,     \* xrefs: the function name can be resolved
  seen,       \* the entries the call has come across
  got,        \* the rows of all pages so far
  pc,         \* "ask", "scan", "refused" or "done"
  expected,   \* history: the entries that were there from the beginning,
  gone,       \* ... how many were removed,
  came        \* ... and added where they move what is still to be read

call == <<kind, filtering, limit>>
history == <<expected, gone, came>>
vars == <<there, call, offset, target, seen, got, pc, history>>

References == {"to", "from"}
Searches == {"bytes", "insns"}

-----------------------------------------------------------------------------

Matching(e) == filtering => e.hit

\* The entry types of list; only three of them take the filter.
FunctionRows == {e \in there : "function" \in e.holds /\ Matching(e)}
Segments == {e \in there : "memory_segment" \in e.holds}
Imports == {e \in there : "import" \in e.holds}
\* All symbols, not those of external entry points.
Exports == {e \in there : e.holds \cap {"function", "import", "class", "namespace", "label"} # {}}
Strings == {e \in there : "string" \in e.holds /\ Matching(e)}
Classes == {e \in there : "class" \in e.holds}
Namespaces == {e \in there : "namespace" \in e.holds}
Types == {e \in there : "type" \in e.holds /\ Matching(e)}

\* The two directions of xrefs.
ReferencesTo == {e \in there : "to" \in e.holds}
ReferencesFrom == {e \in there : "from" \in e.holds}

\* What a search comes across.
ByteMatches == {e \in there : "bytes" \in e.holds}
InsnMatches == {e \in there : "insns" \in e.holds}

Listed ==
  CASE kind = "function" -> FunctionRows
    [] kind = "memory_segment" -> Segments
    [] kind = "import" -> Imports
    [] kind = "export" -> Exports
    [] kind = "string" -> Strings
    [] kind = "class" -> Classes
    [] kind = "namespace" -> Namespaces
    [] kind = "type" -> Types
    [] kind = "to" -> ReferencesTo
    [] kind = "from" -> ReferencesFrom
    [] kind = "bytes" -> ByteMatches
    [] kind = "insns" -> InsnMatches

-----------------------------------------------------------------------------

TypeOK ==
  /\ there \subseteq Entries
  /\ kind \in Kinds /\ filtering \in BOOLEAN /\ limit \in Limits
  /\ offset \in Int
  /\ target \in {"found", "lost"}
  /\ seen \in Seq(Entries) /\ got \in Seq(Entries)
  /\ pc \in {"ask", "scan", "refused", "done"}
  /\ expected \subseteq Entries
  /\ gone \in 0..MaxChanges /\ came \in 0..MaxChanges

\* How many of es come before e.
Before(es, e) == Cardinality({x \in es : x.at < e.at})

Init ==
  /\ there \in SUBSET Entries
  /\ kind \in Kinds /\ filtering \in BOOLEAN /\ limit \in Limits
  /\ offset \in Starts
  /\ target = "found"
  /\ seen = <<>> /\ got = <<>>
  /\ pc = "ask"
  /\ expected = {e \in Listed : Before(Listed, e) >= offset}
  /\ gone = 0 /\ came = 0

\* xrefs takes a limit of 0 for none given.
Size == IF kind \in References /\ limit = 0 THEN PageLimit ELSE limit

\* Checked by list_entries and xrefs, and for the searches by their schema;
\* xrefs resolves its function for every page.
Valid == offset >= 0 /\ Size > 0 /\ (kind \in References => target = "found")

Ask ==
  /\ pc = "ask" /\ Valid
  /\ pc' = "scan" /\ seen' = <<>>
  /\ UNCHANGED <<there, call, offset, target, got, history>>

Refuse ==
  /\ pc = "ask" /\ ~Valid
  /\ pc' = "refused"
  /\ UNCHANGED <<there, call, offset, target, seen, got, history>>

\* How far the enumeration has come.
Reached == IF seen = <<>> THEN 0 ELSE Last(seen).at

Ahead == {e \in Listed : e.at > Reached}

\* A search stops one after the limit, list enumerates everything.
Enough == kind \in Searches /\ Len(seen) = offset + Size + 1

Take ==
  /\ pc = "scan" /\ ~Enough
  /\ \E e \in Ahead :
       /\ \A x \in Ahead : e.at <= x.at
       /\ seen' = Append(seen, e)
  /\ UNCHANGED <<there, call, offset, target, got, pc, history>>

\* The page [start, stop) of a list.
Stop == IF offset + Size < Len(seen) THEN offset + Size ELSE Len(seen)

\* Mutant: the next offset is that of the last row.
NextOnLastRow ==
  /\ pc = "scan" /\ kind \notin Searches /\ Ahead = {} /\ offset <= Len(seen)
  /\ got' = got \o SubSeq(seen, offset + 1, Stop)
  /\ IF Stop < Len(seen) THEN pc' = "ask" /\ offset' = Stop + 1
                         ELSE pc' = "done" /\ UNCHANGED offset
  /\ UNCHANGED <<there, call, target, seen, history>>

ListPage ==
  /\ pc = "scan" /\ kind \notin Searches /\ Ahead = {} /\ offset <= Len(seen)
  /\ got' = got \o SubSeq(seen, offset + 1, Stop)
  /\ IF Stop < Len(seen) THEN pc' = "ask" /\ offset' = Stop
                         ELSE pc' = "done" /\ UNCHANGED offset
  /\ UNCHANGED <<there, call, target, seen, history>>

\* "offset exceeds total"
BeyondTotal ==
  /\ pc = "scan" /\ kind \notin Searches /\ Ahead = {} /\ offset > Len(seen)
  /\ pc' = "refused"
  /\ UNCHANGED <<there, call, offset, target, seen, got, history>>

\* A search answers the matches after the first `offset`, and asks the client
\* to go on from there when it has come across one more than the limit.
SearchPage ==
  /\ pc = "scan" /\ kind \in Searches /\ (Enough \/ Ahead = {})
  /\ LET matches == SubSeq(seen, offset + 1, Len(seen)) IN
     IF Len(matches) > limit
       THEN /\ got' = got \o SubSeq(matches, 1, limit)
            /\ pc' = "ask" /\ offset' = offset + limit
       ELSE /\ got' = got \o matches
            /\ pc' = "done" /\ UNCHANGED offset
  /\ UNCHANGED <<there, call, target, seen, history>>

-----------------------------------------------------------------------------
(* Other requests, while the client reads.                                 *)

\* Whether a removal or addition of e moves the entries after it under the
\* offset of a page: of the page that is being computed if e still lies ahead,
\* or else of the one after it.
Below(e) ==
  CASE pc = "ask" -> Before(Listed, e) < offset
    [] pc = "scan" /\ e.at > Reached -> Len(seen) + Before(Ahead, e) < offset
    [] pc = "scan" /\ e.at <= Reached -> Before(ToSet(seen), e) < offset + Size

Changing == pc \in {"ask", "scan"} /\ gone + came < MaxChanges

Vanish(e) ==
  /\ Changing /\ e \in Listed
  /\ there' = there \ {e}
  /\ expected' = expected \ {e}
  /\ gone' = IF Below(e) THEN gone + 1 ELSE gone
  /\ UNCHANGED <<call, offset, target, seen, got, pc, came>>

Appear(e) ==
  /\ Changing /\ e \in Entries \ there
  /\ there' = there \cup {e}
  /\ came' = IF Below(e) THEN came + 1 ELSE came
  /\ UNCHANGED <<call, offset, target, seen, got, pc, expected, gone>>

\* The function of an xrefs request is renamed.
Rename ==
  /\ Changing /\ kind \in References /\ target = "found"
  /\ target' = "lost"
  /\ UNCHANGED <<there, call, offset, seen, got, pc, history>>

\* The client has read to the end.
Finished == pc \in {"refused", "done"} /\ UNCHANGED vars

Next ==
  \/ Ask \/ Refuse \/ Take \/ ListPage \/ BeyondTotal \/ SearchPage
  \/ (\E e \in Entries : Vanish(e) \/ Appear(e))
  \/ Rename \/ Finished

Spec == Init /\ [][Next]_vars

-----------------------------------------------------------------------------

\* A client that has read to the end has every entry that was there all the
\* time, but for one for each that was removed before the place it had reached;
\* it has a row twice at most for each that was added there.
NoneMissed == pc = "done" => Cardinality(expected \ ToSet(got)) <= gone
NoneTwice == Len(got) - Cardinality(ToSet(got)) <= came

\* A reading that has begun is not refused unless entries were removed before
\* the place it had reached, or its function lost its name.
NotRefused == pc = "refused" /\ got # <<>> => gone > 0 \/ target = "lost"

PagingIsHonest == NoneMissed /\ NoneTwice /\ NotRefused
=============================================================================
