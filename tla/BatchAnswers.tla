---------------------------- MODULE BatchAnswers ----------------------------
(***************************************************************************)
(* What the tools promise about the questions of a batch: "Apply this      *)
(* choice to all remaining items in this batch" (models.py:325).  Every    *)
(* batch has an answer of its own for what remains of it, given once by    *)
(* its own client, and it decides each item from there on that would       *)
(* replace a name of the user's; before, each such item is decided by      *)
(* itself.  There is no state the batches share but the names.             *)
(* BatchRename implements this module while its batches do not overlap.    *)
(***************************************************************************)
EXTENDS Naturals, Sequences

CONSTANTS Calls, Symbols

VARIABLES
  items,   \* items[c]: the symbols of batch c, in order
  next,    \* next[c]: the item c is at
  at,      \* how far c is with it
  own,     \* own[c]: the answer for what remains of c, or "none"
  label    \* label[s]: "user" if s bears a name of the user or the loader

vars == <<items, next, at, own, label>>

Stages == {"new", "item", "confirm", "write", "done"}

Init ==
  /\ next = [c \in Calls |-> 1]
  /\ at = [c \in Calls |-> "new"]
  /\ own = [c \in Calls |-> "none"]
  /\ label \in [Symbols -> {"user", "auto"}]

Item(c) == items[c][next[c]]
Goto(c, stage) == at' = [at EXCEPT ![c] = stage]

NextItem(c) ==
  /\ next' = [next EXCEPT ![c] = @ + 1]
  /\ Goto(c, "item")

Begin(c) ==
  /\ at[c] = "new"
  /\ Goto(c, "item")
  /\ UNCHANGED <<items, next, own, label>>

\* Only a name of the user's raises the question.
Look(c) ==
  /\ at[c] = "item" /\ next[c] <= Len(items[c])
  /\ Goto(c, IF label[Item(c)] = "user" THEN "confirm" ELSE "write")
  /\ UNCHANGED <<items, next, own, label>>

Fail(c) ==
  /\ at[c] \in {"item", "write"} /\ next[c] <= Len(items[c])
  /\ NextItem(c)
  /\ UNCHANGED <<items, own, label>>

\* The batch's own answer decides, or else its client does: for this item,
\* or for all that remain.
Decide(c, yes) ==
  LET word == IF yes THEN "confirm" ELSE "skip" IN
  /\ at[c] = "confirm"
  /\ own[c] \in {"none", word}
  /\ own' \in {own, [own EXCEPT ![c] = word]}
  /\ IF yes THEN Goto(c, "write") /\ UNCHANGED next ELSE NextItem(c)
  /\ UNCHANGED <<items, label>>

Write(c) ==
  /\ at[c] = "write"
  /\ label' = [label EXCEPT ![Item(c)] = c]
  /\ NextItem(c)
  /\ UNCHANGED <<items, own>>

End(c) ==
  /\ at[c] = "item" /\ next[c] > Len(items[c])
  /\ Goto(c, "done")
  /\ UNCHANGED <<items, next, own, label>>

\* Names are given by others as well.
Edit(s) ==
  /\ label' = [label EXCEPT ![s] = "user"]
  /\ UNCHANGED <<items, next, at, own>>

Next ==
  \/ \E c \in Calls :
       \/ Begin(c) \/ Look(c) \/ Fail(c) \/ Write(c) \/ End(c)
       \/ \E yes \in BOOLEAN : Decide(c, yes)
  \/ \E s \in Symbols : Edit(s)
=============================================================================
