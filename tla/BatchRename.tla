----------------------------- MODULE BatchRename -----------------------------
(***************************************************************************)
(* The `rename` tool and its confirmations: rename and _rename_sync of     *)
(* tools/modify.py, begin_batch, end_batch and confirm_overwrite of        *)
(* backend.py, elicit_confirmation of server.py.                           *)
(*                                                                         *)
(* A batch renames its symbols one after the other on a worker thread.     *)
(* Before it takes over a name of higher priority (given by the user or    *)
(* the loader) it crosses to the event loop and asks the client, who may   *)
(* answer for all remaining items.  That answer is kept in the backend's   *)
(* one _batch_state, a dict that the beginning and the end of every batch  *)
(* replace by a new one; the question holds on to the dict it started      *)
(* with.  update_vars, set_comments and set_prototype replace it in the    *)
(* same way and ask nothing: they are batches without items.               *)
(*                                                                         *)
(* env says what happens besides: "overlap", batches of several calls run  *)
(* at once, which nothing in the server prevents; "edits", names are given *)
(* in the GUI or by a script while batches run.                            *)
(***************************************************************************)
EXTENDS Naturals, Sequences

CONSTANTS
  Calls,     \* invocations of the batched write tools
  NoCall,
  Symbols,   \* what is renamed: functions and symbols alike
  MaxItems   \* bound: the items of a batch

ASSUME BatchAssumption ==
  /\ MaxItems \in Nat
  /\ NoCall \notin Calls
  /\ "user" \notin Calls /\ "auto" \notin Calls

VARIABLES
  env,       \* the disturbances of this behaviour
  items,     \* items[c]: the symbols of batch c, in order
  pc,        \* pc[c]: the statement c executes next
  next,      \* next[c]: the item c is at
  consent,   \* consent[c]: who agreed to the overwrite c is at (history)
  asking,    \* asking[c]: the dict c's question was started with
  gave,      \* gave[c]: c's client's answer for all remaining items (history)
  box,       \* _batch_state: named by the statement that created the dict
  decision,  \* decision[b]: b['apply_to_all_decision']
  label      \* label[s]: whose name s bears, of the user or the loader,
             \* of the analysis, or of a batch

batch == <<pc, next, consent, asking>>
vars == <<env, items, batch, gave, box, decision, label>>

Boxes == (Calls \X {"begin", "end"}) \cup {<<NoCall, "begin">>}
Decisions == {"none", "confirm", "skip"}

\* Nobody yet; the batch's own client, for this item or for all; the client
\* of another batch; or the code itself, which had nobody to ask.
Consents == {"none", "client", "other", "nobody"}
ItemLists == UNION {[1..n -> Symbols] : n \in 0..MaxItems}

TypeOK ==
  /\ env \subseteq {"overlap", "edits"}
  /\ items \in [Calls -> ItemLists]
  /\ pc \in [Calls -> {"new", "item", "confirm", "asked", "write", "ending", "done"}]
  /\ next \in [Calls -> 1..(MaxItems + 1)]
  /\ consent \in [Calls -> Consents]
  /\ asking \in [Calls -> Boxes]
  /\ gave \in [Calls -> Decisions]
  /\ box \in Boxes
  /\ decision \in [Boxes -> Decisions]
  /\ label \in [Symbols -> {"user", "auto"} \cup Calls]

Init ==
  /\ env \in SUBSET {"overlap", "edits"}
  /\ items \in [Calls -> ItemLists]
  /\ pc = [c \in Calls |-> "new"]
  /\ next = [c \in Calls |-> 1]
  /\ consent = [c \in Calls |-> "none"]
  /\ box = <<NoCall, "begin">>
  /\ asking = [c \in Calls |-> box]
  /\ gave = [c \in Calls |-> "none"]
  /\ decision = [b \in Boxes |-> "none"]
  /\ label \in [Symbols -> {"user", "auto"}]

Active(c) == pc[c] \notin {"new", "done"}
Goto(c, at) == pc' = [pc EXCEPT ![c] = at]
Item(c) == items[c][next[c]]

Begin(c) ==
  /\ pc[c] = "new"
  /\ "overlap" \in env \/ \A d \in Calls : ~Active(d)
  /\ box' = <<c, "begin">>
  /\ Goto(c, "item")
  /\ UNCHANGED <<env, items, next, consent, asking, gave, decision, label>>

\* The loop goes on with the next item.
NextItem(c) ==
  /\ next' = [next EXCEPT ![c] = @ + 1]
  /\ consent' = [consent EXCEPT ![c] = "none"]
  /\ Goto(c, "item")

\* Mutant: the priority of the old name is not looked at.
LookNot(c) ==
  /\ pc[c] = "item" /\ next[c] <= Len(items[c])
  /\ Goto(c, "write")
  /\ UNCHANGED <<env, items, next, consent, asking, gave, box, decision, label>>

\* The symbol's name and source are read.
Look(c) ==
  /\ pc[c] = "item" /\ next[c] <= Len(items[c])
  /\ Goto(c, IF label[Item(c)] = "user" THEN "confirm" ELSE "write")
  /\ UNCHANGED <<env, items, next, consent, asking, gave, box, decision, label>>

\* Not found, ambiguous, another name than was said, or refused by Ghidra.
ItemFails(c) ==
  /\ pc[c] \in {"item", "write"} /\ next[c] <= Len(items[c])
  /\ NextItem(c)
  /\ UNCHANGED <<env, items, asking, gave, box, decision, label>>

\* What an answer does to the item: it is written, or skipped.
Resolve(c, confirm, by) ==
  /\ IF confirm
     THEN /\ consent' = [consent EXCEPT ![c] = by]
          /\ Goto(c, "write") /\ UNCHANGED next
     ELSE NextItem(c)
  /\ UNCHANGED <<env, items, box, label>>

\* An earlier answer was for all remaining items: by the dict that is current,
\* whoever's client gave it.
ByDecision(c) ==
  /\ pc[c] = "confirm"
  /\ decision[box] # "none"
  /\ Resolve(c, decision[box] = "confirm", IF gave[c] = "confirm" THEN "client" ELSE "other")
  /\ UNCHANGED <<asking, gave, decision>>

Ask(c) ==
  /\ pc[c] = "confirm"
  /\ decision[box] = "none"
  /\ asking' = [asking EXCEPT ![c] = box]
  /\ Goto(c, "asked")
  /\ UNCHANGED <<env, items, next, consent, gave, box, decision, label>>

\* No context to ask in, a client without elicitation, or no bridge to the
\* event loop: allowed, though nobody said so.
AutoAllow(c) ==
  /\ \/ pc[c] = "confirm" /\ decision[box] = "none"
     \/ pc[c] = "asked"
  /\ Resolve(c, TRUE, "nobody")
  /\ UNCHANGED <<asking, gave, decision>>

Word(confirm) == IF confirm THEN "confirm" ELSE "skip"

\* Mutant: only a confirmation is kept for the remaining items.
StoreConfirmed(c, confirm) ==
  decision' = [decision EXCEPT ![asking[c]] = IF confirm THEN "confirm" ELSE @]

Store(c, confirm) ==
  decision' = [decision EXCEPT ![asking[c]] = Word(confirm)]

\* The client accepts the form, or declines or cancels it, which is a no.
Answer(c, confirm, all) ==
  /\ pc[c] = "asked"
  /\ \/ all /\ Store(c, confirm) /\ gave' = [gave EXCEPT ![c] = Word(confirm)]
     \/ ~all /\ UNCHANGED <<decision, gave>>
  /\ Resolve(c, confirm, "client")
  /\ UNCHANGED asking

\* Mutant: the new name is entered with another source.
WriteAsAuto(c) ==
  /\ pc[c] = "write"
  /\ label' = [label EXCEPT ![Item(c)] = "ai"]
  /\ NextItem(c)
  /\ UNCHANGED <<env, items, asking, gave, box, decision>>

Write(c) ==
  /\ pc[c] = "write"
  /\ label' = [label EXCEPT ![Item(c)] = c]
  /\ NextItem(c)
  /\ UNCHANGED <<env, items, asking, gave, box, decision>>

Finish(c) ==
  /\ pc[c] = "item" /\ next[c] > Len(items[c])
  /\ Goto(c, "ending")
  /\ UNCHANGED <<env, items, next, consent, asking, gave, box, decision, label>>

\* Mutant: the end of a batch leaves the state to the next one.
EndWithout(c) ==
  /\ pc[c] = "ending"
  /\ Goto(c, "done")
  /\ UNCHANGED <<env, items, next, consent, asking, gave, box, decision, label>>

End(c) ==
  /\ pc[c] = "ending"
  /\ box' = <<c, "end">>
  /\ Goto(c, "done")
  /\ UNCHANGED <<env, items, next, consent, asking, gave, decision, label>>

\* The user names a symbol in the GUI, or a script does.
Edit(s) ==
  /\ "edits" \in env
  /\ label' = [label EXCEPT ![s] = "user"]
  /\ UNCHANGED <<env, items, batch, gave, box, decision>>

Next ==
  \/ \E c \in Calls :
       \/ Begin(c) \/ Look(c) \/ ItemFails(c) \/ ByDecision(c) \/ Ask(c) \/ AutoAllow(c)
       \/ \E confirm, all \in BOOLEAN : Answer(c, confirm, all)
       \/ Write(c) \/ Finish(c) \/ End(c)
  \/ \E s \in Symbols : Edit(s)

Spec == Init /\ [][Next]_vars

-----------------------------------------------------------------------------

\* Who settled the overwrite c is at: the batch's own client, or the code
\* itself where nobody can be asked; the client of another batch only if
\* batches overlap, which AnswersStayInTheirBatch is about.
Settled(c) ==
  consent[c] \in {"client", "nobody"} \cup (IF "overlap" \in env THEN {"other"} ELSE {})

\* A name of the user's is only replaced by a batch that found it to be one
\* and had the overwrite settled for this item: by the batch's own client, or
\* by nobody where there is none to ask.  While batches do not overlap, one
\* whose answer for the remaining items was a no is never decided by a yes
\* (_rename_sync, elicit_confirmation).  Not while others name symbols: the
\* priority is not looked at again when the answer comes.
OverwritesWereSettled == [][
  "edits" \notin env => \A s \in Symbols :
    label[s] = "user" /\ label'[s] # "user" =>
      \E c \in Calls : pc[c] = "write" /\ Item(c) = s /\ Settled(c)]_vars

\* An answer for all remaining items never outlives its batch: what decides
\* items unasked was said by the client of a batch still in progress.
DecisionsAreOfBatchesInProgress ==
  decision[box] # "none" =>
    \E c \in Calls : Active(c) /\ gave[c] = decision[box]

\* How far a batch is, for one who does not see the question on its way.
Stage(c) ==
  CASE pc[c] = "asked" -> "confirm" [] pc[c] = "ending" -> "item" [] OTHER -> pc[c]

Own == INSTANCE BatchAnswers WITH at <- [c \in Calls |-> Stage(c)], own <- gave

\* When batches do not overlap they implement BatchAnswers, where each has an
\* answer of its own, given by its own client; the dict that all of them share
\* and the question on its way cannot be told from it (elicit_confirmation,
\* begin_batch and end_batch).
BatchesHaveTheirOwnAnswer == Own!Init /\ [][("overlap" \notin env) => Own!Next]_Own!vars

\* "Apply this choice to all remaining items in this batch"
\* (models.py:325): what decides an item unasked was said by the client of
\* that item's own batch.  The code violates it when batches overlap: the
\* second one replaces the dict, and the answers of both go there.
AnswersStayInTheirBatch ==
  \A c \in Calls :
    pc[c] = "confirm" /\ decision[box] # "none" => gave[c] = decision[box]
=============================================================================
