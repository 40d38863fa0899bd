---------------------------- MODULE WritesProofs ----------------------------
(***************************************************************************)
(* Theorems about the halves of Writes: BatchRename, for any number of     *)
(* batches and items, and WriteTools, by the theorems of WriteToolsProofs. *)
(*                                                                         *)
(* What makes an answer die with its batch is that every begin and end     *)
(* names a dict that nobody has written to (FreshBoxes), and that a        *)
(* question only ever holds a dict that was current once (OldBoxes).       *)
(***************************************************************************)
EXTENDS Writes, TLAPS

\* What one step of batch c does.
CallStep(c) ==
  \/ Begin(c) \/ Look(c) \/ ItemFails(c) \/ ByDecision(c) \/ Ask(c) \/ AutoAllow(c)
  \/ \E confirm, all \in BOOLEAN : Answer(c, confirm, all)
  \/ Write(c) \/ Finish(c) \/ End(c)

\* The items of a batch are a sequence of at most MaxItems symbols.
LEMMA ItemListsAreShort ==
  ASSUME NEW q \in ItemLists
  PROVE  Len(q) \in 0..MaxItems /\ q \in [1..Len(q) -> Symbols]
<1>1. PICK n \in 0..MaxItems : q \in [1..n -> Symbols]
  BY DEF ItemLists
<1>2. n \in Nat
  BY BatchAssumption
<1>3. Len(q) = n
  BY <1>1, <1>2
<1> QED
  BY <1>1, <1>3

\* An item is only looked at, asked about or written where there is one.
InRange ==
  \A c \in Calls : pc[c] \in {"confirm", "asked", "write"} => next[c] <= Len(items[c])

TypeInv == TypeOK /\ InRange

LEMMA InitTypeInv == Init => TypeInv
BY BatchAssumption DEF Init, TypeInv, TypeOK, InRange, Boxes, Decisions, Consents

LEMMA ResolveType ==
  ASSUME TypeInv, NEW c \in Calls, NEW confirm \in BOOLEAN,
         NEW by \in {"client", "other", "nobody"}, Resolve(c, confirm, by),
         pc[c] \in {"confirm", "asked"}
  PROVE  /\ pc' \in [Calls -> {"new", "item", "confirm", "asked", "write", "ending", "done"}]
         /\ next' \in [Calls -> 1..(MaxItems + 1)]
         /\ consent' \in [Calls -> Consents]
         /\ InRange'
<1>1. items[c] \in ItemLists /\ next[c] <= Len(items[c]) /\ next[c] \in Nat
  BY DEF TypeInv, TypeOK, InRange
<1>2. Len(items[c]) \in 0..MaxItems
  BY <1>1, ItemListsAreShort
<1>3. next[c] + 1 \in 1..(MaxItems + 1)
  BY <1>1, <1>2, BatchAssumption
<1>4. consent' \in [Calls -> Consents]
  BY DEF TypeInv, TypeOK, Resolve, NextItem, Consents
<1>5. CASE confirm
  <2>1. pc' = [pc EXCEPT ![c] = "write"] /\ next' = next /\ items' = items
    BY <1>5 DEF Resolve, Goto
  <2> QED
    BY <1>1, <1>4, <2>1 DEF TypeInv, TypeOK, InRange
<1>6. CASE ~confirm
  <2>1. pc' = [pc EXCEPT ![c] = "item"] /\ next' = [next EXCEPT ![c] = @ + 1] /\ items' = items
    BY <1>6 DEF Resolve, NextItem, Goto
  <2> QED
    BY <1>3, <1>4, <2>1 DEF TypeInv, TypeOK, InRange
<1> QED
  BY <1>5, <1>6

LEMMA StepTypeInv == TypeInv /\ [Next]_vars => TypeInv'
<1> SUFFICES ASSUME TypeInv, [Next]_vars PROVE TypeInv'
  OBVIOUS
<1> USE DEF TypeInv, TypeOK, InRange
<1>1. ASSUME NEW c \in Calls, CallStep(c) PROVE TypeInv'
  <2>1. CASE Begin(c)
    BY <2>1 DEF Begin, Goto, Boxes
  <2>2. CASE Look(c)
    BY <2>2 DEF Look, Goto
  <2>3. CASE ItemFails(c)
    <3>1. items[c] \in ItemLists /\ next[c] \in Nat
      OBVIOUS
    <3>2. Len(items[c]) \in 0..MaxItems
      BY <3>1, ItemListsAreShort
    <3>3. next[c] + 1 \in 1..(MaxItems + 1)
      BY <2>3, <3>1, <3>2, BatchAssumption DEF ItemFails
    <3> QED
      BY <2>3, <3>3 DEF ItemFails, NextItem, Goto, Consents
  <2>4. CASE ByDecision(c)
    <3> DEFINE by == IF gave[c] = "confirm" THEN "client" ELSE "other"
    <3>1. Resolve(c, decision[box] = "confirm", by) /\ (decision[box] = "confirm") \in BOOLEAN
      BY <2>4 DEF ByDecision
    <3>2. InRange' /\ pc' \in [Calls -> {"new", "item", "confirm", "asked", "write", "ending", "done"}]
          /\ next' \in [Calls -> 1..(MaxItems + 1)] /\ consent' \in [Calls -> Consents]
      BY <2>4, <3>1, ResolveType DEF ByDecision
    <3> QED
      BY <2>4, <3>1, <3>2 DEF ByDecision, Resolve
  <2>5. CASE Ask(c)
    BY <2>5 DEF Ask, Goto
  <2>6. CASE AutoAllow(c)
    <3>1. Resolve(c, TRUE, "nobody") /\ pc[c] \in {"confirm", "asked"}
      BY <2>6 DEF AutoAllow
    <3>2. InRange' /\ pc' \in [Calls -> {"new", "item", "confirm", "asked", "write", "ending", "done"}]
          /\ next' \in [Calls -> 1..(MaxItems + 1)] /\ consent' \in [Calls -> Consents]
      BY <3>1, ResolveType
    <3> QED
      BY <2>6, <3>1, <3>2 DEF AutoAllow, Resolve
  <2>7. ASSUME NEW confirm \in BOOLEAN, NEW all \in BOOLEAN, Answer(c, confirm, all)
        PROVE  TypeInv'
    <3>1. Resolve(c, confirm, "client") /\ pc[c] \in {"confirm", "asked"}
      BY <2>7 DEF Answer
    <3>2. InRange' /\ pc' \in [Calls -> {"new", "item", "confirm", "asked", "write", "ending", "done"}]
          /\ next' \in [Calls -> 1..(MaxItems + 1)] /\ consent' \in [Calls -> Consents]
      BY <3>1, ResolveType
    <3>3. Word(confirm) \in Decisions
      BY DEF Word, Decisions
    <3>4. gave' \in [Calls -> Decisions] /\ decision' \in [Boxes -> Decisions]
      <4>1. CASE all
        <5>1. decision' = [decision EXCEPT ![asking[c]] = Word(confirm)]
              /\ gave' = [gave EXCEPT ![c] = Word(confirm)]
          BY <2>7, <4>1 DEF Answer, Store
        <5> QED
          BY <3>3, <5>1
      <4>2. CASE ~all
        BY <2>7, <4>2 DEF Answer
      <4> QED
        BY <4>1, <4>2
    <3> QED
      BY <2>7, <3>1, <3>2, <3>4 DEF Answer, Resolve
  <2>8. CASE Write(c)
    <3>1. items[c] \in ItemLists /\ next[c] \in Nat /\ next[c] <= Len(items[c])
      BY <2>8 DEF Write
    <3>2. Len(items[c]) \in 0..MaxItems
      BY <3>1, ItemListsAreShort
    <3>3. next[c] + 1 \in 1..(MaxItems + 1)
      BY <3>1, <3>2, BatchAssumption
    <3> QED
      BY <2>8, <3>3 DEF Write, NextItem, Goto, Consents
  <2>9. CASE Finish(c)
    BY <2>9 DEF Finish, Goto
  <2>10. CASE End(c)
    BY <2>10 DEF End, Goto, Boxes
  <2> QED
    BY <1>1, <2>1, <2>2, <2>3, <2>4, <2>5, <2>6, <2>7, <2>8, <2>9, <2>10 DEF CallStep
<1>2. ASSUME NEW s \in Symbols, Edit(s) PROVE TypeInv'
  BY <1>2 DEF Edit, batch
<1>3. CASE UNCHANGED vars
  BY <1>3 DEF vars, batch
<1> QED
  BY <1>1, <1>2, <1>3 DEF Next, CallStep

\* The batches, the dicts, the answers and the names keep their types, for
\* every number of batches, symbols and items.
THEOREM TypeCorrect == Spec => []TypeOK
<1>1. Init => TypeInv
  BY InitTypeInv
<1>2. TypeInv /\ [Next]_vars => TypeInv'
  BY StepTypeInv
<1>3. TypeInv => TypeOK
  BY DEF TypeInv
<1> QED
  BY <1>1, <1>2, <1>3, PTL DEF Spec

-----------------------------------------------------------------------------

\* A dict exists once the statement that names it was executed.
Made(b) ==
  IF b[2] = "end" THEN pc[b[1]] = "done" ELSE b[1] = NoCall \/ pc[b[1]] # "new"

\* Nobody has written to the dict of a begin or an end still to come.
FreshBoxes == \A b \in Boxes : ~Made(b) => decision[b] = "none"

\* The current dict, and the one a question holds, exist.
OldBoxes ==
  /\ Made(box)
  /\ \A c \in Calls : pc[c] = "asked" => Made(asking[c])

\* Who gave the current decision is in progress and not being asked.
Witnessed ==
  decision[box] # "none" =>
    \E c \in Calls : Active(c) /\ pc[c] # "asked" /\ gave[c] = decision[box]

BoxInv == FreshBoxes /\ OldBoxes /\ Witnessed

\* A batch that has not begun has no answer; without overlap there is one
\* batch in progress, and the current dict is that of its begin.
Alone ==
  "overlap" \notin env =>
    /\ \A c \in Calls : pc[c] = "new" => gave[c] = "none"
    /\ \A c \in Calls : Active(c) =>
         /\ \A d \in Calls : Active(d) => c = d
         /\ box = <<c, "begin">>
         /\ gave[c] = decision[box]
         /\ pc[c] = "asked" => asking[c] = box

\* What a step between a batch's begin and its end does to the dicts and the
\* answers, if the client says nothing for the remaining items.
Quiet(c) ==
  /\ Active(c) /\ Active(c)'
  /\ \A d \in Calls \ {c} : pc'[d] = pc[d] /\ asking'[d] = asking[d]
  /\ pc'[c] = "asked" => asking'[c] = box /\ decision[box] = "none"
  /\ UNCHANGED <<env, box, gave, decision>>

LEMMA InnerSteps ==
  ASSUME TypeInv, NEW c \in Calls,
         \/ Look(c) \/ ItemFails(c) \/ ByDecision(c) \/ Ask(c) \/ AutoAllow(c)
         \/ Write(c) \/ Finish(c)
  PROVE  Quiet(c)
<1> USE DEF TypeInv, TypeOK, Quiet, Active, Goto, NextItem
<1>1. CASE Look(c)
  BY <1>1 DEF Look
<1>2. CASE ItemFails(c)
  BY <1>2 DEF ItemFails
<1>3. CASE ByDecision(c)
  BY <1>3 DEF ByDecision, Resolve
<1>4. CASE Ask(c)
  BY <1>4 DEF Ask
<1>5. CASE AutoAllow(c)
  BY <1>5 DEF AutoAllow, Resolve
<1>6. CASE Write(c)
  BY <1>6 DEF Write
<1>7. CASE Finish(c)
  BY <1>7 DEF Finish
<1> QED
  BY <1>1, <1>2, <1>3, <1>4, <1>5, <1>6, <1>7

\* An answer is stored in the dict the question was started with.
LEMMA AnswerStep ==
  ASSUME TypeInv, NEW c \in Calls, NEW confirm \in BOOLEAN, NEW all \in BOOLEAN,
         Answer(c, confirm, all)
  PROVE  \/ Quiet(c)
         \/ \E w \in Decisions \ {"none"} :
              /\ pc[c] = "asked" /\ Active(c)' /\ pc'[c] # "asked"
              /\ \A d \in Calls \ {c} : pc'[d] = pc[d]
              /\ decision' = [decision EXCEPT ![asking[c]] = w]
              /\ gave' = [gave EXCEPT ![c] = w]
              /\ UNCHANGED <<env, box, asking>>
<1>1. /\ pc[c] = "asked" /\ Active(c)' /\ pc'[c] # "asked"
      /\ \A d \in Calls \ {c} : pc'[d] = pc[d]
      /\ UNCHANGED <<env, box, asking>>
  BY DEF Answer, Resolve, NextItem, Goto, Active, TypeInv, TypeOK
<1>2. CASE all
  <2>1. Word(confirm) \in Decisions \ {"none"}
    BY DEF Word, Decisions
  <2>2. decision' = [decision EXCEPT ![asking[c]] = Word(confirm)]
        /\ gave' = [gave EXCEPT ![c] = Word(confirm)]
    BY <1>2 DEF Answer, Store
  <2> QED
    BY <1>1, <2>1, <2>2
<1>3. CASE ~all
  <2>1. UNCHANGED <<decision, gave>>
    BY <1>3 DEF Answer
  <2> QED
    BY <1>1, <2>1 DEF Quiet, Active
<1> QED
  BY <1>2, <1>3

LEMMA StepBoxInv == TypeInv /\ BoxInv /\ [Next]_vars => BoxInv'
<1> SUFFICES ASSUME TypeInv, BoxInv, [Next]_vars PROVE BoxInv'
  OBVIOUS
<1> USE BatchAssumption DEF TypeInv, TypeOK, BoxInv, FreshBoxes, OldBoxes, Witnessed, Made, Boxes
<1>1. ASSUME NEW c \in Calls, Quiet(c) PROVE BoxInv'
  BY <1>1 DEF Quiet, Active
<1>2. ASSUME NEW c \in Calls, Begin(c) PROVE BoxInv'
  <2>1. decision[<<c, "begin">>] = "none"
    BY <1>2 DEF Begin
  <2> QED
    BY <1>2, <2>1 DEF Begin, Goto
<1>3. ASSUME NEW c \in Calls, End(c) PROVE BoxInv'
  <2>1. decision[<<c, "end">>] = "none"
    BY <1>3 DEF End
  <2> QED
    BY <1>3, <2>1 DEF End, Goto
<1>4. ASSUME NEW c \in Calls, NEW w \in Decisions \ {"none"},
             pc[c] = "asked", Active(c)', pc'[c] # "asked",
             \A d \in Calls \ {c} : pc'[d] = pc[d],
             decision' = [decision EXCEPT ![asking[c]] = w],
             gave' = [gave EXCEPT ![c] = w],
             UNCHANGED <<env, box, asking>>
      PROVE  BoxInv'
  <2>1. Made(asking[c]) /\ \A b \in Boxes : Made(b) <=> Made(b)'
    BY <1>4 DEF Active
  <2>2. FreshBoxes'
    BY <1>4, <2>1
  <2>3. OldBoxes'
    BY <1>4, <2>1
  <2>4. Witnessed'
    <3>1. CASE asking[c] = box
      BY <1>4, <3>1
    <3>2. CASE asking[c] # box
      BY <1>4, <3>2 DEF Active
    <3> QED
      BY <3>1, <3>2
  <2> QED
    BY <2>2, <2>3, <2>4
<1>5. ASSUME NEW s \in Symbols, Edit(s) PROVE BoxInv'
  BY <1>5 DEF Edit, batch, Active
<1>6. CASE UNCHANGED vars
  BY <1>6 DEF vars, batch, Active
<1> HIDE DEF TypeInv, TypeOK, BoxInv, FreshBoxes, OldBoxes, Witnessed, Made, Boxes
<1>7. ASSUME NEW c \in Calls, CallStep(c) PROVE BoxInv'
  <2>1. ASSUME NEW confirm \in BOOLEAN, NEW all \in BOOLEAN, Answer(c, confirm, all)
        PROVE  BoxInv'
    BY <2>1, <1>1, <1>4, AnswerStep
  <2>2. Quiet(c) \/ Begin(c) \/ End(c) \/ \E confirm, all \in BOOLEAN : Answer(c, confirm, all)
    BY <1>7, InnerSteps DEF CallStep
  <2> QED
    BY <2>1, <2>2, <1>1, <1>2, <1>3
<1> QED
  BY <1>5, <1>6, <1>7 DEF Next, CallStep

\* What decides items unasked was said by the client of a batch still in
\* progress, however many batches begin and end meanwhile.
THEOREM DecisionsEndWithTheirBatch == Spec => []DecisionsAreOfBatchesInProgress
<1>1. Init => TypeInv /\ BoxInv
  <2>1. Init => BoxInv
    BY BatchAssumption DEF Init, BoxInv, FreshBoxes, OldBoxes, Witnessed, Made, Boxes
  <2> QED
    BY <2>1, InitTypeInv
<1>2. TypeInv /\ BoxInv /\ [Next]_vars => (TypeInv /\ BoxInv)'
  BY StepTypeInv, StepBoxInv
<1>3. BoxInv => DecisionsAreOfBatchesInProgress
  BY DEF BoxInv, Witnessed, DecisionsAreOfBatchesInProgress
<1> QED
  BY <1>1, <1>2, <1>3, PTL DEF Spec

-----------------------------------------------------------------------------

LEMMA StepAlone == TypeInv /\ BoxInv /\ Alone /\ [Next]_vars => Alone'
<1> SUFFICES ASSUME TypeInv, BoxInv, Alone, [Next]_vars PROVE Alone'
  OBVIOUS
<1>0. env' = env
  BY DEF Next, Begin, Look, ItemFails, ByDecision, Ask, AutoAllow, Answer, Resolve,
         Write, Finish, End, Edit, vars, batch
<1> SUFFICES ASSUME "overlap" \notin env PROVE Alone'
  BY <1>0 DEF Alone
<1> USE DEF TypeInv, TypeOK, Alone
<1>1. ASSUME NEW c \in Calls, Quiet(c) PROVE Alone'
  <2>1. \A d \in Calls : Active(d)' <=> Active(d)
    BY <1>1 DEF Quiet, Active
  <2>2. \A d \in Calls : pc'[d] = "new" <=> pc[d] = "new"
    BY <1>1 DEF Quiet, Active
  <2>3. \A d \in Calls : Active(d) => d = c
    BY <1>1 DEF Quiet
  <2> QED
    BY <1>1, <2>1, <2>2, <2>3 DEF Quiet
<1>2. ASSUME NEW c \in Calls, Begin(c) PROVE Alone'
  <2>1. decision[<<c, "begin">>] = "none" /\ gave[c] = "none"
    BY <1>2, BatchAssumption DEF Begin, BoxInv, FreshBoxes, Made, Boxes
  <2>2. \A d \in Calls : Active(d)' => d = c
    BY <1>2 DEF Begin, Goto, Active
  <2> QED
    BY <1>2, <2>1, <2>2 DEF Begin, Goto
<1>3. ASSUME NEW c \in Calls, End(c) PROVE Alone'
  <2>1. \A d \in Calls : ~Active(d)'
    BY <1>3 DEF End, Goto, Active
  <2>2. \A d \in Calls : pc'[d] = "new" => pc[d] = "new"
    BY <1>3 DEF End, Goto
  <2> QED
    BY <1>3, <2>1, <2>2 DEF End
<1>4. ASSUME NEW c \in Calls, NEW w \in Decisions \ {"none"},
             pc[c] = "asked", Active(c)', pc'[c] # "asked",
             \A d \in Calls \ {c} : pc'[d] = pc[d],
             decision' = [decision EXCEPT ![asking[c]] = w],
             gave' = [gave EXCEPT ![c] = w],
             UNCHANGED <<env, box, asking>>
      PROVE  Alone'
  <2>1. Active(c) /\ asking[c] = box
    BY <1>4 DEF Active
  <2> QED
    BY <1>4, <2>1 DEF Active
<1>5. ASSUME NEW s \in Symbols, Edit(s) PROVE Alone'
  BY <1>5 DEF Edit, batch, Active
<1>6. CASE UNCHANGED vars
  BY <1>6 DEF vars, batch, Active
<1> HIDE DEF TypeInv, TypeOK, Alone
<1>7. ASSUME NEW c \in Calls, CallStep(c) PROVE Alone'
  <2>1. ASSUME NEW confirm \in BOOLEAN, NEW all \in BOOLEAN, Answer(c, confirm, all)
        PROVE  Alone'
    BY <2>1, <1>1, <1>4, AnswerStep
  <2>2. Quiet(c) \/ Begin(c) \/ End(c) \/ \E confirm, all \in BOOLEAN : Answer(c, confirm, all)
    BY <1>7, InnerSteps DEF CallStep
  <2> QED
    BY <2>1, <2>2, <1>1, <1>2, <1>3
<1> QED
  BY <1>5, <1>6, <1>7 DEF Next, CallStep

-----------------------------------------------------------------------------

\* While only batches rename, what a batch is about to write bears no name
\* of the user's, or the overwrite is settled.
WriteInv ==
  "edits" \notin env =>
    \A c \in Calls : pc[c] = "write" => Settled(c) \/ label[Item(c)] # "user"

LEMMA StepWriteInv == TypeInv /\ Alone /\ WriteInv /\ [Next]_vars => WriteInv'
<1> SUFFICES ASSUME TypeInv, Alone, WriteInv, [Next]_vars PROVE WriteInv'
  OBVIOUS
<1>0. env' = env
  BY DEF Next, Begin, Look, ItemFails, ByDecision, Ask, AutoAllow, Answer, Resolve,
         Write, Finish, End, Edit, vars, batch
<1> USE <1>0 DEF TypeInv, TypeOK, WriteInv, Item, Settled
<1>1. ASSUME NEW c \in Calls, CallStep(c) PROVE WriteInv'
  <2>1. CASE Begin(c)
    BY <2>1 DEF Begin, Goto
  <2>2. CASE Look(c)
    BY <2>2 DEF Look, Goto
  <2>3. CASE ItemFails(c)
    BY <2>3 DEF ItemFails, NextItem, Goto
  <2>4. CASE ByDecision(c)
    <3>1. "overlap" \notin env => gave[c] = decision[box]
      BY <2>4 DEF ByDecision, Alone, Active
    <3>2. CASE decision[box] = "confirm"
      <4>1. pc' = [pc EXCEPT ![c] = "write"] /\ UNCHANGED <<items, next, label>>
        BY <2>4, <3>2 DEF ByDecision, Resolve, Goto
      <4>2. consent' = [consent EXCEPT ![c] = IF gave[c] = "confirm" THEN "client" ELSE "other"]
        BY <2>4, <3>2 DEF ByDecision, Resolve
      <4> QED
        BY <3>1, <3>2, <4>1, <4>2
    <3>3. CASE decision[box] # "confirm"
      <4>1. pc' = [pc EXCEPT ![c] = "item"] /\ next' = [next EXCEPT ![c] = @ + 1]
            /\ consent' = [consent EXCEPT ![c] = "none"] /\ UNCHANGED <<items, label>>
        BY <2>4, <3>3 DEF ByDecision, Resolve, NextItem, Goto
      <4> QED
        BY <4>1
    <3> QED
      BY <3>2, <3>3
  <2>5. CASE Ask(c)
    BY <2>5 DEF Ask, Goto
  <2>6. CASE AutoAllow(c)
    BY <2>6 DEF AutoAllow, Resolve, NextItem, Goto
  <2>7. ASSUME NEW confirm \in BOOLEAN, NEW all \in BOOLEAN, Answer(c, confirm, all)
        PROVE  WriteInv'
    BY <2>7 DEF Answer, Resolve, NextItem, Goto
  <2>8. CASE Write(c)
    <3>1. \A s \in Symbols : label'[s] = label[s] \/ label'[s] # "user"
      BY <2>8, BatchAssumption DEF Write
    <3>2. ASSUME NEW d \in Calls, pc[d] = "write" PROVE items[d][next[d]] \in Symbols
      <4>1. items[d] \in ItemLists /\ next[d] \in 1..Len(items[d])
        BY <3>2 DEF InRange
      <4> QED
        BY <4>1, ItemListsAreShort
    <3> QED
      BY <2>8, <3>1, <3>2 DEF Write, NextItem, Goto
  <2>9. CASE Finish(c)
    BY <2>9 DEF Finish, Goto
  <2>10. CASE End(c)
    BY <2>10 DEF End, Goto
  <2> QED
    BY <1>1, <2>1, <2>2, <2>3, <2>4, <2>5, <2>6, <2>7, <2>8, <2>9, <2>10 DEF CallStep
<1>2. ASSUME NEW s \in Symbols, Edit(s) PROVE WriteInv'
  BY <1>2 DEF Edit, batch
<1>3. CASE UNCHANGED vars
  BY <1>3 DEF vars, batch
<1> QED
  BY <1>1, <1>2, <1>3 DEF Next, CallStep

\* The step that replaces a name of the user's is a write of a batch that had
\* it settled.
LEMMA StepOverwrites ==
  TypeInv /\ WriteInv /\ [Next]_vars =>
    ("edits" \notin env => \A s \in Symbols :
       label[s] = "user" /\ label'[s] # "user" =>
         \E c \in Calls : pc[c] = "write" /\ Item(c) = s /\ Settled(c))
<1> SUFFICES ASSUME TypeInv, WriteInv, [Next]_vars, "edits" \notin env,
                    NEW s \in Symbols, label[s] = "user", label'[s] # "user"
             PROVE  \E c \in Calls : pc[c] = "write" /\ Item(c) = s /\ Settled(c)
  OBVIOUS
<1>1. PICK c \in Calls : Write(c)
  BY DEF Next, Begin, Look, ItemFails, ByDecision, Ask, AutoAllow, Answer, Resolve,
         Finish, End, Edit, vars, batch
<1>2. Item(c) = s
  BY <1>1 DEF Write, TypeInv, TypeOK
<1>3. Settled(c)
  BY <1>1, <1>2 DEF Write, WriteInv
<1> QED
  BY <1>1, <1>2, <1>3 DEF Write

\* For every number of batches, symbols and items, and while nobody else names
\* symbols: no name of the user's is replaced unless the overwrite of that very
\* item was settled, by the batch's own client or where there was nobody to
\* ask; by another batch's client only if batches overlap.
THEOREM OverwritesSettled == Spec => OverwritesWereSettled
<1>1. Init => TypeInv /\ BoxInv /\ Alone /\ WriteInv
  <2>1. Init => BoxInv
    BY BatchAssumption DEF Init, BoxInv, FreshBoxes, OldBoxes, Witnessed, Made, Boxes
  <2>2. Init => Alone /\ WriteInv
    BY DEF Init, Alone, Active, WriteInv
  <2> QED
    BY <2>1, <2>2, InitTypeInv
<1>2. TypeInv /\ BoxInv /\ Alone /\ WriteInv /\ [Next]_vars
        => (TypeInv /\ BoxInv /\ Alone /\ WriteInv)'
  BY StepTypeInv, StepBoxInv, StepAlone, StepWriteInv
<1>3. TypeInv /\ WriteInv /\ [Next]_vars =>
        ["edits" \notin env => \A s \in Symbols :
           label[s] = "user" /\ label'[s] # "user" =>
             \E c \in Calls : pc[c] = "write" /\ Item(c) = s /\ Settled(c)]_vars
  BY StepOverwrites
<1> QED
  BY <1>1, <1>2, <1>3, PTL DEF Spec, OverwritesWereSettled

-----------------------------------------------------------------------------

\* The shared dict holds what the client of the batch in progress said.
BatchesFollowTheirOwnAnswer ==
  "overlap" \notin env =>
    \A c \in Calls : Active(c) => gave[c] = decision[box]

\* When batches do not overlap, each follows its own client's answer for the
\* remaining items, and no other.
THEOREM OwnAnswerOnly == Spec => []BatchesFollowTheirOwnAnswer
<1>1. Init => TypeInv /\ BoxInv /\ Alone
  <2>1. Init => BoxInv /\ Alone
    <3>1. ASSUME Init PROVE BoxInv
      BY <3>1, BatchAssumption DEF Init, BoxInv, FreshBoxes, OldBoxes, Witnessed, Made, Boxes
    <3>2. ASSUME Init PROVE Alone
      BY <3>2 DEF Init, Alone, Active
    <3> QED
      BY <3>1, <3>2
  <2> QED
    BY <2>1, InitTypeInv
<1>2. TypeInv /\ BoxInv /\ Alone /\ [Next]_vars => (TypeInv /\ BoxInv /\ Alone)'
  BY StepTypeInv, StepBoxInv, StepAlone
<1>3. Alone => BatchesFollowTheirOwnAnswer
  BY DEF Alone, BatchesFollowTheirOwnAnswer
<1> QED
  BY <1>1, <1>2, <1>3, PTL DEF Spec

-----------------------------------------------------------------------------
(***************************************************************************)
(* BatchRename implements BatchAnswers.                                    *)
(***************************************************************************)

\* Without overlap nothing has been decided for the rest of a batch while its
\* client is asked.
Undecided ==
  "overlap" \notin env => \A c \in Calls : pc[c] = "asked" => gave[c] = "none"

\* A batch that is ending has no item left.
NoneLeft == \A c \in Calls : pc[c] = "ending" => next[c] > Len(items[c])

LEMMA StepNoneLeft == TypeInv /\ NoneLeft /\ [Next]_vars => NoneLeft'
<1> SUFFICES ASSUME TypeInv, NoneLeft, [Next]_vars PROVE NoneLeft'
  OBVIOUS
<1> USE DEF TypeInv, TypeOK, NoneLeft
<1>1. ASSUME NEW c \in Calls, CallStep(c), ~Finish(c)
      PROVE  /\ items' = items /\ pc'[c] # "ending"
             /\ \A d \in Calls \ {c} : pc'[d] = pc[d] /\ next'[d] = next[d]
  BY <1>1 DEF CallStep, Begin, Look, ItemFails, ByDecision, Ask, AutoAllow, Answer, Resolve,
              Write, End, NextItem, Goto
<1>2. ASSUME NEW c \in Calls, Finish(c) PROVE NoneLeft'
  BY <1>2 DEF Finish, Goto
<1>3. ASSUME (\E s \in Symbols : Edit(s)) \/ UNCHANGED vars PROVE NoneLeft'
  BY <1>3 DEF Edit, vars, batch
<1> QED BY <1>1, <1>2, <1>3 DEF Next, CallStep

\* What a call does to the stages of all.
LEMMA StageSteps ==
  ASSUME TypeInv, NEW c \in Calls,
         NEW at \in {"new", "item", "confirm", "asked", "write", "ending", "done"},
         Goto(c, at)
  PROVE  /\ Stage(c)' = IF at = "asked" THEN "confirm" ELSE IF at = "ending" THEN "item" ELSE at
         /\ \A d \in Calls \ {c} : Stage(d)' = Stage(d)
BY DEF TypeInv, TypeOK, Goto, Stage

\* The same, for the two ways an item ends.
LEMMA StageMoves ==
  ASSUME TypeInv, NEW c \in Calls
  PROVE  /\ Goto(c, "item") => Own!Goto(c, "item")
         /\ Goto(c, "write") => Own!Goto(c, "write")
         /\ Goto(c, "confirm") => Own!Goto(c, "confirm")
         /\ Goto(c, "done") => Own!Goto(c, "done")
         /\ NextItem(c) => Own!NextItem(c)
<1>1. ASSUME NEW at \in {"item", "confirm", "write", "done"}, Goto(c, at)
      PROVE  Own!Goto(c, at)
  BY <1>1, StageSteps DEF Own!Goto
<1> QED BY <1>1 DEF NextItem, Own!NextItem

\* An item that is resolved is decided by the batch's own answer, which may
\* have been given just now.
LEMMA ResolveDecides ==
  ASSUME TypeInv, NEW c \in Calls, NEW yes \in BOOLEAN, NEW by, Resolve(c, yes, by),
         pc[c] \in {"confirm", "asked"},
         gave[c] \in {"none", Word(yes)},
         gave' \in {gave, [gave EXCEPT ![c] = Word(yes)]}
  PROVE  Own!Decide(c, yes)
<1>1. Stage(c) = "confirm"
  BY DEF Stage
<1>2. UNCHANGED <<items, label>>
  BY DEF Resolve
<1>3. IF yes THEN Own!Goto(c, "write") /\ UNCHANGED next ELSE Own!NextItem(c)
  BY StageMoves DEF Resolve
<1> QED BY <1>1, <1>2, <1>3 DEF Own!Decide, Word

LEMMA StepUndecided ==
  TypeInv /\ Alone /\ Undecided /\ [Next]_vars => Undecided'
<1> SUFFICES ASSUME TypeInv, Alone, Undecided, [Next]_vars, "overlap" \notin env' PROVE Undecided'
  BY DEF Undecided
<1>0. env' = env
  BY DEF Next, Begin, Look, ItemFails, ByDecision, Ask, AutoAllow, Answer, Resolve,
         Write, Finish, End, Edit, vars, batch
<1> USE <1>0 DEF TypeInv, TypeOK, Undecided
<1>1. ASSUME NEW c \in Calls, Quiet(c) PROVE Undecided'
  BY <1>1 DEF Quiet, Alone
<1>2. ASSUME NEW c \in Calls, Begin(c) \/ End(c) PROVE Undecided'
  BY <1>2 DEF Begin, End, Goto
<1>3. ASSUME NEW c \in Calls, NEW w \in Decisions \ {"none"},
             pc'[c] # "asked", \A d \in Calls \ {c} : pc'[d] = pc[d],
             gave' = [gave EXCEPT ![c] = w]
      PROVE  Undecided'
  BY <1>3
<1>4. ASSUME (\E s \in Symbols : Edit(s)) \/ UNCHANGED vars PROVE Undecided'
  BY <1>4 DEF Edit, vars, batch
<1> HIDE DEF TypeInv, TypeOK, Undecided
<1>5. ASSUME NEW c \in Calls, CallStep(c) PROVE Undecided'
  <2>1. ASSUME NEW confirm \in BOOLEAN, NEW all \in BOOLEAN, Answer(c, confirm, all)
        PROVE  Undecided'
    BY <2>1, <1>1, <1>3, AnswerStep
  <2>2. Quiet(c) \/ Begin(c) \/ End(c) \/ \E confirm, all \in BOOLEAN : Answer(c, confirm, all)
    BY <1>5, InnerSteps DEF CallStep
  <2> QED BY <2>1, <2>2, <1>1, <1>2
<1> QED BY <1>4, <1>5 DEF Next, CallStep

\* Without overlap every step is one of a batch with its own answer, or
\* changes nothing that such batches know of.
LEMMA StepsOfOwn ==
  ASSUME TypeInv, Alone, Undecided, NoneLeft, [Next]_vars, "overlap" \notin env
  PROVE  [Own!Next]_Own!vars
<1> DEFINE Same == UNCHANGED <<items, next, gave, label>> /\ \A c \in Calls : Stage(c)' = Stage(c)
<1>1. Same => UNCHANGED Own!vars
  BY DEF Own!vars
<1>2. ASSUME NEW c \in Calls, CallStep(c)
      PROVE  \/ Own!Begin(c) \/ Own!Look(c) \/ Own!Fail(c) \/ Own!Write(c) \/ Own!End(c)
             \/ \E yes \in BOOLEAN : Own!Decide(c, yes)
             \/ Same
  <2>1. CASE Begin(c)
    BY <2>1, StageMoves DEF Begin, Own!Begin, Stage
  <2>2. CASE Look(c)
    <3>1. /\ Stage(c) = "item" /\ next[c] <= Len(items[c])
          /\ UNCHANGED <<items, next, gave, label>>
      BY <2>2 DEF Look, Stage
    <3>2. Own!Goto(c, IF label[Item(c)] = "user" THEN "confirm" ELSE "write")
      <4>1. CASE label[Item(c)] = "user"
        BY <2>2, <4>1, StageMoves DEF Look
      <4>2. CASE label[Item(c)] # "user"
        BY <2>2, <4>2, StageMoves DEF Look
      <4> QED BY <4>1, <4>2
    <3>3. Own!Item(c) = Item(c)
      BY DEF Own!Item, Item
    <3> QED BY <3>1, <3>2, <3>3 DEF Own!Look
  <2>3. CASE ItemFails(c)
    BY <2>3, StageMoves DEF ItemFails, Own!Fail, Stage
  <2>4. CASE ByDecision(c)
    <3>1. gave[c] = decision[box] /\ decision[box] \in {"confirm", "skip"}
      BY <2>4 DEF ByDecision, Alone, Active, TypeInv, TypeOK, Decisions
    <3>2. gave[c] = Word(decision[box] = "confirm")
      BY <3>1 DEF Word
    <3>3. Own!Decide(c, decision[box] = "confirm")
      BY <2>4, <3>2, ResolveDecides DEF ByDecision
    <3> QED BY <3>3
  <2>5. CASE Ask(c)
    <3>1. Goto(c, "asked") /\ pc[c] = "confirm" /\ UNCHANGED <<items, next, gave, label>>
      BY <2>5 DEF Ask
    <3>2. Same
      BY <3>1, StageSteps DEF Stage
    <3> QED BY <3>2
  <2>6. CASE AutoAllow(c)
    <3>1. gave[c] = "none"
      BY <2>6 DEF AutoAllow, Alone, Active, Undecided
    <3>2. Own!Decide(c, TRUE)
      BY <2>6, <3>1, ResolveDecides DEF AutoAllow
    <3> QED BY <3>2
  <2>7. ASSUME NEW confirm \in BOOLEAN, NEW all \in BOOLEAN, Answer(c, confirm, all)
        PROVE  \E yes \in BOOLEAN : Own!Decide(c, yes)
    <3>1. gave[c] = "none"
      BY <2>7 DEF Answer, Undecided
    <3>2. gave' \in {gave, [gave EXCEPT ![c] = Word(confirm)]}
      BY <2>7 DEF Answer
    <3>3. Own!Decide(c, confirm)
      BY <2>7, <3>1, <3>2, ResolveDecides DEF Answer
    <3> QED BY <3>3
  <2>8. CASE Write(c)
    BY <2>8, StageMoves DEF Write, Own!Write, Stage, Item, Own!Item
  <2>9. CASE Finish(c)
    <3>1. Goto(c, "ending") /\ pc[c] = "item" /\ UNCHANGED <<items, next, gave, label>>
      BY <2>9 DEF Finish
    <3>2. Same
      BY <3>1, StageSteps DEF Stage
    <3> QED BY <3>2
  <2>10. CASE End(c)
    BY <2>10, StageMoves DEF End, Own!End, Stage, NoneLeft
  <2> HIDE DEF Same
  <2>11. \/ Begin(c) \/ Look(c) \/ ItemFails(c) \/ ByDecision(c) \/ Ask(c) \/ AutoAllow(c)
         \/ \E confirm, all \in BOOLEAN : Answer(c, confirm, all)
         \/ Write(c) \/ Finish(c) \/ End(c)
    BY <1>2 DEF CallStep
  <2>12. CASE \E confirm, all \in BOOLEAN : Answer(c, confirm, all)
    BY <2>7, <2>12
  <2> QED
    BY <2>1, <2>2, <2>3, <2>4, <2>5, <2>6, <2>8, <2>9, <2>10, <2>11, <2>12
<1>3. ASSUME NEW s \in Symbols, Edit(s) PROVE Own!Edit(s)
  BY <1>3 DEF Edit, Own!Edit, Stage, batch
<1>4. ASSUME UNCHANGED vars PROVE Same
  BY <1>4 DEF vars, batch, Stage
<1> HIDE DEF Same
<1> QED BY <1>1, <1>2, <1>3, <1>4 DEF Next, CallStep, Own!Next

\* Batches that do not overlap have each an answer of its own, though all
\* share one dict and a question is on its way while others act: BatchRename
\* implements BatchAnswers, for any number of batches, symbols and items.
THEOREM OwnAnswers == Spec => BatchesHaveTheirOwnAnswer
<1>1. Init => TypeInv /\ BoxInv /\ Alone /\ Undecided /\ NoneLeft /\ Own!Init
  <2>1. ASSUME Init PROVE BoxInv
    BY <2>1, BatchAssumption DEF Init, BoxInv, FreshBoxes, OldBoxes, Witnessed, Made, Boxes
  <2>2. ASSUME Init PROVE Alone /\ Undecided /\ NoneLeft
    BY <2>2 DEF Init, Alone, Undecided, NoneLeft, Active
  <2>3. ASSUME Init PROVE Own!Init
    BY <2>3 DEF Init, Own!Init, Stage
  <2> QED BY <2>1, <2>2, <2>3, InitTypeInv
<1>2. TypeInv /\ BoxInv /\ Alone /\ Undecided /\ NoneLeft /\ [Next]_vars
        => (TypeInv /\ BoxInv /\ Alone /\ Undecided /\ NoneLeft)'
  BY StepTypeInv, StepBoxInv, StepAlone, StepUndecided, StepNoneLeft
<1>3. TypeInv /\ Alone /\ Undecided /\ NoneLeft /\ [Next]_vars
        => [("overlap" \notin env) => Own!Next]_Own!vars
  BY StepsOfOwn
<1> QED
  BY <1>1, <1>2, <1>3, PTL DEF Spec, BatchesHaveTheirOwnAnswer

-----------------------------------------------------------------------------
(***************************************************************************)
(* The two halves: what holds of either holds of them side by side.  What  *)
(* the writing half does is an instance of WriteTools, and WP names the    *)
(* theorems of WriteToolsProofs about this instance.                       *)
(***************************************************************************)

WP == INSTANCE WriteToolsProofs WITH env <- wEnv, items <- wItems, pc <- wPc

LEMMA QuestionsHalf == HalfSpec => Spec
<1>1. HalfInit => Init
  BY DEF HalfInit
<1>2. [HalfNext]_halfVars => [Next]_vars
  BY DEF HalfNext, halfVars
<1> QED
  BY <1>1, <1>2, PTL DEF HalfSpec, Spec

\* The two names stand for the same tools, step by step.
LEMMA SameTools ==
  /\ W!Init <=> WP!Init
  /\ W!Next <=> WP!Next
  /\ UNCHANGED W!vars <=> UNCHANGED WP!vars
<1> USE DEF W!Find, W!Decompile, W!Consult, W!Look, W!Validate, W!ResolveType, W!Rename, W!UpdateVars,
           W!DisasmComment, W!DecompilerComment, W!FunctionComment, W!BothComments,
           W!SetPrototype, W!Patch, W!CreateStruct, W!AddField, W!Recipe, W!Tools,
           W!Fields, W!MayBeIdle, W!Escapes, W!position, W!call, W!reports, W!ghidra,
           W!vars, W!Original, W!Places, W!ItemLists,
           WP!Find, WP!Decompile, WP!Consult, WP!Look, WP!Validate, WP!ResolveType, WP!Rename,
           WP!UpdateVars, WP!DisasmComment, WP!DecompilerComment, WP!FunctionComment,
           WP!BothComments, WP!SetPrototype, WP!Patch, WP!CreateStruct, WP!AddField,
           WP!Recipe, WP!Tools, WP!Fields, WP!MayBeIdle, WP!Escapes, WP!position, WP!call,
           WP!reports, WP!ghidra, WP!vars, WP!Original, WP!Places, WP!ItemLists
<1>1. W!Init <=> WP!Init
  BY DEF W!Init, WP!Init
<1>2. W!Next <=> WP!Next
  BY DEF W!Enter, W!Leave, W!InProgress, W!MayStart, W!Decompiled, W!Prepare,
         W!NotPrepared, W!OpenTransaction, W!AtItem, W!Item, W!Target, W!Steps, W!At,
         W!Place, W!Proceed, W!TakeObject, W!LookOn, W!Read, W!Written, W!Write,
         W!WriteNothing, W!ItemFails, W!CallRaises, W!EndTransaction, W!BeginTrans,
         W!EndTrans, W!Switch, W!Next,
         WP!Enter, WP!Leave, WP!InProgress, WP!MayStart, WP!Decompiled, WP!Prepare,
         WP!NotPrepared, WP!OpenTransaction, WP!AtItem, WP!Item, WP!Target, WP!Steps,
         WP!At, WP!Place, WP!Proceed, WP!TakeObject, WP!LookOn, WP!Read, WP!Written,
         WP!Write, WP!WriteNothing, WP!ItemFails, WP!CallRaises, WP!EndTransaction,
         WP!BeginTrans, WP!EndTrans, WP!Switch, WP!Next
<1>3. UNCHANGED W!vars <=> UNCHANGED WP!vars
  OBVIOUS
<1> QED
  BY ONLY <1>1, <1>2, <1>3

LEMMA WritingHalf == HalfSpec => WP!Spec
<1>1. HalfInit => WP!Init
  BY SameTools DEF HalfInit
<1>2. [HalfNext]_halfVars => [WP!Next]_WP!vars
  <2> SUFFICES ASSUME [HalfNext]_halfVars PROVE W!Next \/ UNCHANGED W!vars
    BY SameTools
  <2> QED
    BY DEF HalfNext, halfVars, wVars, W!vars, W!call, W!position, W!reports, W!ghidra
<1> QED
  BY <1>1, <1>2, PTL DEF HalfSpec, WP!Spec

LEMMA WritingDistinct == WP!Distinct
BY WritesAssumption DEF WP!Distinct

\* What is reported as failed has changed nothing but what its tool changes
\* before the step that failed: a prototype's comment, the first of two
\* comments, and the listing a patch clears and the bytes it writes (the items'
\* try in tools/modify.py and tools/types.py).
THEOREM FailedAreLeftovers == HalfSpec => []FailuresLeaveLittle
<1>1. WP!Spec => []WP!TypeOK
  BY WritingDistinct, WP!TypeCorrect
<1>2. WP!Spec => []WP!FailuresLeaveLittle
  BY WritingDistinct, WP!FailedLeaveLittle
<1>3. WP!TypeOK /\ WP!FailuresLeaveLittle => FailuresLeaveLittle
  BY DEF FailuresLeaveLittle, W!TypeOK, W!FailuresLeaveLittle, W!Marks, W!Contents, W!Leftovers, W!Find,
          W!Decompile, W!Consult, W!Look, W!Validate, W!ResolveType, W!Rename, W!UpdateVars,
          W!DisasmComment, W!DecompilerComment, W!FunctionComment, W!BothComments,
          W!SetPrototype, W!Patch, W!CreateStruct, W!AddField, W!Recipe, W!Tools,
          W!Fields, W!MayBeIdle, W!Escapes, W!position, W!call, W!reports, W!ghidra,
          W!vars, W!Original, W!Places, W!ItemLists,
          WP!TypeOK, WP!FailuresLeaveLittle, WP!Marks, WP!Contents, WP!Leftovers, WP!Find,
          WP!Decompile, WP!Consult, WP!Look, WP!Validate, WP!ResolveType, WP!Rename, WP!UpdateVars,
          WP!DisasmComment, WP!DecompilerComment, WP!FunctionComment, WP!BothComments,
          WP!SetPrototype, WP!Patch, WP!CreateStruct, WP!AddField, WP!Recipe, WP!Tools,
          WP!Fields, WP!MayBeIdle, WP!Escapes, WP!position, WP!call, WP!reports,
          WP!ghidra, WP!vars, WP!Original, WP!Places, WP!ItemLists
<1> QED
  BY <1>1, <1>2, <1>3, WritingHalf, PTL

\* A call writes to the program it began with, though the user shows another
\* one meanwhile and the cache of decompiled functions is keyed by offset
\* alone (create_transaction, get_decompiled_func).
THEOREM CallsStayHome == HalfSpec => []StaysInItsProgram
<1>1. WP!Spec => []WP!StaysInItsProgram
  BY WritingDistinct, WP!WritesStayHome
<1>2. WP!StaysInItsProgram => StaysInItsProgram
  BY DEF StaysInItsProgram, W!StaysInItsProgram, W!Places, W!Original, W!Fields,
          WP!StaysInItsProgram, WP!Places, WP!Original, WP!Fields
<1> QED
  BY <1>1, <1>2, WritingHalf, PTL

\* A step takes nothing back that was reported as written, unless the place
\* is written anew or a client ends a transaction of its own (the with
\* statement every tool opens around all of its items).
THEOREM ReportsAreKept == HalfSpec => ReportedIsKept
<1>1. WP!Spec => WP!ReportedIsKept
  BY WritingDistinct, WP!ReportedStay
<1>2. [WP!KeepsReported]_WP!vars => [W!KeepsReported]_W!vars
  BY DEF W!KeepsReported, W!Replaces, W!AtItem, W!At, W!Place, W!Target, W!Steps, W!Find,
          W!Decompile, W!Consult, W!Look, W!Validate, W!ResolveType, W!Rename, W!UpdateVars,
          W!DisasmComment, W!DecompilerComment, W!FunctionComment, W!BothComments,
          W!SetPrototype, W!Patch, W!CreateStruct, W!AddField, W!Recipe, W!Tools,
          W!Fields, W!MayBeIdle, W!Escapes, W!position, W!call, W!reports, W!ghidra,
          W!vars, W!Original, W!Places, W!ItemLists,
          WP!KeepsReported, WP!Replaces, WP!AtItem, WP!At, WP!Place, WP!Target, WP!Steps,
          WP!Find, WP!Decompile, WP!Consult, WP!Look, WP!Validate, WP!ResolveType, WP!Rename,
          WP!UpdateVars, WP!DisasmComment, WP!DecompilerComment, WP!FunctionComment,
          WP!BothComments, WP!SetPrototype, WP!Patch, WP!CreateStruct, WP!AddField,
          WP!Recipe, WP!Tools, WP!Fields, WP!MayBeIdle, WP!Escapes, WP!position, WP!call,
          WP!reports, WP!ghidra, WP!vars, WP!Original, WP!Places, WP!ItemLists
<1> QED
  BY <1>1, <1>2, WritingHalf, PTL DEF ReportedIsKept, W!ReportedIsKept, WP!ReportedIsKept
=============================================================================
