-------------------------- MODULE WriteToolsProofs --------------------------
(***************************************************************************)
(* Theorems about WriteTools, for any calls, targets and programs.         *)
(*                                                                         *)
(* RecipeSteps says all that is used of the recipes.  FailureInv follows   *)
(* what an item has written up to its step: nothing but leftovers before   *)
(* its last one.  AloneInv, for calls that do not overlap, ties the        *)
(* transactions open in Ghidra to the call that is at its items, what a    *)
(* call adds to to what it read, and what a roll-back would take back to   *)
(* that call's own marks; HomeInv adds that marks stay where they belong.  *)
(***************************************************************************)
EXTENDS WriteTools, TLAPS

\* Invocations, programs and the values that stand for none are distinct.
Distinct ==
  /\ NoCall \notin Calls /\ Calls \cap Manual = {}
  /\ Nowhere \notin Programs
  /\ MaxItems \in Nat \ {0}

\* What a tool reads in order to add to it.
ReadField(t) == IF t = "set_prototype" THEN "plate" ELSE "struct"

-----------------------------------------------------------------------------
\* Of each step of a recipe: which place it is about; that a step whose
\* writing a failure must not leave behind is the last; that what is added
\* to was read in the step before.
GoodStep(t, k) ==
  LET op == Recipe[t][k] IN
  /\ op[1] \in {"find", "decompile", "consult", "look", "read", "set", "add", "clear"}
  /\ op[1] \in {"read", "set", "add", "clear"} => op[2] \in Fields
  /\ op[1] \in {"set", "add", "clear"} /\ op[2] \notin Leftovers[t] => k = Len(Recipe[t])
  /\ op[1] \in {"read", "add"} => op[2] = ReadField(t)
  /\ op[1] = "add" => k # 1 /\ Recipe[t][k - 1] = <<"read", op[2]>>

LEMMA RecipeSteps ==
  ASSUME NEW t \in Tools
  PROVE  /\ Len(Recipe[t]) \in Nat \ {0}
         /\ \A k \in 1..Len(Recipe[t]) : GoodStep(t, k)
<1> USE DEF GoodStep, ReadField, Leftovers, Tools, Fields, Look, Find, Decompile, Consult, Validate, ResolveType
<1>1. CASE t = "rename"
  <2>1. Recipe[t] = <<Find, Look, <<"set", "name">>>>
    BY <1>1 DEF Recipe, Rename
  <2> QED  BY <1>1, <2>1
<1>2. CASE t = "update_vars"
  <2>1. Recipe[t] = <<Look, <<"set", "vars">>>>
    BY <1>2 DEF Recipe, UpdateVars
  <2> QED  BY <1>2, <2>1
<1>3. CASE t = "disasm"
  <2>1. Recipe[t] = <<Look, Find, <<"set", "eol">>>>
    BY <1>3 DEF Recipe, DisasmComment
  <2> QED  BY <1>3, <2>1
<1>4. CASE t = "decompiler"
  <2>1. Recipe[t] = <<Look, Find, Decompile, <<"set", "pre">>>>
    BY <1>4 DEF Recipe, DecompilerComment
  <2> QED  BY <1>4, <2>1
<1>5. CASE t = "function"
  <2>1. Recipe[t] = <<Look, Find, <<"set", "plate">>>>
    BY <1>5 DEF Recipe, FunctionComment
  <2> QED  BY <1>5, <2>1
<1>6. CASE t = "both"
  <2>1. Recipe[t] = <<Look, Find, <<"set", "eol">>, Find, Decompile, <<"set", "pre">>>>
    BY <1>6 DEF Recipe, BothComments
  <2> QED  BY <1>6, <2>1
<1>7. CASE t = "set_prototype"
  <2>1. Recipe[t] = <<Find, Consult, <<"read", "plate">>, <<"add", "plate">>, Look, Find, <<"set", "signature">>>>
    BY <1>7 DEF Recipe, SetPrototype
  <2> QED  BY <1>7, <2>1
<1>8. CASE t = "patch"
  <2>1. Recipe[t] = <<Find, <<"clear", "code">>, <<"set", "bytes">>, <<"set", "code">>>>
    BY <1>8 DEF Recipe, Patch
  <2> QED  BY <1>8, <2>1
<1>9. CASE t = "create_struct"
  <2>1. Recipe[t] = <<<<"set", "struct">>>>
    BY <1>9 DEF Recipe, CreateStruct
  <2> QED  BY <1>9, <2>1
<1>10. CASE t = "add_field"
  <2>1. Recipe[t] = <<Look, <<"read", "struct">>, <<"add", "struct">>>>
    BY <1>10 DEF Recipe, AddField
  <2> QED  BY <1>10, <2>1
<1>11. Tools = {"rename", "update_vars", "disasm", "decompiler", "function", "both", "set_prototype", "patch", "create_struct", "add_field"}
  BY DEF Recipe
<1> HIDE DEF GoodStep, Tools
<1> QED
  BY <1>1, <1>2, <1>3, <1>4, <1>5, <1>6, <1>7, <1>8, <1>9, <1>10, <1>11

-----------------------------------------------------------------------------
(* Types.                                                                  *)

\* A call stays within its items and its recipe, and once it has begun holds
\* something of a program.
Extent ==
  \A c \in Calls :
    /\ Len(items[c]) \in 1..MaxItems
    /\ step[c] \in 1..Len(Steps(c))
    /\ pc[c] \in {"open", "items"} => where[c] \in Programs
    /\ pc[c] = "items" => on[c] \in Programs
    /\ pc[c] \in {"new", "open"} => step[c] = 1

TypeInv == TypeOK /\ Extent

LEMMA ListsOfItems ==
  ASSUME NEW t \in Tools, NEW l \in ItemLists(t), MaxItems \in Nat \ {0}
  PROVE  l \in Seq(Targets) /\ Len(l) \in 1..MaxItems
<1>1. PICK n \in 1..(IF t = "create_struct" THEN 1 ELSE MaxItems) : l \in [1..n -> Targets]
  BY DEF ItemLists
<1>2. n \in 1..MaxItems
  OBVIOUS
<1> QED
  BY <1>1, <1>2

LEMMA TypeInit == ASSUME Distinct PROVE Init => TypeInv
<1> SUFFICES ASSUME Init PROVE TypeInv
  OBVIOUS
<1>1. \A c \in Calls : items[c] \in Seq(Targets) /\ Len(items[c]) \in 1..MaxItems
  BY ListsOfItems DEF Init, Distinct
<1>2. items \in [Calls -> Seq(Targets)]
  BY <1>1 DEF Init
<1>3. content \in [Programs -> Contents] /\ before = content
  BY DEF Init, Contents
<1>4. \A c \in Calls : step[c] \in 1..Len(Steps(c))
  <2> SUFFICES ASSUME NEW c \in Calls PROVE step[c] \in 1..Len(Steps(c))
    OBVIOUS
  <2>1. step[c] = 1 /\ tool[c] \in Tools
    BY DEF Init
  <2>2. Len(Steps(c)) \in Nat \ {0}
    BY <2>1, RecipeSteps DEF Steps
  <2> QED
    BY <2>1, <2>2
<1>5. Extent
  BY <1>1, <1>4 DEF Init, Extent
<1>6. TypeOK
  <2>1. env \subseteq {"overlap", "manual", "switch"} /\ current \in Programs
    BY DEF Init
  <2>2. cache \in [Targets -> Programs \cup {Nowhere}] /\ tool \in [Calls -> Tools]
    BY DEF Init
  <2>3. /\ pc \in [Calls -> {"new", "open", "items", "done"}]
        /\ nth \in [Calls -> Nat \ {0}] /\ step \in [Calls -> Nat \ {0}]
        /\ where \in [Calls -> Programs \cup {Nowhere}]
        /\ on \in [Calls -> Programs \cup {Nowhere}]
        /\ held \in [Calls -> SUBSET (Marks \cup {Original})]
        /\ raised \in [Calls -> BOOLEAN]
    BY DEF Init
  <2>4. /\ reported \subseteq Marks /\ failed \subseteq Marks
        /\ entries \in [Programs -> SUBSET (Calls \cup Manual)]
        /\ doomed \in [Programs -> BOOLEAN] /\ begun \subseteq Manual
    BY DEF Init
  <2> QED
    BY <1>2, <1>3, <2>1, <2>2, <2>3, <2>4 DEF TypeOK
<1> QED
  BY <1>5, <1>6 DEF TypeInv

GhidraTyped ==
  /\ entries \in [Programs -> SUBSET (Calls \cup Manual)]
  /\ doomed \in [Programs -> BOOLEAN]
  /\ before \in [Programs -> Contents]
  /\ content \in [Programs -> Contents]

LEMMA EnterTyped ==
  ASSUME GhidraTyped, NEW p \in Programs, NEW e \in Calls \cup Manual, Enter(p, e)
  PROVE  GhidraTyped'
BY DEF GhidraTyped, Enter

LEMMA LeaveTyped ==
  ASSUME GhidraTyped, NEW p \in Programs, NEW e \in Calls \cup Manual,
         NEW commit \in BOOLEAN, Leave(p, e, commit)
  PROVE  GhidraTyped'
BY DEF GhidraTyped, Leave

\* The step that is next, and the item it belongs to.
LEMMA AtGood ==
  ASSUME Distinct, TypeInv, NEW c \in Calls, AtItem(c)
  PROVE  /\ Item(c) \in Marks /\ Target(c) \in Targets
         /\ GoodStep(tool[c], step[c])
         /\ Len(Steps(c)) \in Nat \ {0}
         /\ where[c] \in Programs /\ on[c] \in Programs
         /\ At(c)[1] \in {"read", "set", "add", "clear"} => Place(c) \in Places
<1>1. /\ Len(items[c]) \in 1..MaxItems /\ step[c] \in 1..Len(Steps(c))
      /\ pc[c] = "items" /\ nth[c] <= Len(items[c]) /\ nth[c] \in Nat \ {0}
      /\ items[c] \in Seq(Targets) /\ tool[c] \in Tools
      /\ where[c] \in Programs /\ on[c] \in Programs
  BY DEF TypeInv, TypeOK, Extent, AtItem
<1>2. Len(Steps(c)) \in Nat \ {0} /\ GoodStep(tool[c], step[c])
  BY <1>1, RecipeSteps DEF Steps
<1>3. nth[c] \in 1..Len(items[c]) /\ nth[c] \in 1..MaxItems
  BY <1>1 DEF Distinct
<1>4. Item(c) \in Marks /\ Target(c) \in Targets
  BY <1>1, <1>3 DEF Item, Marks, Target
<1>5. At(c)[1] \in {"read", "set", "add", "clear"} => Place(c) \in Places
  BY <1>2, <1>4 DEF GoodStep, At, Steps, Place, Places
<1> QED
  BY <1>1, <1>2, <1>4, <1>5

\* Where Proceed leads to.
LEMMA ProceedTyped ==
  ASSUME Distinct, TypeInv, NEW c \in Calls, AtItem(c), Proceed(c)
  PROVE  /\ step' \in [Calls -> Nat \ {0}] /\ nth' \in [Calls -> Nat \ {0}]
         /\ reported' \subseteq Marks
         /\ \A d \in Calls : step'[d] \in 1..Len(Steps(d)')
         /\ \A d \in Calls : pc'[d] \in {"new", "open"} => step'[d] = step[d]
<1>1. /\ Item(c) \in Marks /\ Len(Steps(c)) \in Nat \ {0}
  BY AtGood
<1>2. /\ step \in [Calls -> Nat \ {0}] /\ nth \in [Calls -> Nat \ {0}] /\ reported \subseteq Marks
      /\ \A d \in Calls : step[d] \in 1..Len(Steps(d))
  BY DEF TypeInv, TypeOK, Extent
<1>3. (\A d : Steps(d)' = Steps(d)) /\ pc' = pc /\ pc[c] = "items"
  BY DEF Proceed, Steps, AtItem
<1>4. CASE step[c] < Len(Steps(c))
  <2>1. step' = [step EXCEPT ![c] = @ + 1] /\ nth' = nth /\ reported' = reported
    BY <1>4 DEF Proceed
  <2>2. step[c] + 1 \in 1..Len(Steps(c))
    BY <1>1, <1>2, <1>4
  <2> QED
    BY <1>2, <1>3, <2>1, <2>2
<1>5. CASE ~(step[c] < Len(Steps(c)))
  <2>1. /\ step' = [step EXCEPT ![c] = 1] /\ nth' = [nth EXCEPT ![c] = @ + 1]
        /\ reported' = reported \cup {Item(c)}
    BY <1>5 DEF Proceed
  <2>2. 1 \in 1..Len(Steps(c))
    BY <1>1
  <2> QED
    BY <1>1, <1>2, <1>3, <2>1, <2>2
<1> QED
  BY <1>4, <1>5

\* A step into Ghidra that is done.
LEMMA ProceedInv ==
  ASSUME Distinct, TypeInv, NEW c \in Calls, AtItem(c), Proceed(c),
         NEW q \in Programs, where' \in {where, [where EXCEPT ![c] = q]},
         cache' \in [Targets -> Programs \cup {Nowhere}],
         held' \in [Calls -> SUBSET (Marks \cup {Original})], GhidraTyped'
  PROVE  TypeInv'
<1>1. /\ step' \in [Calls -> Nat \ {0}] /\ nth' \in [Calls -> Nat \ {0}]
      /\ reported' \subseteq Marks
      /\ \A d \in Calls : step'[d] \in 1..Len(Steps(d)')
      /\ \A d \in Calls : pc'[d] \in {"new", "open"} => step'[d] = step[d]
  BY ProceedTyped
<1>2. UNCHANGED <<env, current, tool, items, pc, raised, on, failed, begun>>
  BY DEF Proceed
<1>3. /\ where' \in [Calls -> Programs \cup {Nowhere}]
      /\ \A d \in Calls : where[d] \in Programs => where'[d] \in Programs
  <2>1. where \in [Calls -> Programs \cup {Nowhere}]
    BY DEF TypeInv, TypeOK
  <2>2. CASE where' = where
    BY <2>1, <2>2
  <2>3. CASE where' = [where EXCEPT ![c] = q]
    BY <2>1, <2>3
  <2> QED
    BY <2>2, <2>3
<1>4. TypeOK'
  BY <1>1, <1>2, <1>3 DEF TypeInv, TypeOK, GhidraTyped
<1>5. Extent'
  BY <1>1, <1>2, <1>3 DEF TypeInv, Extent
<1> QED
  BY <1>4, <1>5 DEF TypeInv

LEMMA CallTypes ==
  ASSUME Distinct, TypeInv, NEW c \in Calls,
         \/ Prepare(c) \/ NotPrepared(c) \/ OpenTransaction(c)
         \/ TakeObject(c) \/ LookOn(c) \/ Read(c) \/ Write(c) \/ WriteNothing(c)
         \/ ItemFails(c) \/ CallRaises(c) \/ EndTransaction(c)
  PROVE  TypeInv'
<1> USE DEF TypeInv
<1>0. GhidraTyped /\ current \in Programs
  BY DEF TypeOK, GhidraTyped
<1>1. CASE Prepare(c)
  <2>1. \A t \in Targets : Decompiled(t) \in Programs
    BY DEF TypeOK, Decompiled
  <2>2. items[c][1] \in Targets
    BY DEF TypeOK, Extent
  <2>3. /\ where' \in [Calls -> Programs \cup {Nowhere}] /\ where'[c] \in Programs
        /\ \A d \in Calls \ {c} : where'[d] = where[d]
        /\ cache' \in [Targets -> Programs \cup {Nowhere}]
    <3>1. /\ where \in [Calls -> Programs \cup {Nowhere}]
          /\ cache \in [Targets -> Programs \cup {Nowhere}]
          /\ Decompiled(items[c][1]) \in Programs
      BY <2>1, <2>2 DEF TypeOK
    <3>2. CASE tool[c] = "update_vars"
      <4>1. /\ where' = [where EXCEPT ![c] = Decompiled(items[c][1])]
            /\ cache' = [cache EXCEPT ![items[c][1]] = Decompiled(items[c][1])]
        BY <1>1, <3>2 DEF Prepare
      <4> QED
        BY <2>2, <3>1, <4>1
    <3>3. CASE tool[c] # "update_vars"
      <4>1. where' = [where EXCEPT ![c] = current] /\ cache' = cache
        BY <1>1, <3>3 DEF Prepare
      <4> QED
        BY <1>0, <3>1, <4>1
    <3> QED
      BY <3>2, <3>3
  <2>4. pc' = [pc EXCEPT ![c] = "open"] /\ pc \in [Calls -> {"new", "open", "items", "done"}]
    BY <1>1 DEF Prepare, TypeOK
  <2>5. TypeOK'
    BY <1>1, <2>3, <2>4 DEF TypeOK, Prepare, reports, ghidra
  <2>6. Extent'
    BY <1>1, <2>3, <2>4 DEF Extent, Prepare, Steps
  <2> QED
    BY <2>5, <2>6
<1>2. CASE NotPrepared(c)
  <2>1. {<<c, i>> : i \in 1..Len(items[c])} \subseteq Marks
    BY DEF Extent, Marks, Distinct
  <2>2. TypeOK'
    BY <1>2, <2>1 DEF TypeOK, NotPrepared, ghidra
  <2>3. Extent'
    BY <1>2 DEF TypeOK, Extent, NotPrepared, Steps
  <2> QED
    BY <2>2, <2>3
<1>3. CASE OpenTransaction(c)
  <2>1. GhidraTyped'
    BY <1>0, <1>3, EnterTyped DEF OpenTransaction
  <2>2. TypeOK'
    BY <1>0, <1>3, <2>1 DEF TypeOK, OpenTransaction, reports, GhidraTyped
  <2>3. Extent'
    BY <1>0, <1>3 DEF TypeOK, Extent, OpenTransaction, Steps
  <2> QED
    BY <2>2, <2>3
<1>4. CASE TakeObject(c)
  <2> DEFINE p == IF At(c) = Find THEN current ELSE Decompiled(Target(c))
  <2>1. Target(c) \in Targets /\ AtItem(c)
    BY <1>4, AtGood DEF TakeObject
  <2>2. p \in Programs
    BY <1>0, <2>1 DEF TypeOK, Decompiled
  <2>3. /\ where' \in {where, [where EXCEPT ![c] = p]}
        /\ cache' \in {cache, [cache EXCEPT ![Target(c)] = p]}
    BY <1>4 DEF TakeObject
  <2> HIDE DEF p
  <2>4. cache' \in [Targets -> Programs \cup {Nowhere}]
    BY <2>2, <2>3 DEF TypeOK
  <2>5. held' \in [Calls -> SUBSET (Marks \cup {Original})] /\ GhidraTyped'
    BY <1>0, <1>4 DEF TypeOK, TakeObject, ghidra, GhidraTyped
  <2> QED
    BY <1>4, <2>1, <2>2, <2>3, <2>4, <2>5, ProceedInv DEF TakeObject
<1>5. CASE LookOn(c) \/ WriteNothing(c)
  <2>1. AtItem(c) /\ Proceed(c) /\ UNCHANGED <<cache, where, held, ghidra>>
    BY <1>5 DEF LookOn, WriteNothing
  <2>2. /\ cache' \in [Targets -> Programs \cup {Nowhere}]
        /\ held' \in [Calls -> SUBSET (Marks \cup {Original})] /\ GhidraTyped'
    BY <1>0, <2>1 DEF TypeOK, GhidraTyped, ghidra
  <2> QED
    BY <1>0, <2>1, <2>2, ProceedInv
<1>6. CASE Read(c)
  <2>1. AtItem(c) /\ Proceed(c) /\ UNCHANGED <<cache, where, ghidra>>
    BY <1>6 DEF Read
  <2>2. where[c] \in Programs /\ Place(c) \in Places
    BY <1>6, <2>1, AtGood DEF Read
  <2>3. content[where[c]][Place(c)] \subseteq Marks \cup {Original}
    BY <1>0, <2>2 DEF GhidraTyped, Contents
  <2>4. held' \in [Calls -> SUBSET (Marks \cup {Original})]
    BY <1>6, <2>3 DEF Read, TypeOK
  <2>5. /\ cache' \in [Targets -> Programs \cup {Nowhere}] /\ GhidraTyped'
    BY <1>0, <2>1 DEF TypeOK, GhidraTyped, ghidra
  <2> QED
    BY <1>0, <2>1, <2>4, <2>5, ProceedInv
<1>7. CASE Write(c)
  <2>1. AtItem(c) /\ Proceed(c) /\ UNCHANGED <<cache, where, held, entries, doomed, before>>
    BY <1>7 DEF Write
  <2>2. where[c] \in Programs /\ Place(c) \in Places /\ Item(c) \in Marks
    BY <1>7, <2>1, AtGood DEF Write
  <2>3. Written(c) \subseteq Marks \cup {Original}
    BY <1>7, <2>2 DEF Written, Write, TypeOK
  <2>4. content' = [content EXCEPT ![where[c]][Place(c)] = Written(c)]
    BY <1>7 DEF Write
  <2>5. GhidraTyped'
    BY <1>0, <2>1, <2>2, <2>3, <2>4 DEF GhidraTyped, Contents
  <2>6. /\ cache' \in [Targets -> Programs \cup {Nowhere}]
        /\ held' \in [Calls -> SUBSET (Marks \cup {Original})]
    BY <2>1 DEF TypeOK
  <2> QED
    BY <1>0, <2>1, <2>5, <2>6, ProceedInv
<1>8. CASE ItemFails(c)
  <2>1. Item(c) \in Marks /\ Len(Steps(c)) \in Nat \ {0}
    BY <1>8, AtGood DEF ItemFails
  <2>2. TypeOK'
    BY <1>8, <2>1 DEF TypeOK, ItemFails, ghidra
  <2>3. Extent'
    BY <1>8, <2>1 DEF TypeOK, Extent, ItemFails, Steps
  <2> QED
    BY <2>2, <2>3
<1>9. CASE CallRaises(c)
  <2>1. TypeOK'
    BY <1>9 DEF TypeOK, CallRaises, ghidra, position
  <2>2. Extent'
    BY <1>9 DEF Extent, CallRaises, Steps, position
  <2> QED
    BY <2>1, <2>2
<1>10. CASE EndTransaction(c)
  <2>1. PICK commit \in BOOLEAN : Leave(on[c], c, commit)
    BY <1>10 DEF EndTransaction
  <2>2. on[c] \in Programs
    BY <1>10 DEF EndTransaction, Extent
  <2>3. GhidraTyped'
    BY <1>0, <2>1, <2>2, LeaveTyped
  <2>4. TypeOK'
    BY <1>10, <2>3 DEF TypeOK, EndTransaction, reports, GhidraTyped
  <2>5. Extent'
    BY <1>10 DEF TypeOK, Extent, EndTransaction, Steps
  <2> QED
    BY <2>4, <2>5
<1> QED
  BY <1>1, <1>2, <1>3, <1>4, <1>5, <1>6, <1>7, <1>8, <1>9, <1>10

LEMMA ClientTypes ==
  ASSUME Distinct, TypeInv,
         \/ \E m \in Manual : BeginTrans(m) \/ \E commit \in BOOLEAN : EndTrans(m, commit)
         \/ \E p \in Programs : Switch(p)
         \/ UNCHANGED vars
  PROVE  TypeInv'
<1> USE DEF TypeInv
<1>0. GhidraTyped /\ current \in Programs
  BY DEF TypeOK, GhidraTyped
<1>1. ASSUME NEW m \in Manual, BeginTrans(m) PROVE TypeInv'
  <2>1. GhidraTyped'
    BY <1>0, <1>1, EnterTyped DEF BeginTrans
  <2>2. TypeOK'
    BY <1>1, <2>1 DEF TypeOK, BeginTrans, GhidraTyped, call, position, reports
  <2>3. Extent'
    BY <1>1 DEF Extent, BeginTrans, Steps, call, position
  <2> QED
    BY <2>2, <2>3
<1>2. ASSUME NEW m \in Manual, NEW commit \in BOOLEAN, EndTrans(m, commit) PROVE TypeInv'
  <2>1. GhidraTyped'
    BY <1>0, <1>2, LeaveTyped DEF EndTrans
  <2>2. TypeOK'
    BY <1>2, <2>1 DEF TypeOK, EndTrans, GhidraTyped, call, position, reports
  <2>3. Extent'
    BY <1>2 DEF Extent, EndTrans, Steps, call, position
  <2> QED
    BY <2>2, <2>3
<1>3. CASE UNCHANGED <<env, cache, tool, items, call, reports, ghidra, begun>> /\ current' \in Programs
  BY <1>3 DEF TypeOK, Extent, Steps, call, position, reports, ghidra
<1> QED
  BY <1>0, <1>1, <1>2, <1>3 DEF Switch, vars

LEMMA TypeStep == ASSUME Distinct PROVE TypeInv /\ [Next]_vars => TypeInv'
BY CallTypes, ClientTypes DEF Next

\* Every variable of the writing tools keeps its type; no call goes beyond its
\* items, and what it is reported to have done are items of its own.
THEOREM TypeCorrect == ASSUME Distinct PROVE Spec => []TypeOK
<1>1. Init => TypeInv
  BY TypeInit
<1>2. TypeInv /\ [Next]_vars => TypeInv'
  BY TypeStep
<1>3. TypeInv => TypeOK
  BY DEF TypeInv
<1> QED
  BY <1>1, <1>2, <1>3, PTL DEF Spec

-----------------------------------------------------------------------------
(* What a failed item leaves behind.                                       *)

\* A mark that may be in field f: of a call that has begun, and either where
\* its tool may leave something or of an item that is past and has not failed.
Fine(r, f) ==
  r # Original =>
    /\ pc[r[1]] \in {"items", "done"}
    /\ f \in Leftovers[tool[r[1]]] \/ (r \notin failed /\ r[2] < nth[r[1]])

FailedArePast == \A r \in failed : pc[r[1]] = "done" \/ r[2] < nth[r[1]]

MarksAreFine ==
  /\ \A p \in Programs : \A x \in Places :
       \A r \in content[p][x] \cup before[p][x] : Fine(r, x[2])
  /\ \A c \in Calls : \A r \in held[c] : Fine(r, ReadField(tool[c]))

FailureInv == FailedArePast /\ MarksAreFine

LEMMA FailureInit == ASSUME Distinct PROVE Init => FailureInv
BY DEF Init, FailureInv, FailedArePast, MarksAreFine, Fine, Original, Places

\* Where calls are, what they invoke and what failed changes only in ways that
\* leave fine what was.
LEMMA Progress ==
  ASSUME Distinct, TypeInv, FailedArePast, [Next]_vars
  PROVE  /\ FailedArePast'
         /\ \A r \in Marks \cup {Original} : \A f : Fine(r, f) => Fine(r, f)'
         /\ tool' = tool
<1> USE DEF FailedArePast, Fine, Marks, Original
<1>1. ASSUME NEW c \in Calls, Prepare(c) \/ OpenTransaction(c) \/ EndTransaction(c)
      PROVE  /\ UNCHANGED <<failed, nth, tool>>
             /\ \E s \in {"open", "items", "done"} :
                  /\ pc' = [pc EXCEPT ![c] = s]
                  /\ pc[c] \in {"items", "done"} => s = "done"
                  /\ pc[c] # "done"
  BY <1>1 DEF Prepare, OpenTransaction, EndTransaction, reports
<1>2. ASSUME NEW c \in Calls, NotPrepared(c)
      PROVE  /\ UNCHANGED <<nth, tool>> /\ pc[c] = "new"
             /\ pc' = [pc EXCEPT ![c] = "done"]
             /\ failed' = failed \cup {<<c, i>> : i \in 1..Len(items[c])}
  BY <1>2 DEF NotPrepared
<1>3. ASSUME NEW c \in Calls, AtItem(c), Proceed(c)
      PROVE  /\ UNCHANGED <<failed, pc, tool>>
             /\ nth' \in {nth, [nth EXCEPT ![c] = @ + 1]}
  BY <1>3 DEF Proceed
<1>4. ASSUME NEW c \in Calls, ItemFails(c)
      PROVE  /\ UNCHANGED <<pc, tool>>
             /\ failed' = failed \cup {<<c, nth[c]>>}
             /\ nth' = [nth EXCEPT ![c] = @ + 1]
  BY <1>4 DEF ItemFails, Item
<1>5. ASSUME NEW c \in Calls, CallRaises(c)
      PROVE  /\ UNCHANGED <<pc, nth, tool>> /\ failed' \subseteq failed
  BY <1>5 DEF CallRaises, position
<1>6. ASSUME \/ \E m \in Manual : BeginTrans(m) \/ \E commit \in BOOLEAN : EndTrans(m, commit)
             \/ \E p \in Programs : Switch(p)
             \/ UNCHANGED vars
      PROVE  UNCHANGED <<failed, pc, nth, tool>>
  BY <1>6 DEF BeginTrans, EndTrans, Switch, vars, call, position, reports
<1>7. /\ pc \in [Calls -> {"new", "open", "items", "done"}] /\ nth \in [Calls -> Nat \ {0}]
      /\ failed \subseteq Marks
  BY DEF TypeInv, TypeOK
<1>8. \A c \in Calls :
        TakeObject(c) \/ LookOn(c) \/ Read(c) \/ Write(c) \/ WriteNothing(c) => AtItem(c) /\ Proceed(c)
  BY DEF TakeObject, LookOn, Read, Write, WriteNothing
<1>9. NoCall \notin Calls
  BY DEF Distinct
<1>10. CASE \E c \in Calls : Prepare(c) \/ OpenTransaction(c) \/ EndTransaction(c)
  BY <1>1, <1>7, <1>9, <1>10
<1>11. CASE \E c \in Calls : NotPrepared(c)
  BY <1>2, <1>7, <1>9, <1>11
<1>12. CASE \E c \in Calls : AtItem(c) /\ Proceed(c)
  BY <1>3, <1>7, <1>9, <1>12
<1>13. CASE \E c \in Calls : ItemFails(c)
  BY <1>4, <1>7, <1>9, <1>13
<1>14. CASE \E c \in Calls : CallRaises(c)
  BY <1>5, <1>7, <1>9, <1>14
<1>15. CASE UNCHANGED <<failed, pc, nth, tool>>
  BY <1>15
<1> QED
  BY <1>6, <1>8, <1>10, <1>11, <1>12, <1>13, <1>14, <1>15 DEF Next

\* What a write puts in its place.
LEMMA WrittenIsFine ==
  ASSUME Distinct, TypeInv, FailureInv, NEW c \in Calls, Write(c),
         NEW f, f = At(c)[2], NEW r \in Written(c)
  PROVE  Fine(r, f)'
<1>1. /\ AtItem(c) /\ Proceed(c)
      /\ At(c)[1] \in {"set", "add", "clear"} /\ GoodStep(tool[c], step[c])
      /\ Item(c) \in Marks
  BY AtGood DEF Write
<1>2. \A s \in Marks \cup {Original} : Fine(s, f) => Fine(s, f)'
  BY Progress DEF FailureInv, Next
<1>3. CASE r \in held[c] /\ At(c)[1] = "add"
  <2>1. f = ReadField(tool[c])
    BY <1>1, <1>3 DEF GoodStep, At, Steps
  <2>2. Fine(r, ReadField(tool[c])) /\ r \in Marks \cup {Original}
    BY <1>3 DEF FailureInv, MarksAreFine, TypeInv, TypeOK
  <2> QED
    BY <1>2, <2>1, <2>2
<1>4. CASE r = Item(c)
  <2>1. r[1] = c /\ r[2] = nth[c] /\ pc[c] = "items"
    BY <1>1, <1>4 DEF Item, AtItem
  <2>2. r \notin failed
    <3>1. nth[c] \in Nat
      BY DEF TypeInv, TypeOK
    <3> QED
      BY <2>1, <3>1 DEF FailureInv, FailedArePast
  <2>3. f \in Leftovers[tool[c]] \/ step[c] = Len(Steps(c))
    BY <1>1, <1>4 DEF GoodStep, At, Steps
  <2>4. /\ UNCHANGED <<failed, pc, tool>>
        /\ step[c] = Len(Steps(c)) => nth' = [nth EXCEPT ![c] = @ + 1]
    BY <1>1, AtGood DEF Proceed
  <2>5. nth \in [Calls -> Nat \ {0}]
    BY DEF TypeInv, TypeOK
  <2> QED
    BY <2>1, <2>2, <2>3, <2>4, <2>5 DEF Fine
<1> QED
  BY <1>1, <1>3, <1>4 DEF Written

\* Other steps than reading and writing change contents by a roll-back only.
LEMMA Changes ==
  ASSUME TypeInv, [Next]_vars
  PROVE  \/ /\ held' = held
            /\ \A p \in Programs : /\ before'[p] \in {before[p], content[p]}
                                  /\ content'[p] \in {content[p], before[p]}
         \/ \E c \in Calls : Read(c) \/ Write(c)
<1> DEFINE Same == held' = held /\ before' = before /\ content' = content
           RolledBack == \A p \in Programs : /\ before'[p] \in {before[p], content[p]}
                                             /\ content'[p] \in {content[p], before[p]}
<1>0. before \in [Programs -> Contents] /\ content \in [Programs -> Contents]
  BY DEF TypeInv, TypeOK
<1>1. ASSUME NEW p, NEW e, Enter(p, e) PROVE RolledBack
  BY <1>0, <1>1 DEF Enter
<1>2. ASSUME NEW p, NEW e, NEW commit, Leave(p, e, commit) PROVE RolledBack
  BY <1>0, <1>2 DEF Leave
<1>3. ASSUME NEW c \in Calls,
             Prepare(c) \/ NotPrepared(c) \/ TakeObject(c) \/ LookOn(c) \/ WriteNothing(c)
               \/ ItemFails(c) \/ CallRaises(c)
      PROVE  Same
  BY <1>3 DEF Prepare, NotPrepared, TakeObject, LookOn, WriteNothing, ItemFails, CallRaises, ghidra
<1>4. ASSUME NEW c \in Calls, OpenTransaction(c) PROVE held' = held /\ RolledBack
  BY <1>1, <1>4 DEF OpenTransaction
<1>5. ASSUME NEW c \in Calls, EndTransaction(c) PROVE held' = held /\ RolledBack
  BY <1>2, <1>5 DEF EndTransaction
<1>6. ASSUME NEW m \in Manual, BeginTrans(m) PROVE held' = held /\ RolledBack
  BY <1>1, <1>6 DEF BeginTrans, call
<1>7. ASSUME NEW m \in Manual, NEW commit \in BOOLEAN, EndTrans(m, commit) PROVE held' = held /\ RolledBack
  BY <1>2, <1>7 DEF EndTrans, call
<1>8. ASSUME (\E p \in Programs : Switch(p)) \/ UNCHANGED vars PROVE Same
  BY <1>8 DEF Switch, vars, call, ghidra
<1>9. Same => held' = held /\ RolledBack
  OBVIOUS
<1> HIDE DEF Same, RolledBack
<1>10. (held' = held /\ RolledBack) \/ \E c \in Calls : Read(c) \/ Write(c)
  BY <1>3, <1>4, <1>5, <1>6, <1>7, <1>8, <1>9 DEF Next
<1> QED
  BY <1>10 DEF RolledBack

LEMMA FailureStep == ASSUME Distinct PROVE TypeInv /\ FailureInv /\ [Next]_vars => FailureInv'
<1> SUFFICES ASSUME TypeInv, FailureInv, [Next]_vars PROVE FailureInv'
  OBVIOUS
<1>1. /\ FailedArePast' /\ tool' = tool
      /\ \A r \in Marks \cup {Original} : \A f : Fine(r, f) => Fine(r, f)'
  BY Progress DEF FailureInv
<1>2. /\ \A p \in Programs : \A x \in Places :
           content[p][x] \subseteq Marks \cup {Original} /\ before[p][x] \subseteq Marks \cup {Original}
      /\ \A c \in Calls : held[c] \subseteq Marks \cup {Original}
  BY DEF TypeInv, TypeOK, Contents
<1>3. ASSUME NEW p \in Programs, NEW x \in Places, NEW r \in content[p][x] \cup before[p][x],
             NEW f, f = x[2]
      PROVE  Fine(r, f)'
  BY <1>1, <1>2, <1>3 DEF FailureInv, MarksAreFine
<1>4. ASSUME NEW c \in Calls, NEW r \in held[c], NEW f, f = ReadField(tool[c])
      PROVE  Fine(r, f)'
  BY <1>1, <1>2, <1>4 DEF FailureInv, MarksAreFine
<1>5. CASE /\ held' = held
           /\ \A p \in Programs : /\ before'[p] \in {before[p], content[p]}
                                 /\ content'[p] \in {content[p], before[p]}
  <2>1. ASSUME NEW p \in Programs, NEW x \in Places, NEW r \in (content[p][x] \cup before[p][x])'
        PROVE  Fine(r, x[2])'
    BY <1>3, <1>5, <2>1
  <2>2. ASSUME NEW c \in Calls, NEW r \in held'[c]
        PROVE  Fine(r, ReadField(tool[c]))'
    BY <1>1, <1>4, <1>5, <2>2 DEF ReadField
  <2> QED
    BY <1>1, <2>1, <2>2 DEF FailureInv, MarksAreFine
<1>6. ASSUME NEW c \in Calls, Read(c) PROVE FailureInv'
  <2>1. /\ AtItem(c) /\ At(c)[1] = "read" /\ UNCHANGED ghidra
        /\ held' = [held EXCEPT ![c] = content[where[c]][Place(c)]]
    BY <1>6 DEF Read
  <2>2. where[c] \in Programs /\ Place(c) \in Places /\ GoodStep(tool[c], step[c])
    BY <2>1, AtGood
  <2>3. Place(c)[2] = ReadField(tool[c])
    BY <2>1, <2>2 DEF GoodStep, At, Steps, Place
  <2>4. ASSUME NEW d \in Calls, NEW r \in held'[d]
        PROVE  Fine(r, ReadField(tool[d]))'
    <3> DEFINE f == ReadField(tool[d])
    <3>1. f' = f
      BY <1>1 DEF ReadField
    <3>2. CASE d = c
      BY <1>3, <2>1, <2>2, <2>3, <2>4, <3>1, <3>2 DEF TypeInv, TypeOK
    <3>3. CASE d # c
      BY <1>4, <2>1, <2>4, <3>1, <3>3 DEF TypeInv, TypeOK
    <3> QED
      BY <3>2, <3>3
  <2>5. ASSUME NEW p \in Programs, NEW x \in Places, NEW r \in (content[p][x] \cup before[p][x])'
        PROVE  Fine(r, x[2])'
    BY <1>3, <2>1, <2>5 DEF ghidra
  <2> QED
    BY <1>1, <2>4, <2>5 DEF FailureInv, MarksAreFine
<1>7. ASSUME NEW c \in Calls, Write(c) PROVE FailureInv'
  <2>1. /\ AtItem(c) /\ At(c)[1] \in {"set", "add", "clear"} /\ UNCHANGED <<held, before>>
        /\ content' = [content EXCEPT ![where[c]][Place(c)] = Written(c)]
    BY <1>7 DEF Write
  <2>2. where[c] \in Programs /\ Place(c) \in Places
    BY <2>1, AtGood
  <2>3. ASSUME NEW r \in Written(c), NEW f, f = Place(c)[2] PROVE Fine(r, f)'
    BY <1>7, <2>3, WrittenIsFine DEF Place
  <2>4. ASSUME NEW p \in Programs, NEW x \in Places, NEW r \in (content[p][x] \cup before[p][x])'
        PROVE  Fine(r, x[2])'
    <3>1. /\ content \in [Programs -> Contents] /\ content[p] \in Contents
      BY DEF TypeInv, TypeOK
    <3>2. content'[p][x] = IF p = where[c] /\ x = Place(c) THEN Written(c) ELSE content[p][x]
      BY <2>1, <2>2, <3>1 DEF Contents
    <3>3. CASE r \in Written(c) /\ x = Place(c)
      BY <2>3, <3>3
    <3>4. CASE r \in content[p][x] \cup before[p][x]
      BY <1>3, <3>4
    <3> QED
      BY <2>1, <2>4, <3>2, <3>3, <3>4
  <2>5. ASSUME NEW d \in Calls, NEW r \in held'[d]
        PROVE  Fine(r, ReadField(tool[d]))'
    BY <1>1, <1>4, <2>1, <2>5 DEF ReadField
  <2> QED
    BY <1>1, <2>4, <2>5 DEF FailureInv, MarksAreFine
<1> QED
  BY <1>5, <1>6, <1>7, Changes

\* In every behaviour, overlapping or not, an item that was reported as failed
\* has written nothing but what its tool writes before the step that failed.
THEOREM FailedLeaveLittle == ASSUME Distinct PROVE Spec => []FailuresLeaveLittle
<1>1. Init => TypeInv /\ FailureInv
  BY TypeInit, FailureInit
<1>2. TypeInv /\ FailureInv /\ [Next]_vars => (TypeInv /\ FailureInv)'
  BY TypeStep, FailureStep
<1>3. TypeInv /\ FailureInv => FailuresLeaveLittle
  <2> SUFFICES ASSUME TypeInv, FailureInv, NEW p \in Programs, NEW x \in Places,
                      NEW r \in content[p][x] \cap failed
               PROVE  x[2] \in Leftovers[tool[r[1]]]
    BY DEF FailuresLeaveLittle
  <2>1. Fine(r, x[2])
    BY DEF FailureInv, MarksAreFine
  <2>2. r # Original
    BY DEF TypeInv, TypeOK, Marks, Original, Distinct
  <2> QED
    BY <2>1, <2>2 DEF Fine
<1> QED
  BY <1>1, <1>2, <1>3, PTL DEF Spec

-----------------------------------------------------------------------------
(* Calls that do not overlap.                                              *)

OneAtATime == \A c, d \in Calls : InProgress(c) /\ InProgress(d) => c = d

\* Ghidra has exactly the transactions of the calls that are at their items.
OpenWhileAtItems ==
  \A p \in Programs : \A c \in Calls : c \in entries[p] <=> pc[c] = "items" /\ on[c] = p

\* A call that raised has nothing reported.
RaisedReportNothing == \A c \in Calls : raised[c] => \A r \in reported : r[1] # c

\* Only while a client's own transaction is open can what is written be
\* doomed already.
DoomedByClients == \A p \in Programs : doomed[p] /\ entries[p] # {} => entries[p] \cap Manual # {}

\* A call that is alone in its transaction added marks of its own only.
NothingOfOthersLost ==
  \A c \in Calls : pc[c] = "items" /\ entries[on[c]] = {c} =>
    \A x \in Places : \A r \in content[on[c]][x] : r[1] # c => r \in before[on[c]][x]

\* What a call adds to is what it read.
ReadIsCurrent ==
  \A c \in Calls : AtItem(c) /\ At(c)[1] = "add" => held[c] = content[where[c]][Place(c)]

AloneInv ==
  /\ OpenWhileAtItems /\ RaisedReportNothing
  /\ "overlap" \notin env =>
       OneAtATime /\ DoomedByClients /\ NothingOfOthersLost /\ ReadIsCurrent

\* Without transactions of the clients' own, marks are in the program of the
\* transaction they were made in.
MarksAtHome ==
  /\ begun = {} /\ \A p \in Programs : entries[p] \cap Manual = {}
  /\ \A p \in Programs : \A x \in Places :
       \A r \in content[p][x] \cup before[p][x] :
         r # Original => pc[r[1]] \in {"items", "done"} /\ p = on[r[1]]

HomeInv == env \cap {"overlap", "manual"} = {} => MarksAtHome

-----------------------------------------------------------------------------

LEMMA AloneInit == Init => AloneInv
BY DEF Init, AloneInv, OpenWhileAtItems, RaisedReportNothing, OneAtATime, DoomedByClients,
       NothingOfOthersLost, ReadIsCurrent, InProgress, AtItem

\* A call that begins an item or a step finds nothing to add to.
LEMMA AddsFollowReads ==
  ASSUME Distinct, TypeInv, NEW c \in Calls, AtItem(c), Proceed(c),
         AtItem(c)', At(c)'[1] = "add"
  PROVE  /\ At(c)[1] = "read" /\ Target(c)' = Target(c) /\ At(c)'[2] = At(c)[2]
         /\ nth' = nth
<1>1. /\ step[c] \in 1..Len(Steps(c)) /\ Len(Steps(c)) \in Nat \ {0} /\ tool[c] \in Tools
      /\ step \in [Calls -> Nat \ {0}]
  BY AtGood DEF TypeInv, Extent, TypeOK
<1>2. tool' = tool /\ items' = items /\ Steps(c)' = Steps(c)
  BY DEF Proceed, Steps
<1>3. \A k \in 1..Len(Steps(c)) : Steps(c)[k][1] = "add" =>
        k # 1 /\ Steps(c)[k - 1] = <<"read", Steps(c)[k][2]>>
  BY <1>1, RecipeSteps DEF GoodStep, Steps
<1>4. CASE step[c] < Len(Steps(c))
  <2>1. step'[c] = step[c] + 1 /\ nth' = nth
    BY <1>1, <1>4 DEF Proceed
  <2>2. step'[c] \in 1..Len(Steps(c)) /\ step'[c] - 1 = step[c]
    BY <1>1, <1>4, <2>1
  <2>3. Steps(c)[step'[c]][1] = "add"
    BY <1>2 DEF At
  <2>4. At(c) = <<"read", At(c)'[2]>>
    BY <1>2, <1>3, <2>2, <2>3 DEF At
  <2> QED
    BY <1>2, <2>1, <2>4 DEF Target
<1>5. CASE ~(step[c] < Len(Steps(c)))
  <2>1. step'[c] = 1 /\ 1 \in 1..Len(Steps(c))
    BY <1>1, <1>5 DEF Proceed
  <2>2. Steps(c)[1][1] = "add"
    BY <1>2, <2>1 DEF At
  <2> QED
    BY <1>3, <2>1, <2>2
<1> QED
  BY <1>4, <1>5

LEMMA OpenStep == ASSUME Distinct, TypeInv, OpenWhileAtItems, [Next]_vars PROVE OpenWhileAtItems'
<1> USE DEF OpenWhileAtItems
<1>0. /\ pc \in [Calls -> {"new", "open", "items", "done"}] /\ on \in [Calls -> Programs \cup {Nowhere}]
      /\ entries \in [Programs -> SUBSET (Calls \cup Manual)] /\ current \in Programs
      /\ Calls \cap Manual = {}
  BY DEF TypeInv, TypeOK, Distinct
<1>1. ASSUME NEW c \in Calls, Prepare(c) \/ NotPrepared(c)
      PROVE  /\ UNCHANGED <<entries, on>> /\ pc[c] = "new"
             /\ pc' \in {[pc EXCEPT ![c] = "open"], [pc EXCEPT ![c] = "done"]}
  BY <1>1 DEF Prepare, NotPrepared, ghidra
<1>2. ASSUME NEW c \in Calls, OpenTransaction(c)
      PROVE  /\ entries' = [entries EXCEPT ![current] = @ \cup {c}] /\ pc[c] = "open"
             /\ pc' = [pc EXCEPT ![c] = "items"] /\ on' = [on EXCEPT ![c] = current]
  BY <1>2 DEF OpenTransaction, Enter
<1>3. ASSUME NEW c \in Calls, EndTransaction(c)
      PROVE  /\ entries' = [entries EXCEPT ![on[c]] = @ \ {c}] /\ pc[c] = "items"
             /\ pc' = [pc EXCEPT ![c] = "done"] /\ on' = on
  BY <1>3 DEF EndTransaction, Leave
<1>4. ASSUME NEW m \in Manual, BeginTrans(m) \/ \E commit \in BOOLEAN : EndTrans(m, commit)
      PROVE  /\ UNCHANGED <<pc, on>>
             /\ entries' \in {[entries EXCEPT ![current] = @ \cup {m}], [entries EXCEPT ![current] = @ \ {m}]}
  BY <1>4 DEF BeginTrans, EndTrans, Enter, Leave, call, position
<1>5. ASSUME \/ \E c \in Calls : \/ TakeObject(c) \/ LookOn(c) \/ Read(c) \/ Write(c) \/ WriteNothing(c)
                                \/ ItemFails(c) \/ CallRaises(c)
             \/ \E p \in Programs : Switch(p)
             \/ UNCHANGED vars
      PROVE  UNCHANGED <<pc, on, entries>>
  BY <1>5 DEF TakeObject, LookOn, Read, Write, WriteNothing, Proceed, ItemFails, CallRaises, Switch,
              vars, call, position, ghidra
<1>6. CASE \E c \in Calls : Prepare(c) \/ NotPrepared(c)
  BY <1>0, <1>1, <1>6
<1>7. CASE \E c \in Calls : OpenTransaction(c)
  BY <1>0, <1>2, <1>7
<1>8. CASE \E c \in Calls : EndTransaction(c)
  <2>1. PICK c \in Calls : EndTransaction(c)
    BY <1>8
  <2>2. on[c] \in Programs
    BY <1>3, <2>1 DEF TypeInv, Extent
  <2> QED
    BY <1>0, <1>3, <2>1, <2>2
<1>9. CASE \E m \in Manual : BeginTrans(m) \/ \E commit \in BOOLEAN : EndTrans(m, commit)
  BY <1>0, <1>4, <1>9
<1>10. CASE UNCHANGED <<pc, on, entries>>
  BY <1>10
<1> QED
  BY <1>5, <1>6, <1>7, <1>8, <1>9, <1>10 DEF Next

LEMMA RaisedStep == ASSUME TypeInv, RaisedReportNothing, [Next]_vars PROVE RaisedReportNothing'
<1> USE DEF RaisedReportNothing
<1>1. ASSUME NEW c \in Calls, AtItem(c), Proceed(c) PROVE RaisedReportNothing'
  <2>1. /\ raised' = raised /\ ~raised[c] /\ reported' \subseteq reported \cup {Item(c)}
        /\ Item(c)[1] = c
    BY <1>1 DEF Proceed, AtItem, Item
  <2> QED
    BY <2>1
<1>2. ASSUME NEW c \in Calls, CallRaises(c) PROVE RaisedReportNothing'
  BY <1>2 DEF CallRaises, TypeInv, TypeOK
<1>3. ASSUME \/ \E c \in Calls : \/ Prepare(c) \/ NotPrepared(c) \/ OpenTransaction(c)
                                \/ ItemFails(c) \/ EndTransaction(c)
             \/ \E m \in Manual : BeginTrans(m) \/ \E commit \in BOOLEAN : EndTrans(m, commit)
             \/ \E p \in Programs : Switch(p)
             \/ UNCHANGED vars
      PROVE  UNCHANGED <<raised, reported>>
  BY <1>3 DEF Prepare, NotPrepared, OpenTransaction, ItemFails, EndTransaction, BeginTrans, EndTrans,
              Switch, vars, call, reports
<1>4. \A c \in Calls :
        TakeObject(c) \/ LookOn(c) \/ Read(c) \/ Write(c) \/ WriteNothing(c) => AtItem(c) /\ Proceed(c)
  BY DEF TakeObject, LookOn, Read, Write, WriteNothing
<1>5. CASE UNCHANGED <<raised, reported>>
  BY <1>5
<1> QED
  BY <1>1, <1>2, <1>3, <1>4, <1>5 DEF Next

LEMMA OneStep ==
  ASSUME TypeInv, OneAtATime, "overlap" \notin env, [Next]_vars PROVE OneAtATime'
<1> USE DEF OneAtATime, InProgress
<1>0. pc \in [Calls -> {"new", "open", "items", "done"}]
  BY DEF TypeInv, TypeOK
<1>1. ASSUME NEW c \in Calls, Prepare(c)
      PROVE  pc' = [pc EXCEPT ![c] = "open"] /\ \A d \in Calls : ~InProgress(d)
  BY <1>1 DEF Prepare, MayStart
<1>2. ASSUME NEW c \in Calls, NotPrepared(c) \/ EndTransaction(c)
      PROVE  pc' = [pc EXCEPT ![c] = "done"]
  BY <1>2 DEF NotPrepared, EndTransaction
<1>3. ASSUME NEW c \in Calls, OpenTransaction(c)
      PROVE  pc' = [pc EXCEPT ![c] = "items"] /\ pc[c] = "open"
  BY <1>3 DEF OpenTransaction
<1>4. ASSUME \/ \E c \in Calls : \/ TakeObject(c) \/ LookOn(c) \/ Read(c) \/ Write(c) \/ WriteNothing(c)
                                \/ ItemFails(c) \/ CallRaises(c)
             \/ \E m \in Manual : BeginTrans(m) \/ \E commit \in BOOLEAN : EndTrans(m, commit)
             \/ \E p \in Programs : Switch(p)
             \/ UNCHANGED vars
      PROVE  pc' = pc
  BY <1>4 DEF TakeObject, LookOn, Read, Write, WriteNothing, Proceed, ItemFails, CallRaises, Switch,
              BeginTrans, EndTrans, vars, call, position
<1>5. CASE \E c \in Calls : Prepare(c)
  BY <1>0, <1>1, <1>5
<1>6. CASE \E c \in Calls : NotPrepared(c) \/ EndTransaction(c)
  BY <1>0, <1>2, <1>6
<1>7. CASE \E c \in Calls : OpenTransaction(c)
  BY <1>0, <1>3, <1>7
<1>8. CASE pc' = pc
  BY <1>8
<1> QED
  BY <1>4, <1>5, <1>6, <1>7, <1>8 DEF Next

\* The transactions of calls in a program are that of the one call at its items.
LEMMA OneOpen ==
  ASSUME OpenWhileAtItems, OneAtATime, NEW p \in Programs, NEW c \in Calls, InProgress(c),
         entries \in [Programs -> SUBSET (Calls \cup Manual)]
  PROVE  entries[p] \subseteq Manual \cup {c}
BY DEF OpenWhileAtItems, OneAtATime, InProgress

LEMMA NoneOpen ==
  ASSUME OpenWhileAtItems, NEW p \in Programs, \A c \in Calls : ~InProgress(c),
         entries \in [Programs -> SUBSET (Calls \cup Manual)]
  PROVE  entries[p] \subseteq Manual
BY DEF OpenWhileAtItems, InProgress

\* Steps that leave Ghidra's transactions as they are.
LEMMA Untouched ==
  ASSUME \/ \E c \in Calls : \/ Prepare(c) \/ NotPrepared(c)
                            \/ TakeObject(c) \/ LookOn(c) \/ Read(c) \/ Write(c) \/ WriteNothing(c)
                            \/ ItemFails(c) \/ CallRaises(c)
         \/ \E p \in Programs : Switch(p)
         \/ UNCHANGED vars
  PROVE  UNCHANGED <<entries, doomed, before, begun>>
BY DEF Prepare, NotPrepared, TakeObject, LookOn, Read, Write, WriteNothing, Proceed, ItemFails,
       CallRaises, Switch, vars, ghidra

LEMMA DoomStep ==
  ASSUME Distinct, TypeInv, OpenWhileAtItems, OneAtATime, DoomedByClients, "overlap" \notin env, [Next]_vars
  PROVE  DoomedByClients'
<1> USE DEF DoomedByClients
<1>0. /\ doomed \in [Programs -> BOOLEAN]
      /\ entries \in [Programs -> SUBSET (Calls \cup Manual)] /\ current \in Programs
      /\ Calls \cap Manual = {}
  BY DEF TypeInv, TypeOK, Distinct
<1>1. ASSUME NEW e, Enter(current, e)
      PROVE  DoomedByClients'
  <2>1. /\ entries' = [entries EXCEPT ![current] = @ \cup {e}]
        /\ doomed' = IF entries[current] = {} THEN [doomed EXCEPT ![current] = FALSE] ELSE doomed
    BY <1>1 DEF Enter
  <2> QED
    BY <1>0, <2>1
<1>2. ASSUME NEW c \in Calls, EndTransaction(c) PROVE DoomedByClients'
  <2>1. /\ entries' = [entries EXCEPT ![on[c]] = @ \ {c}] /\ InProgress(c)
        /\ \E commit \in BOOLEAN : doomed' = [doomed EXCEPT ![on[c]] = @ \/ ~commit]
        /\ on[c] \in Programs
    BY <1>2 DEF EndTransaction, Leave, InProgress, TypeInv, Extent
  <2>2. entries[on[c]] \subseteq Manual \cup {c}
    BY <1>0, <2>1, OneOpen
  <2> QED
    BY <1>0, <2>1, <2>2
<1>3. ASSUME NEW m \in Manual, NEW commit \in BOOLEAN, EndTrans(m, commit) PROVE DoomedByClients'
  <2>1. /\ entries' = [entries EXCEPT ![current] = @ \ {m}]
        /\ doomed' = [doomed EXCEPT ![current] = @ \/ ~commit]
        /\ \A c \in Calls : ~InProgress(c)
    BY <1>3 DEF EndTrans, Leave, MayStart
  <2>2. entries[current] \subseteq Manual
    BY <1>0, <2>1, NoneOpen
  <2> QED
    BY <1>0, <2>1, <2>2
<1>4. CASE UNCHANGED <<entries, doomed, before, begun>>
  BY <1>4
<1>5. \A c \in Calls : OpenTransaction(c) => Enter(current, c)
  BY DEF OpenTransaction
<1>6. \A m \in Manual : BeginTrans(m) => Enter(current, m)
  BY DEF BeginTrans
<1> QED
  BY <1>1, <1>2, <1>3, <1>4, <1>5, <1>6, Untouched DEF Next

LEMMA WriteChanges ==
  ASSUME Distinct, TypeInv, NEW c \in Calls, Write(c)
  PROVE  /\ AtItem(c) /\ Proceed(c) /\ At(c)[1] \in {"set", "add", "clear"}
         /\ where[c] \in Programs /\ Place(c) \in Places /\ on[c] \in Programs
         /\ entries[where[c]] # {}
         /\ UNCHANGED <<where, held, entries, before, pc, on, tool>>
         /\ \A p \in Programs : \A x \in Places :
              content'[p][x] = IF p = where[c] /\ x = Place(c) THEN Written(c) ELSE content[p][x]
<1>1. /\ AtItem(c) /\ Proceed(c) /\ At(c)[1] \in {"set", "add", "clear"}
      /\ entries[where[c]] # {}
      /\ UNCHANGED <<where, held, entries, before>>
      /\ content' = [content EXCEPT ![where[c]][Place(c)] = Written(c)]
  BY DEF Write
<1>2. where[c] \in Programs /\ Place(c) \in Places /\ on[c] \in Programs
  BY <1>1, AtGood
<1>3. ASSUME NEW p \in Programs, NEW x \in Places
      PROVE  content'[p][x] = IF p = where[c] /\ x = Place(c) THEN Written(c) ELSE content[p][x]
  <2>1. /\ content \in [Programs -> Contents] /\ content[p] \in Contents
    BY DEF TypeInv, TypeOK
  <2> QED
    BY <1>1, <1>2, <2>1 DEF Contents
<1>4. UNCHANGED <<pc, on, tool>>
  BY <1>1 DEF Proceed
<1> QED
  BY <1>1, <1>2, <1>3, <1>4

LEMMA LostStep ==
  ASSUME Distinct, TypeInv, OpenWhileAtItems, OneAtATime, ReadIsCurrent, NothingOfOthersLost,
         "overlap" \notin env, [Next]_vars
  PROVE  NothingOfOthersLost'
<1> USE DEF NothingOfOthersLost
<1>0. /\ pc \in [Calls -> {"new", "open", "items", "done"}] /\ on \in [Calls -> Programs \cup {Nowhere}]
      /\ entries \in [Programs -> SUBSET (Calls \cup Manual)] /\ current \in Programs
      /\ content \in [Programs -> Contents] /\ before \in [Programs -> Contents]
      /\ Calls \cap Manual = {}
  BY DEF TypeInv, TypeOK, Distinct
<1>1. ASSUME NEW c \in Calls, Prepare(c) \/ NotPrepared(c) PROVE NothingOfOthersLost'
  <2>1. /\ UNCHANGED <<on, entries, before, content>>
        /\ \A d \in Calls : pc'[d] = "items" => pc[d] = "items"
    BY <1>0, <1>1 DEF Prepare, NotPrepared, ghidra
  <2> QED
    BY <2>1
<1>2. ASSUME NEW c \in Calls, OpenTransaction(c) PROVE NothingOfOthersLost'
  <2>1. /\ pc[c] = "open" /\ pc' = [pc EXCEPT ![c] = "items"] /\ on' = [on EXCEPT ![c] = current]
        /\ entries' = [entries EXCEPT ![current] = @ \cup {c}] /\ content' = content
        /\ entries[current] = {} => before' = [before EXCEPT ![current] = content[current]]
    BY <1>2 DEF OpenTransaction, Enter
  <2>2. c \notin entries[current]
    BY <1>0, <2>1 DEF OpenWhileAtItems
  <2>3. \A d \in Calls : pc'[d] = "items" => d = c
    BY <1>0, <2>1 DEF OneAtATime, InProgress
  <2>4. entries'[current] = {c} => entries[current] = {}
    BY <1>0, <2>1, <2>2
  <2> QED
    BY <1>0, <2>1, <2>3, <2>4
<1>3. ASSUME NEW c \in Calls, EndTransaction(c) PROVE NothingOfOthersLost'
  <2>1. pc[c] = "items" /\ pc' = [pc EXCEPT ![c] = "done"]
    BY <1>3 DEF EndTransaction
  <2>2. \A d \in Calls : pc'[d] # "items"
    BY <1>0, <2>1 DEF OneAtATime, InProgress
  <2> QED
    BY <2>2
<1>4. ASSUME NEW m \in Manual, BeginTrans(m) \/ \E commit \in BOOLEAN : EndTrans(m, commit)
      PROVE  NothingOfOthersLost'
  <2>1. pc' = pc /\ \A d \in Calls : ~InProgress(d)
    BY <1>4 DEF BeginTrans, EndTrans, MayStart, call, position
  <2> QED
    BY <2>1 DEF InProgress
<1>5. ASSUME NEW c \in Calls, Write(c) PROVE NothingOfOthersLost'
  <2>1. /\ AtItem(c) /\ At(c)[1] \in {"set", "add", "clear"} /\ UNCHANGED <<entries, before, pc, on>>
        /\ where[c] \in Programs /\ Place(c) \in Places
        /\ \A p \in Programs : \A x \in Places :
             content'[p][x] = IF p = where[c] /\ x = Place(c) THEN Written(c) ELSE content[p][x]
    BY <1>5, WriteChanges
  <2>2. \A r \in Written(c) : r[1] # c => r \in content[where[c]][Place(c)]
    BY <2>1 DEF Written, ReadIsCurrent, Item
  <2>3. \A d \in Calls : pc[d] = "items" => d = c /\ on[c] \in Programs
    BY <2>1 DEF OneAtATime, InProgress, AtItem, TypeInv, Extent
  <2> QED
    BY <2>1, <2>2, <2>3
<1>6. ASSUME \/ \E c \in Calls : \/ TakeObject(c) \/ LookOn(c) \/ Read(c) \/ WriteNothing(c)
                                \/ ItemFails(c) \/ CallRaises(c)
             \/ \E p \in Programs : Switch(p)
             \/ UNCHANGED vars
      PROVE  UNCHANGED <<pc, on, entries, before, content>>
  BY <1>6 DEF TakeObject, LookOn, Read, WriteNothing, Proceed, ItemFails, CallRaises, Switch,
              vars, call, position, ghidra
<1>7. CASE UNCHANGED <<pc, on, entries, before, content>>
  BY <1>7
<1> QED
  BY <1>1, <1>2, <1>3, <1>4, <1>5, <1>6, <1>7 DEF Next

LEMMA ReadStep ==
  ASSUME Distinct, TypeInv, OneAtATime, ReadIsCurrent, "overlap" \notin env, [Next]_vars
  PROVE  ReadIsCurrent'
<1> USE DEF ReadIsCurrent
<1>0. /\ pc \in [Calls -> {"new", "open", "items", "done"}] /\ step \in [Calls -> Nat \ {0}]
      /\ raised \in [Calls -> BOOLEAN] /\ held \in [Calls -> SUBSET (Marks \cup {Original})]
  BY DEF TypeInv, TypeOK
\* A recipe does not begin with an addition.
<1>1. ASSUME NEW c \in Calls, step'[c] = 1, tool' = tool PROVE At(c)'[1] # "add"
  <2>1. tool[c] \in Tools
    BY DEF TypeInv, TypeOK
  <2>2. 1 \in 1..Len(Recipe[tool[c]]) /\ GoodStep(tool[c], 1)
    BY <2>1, RecipeSteps
  <2> QED
    BY <1>1, <2>2 DEF GoodStep, At, Steps
<1>2. ASSUME NEW c \in Calls, AtItem(c), \A d \in Calls : AtItem(d)' => pc[d] = "items" PROVE
      \A d \in Calls : AtItem(d)' => d = c
  BY <1>2 DEF OneAtATime, InProgress, AtItem
<1>3. ASSUME NEW c \in Calls, Prepare(c) \/ NotPrepared(c) PROVE ReadIsCurrent'
  <2>1. /\ \A d \in Calls : ~InProgress(d)
        /\ pc' \in {[pc EXCEPT ![c] = "open"], [pc EXCEPT ![c] = "done"]}
    BY <1>3 DEF Prepare, NotPrepared, MayStart
  <2>2. \A d \in Calls : pc'[d] # "items"
    BY <1>0, <2>1 DEF InProgress
  <2> QED
    BY <2>2 DEF AtItem
<1>4. ASSUME NEW c \in Calls, OpenTransaction(c) PROVE ReadIsCurrent'
  <2>1. /\ pc[c] = "open" /\ pc' = [pc EXCEPT ![c] = "items"] /\ UNCHANGED <<step, tool>>
    BY <1>4 DEF OpenTransaction
  <2>2. \A d \in Calls : pc'[d] = "items" => d = c
    BY <1>0, <2>1 DEF OneAtATime, InProgress
  <2>3. step'[c] = 1
    BY <2>1 DEF TypeInv, Extent
  <2> QED
    BY <1>1, <2>1, <2>2, <2>3 DEF AtItem
<1>5. ASSUME NEW c \in Calls, EndTransaction(c) PROVE ReadIsCurrent'
  <2>1. pc[c] = "items" /\ pc' = [pc EXCEPT ![c] = "done"]
    BY <1>5 DEF EndTransaction
  <2>2. \A d \in Calls : pc'[d] # "items"
    BY <1>0, <2>1 DEF OneAtATime, InProgress
  <2> QED
    BY <2>2 DEF AtItem
<1>6. ASSUME NEW c \in Calls, AtItem(c), Proceed(c), At(c)[1] # "read" PROVE ReadIsCurrent'
  <2>1. pc' = pc
    BY <1>6 DEF Proceed
  <2>2. \A d \in Calls : AtItem(d)' => d = c
    BY <1>2, <1>6, <2>1 DEF AtItem
  <2> QED
    BY <1>6, <2>2, AddsFollowReads
<1>7. ASSUME NEW c \in Calls, Read(c) PROVE ReadIsCurrent'
  <2>1. /\ AtItem(c) /\ Proceed(c) /\ UNCHANGED <<where, content, pc>>
        /\ held' = [held EXCEPT ![c] = content[where[c]][Place(c)]]
    BY <1>7 DEF Read, Proceed, ghidra
  <2>2. \A d \in Calls : AtItem(d)' => d = c
    BY <1>2, <2>1 DEF AtItem
  <2>3. AtItem(c)' /\ At(c)'[1] = "add" => Place(c)' = Place(c)
    BY <2>1, AddsFollowReads DEF Place
  <2> QED
    BY <1>0, <2>1, <2>2, <2>3
<1>8. ASSUME NEW c \in Calls, ItemFails(c) PROVE ReadIsCurrent'
  <2>1. /\ AtItem(c) /\ UNCHANGED <<pc, tool>> /\ step' = [step EXCEPT ![c] = 1]
    BY <1>8 DEF ItemFails
  <2>2. \A d \in Calls : AtItem(d)' => d = c
    BY <1>2, <2>1 DEF AtItem
  <2> QED
    BY <1>0, <1>1, <2>1, <2>2
<1>9. ASSUME NEW c \in Calls, CallRaises(c) PROVE ReadIsCurrent'
  <2>1. /\ AtItem(c) /\ pc' = pc /\ raised' = [raised EXCEPT ![c] = TRUE]
    BY <1>9 DEF CallRaises, position
  <2>2. \A d \in Calls : AtItem(d)' => d = c
    BY <1>2, <2>1 DEF AtItem
  <2> QED
    BY <1>0, <2>1, <2>2 DEF AtItem
<1>10. ASSUME NEW m \in Manual, BeginTrans(m) \/ \E commit \in BOOLEAN : EndTrans(m, commit)
       PROVE  ReadIsCurrent'
  <2>1. pc' = pc /\ \A d \in Calls : ~InProgress(d)
    BY <1>10 DEF BeginTrans, EndTrans, MayStart, call, position
  <2> QED
    BY <2>1 DEF InProgress, AtItem
<1>11. ASSUME (\E p \in Programs : Switch(p)) \/ UNCHANGED vars PROVE ReadIsCurrent'
  <2>1. UNCHANGED <<tool, items, pc, nth, step, where, held, raised, content>>
    BY <1>11 DEF Switch, vars, call, position, ghidra
  <2> QED
    BY <2>1 DEF AtItem, At, Steps, Place, Target
<1>12. \A c \in Calls : TakeObject(c) \/ LookOn(c) \/ Write(c) \/ WriteNothing(c)
                        => AtItem(c) /\ Proceed(c) /\ At(c)[1] # "read"
  BY DEF TakeObject, LookOn, Write, WriteNothing, MayBeIdle, Look
<1> QED
  BY <1>3, <1>4, <1>5, <1>6, <1>7, <1>8, <1>9, <1>10, <1>11, <1>12 DEF Next

LEMMA EnvStays == [Next]_vars => env' = env
BY DEF Next, Prepare, NotPrepared, OpenTransaction, TakeObject, LookOn, Read, Write, WriteNothing,
       Proceed, ItemFails, CallRaises, EndTransaction, BeginTrans, EndTrans, Switch, vars

LEMMA AloneStep == ASSUME Distinct PROVE TypeInv /\ AloneInv /\ [Next]_vars => AloneInv'
BY OpenStep, RaisedStep, OneStep, DoomStep, LostStep, ReadStep, EnvStays DEF AloneInv

LEMMA KeepStep ==
  ASSUME Distinct, TypeInv, AloneInv, [Next]_vars, "overlap" \notin env,
         NEW p \in Programs, NEW x \in Places,
         NEW r \in reported, r \in content[p][x], r \notin content'[p][x]
  PROVE  \/ \E c \in Calls : Replaces(c, p, x)
         \/ \E m \in Manual : m \in entries[p] \ entries'[p]
<1>0. /\ entries \in [Programs -> SUBSET (Calls \cup Manual)] /\ doomed \in [Programs -> BOOLEAN]
      /\ content \in [Programs -> Contents] /\ current \in Programs /\ Calls \cap Manual = {}
  BY DEF TypeInv, TypeOK, Distinct
<1>1. ASSUME NEW c \in Calls, Write(c) PROVE Replaces(c, p, x)
  <2>1. /\ AtItem(c) /\ At(c)[1] \in {"set", "add", "clear"}
        /\ content'[p][x] = IF p = where[c] /\ x = Place(c) THEN Written(c) ELSE content[p][x]
    BY <1>1, WriteChanges
  <2>2. p = where[c] /\ x = Place(c) /\ r \notin Written(c)
    BY <2>1
  <2>3. At(c)[1] # "add"
    BY <2>1, <2>2 DEF AloneInv, ReadIsCurrent, Written
  <2> QED
    BY <2>1, <2>2, <2>3 DEF Replaces
<1>2. ASSUME NEW c \in Calls, EndTransaction(c) PROVE FALSE
  <2>1. PICK commit \in IF raised[c] THEN BOOLEAN ELSE {TRUE} : Leave(on[c], c, commit)
    BY <1>2 DEF EndTransaction
  <2>2. pc[c] = "items" /\ on[c] \in Programs
    BY <1>2 DEF EndTransaction, TypeInv, Extent
  <2>3. /\ doomed' = [doomed EXCEPT ![on[c]] = @ \/ ~commit]
        /\ content' = IF entries[on[c]] = {c} /\ doomed'[on[c]]
                        THEN [content EXCEPT ![on[c]] = before[on[c]]] ELSE content
    BY <2>1 DEF Leave
  <2>4. p = on[c] /\ entries[p] = {c} /\ doomed'[p] /\ content'[p] = before[p]
    BY <1>0, <2>2, <2>3
  <2>5. ~doomed[p]
    BY <1>0, <2>4 DEF AloneInv, DoomedByClients
  <2>6. raised[c]
    BY <1>0, <2>1, <2>3, <2>4, <2>5
  <2>7. r[1] # c
    BY <2>6 DEF AloneInv, RaisedReportNothing
  <2> QED
    BY <2>2, <2>4, <2>7 DEF AloneInv, NothingOfOthersLost
<1>3. ASSUME NEW m \in Manual, NEW commit \in BOOLEAN, EndTrans(m, commit)
      PROVE  m \in entries[p] \ entries'[p]
  <2>1. /\ m \in entries[current] /\ entries' = [entries EXCEPT ![current] = @ \ {m}]
        /\ content' \in {content, [content EXCEPT ![current] = before[current]]}
    BY <1>3 DEF EndTrans, Leave
  <2>2. p = current
    BY <1>0, <2>1
  <2> QED
    BY <1>0, <2>1, <2>2
<1>4. ASSUME \/ \E c \in Calls : \/ Prepare(c) \/ NotPrepared(c) \/ OpenTransaction(c)
                                \/ TakeObject(c) \/ LookOn(c) \/ Read(c) \/ WriteNothing(c)
                                \/ ItemFails(c) \/ CallRaises(c)
             \/ \E m \in Manual : BeginTrans(m)
             \/ \E q \in Programs : Switch(q)
             \/ UNCHANGED vars
      PROVE  FALSE
  <2>1. content' = content
    BY <1>4 DEF Prepare, NotPrepared, OpenTransaction, TakeObject, LookOn, Read, WriteNothing, ItemFails,
                CallRaises, BeginTrans, Switch, Enter, vars, ghidra
  <2> QED
    BY <2>1
<1> QED
  BY <1>1, <1>2, <1>3, <1>4 DEF Next

\* In calls that do not overlap what was reported stays: appending loses
\* nothing, and a call that raises takes nothing of another's with it.
THEOREM ReportedStay == ASSUME Distinct PROVE Spec => ReportedIsKept
<1> DEFINE IInv == TypeInv /\ AloneInv
<1>1. Init => IInv
  BY TypeInit, AloneInit
<1>2. IInv /\ [Next]_vars => IInv'
  BY TypeStep, AloneStep
<1>3. IInv /\ [Next]_vars => [KeepsReported]_vars
  BY KeepStep DEF KeepsReported
<1> QED
  BY <1>1, <1>2, <1>3, PTL DEF Spec, ReportedIsKept

LEMMA HomeInit == Init => HomeInv
BY DEF Init, HomeInv, MarksAtHome, Original

LEMMA HomeStep ==
  ASSUME Distinct, TypeInv, AloneInv, MarksAtHome, env \cap {"overlap", "manual"} = {}, [Next]_vars
  PROVE  MarksAtHome'
<1> DEFINE Home(p, r) == r # Original => pc[r[1]] \in {"items", "done"} /\ p = on[r[1]]
           There(p, x) == content[p][x] \cup before[p][x]
<1>0. /\ pc \in [Calls -> {"new", "open", "items", "done"}] /\ on \in [Calls -> Programs \cup {Nowhere}]
      /\ entries \in [Programs -> SUBSET (Calls \cup Manual)] /\ current \in Programs
      /\ content \in [Programs -> Contents] /\ before \in [Programs -> Contents]
      /\ Calls \cap Manual = {} /\ NoCall \notin Calls
      /\ "overlap" \notin env /\ "manual" \notin env
  BY DEF TypeInv, TypeOK, Distinct
<1>1. \A p \in Programs : \A x \in Places : \A r \in There(p, x) :
        Home(p, r) /\ r \in Marks \cup {Original}
  BY <1>0 DEF MarksAtHome, Contents
\* A call that has come to its items keeps its transaction's program.
<1>2. \A d \in Calls : pc[d] \in {"items", "done"} => pc'[d] \in {"items", "done"} /\ on'[d] = on[d]
  <2>1. ASSUME NEW c \in Calls, Prepare(c) \/ NotPrepared(c)
        PROVE  pc[c] = "new" /\ on' = on /\ \A d \in Calls \ {c} : pc'[d] = pc[d]
    BY <1>0, <2>1 DEF Prepare, NotPrepared
  <2>2. ASSUME NEW c \in Calls, OpenTransaction(c)
        PROVE  pc[c] = "open" /\ \A d \in Calls \ {c} : pc'[d] = pc[d] /\ on'[d] = on[d]
    BY <1>0, <2>2 DEF OpenTransaction
  <2>3. ASSUME NEW c \in Calls, EndTransaction(c)
        PROVE  pc' = [pc EXCEPT ![c] = "done"] /\ on' = on
    BY <2>3 DEF EndTransaction
  <2>4. ASSUME \/ \E c \in Calls : \/ TakeObject(c) \/ LookOn(c) \/ Read(c) \/ Write(c) \/ WriteNothing(c)
                                  \/ ItemFails(c) \/ CallRaises(c)
               \/ \E m \in Manual : BeginTrans(m) \/ \E commit \in BOOLEAN : EndTrans(m, commit)
               \/ \E p \in Programs : Switch(p)
               \/ UNCHANGED vars
        PROVE  pc' = pc /\ on' = on
    BY <2>4 DEF TakeObject, LookOn, Read, Write, WriteNothing, Proceed, ItemFails, CallRaises, Switch,
                BeginTrans, EndTrans, vars, call, position
  <2>5. CASE \E c \in Calls : Prepare(c) \/ NotPrepared(c)
    BY <2>1, <2>5
  <2>6. CASE \E c \in Calls : OpenTransaction(c)
    BY <2>2, <2>6
  <2>7. CASE \E c \in Calls : EndTransaction(c)
    BY <1>0, <2>3, <2>7
  <2>8. CASE pc' = pc /\ on' = on
    BY <2>8
  <2> QED
    BY <2>4, <2>5, <2>6, <2>7, <2>8 DEF Next
<1>3. ASSUME NEW p \in Programs, NEW r, r \in Marks \cup {Original}, Home(p, r) PROVE Home(p, r)'
  BY <1>2, <1>3 DEF Marks, Original
<1>4. begun' = {} /\ \A p \in Programs : entries'[p] \cap Manual = {}
  <2>1. \A m \in Manual : ~BeginTrans(m) /\ \A commit \in BOOLEAN : ~EndTrans(m, commit)
    BY <1>0 DEF BeginTrans, EndTrans, MarksAtHome
  <2>2. ASSUME NEW c \in Calls, OpenTransaction(c)
        PROVE  begun' = begun /\ entries' = [entries EXCEPT ![current] = @ \cup {c}]
    BY <2>2 DEF OpenTransaction, Enter
  <2>3. ASSUME NEW c \in Calls, EndTransaction(c)
        PROVE  begun' = begun /\ entries' = [entries EXCEPT ![on[c]] = @ \ {c}]
    BY <2>3 DEF EndTransaction, Leave
  <2>4. CASE \E c \in Calls : OpenTransaction(c)
    BY <1>0, <2>2, <2>4 DEF MarksAtHome
  <2>5. CASE \E c \in Calls : EndTransaction(c)
    BY <1>0, <2>3, <2>5 DEF MarksAtHome
  <2>6. CASE UNCHANGED <<entries, begun>>
    BY <2>6 DEF MarksAtHome
  <2> QED
    BY <2>1, <2>4, <2>5, <2>6, Untouched DEF Next
\* What an item writes is its own, and it writes to the program that has the
\* one transaction there is.
<1>5. ASSUME NEW c \in Calls, Write(c), NEW p \in Programs, NEW x \in Places, NEW r \in There(p, x)'
      PROVE  Home(p, r) /\ r \in Marks \cup {Original}
  <2>1. /\ AtItem(c) /\ At(c)[1] \in {"set", "add", "clear"}
        /\ where[c] \in Programs /\ Place(c) \in Places
        /\ entries[where[c]] # {} /\ before' = before
        /\ content'[p][x] = IF p = where[c] /\ x = Place(c) THEN Written(c) ELSE content[p][x]
    BY <1>5, WriteChanges
  <2>2. CASE r \in There(p, x)
    BY <1>1, <2>2
  <2>3. CASE r \notin There(p, x)
    <3>1. p = where[c] /\ x = Place(c) /\ r \in Written(c)
      BY <2>1, <2>3
    <3>2. Written(c) \subseteq content[p][x] \cup {Item(c)}
      BY <1>0, <2>1, <3>1 DEF Written, AloneInv, ReadIsCurrent
    <3>3. r = Item(c) /\ Item(c) \in Marks
      BY <2>1, <2>3, <3>1, <3>2, AtGood
    <3>4. PICK d \in Calls : d \in entries[p]
      BY <1>0, <2>1, <3>1 DEF MarksAtHome
    <3>5. pc[d] = "items" /\ on[d] = p /\ pc[c] = "items"
      BY <2>1, <3>4 DEF AloneInv, OpenWhileAtItems, AtItem
    <3>6. d = c
      BY <1>0, <3>5 DEF AloneInv, OneAtATime, InProgress
    <3> QED
      BY <3>3, <3>5, <3>6 DEF Item
  <2> QED
    BY <2>2, <2>3
<1>6. ASSUME ~(\E c \in Calls : Write(c)), NEW p \in Programs, NEW x \in Places, NEW r \in There(p, x)'
      PROVE  Home(p, r) /\ r \in Marks \cup {Original}
  <2>1. content'[p] \in {content[p], before[p]} /\ before'[p] \in {before[p], content[p]}
    <3>1. \A c \in Calls : Read(c) => content' = content /\ before' = before
      BY DEF Read, ghidra
    <3> QED
      BY <1>6, <3>1, Changes
  <2> QED
    BY <1>1, <2>1
<1>7. ASSUME NEW p \in Programs, NEW x \in Places, NEW r \in There(p, x)' PROVE Home(p, r)'
  <2>1. Home(p, r) /\ r \in Marks \cup {Original}
    BY <1>5, <1>6
  <2> QED
    BY <1>3, <2>1
<1> QED
  BY <1>4, <1>7 DEF MarksAtHome

\* While calls do not overlap and no client holds a transaction open, each
\* call writes to the one program it began its transaction in, whatever the
\* user shows meanwhile and whatever the cache returns.
THEOREM WritesStayHome == ASSUME Distinct PROVE Spec => []StaysInItsProgram
<1> DEFINE IInv == TypeInv /\ AloneInv /\ HomeInv
<1>1. Init => IInv
  BY TypeInit, AloneInit, HomeInit
<1>2. IInv /\ [Next]_vars => IInv'
  BY TypeStep, AloneStep, HomeStep, EnvStays DEF HomeInv
<1>3. IInv => StaysInItsProgram
  BY DEF HomeInv, MarksAtHome, StaysInItsProgram
<1> QED
  BY <1>1, <1>2, <1>3, PTL DEF Spec
=============================================================================
