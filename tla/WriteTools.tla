----------------------------- MODULE WriteTools -----------------------------
(***************************************************************************)
(* The tools that write to the Ghidra program: tools/modify.py, the        *)
(* writing half of tools/types.py, and create_transaction and              *)
(* get_decompiled_func of backend.py.                                      *)
(*                                                                         *)
(* Every tool runs on a worker thread of its own, opens one transaction    *)
(* for all of its items and takes them one after the other; an item that   *)
(* raises is reported as failed, and the next one follows.  What an item   *)
(* does is a recipe of elementary steps, each one call into Ghidra, and    *)
(* calls of other clients come between any two of them.                    *)
(*                                                                         *)
(* Ghidra merges the transactions open in a program at one time into one:  *)
(* if one of them ends without a commit, all that was written since the    *)
(* first began is taken back when the last one ends.  A program with none  *)
(* open refuses to be written.                                             *)
(*                                                                         *)
(* In the GUI the user switches between programs, and `backend.program` is *)
(* whichever is shown at the time.  The cache of decompiled functions is   *)
(* keyed by offset alone and never cleared: what it returns may belong to  *)
(* another program.                                                        *)
(*                                                                         *)
(* A place (a function's name, a struct, ...) holds the marks of the items *)
(* that made it what it is: replacing and clearing leave one, appending    *)
(* adds one.                                                               *)
(*                                                                         *)
(* env says what happens besides: "overlap", calls of several clients run  *)
(* at once; "manual", clients begin and end transactions of their own;     *)
(* "switch", the user shows another program.                               *)
(***************************************************************************)
EXTENDS Naturals, Sequences

CONSTANTS
  Calls,     \* invocations of the writing tools
  NoCall,
  Manual,    \* invocations of begin_trans
  Programs,
  Nowhere,   \* no program
  Targets,   \* offsets of functions and addresses, or names of structs
  MaxItems   \* bound: the items of a call

-----------------------------------------------------------------------------
\* The recipes.  "find" takes the current program; "decompile" takes the
\* cached function, of whatever program, or caches the current program's;
\* "consult" does so too, but only reads from it; "look" may raise and changes
\* nothing; "read" is kept for an "add".

Find == <<"find", "none">>
Decompile == <<"decompile", "none">>
Consult == <<"consult", "none">>
Look == <<"look", "none">>
Validate == Look      \* the fields an item of its kind must have
ResolveType == Look   \* of a field or a prototype

Rename == <<Find, Look, <<"set", "name">>>>
UpdateVars == <<Look, <<"set", "vars">>>>
DisasmComment == <<Validate, Find, <<"set", "eol">>>>
DecompilerComment == <<Validate, Find, Decompile, <<"set", "pre">>>>
FunctionComment == <<Validate, Find, <<"set", "plate">>>>
BothComments == <<Validate, Find, <<"set", "eol">>, Find, Decompile, <<"set", "pre">>>>

\* Mutant: the prototype is applied first and recorded in the comment after.
ApplyFirst == <<Find, Consult, ResolveType, <<"set", "signature">>, <<"read", "plate">>, <<"add", "plate">>>>

SetPrototype == <<Find, Consult, <<"read", "plate">>, <<"add", "plate">>, ResolveType, Find,
                  <<"set", "signature">>>>
Patch == <<Find, <<"clear", "code">>, <<"set", "bytes">>, <<"set", "code">>>>
CreateStruct == <<<<"set", "struct">>>>

AddField == <<ResolveType, <<"read", "struct">>, <<"add", "struct">>>>

Recipe ==
  [rename |-> Rename, update_vars |-> UpdateVars, disasm |-> DisasmComment,
   decompiler |-> DecompilerComment, function |-> FunctionComment,
   both |-> BothComments, set_prototype |-> SetPrototype, patch |-> Patch,
   create_struct |-> CreateStruct, add_field |-> AddField]

Tools == DOMAIN Recipe
Fields == {"name", "vars", "eol", "pre", "plate", "signature", "bytes", "code", "struct"}

\* What may do nothing and is taken as done: a line of the decompiler's that
\* has no code, no code unit to clear, bytes that do not disassemble.
MayBeIdle == {<<"set", "pre">>, <<"clear", "code">>, <<"set", "code">>}

\* What is outside the try of an item: the call ends by the exception, and
\* the reports of its items are lost.
Escapes(t, op) == t = "create_struct" \/ (op = "look" /\ t \in {"update_vars", "add_field"})

-----------------------------------------------------------------------------
VARIABLES
  env,       \* the disturbances of this behaviour
  current,   \* backend.program
  cache,     \* _decompiled_funcs: the program of the function cached for an offset
  tool,      \* tool[c]: what c invokes
  items,     \* items[c]: the targets of c's items
  pc,        \* pc[c]: the phase of call c
  nth,       \* nth[c]: the item c is at
  step,      \* step[c]: the step of its recipe
  where,     \* where[c]: the program of the object c holds
  held,      \* held[c]: what c read
  raised,    \* raised[c]: an exception left the loop
  on,        \* on[c]: the program of c's transaction
  reported,  \* items reported without an error
  failed,    \* items reported with one
  entries,   \* entries[p]: the transactions open in p
  doomed,    \* doomed[p]: one of them ended without a commit
  before,    \* before[p]: the content when the first of them began
  content,   \* content[p]: the marks at the places of p
  begun      \* the manual transactions that were begun

position == <<pc, nth, step>>
call == <<position, where, held, raised, on>>
reports == <<reported, failed>>
ghidra == <<entries, doomed, before, content>>
vars == <<env, current, cache, tool, items, call, reports, ghidra, begun>>

Marks == Calls \X (1..MaxItems)
Original == <<NoCall, 0>>
Places == Targets \X Fields
Contents == [Places -> SUBSET (Marks \cup {Original})]
\* create_struct makes one struct; the items of update_vars are variables of
\* one function.
ItemLists(t) ==
  UNION {{l \in [1..n -> Targets] : t = "update_vars" => \A i \in 1..n : l[i] = l[1]} :
           n \in 1..(IF t = "create_struct" THEN 1 ELSE MaxItems)}

TypeOK ==
  /\ env \subseteq {"overlap", "manual", "switch"}
  /\ current \in Programs
  /\ cache \in [Targets -> Programs \cup {Nowhere}]
  /\ tool \in [Calls -> Tools]
  /\ items \in [Calls -> Seq(Targets)]
  /\ pc \in [Calls -> {"new", "open", "items", "done"}]
  /\ nth \in [Calls -> Nat \ {0}]
  /\ step \in [Calls -> Nat \ {0}]
  /\ where \in [Calls -> Programs \cup {Nowhere}]
  /\ on \in [Calls -> Programs \cup {Nowhere}]
  /\ held \in [Calls -> SUBSET (Marks \cup {Original})]
  /\ raised \in [Calls -> BOOLEAN]
  /\ reported \subseteq Marks /\ failed \subseteq Marks
  /\ entries \in [Programs -> SUBSET (Calls \cup Manual)]
  /\ doomed \in [Programs -> BOOLEAN]
  /\ before \in [Programs -> Contents]
  /\ content \in [Programs -> Contents]
  /\ begun \subseteq Manual

Init ==
  /\ env \in SUBSET {"overlap", "manual", "switch"}
  /\ current \in Programs
  /\ cache = [t \in Targets |-> Nowhere]
  /\ tool \in [Calls -> Tools]
  /\ items \in {l \in [Calls -> UNION {ItemLists(t) : t \in Tools}] :
                  \A c \in Calls : l[c] \in ItemLists(tool[c])}
  /\ pc = [c \in Calls |-> "new"]
  /\ nth = [c \in Calls |-> 1]
  /\ step = [c \in Calls |-> 1]
  /\ where = [c \in Calls |-> Nowhere]
  /\ on = [c \in Calls |-> Nowhere]
  /\ held = [c \in Calls |-> {}]
  /\ raised = [c \in Calls |-> FALSE]
  /\ reported = {} /\ failed = {}
  /\ entries = [p \in Programs |-> {}]
  /\ doomed = [p \in Programs |-> FALSE]
  \* Structs may exist or not.
  /\ \E absent \in SUBSET Targets :
       content = [p \in Programs |-> [x \in Places |->
                    IF x[2] = "struct" /\ x[1] \in absent THEN {} ELSE {Original}]]
  /\ before = content
  /\ begun = {}

-----------------------------------------------------------------------------
\* Ghidra's transactions.

Enter(p, e) ==
  /\ entries' = [entries EXCEPT ![p] = @ \cup {e}]
  /\ IF entries[p] = {}
       THEN /\ before' = [before EXCEPT ![p] = content[p]]
            /\ doomed' = [doomed EXCEPT ![p] = FALSE]
       ELSE UNCHANGED <<before, doomed>>
  /\ UNCHANGED content

Leave(p, e, commit) ==
  /\ entries' = [entries EXCEPT ![p] = @ \ {e}]
  /\ doomed' = [doomed EXCEPT ![p] = @ \/ ~commit]
  /\ content' = IF entries[p] = {e} /\ doomed'[p]
                  THEN [content EXCEPT ![p] = before[p]] ELSE content
  /\ UNCHANGED before

-----------------------------------------------------------------------------
InProgress(c) == pc[c] \in {"open", "items"}
MayStart == "overlap" \in env \/ \A c \in Calls : ~InProgress(c)

Decompiled(t) == IF cache[t] = Nowhere THEN current ELSE cache[t]

\* Before the transaction: update_vars decompiles the function, the struct
\* tools take the type manager of the current program.
Prepare(c) ==
  /\ pc[c] = "new" /\ MayStart
  /\ pc' = [pc EXCEPT ![c] = "open"]
  /\ IF tool[c] = "update_vars"
       THEN LET p == Decompiled(items[c][1]) IN
            /\ where' = [where EXCEPT ![c] = p]
            /\ cache' = [cache EXCEPT ![items[c][1]] = p]
       ELSE where' = [where EXCEPT ![c] = current] /\ UNCHANGED cache
  /\ UNCHANGED <<env, current, tool, items, nth, step, held, raised, on, reports, ghidra, begun>>

\* The function cannot be resolved or decompiled, or the struct exists.
NotPrepared(c) ==
  /\ pc[c] = "new" /\ MayStart
  /\ \/ tool[c] = "update_vars"
     \/ tool[c] = "create_struct" /\ content[current][<<items[c][1], "struct">>] # {}
  /\ pc' = [pc EXCEPT ![c] = "done"]
  /\ failed' = failed \cup {<<c, i>> : i \in 1..Len(items[c])}
  /\ UNCHANGED <<env, current, cache, tool, items, nth, step, where, held, raised, on,
                 reported, ghidra, begun>>

OpenTransaction(c) ==
  /\ pc[c] = "open"
  /\ pc' = [pc EXCEPT ![c] = "items"]
  /\ on' = [on EXCEPT ![c] = current]
  /\ Enter(current, c)
  /\ UNCHANGED <<env, current, cache, tool, items, nth, step, where, held, raised, reports, begun>>

-----------------------------------------------------------------------------
\* The items.

AtItem(c) == pc[c] = "items" /\ ~raised[c] /\ nth[c] <= Len(items[c])
Item(c) == <<c, nth[c]>>
Target(c) == items[c][nth[c]]
Steps(c) == Recipe[tool[c]]
At(c) == Steps(c)[step[c]]
Place(c) == <<Target(c), At(c)[2]>>

\* The step is done; after the last one the item is reported.
Proceed(c) ==
  /\ IF step[c] < Len(Steps(c))
       THEN /\ step' = [step EXCEPT ![c] = @ + 1]
            /\ UNCHANGED <<nth, reported>>
       ELSE /\ step' = [step EXCEPT ![c] = 1]
            /\ nth' = [nth EXCEPT ![c] = @ + 1]
            /\ reported' = reported \cup {Item(c)}
  /\ UNCHANGED <<env, current, tool, items, pc, raised, on, failed, begun>>

\* The object the step works on from here: the current program's, or the
\* cached function; the old signature is all that is taken from it when it is
\* only consulted.
TakeObject(c) ==
  /\ AtItem(c) /\ At(c)[1] \in {"find", "decompile", "consult"}
  /\ LET p == IF At(c) = Find THEN current ELSE Decompiled(Target(c)) IN
       /\ where' = IF At(c) = Consult THEN where ELSE [where EXCEPT ![c] = p]
       /\ cache' = IF At(c) = Find THEN cache ELSE [cache EXCEPT ![Target(c)] = p]
  /\ Proceed(c)
  /\ UNCHANGED <<held, ghidra>>

LookOn(c) ==
  /\ AtItem(c) /\ At(c) = Look
  /\ Proceed(c)
  /\ UNCHANGED <<cache, where, held, ghidra>>

\* Mutant: a batch copies the struct, or reads the comment, for its first item.
ReadOnce(c) ==
  /\ AtItem(c) /\ At(c)[1] = "read"
  /\ held' = IF nth[c] = 1 THEN [held EXCEPT ![c] = content[where[c]][Place(c)]] ELSE held
  /\ Proceed(c)
  /\ UNCHANGED <<cache, where, ghidra>>

\* A struct that is not there cannot be copied.
Read(c) ==
  /\ AtItem(c) /\ At(c)[1] = "read"
  /\ At(c)[2] = "struct" => content[where[c]][Place(c)] # {}
  /\ held' = [held EXCEPT ![c] = content[where[c]][Place(c)]]
  /\ Proceed(c)
  /\ UNCHANGED <<cache, where, ghidra>>

Written(c) == {Item(c)} \cup (IF At(c)[1] = "add" THEN held[c] ELSE {})

Write(c) ==
  /\ AtItem(c) /\ At(c)[1] \in {"set", "add", "clear"}
  /\ entries[where[c]] # {}
  /\ content' = [content EXCEPT ![where[c]][Place(c)] = Written(c)]
  /\ Proceed(c)
  /\ UNCHANGED <<cache, where, held, entries, doomed, before>>

WriteNothing(c) ==
  /\ AtItem(c) /\ At(c) \in MayBeIdle
  /\ Proceed(c)
  /\ UNCHANGED <<cache, where, held, ghidra>>

\* Any step may raise, and writing a program without a transaction does.
ItemFails(c) ==
  /\ AtItem(c) /\ tool[c] # "create_struct"
  /\ step' = [step EXCEPT ![c] = 1]
  /\ nth' = [nth EXCEPT ![c] = @ + 1]
  /\ failed' = failed \cup {Item(c)}
  /\ UNCHANGED <<env, current, cache, tool, items, pc, where, held, raised, on, reported, ghidra, begun>>

CallRaises(c) ==
  /\ AtItem(c) /\ Escapes(tool[c], At(c)[1])
  /\ raised' = [raised EXCEPT ![c] = TRUE]
  /\ reported' = {r \in reported : r[1] # c}
  /\ failed' = {r \in failed : r[1] # c}
  /\ UNCHANGED <<env, current, cache, tool, items, position, where, held, on, ghidra, begun>>

\* Mutant: without a with statement, an exception skips the end of the
\* transaction.
EndOnReturn(c) ==
  /\ pc[c] = "items" /\ ~AtItem(c)
  /\ pc' = [pc EXCEPT ![c] = "done"]
  /\ IF raised[c] THEN UNCHANGED ghidra ELSE Leave(on[c], c, TRUE)
  /\ UNCHANGED <<env, current, cache, tool, items, nth, step, where, held, raised, on, reports, begun>>

\* The with statement is left: what the context manager makes of an
\* exception is its own affair.
EndTransaction(c) ==
  /\ pc[c] = "items" /\ ~AtItem(c)
  /\ pc' = [pc EXCEPT ![c] = "done"]
  /\ \E commit \in IF raised[c] THEN BOOLEAN ELSE {TRUE} : Leave(on[c], c, commit)
  /\ UNCHANGED <<env, current, cache, tool, items, nth, step, where, held, raised, on, reports, begun>>

-----------------------------------------------------------------------------
BeginTrans(m) ==
  /\ "manual" \in env /\ MayStart
  /\ m \notin begun
  /\ begun' = begun \cup {m}
  /\ Enter(current, m)
  /\ UNCHANGED <<env, current, cache, tool, items, call, reports>>

\* An id that is not open in the current program is an error that changes
\* nothing.
EndTrans(m, commit) ==
  /\ MayStart
  /\ m \in begun /\ m \in entries[current]
  /\ Leave(current, m, commit)
  /\ UNCHANGED <<env, current, cache, tool, items, call, reports, begun>>

\* The user shows another program.
Switch(p) ==
  /\ "switch" \in env /\ p # current
  /\ current' = p
  /\ UNCHANGED <<env, cache, tool, items, call, reports, ghidra, begun>>

Next ==
  \/ \E c \in Calls :
       \/ Prepare(c) \/ NotPrepared(c) \/ OpenTransaction(c)
       \/ TakeObject(c) \/ LookOn(c) \/ Read(c) \/ Write(c) \/ WriteNothing(c)
       \/ ItemFails(c) \/ CallRaises(c) \/ EndTransaction(c)
  \/ \E m \in Manual : BeginTrans(m) \/ \E commit \in BOOLEAN : EndTrans(m, commit)
  \/ \E p \in Programs : Switch(p)

Spec == Init /\ [][Next]_vars

-----------------------------------------------------------------------------

\* Who is about to replace what is at x of program p.
Replaces(c, p, x) ==
  AtItem(c) /\ At(c)[1] \in {"set", "clear"} /\ where[c] = p /\ Place(c) = x

\* What a tool reported as written is in the program until somebody writes
\* the same place anew, or a transaction the client began itself is taken
\* back: appending to a comment or a struct loses nothing, and neither an
\* item that fails nor a call that raises takes the written ones with it.
\* (Calls that overlap do lose fields of structs and parts of comments.)
KeepsReported ==
  "overlap" \notin env =>
    \A p \in Programs : \A x \in Places :
      \A r \in reported : r \in content[p][x] /\ r \notin content'[p][x] =>
        \/ \E c \in Calls : Replaces(c, p, x)
        \/ \E m \in Manual : m \in entries[p] \ entries'[p]

ReportedIsKept == [][KeepsReported]_vars

\* Where an item that was reported as failed may have written all the same.
Leftovers == [t \in Tools |-> CASE t = "set_prototype" -> {"plate"}
                               [] t = "patch" -> {"code", "bytes"}
                               [] t = "both" -> {"eol"}
                               [] OTHER -> {}]

\* An item that was reported as failed has changed nothing, but for the
\* comment that announces a new prototype, the first of two comments, and what
\* a patch does before its last step: the listing it cleared, which comes first
\* and is not restored if the bytes cannot be written, and bytes that would not
\* disassemble (the items' try in tools/modify.py and tools/types.py).
FailuresLeaveLittle ==
  \A p \in Programs : \A x \in Places : \A r \in content[p][x] \cap failed :
    x[2] \in Leftovers[tool[r[1]]]

\* While calls do not overlap and no client holds a transaction open, a call
\* writes to the one program it began with, whatever the user shows meanwhile
\* and whatever the cache returns.
StaysInItsProgram ==
  env \cap {"overlap", "manual"} = {} =>
    \A p \in Programs : \A x \in Places : \A r \in content[p][x] :
      r # Original => p = on[r[1]]
=============================================================================
