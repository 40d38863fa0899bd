------------------------------ MODULE MCWrites ------------------------------
(* Writes, for TLC: two batches of two symbols, or two calls on one target.   *)
EXTENDS Writes, TLC

\* The half that rests is in one state.
RestOfQuestions ==
  /\ env = {} /\ items = [c \in Calls |-> <<>>] /\ label = [s \in Symbols |-> "auto"]

RestOfWriting ==
  /\ wEnv = {} /\ tool = [c \in Calls |-> "patch"]
  /\ \E t \in Targets : wItems = [c \in Calls |-> <<t>>]
  /\ content = [p \in Programs |-> [x \in W!Places |-> {W!Original}]]

\* One disturbance at a time; single items where calls overlap or the
\* user switches, and one list of two items elsewhere.
SmallWriting ==
  /\ wEnv \in {{}, {"overlap"}, {"manual"}, {"switch"}}
  /\ \E c \in Calls : Len(wItems[c]) = 1
  /\ wEnv \in {{"overlap"}, {"switch"}} => \A c \in Calls : Len(wItems[c]) = 1

MCInit ==
  /\ half \in {"questions", "writing"}
  /\ half = "questions" => RestOfWriting
  /\ half = "writing" => RestOfQuestions
  /\ HalfInit
  /\ half = "writing" => SmallWriting

MCSpec == MCInit /\ [][HalfNext]_halfVars

Symmetry == Permutations(Calls) \cup Permutations(Symbols) \cup Permutations(Programs)
=============================================================================
