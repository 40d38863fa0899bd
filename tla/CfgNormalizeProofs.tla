------------------------- MODULE CfgNormalizeProofs -------------------------
(***************************************************************************)
(* Proofs about CfgNormalize.  The inductive invariant relates the blocks  *)
(* of the result to the graph that was given: every block is a chain of    *)
(* continuations and has the successors of the chain's end (Chained), no   *)
(* block of the input is lost or doubled (OnceEach), what joins two edges  *)
(* in the result did so in the input (JoinsOfInput), and a round in which  *)
(* nothing was absorbed has found nothing to absorb (Unabsorbed).          *)
(***************************************************************************)
EXTENDS CfgNormalize, SequenceTheorems, FiniteSetTheorems, WellFoundedInduction, TLAPS

-----------------------------------------------------------------------------
(***************************************************************************)
(* What the operators on lists return: At, the entries at some places, and *)
(* Ascending, the entries in order.  Both pick by counting; that there is  *)
(* an entry to pick follows from the least of the numbers that count far   *)
(* enough.                                                                 *)
(***************************************************************************)

\* Of any numbers one is the least.
LEMMA Least ==
  ASSUME NEW T \in SUBSET Nat, T # {}
  PROVE  \E m \in T : \A k \in T : m <= k
<1> DEFINE R == {p \in Nat \X Nat : p[1] < p[2]}
<1>1. R = OpToRel(<, Nat)
  BY Zenon DEF OpToRel
<1>2. IsWellFoundedOn(R, Nat)
  BY <1>1, NatLessThanWellFounded, Zenon
<1>3. \A x, y \in Nat : <<y, x>> \notin R => x <= y
  OBVIOUS
<1> HIDE DEF R
<1>4. PICK m \in T : \A k \in T : <<k, m>> \notin R
  BY <1>2, WFMin
<1> QED BY <1>3, <1>4

\* The places of a list, or some of them, are finite in number.
LEMMA PlacesAreFinite ==
  ASSUME NEW n \in Nat
  PROVE  /\ IsFiniteSet(1..n) /\ Cardinality(1..n) = n
         /\ \A ps \in SUBSET (1..n) : IsFiniteSet(ps) /\ Cardinality(ps) \in Nat
<1>1. 1 \in Int /\ n \in Int
  OBVIOUS
<1>2. IsFiniteSet(1..n) /\ Cardinality(1..n) = IF 1 > n THEN 0 ELSE n - 1 + 1
  BY ONLY <1>1, FS_Interval
<1>3. Cardinality(1..n) = n
  BY <1>2
<1>4. ASSUME NEW ps \in SUBSET (1..n) PROVE IsFiniteSet(ps) /\ Cardinality(ps) \in Nat
  <2>1. IsFiniteSet(ps)
    BY <1>2, FS_Subset
  <2> QED BY <2>1, FS_CardinalityType
<1> QED BY <1>2, <1>3, <1>4

\* Of the places of a list, or of some of them, one is the n-th.
LEMMA NthPlace ==
  ASSUME NEW len \in Nat, NEW ps \in SUBSET (1..len), NEW n \in 1..Cardinality(ps)
  PROVE  \E i \in ps : Cardinality({j \in ps : j <= i}) = n
<1> DEFINE UpTo(i) == {j \in ps : j <= i}
<1> DEFINE T == {i \in Nat : n <= Cardinality(UpTo(i))}
<1>1. IsFiniteSet(ps) /\ Cardinality(ps) \in Nat
  BY PlacesAreFinite
<1>2. \A i \in Nat : IsFiniteSet(UpTo(i)) /\ Cardinality(UpTo(i)) \in Nat
  <2>1. \A i \in Nat : UpTo(i) \in SUBSET ps
    OBVIOUS
  <2> HIDE DEF UpTo
  <2> QED BY <1>1, <2>1, FS_Subset, FS_CardinalityType
<1>3. /\ UpTo(len) = ps /\ UpTo(0) = {}
      /\ \A i \in ps : i \in Nat \ {0} /\ i \in UpTo(i) /\ i \notin UpTo(i - 1)
      /\ \A i \in Nat \ {0} : UpTo(i) = IF i \in ps THEN UpTo(i - 1) \cup {i} ELSE UpTo(i - 1)
  <2>1. \A i \in ps : i \in Nat \ {0} /\ i <= len
    OBVIOUS
  <2>2. UpTo(len) = ps
    BY <2>1
  <2>3. UpTo(0) = {}
    <3>1. \A i \in ps : ~(i <= 0)
      BY <2>1
    <3> QED BY <3>1
  <2>4. \A i \in ps : i \in UpTo(i) /\ i \notin UpTo(i - 1)
    BY <2>1
  <2>5. ASSUME NEW i \in Nat \ {0}
        PROVE  UpTo(i) = IF i \in ps THEN UpTo(i - 1) \cup {i} ELSE UpTo(i - 1)
    <3>1. \A j \in ps : j <= i <=> j <= i - 1 \/ j = i
      BY <2>1
    <3> QED BY <2>1, <3>1
  <2> QED BY <2>1, <2>2, <2>4, <2>5, <2>3
<1> HIDE DEF UpTo
<1>4. len \in T
  BY <1>1, <1>3
<1>5. PICK m \in T : \A k \in T : m <= k
  <2> HIDE DEF T
  <2>1. T \in SUBSET Nat
    BY DEF T
  <2> QED BY <1>4, <2>1, Least
<1>6. m \in Nat \ {0} /\ n <= Cardinality(UpTo(m))
  BY <1>3, FS_EmptySet
<1>7. m - 1 \in Nat /\ ~(n <= Cardinality(UpTo(m - 1)))
  BY <1>5, <1>6
<1>8. m \in ps /\ Cardinality(UpTo(m)) = Cardinality(UpTo(m - 1)) + 1
  <2>1. m \in ps
    BY <1>3, <1>6, <1>7
  <2>2. Cardinality(UpTo(m - 1) \cup {m}) = Cardinality(UpTo(m - 1)) + 1
    BY <1>2, <1>3, <1>7, <2>1, FS_AddElement
  <2> QED BY <1>3, <1>6, <2>1, <2>2
<1>9. Cardinality(UpTo(m)) = n
  BY <1>2, <1>6, <1>7, <1>8
<1> QED BY <1>8, <1>9 DEF UpTo

\* The entries of a list at some of its places are a list of the same things.
LEMMA AtType ==
  ASSUME NEW S, NEW s \in Seq(S), NEW ps \in SUBSET (1..Len(s))
  PROVE  At(s, ps) \in Seq(S)
<1> DEFINE nth(n) == CHOOSE i \in ps : Cardinality({j \in ps : j <= i}) = n
<1>1. Cardinality(ps) \in Nat /\ Len(s) \in Nat
  BY PlacesAreFinite
<1>2. ASSUME NEW n \in 1..Cardinality(ps) PROVE nth(n) \in ps
  <2>1. \E i \in ps : Cardinality({j \in ps : j <= i}) = n
    BY <1>1, NthPlace
  <2> QED BY <2>1
<1> HIDE DEF nth
<1>3. ASSUME NEW n \in 1..Cardinality(ps) PROVE s[nth(n)] \in S
  <2>1. nth(n) \in 1..Len(s)
    BY <1>2
  <2> QED BY <2>1
<1>4. At(s, ps) = [n \in 1..Cardinality(ps) |-> s[nth(n)]]
  BY DEF At, nth
<1> QED BY <1>1, <1>3, <1>4

\* Below(s, b) entries of s are less than b, UpTo(s, b) are not greater.
Below(s, b) == Cardinality({i \in 1..Len(s) : s[i] < b})
UpTo(s, b) == Cardinality({i \in 1..Len(s) : s[i] <= b})

\* Counting entries, the numbers and the places of a list.
LEMMA Counts ==
  ASSUME NEW s \in Seq(Nat), NEW b \in Nat
  PROVE  /\ Below(s, b) \in Nat /\ UpTo(s, b) \in Nat
         /\ Below(s, b) <= UpTo(s, b) /\ UpTo(s, b) <= Len(s)
         /\ \A c \in Nat : b < c => UpTo(s, b) <= Below(s, c)
         /\ UpTo(s, b) = Below(s, b + 1)
         /\ Below(s, 0) = 0
         /\ b \notin ToSet(s) => Below(s, b) = UpTo(s, b)
         /\ b \in ToSet(s) => Below(s, b) < UpTo(s, b)
         /\ (\A i \in 1..Len(s) : s[i] <= b) => UpTo(s, b) = Len(s)
<1> DEFINE Lo(c) == {i \in 1..Len(s) : s[i] < c}
<1> DEFINE Hi(c) == {i \in 1..Len(s) : s[i] <= c}
<1>1. /\ 1..Len(s) = DOMAIN s /\ \A i \in 1..Len(s) : s[i] \in Nat
      /\ Len(s) \in Nat
  OBVIOUS
<1>2. /\ \A c \in Nat : Lo(c) \in SUBSET Hi(c) /\ Hi(c) \in SUBSET (1..Len(s)) /\ Lo(c) \in SUBSET (1..Len(s))
      /\ \A c \in Nat : b < c => Hi(b) \in SUBSET Lo(c)
      /\ Hi(b) = Lo(b + 1) /\ Lo(0) = {}
      /\ (\A i \in 1..Len(s) : s[i] <= b) => Hi(b) = 1..Len(s)
  BY <1>1
<1>3. b \notin ToSet(s) => Lo(b) = Hi(b)
  BY <1>1 DEF ToSet
<1>4. b \in ToSet(s) => Lo(b) # Hi(b)
  <2> SUFFICES ASSUME b \in ToSet(s) PROVE Lo(b) # Hi(b)
    OBVIOUS
  <2>1. PICK i \in 1..Len(s) : s[i] = b
    BY <1>1 DEF ToSet
  <2>2. i \in Hi(b) /\ i \notin Lo(b)
    BY <2>1
  <2> QED BY <2>2
<1> HIDE DEF Lo, Hi
<1>5. IsFiniteSet(1..Len(s)) /\ Cardinality(1..Len(s)) = Len(s)
  BY <1>1, PlacesAreFinite
<1>6. \A c \in Nat : /\ IsFiniteSet(Lo(c)) /\ Cardinality(Lo(c)) \in Nat
                     /\ IsFiniteSet(Hi(c)) /\ Cardinality(Hi(c)) \in Nat
                     /\ Cardinality(Hi(c)) <= Len(s)
  BY <1>2, <1>5, FS_Subset, FS_CardinalityType
<1>7. /\ Cardinality(Lo(b)) <= Cardinality(Hi(b))
      /\ Cardinality(Lo(b)) = Cardinality(Hi(b)) => Lo(b) = Hi(b)
  BY <1>2, <1>6, FS_Subset
<1>8. \A c \in Nat : b < c => Cardinality(Hi(b)) <= Cardinality(Lo(c))
  BY <1>2, <1>6, FS_Subset
<1>9. \A c \in Nat : Below(s, c) = Cardinality(Lo(c)) /\ UpTo(s, c) = Cardinality(Hi(c))
  BY DEF Below, UpTo, Lo, Hi
<1>10. b + 1 \in Nat /\ 0 \in Nat
  OBVIOUS
<1>11. UpTo(s, b) = Below(s, b + 1)
  BY <1>2, <1>9, <1>10
<1>12. Below(s, 0) = 0
  BY <1>2, <1>9, <1>10, FS_EmptySet
<1>13. b \notin ToSet(s) => Below(s, b) = UpTo(s, b)
  BY <1>3, <1>9
<1>14. b \in ToSet(s) => Below(s, b) < UpTo(s, b)
  BY <1>4, <1>6, <1>7, <1>9
<1>15. (\A i \in 1..Len(s) : s[i] <= b) => UpTo(s, b) = Len(s)
  BY <1>2, <1>5, <1>9
<1> QED
  BY <1>6, <1>7, <1>8, <1>9, <1>11, <1>12, <1>13, <1>14, <1>15

\* There is an n-th entry in the order of numbers.
LEMMA NthEntry ==
  ASSUME NEW s \in Seq(Nat), NEW n \in 1..Len(s)
  PROVE  \E b \in ToSet(s) : Below(s, b) < n /\ n <= UpTo(s, b)
<1>1. /\ ToSet(s) \in SUBSET Nat /\ Len(s) \in Nat \ {0}
      /\ \A i \in 1..Len(s) : s[i] \in ToSet(s)
      /\ n \in Nat \ {0}
  BY DEF ToSet
<1>2. \E b \in Nat : n <= UpTo(s, b)
  <2> DEFINE Above == {Len(s) - UpTo(s, b) : b \in Nat}
  <2>1. ASSUME NEW b \in Nat PROVE Len(s) - UpTo(s, b) \in Nat
    <3>1. UpTo(s, b) \in Nat /\ UpTo(s, b) <= Len(s) /\ Len(s) \in Nat
      BY <1>1, Counts
    <3> QED BY ONLY <3>1
  <2>2. Above \in SUBSET Nat /\ Above # {}
    BY <2>1
  <2> HIDE DEF Above
  <2>3. PICK m \in Above : \A k \in Above : m <= k
    BY <2>2, Least
  <2>4. PICK b \in Nat : m = Len(s) - UpTo(s, b)
    BY <2>3 DEF Above
  <2>5. \A i \in 1..Len(s) : s[i] <= b
    <3> SUFFICES ASSUME NEW i \in 1..Len(s), b < s[i] PROVE FALSE
      BY <1>1
    <3>1. s[i] \in Nat /\ s[i] \in ToSet(s)
      BY <1>1
    <3>2. /\ UpTo(s, b) <= Below(s, s[i]) /\ Below(s, s[i]) < UpTo(s, s[i])
          /\ UpTo(s, b) \in Nat /\ Below(s, s[i]) \in Nat /\ UpTo(s, s[i]) \in Nat
      BY <3>1, Counts
    <3>3. m <= Len(s) - UpTo(s, s[i])
      BY <2>3, <3>1 DEF Above
    <3> QED BY <1>1, <2>4, <3>2, <3>3
  <2>6. UpTo(s, b) = Len(s)
    BY <2>5, Counts
  <2> QED BY <1>1, <2>6
<1> DEFINE T == {b \in Nat : n <= UpTo(s, b)}
<1>3. T \in SUBSET Nat /\ T # {}
  BY <1>2
<1>4. PICK b \in T : \A k \in T : b <= k
  <2> HIDE DEF T
  <2> QED BY <1>3, Least
<1>5. Below(s, b) < n
  <2>1. CASE b = 0
    BY <1>1, <2>1, Counts
  <2>2. CASE b # 0
    <3>1. b - 1 \in Nat /\ b = (b - 1) + 1
      BY <2>2
    <3>2. ~(n <= UpTo(s, b - 1))
      BY <1>4, <3>1
    <3>3. UpTo(s, b - 1) = Below(s, b) /\ UpTo(s, b - 1) \in Nat
      BY <3>1, Counts
    <3> QED BY <1>1, <3>2, <3>3
  <2> QED BY <2>1, <2>2
<1>6. b \in ToSet(s)
  <2>1. b \notin ToSet(s) => Below(s, b) = UpTo(s, b)
    BY Counts
  <2>2. n <= UpTo(s, b) /\ UpTo(s, b) \in Nat /\ b \in Nat
    BY Counts
  <2> QED BY <1>1, <1>5, <2>1, <2>2
<1> QED BY <1>5, <1>6

\* What Ascending returns has the entry of every place, ...
LEMMA AscendingIs ==
  ASSUME NEW s \in Seq(Nat)
  PROVE  /\ Ascending(s) \in Seq(Nat) /\ Len(Ascending(s)) = Len(s)
         /\ \A n \in 1..Len(s) :
              /\ Ascending(s)[n] \in ToSet(s)
              /\ Below(s, Ascending(s)[n]) < n /\ n <= UpTo(s, Ascending(s)[n])
<1> DEFINE entry(n) == CHOOSE b \in ToSet(s) : Below(s, b) < n /\ n <= UpTo(s, b)
<1>1. \A n \in 1..Len(s) : /\ entry(n) \in ToSet(s)
                           /\ Below(s, entry(n)) < n /\ n <= UpTo(s, entry(n))
  BY NthEntry
<1>2. Ascending(s) = [n \in 1..Len(s) |-> entry(n)]
  BY DEF Ascending, Below, UpTo
<1> HIDE DEF entry
<1>3. ToSet(s) \subseteq Nat /\ Len(s) \in Nat
  BY DEF ToSet
<1> QED BY <1>1, <1>2, <1>3

\* ... in ascending order, ...
LEMMA AscendingAscends ==
  ASSUME NEW s \in Seq(Nat), NEW m \in 1..Len(s), NEW n \in 1..Len(s), m <= n
  PROVE  Ascending(s)[m] <= Ascending(s)[n]
<1> DEFINE a == Ascending(s)[m]
           b == Ascending(s)[n]
<1>1. a \in Nat /\ b \in Nat /\ Below(s, a) < m /\ n <= UpTo(s, b)
  BY AscendingIs DEF ToSet
<1> HIDE DEF a, b
<1>2. /\ UpTo(s, b) \in Nat /\ Below(s, a) \in Nat
      /\ b < a => UpTo(s, b) <= Below(s, a)
  BY <1>1, Counts
<1>3. m \in Nat /\ n \in Nat
  OBVIOUS
<1>4. a <= b
  BY <1>1, <1>2, <1>3
<1> QED BY <1>4 DEF a, b

\* ... and each number as often as it is in the list.
LEMMA AscendingCounts ==
  ASSUME NEW s \in Seq(Nat), NEW b \in Nat
  PROVE  Cardinality({n \in 1..Len(s) : Ascending(s)[n] = b}) = Cardinality({i \in 1..Len(s) : s[i] = b})
<1> DEFINE Lo == {i \in 1..Len(s) : s[i] < b}
           Is == {i \in 1..Len(s) : s[i] = b}
           Hi == {i \in 1..Len(s) : s[i] <= b}
           Out == {n \in 1..Len(s) : Ascending(s)[n] = b}
<1>1. Len(s) \in Nat /\ \A i \in 1..Len(s) : s[i] \in Nat /\ s[i] \in ToSet(s)
  BY DEF ToSet
<1>2. /\ Below(s, b) \in Nat /\ UpTo(s, b) \in Nat
      /\ Below(s, b) <= UpTo(s, b) /\ UpTo(s, b) <= Len(s)
  BY Counts
<1>3. Cardinality(Is) = UpTo(s, b) - Below(s, b)
  <2>1. /\ Lo \in SUBSET (1..Len(s)) /\ Is \in SUBSET (1..Len(s))
        /\ Hi = Lo \cup Is /\ Lo \cap Is = {}
    BY <1>1
  <2>2. Below(s, b) = Cardinality(Lo) /\ UpTo(s, b) = Cardinality(Hi)
    BY DEF Below, UpTo
  <2> HIDE DEF Lo, Is, Hi
  <2>3. /\ IsFiniteSet(Lo) /\ Cardinality(Lo) \in Nat
        /\ IsFiniteSet(Is) /\ Cardinality(Is) \in Nat
    BY <1>1, <2>1, PlacesAreFinite
  <2>4. Cardinality(Hi) = Cardinality(Lo) + Cardinality(Is) - Cardinality(Lo \cap Is)
    BY <2>1, <2>3, FS_Union
  <2>5. Cardinality(Lo \cap Is) = 0
    BY <2>1, FS_EmptySet
  <2> QED BY <2>1, <2>2, <2>3, <2>4, <2>5
<1>4. Out = (Below(s, b) + 1)..UpTo(s, b)
  <2>1. ASSUME NEW n \in 1..Len(s) PROVE Ascending(s)[n] = b <=> Below(s, b) < n /\ n <= UpTo(s, b)
    <3> DEFINE a == Ascending(s)[n]
    <3>1. a \in Nat /\ Below(s, a) < n /\ n <= UpTo(s, a)
      BY AscendingIs DEF ToSet
    <3> HIDE DEF a
    <3>2. /\ UpTo(s, a) \in Nat /\ Below(s, a) \in Nat
          /\ a < b => UpTo(s, a) <= Below(s, b)
      BY <3>1, Counts
    <3>3. b < a => UpTo(s, b) <= Below(s, a)
      BY <3>1, Counts
    <3>4. n \in Nat
      OBVIOUS
    <3>5. a = b <=> Below(s, b) < n /\ n <= UpTo(s, b)
      BY <1>2, <3>1, <3>2, <3>3, <3>4
    <3> QED BY <3>5 DEF a
  <2> HIDE DEF Out
  <2>2. ASSUME NEW n PROVE n \in Out <=> n \in (Below(s, b) + 1)..UpTo(s, b)
    <3>1. n \in Out <=> n \in 1..Len(s) /\ Below(s, b) < n /\ n <= UpTo(s, b)
      BY <2>1 DEF Out
    <3>2. n \in (Below(s, b) + 1)..UpTo(s, b) <=> n \in 1..Len(s) /\ Below(s, b) < n /\ n <= UpTo(s, b)
      BY <1>1, <1>2
    <3> QED BY <3>1, <3>2
  <2> QED BY <2>2
<1>5. Cardinality((Below(s, b) + 1)..UpTo(s, b)) = UpTo(s, b) - Below(s, b)
  <2>1. Below(s, b) + 1 \in Int /\ UpTo(s, b) \in Int
    BY <1>2
  <2>2. Cardinality((Below(s, b) + 1)..UpTo(s, b)) =
          IF Below(s, b) + 1 > UpTo(s, b) THEN 0 ELSE UpTo(s, b) - (Below(s, b) + 1) + 1
    BY ONLY <2>1, FS_Interval
  <2> QED BY <1>2, <2>2
<1> QED BY <1>3, <1>4, <1>5

\* The entries at some places of a list are in the order of the list: their
\* places grow, and none of the places is left out.
LEMMA AtKeepsOrder ==
  ASSUME NEW S, NEW s \in Seq(S), NEW ps \in SUBSET (1..Len(s))
  PROVE  \E place \in [1..Len(At(s, ps)) -> ps] :
           /\ \A n \in 1..Len(At(s, ps)) : At(s, ps)[n] = s[place[n]]
           /\ \A m, n \in 1..Len(At(s, ps)) : m < n => place[m] < place[n]
           /\ \A i \in ps : \E n \in 1..Len(At(s, ps)) : place[n] = i
<1> DEFINE Before(i) == {j \in ps : j <= i}
           k == Cardinality(ps)
           nth(n) == CHOOSE i \in ps : Cardinality(Before(i)) = n
           place == [n \in 1..k |-> nth(n)]
<1>1. Len(s) \in Nat /\ k \in Nat /\ IsFiniteSet(ps)
  BY PlacesAreFinite
<1>2. \A n \in 1..k : \E i \in ps : Cardinality(Before(i)) = n
  BY <1>1, NthPlace
<1>3. At(s, ps) = [n \in 1..k |-> s[nth(n)]]
  BY DEF At
<1>4. \A n \in 1..k : nth(n) \in ps /\ Cardinality(Before(nth(n))) = n
  BY <1>2
<1> HIDE DEF nth
<1>5. \A n \in 1..k : place[n] \in ps /\ Cardinality(Before(place[n])) = n
  BY <1>4
<1>6. /\ At(s, ps) = [n \in 1..k |-> s[place[n]]]
      /\ place = [n \in 1..k |-> place[n]]
  BY <1>3
<1> HIDE DEF place
<1>7. \A i \in ps : i \in Nat
  OBVIOUS
<1>8. ASSUME NEW i \in ps PROVE Before(i) \in SUBSET ps /\ i \in Before(i) /\ Cardinality(Before(i)) \in 1..k
  <2>1. Before(i) \in SUBSET ps /\ i \in Before(i)
    BY <1>7
  <2> HIDE DEF Before
  <2>2. IsFiniteSet(Before(i)) /\ Cardinality(Before(i)) \in Nat /\ Cardinality(Before(i)) <= k
    BY <1>1, <2>1, FS_Subset, FS_CardinalityType
  <2>3. Cardinality(Before(i)) # 0
    BY <2>1, <2>2, FS_EmptySet
  <2> QED BY <1>1, <2>1, <2>2, <2>3
<1>9. ASSUME NEW i \in ps, NEW j \in ps, i < j PROVE Cardinality(Before(i)) < Cardinality(Before(j))
  <2>1. Before(i) \in SUBSET Before(j) /\ j \in Before(j) /\ j \notin Before(i)
    <3>1. \A h \in ps : h <= i => h <= j
      BY <1>7, <1>9
    <3>2. j <= j /\ ~(j <= i)
      BY <1>7, <1>9
    <3> QED BY <3>1, <3>2
  <2>2. IsFiniteSet(Before(j)) /\ Cardinality(Before(i)) \in Nat /\ Cardinality(Before(j)) \in Nat
    <3>1. Before(j) \in SUBSET ps
      OBVIOUS
    <3> HIDE DEF Before
    <3> QED BY <1>1, <1>8, <3>1, FS_Subset
  <2> HIDE DEF Before
  <2>3. /\ Cardinality(Before(i)) <= Cardinality(Before(j))
        /\ Cardinality(Before(i)) = Cardinality(Before(j)) => Before(i) = Before(j)
    BY <2>1, <2>2, FS_Subset
  <2> QED BY <2>1, <2>2, <2>3
<1> HIDE DEF Before, k
<1>10. Len(At(s, ps)) = k
  BY <1>1, <1>6
<1>11. ASSUME NEW m \in 1..k, NEW n \in 1..k, m < n PROVE place[m] < place[n]
  <2>1. place[m] \in ps /\ place[n] \in ps /\ place[m] \in Nat /\ place[n] \in Nat
    BY <1>5, <1>7
  <2>2. Cardinality(Before(place[m])) = m /\ Cardinality(Before(place[n])) = n
    BY <1>5
  <2>3. m \in Nat /\ n \in Nat
    BY <1>1
  <2>4. place[n] < place[m] => n < m
    BY <1>9, <2>1, <2>2
  <2> QED BY <1>11, <2>1, <2>2, <2>3, <2>4
<1>12. ASSUME NEW i \in ps PROVE \E n \in 1..k : place[n] = i
  <2> DEFINE n == Cardinality(Before(i))
  <2>1. n \in 1..k
    BY <1>8
  <2>2. place[n] \in ps /\ Cardinality(Before(place[n])) = n
    BY <1>5, <2>1
  <2>3. place[n] \in Nat /\ i \in Nat
    BY <1>7, <2>2
  <2>4. n \in Nat
    BY <1>1, <2>1
  <2> HIDE DEF n
  <2>5. place[n] < i => n < n
    BY <1>9, <2>2 DEF n
  <2>6. i < place[n] => n < n
    BY <1>9, <2>2 DEF n
  <2>7. place[n] = i
    BY <2>3, <2>5, <2>6, <2>4
  <2> QED BY <2>1, <2>7
<1>13. place \in [1..k -> ps]
  BY <1>5, <1>6
<1>14. \A n \in 1..k : At(s, ps)[n] = s[place[n]]
  BY <1>6
<1> QED BY <1>10, <1>11, <1>12, <1>13, <1>14

\* Each thing is among those entries as often as it is at those places.
LEMMA AtCounts ==
  ASSUME NEW S, NEW s \in Seq(S), NEW ps \in SUBSET (1..Len(s)), NEW b
  PROVE  Times(At(s, ps), b) = Cardinality({i \in ps : s[i] = b})
<1> DEFINE k == Len(At(s, ps))
           there == {n \in 1..k : At(s, ps)[n] = b}
           here == {i \in ps : s[i] = b}
<1>1. At(s, ps) \in Seq(S) /\ k \in Nat
  BY AtType
<1>2. PICK place \in [1..k -> ps] :
        /\ \A n \in 1..k : At(s, ps)[n] = s[place[n]]
        /\ \A m, n \in 1..k : m < n => place[m] < place[n]
        /\ \A i \in ps : \E n \in 1..k : place[n] = i
  BY AtKeepsOrder
<1> HIDE DEF k
<1> DEFINE f == [n \in there |-> place[n]]
<1>3. f \in [there -> here]
  BY <1>2
<1>4. ASSUME NEW m \in there, NEW n \in there, f[m] = f[n] PROVE m = n
  <2>1. place[m] = place[n] /\ m \in 1..k /\ n \in 1..k
    BY <1>4
  <2>2. place[m] \in ps /\ place[m] \in Nat
    BY <1>2, <2>1
  <2>3. ~(m < n) /\ ~(n < m)
    BY <1>2, <2>1, <2>2
  <2> QED BY <1>1, <2>1, <2>3
<1>5. ASSUME NEW i \in here PROVE \E n \in there : f[n] = i
  <2>1. PICK n \in 1..k : place[n] = i
    BY <1>2
  <2>2. n \in there
    BY <1>2, <2>1
  <2> QED BY <2>1, <2>2
<1>6. IsFiniteSet(there)
  <2>1. there \in SUBSET (1..k)
    OBVIOUS
  <2> QED BY <1>1, <2>1, PlacesAreFinite
<1> HIDE DEF f, there, here
<1>7. f \in Bijection(there, here)
  BY <1>3, <1>4, <1>5 DEF Bijection, Injection, Surjection, IsInjective
<1>8. Cardinality(here) = Cardinality(there)
  BY <1>6, <1>7, FS_Bijection DEF ExistsBijection
<1> QED BY <1>8 DEF Times, k, there, here

-----------------------------------------------------------------------------
(***************************************************************************)
(* The inductive invariant.                                                *)
(***************************************************************************)

End(h) == content[h][Len(content[h])]

Typed ==
  /\ blocks \subseteq Nat
  /\ length \in [blocks -> Nat \ {0}]
  /\ live \subseteq blocks
  /\ size \in [live -> Nat \ {0}]
  /\ content \in [live -> Seq(blocks)]
  /\ pass \in {"filter", "count", "merge", "sort", "done"}
  /\ todo \subseteq blocks
  /\ changed \in BOOLEAN

Chained ==
  \A h \in live :
    /\ Len(content[h]) \in Nat \ {0}
    /\ content[h][1] = h
    /\ h + size[h] = End(h) + length[End(h)]
    /\ \A i \in 1..(Len(content[h]) - 1) : Continues(content[h][i], content[h][i + 1])
    /\ succ[h] = IF pass = "done" THEN Ascending(kept[End(h)]) ELSE kept[End(h)]

Part(b, h, i) == h \in live /\ i \in 1..Len(content[h]) /\ content[h][i] = b

OnceEach ==
  \A b \in blocks :
    /\ \E h, i : Part(b, h, i)
    /\ \A h, i, g, j : Part(b, h, i) /\ Part(b, g, j) => g = h /\ j = i

JoinsOfInput ==
  pass # "done" => \A b \in live : Joins(live, succ, b) <=> Joins(blocks, kept, b)

Unabsorbed ==
  /\ pass = "merge" /\ ~changed => \A a \in live \ todo : \A b \in live : ~Straight(a, b)
  /\ pass \in {"sort", "done"} => \A h \in live : \A b \in blocks : ~Continues(End(h), b)

\* Before pass 1 nothing is joined, and what is kept is not known yet.
Unstarted ==
  /\ live = blocks /\ size = length
  /\ content = [a \in blocks |-> <<a>>]

Inv ==
  /\ Typed
  /\ pass = "filter" => Unstarted
  /\ pass # "filter" => Chained /\ OnceEach /\ JoinsOfInput /\ CountsStayRight /\ Unabsorbed

-----------------------------------------------------------------------------

\* Filtering makes the given graph one of chains of a single block.
LEMMA FilterInv == Inv /\ Filter => Inv'
<1> SUFFICES ASSUME Inv, Filter PROVE Inv'
  OBVIOUS
<1> USE DEF Inv, Filter, Unstarted, input
<1>1. Typed'
  BY DEF Typed
<1>2. \A h \in blocks : content[h] = <<h>> /\ Len(content[h]) = 1 /\ content[h][1] = h
  OBVIOUS
<1>3. live' = blocks /\ content' = content /\ size' = length /\ length' = length /\ succ' = kept' /\ pass' = "count"
  OBVIOUS
<1>4. ASSUME NEW h \in blocks PROVE End(h)' = h
  BY <1>2, <1>3 DEF End
<1>5. Chained'
  <2> SUFFICES ASSUME NEW h \in blocks
               PROVE /\ Len(content'[h]) \in Nat \ {0}
                     /\ content'[h][1] = h
                     /\ h + size'[h] = End(h)' + length'[End(h)']
                     /\ \A i \in 1..(Len(content'[h]) - 1) : Continues(content[h][i], content[h][i + 1])'
                     /\ succ'[h] = kept'[End(h)']
    BY <1>3 DEF Chained
  <2> HIDE DEF Inv, Filter, Unstarted, input
  <2>1. Len(content'[h]) = 1 /\ content'[h][1] = h /\ End(h)' = h
    BY <1>2, <1>3, <1>4
  <2>2. 1..(Len(content'[h]) - 1) = {}
    BY <2>1
  <2> QED BY <1>3, <2>1, <2>2
<1>6. OnceEach'
  BY <1>2, <1>3 DEF OnceEach, Part
<1>7. JoinsOfInput'
  BY <1>3 DEF JoinsOfInput, Joins
<1> QED BY <1>1, <1>3, <1>5, <1>6, <1>7 DEF CountsStayRight, Unabsorbed

\* What only concerns the chains does not change when they and the input do
\* not; EndRound, Pass and the head of a round leave them alone.
LEMMA SameChains ==
  ASSUME Inv, pass # "filter", UNCHANGED <<input, kept, result>>, pass # "done", pass' # "done"
  PROVE  Chained' /\ OnceEach' /\ JoinsOfInput' /\ (\A h \in live : End(h)' = End(h))
<1> USE DEF input, result
<1>1. \A h \in live : End(h)' = End(h)
  BY DEF End
<1>2. Chained'
  <2>1. \A x, y : Continues(x, y)' <=> Continues(x, y)
    BY DEF Continues, Joins
  <2>2. Chained /\ live' = live /\ content' = content /\ size' = size /\ succ' = succ
        /\ length' = length /\ kept' = kept
    BY DEF Inv
  <2> HIDE DEF input, result
  <2> QED BY <1>1, <2>1, <2>2 DEF Chained
<1>3. OnceEach'
  <2>1. OnceEach /\ live' = live /\ content' = content /\ blocks' = blocks
    BY DEF Inv
  <2>2. \A c, h, i : Part(c, h, i)' <=> Part(c, h, i)
    BY <2>1 DEF Part
  <2> HIDE DEF input, result
  <2> QED BY <2>1, <2>2 DEF OnceEach
<1>4. JoinsOfInput'
  BY DEF Inv, JoinsOfInput, Joins
<1> QED BY <1>1, <1>2, <1>3, <1>4

\* The head of a round only counts.
LEMMA CountInv == Inv /\ Count => Inv'
<1> SUFFICES ASSUME Inv, Count PROVE Inv'
  OBVIOUS
<1>1. pass = "count" /\ pass' = "merge" /\ UNCHANGED <<input, kept, result>>
  BY DEF Count
<1>2. Chained' /\ OnceEach' /\ JoinsOfInput'
  BY <1>1, SameChains
<1>3. Typed'
  BY DEF Inv, Count, Typed, input, result
<1>4. CountsStayRight'
  BY <1>1 DEF Count, CountsStayRight, Joins, result
<1>5. Unabsorbed'
  BY <1>1 DEF Count, Unabsorbed, result
<1> QED BY <1>1, <1>2, <1>3, <1>4, <1>5 DEF Inv

-----------------------------------------------------------------------------

\* w is s, of length m, followed by t, of length n: where their elements
\* stand in it, and which of them are neighbours.
Spliced(w, s, m, t, n) ==
  /\ m + n \in Nat \ {0}
  /\ w[1] = s[1] /\ w[m + n] = t[n]
  /\ \A i \in 1..m : i \in 1..(m + n) /\ w[i] = s[i]
  /\ \A i \in 1..n : m + i \in 1..(m + n) /\ w[m + i] = t[i]
  /\ \A i \in 1..(m + n) :
       \/ i \in 1..m /\ w[i] = s[i]
       \/ \E j \in 1..n : i = m + j /\ w[i] = t[j]
  /\ \A i \in 1..(m + n - 1) :
       \/ i \in 1..(m - 1) /\ w[i] = s[i] /\ w[i + 1] = s[i + 1]
       \/ w[i] = s[m] /\ w[i + 1] = t[1]
       \/ \E j \in 1..(n - 1) : w[i] = t[j] /\ w[i + 1] = t[j + 1]

LEMMA Places ==
  ASSUME NEW m \in Nat \ {0}, NEW n \in Nat \ {0}, NEW s, NEW t, NEW w,
         \A i \in 1..(m + n) : w[i] = IF i <= m THEN s[i] ELSE t[i - m]
  PROVE  Spliced(w, s, m, t, n)
<1>1. ASSUME NEW i \in 1..(m + n)
      PROVE  \/ i \in 1..m /\ w[i] = s[i]
             \/ \E j \in 1..n : i = m + j /\ w[i] = t[j]
  <2>1. CASE i <= m
    BY <2>1
  <2>2. CASE i > m
    <3>1. i - m \in 1..n /\ i = m + (i - m) /\ w[i] = t[i - m]
      BY <2>2
    <3> QED BY <3>1
  <2> QED BY <2>1, <2>2
<1>2. ASSUME NEW i \in 1..(m + n - 1)
      PROVE  \/ i \in 1..(m - 1) /\ w[i] = s[i] /\ w[i + 1] = s[i + 1]
             \/ w[i] = s[m] /\ w[i + 1] = t[1]
             \/ \E j \in 1..(n - 1) : w[i] = t[j] /\ w[i + 1] = t[j + 1]
  <2>0. i \in 1..(m + n) /\ i + 1 \in 1..(m + n)
    OBVIOUS
  <2>1. CASE i < m
    BY <2>0, <2>1
  <2>2. CASE i = m
    <3>1. w[i] = s[i]
      BY <2>0, <2>2
    <3>2. w[i + 1] = t[(i + 1) - m] /\ (i + 1) - m = 1
      BY <2>0, <2>2
    <3> QED BY <2>2, <3>1, <3>2
  <2>3. CASE i > m
    <3>1. i - m \in 1..(n - 1) /\ (i - m) + 1 = (i + 1) - m
      BY <2>3
    <3>2. w[i] = t[i - m] /\ w[i + 1] = t[(i + 1) - m]
      BY <2>0, <2>3
    <3> QED BY <3>1, <3>2
  <2> QED BY <2>1, <2>2, <2>3
<1>3. \A i \in 1..m : i \in 1..(m + n) /\ w[i] = s[i]
  OBVIOUS
<1>4. ASSUME NEW i \in 1..n PROVE m + i \in 1..(m + n) /\ w[m + i] = t[i]
  <2>1. m + i \in 1..(m + n) /\ ~(m + i <= m) /\ (m + i) - m = i
    OBVIOUS
  <2> QED BY <2>1
<1>5. w[1] = s[1] /\ w[m + n] = t[n]
  <2>1. 1 \in 1..m /\ n \in 1..n
    OBVIOUS
  <2> QED BY <1>3, <1>4, <2>1
<1>6. m + n \in Nat \ {0}
  OBVIOUS
<1> QED BY <1>1, <1>2, <1>3, <1>4, <1>5, <1>6 DEF Spliced

LEMMA Appended ==
  ASSUME NEW S, NEW s \in Seq(S), NEW t \in Seq(S), NEW w, w = s \o t, Len(s) # 0, Len(t) # 0
  PROVE  /\ w \in Seq(S) /\ Len(w) = Len(s) + Len(t)
         /\ Spliced(w, s, Len(s), t, Len(t))
<1>1. Len(s) \in Nat \ {0} /\ Len(t) \in Nat \ {0}
  OBVIOUS
<1>2. w \in Seq(S) /\ Len(w) = Len(s) + Len(t)
  OBVIOUS
<1>3. \A i \in 1..(Len(s) + Len(t)) : w[i] = IF i <= Len(s) THEN s[i] ELSE t[i - Len(s)]
  OBVIOUS
<1> QED BY <1>1, <1>2, <1>3, Places

\* The block that absorbs another and the one that is absorbed.
LEMMA MergedAreContinued ==
  ASSUME Inv, NEW a, NEW b, Merge(a, b)
  PROVE  /\ a \in live /\ b \in live /\ a # b
         /\ succ[a] = <<b>>
         /\ Continues(End(a), b)
<1>1. a \in live /\ b \in live /\ succ[a] = <<b>> /\ a + size[a] = b /\ b \notin joins /\ pass = "merge"
  BY DEF Merge, Straight
<1>2. a # b
  BY <1>1 DEF Inv, Typed
<1>3. kept[End(a)] = <<b>> /\ End(a) + length[End(a)] = b /\ b \in blocks
  BY <1>1 DEF Inv, Chained, Typed
<1>4. ~Joins(blocks, kept, b)
  BY <1>1 DEF Inv, CountsStayRight, JoinsOfInput
<1> QED BY <1>1, <1>2, <1>3, <1>4 DEF Continues

\* Absorbing keeps the blocks that join edges: the edges of the absorbed
\* block become those of the other.
LEMMA MergeJoins ==
  ASSUME NEW L, NEW e, NEW f, NEW a \in L, NEW b \in L, a # b, e[a] = <<b>>,
         f = [x \in L \ {b} |-> IF x = a THEN e[b] ELSE e[x]],
         NEW c \in L \ {b}
  PROVE  Joins(L \ {b}, f, c) <=> Joins(L, e, c)
<1>1. ASSUME Joins(L \ {b}, f, c) PROVE Joins(L, e, c)
  <2>1. PICK x \in L \ {b}, y \in L \ {b} : \E i \in DOMAIN f[x], j \in DOMAIN f[y] :
               <<x, i>> # <<y, j>> /\ f[x][i] = c /\ f[y][j] = c
    BY <1>1 DEF Joins
  <2>2. PICK i \in DOMAIN f[x], j \in DOMAIN f[y] :
               <<x, i>> # <<y, j>> /\ f[x][i] = c /\ f[y][j] = c
    BY <2>1
  <2> DEFINE X == IF x = a THEN b ELSE x
             Y == IF y = a THEN b ELSE y
  <2>3. X \in L /\ Y \in L /\ f[x] = e[X] /\ f[y] = e[Y] /\ <<X, i>> # <<Y, j>>
    BY <2>2
  <2>4. i \in DOMAIN e[X] /\ j \in DOMAIN e[Y] /\ e[X][i] = c /\ e[Y][j] = c
    BY <2>2, <2>3
  <2> QED BY <2>3, <2>4 DEF Joins
<1>2. ASSUME Joins(L, e, c) PROVE Joins(L \ {b}, f, c)
  <2>1. PICK x \in L, y \in L : \E i \in DOMAIN e[x], j \in DOMAIN e[y] :
               <<x, i>> # <<y, j>> /\ e[x][i] = c /\ e[y][j] = c
    BY <1>2 DEF Joins
  <2>2. PICK i \in DOMAIN e[x], j \in DOMAIN e[y] :
               <<x, i>> # <<y, j>> /\ e[x][i] = c /\ e[y][j] = c
    BY <2>1
  <2>3. x # a /\ y # a
    BY <2>2
  <2> DEFINE X == IF x = b THEN a ELSE x
             Y == IF y = b THEN a ELSE y
  <2>4. X \in L \ {b} /\ Y \in L \ {b} /\ f[X] = e[x] /\ f[Y] = e[y] /\ <<X, i>> # <<Y, j>>
    BY <2>2, <2>3
  <2>5. i \in DOMAIN f[X] /\ j \in DOMAIN f[Y] /\ f[X][i] = c /\ f[Y][j] = c
    BY <2>2, <2>4
  <2> QED BY <2>4, <2>5 DEF Joins
<1> QED BY <1>1, <1>2

\* Absorbing a block appends its chain to the other's.
LEMMA MergeInv ==
  ASSUME Inv, NEW a, NEW b, Merge(a, b)
  PROVE  Inv'
<1>1. /\ a \in live /\ b \in live /\ a # b
      /\ succ[a] = <<b>>
      /\ Continues(End(a), b)
  BY MergedAreContinued
<1>2. /\ pass = "merge" /\ pass' = "merge" /\ UNCHANGED <<input, kept, joins>>
      /\ live' = live \ {b} /\ changed' = TRUE
      /\ size' = [x \in live' |-> IF x = a THEN size[a] + size[b] ELSE size[x]]
      /\ succ' = [x \in live' |-> IF x = a THEN succ[b] ELSE succ[x]]
      /\ content' = [x \in live' |-> IF x = a THEN content[a] \o content[b] ELSE content[x]]
      /\ todo' = todo \ {a} /\ a + size[a] = b
  BY DEF Merge, Straight
<1>3. UNCHANGED <<blocks, length, given>>
  BY <1>2 DEF input
<1>4. Typed /\ Chained /\ OnceEach /\ JoinsOfInput /\ CountsStayRight
  BY <1>2 DEF Inv
<1> DEFINE s == content[a]
           t == content[b]
           w == s \o t
<1>s. s = content[a] /\ t = content[b] /\ w = s \o t
  OBVIOUS
<1> HIDE DEF s, t, w
<1>5. s \in Seq(blocks) /\ t \in Seq(blocks) /\ Len(s) \in Nat \ {0} /\ Len(t) \in Nat \ {0}
  BY <1>1, <1>4, <1>s DEF Typed, Chained
<1>6. w \in Seq(blocks) /\ Len(w) = Len(s) + Len(t) /\ Spliced(w, s, Len(s), t, Len(t))
  <2>1. Len(s) # 0 /\ Len(t) # 0
    BY <1>5
  <2>2. w = s \o t
    BY <1>s
  <2>3. s \in Seq(blocks) /\ t \in Seq(blocks)
    BY <1>5
  <2> QED BY ONLY <2>1, <2>2, <2>3, Appended
<1>7. /\ live' = live \ {b} /\ a \in live'
      /\ content'[a] = w /\ size'[a] = size[a] + size[b] /\ succ'[a] = succ[b]
      /\ \A x \in live' : x # a => content'[x] = content[x] /\ size'[x] = size[x] /\ succ'[x] = succ[x]
  BY <1>1, <1>2, <1>s
<1>8. Typed'
  <2>1. size' \in [live' -> Nat \ {0}]
    BY <1>1, <1>2, <1>4 DEF Typed
  <2>2. content' \in [live' -> Seq(blocks)]
    <3>1. \A x \in live' : content'[x] \in Seq(blocks)
      BY <1>4, <1>6, <1>7 DEF Typed, Spliced
    <3>2. content' = [x \in live' |-> content'[x]]
      BY <1>2
    <3> QED BY <3>1, <3>2
  <2> QED BY <1>2, <1>3, <1>4, <2>1, <2>2 DEF Typed
<1>9. Chained'
  <2>1. \A x \in live' : x # a => End(x)' = End(x)
    BY <1>7 DEF End
  <2>2. End(a)' = End(b)
    BY <1>6, <1>7, <1>s DEF End, Spliced
  <2>3. \A x, y : Continues(x, y) => Continues(x, y)'
    BY <1>2, <1>3 DEF Continues, Joins
  <2> DEFINE Good(h) ==
        /\ Len(content'[h]) \in Nat \ {0}
        /\ content'[h][1] = h
        /\ h + size'[h] = End(h)' + length[End(h)']
        /\ \A i \in 1..(Len(content'[h]) - 1) : Continues(content'[h][i], content'[h][i + 1])
        /\ succ'[h] = kept[End(h)']
  <2>4. ASSUME NEW h \in live', h # a PROVE Good(h)
    <3>1. content'[h] = content[h] /\ size'[h] = size[h] /\ succ'[h] = succ[h] /\ End(h)' = End(h) /\ h \in live
      BY <1>7, <2>1, <2>4
    <3>2. pass # "done"
      BY <1>2
    <3> QED BY <1>4, <3>1, <3>2 DEF Chained
  <2>5. Good(a)
    <3>1. content[a][1] = a /\ content[b][1] = b
      BY <1>1, <1>4 DEF Chained
    <3>2. a + size'[a] = End(b) + length[End(b)]
      <4>1. b + size[b] = End(b) + length[End(b)]
        BY <1>1, <1>4 DEF Chained
      <4>2. size'[a] = size[a] + size[b] /\ a + size[a] = b
        BY <1>2, <1>7
      <4>3. a \in Nat /\ size[a] \in Nat /\ size[b] \in Nat
        BY <1>1, <1>4 DEF Typed
      <4> QED BY <4>1, <4>2, <4>3
    <3>3. succ'[a] = kept[End(b)]
      <4>1. pass # "done"
        BY <1>2
      <4> QED BY <1>1, <1>4, <1>7, <4>1 DEF Chained
    <3>4. \A i \in 1..(Len(w) - 1) : Continues(w[i], w[i + 1])
      <4>1. \A i \in 1..(Len(s) - 1) : Continues(s[i], s[i + 1])
        BY <1>1, <1>4, <1>s DEF Chained
      <4>2. \A i \in 1..(Len(t) - 1) : Continues(t[i], t[i + 1])
        BY <1>1, <1>4, <1>s DEF Chained
      <4>3. Continues(s[Len(s)], t[1])
        BY <1>1, <1>s, <3>1 DEF End
      <4>4. \A i \in 1..(Len(w) - 1) :
              \/ i \in 1..(Len(s) - 1) /\ w[i] = s[i] /\ w[i + 1] = s[i + 1]
              \/ w[i] = s[Len(s)] /\ w[i + 1] = t[1]
              \/ \E j \in 1..(Len(t) - 1) : w[i] = t[j] /\ w[i + 1] = t[j + 1]
        <5>1. Len(w) - 1 = Len(s) + Len(t) - 1
          BY <1>6
        <5> QED BY <1>6, <5>1 DEF Spliced
      <4> QED BY <4>1, <4>2, <4>3, <4>4
    <3>5. content'[a][1] = a
      BY <1>6, <1>7, <1>s, <3>1 DEF Spliced
    <3> QED BY <1>6, <1>7, <2>2, <3>2, <3>3, <3>4, <3>5 DEF Spliced
  <2>6. \A h \in live' : Good(h)
    BY <2>4, <2>5
  <2>7. kept' = kept /\ length' = length /\ pass' # "done"
    BY <1>2, <1>3
  <2> QED BY <2>3, <2>6, <2>7 DEF Chained
<1>10. OnceEach'
  <2>1. \A c, h, i : h \notin {a, b} => (Part(c, h, i)' <=> Part(c, h, i))
    BY <1>7 DEF Part
  <2>2. \A c, i : ~Part(c, b, i)'
    BY <1>7 DEF Part
  <2>3. ASSUME NEW c, NEW i, Part(c, a, i) PROVE Part(c, a, i)'
    <3>1. i \in 1..Len(s) /\ s[i] = c
      BY <1>s, <2>3 DEF Part
    <3>2. i \in 1..Len(w) /\ w[i] = c
      BY <1>6, <3>1 DEF Spliced
    <3> QED BY <1>7, <3>2 DEF Part
  <2>4. ASSUME NEW c, NEW i, Part(c, b, i) PROVE \E k : Part(c, a, k)'
    <3>1. i \in 1..Len(t) /\ t[i] = c
      BY <1>s, <2>4 DEF Part
    <3>2. Len(s) + i \in 1..Len(w) /\ w[Len(s) + i] = c
      BY <1>6, <3>1 DEF Spliced
    <3> QED BY <1>7, <3>2 DEF Part
  <2>5. ASSUME NEW c, NEW i, Part(c, a, i)'
        PROVE  \/ Part(c, a, i) /\ i \in 1..Len(s)
               \/ \E j \in 1..Len(t) : i = Len(s) + j /\ Part(c, b, j)
    <3>1. i \in 1..Len(w) /\ w[i] = c
      BY <1>7, <2>5 DEF Part
    <3>2. CASE i \in 1..Len(s) /\ w[i] = s[i]
      BY <1>1, <1>s, <3>1, <3>2 DEF Part
    <3>3. CASE \E j \in 1..Len(t) : i = Len(s) + j /\ w[i] = t[j]
      BY <1>1, <1>s, <3>1, <3>3 DEF Part
    <3> QED BY <1>6, <3>1, <3>2, <3>3 DEF Spliced
  <2>6. ASSUME NEW c \in blocks PROVE \E h, i : Part(c, h, i)'
    <3>1. PICK h, i : Part(c, h, i)
      BY <1>4 DEF OnceEach
    <3> QED BY <2>1, <2>3, <2>4, <3>1
  <2>7. ASSUME NEW c \in blocks, NEW h, NEW i, NEW g, NEW j, Part(c, h, i)', Part(c, g, j)'
        PROVE  g = h /\ j = i
    <3>1. \A x, m, y, n : Part(c, x, m) /\ Part(c, y, n) => x = y /\ m = n
      BY <1>4 DEF OnceEach
    <3>2. h # b /\ g # b
      BY <2>2, <2>7
    <3>3. CASE h # a /\ g # a
      BY <2>1, <2>7, <3>1, <3>2, <3>3
    <3>4. CASE h = a /\ g # a
      BY <2>1, <2>5, <2>7, <3>1, <3>2, <3>4
    <3>5. CASE h # a /\ g = a
      BY <2>1, <2>5, <2>7, <3>1, <3>2, <3>5
    <3>6. CASE h = a /\ g = a
      <4>1. Part(c, a, i)' /\ Part(c, a, j)'
        BY <2>7, <3>6
      <4>2. CASE Part(c, a, i)
        <5>1. ~\E k : Part(c, b, k)
          BY <1>1, <3>1, <4>2
        <5> QED BY <2>5, <3>1, <3>6, <4>1, <5>1
      <4>3. CASE ~Part(c, a, i)
        <5>1. PICK k \in 1..Len(t) : i = Len(s) + k /\ Part(c, b, k)
          BY <2>5, <4>1, <4>3
        <5>2. ~Part(c, a, j)
          BY <1>1, <3>1, <5>1
        <5>3. PICK l \in 1..Len(t) : j = Len(s) + l /\ Part(c, b, l)
          BY <2>5, <4>1, <5>2
        <5> QED BY <3>1, <3>6, <5>1, <5>3
      <4> QED BY <4>2, <4>3
    <3> QED BY <3>3, <3>4, <3>5, <3>6
  <2> QED BY <1>3, <2>6, <2>7 DEF OnceEach
<1>11. \A c \in live' : Joins(live', succ', c) <=> Joins(live, succ, c)
  <2> DEFINE f == [x \in live \ {b} |-> IF x = a THEN succ[b] ELSE succ[x]]
  <2>1. live' = live \ {b} /\ succ' = f
    BY <1>2
  <2>2. \A c \in live \ {b} : Joins(live \ {b}, f, c) <=> Joins(live, succ, c)
    BY <1>1, MergeJoins
  <2> QED BY <2>1, <2>2
<1>12. JoinsOfInput'
  <2>1. \A c : Joins(blocks, kept, c)' <=> Joins(blocks, kept, c)
    BY <1>2, <1>3 DEF Joins
  <2>2. \A c : Joins(live, succ, c)' <=> Joins(live', succ', c)
    BY DEF Joins
  <2> QED BY <1>2, <1>4, <1>11, <2>1, <2>2 DEF JoinsOfInput
<1>13. CountsStayRight'
  <2>1. \A c : Joins(live, succ, c)' <=> Joins(live', succ', c)
    BY DEF Joins
  <2> QED BY <1>2, <1>4, <1>11, <2>1 DEF CountsStayRight
<1>14. Unabsorbed'
  BY <1>2 DEF Unabsorbed
<1> QED BY <1>2, <1>8, <1>9, <1>10, <1>12, <1>13, <1>14 DEF Inv

-----------------------------------------------------------------------------

\* The visit of a block that absorbs nothing.
LEMMA PassInv ==
  ASSUME Inv, NEW a, Pass(a)
  PROVE  Inv'
<1>1. pass = "merge" /\ pass' = "merge" /\ UNCHANGED <<input, kept, result, joins, changed>> /\ todo' = todo \ {a}
  BY DEF Pass
<1>2. Chained' /\ OnceEach' /\ JoinsOfInput'
  BY <1>1, SameChains
<1>3. Typed'
  BY <1>1 DEF Inv, Typed, input, result
<1>4. CountsStayRight'
  BY <1>1 DEF Inv, CountsStayRight, Joins, result
<1>5. Unabsorbed'
  <2>1. \A x, y : Straight(x, y)' <=> Straight(x, y)
    BY <1>1 DEF Straight, result
  <2>2. \A y \in live : ~Straight(a, y)
    BY DEF Pass
  <2>3. Unabsorbed /\ live' = live
    BY <1>1 DEF Inv, result
  <2> QED BY <1>1, <2>1, <2>2, <2>3 DEF Unabsorbed
<1> QED BY <1>1, <1>2, <1>3, <1>4, <1>5 DEF Inv

\* When a round absorbed nothing, no block of the input continues the end of
\* one of the result: the block that does so would be the first of its own
\* chain, for the one before it in a chain would be a second edge into it, and
\* then the round would have absorbed it.
LEMMA NothingLeft ==
  ASSUME Inv, EndRound, ~changed, NEW h \in live, NEW b \in blocks
  PROVE  ~Continues(End(h), b)
<1> SUFFICES ASSUME Continues(End(h), b) PROVE FALSE
  OBVIOUS
<1>1. pass = "merge" /\ todo = {}
  BY DEF EndRound
<1>2. Typed /\ Chained /\ OnceEach /\ JoinsOfInput /\ CountsStayRight /\ Unabsorbed
  BY <1>1 DEF Inv
<1>3. PICK g, i : Part(b, g, i)
  BY <1>2 DEF OnceEach
<1>4. g \in live /\ i \in 1..Len(content[g]) /\ content[g][i] = b /\ content[g] \in Seq(blocks)
      /\ Len(content[g]) \in Nat /\ content[g][1] = g
  BY <1>2, <1>3 DEF Part, Typed, Chained
<1>5. CASE i = 1
  <2>1. b \in live
    BY <1>4, <1>5
  <2>2. succ[h] = <<b>> /\ h + size[h] = b /\ ~Joins(blocks, kept, b)
    BY <1>1, <1>2 DEF Chained, Continues
  <2>3. b \notin joins
    BY <1>1, <1>2, <2>1, <2>2 DEF JoinsOfInput, CountsStayRight
  <2>4. Straight(h, b)
    BY <2>1, <2>2, <2>3 DEF Straight
  <2> QED BY <1>1, <1>2, <2>1, <2>4 DEF Unabsorbed
<1>6. CASE i # 1
  <2>1. i - 1 \in 1..(Len(content[g]) - 1) /\ (i - 1) + 1 = i /\ i - 1 \in 1..Len(content[g])
    BY <1>4, <1>6
  <2> DEFINE p == content[g][i - 1]
  <2>2. Continues(p, b)
    BY <1>2, <1>4, <2>1 DEF Chained
  <2>3. p \in blocks /\ Part(p, g, i - 1)
    BY <1>4, <2>1 DEF Part
  <2>4. End(h) \in blocks /\ Part(End(h), h, Len(content[h]))
    BY <1>2 DEF Part, End, Typed, Chained
  <2>5. End(h) # p
    <3>1. SUFFICES ASSUME End(h) = p PROVE FALSE
      OBVIOUS
    <3>2. g = h /\ i - 1 = Len(content[h])
      BY <1>2, <2>3, <2>4, <3>1 DEF OnceEach
    <3> QED BY <1>4, <3>2
  <2>6. Joins(blocks, kept, b)
    <3>1. kept[p] = <<b>> /\ kept[End(h)] = <<b>>
      BY <2>2 DEF Continues
    <3>2. 1 \in DOMAIN kept[p] /\ 1 \in DOMAIN kept[End(h)] /\ kept[p][1] = b /\ kept[End(h)][1] = b
      BY <3>1
    <3>3. <<p, 1>> # <<End(h), 1>>
      BY <2>5
    <3> HIDE DEF p
    <3> QED BY <2>3, <2>4, <3>2, <3>3 DEF Joins
  <2> QED BY <2>6 DEF Continues
<1> QED BY <1>5, <1>6

\* The end of a round.
LEMMA EndRoundInv == Inv /\ EndRound => Inv'
<1> SUFFICES ASSUME Inv, EndRound PROVE Inv'
  OBVIOUS
<1>1. pass = "merge" /\ pass' = (IF changed THEN "count" ELSE "sort") /\ UNCHANGED <<input, kept, result, joins, todo, changed>>
  BY DEF EndRound
<1>2. Chained' /\ OnceEach' /\ JoinsOfInput' /\ (\A h \in live : End(h)' = End(h))
  BY <1>1, SameChains
<1>3. Typed'
  BY <1>1 DEF Inv, Typed, input, result
<1>4. Unabsorbed'
  <2>1. \A x, y : Continues(x, y)' <=> Continues(x, y)
    BY <1>1 DEF Continues, Joins, input
  <2>2. ~changed => \A h \in live, b \in blocks : ~Continues(End(h), b)
    BY NothingLeft
  <2>3. live' = live /\ blocks' = blocks
    BY <1>1 DEF input, result
  <2> QED BY <1>1, <1>2, <2>1, <2>2, <2>3 DEF Unabsorbed
<1> QED BY <1>1, <1>2, <1>3, <1>4 DEF Inv, CountsStayRight

\* The last pass orders the successors of the blocks that are left.
LEMMA SortInv == Inv /\ Sort => Inv'
<1> SUFFICES ASSUME Inv, Sort PROVE Inv'
  OBVIOUS
<1>1. /\ pass = "sort" /\ pass' = "done" /\ UNCHANGED <<input, kept, live, size, content, joins, todo, changed>>
      /\ succ' = [a \in live |-> Ascending(succ[a])]
  BY DEF Sort
<1>2. UNCHANGED <<blocks, length, given>> /\ Typed /\ Chained /\ OnceEach /\ Unabsorbed
  BY <1>1 DEF Inv, input
<1>3. \A h : End(h)' = End(h)
  BY <1>1 DEF End
<1>4. \A x, y : Continues(x, y)' <=> Continues(x, y)
  BY <1>1, <1>2 DEF Continues, Joins
<1>5. Typed'
  BY <1>1, <1>2 DEF Typed
<1>6. Chained'
  <2>1. \A h \in live : succ'[h] = Ascending(kept[End(h)])
    BY <1>1, <1>2 DEF Chained
  <2> QED BY <1>1, <1>2, <1>3, <1>4, <2>1 DEF Chained
<1>7. OnceEach'
  <2>1. \A c, h, i : Part(c, h, i)' <=> Part(c, h, i)
    BY <1>1 DEF Part
  <2> QED BY <1>2, <2>1 DEF OnceEach
<1>8. Unabsorbed'
  BY <1>1, <1>2, <1>3, <1>4 DEF Unabsorbed
<1> QED BY <1>1, <1>5, <1>6, <1>7, <1>8 DEF Inv, JoinsOfInput, CountsStayRight

-----------------------------------------------------------------------------

\* The invariant holds in every state of a graph whose blocks are not empty.
LEMMA Invariance ==
  ASSUME Starts \subseteq Nat, Sizes \subseteq Nat \ {0}
  PROVE  Spec => []Inv
<1>1. Init => Inv
  <2> SUFFICES ASSUME Init PROVE Inv
    OBVIOUS
  <2>1. \A a \in blocks : <<a>> \in Seq(blocks)
    OBVIOUS
  <2>2. content \in [live -> Seq(blocks)]
    BY <2>1 DEF Init
  <2>3. /\ blocks \subseteq Nat /\ length \in [blocks -> Nat \ {0}]
        /\ live = blocks /\ size = length /\ todo = {} /\ changed = FALSE /\ pass = "filter"
        /\ content = [a \in blocks |-> <<a>>]
    BY DEF Init
  <2> QED BY <2>2, <2>3 DEF Inv, Typed, Unstarted
<1>2. Inv /\ [Next]_vars => Inv'
  <2> SUFFICES ASSUME Inv, [Next]_vars PROVE Inv'
    OBVIOUS
  <2>1. CASE Filter
    BY <2>1, FilterInv
  <2>2. CASE Count
    BY <2>2, CountInv
  <2>3. ASSUME NEW a \in todo, Pass(a) PROVE Inv'
    BY <2>3, PassInv
  <2>4. ASSUME NEW a \in todo, NEW b \in live, Merge(a, b) PROVE Inv'
    BY <2>4, MergeInv
  <2>5. CASE EndRound
    BY <2>5, EndRoundInv
  <2>6. CASE Sort
    BY <2>6, SortInv
  <2>7. CASE UNCHANGED vars
    <3>1. /\ UNCHANGED <<blocks, length, given, kept, live, size, succ, content>>
          /\ UNCHANGED <<joins, todo, changed, pass>>
      BY <2>7 DEF vars, input, result
    <3>2. \A x, y : /\ Continues(x, y)' <=> Continues(x, y)
                    /\ Straight(x, y)' <=> Straight(x, y)
      BY <3>1 DEF Continues, Straight, Joins
    <3>3. \A c : /\ Joins(live, succ, c)' <=> Joins(live, succ, c)
                 /\ Joins(blocks, kept, c)' <=> Joins(blocks, kept, c)
      BY <3>1 DEF Joins
    <3>4. \A h : End(h)' = End(h)
      BY <3>1 DEF End
    <3>5. \A c, h, i : Part(c, h, i)' <=> Part(c, h, i)
      BY <3>1 DEF Part
    <3>6. Typed' /\ (Unstarted' <=> Unstarted)
      BY <3>1 DEF Inv, Typed, Unstarted
    <3>7. CASE pass = "filter"
      BY <3>1, <3>6, <3>7 DEF Inv
    <3>8. CASE pass # "filter"
      <4>1. Chained'
        BY <3>1, <3>2, <3>4, <3>8 DEF Inv, Chained
      <4>2. OnceEach'
        BY <3>1, <3>5, <3>8 DEF Inv, OnceEach
      <4>3. JoinsOfInput' /\ CountsStayRight'
        BY <3>1, <3>3, <3>8 DEF Inv, JoinsOfInput, CountsStayRight
      <4>4. Unabsorbed'
        BY <3>1, <3>2, <3>4, <3>8 DEF Inv, Unabsorbed
      <4> QED BY <3>1, <3>6, <3>8, <4>1, <4>2, <4>3, <4>4 DEF Inv
    <3> QED BY <3>7, <3>8
  <2> QED BY <2>1, <2>2, <2>3, <2>4, <2>5, <2>6, <2>7 DEF Next, Done
<1> QED BY <1>1, <1>2, PTL DEF Spec

\* The lists of successors: what is kept is what was given without what lies
\* elsewhere.
Inside(a) == {i \in 1..Len(given[a]) : InFunction(given[a][i])}

Lists ==
  /\ given \in [blocks -> Seq(Nat)]
  /\ kept \in [blocks -> Seq(Nat)]
  /\ succ \in [live -> Seq(Nat)]
  /\ joins \subseteq blocks
  /\ pass # "filter" => kept = [a \in blocks |-> At(given[a], Inside(a))]

\* Every step leaves lists of numbers.
LEMMA ListsStep == Inv /\ Lists /\ [Next]_vars => Lists'
<1> SUFFICES ASSUME Inv, Lists, [Next]_vars PROVE Lists'
  OBVIOUS
<1>1. Typed
  BY DEF Inv
<1>2. UNCHANGED <<blocks, length, given>>
  BY DEF Next, Filter, Count, Pass, Merge, EndRound, Sort, Done, vars, input
<1>3. \A a : Inside(a)' = Inside(a)
  BY <1>2 DEF Inside, InFunction
<1>4. CASE Filter
  <2>1. /\ kept' = [a \in blocks |-> At(given[a], Inside(a))]
        /\ succ' = kept' /\ live' = live /\ joins' = joins /\ live = blocks
    BY <1>4 DEF Filter, Inside, Inv, Unstarted
  <2>2. \A a \in blocks : At(given[a], Inside(a)) \in Seq(Nat)
    BY AtType DEF Lists, Inside
  <2> QED BY <1>2, <1>3, <2>1, <2>2 DEF Lists
<1>5. CASE Count
  BY <1>1, <1>2, <1>3, <1>5 DEF Count, result, Lists, Typed
<1>6. ASSUME NEW a \in todo, Pass(a) PROVE Lists'
  BY <1>2, <1>3, <1>6 DEF Pass, result, Lists
<1>7. ASSUME NEW a \in todo, NEW b \in live, Merge(a, b) PROVE Lists'
  <2>1. /\ live' = live \ {b} /\ UNCHANGED <<kept, joins, pass>>
        /\ succ' = [x \in live' |-> IF x = a THEN succ[b] ELSE succ[x]]
    BY <1>7 DEF Merge
  <2>2. succ' \in [live' -> Seq(Nat)]
    BY <2>1 DEF Lists
  <2> QED BY <1>2, <1>3, <2>1, <2>2 DEF Lists
<1>8. CASE EndRound
  BY <1>2, <1>3, <1>8 DEF EndRound, result, Lists
<1>9. CASE Sort
  <2>1. \A a \in live : Ascending(succ[a]) \in Seq(Nat)
    BY AscendingIs DEF Lists
  <2> QED BY <1>2, <1>3, <1>9, <2>1 DEF Sort, Lists
<1>10. CASE UNCHANGED vars
  BY <1>2, <1>3, <1>10 DEF vars, result, Lists
<1> QED BY <1>4, <1>5, <1>6, <1>7, <1>8, <1>9, <1>10 DEF Next, Done

LEMMA ListsInvariance ==
  ASSUME Starts \subseteq Nat, Sizes \subseteq Nat \ {0}, Ways \subseteq Seq(Nat)
  PROVE  Spec => [](Inv /\ Lists)
<1>1. Init => Lists
  BY DEF Init, Lists
<1> QED BY <1>1, Invariance, ListsStep, PTL DEF Spec

\* Every list the function makes is one of addresses, and every block of the
\* result one of the input (normalize_ghidra_cfg).
THEOREM TypesAreRight ==
  ASSUME Starts \subseteq Nat, Sizes \subseteq Nat \ {0}, Ways \subseteq Seq(Nat)
  PROVE  Spec => []TypeOK
<1>1. Inv /\ Lists => TypeOK
  BY DEF Inv, Typed, Lists, TypeOK
<1> QED BY <1>1, ListsInvariance, PTL

\* The predecessor counts of a round, which are never updated in it, still say
\* which blocks join several edges after any number of blocks were absorbed.
THEOREM CountsRight ==
  ASSUME Starts \subseteq Nat, Sizes \subseteq Nat \ {0}
  PROVE  Spec => []CountsStayRight
<1>1. Inv => CountsStayRight
  BY DEF Inv, CountsStayRight
<1> QED BY <1>1, Invariance, PTL

\* The result is the given graph with every chain of continuations joined,
\* for every graph and every order in which its blocks are visited.
THEOREM ChainsAreJoined ==
  ASSUME Starts \subseteq Nat, Sizes \subseteq Nat \ {0}, Ways \subseteq Seq(Nat)
  PROVE  Spec => []NormalForm
<1>1. Inv /\ Lists => NormalForm
  <2> SUFFICES ASSUME Inv, Lists, pass = "done"
               PROVE  /\ \A b \in blocks : \E h \in live : \E i \in DOMAIN content[h] :
                           /\ content[h][i] = b
                           /\ \A g \in live : \A j \in DOMAIN content[g] : content[g][j] = b => g = h /\ j = i
                      /\ \A h \in live :
                           LET end == Last(content[h]) IN
                           /\ content[h][1] = h /\ h + size[h] = end + length[end]
                           /\ \A i \in 1..(Len(content[h]) - 1) : Continues(content[h][i], content[h][i + 1])
                           /\ \A b \in blocks : ~Continues(end, b)
                           /\ \A m, n \in 1..Len(succ[h]) : m <= n => succ[h][m] <= succ[h][n]
                           /\ \A b \in ToSet(given[end]) \cup ToSet(succ[h]) :
                                Times(succ[h], b) = IF InFunction(b) THEN Times(given[end], b) ELSE 0
    BY DEF NormalForm
  <2>1. Typed /\ Chained /\ OnceEach /\ Unabsorbed
    BY DEF Inv
  <2>2. ASSUME NEW b \in blocks
        PROVE  \E h \in live : \E i \in DOMAIN content[h] :
                  /\ content[h][i] = b
                  /\ \A g \in live : \A j \in DOMAIN content[g] : content[g][j] = b => g = h /\ j = i
    <3>1. \A h \in live : DOMAIN content[h] = 1..Len(content[h])
      BY <2>1 DEF Typed
    <3>2. PICK h, i : Part(b, h, i)
      BY <2>1 DEF OnceEach
    <3>3. h \in live /\ i \in DOMAIN content[h] /\ content[h][i] = b
      BY <3>1, <3>2 DEF Part
    <3>4. ASSUME NEW g \in live, NEW j \in DOMAIN content[g], content[g][j] = b
          PROVE  g = h /\ j = i
      <4>1. Part(b, g, j)
        BY <3>1, <3>4 DEF Part
      <4> QED BY <2>1, <3>2, <4>1 DEF OnceEach
    <3> QED BY <3>3, <3>4
  <2>3. \A h : Last(content[h]) = End(h)
    BY DEF Last, End
  <2>4. ASSUME NEW h \in live
        PROVE  /\ \A m, n \in 1..Len(succ[h]) : m <= n => succ[h][m] <= succ[h][n]
               /\ \A b \in ToSet(given[End(h)]) \cup ToSet(succ[h]) :
                    Times(succ[h], b) = IF InFunction(b) THEN Times(given[End(h)], b) ELSE 0
    <3> DEFINE g == given[End(h)]
               s == At(g, Inside(End(h)))
    <3>1. End(h) \in blocks
      BY <2>1 DEF Chained, Typed, End
    <3>2. g \in Seq(Nat) /\ Inside(End(h)) \in SUBSET (1..Len(g))
      BY <3>1 DEF Lists, Inside
    <3>3. succ[h] = Ascending(s)
      BY <2>1, <3>1 DEF Chained, Lists
    <3>4. s \in Seq(Nat)
      BY <3>2, AtType
    <3>5. \A b : Times(s, b) = Cardinality({i \in Inside(End(h)) : g[i] = b})
      BY <3>2, AtCounts
    <3>6. \A b : {i \in Inside(End(h)) : g[i] = b} =
                   IF InFunction(b) THEN {i \in 1..Len(g) : g[i] = b} ELSE {}
      BY DEF Inside
    <3> HIDE DEF s, g
    <3>7. ASSUME NEW b PROVE Times(s, b) = IF InFunction(b) THEN Times(g, b) ELSE 0
      <4>1. CASE InFunction(b)
        BY <3>5, <3>6, <4>1 DEF Times
      <4>2. CASE ~InFunction(b)
        <5>1. {i \in Inside(End(h)) : g[i] = b} = {}
          BY <3>6, <4>2
        <5>2. Times(s, b) = Cardinality({})
          BY <3>5, <5>1
        <5> QED BY <4>2, <5>2, FS_EmptySet
      <4> QED BY <4>1, <4>2
    <3>8. Len(succ[h]) = Len(s) /\ Ascending(s) \in Seq(Nat)
      BY <3>3, <3>4, AscendingIs
    <3>9. \A m, n \in 1..Len(succ[h]) : m <= n => succ[h][m] <= succ[h][n]
      BY <3>3, <3>4, <3>8, AscendingAscends
    <3>10. ASSUME NEW b \in Nat PROVE Times(succ[h], b) = Times(s, b)
      <4>1. Len(Ascending(s)) = Len(s)
        BY <3>3, <3>8
      <4>2. Times(Ascending(s), b) = Cardinality({n \in 1..Len(s) : Ascending(s)[n] = b})
        BY <4>1 DEF Times
      <4>3. Times(s, b) = Cardinality({i \in 1..Len(s) : s[i] = b})
        BY DEF Times
      <4> QED BY <3>3, <3>4, <4>2, <4>3, AscendingCounts
    <3>11. ToSet(g) \cup ToSet(succ[h]) \subseteq Nat
      BY <3>2, <3>3, <3>8 DEF ToSet
    <3> QED BY <3>7, <3>9, <3>10, <3>11 DEF g
  <2> QED BY <2>1, <2>2, <2>3, <2>4 DEF Chained, Unabsorbed
<1> QED BY <1>1, ListsInvariance, PTL
=============================================================================
