------------------------------- MODULE RowProofs -------------------------------
(***************************************************************************)
(* validateSet against the rules of the game, for rows of any length, any  *)
(* number of colours and any highest value: what it accepts, and what the  *)
(* jokers of an accepted row are recorded to stand for.  And the computer, *)
(* which plays by it: for every rack, table and budget what it proposes is *)
(* a legal turn, keeps the meaning of the rows it carries on, and, unless  *)
(* the budget runs out, is the best its candidates allow.                  *)
(***************************************************************************)
EXTENDS RowDraft, BotTable, FiniteSetTheorems, WellFoundedInduction, TLAPS

\* Every non-empty set of naturals has a least element.
LEMMA LeastNatural ==
  ASSUME NEW S \in SUBSET Nat, S # {}
  PROVE  \E n \in S : \A m \in S : n <= m
<1>1. PICK n \in S : \A m \in S : ~ (<<m, n>> \in OpToRel(<, Nat))
  BY NatLessThanWellFounded, WFMin
<1>2. \A m \in S : ~ (m < n)
  BY <1>1 DEF OpToRel
<1>3. \A m \in S : m \in Nat /\ n \in Nat
  OBVIOUS
<1>. QED  BY <1>2, <1>3

-----------------------------------------------------------------------------
(* The tiles of a row and the colours *)

\* What the tiles of a row are.
LEMMA TileKinds ==
  ASSUME NEW r \in Seq(Catalog)
  PROVE  /\ Len(r) \in Nat
         /\ Anchors(r) \subseteq 1 .. Len(r)
         /\ \A i \in Anchors(r) : r[i].color \in Color /\ r[i].value \in MIN_VALUE .. MAX_VALUE
         /\ \A i \in (1 .. Len(r)) \ Anchors(r) : ~ IsNumbered(r[i])
<1>1. \A i \in 1 .. Len(r) : r[i] \in Catalog
  OBVIOUS
<1>2. \A t \in Catalog : IsNumbered(t) => t.color \in Color /\ t.value \in MIN_VALUE .. MAX_VALUE
  BY DEF Catalog, IsNumbered
<1>. QED  BY <1>1, <1>2 DEF Anchors

\* The operator Min of the module library finds an anchor.
LEMMA FirstAnchor ==
  ASSUME NEW r \in Seq(Catalog), Anchors(r) # {}
  PROVE  Min(Anchors(r)) \in Anchors(r)
<1>1. Anchors(r) \in SUBSET Nat
  BY TileKinds
<1>2. PICK n \in Anchors(r) : \A m \in Anchors(r) : n <= m
  BY <1>1, LeastNatural
<1>. QED  BY <1>2 DEF Min

\* How many of some colours come up to a place is one of the naturals, and
\* grows by one at their places only.
LEMMA ColorCount ==
  ASSUME NEW cs, NEW k \in 0 .. Len(COLORS)
  PROVE  /\ IsFiniteSet(UpTo(k, cs)) /\ Cardinality(UpTo(k, cs)) \in Nat
         /\ k = 0 => Cardinality(UpTo(k, cs)) = 0
         /\ k # 0 => Cardinality(UpTo(k, cs)) =
                       Cardinality(UpTo(k - 1, cs)) + (IF COLORS[k] \in cs THEN 1 ELSE 0)
<1>1. Len(COLORS) \in Nat
  BY RulesAssumption
<1>2. \A n \in 0 .. Len(COLORS) : IsFiniteSet(UpTo(n, cs)) /\ Cardinality(UpTo(n, cs)) \in Nat
  <2> SUFFICES ASSUME NEW n \in 0 .. Len(COLORS)
               PROVE  IsFiniteSet(UpTo(n, cs)) /\ Cardinality(UpTo(n, cs)) \in Nat
    OBVIOUS
  <2>1. IsFiniteSet(1 .. n)
    BY <1>1, FS_Interval
  <2>2. UpTo(n, cs) \in SUBSET (1 .. n)
    BY DEF UpTo
  <2>. QED  BY <2>1, <2>2, FS_Subset, FS_CardinalityType
<1>3. k = 0 => UpTo(k, cs) = {}
  BY DEF UpTo
<1>4. ASSUME k # 0
      PROVE  Cardinality(UpTo(k, cs)) =
               Cardinality(UpTo(k - 1, cs)) + (IF COLORS[k] \in cs THEN 1 ELSE 0)
  <2>1. k - 1 \in 0 .. Len(COLORS) /\ k \notin 1 .. k - 1 /\ 1 .. k = (1 .. k - 1) \cup {k}
    BY <1>1, <1>4
  <2>2. UpTo(k, cs) = IF COLORS[k] \in cs THEN UpTo(k - 1, cs) \cup {k} ELSE UpTo(k - 1, cs)
    BY <2>1 DEF UpTo
  <2>3. k \notin UpTo(k - 1, cs)
    BY <2>1 DEF UpTo
  <2>4. IsFiniteSet(UpTo(k - 1, cs)) /\ Cardinality(UpTo(k - 1, cs)) \in Nat
    BY <1>2, <2>1
  <2>5. Cardinality(UpTo(k - 1, cs) \cup {k}) = Cardinality(UpTo(k - 1, cs)) + 1
    BY <2>3, <2>4, FS_AddElement
  <2>. QED  BY <2>2, <2>4, <2>5
<1>. QED  BY <1>2, <1>3, <1>4, FS_EmptySet

\* As long as there are n of the given colours, the n-th is one of them, and
\* another one than the m-th.
LEMMA NthColorPlace ==
  ASSUME NEW cs, NEW n \in Nat \ {0}, n <= Cardinality(UpTo(Len(COLORS), cs))
  PROVE  \E k \in 1 .. Len(COLORS) :
           NthColor(n, cs) = COLORS[k] /\ COLORS[k] \in cs /\ Cardinality(UpTo(k, cs)) = n
<1>1. Len(COLORS) \in Nat
  BY RulesAssumption
<1> DEFINE K == {k \in 0 .. Len(COLORS) : Cardinality(UpTo(k, cs)) >= n}
<1>2. K \in SUBSET Nat /\ Len(COLORS) \in K
  <2>1. Len(COLORS) \in 0 .. Len(COLORS)
    BY <1>1
  <2>2. Cardinality(UpTo(Len(COLORS), cs)) \in Nat
    BY <2>1, ColorCount
  <2>. QED  BY <1>1, <2>1, <2>2
<1>3. PICK k \in K : \A j \in K : k <= j
  BY <1>2, LeastNatural
<1>4. k \in 0 .. Len(COLORS) /\ Cardinality(UpTo(k, cs)) >= n
  BY <1>3
<1>5. k # 0 /\ k \in 1 .. Len(COLORS) /\ k - 1 \in 0 .. Len(COLORS)
  BY <1>1, <1>4, ColorCount
<1>6. k - 1 \notin K
  <2>1. ~ (k <= k - 1)
    BY <1>5
  <2>. QED  BY <1>3, <2>1
<1>7. Cardinality(UpTo(k - 1, cs)) \in Nat /\ Cardinality(UpTo(k - 1, cs)) < n
  BY <1>5, <1>6, ColorCount
<1>8. Cardinality(UpTo(k, cs)) =
        Cardinality(UpTo(k - 1, cs)) + (IF COLORS[k] \in cs THEN 1 ELSE 0)
  BY <1>4, <1>5, ColorCount
<1>9. COLORS[k] \in cs /\ Cardinality(UpTo(k, cs)) = n
  BY <1>4, <1>7, <1>8
<1>. QED  BY <1>5, <1>9 DEF NthColor

\* Two of the given colours are different if their ranks are.
LEMMA NthColorsDiffer ==
  ASSUME NEW cs, NEW n \in Nat \ {0}, n <= Cardinality(UpTo(Len(COLORS), cs)),
         NEW m \in Nat \ {0}, m <= Cardinality(UpTo(Len(COLORS), cs)), m # n
  PROVE  NthColor(n, cs) # NthColor(m, cs)
<1>1. PICK k \in 1 .. Len(COLORS) : NthColor(n, cs) = COLORS[k] /\ Cardinality(UpTo(k, cs)) = n
  BY NthColorPlace
<1>2. PICK l \in 1 .. Len(COLORS) : NthColor(m, cs) = COLORS[l] /\ Cardinality(UpTo(l, cs)) = m
  BY NthColorPlace
<1>. QED  BY <1>1, <1>2, RulesAssumption

-----------------------------------------------------------------------------
(* Groups: the jokers find enough colours *)

\* A joker's rank among the jokers of its row: the jokers have different ranks,
\* none above their number.
LEMMA JokerRanks ==
  ASSUME NEW r \in Seq(Catalog), NEW i \in (1 .. Len(r)) \ Anchors(r)
  PROVE  /\ JokersBefore(r, i) \in Nat \ {0}
         /\ JokersBefore(r, i) <= Cardinality((1 .. Len(r)) \ Anchors(r))
         /\ \A k \in (1 .. Len(r)) \ Anchors(r) :
              i < k => JokersBefore(r, i) # JokersBefore(r, k)
<1> DEFINE J(k) == (1 .. k) \ Anchors(r)
<1>1. Len(r) \in Nat
  BY TileKinds
<1>2. \A k \in 1 .. Len(r) : IsFiniteSet(J(k)) /\ Cardinality(J(k)) \in Nat
  <2> SUFFICES ASSUME NEW k \in 1 .. Len(r)  PROVE IsFiniteSet(J(k)) /\ Cardinality(J(k)) \in Nat
    OBVIOUS
  <2>1. IsFiniteSet(1 .. k) /\ J(k) \in SUBSET (1 .. k)
    BY <1>1, FS_Interval
  <2>. QED  BY <2>1, FS_Subset, FS_CardinalityType
<1>3. \A k, l \in 1 .. Len(r) : k <= l =>
        Cardinality(J(k)) <= Cardinality(J(l))
          /\ (Cardinality(J(k)) = Cardinality(J(l)) => J(k) = J(l))
  <2> SUFFICES ASSUME NEW k \in 1 .. Len(r), NEW l \in 1 .. Len(r), k <= l
               PROVE  Cardinality(J(k)) <= Cardinality(J(l))
                        /\ (Cardinality(J(k)) = Cardinality(J(l)) => J(k) = J(l))
    OBVIOUS
  <2>1. J(k) \in SUBSET J(l)
    BY <1>1
  <2>. QED  BY <1>2, <2>1, FS_Subset
<1>4. \A k \in (1 .. Len(r)) \ Anchors(r) :
        k \in J(k) /\ \A l \in 1 .. Len(r) : l < k => k \notin J(l)
  BY <1>1
<1>5. Cardinality(J(i)) # 0
  <2>1. J(i) # {} /\ IsFiniteSet(J(i))
    BY <1>2, <1>4
  <2> HIDE DEF J
  <2>. QED  BY <2>1, FS_EmptySet
<1>6. i \in 1 .. Len(r) /\ Len(r) \in 1 .. Len(r) /\ i <= Len(r)
  BY <1>1
<1> HIDE DEF J
<1>7. Cardinality(J(i)) <= Cardinality(J(Len(r)))
  BY <1>3, <1>6
<1>8. \A k \in (1 .. Len(r)) \ Anchors(r) : i < k => Cardinality(J(i)) # Cardinality(J(k))
  <2> SUFFICES ASSUME NEW k \in (1 .. Len(r)) \ Anchors(r), i < k
               PROVE  Cardinality(J(i)) # Cardinality(J(k))
    OBVIOUS
  <2>1. k \in 1 .. Len(r) /\ i <= k
    BY <1>1, <1>6
  <2>. QED  BY <1>3, <1>4, <1>6, <2>1
<1>. QED  BY <1>2, <1>5, <1>6, <1>7, <1>8 DEF J, JokersBefore

\* The colours that are not in a group are enough for its jokers: "no
\* insufficient colors case can be reached".
LEMMA ColorsSuffice ==
  ASSUME NEW r \in Seq(Catalog), ValidGroup(r)
  PROVE  Cardinality((1 .. Len(r)) \ Anchors(r)) <= Cardinality(UpTo(Len(COLORS), FreeColors(r)))
<1> DEFINE A == Anchors(r)
           P == 1 .. Len(r)
           C == 1 .. Len(COLORS)
           U == {j \in C : \E i \in A : r[i].color = COLORS[j]}
           f == [j \in U |-> CHOOSE i \in A : r[i].color = COLORS[j]]
<1>1. Len(r) \in Nat /\ Len(COLORS) \in Nat /\ A \subseteq P
  BY TileKinds, RulesAssumption
<1>2. Len(r) <= Len(COLORS)
  BY <1>1 DEF ValidGroup, MAX_GROUP_LENGTH
<1>3. /\ IsFiniteSet(P) /\ Cardinality(P) = Len(r)
      /\ IsFiniteSet(C) /\ Cardinality(C) = Len(COLORS)
  <2>1. \A n \in Nat : IsFiniteSet(1 .. n) /\ Cardinality(1 .. n) = n
    BY FS_Interval
  <2>. QED  BY <1>1, <2>1
<1>4. UpTo(Len(COLORS), FreeColors(r)) = C \ U
  BY DEF UpTo, FreeColors, Color
<1>5. f \in Injection(U, A)
  <2>1. \A j \in U : f[j] \in A /\ r[f[j]].color = COLORS[j]
    OBVIOUS
  <2>2. \A j, k \in U : COLORS[j] = COLORS[k] => j = k
    BY RulesAssumption
  <2>3. f \in [U -> A]
    BY <2>1
  <2> HIDE DEF f
  <2>4. \A j, k \in U : f[j] = f[k] => j = k
    BY <2>1, <2>2
  <2>. QED  BY <2>3, <2>4 DEF Injection, IsInjective
<1>6. IsFiniteSet(A) /\ IsFiniteSet(U) /\ Cardinality(U) <= Cardinality(A)
  <2>1. IsFiniteSet(A)
    BY <1>1, <1>3, FS_Subset
  <2>. QED  BY <1>5, <2>1, FS_Injection
<1>7. Cardinality(P \ A) = Len(r) - Cardinality(A)
  <2>1. P \cap A = A
    BY <1>1
  <2> HIDE DEF P, A
  <2>2. Cardinality(P \ A) = Cardinality(P) - Cardinality(P \cap A)
    BY <1>3, FS_Difference
  <2>. QED  BY <1>3, <2>1, <2>2
<1>8. Cardinality(C \ U) = Len(COLORS) - Cardinality(U)
  <2>1. C \cap U = U
    OBVIOUS
  <2> HIDE DEF C, U
  <2>2. Cardinality(C \ U) = Cardinality(C) - Cardinality(C \cap U)
    BY <1>3, FS_Difference
  <2>. QED  BY <1>3, <2>1, <2>2
<1>9. Cardinality(A) \in Nat /\ Cardinality(U) \in Nat
  BY <1>6, FS_CardinalityType
<1> HIDE DEF A, P, C, U, f
<1>10. Cardinality(P \ A) <= Cardinality(C \ U)
  BY <1>1, <1>2, <1>6, <1>7, <1>8, <1>9
<1>. QED  BY <1>4, <1>10 DEF P, A

-----------------------------------------------------------------------------
(* What an accepted row's jokers stand for *)

\* The faces at the positions of a row, as validateSet records them.
Faces(r) == [i \in 1 .. Len(r) |-> Represents(r, i)]

\* Faces that keep the numbered tiles and give each joker a face of the deck
\* are a reading of the row.
LEMMA FacesRead ==
  ASSUME NEW r \in Seq(Catalog),
         \A i \in (1 .. Len(r)) \ Anchors(r) : Represents(r, i) \in Face
  PROVE  Faces(r) \in Readings(r)
<1> DEFINE as == [i \in (1 .. Len(r)) \ Anchors(r) |-> Represents(r, i)]
<1>1. as \in [(1 .. Len(r)) \ Anchors(r) -> Face]
  OBVIOUS
<1>2. \A i \in 1 .. Len(r) : i \in Anchors(r) <=> IsNumbered(r[i])
  BY DEF Anchors
<1>3. \A i \in Anchors(r) : Represents(r, i) = [color |-> r[i].color, value |-> r[i].value]
  BY DEF Represents
<1>4. Faces(r) = ReadAs(r, as)
  BY <1>2, <1>3 DEF Faces, ReadAs
<1> HIDE DEF as
<1>. QED  BY <1>1, <1>4 DEF Readings

\* The jokers of a group stand for different free colours and its number.
LEMMA GroupFaces ==
  ASSUME NEW r \in Seq(Catalog), ValidGroup(r)
  PROVE  Faces(r) \in Readings(r) /\ GroupReading(Faces(r), Len(r))
<1> DEFINE J == (1 .. Len(r)) \ Anchors(r)
           a == Min(Anchors(r))
           rank(i) == JokersBefore(r, i)
           free == FreeColors(r)
<1>1. a \in Anchors(r) /\ \A i \in Anchors(r) : r[i].value = r[a].value
  BY FirstAnchor DEF ValidGroup
<1>2. r[a].value \in MIN_VALUE .. MAX_VALUE
  BY <1>1, TileKinds
<1>3. \A i \in J : Represents(r, i) = [color |-> NthColor(rank(i), free), value |-> r[a].value]
  BY DEF Represents
<1>4. \A i \in Anchors(r) : Represents(r, i) = [color |-> r[i].color, value |-> r[i].value]
  BY DEF Represents
<1> HIDE DEF a
<1>5. \A i \in J : rank(i) \in Nat \ {0} /\ rank(i) <= Cardinality(UpTo(Len(COLORS), free))
  <2> SUFFICES ASSUME NEW i \in J
               PROVE  rank(i) \in Nat \ {0} /\ rank(i) <= Cardinality(UpTo(Len(COLORS), free))
    OBVIOUS
  <2>1. rank(i) \in Nat \ {0} /\ rank(i) <= Cardinality(J)
    BY JokerRanks
  <2>2. Cardinality(J) <= Cardinality(UpTo(Len(COLORS), free))
    BY ColorsSuffice
  <2>3. Cardinality(J) \in Nat
    <3>1. Len(r) \in Nat /\ J \in SUBSET (1 .. Len(r))
      BY TileKinds
    <3>2. IsFiniteSet(1 .. Len(r))
      BY <3>1, FS_Interval
    <3> HIDE DEF J
    <3>. QED  BY <3>1, <3>2, FS_Subset, FS_CardinalityType
  <2>4. Cardinality(UpTo(Len(COLORS), free)) \in Nat
    <3>1. Len(COLORS) \in 0 .. Len(COLORS)
      BY RulesAssumption
    <3>. QED  BY <3>1, ColorCount
  <2> HIDE DEF J, free, rank
  <2>. QED  BY <2>1, <2>2, <2>3, <2>4
<1>6. \A i \in J : NthColor(rank(i), free) \in free
  BY <1>5, NthColorPlace
<1>7. \A i, k \in J : i # k => NthColor(rank(i), free) # NthColor(rank(k), free)
  <2> SUFFICES ASSUME NEW i \in J, NEW k \in J, i # k
               PROVE  NthColor(rank(i), free) # NthColor(rank(k), free)
    OBVIOUS
  <2>1. i < k \/ k < i
    BY TileKinds
  <2>2. rank(i) # rank(k)
    BY <2>1, JokerRanks
  <2> HIDE DEF J, free, rank
  <2>. QED  BY <1>5, <2>2, NthColorsDiffer
<1>8. \A i \in J : \A k \in Anchors(r) : NthColor(rank(i), free) # r[k].color
  BY <1>6 DEF FreeColors
<1>9. \A i \in J : NthColor(rank(i), free) \in Color
  BY <1>6 DEF FreeColors
<1>10. Faces(r) \in Readings(r)
  BY <1>2, <1>3, <1>9, FacesRead DEF Face
<1>11. \A i, k \in Anchors(r) : i # k => r[i].color # r[k].color
  BY DEF ValidGroup
<1>12. \A i \in 1 .. Len(r) : i \in J \/ i \in Anchors(r)
  OBVIOUS
<1> HIDE DEF rank, free
<1>13. \A i, k \in 1 .. Len(r) :
         /\ Represents(r, i).value = Represents(r, k).value
         /\ i # k => Represents(r, i).color # Represents(r, k).color
  <2>1. \A i \in 1 .. Len(r) : Represents(r, i).value = r[a].value
    BY <1>1, <1>3, <1>4, <1>12
  <2>2. ASSUME NEW i \in 1 .. Len(r), NEW k \in 1 .. Len(r), i # k
        PROVE  Represents(r, i).color # Represents(r, k).color
    <3>1. CASE i \in J /\ k \in J
      BY <1>3, <1>7, <2>2, <3>1
    <3>2. CASE i \in J /\ k \in Anchors(r)
      BY <1>3, <1>4, <1>8, <3>2
    <3>3. CASE i \in Anchors(r) /\ k \in J
      BY <1>3, <1>4, <1>8, <3>3
    <3>4. CASE i \in Anchors(r) /\ k \in Anchors(r)
      BY <1>4, <1>11, <2>2, <3>4
    <3>. QED  BY <1>12, <3>1, <3>2, <3>3, <3>4
  <2>. QED  BY <2>1, <2>2
<1>14. GroupReading(Faces(r), Len(r))
  BY <1>13 DEF GroupReading, Faces
<1>. QED  BY <1>10, <1>14

\* The tiles of a run stand for the numbers from its base on, in its colour.
LEMMA RunFaces ==
  ASSUME NEW r \in Seq(Catalog), ValidRun(r), ~ ValidGroup(r)
  PROVE  Faces(r) \in Readings(r) /\ RunReading(Faces(r), Len(r))
<1> DEFINE a == Min(Anchors(r))
           base == BaseAt(r, a)
<1>1. a \in Anchors(r) /\ \A i \in Anchors(r) : r[i].color = r[a].color /\ BaseAt(r, i) = base
  BY FirstAnchor DEF ValidRun
<1>2. /\ Len(r) \in Nat /\ a \in 1 .. Len(r)
      /\ r[a].color \in Color /\ \A i \in Anchors(r) : r[i].value \in Nat
  BY <1>1, TileKinds, RulesAssumption DEF MIN_VALUE
<1>3. base \in Int /\ base >= MIN_VALUE /\ base + Len(r) - 1 <= MAX_VALUE
  BY <1>1, <1>2 DEF ValidRun, BaseAt
<1>4. \A i \in 1 .. Len(r) : i \notin Anchors(r) =>
        Represents(r, i) = [color |-> r[a].color, value |-> base + i - 1]
  BY DEF Represents
<1>5. \A i \in Anchors(r) : Represents(r, i) = [color |-> r[i].color, value |-> r[i].value]
  BY DEF Represents
<1>6. \A i \in Anchors(r) : r[i].value = base + i - 1
  <2> SUFFICES ASSUME NEW i \in Anchors(r)  PROVE r[i].value = base + i - 1
    OBVIOUS
  <2>1. base = r[i].value - (i - 1) /\ r[i].value \in Nat /\ i \in Nat
    BY <1>1, <1>2, TileKinds DEF BaseAt
  <2> HIDE DEF base
  <2>. QED  BY <1>3, <2>1
<1> HIDE DEF a, base
<1>7. \A i \in 1 .. Len(r) : Represents(r, i) = [color |-> r[a].color, value |-> base + i - 1]
  BY <1>1, <1>4, <1>5, <1>6
<1>8. \A i \in 1 .. Len(r) : base + i - 1 \in MIN_VALUE .. MAX_VALUE
  BY <1>2, <1>3, RulesAssumption DEF MIN_VALUE
<1>9. Faces(r) \in Readings(r)
  BY <1>2, <1>7, <1>8, FacesRead DEF Face
<1>10. RunReading(Faces(r), Len(r))
  <2> SUFFICES ASSUME NEW i \in 1 .. Len(r) - 1
               PROVE  /\ Faces(r)[i + 1].color = Faces(r)[i].color
                      /\ Faces(r)[i + 1].value = Faces(r)[i].value + 1
    BY DEF RunReading
  <2>1. i \in 1 .. Len(r) /\ i + 1 \in 1 .. Len(r) /\ (i + 1) - 1 = i
    BY <1>2
  <2>2. /\ Faces(r)[i] = [color |-> r[a].color, value |-> base + i - 1]
        /\ Faces(r)[i + 1] = [color |-> r[a].color, value |-> base + (i + 1) - 1]
    BY <1>7, <2>1 DEF Faces
  <2>3. base + (i + 1) - 1 = (base + i - 1) + 1
    BY <1>3, <2>1
  <2>. QED  BY <2>2, <2>3
<1>. QED  BY <1>9, <1>10

-----------------------------------------------------------------------------
(* Every set of the rules is accepted *)

\* A run's numbers count up from its first.
LEMMA RunCountsUp ==
  ASSUME NEW n \in Nat, NEW f, \A i \in 1 .. n : f[i] \in Face, RunReading(f, n)
  PROVE  \A i \in 1 .. n : f[i].color = f[1].color /\ f[i].value = f[1].value + (i - 1)
<1> DEFINE Ok(i) == f[i].color = f[1].color /\ f[i].value = f[1].value + (i - 1)
           S == {i \in 1 .. n : ~ Ok(i)}
<1>1. SUFFICES ASSUME S # {}  PROVE FALSE
  OBVIOUS
<1>2. S \in SUBSET Nat
  OBVIOUS
<1>3. PICK k \in S : \A j \in S : k <= j
  BY <1>1, <1>2, LeastNatural
<1>4. \A i \in 1 .. n : f[i].value \in Nat
  BY RulesAssumption DEF Face, MIN_VALUE
<1>5. k \in 1 .. n /\ ~ Ok(k)
  BY <1>3
<1>6. k # 1
  <2>1. 1 \in 1 .. n
    BY <1>5
  <2>2. Ok(1)
    BY <1>4, <2>1
  <2>. QED  BY <1>5, <2>2
<1>7. k - 1 \in 1 .. n /\ k - 1 \in 1 .. n - 1 /\ (k - 1) + 1 = k /\ ~ (k <= k - 1)
  BY <1>5, <1>6
<1>8. Ok(k - 1)
  BY <1>3, <1>7
<1>9. f[k].color = f[k - 1].color /\ f[k].value = f[k - 1].value + 1
  BY <1>7 DEF RunReading
<1>10. 1 \in 1 .. n
  BY <1>5
<1>11. Ok(k)
  BY <1>4, <1>5, <1>7, <1>8, <1>9, <1>10
<1>. QED  BY <1>5, <1>11

\* A reading keeps the numbered tiles and gives every position a face.
LEMMA ReadingFaces ==
  ASSUME NEW r \in Seq(Catalog), NEW f \in Readings(r)
  PROVE  /\ \A i \in 1 .. Len(r) : f[i] \in Face
         /\ \A i \in Anchors(r) : f[i].color = r[i].color /\ f[i].value = r[i].value
<1>1. PICK as \in [(1 .. Len(r)) \ Anchors(r) -> Face] : f = ReadAs(r, as)
  BY DEF Readings
<1>2. \A i \in 1 .. Len(r) : i \in Anchors(r) <=> IsNumbered(r[i])
  BY DEF Anchors
<1>3. \A i \in Anchors(r) : i \in 1 .. Len(r) /\ f[i] = [color |-> r[i].color, value |-> r[i].value]
  BY <1>1, <1>2, TileKinds DEF ReadAs
<1>4. \A i \in (1 .. Len(r)) \ Anchors(r) : f[i] = as[i]
  BY <1>1, <1>2 DEF ReadAs
<1>5. ASSUME NEW i \in Anchors(r)
      PROVE  f[i] \in Face /\ f[i].color = r[i].color /\ f[i].value = r[i].value
  <2>1. f[i] = [color |-> r[i].color, value |-> r[i].value]
    BY <1>3
  <2>2. r[i].color \in Color /\ r[i].value \in MIN_VALUE .. MAX_VALUE
    BY TileKinds
  <2>. QED  BY <2>1, <2>2 DEF Face
<1>6. \A i \in (1 .. Len(r)) \ Anchors(r) : f[i] \in Face
  BY <1>1, <1>4
<1>7. \A i \in 1 .. Len(r) : f[i] \in Face
  BY <1>5, <1>6
<1>. QED  BY <1>5, <1>7

\* No more positions than colours can have a colour each.
LEMMA ColorsEach ==
  ASSUME NEW n \in Nat, NEW f, \A i \in 1 .. n : f[i] \in Face, GroupReading(f, n)
  PROVE  n <= Len(COLORS)
<1> DEFINE C == 1 .. Len(COLORS)
           place == [i \in 1 .. n |-> CHOOSE j \in C : COLORS[j] = f[i].color]
<1>1. \A i \in 1 .. n : \E j \in C : COLORS[j] = f[i].color
  BY DEF Face, Color
<1>2. \A i \in 1 .. n : place[i] \in C /\ COLORS[place[i]] = f[i].color
  BY <1>1
<1>3. place \in [1 .. n -> C]
  BY <1>2
<1> HIDE DEF place
<1>4. \A i, k \in 1 .. n : place[i] = place[k] => i = k
  BY <1>2 DEF GroupReading
<1>5. place \in Injection(1 .. n, C)
  BY <1>3, <1>4 DEF Injection, IsInjective
<1>6. \A m \in Nat : IsFiniteSet(1 .. m) /\ Cardinality(1 .. m) = m
  BY FS_Interval
<1>7. IsFiniteSet(C) /\ Cardinality(C) = Len(COLORS) /\ Cardinality(1 .. n) = n
  BY <1>6, RulesAssumption
<1> HIDE DEF C
<1>8. Cardinality(1 .. n) <= Cardinality(C)
  BY <1>5, <1>7, FS_Injection
<1>. QED  BY <1>7, <1>8

\* A row that can be read as a group or a run is accepted.
LEMMA SetsAccepted ==
  ASSUME NEW r \in Seq(Catalog), IsSet(r)
  PROVE  ValidSet(r)
<1>1. PICK f \in Readings(r) : RunReading(f, Len(r)) \/ GroupReading(f, Len(r))
  BY DEF IsSet
<1>2. /\ Len(r) \in Nat /\ Len(r) >= 3 /\ Anchors(r) # {} /\ ~ HasDuplicateTileIds(r)
      /\ Anchors(r) \subseteq 1 .. Len(r) /\ Len(COLORS) \in Nat /\ MAX_VALUE \in Nat
  BY TileKinds, RulesAssumption DEF IsSet, HasDuplicateTileIds
<1>3. /\ \A i \in 1 .. Len(r) : f[i] \in Face
      /\ \A i \in Anchors(r) : f[i].color = r[i].color /\ f[i].value = r[i].value
  BY <1>1, ReadingFaces
<1>4. CASE GroupReading(f, Len(r))
  <2>1. Len(r) <= Len(COLORS)
    BY <1>2, <1>3, <1>4, ColorsEach
  <2>2. \A i, j \in Anchors(r) : r[i].value = r[j].value /\ (i # j => r[i].color # r[j].color)
    BY <1>2, <1>3, <1>4 DEF GroupReading
  <2>. QED  BY <1>2, <2>1, <2>2 DEF ValidSet, ValidGroup, MIN_SET_LENGTH, MAX_GROUP_LENGTH
<1>5. CASE RunReading(f, Len(r))
  <2> DEFINE b == f[1].value
  <2>1. \A i \in 1 .. Len(r) : f[i].color = f[1].color /\ f[i].value = b + (i - 1)
    BY <1>2, <1>3, <1>5, RunCountsUp
  <2>2. \A i \in 1 .. Len(r) : f[i].value \in MIN_VALUE .. MAX_VALUE
    BY <1>3 DEF Face
  <2>3. 1 \in 1 .. Len(r) /\ Len(r) \in 1 .. Len(r)
    BY <1>2
  <2>4. b \in MIN_VALUE .. MAX_VALUE /\ b + (Len(r) - 1) \in MIN_VALUE .. MAX_VALUE
    BY <2>1, <2>2, <2>3
  <2>5. \A i \in Anchors(r) : i \in Nat /\ r[i].color = f[1].color /\ r[i].value = b + (i - 1)
    BY <1>2, <1>3, <2>1
  <2> HIDE DEF b
  <2>6. \A i \in Anchors(r) : BaseAt(r, i) = b
    BY <1>2, <2>4, <2>5 DEF BaseAt, MIN_VALUE
  <2>7. \A i, j \in Anchors(r) : i # j => r[i].value # r[j].value
    BY <1>2, <2>4, <2>5 DEF MIN_VALUE
  <2>8. Len(r) <= MAX_VALUE /\ b >= MIN_VALUE /\ b + Len(r) - 1 <= MAX_VALUE
    BY <1>2, <2>4 DEF MIN_VALUE
  <2>. QED  BY <1>2, <2>5, <2>6, <2>7, <2>8 DEF ValidSet, ValidRun, MIN_SET_LENGTH, MAX_RUN_LENGTH
<1>. QED  BY <1>1, <1>4, <1>5

\* An accepted row is a set of the rules: its recorded faces are the reading.
LEMMA AcceptedAreSets ==
  ASSUME NEW r \in Seq(Catalog), ValidSet(r)
  PROVE  /\ IsSet(r)
         /\ Faces(r) \in Readings(r)
         /\ RunReading(Faces(r), Len(r)) \/ GroupReading(Faces(r), Len(r))
<1>1. /\ Faces(r) \in Readings(r)
      /\ RunReading(Faces(r), Len(r)) \/ GroupReading(Faces(r), Len(r))
  BY GroupFaces, RunFaces DEF ValidSet
<1>2. Len(r) >= 3 /\ Anchors(r) # {} /\ ~ HasDuplicateTileIds(r)
  BY TileKinds, RulesAssumption DEF ValidSet, ValidRun, ValidGroup, MIN_SET_LENGTH,
     MAX_RUN_LENGTH, MAX_GROUP_LENGTH
<1>. QED  BY <1>1, <1>2 DEF IsSet, HasDuplicateTileIds

-----------------------------------------------------------------------------
(* What holds of every row that is laid *)

\* A row is made of tiles of the catalog.
LEMMA RowTyped == RowSpec => [](row \in Seq(Catalog))
<1>1. RowInit => row \in Seq(Catalog)
  BY DEF RowInit
<1>2. row \in Seq(Catalog) /\ [RowNext]_row => (row \in Seq(Catalog))'
  BY DEF RowNext, Place
<1>. QED  BY <1>1, <1>2, PTL DEF RowSpec

\* validateSet accepts exactly the rows whose jokers can be read so that the
\* row is a run in order or a group, whatever the deck and however long the row.
THEOREM AcceptsExactlySetsAlways == RowSpec => []AcceptsExactlySets
<1>1. row \in Seq(Catalog) => AcceptsExactlySets
  BY SetsAccepted, AcceptedAreSets DEF AcceptsExactlySets
<1>. QED  BY <1>1, RowTyped, PTL

\* What the jokers of an accepted row are recorded to stand for makes it a run
\* or a group: a group never runs out of colours for its jokers.
THEOREM JokersReadTrueAlways == RowSpec => []JokersReadTrue
<1>1. row \in Seq(Catalog) => JokersReadTrue
  BY AcceptedAreSets DEF JokersReadTrue, Faces
<1>. QED  BY <1>1, RowTyped, PTL

-----------------------------------------------------------------------------
(* Sums over finite sets *)

\* The element at which a sum goes on, and what it is for F to hold the sums of
\* v over the subsets of S.
Pick(s) == CHOOSE x \in s : TRUE

Adds(F, v, S) ==
  F = [s \in SUBSET S |-> IF s = {} THEN 0 ELSE v[Pick(s)] + F[s \ {Pick(s)}]]

\* What such a sum is made of.
LEMMA AddsUp ==
  ASSUME NEW S, NEW v, NEW F, Adds(F, v, S), NEW s \in SUBSET S
  PROVE  /\ s = {} => F[s] = 0
         /\ s # {} => /\ Pick(s) \in s /\ s \ {Pick(s)} \in SUBSET S
                      /\ F[s] = v[Pick(s)] + F[s \ {Pick(s)}]
<1>1. F[s] = IF s = {} THEN 0 ELSE v[Pick(s)] + F[s \ {Pick(s)}]
  BY DEF Adds
<1>2. s # {} => Pick(s) \in s
  BY DEF Pick
<1>. QED  BY <1>1, <1>2

\* Nothing adds up to zero.
LEMMA EmptySum ==
  ASSUME NEW S, NEW v, NEW F, Adds(F, v, S)
  PROVE  F[{}] = 0
<1>1. {} \in SUBSET S
  OBVIOUS
<1>. QED  BY <1>1, AddsUp

\* Among the subsets of a finite set that have something in common there is one
\* no proper part of which has it.
LEMMA SmallestSubset ==
  ASSUME NEW S, IsFiniteSet(S), NEW Q \in SUBSET (SUBSET S), Q # {}
  PROVE  \E s \in Q : \A t \in Q : t \subseteq s => t = s
<1> DEFINE C == {Cardinality(s) : s \in Q}
<1>1. \A s \in Q : IsFiniteSet(s) /\ Cardinality(s) \in Nat
  BY FS_Subset, FS_CardinalityType
<1>2. C \in SUBSET Nat /\ C # {}
  BY <1>1
<1>3. PICK n \in C : \A m \in C : n <= m
  BY <1>2, LeastNatural
<1>4. PICK s \in Q : n = Cardinality(s)
  BY <1>3
<1>5. ASSUME NEW t \in Q, t \subseteq s  PROVE t = s
  <2>1. Cardinality(t) <= Cardinality(s) /\ (Cardinality(s) = Cardinality(t) => s = t)
    BY <1>1, <1>5, FS_Subset
  <2>2. Cardinality(s) <= Cardinality(t)
    BY <1>3, <1>4
  <2>. QED  BY <1>1, <2>1, <2>2
<1>. QED  BY <1>5

\* Sums of the same numbers over the same set are the same.
LEMMA SameSum ==
  ASSUME NEW S, NEW v, NEW F, Adds(F, v, S), NEW T, NEW u, NEW G, Adds(G, u, T),
         NEW r, IsFiniteSet(r), r \subseteq S, r \subseteq T, \A x \in r : v[x] = u[x]
  PROVE  F[r] = G[r]
<1> DEFINE Q == {s \in SUBSET r : F[s] # G[s]}
<1>1. SUFFICES ASSUME Q # {}  PROVE FALSE
  OBVIOUS
<1>2. PICK s \in Q : \A t \in Q : t \subseteq s => t = s
  <2>1. Q \in SUBSET (SUBSET r)
    OBVIOUS
  <2> HIDE DEF Q
  <2>. QED  BY <1>1, <2>1, SmallestSubset
<1>3. s \in SUBSET S /\ s \in SUBSET T
  OBVIOUS
<1>4. s # {}
  BY EmptySum
<1>5. /\ Pick(s) \in s
      /\ F[s] = v[Pick(s)] + F[s \ {Pick(s)}] /\ G[s] = u[Pick(s)] + G[s \ {Pick(s)}]
  BY <1>3, <1>4, AddsUp
<1>6. s \ {Pick(s)} \notin Q
  BY <1>2, <1>5
<1>7. F[s \ {Pick(s)}] = G[s \ {Pick(s)}]
  BY <1>6
<1>8. v[Pick(s)] = u[Pick(s)]
  BY <1>5
<1>. QED  BY <1>5, <1>7, <1>8

\* Every finite set of numbers has a sum.
LEMMA SumExists ==
  ASSUME NEW S, IsFiniteSet(S), NEW v
  PROVE  \E F : Adds(F, v, S)
<1> DEFINE Q == {s \in SUBSET S : ~ \E F : Adds(F, v, s)}
<1>1. SUFFICES ASSUME Q # {}  PROVE FALSE
  OBVIOUS
<1>2. PICK s \in Q : \A t \in Q : t \subseteq s => t = s
  <2>1. Q \in SUBSET (SUBSET S)
    OBVIOUS
  <2> HIDE DEF Q
  <2>. QED  BY <1>1, <2>1, SmallestSubset
<1> DEFINE G(t) == CHOOSE F : Adds(F, v, t)
           rest(t) == t \ {Pick(t)}
           F == [t \in SUBSET s |-> IF t = {} THEN 0 ELSE v[Pick(t)] + G(rest(t))[rest(t)]]
<1>3. \A t \in SUBSET s : t # s => Adds(G(t), v, t)
  BY <1>2
<1>4. \A t \in SUBSET s : t # {} => Pick(t) \in t /\ rest(t) \in SUBSET s /\ rest(t) # s
  BY DEF Pick
<1>5. \A t \in SUBSET s : IsFiniteSet(t)
  BY FS_Subset
<1>6. ASSUME NEW t \in SUBSET s, t # s  PROVE F[t] = G(t)[t]
  <2>1. Adds(G(t), v, t)
    BY <1>3, <1>6
  <2>2. CASE t = {}
    <3>1. G(t)[{}] = 0
      BY <2>1, EmptySum
    <3>. QED  BY <2>2, <3>1
  <2>3. CASE t # {}
    <3>1. G(t)[t] = v[Pick(t)] + G(t)[rest(t)]
      BY <2>1, <2>3, AddsUp
    <3>2. Adds(G(rest(t)), v, rest(t))
      BY <1>3, <1>4, <2>3
    <3>3. rest(t) \subseteq t /\ IsFiniteSet(rest(t))
      BY <1>4, <1>5, <2>3
    <3>4. G(t)[rest(t)] = G(rest(t))[rest(t)]
      <4> HIDE DEF G, rest
      <4>. QED  BY <2>1, <3>2, <3>3, SameSum
    <3>5. F[t] = v[Pick(t)] + G(rest(t))[rest(t)]
      BY <2>3
    <3>. QED  BY <3>1, <3>4, <3>5
  <2>. QED  BY <2>2, <2>3
<1>7. \A t \in SUBSET s : F[t] = IF t = {} THEN 0 ELSE v[Pick(t)] + F[rest(t)]
  <2> SUFFICES ASSUME NEW t \in SUBSET s
               PROVE  F[t] = IF t = {} THEN 0 ELSE v[Pick(t)] + F[rest(t)]
    OBVIOUS
  <2>1. F[t] = IF t = {} THEN 0 ELSE v[Pick(t)] + G(rest(t))[rest(t)]
    OBVIOUS
  <2>2. t # {} => F[rest(t)] = G(rest(t))[rest(t)]
    BY <1>4, <1>6
  <2> HIDE DEF F, G, rest
  <2>. QED  BY <2>1, <2>2
<1>8. F = [t \in SUBSET s |-> IF t = {} THEN 0 ELSE v[Pick(t)] + F[rest(t)]]
  <2>1. F = [t \in SUBSET s |-> F[t]]
    OBVIOUS
  <2> HIDE DEF F, G, rest
  <2>. QED  BY <1>7, <2>1
<1>9. Adds(F, v, s)
  BY <1>8 DEF Adds
<1>. QED  BY <1>9

\* The sum of integers is an integer, and has their sign.
LEMMA SumSign ==
  ASSUME NEW S, IsFiniteSet(S), NEW v, \A x \in S : v[x] \in Int, NEW F, Adds(F, v, S)
  PROVE  /\ F[S] \in Int
         /\ (\A x \in S : v[x] >= 0) => F[S] >= 0
         /\ (\A x \in S : v[x] <= 0) => F[S] <= 0
<1> DEFINE Good(s) == /\ F[s] \in Int
                      /\ (\A x \in S : v[x] >= 0) => F[s] >= 0
                      /\ (\A x \in S : v[x] <= 0) => F[s] <= 0
           Q == {s \in SUBSET S : ~ Good(s)}
<1>1. SUFFICES ASSUME Q # {}  PROVE FALSE
  OBVIOUS
<1>2. PICK s \in Q : \A t \in Q : t \subseteq s => t = s
  <2>1. Q \in SUBSET (SUBSET S)
    OBVIOUS
  <2> HIDE DEF Q
  <2>. QED  BY <1>1, <2>1, SmallestSubset
<1>3. s # {}
  <2>1. Good({})
    BY EmptySum
  <2>. QED  BY <2>1
<1>4. Pick(s) \in s /\ s \ {Pick(s)} \in SUBSET S /\ F[s] = v[Pick(s)] + F[s \ {Pick(s)}]
  BY <1>3, AddsUp
<1>5. Good(s \ {Pick(s)})
  BY <1>2, <1>4
<1>6. v[Pick(s)] \in Int /\ Pick(s) \in S
  BY <1>4
<1>7. Good(s)
  <2> DEFINE p == v[Pick(s)]
             f == F[s \ {Pick(s)}]
  <2>1. F[s] = p + f /\ p \in Int /\ f \in Int
    BY <1>4, <1>5, <1>6
  <2>2. (\A x \in S : v[x] >= 0) => p >= 0 /\ f >= 0
    BY <1>5, <1>6
  <2>3. (\A x \in S : v[x] <= 0) => p <= 0 /\ f <= 0
    BY <1>5, <1>6
  <2> HIDE DEF p, f
  <2>. QED  BY <2>1, <2>2, <2>3
<1>. QED  BY <1>7

\* A sum can be taken in any order: one element comes first.
LEMMA SumSplits ==
  ASSUME NEW S, IsFiniteSet(S), NEW v, \A x \in S : v[x] \in Int, NEW F, Adds(F, v, S),
         NEW y \in S
  PROVE  F[S] = v[y] + F[S \ {y}]
<1> DEFINE Good(s) == \A x \in s : F[s] = v[x] + F[s \ {x}]
           Q == {s \in SUBSET S : ~ Good(s)}
<1>1. SUFFICES ASSUME Q # {}  PROVE FALSE
  OBVIOUS
<1>2. PICK s \in Q : \A t \in Q : t \subseteq s => t = s
  <2>1. Q \in SUBSET (SUBSET S)
    OBVIOUS
  <2> HIDE DEF Q
  <2>. QED  BY <1>1, <2>1, SmallestSubset
<1>3. PICK x \in s : F[s] # v[x] + F[s \ {x}]
  OBVIOUS
<1> DEFINE p == Pick(s)
           r == s \ {p}
           t == s \ {x}
           u == s \ {p, x}
<1>4. p \in s /\ F[s] = v[p] + F[r]
  BY <1>3, AddsUp
<1>5. p # x
  BY <1>3, <1>4
<1>6. Good(r) /\ Good(t)
  BY <1>2, <1>3, <1>4
<1>7. x \in r /\ p \in t /\ r \ {x} = u /\ t \ {p} = u
  BY <1>3, <1>4, <1>5
<1>8. F[r] = v[x] + F[u] /\ F[t] = v[p] + F[u]
  BY <1>6, <1>7
<1>9. v[x] \in Int /\ v[p] \in Int /\ F[u] \in Int
  <2>1. F[u] \in Int
    <3>1. \E G : Adds(G, v, u)
      <4>1. IsFiniteSet(u)
        BY FS_Subset
      <4> HIDE DEF u
      <4>. QED  BY <4>1, SumExists
    <3>2. PICK G : Adds(G, v, u)
      BY <3>1
    <3>3. u \in SUBSET S
      OBVIOUS
    <3>4. IsFiniteSet(u)
      BY <3>3, FS_Subset
    <3> HIDE DEF u
    <3>5. G[u] \in Int
      BY <3>2, <3>3, <3>4, SumSign
    <3>6. F[u] = G[u]
      BY <3>2, <3>3, <3>4, SameSum
    <3>. QED  BY <3>5, <3>6
  <2>. QED  BY <1>4, <2>1
<1> HIDE DEF p, r, t, u
<1>10. F[s] = v[x] + F[t]
  BY <1>4, <1>8, <1>9
<1>. QED  BY <1>3, <1>10 DEF t

\* SumFunctionOnSet is such a sum.
LEMMA SumIs ==
  ASSUME NEW S, IsFiniteSet(S), NEW v
  PROVE  \E F : Adds(F, v, S) /\ SumFunctionOnSet(v, S) = F[S]
<1> DEFINE F == CHOOSE f : f = [s \in SUBSET S |->
                  IF s = {} THEN 0 ELSE v[Pick(s)] + f[s \ {Pick(s)}]]
<1>1. Adds(F, v, S)
  <2>1. PICK f : Adds(f, v, S)
    BY SumExists
  <2>2. f = [s \in SUBSET S |-> IF s = {} THEN 0 ELSE v[Pick(s)] + f[s \ {Pick(s)}]]
    BY <2>1 DEF Adds
  <2>. QED  BY <2>2 DEF Adds
<1>2. SumFunctionOnSet(v, S) = F[S]
  BY DEF SumFunctionOnSet, FoldFunctionOnSet, MapThenFoldSet, Pick
<1> HIDE DEF F
<1>. QED  BY <1>1, <1>2

\* Sums of the same numbers over the same set are the same.
LEMMA SumsAgree ==
  ASSUME NEW S, IsFiniteSet(S), NEW v, NEW u, \A x \in S : v[x] = u[x]
  PROVE  SumFunctionOnSet(v, S) = SumFunctionOnSet(u, S)
<1>1. PICK F : Adds(F, v, S) /\ SumFunctionOnSet(v, S) = F[S]
  BY SumIs
<1>2. PICK G : Adds(G, u, S) /\ SumFunctionOnSet(u, S) = G[S]
  BY SumIs
<1>3. F[S] = G[S]
  BY <1>1, <1>2, SameSum
<1>. QED  BY <1>1, <1>2, <1>3

\* The sum of integers is an integer, and of naturals a natural.
LEMMA SumType ==
  ASSUME NEW S, IsFiniteSet(S), NEW v, \A x \in S : v[x] \in Int
  PROVE  /\ SumFunctionOnSet(v, S) \in Int
         /\ (\A x \in S : v[x] >= 0) => SumFunctionOnSet(v, S) >= 0
<1>1. PICK F : Adds(F, v, S) /\ SumFunctionOnSet(v, S) = F[S]
  BY SumIs
<1>2. F[S] \in Int /\ ((\A x \in S : v[x] >= 0) => F[S] >= 0)
  BY <1>1, SumSign
<1>. QED  BY <1>1, <1>2

\* Nothing sums to zero.
LEMMA SumOfNothing ==
  ASSUME NEW v
  PROVE  SumFunctionOnSet(v, {}) = 0
<1>1. IsFiniteSet({})
  BY FS_EmptySet
<1>2. PICK F : Adds(F, v, {}) /\ SumFunctionOnSet(v, {}) = F[{}]
  BY <1>1, SumIs
<1>. QED  BY <1>2, EmptySum

\* One more element adds its number.
LEMMA SumGrows ==
  ASSUME NEW S, IsFiniteSet(S), NEW y, y \notin S, NEW v, \A x \in S \cup {y} : v[x] \in Int
  PROVE  SumFunctionOnSet(v, S \cup {y}) = SumFunctionOnSet(v, S) + v[y]
<1> DEFINE T == S \cup {y}
<1>1. T = S \cup {y} /\ IsFiniteSet(T) /\ y \in T /\ T \ {y} = S /\ S \in SUBSET T
  BY FS_AddElement
<1>2. \A x \in T : v[x] \in Int
  OBVIOUS
<1> HIDE DEF T
<1>3. PICK F : Adds(F, v, T) /\ SumFunctionOnSet(v, T) = F[T]
  BY <1>1, SumIs
<1>4. PICK G : Adds(G, v, S) /\ SumFunctionOnSet(v, S) = G[S]
  BY SumIs
<1>5. F[T] = v[y] + F[T \ {y}]
  <2>1. IsFiniteSet(T) /\ y \in T /\ Adds(F, v, T)
    BY <1>1, <1>3
  <2>. QED  BY ONLY <1>2, <2>1, SumSplits
<1>6. F[S] = G[S]
  BY <1>1, <1>3, <1>4, SameSum
<1>7. SumFunctionOnSet(v, S) \in Int /\ v[y] \in Int
  BY <1>2, <1>1, SumType
<1>8. T = S \cup {y} /\ F[T \ {y}] = F[S]
  BY <1>1
<1>9. SumFunctionOnSet(v, T) = SumFunctionOnSet(v, S) + v[y]
  <2> DEFINE a == SumFunctionOnSet(v, T)
             b == SumFunctionOnSet(v, S)
             c == v[y]
  <2>1. a = c + F[S] /\ b = F[S] /\ b \in Int /\ c \in Int
    BY ONLY <1>3, <1>4, <1>5, <1>6, <1>7, <1>8
  <2> HIDE DEF a, b, c
  <2>2. a = b + c
    BY <2>1
  <2>. QED  BY <2>2 DEF a, b, c
<1>. QED  BY <1>8, <1>9

\* More elements with numbers of zero or more never make a sum smaller.
LEMMA SumMonotone ==
  ASSUME NEW S, IsFiniteSet(S), NEW R \in SUBSET S,
         NEW v, \A x \in S : v[x] \in Int /\ v[x] >= 0
  PROVE  SumFunctionOnSet(v, R) <= SumFunctionOnSet(v, S)
<1> DEFINE Sum(s) == SumFunctionOnSet(v, s)
           Q == {s \in SUBSET (S \ R) : ~ (Sum(R) <= Sum(R \cup s))}
<1>1. \A s \in SUBSET S : IsFiniteSet(s) /\ Sum(s) \in Int
  <2> SUFFICES ASSUME NEW s \in SUBSET S  PROVE IsFiniteSet(s) /\ Sum(s) \in Int
    OBVIOUS
  <2>1. IsFiniteSet(s)
    BY FS_Subset
  <2>2. \A x \in s : v[x] \in Int
    OBVIOUS
  <2>. QED  BY <2>1, <2>2, SumType
<1>2. ASSUME Q # {}  PROVE FALSE
  <2>1. IsFiniteSet(S \ R) /\ Q \in SUBSET (SUBSET (S \ R))
    BY <1>1
  <2>2. PICK s \in Q : \A t \in Q : t \subseteq s => t = s
    <3> HIDE DEF Q
    <3>. QED  BY <1>2, <2>1, SmallestSubset
  <2>3. s # {}
    <3>1. Sum(R) \in Int /\ R \cup {} = R
      BY <1>1
    <3> HIDE DEF Sum
    <3>2. Sum(R) <= Sum(R \cup {})
      BY <3>1
    <3>. QED  BY <3>2
  <2>4. PICK x \in s : TRUE
    BY <2>3
  <2> DEFINE t == s \ {x}
  <2>5. t \notin Q /\ t \in SUBSET (S \ R)
    BY <2>2, <2>4
  <2>6. Sum(R) <= Sum(R \cup t)
    BY <2>5
  <2>7. /\ R \cup t \in SUBSET S /\ x \notin R \cup t /\ (R \cup t) \cup {x} = R \cup s
        /\ x \in S /\ \A y \in (R \cup t) \cup {x} : v[y] \in Int
    BY <2>4
  <2>8. Sum(R \cup s) = Sum(R \cup t) + v[x]
    <3>1. IsFiniteSet(R \cup t)
      BY <1>1, <2>7
    <3> HIDE DEF t
    <3>2. Sum((R \cup t) \cup {x}) = Sum(R \cup t) + v[x]
      BY <2>7, <3>1, SumGrows
    <3>. QED  BY <2>7, <3>2
  <2>9. Sum(R) \in Int /\ Sum(R \cup t) \in Int /\ v[x] \in Int /\ v[x] >= 0
    BY <1>1, <2>7
  <2> HIDE DEF Sum, t
  <2>10. Sum(R) <= Sum(R \cup s)
    BY <2>6, <2>8, <2>9
  <2>. QED  BY <2>10
<1>3. S \ R \in SUBSET (S \ R) /\ R \cup (S \ R) = S /\ S \ R \notin Q
  BY <1>2
<1> HIDE DEF Sum
<1>4. Sum(R) <= Sum(R \cup (S \ R))
  BY <1>3
<1>. QED  BY <1>3, <1>4 DEF Sum

\* Elements under other names sum to the same.
LEMMA SumRenamed ==
  ASSUME NEW D, IsFiniteSet(D), NEW f, \A a, b \in D : f[a] = f[b] => a = b,
         NEW v, NEW u, \A d \in D : u[d] = v[f[d]] /\ u[d] \in Int
  PROVE  SumFunctionOnSet(u, D) = SumFunctionOnSet(v, {f[d] : d \in D})
<1> DEFINE Img(s) == {f[d] : d \in s}
           Q == {s \in SUBSET D : SumFunctionOnSet(u, s) # SumFunctionOnSet(v, Img(s))}
<1>1. SUFFICES ASSUME Q # {}  PROVE FALSE
  OBVIOUS
<1>2. PICK s \in Q : \A t \in Q : t \subseteq s => t = s
  <2>1. Q \in SUBSET (SUBSET D)
    OBVIOUS
  <2> HIDE DEF Q
  <2>. QED  BY <1>1, <2>1, SmallestSubset
<1>3. s # {}
  <2>1. Img({}) = {}
    OBVIOUS
  <2>2. SumFunctionOnSet(u, {}) = SumFunctionOnSet(v, Img({}))
    BY <2>1, SumOfNothing
  <2>. QED  BY <2>2
<1>4. PICK x \in s : TRUE
  BY <1>3
<1> DEFINE t == s \ {x}
<1>5. t \in SUBSET D /\ t \notin Q /\ x \notin t /\ t \cup {x} = s /\ x \in D /\ s \in SUBSET D
  BY <1>2, <1>4
<1>6. SumFunctionOnSet(u, t) = SumFunctionOnSet(v, Img(t))
  BY <1>5
<1>7. Img(s) = Img(t) \cup {f[x]} /\ f[x] \notin Img(t)
  BY <1>5
<1>8. IsFiniteSet(t) /\ IsFiniteSet(Img(t))
  <2>1. IsFiniteSet(t)
    BY <1>5, FS_Subset
  <2> DEFINE g == [d \in t |-> f[d]]
  <2>2. g \in Surjection(t, Img(t))
    BY DEF Surjection
  <2> HIDE DEF g, Img, t
  <2>. QED  BY <2>1, <2>2, FS_Surjection
<1>9. /\ \A y \in t \cup {x} : u[y] \in Int
      /\ \A y \in Img(t) \cup {f[x]} : v[y] \in Int
  BY <1>5
<1>10. u[x] = v[f[x]]
  BY <1>5
<1>11. SumFunctionOnSet(u, s) # SumFunctionOnSet(v, Img(s))
  OBVIOUS
<1> HIDE DEF t, Img, Q
<1>12. SumFunctionOnSet(u, t \cup {x}) = SumFunctionOnSet(u, t) + u[x]
  BY <1>5, <1>8, <1>9, SumGrows
<1>13. SumFunctionOnSet(v, Img(t) \cup {f[x]}) = SumFunctionOnSet(v, Img(t)) + v[f[x]]
  <2> DEFINE I == Img(t)
             y == f[x]
  <2>1. y \notin I /\ IsFiniteSet(I) /\ \A z \in I \cup {y} : v[z] \in Int
    BY <1>7, <1>8, <1>9
  <2> HIDE DEF I, y
  <2>2. SumFunctionOnSet(v, I \cup {y}) = SumFunctionOnSet(v, I) + v[y]
    BY ONLY <2>1, SumGrows
  <2>. QED  BY <2>2 DEF I, y
<1>14. SumFunctionOnSet(u, s) = SumFunctionOnSet(v, Img(s))
  BY <1>5, <1>6, <1>7, <1>10, <1>12, <1>13
<1>. QED  BY <1>11, <1>14

-----------------------------------------------------------------------------
(* Layouts and the jokers that fill their slots *)

\* The layouts of candidates: numbered tiles and slots for jokers.
NumberedTile == {t \in Catalog : IsNumbered(t)}
Layouts == Seq(NumberedTile \cup {JOKER_SLOT})

\* A slot is what is not a numbered tile.
LEMMA LayoutKinds ==
  ASSUME NEW l \in Layouts
  PROVE  /\ Len(l) \in Nat
         /\ \A i \in 1 .. Len(l) : /\ IsSlot(l[i]) <=> ~ IsNumbered(l[i])
                                   /\ ~ IsSlot(l[i]) => l[i] \in NumberedTile
<1>1. \A i \in 1 .. Len(l) : l[i] \in NumberedTile \cup {JOKER_SLOT}
  BY DEF Layouts
<1>2. Len(l) \in Nat
  BY DEF Layouts
<1>3. ~ IsNumbered(JOKER_SLOT) /\ \A t \in NumberedTile : IsNumbered(t)
  BY DEF IsNumbered, JOKER_SLOT, NumberedTile
<1>. QED  BY <1>1, <1>2, <1>3 DEF IsSlot

\* The rack's jokers, each once, in a sequence.
LEMMA JokerIds ==
  ASSUME NEW hand \in SUBSET Catalog
  PROVE  /\ RackJokerIds(hand) \in Seq(RackJokers(hand))
         /\ Len(RackJokerIds(hand)) = Cardinality(RackJokers(hand))
         /\ \A i, j \in 1 .. Len(RackJokerIds(hand)) :
              RackJokerIds(hand)[i] = RackJokerIds(hand)[j] => i = j
<1> DEFINE a == Numbered("joker", 0, "a")
           b == Numbered("joker", 0, "b")
           ids == RackJokerIds(hand)
<1>1. RackJokers(hand) = hand \cap {a, b}
  <2>1. \A t \in Catalog : ~ IsNumbered(t) <=> t \in {a, b}
    BY RulesAssumption DEF Catalog, IsNumbered, Numbered, Copy, Color
  <2>. QED  BY <2>1 DEF RackJokers
<1>2. a # b
  BY DEF Numbered
<1>3. ids = (IF a \in hand THEN <<a>> ELSE <<>>) \o (IF b \in hand THEN <<b>> ELSE <<>>)
  BY DEF RackJokerIds, JokerIfHeld
<1> HIDE DEF a, b, ids
<1>4. CASE a \in hand /\ b \in hand
  <2>0. ids = <<a>> \o <<b>>
    BY <1>3, <1>4
  <2>1. /\ ids \in Seq({a, b}) /\ Len(ids) = 2 /\ ids[1] = a /\ ids[2] = b
        /\ RackJokers(hand) = {a} \cup {b}
    <3>1. <<a>> \in Seq({a, b}) /\ <<b>> \in Seq({a, b})
      OBVIOUS
    <3>. QED  BY <1>1, <1>4, <2>0, <3>1
  <2>2. Cardinality({a} \cup {b}) = 2
    <3>1. IsFiniteSet({a}) /\ Cardinality({a}) = 1
      BY FS_Singleton
    <3>2. Cardinality({a} \cup {b}) = Cardinality({a}) + 1
      BY <1>2, <3>1, FS_AddElement
    <3>. QED  BY <3>1, <3>2
  <2>3. \A i \in 1 .. Len(ids) : i = 1 \/ i = 2
    BY <2>1
  <2>4. ids \in Seq(RackJokers(hand))
    BY <2>1
  <2>. QED  BY <1>2, <2>1, <2>2, <2>3, <2>4 DEF ids
<1>5. CASE a \in hand /\ b \notin hand
  <2>1. ids = <<a>> /\ RackJokers(hand) = {a}
    BY <1>1, <1>3, <1>5
  <2>. QED  BY <2>1, FS_Singleton DEF ids
<1>6. CASE a \notin hand /\ b \in hand
  <2>1. ids = <<b>> /\ RackJokers(hand) = {b}
    BY <1>1, <1>3, <1>6
  <2>. QED  BY <2>1, FS_Singleton DEF ids
<1>7. CASE a \notin hand /\ b \notin hand
  <2>1. ids = <<>> /\ RackJokers(hand) = {}
    BY <1>1, <1>3, <1>7
  <2>. QED  BY <2>1, FS_EmptySet DEF ids
<1>. QED  BY <1>4, <1>5, <1>6, <1>7

\* A slot's rank among the slots: from one to their number, another for
\* each.
SlotsUpTo(l, i) == {j \in 1 .. i : IsSlot(l[j])}

\* So it is: ranks are no more than the slots, and they rise from slot to slot.
LEMMA SlotRanks ==
  ASSUME NEW l \in Layouts
  PROVE  /\ Slots(l) \in Nat
         /\ \A i \in 1 .. Len(l) :
              /\ Cardinality(SlotsUpTo(l, i)) \in Nat
              /\ Cardinality(SlotsUpTo(l, i)) <= Slots(l)
              /\ IsSlot(l[i]) => Cardinality(SlotsUpTo(l, i)) >= 1
         /\ \A i, k \in 1 .. Len(l) :
              i < k /\ IsSlot(l[k]) =>
                Cardinality(SlotsUpTo(l, i)) < Cardinality(SlotsUpTo(l, k))
<1> DEFINE U(i) == SlotsUpTo(l, i)
<1>1. Len(l) \in Nat
  BY LayoutKinds
<1>2. \A i \in 0 .. Len(l) : IsFiniteSet(U(i)) /\ Cardinality(U(i)) \in Nat
  <2> SUFFICES ASSUME NEW i \in 0 .. Len(l)  PROVE IsFiniteSet(U(i)) /\ Cardinality(U(i)) \in Nat
    OBVIOUS
  <2>1. IsFiniteSet(1 .. i) /\ U(i) \in SUBSET (1 .. i)
    BY <1>1, FS_Interval DEF SlotsUpTo
  <2>. QED  BY <2>1, FS_Subset, FS_CardinalityType
<1>3. Slots(l) = Cardinality(U(Len(l))) /\ Len(l) \in 0 .. Len(l)
  BY <1>1 DEF Slots, SlotsUpTo
<1>4. \A i, k \in 0 .. Len(l) : i <= k =>
        Cardinality(U(i)) <= Cardinality(U(k))
          /\ (Cardinality(U(i)) = Cardinality(U(k)) => U(i) = U(k))
  <2> SUFFICES ASSUME NEW i \in 0 .. Len(l), NEW k \in 0 .. Len(l), i <= k
               PROVE  Cardinality(U(i)) <= Cardinality(U(k))
                        /\ (Cardinality(U(i)) = Cardinality(U(k)) => U(i) = U(k))
    OBVIOUS
  <2>1. U(i) \in SUBSET U(k)
    BY <1>1 DEF SlotsUpTo
  <2>. QED  BY <1>2, <2>1, FS_Subset
<1>5. \A k \in 1 .. Len(l) : \A i \in 0 .. Len(l) :
        i < k /\ IsSlot(l[k]) => k \in U(k) /\ k \notin U(i)
  BY <1>1 DEF SlotsUpTo
<1>6. \A k \in 1 .. Len(l) : \A i \in 0 .. Len(l) :
        i < k /\ IsSlot(l[k]) => Cardinality(U(i)) < Cardinality(U(k))
  <2> SUFFICES ASSUME NEW k \in 1 .. Len(l), NEW i \in 0 .. Len(l), i < k, IsSlot(l[k])
               PROVE  Cardinality(U(i)) < Cardinality(U(k))
    OBVIOUS
  <2>1. k \in 0 .. Len(l) /\ i <= k
    BY <1>1
  <2>2. U(i) # U(k)
    BY <1>5
  <2> HIDE DEF U
  <2>. QED  BY <1>2, <1>4, <2>1, <2>2
<1>7. 0 \in 0 .. Len(l) /\ \A k \in 1 .. Len(l) : 0 < k /\ k \in 0 .. Len(l) /\ k <= Len(l)
  BY <1>1
<1>8. \A k \in 1 .. Len(l) : IsSlot(l[k]) => Cardinality(U(k)) >= 1
  <2> HIDE DEF U
  <2>. QED  BY <1>2, <1>6, <1>7
<1> HIDE DEF U
<1>9. \A k \in 1 .. Len(l) : Cardinality(U(k)) \in Nat /\ Cardinality(U(k)) <= Slots(l)
  BY <1>2, <1>3, <1>4, <1>7
<1>10. \A i, k \in 1 .. Len(l) : i < k /\ IsSlot(l[k]) => Cardinality(U(i)) < Cardinality(U(k))
  BY <1>6, <1>7
<1>. QED  BY <1>2, <1>3, <1>8, <1>9, <1>10 DEF U

\* Filled from a place in the sequence of jokers that leaves enough of them, a
\* layout is a row that keeps its numbered tiles and has another joker in
\* each slot.
LEMMA Concretized ==
  ASSUME NEW hand \in SUBSET Catalog, NEW l \in Layouts, NEW from \in Nat,
         from + Slots(l) <= Len(RackJokerIds(hand))
  PROVE  LET ids == RackJokerIds(hand)
             r == Concretize(l, ids, from)
         IN  /\ r \in Seq(Catalog) /\ Len(r) = Len(l)
             /\ \A i \in 1 .. Len(l) :
                  /\ IsNumbered(r[i]) <=> IsNumbered(l[i])
                  /\ IsNumbered(l[i]) => r[i] = l[i]
                  /\ ~ IsNumbered(l[i]) =>
                       \E n \in from + 1 .. from + Slots(l) :
                         n \in 1 .. Len(ids) /\ r[i] = ids[n]
             /\ \A i, k \in 1 .. Len(l) :
                  ~ IsNumbered(l[i]) /\ ~ IsNumbered(l[k]) /\ i # k => r[i] # r[k]
<1> DEFINE ids == RackJokerIds(hand)
           r == Concretize(l, ids, from)
           rank(i) == Cardinality(SlotsUpTo(l, i))
<1>1. /\ ids \in Seq(RackJokers(hand)) /\ Len(ids) \in Nat
      /\ \A i, j \in 1 .. Len(ids) : ids[i] = ids[j] => i = j
  BY JokerIds
<1>2. Len(l) \in Nat /\ \A i \in 1 .. Len(l) : /\ IsSlot(l[i]) <=> ~ IsNumbered(l[i])
                                               /\ ~ IsSlot(l[i]) => l[i] \in NumberedTile
  BY LayoutKinds
<1>3. /\ Slots(l) \in Nat
      /\ \A i \in 1 .. Len(l) : /\ rank(i) \in Nat /\ rank(i) <= Slots(l)
                                /\ IsSlot(l[i]) => rank(i) >= 1
      /\ \A i, k \in 1 .. Len(l) : i < k /\ IsSlot(l[k]) => rank(i) < rank(k)
  BY SlotRanks
<1>4. r = [i \in 1 .. Len(l) |-> IF IsSlot(l[i]) THEN ids[from + rank(i)] ELSE l[i]]
  BY DEF Concretize, SlotsUpTo
<1>5. \A n \in 1 .. Len(ids) : ids[n] \in RackJokers(hand)
  BY <1>1
<1>6. \A t \in RackJokers(hand) : t \in Catalog /\ ~ IsNumbered(t)
  BY DEF RackJokers
<1>7. from + Slots(l) <= Len(ids)
  OBVIOUS
<1> HIDE DEF ids, r, rank
<1>8. \A i \in 1 .. Len(l) : IsSlot(l[i]) =>
        /\ from + rank(i) \in from + 1 .. from + Slots(l)
        /\ from + rank(i) \in 1 .. Len(ids)
        /\ r[i] = ids[from + rank(i)]
  BY <1>1, <1>3, <1>4, <1>7
<1>9. \A i \in 1 .. Len(l) : ~ IsSlot(l[i]) => r[i] = l[i]
  BY <1>4
<1>10. \A i \in 1 .. Len(l) : r[i] \in Catalog
  BY <1>2, <1>5, <1>6, <1>8, <1>9 DEF NumberedTile
<1>11. r \in Seq(Catalog) /\ Len(r) = Len(l)
  BY <1>2, <1>4, <1>10
<1>12. \A i \in 1 .. Len(l) : IsSlot(l[i]) => ~ IsNumbered(r[i])
  BY <1>5, <1>6, <1>8
<1>13. ASSUME NEW i \in 1 .. Len(l), NEW k \in 1 .. Len(l), IsSlot(l[i]), IsSlot(l[k]), i # k
       PROVE  r[i] # r[k]
  <2>1. rank(i) # rank(k)
    <3>1. rank(i) \in Nat /\ rank(k) \in Nat
      BY <1>3
    <3>2. i < k \/ k < i
      BY <1>2, <1>13
    <3>. QED  BY <1>3, <1>13, <3>1, <3>2
  <2>2. from + rank(i) # from + rank(k)
    BY <1>3, <2>1
  <2>. QED  BY <1>1, <1>8, <1>13, <2>2
<1>. QED  BY <1>2, <1>8, <1>9, <1>11, <1>12, <1>13 DEF r, ids

\* Rows that agree on their numbered tiles are sets together, if neither has a
\* tile twice, and stand for the same.
LEMMA SameShape ==
  ASSUME NEW r \in Seq(Catalog), NEW s \in Seq(Catalog), Len(r) = Len(s),
         \A i \in 1 .. Len(r) : /\ IsNumbered(r[i]) <=> IsNumbered(s[i])
                                /\ IsNumbered(r[i]) => r[i] = s[i],
         ~ HasDuplicateTileIds(s), ValidSet(r)
  PROVE  /\ ValidSet(s)
         /\ \A i \in 1 .. Len(r) : Represents(s, i) = Represents(r, i)
         /\ SetFaceValue(s) = SetFaceValue(r)
<1>1. Anchors(s) = Anchors(r) /\ \A i \in Anchors(r) : s[i] = r[i]
  BY DEF Anchors
<1>2. \A i \in Anchors(r) : BaseAt(s, i) = BaseAt(r, i)
  BY <1>1 DEF BaseAt
<1>3. ~ HasDuplicateTileIds(r)
  BY DEF ValidSet, ValidGroup, ValidRun
<1>4. ValidGroup(s) <=> ValidGroup(r)
  BY <1>1, <1>3 DEF ValidGroup
<1>5. ValidRun(s) <=> ValidRun(r)
  BY <1>1, <1>2, <1>3 DEF ValidRun
<1>6. Min(Anchors(r)) \in Anchors(r)
  <2>1. Anchors(r) # {}
    BY DEF ValidSet, ValidGroup, ValidRun
  <2>. QED  BY <2>1, FirstAnchor
<1>7. /\ FreeColors(s) = FreeColors(r)
      /\ \A i \in 1 .. Len(r) : JokersBefore(s, i) = JokersBefore(r, i)
  BY <1>1 DEF FreeColors, JokersBefore
<1>8. \A i \in 1 .. Len(r) : Represents(s, i) = Represents(r, i)
  BY <1>1, <1>2, <1>4, <1>6, <1>7 DEF Represents
<1>9. [i \in 1 .. Len(s) |-> Represents(s, i).value]
        = [i \in 1 .. Len(r) |-> Represents(r, i).value]
  BY <1>8
<1>10. SetFaceValue(s) = SetFaceValue(r)
  BY <1>9 DEF SetFaceValue
<1>. QED  BY <1>4, <1>5, <1>8, <1>10 DEF ValidSet

-----------------------------------------------------------------------------
(* Candidates *)

\* The values of a function over a finite set, and all that is in them.
LEMMA FiniteImage ==
  ASSUME NEW S, IsFiniteSet(S), NEW f
  PROVE  IsFiniteSet({f[x] : x \in S})
<1> DEFINE T == {f[x] : x \in S}
           g == [x \in S |-> f[x]]
<1>1. g \in Surjection(S, T)
  BY DEF Surjection
<1>2. IsFiniteSet(T)
  <2> HIDE DEF T, g
  <2>. QED  BY <1>1, FS_Surjection
<1>. QED  BY <1>2

\* A union of finitely many finite sets is finite.
LEMMA FiniteUnion ==
  ASSUME NEW S, IsFiniteSet(S), NEW f, \A x \in S : IsFiniteSet(f[x])
  PROVE  IsFiniteSet(UNION {f[x] : x \in S})
<1> DEFINE T == {f[x] : x \in S}
<1>1. \A t \in T : IsFiniteSet(t)
  OBVIOUS
<1>2. IsFiniteSet(T)
  BY FiniteImage
<1> HIDE DEF T
<1>3. IsFiniteSet(UNION T)
  BY <1>1, <1>2, FS_UNION
<1>. QED  BY <1>3 DEF T

\* The bounds of runs and groups are numbers, the colours finitely many.
LEMMA FiniteBounds ==
  ASSUME NEW hand \in SUBSET Catalog
  PROVE  /\ IsFiniteSet(Color) /\ IsFiniteSet(MIN_VALUE .. MAX_VALUE)
         /\ IsFiniteSet(MIN_SET_LENGTH .. MAX_RUN_LENGTH)
         /\ Cardinality(RackJokers(hand)) \in Nat
         /\ IsFiniteSet(0 .. Cardinality(RackJokers(hand)))
<1>1. Len(COLORS) \in Nat /\ MAX_VALUE \in Nat
  BY RulesAssumption
<1>2. Cardinality(RackJokers(hand)) \in Nat
  BY JokerIds
<1>3. IsFiniteSet(1 .. Len(COLORS))
  BY <1>1, FS_Interval
<1>4. IsFiniteSet({COLORS[i] : i \in 1 .. Len(COLORS)})
  BY <1>3, FiniteImage
<1>5. IsFiniteSet(1 .. MAX_VALUE)
  BY <1>1, FS_Interval
<1>6. IsFiniteSet(3 .. MAX_VALUE)
  BY <1>1, FS_Interval
<1>7. IsFiniteSet(0 .. Cardinality(RackJokers(hand)))
  BY <1>2, FS_Interval
<1>. QED  BY <1>2, <1>4, <1>5, <1>6, <1>7 DEF Color, MIN_VALUE, MIN_SET_LENGTH, MAX_RUN_LENGTH

\* A sequence has finitely many elements.
LEMMA FiniteElements ==
  ASSUME NEW T, NEW s \in Seq(T)
  PROVE  IsFiniteSet(ToSet(s))
<1>1. ToSet(s) = {s[i] : i \in 1 .. Len(s)} /\ Len(s) \in Nat
  <2>1. DOMAIN s = 1 .. Len(s)
    OBVIOUS
  <2>. QED  BY <2>1 DEF ToSet
<1>2. IsFiniteSet(1 .. Len(s))
  BY <1>1, FS_Interval
<1>3. IsFiniteSet({s[i] : i \in 1 .. Len(s)})
  BY <1>2, FiniteImage
<1>. QED  BY <1>1, <1>3

\* A set of the rack's own tiles, and a set of the table carried on with some.
NewCandidate(c, hand) ==
  LET row0 == Concretize(c.layout, RackJokerIds(hand), 0)
  IN  /\ c.target = 0 /\ c.layout \in Layouts /\ c.jokersUsed = Slots(c.layout)
      /\ c.used = {t \in ToSet(c.layout) : IsNumbered(t)} /\ c.used \subseteq hand
      /\ ValidSet(row0)
      /\ c.jokersUsed <= Cardinality(RackJokers(hand))
      /\ c.faceValuePlayed = SetFaceValue(row0)
      /\ c.tilesPlayed \in Nat /\ c.faceValuePlayed \in Nat
      /\ c.tilesPlayed = Cardinality(c.used) + c.jokersUsed /\ IsFiniteSet(c.used)

\* Layout l holds the row old in one piece.
CarriesOnRow(old, l) ==
  \E shift \in 0 .. Len(l) - Len(old) : \A i \in 1 .. Len(old) : l[i + shift] = old[i]

\* A set of the table carried on with numbered tiles of the rack.
Extending(c, hand, rows) ==
  /\ c.target \in 1 .. Len(rows) /\ c.jokersUsed = 0
  /\ c.layout \in Seq(NumberedTile) /\ ValidSet(c.layout)
  /\ rows[c.target] \in Seq(NumberedTile) /\ CarriesOnRow(rows[c.target], c.layout)
  /\ ToSet(c.layout) = ToSet(rows[c.target]) \cup c.used
  /\ c.used # {} /\ c.used \subseteq hand
  /\ \A t \in c.used : IsNumbered(t)
  /\ c.tilesPlayed \in Nat /\ c.faceValuePlayed \in Int
  /\ c.tilesPlayed = Cardinality(c.used) + c.jokersUsed /\ IsFiniteSet(c.used)

\* The face value of a set is a natural number.
LEMMA FaceValueType ==
  ASSUME NEW r \in Seq(Catalog), ValidSet(r)
  PROVE  SetFaceValue(r) \in Nat
<1> DEFINE v == [i \in 1 .. Len(r) |-> Represents(r, i).value]
<1>1. Faces(r) \in Readings(r)
  BY GroupFaces, RunFaces DEF ValidSet
<1>2. \A i \in 1 .. Len(r) : Faces(r)[i] \in Face
  BY <1>1, ReadingFaces
<1>3. \A i \in DOMAIN v : v[i] \in Int /\ v[i] >= 0
  BY <1>2, RulesAssumption DEF Faces, Face, MIN_VALUE
<1>4. IsFiniteSet(DOMAIN v)
  <2>1. DOMAIN v = 1 .. Len(r) /\ Len(r) \in Nat
    OBVIOUS
  <2> HIDE DEF v
  <2>. QED  BY <2>1, FS_Interval
<1>5. SetFaceValue(r) = SumFunctionOnSet(v, DOMAIN v)
  BY DEF SetFaceValue, SumFunction
<1> HIDE DEF v
<1>6. SumFunctionOnSet(v, DOMAIN v) \in Int /\ SumFunctionOnSet(v, DOMAIN v) >= 0
  BY <1>3, <1>4, SumType
<1>. QED  BY <1>5, <1>6

\* The first copy of a tile that is held is a numbered tile of the rack.
LEMMA FirstHeld ==
  ASSUME NEW hand \in SUBSET Catalog, NEW c \in Color, NEW v, Holds(hand, c, v)
  PROVE  FirstCopy(hand, c, v) \in hand \cap NumberedTile
<1>1. FirstCopy(hand, c, v) \in hand
  BY DEF Holds, FirstCopy, Copy
<1>2. FirstCopy(hand, c, v).color = c /\ c # "joker"
  BY RulesAssumption DEF FirstCopy, Numbered, Color
<1>. QED  BY <1>1, <1>2 DEF NumberedTile, IsNumbered

\* As many colours as there are places of them.
LEMMA ColorsCounted ==
  ASSUME NEW cs \in SUBSET Color
  PROVE  Cardinality(cs) \in Nat /\ Cardinality(cs) <= Cardinality(UpTo(Len(COLORS), cs))
<1> DEFINE U == UpTo(Len(COLORS), cs)
           f == [c \in cs |-> CHOOSE j \in U : COLORS[j] = c]
<1>1. Len(COLORS) \in Nat /\ Len(COLORS) \in 0 .. Len(COLORS)
  BY RulesAssumption
<1>2. IsFiniteSet(U)
  BY <1>1, ColorCount
<1>3. \A c \in cs : \E j \in U : COLORS[j] = c
  BY DEF UpTo, Color
<1>4. f \in Injection(cs, U)
  <2>1. \A c \in cs : f[c] \in U /\ COLORS[f[c]] = c
    BY <1>3
  <2>2. f \in [cs -> U]
    BY <2>1
  <2> HIDE DEF f, U
  <2>. QED  BY <2>1, <2>2 DEF Injection, IsInjective
<1> HIDE DEF f, U
<1>5. IsFiniteSet(cs) /\ Cardinality(cs) <= Cardinality(U)
  BY <1>2, <1>4, FS_Injection
<1>. QED  BY <1>5, FS_CardinalityType DEF U

\* The part of a group that the rack gives: numbered tiles it holds.
LEMMA GroupParts ==
  ASSUME NEW hand \in SUBSET Catalog, NEW v, NEW cs \in SUBSET Color
  PROVE  GroupPart(hand, v, cs) \in Seq(hand \cap NumberedTile)
<1> DEFINE held == {c \in cs : Holds(hand, c, v)}
<1>1. held \in SUBSET Color
  OBVIOUS
<1>2. /\ Cardinality(held) \in Nat
      /\ Cardinality(held) <= Cardinality(UpTo(Len(COLORS), held))
      /\ Cardinality(UpTo(Len(COLORS), held)) \in Nat
  <2>1. Len(COLORS) \in 0 .. Len(COLORS)
    BY RulesAssumption
  <2> HIDE DEF held
  <2>. QED  BY <1>1, <2>1, ColorsCounted, ColorCount
<1>3. \A n \in 1 .. Cardinality(held) : NthColor(n, held) \in held
  <2> SUFFICES ASSUME NEW n \in 1 .. Cardinality(held)  PROVE NthColor(n, held) \in held
    OBVIOUS
  <2> HIDE DEF held
  <2>1. n \in Nat \ {0} /\ n <= Cardinality(UpTo(Len(COLORS), held))
    BY <1>2
  <2>. QED  BY <2>1, NthColorPlace
<1>4. \A c \in held : FirstCopy(hand, c, v) \in hand \cap NumberedTile
  BY FirstHeld
<1>5. GroupPart(hand, v, cs)
        = [i \in 1 .. Cardinality(held) |-> FirstCopy(hand, NthColor(i, held), v)]
  BY DEF GroupPart
<1> HIDE DEF held
<1>. QED  BY <1>2, <1>3, <1>4, <1>5

\* A layout of held tiles and slots makes a set of the rack's own.
LEMMA NewCandidates ==
  ASSUME NEW hand \in SUBSET Catalog, NEW kind,
         NEW l \in Seq((hand \cap NumberedTile) \cup {JOKER_SLOT}),
         ValidSet(Concretize(l, RackJokerIds(hand), 0)),
         Slots(l) <= Cardinality(RackJokers(hand))
  PROVE  NewCandidate(Candidate(kind, 0, l, <<>>, hand), hand)
<1> DEFINE c == Candidate(kind, 0, l, <<>>, hand)
           row0 == Concretize(l, RackJokerIds(hand), 0)
<1>1. /\ c.target = 0 /\ c.layout = l /\ c.jokersUsed = Slots(l)
      /\ c.used = {t \in ToSet(l) : IsNumbered(t)} \ ToSet(<<>>)
      /\ c.faceValuePlayed = SetFaceValue(row0) - 0
  BY DEF Candidate
<1>2. ToSet(<<>>) = {}
  BY DEF ToSet
<1>3. \A i \in 1 .. Len(l) : l[i] \in (hand \cap NumberedTile) \cup {JOKER_SLOT}
  OBVIOUS
<1>4. ToSet(l) \subseteq (hand \cap NumberedTile) \cup {JOKER_SLOT}
  BY <1>3 DEF ToSet
<1>5. ~ IsNumbered(JOKER_SLOT)
  BY DEF IsNumbered, JOKER_SLOT
<1>6. c.used \subseteq hand /\ c.used = {t \in ToSet(l) : IsNumbered(t)}
  BY <1>1, <1>2, <1>4, <1>5
<1>7. l \in Layouts
  BY <1>3 DEF Layouts
<1>8. SetFaceValue(row0) \in Nat
  <2>1. 0 + Slots(l) <= Len(RackJokerIds(hand)) /\ 0 \in Nat
    BY <1>7, SlotRanks, JokerIds
  <2>2. row0 \in Seq(Catalog)
    BY <1>7, <2>1, Concretized
  <2> HIDE DEF row0
  <2>. QED  BY <2>2, FaceValueType DEF row0
<1>9. /\ c.tilesPlayed \in Nat /\ IsFiniteSet(c.used)
      /\ c.tilesPlayed = Cardinality(c.used) + c.jokersUsed
  <2>1. IsFiniteSet(ToSet(l)) /\ c.used \in SUBSET ToSet(l)
    BY <1>6, FiniteElements
  <2>2. IsFiniteSet(c.used) /\ Cardinality(c.used) \in Nat
    <3> HIDE DEF c
    <3>. QED  BY <2>1, FS_Subset, FS_CardinalityType
  <2>3. Slots(l) \in Nat
    BY <1>7, SlotRanks
  <2>4. c.tilesPlayed = Cardinality(c.used) + Slots(l)
    BY DEF Candidate
  <2> HIDE DEF c
  <2>. QED  BY <1>1, <2>2, <2>3, <2>4
<1> HIDE DEF c, row0
<1>10. ValidSet(row0) /\ c.faceValuePlayed = SetFaceValue(row0)
       /\ c.jokersUsed <= Cardinality(RackJokers(hand))
  BY <1>1, <1>8 DEF row0
<1>. QED  BY <1>1, <1>6, <1>7, <1>8, <1>9, <1>10 DEF NewCandidate, row0, c

\* What two sequences make one after the other.
LEMMA Joined ==
  ASSUME NEW T, NEW p \in Seq(T), NEW q \in Seq(T)
  PROVE  /\ p \o q \in Seq(T) /\ Len(p \o q) = Len(p) + Len(q)
         /\ \A i \in 1 .. Len(p) : (p \o q)[i] = p[i]
         /\ \A i \in 1 .. Len(q) : (p \o q)[i + Len(p)] = q[i]
OBVIOUS

\* A sequence all of whose elements are of a kind, and the set of them.
LEMMA SeqKind ==
  ASSUME NEW T, NEW U, NEW s \in Seq(T), \A i \in 1 .. Len(s) : s[i] \in U
  PROVE  s \in Seq(U) /\ ToSet(s) = {s[i] : i \in 1 .. Len(s)}
<1>1. s = [i \in 1 .. Len(s) |-> s[i]] /\ Len(s) \in Nat /\ DOMAIN s = 1 .. Len(s)
  OBVIOUS
<1>2. s \in Seq(U)
  BY <1>1
<1>. QED  BY <1>1, <1>2 DEF ToSet

\* The elements of a sequence, by their places.
LEMMA SeqSet ==
  ASSUME NEW T, NEW s \in Seq(T)
  PROVE  ToSet(s) = {s[i] : i \in 1 .. Len(s)}
<1>1. DOMAIN s = 1 .. Len(s)
  OBVIOUS
<1>. QED  BY <1>1 DEF ToSet

\* A run has a joker for each of its numbers that is not held.
LEMMA RunSlots ==
  ASSUME NEW hand \in SUBSET Catalog, NEW co \in Color, NEW b \in Nat, NEW n \in Nat
  PROVE  Slots(RunLayout(hand, co, b, n))
           = n - Cardinality({v \in b .. b + n - 1 : Holds(hand, co, v)})
<1> DEFINE H == {i \in 1 .. n : Holds(hand, co, b + i - 1)}
           V == {v \in b .. b + n - 1 : Holds(hand, co, v)}
           l == RunLayout(hand, co, b, n)
           f == [i \in H |-> b + i - 1]
<1>1. Len(l) = n /\ \A i \in 1 .. n : IsSlot(l[i]) <=> i \notin H
  <2>1. Len(l) = n
    BY DEF RunLayout
  <2>2. \A v : Holds(hand, co, v) => FirstCopy(hand, co, v) \in NumberedTile
    BY FirstHeld
  <2>3. \A t \in NumberedTile : t # JOKER_SLOT
    BY DEF NumberedTile, IsNumbered, JOKER_SLOT
  <2>4. \A i \in 1 .. n : l[i] = IF Holds(hand, co, b + i - 1)
                                 THEN FirstCopy(hand, co, b + i - 1) ELSE JOKER_SLOT
    BY DEF RunLayout
  <2> HIDE DEF l
  <2>. QED  BY <2>1, <2>2, <2>3, <2>4 DEF IsSlot
<1>2. {i \in 1 .. Len(l) : IsSlot(l[i])} = (1 .. n) \ H /\ (1 .. n) \cap H = H
  <2> HIDE DEF l
  <2>. QED  BY <1>1
<1>3. IsFiniteSet(1 .. n) /\ Cardinality(1 .. n) = n
  BY FS_Interval
<1>4. IsFiniteSet(H)
  <2>1. H \in SUBSET (1 .. n)
    OBVIOUS
  <2> HIDE DEF H
  <2>. QED  BY <1>3, <2>1, FS_Subset
<1>5. f \in Bijection(H, V)
  <2>1. \A i \in H : f[i] = b + i - 1 /\ f[i] \in V
    OBVIOUS
  <2>2. \A v \in V : v - b + 1 \in H /\ f[v - b + 1] = v
    OBVIOUS
  <2>3. f \in [H -> V]
    BY <2>1
  <2>4. \A i, j \in H : f[i] = f[j] => i = j
    OBVIOUS
  <2> HIDE DEF f, H, V
  <2>. QED  BY <2>2, <2>3, <2>4 DEF Bijection, Injection, Surjection, IsInjective
<1>6. Cardinality(V) = Cardinality(H)
  <2> HIDE DEF f, H, V
  <2>1. ExistsBijection(H, V)
    BY <1>5 DEF ExistsBijection
  <2>. QED  BY <1>4, <2>1, FS_Bijection
<1> HIDE DEF H, l, V
<1>7. Cardinality((1 .. n) \ H) = n - Cardinality(H)
  <2> DEFINE N == 1 .. n
  <2>1. IsFiniteSet(N) /\ Cardinality(N) = n /\ N \cap H = H
    BY <1>2, <1>3
  <2> HIDE DEF N
  <2>2. Cardinality(N \ H) = Cardinality(N) - Cardinality(N \cap H)
    BY <2>1, FS_Difference
  <2>3. Cardinality(N \ H) = n - Cardinality(H)
    BY <2>1, <2>2
  <2>. QED  BY <2>3 DEF N
<1>. QED  BY <1>2, <1>6, <1>7 DEF Slots, l, V

\* Behind tiles of the rack, n jokers are n slots.
LEMMA GroupSlots ==
  ASSUME NEW part \in Seq(NumberedTile), NEW n \in Nat
  PROVE  /\ Slots(part \o [i \in 1 .. n |-> JOKER_SLOT]) \in Nat
         /\ Slots(part \o [i \in 1 .. n |-> JOKER_SLOT]) <= n
<1> DEFINE T == NumberedTile \cup {JOKER_SLOT}
           slots == [i \in 1 .. n |-> JOKER_SLOT]
           l == part \o slots
           S == {i \in 1 .. Len(l) : IsSlot(l[i])}
<1>1. part \in Seq(T) /\ slots \in Seq(T) /\ Len(slots) = n /\ Len(part) \in Nat
  OBVIOUS
<1>2. Len(l) = Len(part) + n /\ \A i \in 1 .. Len(part) : l[i] = part[i]
  <2> HIDE DEF T, slots
  <2>. QED  BY <1>1, Joined
<1>3. \A i \in 1 .. Len(part) : ~ IsSlot(l[i])
  <2>1. \A t \in NumberedTile : t # JOKER_SLOT
    BY DEF NumberedTile, IsNumbered, JOKER_SLOT
  <2>. QED  BY <1>2, <2>1 DEF IsSlot
<1> HIDE DEF l, slots
<1>4. S \in SUBSET (Len(part) + 1 .. Len(part) + n)
  BY <1>1, <1>2, <1>3
<1> DEFINE lo == Len(part) + 1
           hi == Len(part) + n
<1>7. lo \in Int /\ hi \in Int /\ hi = lo + n - 1
  BY <1>1
<1> HIDE DEF lo, hi
<1>5. IsFiniteSet(lo .. hi) /\ Cardinality(lo .. hi) = n
  <2>1. Cardinality(lo .. hi) = IF lo > hi THEN 0 ELSE hi - lo + 1
    BY <1>7, FS_Interval
  <2>2. IsFiniteSet(lo .. hi)
    BY <1>7, FS_Interval
  <2>. QED  BY <1>7, <2>1, <2>2
<1>6. Cardinality(S) \in Nat /\ Cardinality(S) <= n
  <2>1. S \in SUBSET (lo .. hi)
    BY <1>4 DEF lo, hi
  <2> HIDE DEF S
  <2>. QED  BY <1>5, <2>1, FS_Subset, FS_CardinalityType
<1>. QED  BY <1>6 DEF Slots, l, slots

\* Every run of the rack's own is made of held tiles and slots.
LEMMA NewRunsSound ==
  ASSUME NEW hand \in SUBSET Catalog, NEW c \in NewRuns(hand)
  PROVE  NewCandidate(c, hand)
<1> DEFINE span == {s \in (MIN_VALUE .. MAX_VALUE) \X (MIN_SET_LENGTH .. MAX_RUN_LENGTH) :
                      s[1] + s[2] - 1 <= MAX_VALUE}
           held(co, s) == Cardinality({v \in s[1] .. s[1] + s[2] - 1 : Holds(hand, co, v)})
           feasible(co) == {s \in span : /\ held(co, s) > 0
                              /\ s[2] - held(co, s) <= Cardinality(RackJokers(hand))}
           layouts == UNION {{RunLayout(hand, co, s[1], s[2]) : s \in feasible(co)} : co \in Color}
<1>1. PICK co \in Color, b \in Nat, n \in Nat :
        /\ ValidSet(Concretize(RunLayout(hand, co, b, n), RackJokerIds(hand), 0))
        /\ Slots(RunLayout(hand, co, b, n)) <= Cardinality(RackJokers(hand))
        /\ c = Candidate("run", 0, RunLayout(hand, co, b, n), <<>>, hand)
  <2>1. PICK k \in Sound(layouts, hand) : c = Candidate("run", 0, k, <<>>, hand)
    BY DEF NewRuns
  <2>2. k \in layouts /\ ValidSet(Concretize(k, RackJokerIds(hand), 0))
    BY DEF Sound
  <2>3. PICK co \in Color : k \in {RunLayout(hand, co, s[1], s[2]) : s \in feasible(co)}
    BY <2>2
  <2>4. PICK s \in feasible(co) : k = RunLayout(hand, co, s[1], s[2])
    BY <2>3
  <2>5. s[1] \in Nat /\ s[2] \in Nat
    <3>1. s \in (MIN_VALUE .. MAX_VALUE) \X (MIN_SET_LENGTH .. MAX_RUN_LENGTH)
      OBVIOUS
    <3> HIDE DEF feasible
    <3>. QED  BY <3>1, RulesAssumption DEF MIN_VALUE, MIN_SET_LENGTH, MAX_RUN_LENGTH
  <2>6. s[2] - held(co, s) <= Cardinality(RackJokers(hand))
    OBVIOUS
  <2>7. Slots(RunLayout(hand, co, s[1], s[2])) = s[2] - held(co, s)
    <3> HIDE DEF feasible
    <3>. QED  BY <2>5, RunSlots
  <2> HIDE DEF feasible, layouts, held
  <2>. QED  BY <2>1, <2>2, <2>4, <2>5, <2>6, <2>7
<1> DEFINE l == RunLayout(hand, co, b, n)
<1>2. \A v : Holds(hand, co, v) => FirstCopy(hand, co, v) \in hand \cap NumberedTile
  BY FirstHeld
<1>3. l \in Seq((hand \cap NumberedTile) \cup {JOKER_SLOT})
  BY <1>2 DEF RunLayout
<1> HIDE DEF l
<1>4. NewCandidate(Candidate("run", 0, l, <<>>, hand), hand)
  BY <1>1, <1>3, NewCandidates DEF l
<1>. QED  BY <1>1, <1>4 DEF l

\* Every group of the rack's own is made of held tiles and slots.
LEMMA NewGroupsSound ==
  ASSUME NEW hand \in SUBSET Catalog, NEW c \in NewGroups(hand)
  PROVE  NewCandidate(c, hand)
<1> DEFINE slots(n) == [i \in 1 .. n |-> JOKER_SLOT]
           jokers == 0 .. Cardinality(RackJokers(hand))
<1>1. \E v, cs, n :
        /\ cs \in SUBSET Color /\ n \in jokers
        /\ ValidSet(Concretize(GroupPart(hand, v, cs) \o slots(n), RackJokerIds(hand), 0))
        /\ c = Candidate("group", 0, GroupPart(hand, v, cs) \o slots(n), <<>>, hand)
  <2>1. PICK k : /\ \E t \in hand : k \in GroupLayouts(hand, t.value)
                 /\ ValidSet(Concretize(k, RackJokerIds(hand), 0))
                 /\ c = Candidate("group", 0, k, <<>>, hand)
    BY DEF NewGroups, Sound
  <2>2. PICK t \in hand : k \in GroupLayouts(hand, t.value)
    BY <2>1
  <2> DEFINE v == t.value
             held == {co \in Color : Holds(hand, co, v)}
             parts == {GroupPart(hand, v, cs) : cs \in (SUBSET held) \ {{}}}
  <2>3. k \in UNION {{part \o slots(n) : part \in parts} : n \in jokers}
    BY <2>2 DEF GroupLayouts
  <2>6. PICK n \in jokers : k \in {part \o slots(n) : part \in parts}
    BY <2>3
  <2>7. PICK part \in parts : k = part \o slots(n)
    BY <2>6
  <2>4. PICK cs \in SUBSET held : k = GroupPart(hand, v, cs) \o slots(n)
    BY <2>7
  <2>5. cs \in SUBSET Color
    OBVIOUS
  <2> HIDE DEF jokers, slots, held, v
  <2>. QED  BY <2>1, <2>4, <2>5
<1>11. PICK v, cs, n :
        /\ cs \in SUBSET Color /\ n \in jokers
        /\ ValidSet(Concretize(GroupPart(hand, v, cs) \o slots(n), RackJokerIds(hand), 0))
        /\ c = Candidate("group", 0, GroupPart(hand, v, cs) \o slots(n), <<>>, hand)
  BY <1>1
<1>6. GroupPart(hand, v, cs) \in Seq(NumberedTile) /\ n \in Nat
  <2>1. GroupPart(hand, v, cs) \in Seq(hand \cap NumberedTile)
    BY <1>11, GroupParts
  <2>2. n \in Nat
    BY <1>11, JokerIds
  <2>. QED  BY <2>1, <2>2
<1>7. Slots(GroupPart(hand, v, cs) \o slots(n)) <= Cardinality(RackJokers(hand))
  <2> DEFINE sl == Slots(GroupPart(hand, v, cs) \o slots(n))
  <2>1. sl \in Nat /\ sl <= n
    BY <1>6, GroupSlots
  <2>2. n <= Cardinality(RackJokers(hand)) /\ Cardinality(RackJokers(hand)) \in Nat
    BY <1>11, JokerIds
  <2> HIDE DEF sl
  <2>3. sl <= Cardinality(RackJokers(hand))
    BY <1>6, <2>1, <2>2
  <2>. QED  BY <2>3 DEF sl
<1> DEFINE T == (hand \cap NumberedTile) \cup {JOKER_SLOT}
           l == GroupPart(hand, v, cs) \o slots(n)
<1>2. GroupPart(hand, v, cs) \in Seq(T)
  <2>1. GroupPart(hand, v, cs) \in Seq(hand \cap NumberedTile)
    BY <1>11, GroupParts
  <2>. QED  BY <2>1
<1>3. slots(n) \in Seq(T)
  <2>1. n \in Nat
    BY <1>11, JokerIds
  <2>. QED  BY <2>1
<1>4. l \in Seq(T)
  <2> HIDE DEF T, slots
  <2>. QED  BY <1>2, <1>3
<1> HIDE DEF l, slots
<1>5. NewCandidate(Candidate("group", 0, l, <<>>, hand), hand)
  BY <1>11, <1>4, <1>7, NewCandidates DEF l
<1>. QED  BY <1>11, <1>5 DEF l

\* A row of numbered tiles with tiles of the rack put before and after it
\* extends the row.
LEMMA Extended ==
  ASSUME NEW hand \in SUBSET Catalog, NEW rows \in Seq(Seq(Catalog)), NEW k \in 1 .. Len(rows),
         rows[k] \in Seq(NumberedTile), ToSet(rows[k]) \cap hand = {}, ValidSet(rows[k]),
         NEW p \in Seq(hand \cap NumberedTile), NEW q \in Seq(hand \cap NumberedTile),
         Len(p) > 0 \/ Len(q) > 0, NEW l, l = (p \o rows[k]) \o q,
         ValidSet(Concretize(l, RackJokerIds(hand), 0))
  PROVE  Extending(Candidate("extend", k, l, rows[k], hand), hand, rows)
<1> DEFINE old == rows[k]
           c == Candidate("extend", k, l, old, hand)
<1>1. /\ p \in Seq(NumberedTile) /\ q \in Seq(NumberedTile) /\ old \in Seq(NumberedTile)
      /\ Len(p) \in Nat /\ Len(q) \in Nat /\ Len(old) \in Nat
  OBVIOUS
<1> HIDE DEF old
<1>2. /\ l \in Seq(NumberedTile) /\ Len(l) = Len(p) + Len(old) + Len(q)
      /\ \A i \in 1 .. Len(p) : l[i] = p[i]
      /\ \A i \in 1 .. Len(old) : l[i + Len(p)] = old[i]
      /\ \A i \in 1 .. Len(q) : l[i + Len(p) + Len(old)] = q[i]
  <2> DEFINE m == p \o old
  <2>1. /\ m \in Seq(NumberedTile) /\ Len(m) = Len(p) + Len(old)
        /\ \A i \in 1 .. Len(p) : m[i] = p[i]
        /\ \A i \in 1 .. Len(old) : m[i + Len(p)] = old[i]
    BY <1>1, Joined
  <2>3. l = m \o q
    BY DEF old
  <2> HIDE DEF m
  <2>4. /\ l \in Seq(NumberedTile) /\ Len(l) = Len(m) + Len(q)
        /\ \A i \in 1 .. Len(m) : l[i] = m[i]
        /\ \A i \in 1 .. Len(q) : l[i + Len(m)] = q[i]
    <3>1. m \in Seq(NumberedTile) /\ q \in Seq(NumberedTile)
      BY <1>1, <2>1
    <3>2. /\ m \o q \in Seq(NumberedTile) /\ Len(m \o q) = Len(m) + Len(q)
          /\ \A i \in 1 .. Len(m) : (m \o q)[i] = m[i]
          /\ \A i \in 1 .. Len(q) : (m \o q)[i + Len(m)] = q[i]
      BY ONLY <3>1, Joined
    <3>. QED  BY <2>3, <3>2
  <2>5. Len(p) \in Nat /\ Len(old) \in Nat /\ Len(q) \in Nat
    BY <1>1
  <2>6. \A i \in 1 .. Len(p) : i \in 1 .. Len(m)
    BY <2>1, <2>5
  <2>7. \A i \in 1 .. Len(old) : i + Len(p) \in 1 .. Len(m)
    BY <2>1, <2>5
  <2>8. \A i \in 1 .. Len(q) : i + Len(m) = i + Len(p) + Len(old)
    BY <2>1, <2>5
  <2>. QED  BY <2>1, <2>4, <2>6, <2>7, <2>8
<1>3. CarriesOnRow(old, l)
  <2>1. Len(p) \in 0 .. Len(l) - Len(old)
    BY <1>1, <1>2
  <2>. QED  BY <1>2, <2>1 DEF CarriesOnRow
<1>4. \A i \in 1 .. Len(l) : l[i] \in ToSet(old) \/ l[i] \in hand
  <2> SUFFICES ASSUME NEW i \in 1 .. Len(l)  PROVE l[i] \in ToSet(old) \/ l[i] \in hand
    OBVIOUS
  <2>1. CASE i <= Len(p)
    BY <1>1, <1>2, <2>1
  <2>2. CASE i > Len(p) /\ i <= Len(p) + Len(old)
    <3>1. i - Len(p) \in 1 .. Len(old) /\ (i - Len(p)) + Len(p) = i
      BY <1>1, <1>2, <2>2
    <3>2. l[i] = old[i - Len(p)]
      BY <1>2, <3>1
    <3>. QED  BY <1>1, <3>1, <3>2 DEF ToSet
  <2>3. CASE i > Len(p) + Len(old)
    <3> DEFINE j == i - (Len(p) + Len(old))
    <3>1. j \in 1 .. Len(q) /\ j + Len(p) + Len(old) = i
      BY <1>1, <1>2, <2>3
    <3> HIDE DEF j
    <3>2. l[i] = q[j]
      BY <1>2, <3>1
    <3>. QED  BY <3>1, <3>2
  <2>. QED  BY <1>1, <1>2, <2>1, <2>2, <2>3
<1>5. \A i \in 1 .. Len(l) : IsNumbered(l[i]) /\ ~ IsSlot(l[i])
  <2>1. \A t \in NumberedTile : IsNumbered(t) /\ ~ IsSlot(t)
    BY DEF NumberedTile, IsNumbered, IsSlot, JOKER_SLOT
  <2>. QED  BY <1>2, <2>1
<1>6. Slots(l) = 0
  <2>1. {i \in 1 .. Len(l) : IsSlot(l[i])} = {}
    BY <1>5
  <2>. QED  BY <2>1, FS_EmptySet DEF Slots
<1>7. Concretize(l, RackJokerIds(hand), 0) = l
  <2>1. l = [i \in 1 .. Len(l) |-> l[i]]
    BY <1>2
  <2>. QED  BY <1>5, <2>1 DEF Concretize
<1>8. /\ c.target = k /\ c.layout = l /\ c.jokersUsed = 0
      /\ c.used = {t \in ToSet(l) : IsNumbered(t)} \ ToSet(old)
      /\ c.faceValuePlayed = SetFaceValue(l) - (IF old = <<>> THEN 0 ELSE SetFaceValue(old))
  BY <1>6, <1>7 DEF Candidate
<1>9. ToSet(l) = {l[i] : i \in 1 .. Len(l)} /\ ToSet(old) = {old[i] : i \in 1 .. Len(old)}
  <2>3. l \in Seq(NumberedTile) /\ old \in Seq(NumberedTile)
    BY <1>1, <1>2
  <2>4. ToSet(l) = {l[i] : i \in 1 .. Len(l)}
    BY ONLY <2>3, SeqSet
  <2>5. ToSet(old) = {old[i] : i \in 1 .. Len(old)}
    BY ONLY <2>3, SeqSet
  <2>. QED  BY <2>4, <2>5
<1>10. c.used = ToSet(l) \ ToSet(old)
  <2>1. \A t \in ToSet(l) : IsNumbered(t)
    BY <1>5, <1>9
  <2>. QED  BY <1>8, <2>1
<1>18. /\ Len(p) \in Nat /\ Len(q) \in Nat /\ Len(old) \in Nat
       /\ Len(l) = Len(p) + Len(old) + Len(q)
  BY <1>1, <1>2
<1>11. ToSet(old) \subseteq ToSet(l)
  <2> SUFFICES ASSUME NEW i \in 1 .. Len(old)  PROVE old[i] \in ToSet(l)
    BY <1>9
  <2>1. i + Len(p) \in 1 .. Len(l)
    BY ONLY <1>18, i \in 1 .. Len(old)
  <2>2. l[i + Len(p)] = old[i]
    BY <1>2
  <2>. QED  BY <1>9, <2>1, <2>2
<1>12. c.used \subseteq hand
  BY <1>4, <1>9, <1>10
<1>13. ToSet(l) \cap hand # {}
  <2>1. CASE Len(p) > 0
    <3>1. 1 \in 1 .. Len(l) /\ l[1] = p[1] /\ p[1] \in hand
      BY <1>1, <1>2, <2>1
    <3>. QED  BY <1>9, <3>1
  <2>2. CASE Len(q) > 0
    <3> DEFINE j == 1 + Len(p) + Len(old)
    <3>1. 1 \in 1 .. Len(q) /\ j \in 1 .. Len(l)
      BY <1>18, <2>2
    <3>2. q[1] \in hand
      BY <3>1
    <3>3. l[j] = q[1]
      BY <1>2, <3>1
    <3> HIDE DEF j
    <3>. QED  BY <1>9, <3>1, <3>2, <3>3
  <2>. QED  BY <2>1, <2>2
<1>14. c.used # {}
  <2>1. ToSet(old) \cap hand = {}
    BY DEF old
  <2>. QED  BY <1>10, <1>13, <2>1
<1>15. c.faceValuePlayed \in Int
  <2>1. \A r \in Seq(NumberedTile) : r \in Seq(Catalog)
    BY DEF NumberedTile
  <2>2. ValidSet(l) /\ ValidSet(old) /\ l \in Seq(Catalog) /\ old \in Seq(Catalog)
    BY <1>1, <1>2, <1>7, <2>1 DEF old
  <2>3. SetFaceValue(l) \in Nat /\ SetFaceValue(old) \in Nat
    BY <2>2, FaceValueType
  <2>. QED  BY <1>8, <2>3
<1>16. ToSet(l) = ToSet(old) \cup c.used
  BY <1>10, <1>11
<1>19. /\ c.tilesPlayed \in Nat /\ IsFiniteSet(c.used)
       /\ c.tilesPlayed = Cardinality(c.used) + c.jokersUsed
  <2>1. IsFiniteSet(ToSet(l))
    BY <1>2, FiniteElements
  <2>2. IsFiniteSet(c.used) /\ Cardinality(c.used) \in Nat
    <3>1. c.used \in SUBSET ToSet(l)
      BY <1>10
    <3> HIDE DEF c
    <3>. QED  BY <2>1, <3>1, FS_Subset, FS_CardinalityType
  <2>3. c.tilesPlayed = Cardinality(c.used) + Slots(l)
    BY DEF Candidate
  <2> HIDE DEF c
  <2>. QED  BY <1>6, <1>8, <2>2, <2>3
<1>20. \A t \in c.used : IsNumbered(t)
  BY <1>8
<1> HIDE DEF c
<1>17. Extending(c, hand, rows)
  BY <1>1, <1>2, <1>3, <1>7, <1>8, <1>12, <1>14, <1>15, <1>16, <1>19, <1>20 DEF Extending, old
<1>. QED  BY <1>17 DEF c, old

\* A run of the table is carried on below its first number and above its last.
LEMMA RunExtensionsSound ==
  ASSUME NEW hand \in SUBSET Catalog, NEW rows \in Seq(Seq(Catalog)), NEW k \in 1 .. Len(rows),
         Extensible(rows[k]), ToSet(rows[k]) \cap hand = {},
         NEW x \in RunExtensions(hand, k, rows[k])
  PROVE  Extending(x, hand, rows)
<1> DEFINE old == rows[k]
           co == old[1].color
           lo == old[1].value
           hi == old[Len(old)].value
           part(a, b) == [i \in 1 .. b - a + 1 |-> FirstCopy(hand, co, a + i - 1)]
           H == hand \cap NumberedTile
           held(a, b) == \A v \in a .. b : Holds(hand, co, v)
           ends == {e \in (MIN_VALUE .. lo) \X (hi .. MAX_VALUE) :
                      /\ e # <<lo, hi>>
                      /\ held(e[1], lo - 1) /\ held(hi + 1, e[2])}
           layouts == {part(e[1], lo - 1) \o old \o part(hi + 1, e[2]) : e \in ends}
<1>1. \E a, b :
        /\ a \in MIN_VALUE .. lo /\ b \in hi .. MAX_VALUE
        /\ a # lo \/ b # hi
        /\ held(a, lo - 1) /\ held(hi + 1, b)
        /\ ValidSet(Concretize((part(a, lo - 1) \o old) \o part(hi + 1, b), RackJokerIds(hand), 0))
        /\ x = Candidate("extend", k, (part(a, lo - 1) \o old) \o part(hi + 1, b), old, hand)
  <2>1. PICK m \in Sound(layouts, hand) : x = Candidate("extend", k, m, old, hand)
    BY DEF RunExtensions
  <2>2. m \in layouts /\ ValidSet(Concretize(m, RackJokerIds(hand), 0))
    BY DEF Sound
  <2>3. PICK e \in ends : m = (part(e[1], lo - 1) \o old) \o part(hi + 1, e[2])
    BY <2>2
  <2>4. /\ e \in (MIN_VALUE .. lo) \X (hi .. MAX_VALUE) /\ e # <<lo, hi>>
        /\ held(e[1], lo - 1) /\ held(hi + 1, e[2])
    OBVIOUS
  <2> HIDE DEF layouts, ends, part, held, lo, hi, old
  <2>5. e[1] \in MIN_VALUE .. lo /\ e[2] \in hi .. MAX_VALUE /\ (e[1] # lo \/ e[2] # hi)
    BY <2>4
  <2>. QED  BY <2>1, <2>2, <2>3, <2>4, <2>5
<1>15. PICK a, b :
        /\ a \in MIN_VALUE .. lo /\ b \in hi .. MAX_VALUE
        /\ a # lo \/ b # hi
        /\ held(a, lo - 1) /\ held(hi + 1, b)
        /\ ValidSet(Concretize((part(a, lo - 1) \o old) \o part(hi + 1, b), RackJokerIds(hand), 0))
        /\ x = Candidate("extend", k, (part(a, lo - 1) \o old) \o part(hi + 1, b), old, hand)
  BY <1>1
<1>2. old \in Seq(Catalog) /\ Len(old) \in Nat /\ Len(old) >= 3 /\ ValidSet(old)
  BY RulesAssumption DEF Extensible, ValidSet, ValidGroup, ValidRun, MIN_SET_LENGTH,
     MAX_RUN_LENGTH, MAX_GROUP_LENGTH
<1>3. \A i \in 1 .. Len(old) : old[i] \in NumberedTile
  BY <1>2 DEF Extensible, NumberedTile
<1>4. old \in Seq(NumberedTile)
  BY <1>2, <1>3, SeqKind
<1>5. co \in Color /\ lo \in Nat /\ hi \in Nat
  <2>1. 1 \in Anchors(old) /\ Len(old) \in Anchors(old)
    BY <1>2, <1>3 DEF Anchors, NumberedTile
  <2>. QED  BY <1>2, <2>1, TileKinds, RulesAssumption DEF MIN_VALUE
<1> HIDE DEF co, lo, hi, old
<1>6. a \in Nat /\ b \in Nat /\ a <= lo /\ hi <= b /\ (a # lo \/ b # hi)
  BY <1>15, <1>5, RulesAssumption DEF MIN_VALUE
<1>7. \A v : Holds(hand, co, v) => FirstCopy(hand, co, v) \in H
  BY <1>5, FirstHeld
<1>8. part(a, lo - 1) \in Seq(H) /\ Len(part(a, lo - 1)) = lo - a
  <2>1. \A i \in 1 .. (lo - 1) - a + 1 : a + i - 1 \in a .. lo - 1
    BY <1>5, <1>6
  <2>2. \A i \in 1 .. (lo - 1) - a + 1 : FirstCopy(hand, co, a + i - 1) \in H
    BY <1>15, <1>7, <2>1
  <2> DEFINE n == (lo - 1) - a + 1
  <2>3. n \in Nat /\ (lo - 1) - a + 1 = lo - a /\ lo - a \in Nat
    BY <1>5, <1>6
  <2> HIDE DEF H, n
  <2>. QED  BY <2>2, <2>3 DEF n
<1>9. part(hi + 1, b) \in Seq(H) /\ Len(part(hi + 1, b)) = b - hi
  <2>1. \A i \in 1 .. b - (hi + 1) + 1 : (hi + 1) + i - 1 \in hi + 1 .. b
    BY <1>5, <1>6
  <2>2. \A i \in 1 .. b - (hi + 1) + 1 : FirstCopy(hand, co, (hi + 1) + i - 1) \in H
    BY <1>15, <1>7, <2>1
  <2> DEFINE n == b - (hi + 1) + 1
  <2>3. n \in Nat /\ b - (hi + 1) + 1 = b - hi /\ b - hi \in Nat
    BY <1>5, <1>6
  <2> HIDE DEF H, n
  <2>. QED  BY <2>2, <2>3 DEF n
<1> DEFINE p == part(a, lo - 1)
           q == part(hi + 1, b)
           l == (p \o old) \o q
<1>10. Len(p) > 0 \/ Len(q) > 0
  BY <1>5, <1>6, <1>8, <1>9
<1>11. p \in Seq(hand \cap NumberedTile) /\ q \in Seq(hand \cap NumberedTile)
  BY <1>8, <1>9
<1>12. /\ ValidSet(Concretize(l, RackJokerIds(hand), 0))
       /\ x = Candidate("extend", k, l, rows[k], hand)
  BY <1>15 DEF old
<1>13. rows[k] \in Seq(NumberedTile) /\ ValidSet(rows[k]) /\ l = (p \o rows[k]) \o q
  BY <1>2, <1>4 DEF old
<1> HIDE DEF p, q, l
<1>14. Extending(Candidate("extend", k, l, rows[k], hand), hand, rows)
  BY <1>10, <1>11, <1>12, <1>13, Extended
<1>. QED  BY <1>12, <1>14

\* A group of the table is added to at its end.
LEMMA GroupExtensionsSound ==
  ASSUME NEW hand \in SUBSET Catalog, NEW rows \in Seq(Seq(Catalog)), NEW k \in 1 .. Len(rows),
         Extensible(rows[k]), ToSet(rows[k]) \cap hand = {},
         NEW x \in GroupExtensions(hand, k, rows[k])
  PROVE  Extending(x, hand, rows)
<1> DEFINE old == rows[k]
           missing == Color \ {t.color : t \in ToSet(old)}
<1>1. PICK cs \in SUBSET missing :
        LET l == old \o GroupPart(hand, old[1].value, cs)
        IN  /\ Len(l) \in Len(old) + 1 .. MAX_GROUP_LENGTH
            /\ ValidSet(Concretize(l, RackJokerIds(hand), 0))
            /\ x = Candidate("extend", k, l, old, hand)
  BY DEF GroupExtensions, Sound
<1>2. old \in Seq(Catalog) /\ Len(old) \in Nat /\ ValidSet(old)
  BY DEF Extensible
<1>3. \A i \in 1 .. Len(old) : old[i] \in NumberedTile
  BY <1>2 DEF Extensible, NumberedTile
<1>4. old \in Seq(NumberedTile)
  BY <1>2, <1>3, SeqKind
<1> DEFINE q == GroupPart(hand, old[1].value, cs)
<1>5. q \in Seq(hand \cap NumberedTile)
  <2>1. cs \in SUBSET Color
    OBVIOUS
  <2>. QED  BY <2>1, GroupParts
<1> DEFINE l == old \o q
<1>6. ValidSet(Concretize(l, RackJokerIds(hand), 0)) /\ x = Candidate("extend", k, l, old, hand)
      /\ Len(l) \in Len(old) + 1 .. MAX_GROUP_LENGTH
  BY <1>1
<1> HIDE DEF q
<1>7. Len(q) > 0
  BY <1>2, <1>5, <1>6, RulesAssumption DEF MAX_GROUP_LENGTH
<1>8. l = (<<>> \o old) \o q /\ <<>> \in Seq(hand \cap NumberedTile)
  BY <1>2
<1>9. rows[k] \in Seq(NumberedTile) /\ ValidSet(rows[k]) /\ l = (<<>> \o rows[k]) \o q
      /\ x = Candidate("extend", k, l, rows[k], hand)
  BY <1>2, <1>4, <1>6, <1>8
<1> HIDE DEF l, old
<1>10. Extending(Candidate("extend", k, l, rows[k], hand), hand, rows)
  BY <1>5, <1>6, <1>7, <1>8, <1>9, Extended
<1>. QED  BY <1>9, <1>10

\* Every candidate is a set of the rack's own or extends a set of the table,
\* and before the first meld there are only the former.
THEOREM CandidatesSound ==
  ASSUME NEW hand \in SUBSET Catalog, NEW rows \in Seq(Seq(Catalog)),
         \A k \in 1 .. Len(rows) : ToSet(rows[k]) \cap hand = {},
         NEW opened, NEW c \in GenerateCandidates(hand, opened, rows)
  PROVE  NewCandidate(c, hand) \/ (opened /\ Extending(c, hand, rows))
<1>1. c \in AllCandidates(hand, opened, rows)
  BY DEF GenerateCandidates
<1>2. CASE c \in NewRuns(hand)
  BY <1>2, NewRunsSound
<1>3. CASE c \in NewGroups(hand)
  BY <1>3, NewGroupsSound
<1>4. CASE opened /\ c \in Extensions(hand, rows)
  <2>1. PICK k \in 1 .. Len(rows) :
          /\ Extensible(rows[k])
          /\ c \in IF ValidGroup(rows[k]) THEN GroupExtensions(hand, k, rows[k])
                                          ELSE RunExtensions(hand, k, rows[k])
    BY <1>4 DEF Extensions
  <2>2. Extending(c, hand, rows)
    BY <2>1, RunExtensionsSound, GroupExtensionsSound
  <2>. QED  BY <1>4, <2>2
<1>. QED  BY <1>1, <1>2, <1>3, <1>4 DEF AllCandidates

-----------------------------------------------------------------------------
(* There are finitely many candidates, and sorting loses none of them *)

\* Of finitely many layouts only some are sound.
LEMMA FiniteCandidates ==
  ASSUME NEW layouts, IsFiniteSet(layouts), NEW kind, NEW target, NEW old, NEW hand
  PROVE  IsFiniteSet({Candidate(kind, target, l, old, hand) : l \in Sound(layouts, hand)})
<1> DEFINE f == [l \in layouts |-> Candidate(kind, target, l, old, hand)]
           S == Sound(layouts, hand)
<1>1. S \in SUBSET layouts
  BY DEF Sound
<1>2. IsFiniteSet(S)
  BY <1>1, FS_Subset
<1>3. {Candidate(kind, target, l, old, hand) : l \in S} = {f[l] : l \in S}
  BY <1>1
<1> HIDE DEF f, S
<1>4. IsFiniteSet({f[l] : l \in S})
  BY <1>2, FiniteImage
<1>. QED  BY <1>3, <1>4 DEF S

\* There are finitely many runs, groups and extensions to try.
LEMMA FiniteNewRuns ==
  ASSUME NEW hand \in SUBSET Catalog
  PROVE  IsFiniteSet(NewRuns(hand))
<1> DEFINE P == (MIN_VALUE .. MAX_VALUE) \X (MIN_SET_LENGTH .. MAX_RUN_LENGTH)
           span == {s \in P : s[1] + s[2] - 1 <= MAX_VALUE}
           held(co, s) == Cardinality({v \in s[1] .. s[1] + s[2] - 1 : Holds(hand, co, v)})
           feasible(co) == {s \in span : /\ held(co, s) > 0
                              /\ s[2] - held(co, s) <= Cardinality(RackJokers(hand))}
           layouts == UNION {{RunLayout(hand, co, s[1], s[2]) : s \in feasible(co)} : co \in Color}
           g(co) == [s \in P |-> RunLayout(hand, co, s[1], s[2])]
           f == [co \in Color |-> {g(co)[s] : s \in feasible(co)}]
<1>1. IsFiniteSet(P)
  BY FiniteBounds, FS_Product
<1>2. \A co \in Color : feasible(co) \in SUBSET P
  OBVIOUS
<1>3. \A co \in Color : {RunLayout(hand, co, s[1], s[2]) : s \in feasible(co)} = f[co]
  <2> SUFFICES ASSUME NEW co \in Color
               PROVE  {RunLayout(hand, co, s[1], s[2]) : s \in feasible(co)} = f[co]
    OBVIOUS
  <2>1. \A s \in feasible(co) : g(co)[s] = RunLayout(hand, co, s[1], s[2])
    BY <1>2
  <2>2. f[co] = {g(co)[s] : s \in feasible(co)}
    OBVIOUS
  <2> HIDE DEF g, f, feasible
  <2>. QED  BY <2>1, <2>2
<1>4. \A co \in Color : IsFiniteSet(f[co])
  <2> SUFFICES ASSUME NEW co \in Color  PROVE IsFiniteSet(f[co])
    OBVIOUS
  <2>1. IsFiniteSet(feasible(co))
    <3> HIDE DEF feasible, P
    <3>. QED  BY <1>1, <1>2, FS_Subset
  <2>2. f[co] = {g(co)[s] : s \in feasible(co)}
    OBVIOUS
  <2> HIDE DEF g, f, feasible
  <2>. QED  BY <2>1, <2>2, FiniteImage
<1>5. layouts = UNION {f[co] : co \in Color}
  <2> DEFINE e(co) == {RunLayout(hand, co, s[1], s[2]) : s \in feasible(co)}
  <2>1. layouts = UNION {e(co) : co \in Color}
    OBVIOUS
  <2>2. \A co \in Color : e(co) = f[co]
    BY <1>3
  <2> HIDE DEF layouts, e, f
  <2>. QED  BY <2>1, <2>2
<1>6. IsFiniteSet(layouts)
  <2>1. IsFiniteSet(UNION {f[co] : co \in Color})
    <3> HIDE DEF f
    <3>. QED  BY <1>4, FiniteBounds, FiniteUnion
  <2> HIDE DEF layouts, f
  <2>. QED  BY <1>5, <2>1
<1>7. NewRuns(hand) = {Candidate("run", 0, l, <<>>, hand) : l \in Sound(layouts, hand)}
  BY DEF NewRuns
<1> HIDE DEF layouts
<1>. QED  BY <1>6, <1>7, FiniteCandidates

\* Finitely many groups: some of the colours held, some jokers.
LEMMA FiniteNewGroups ==
  ASSUME NEW hand \in SUBSET Catalog
  PROVE  IsFiniteSet(NewGroups(hand))
<1> DEFINE jokers == 0 .. Cardinality(RackJokers(hand))
           slots == [n \in jokers |-> [i \in 1 .. n |-> JOKER_SLOT]]
           held(v) == {co \in Color : Holds(hand, co, v)}
           some(v) == (SUBSET held(v)) \ {{}}
           parts(v) == {GroupPart(hand, v, cs) : cs \in some(v)}
           values == {t.value : t \in hand \ RackJokers(hand)}
           gl == [v \in MIN_VALUE .. MAX_VALUE |-> GroupLayouts(hand, v)]
<1>1. \A v : IsFiniteSet(parts(v))
  <2> SUFFICES ASSUME NEW v  PROVE IsFiniteSet(parts(v))
    OBVIOUS
  <2> DEFINE g == [cs \in SUBSET Color |-> GroupPart(hand, v, cs)]
  <2>1. some(v) \in SUBSET (SUBSET Color)
    OBVIOUS
  <2>2. IsFiniteSet(some(v))
    <3>1. IsFiniteSet(SUBSET Color)
      BY FiniteBounds, FS_SUBSET
    <3> HIDE DEF some
    <3>. QED  BY <2>1, <3>1, FS_Subset
  <2>3. parts(v) = {g[cs] : cs \in some(v)}
    BY <2>1
  <2> HIDE DEF g, some, parts
  <2>. QED  BY <2>2, <2>3, FiniteImage
<1>2. \A v : GroupLayouts(hand, v) = UNION {{part \o slots[n] : part \in parts(v)} : n \in jokers}
  <2> SUFFICES ASSUME NEW v
               PROVE  GroupLayouts(hand, v)
                        = UNION {{part \o slots[n] : part \in parts(v)} : n \in jokers}
    OBVIOUS
  <2> DEFINE a(n) == {part \o [i \in 1 .. n |-> JOKER_SLOT] : part \in parts(v)}
             b(n) == {part \o slots[n] : part \in parts(v)}
  <2>1. GroupLayouts(hand, v) = UNION {a(n) : n \in jokers}
    BY DEF GroupLayouts
  <2>2. \A n \in jokers : slots[n] = [i \in 1 .. n |-> JOKER_SLOT]
    OBVIOUS
  <2>3. \A n \in jokers : a(n) = b(n)
    <3> HIDE DEF parts, jokers, slots
    <3>. QED  BY <2>2
  <2>4. UNION {a(n) : n \in jokers} = UNION {b(n) : n \in jokers}
    <3> HIDE DEF a, b, jokers
    <3>. QED  BY <2>3
  <2>. QED  BY <2>1, <2>4
<1> HIDE DEF parts, slots
<1>3. \A v : IsFiniteSet(GroupLayouts(hand, v))
  <2> SUFFICES ASSUME NEW v  PROVE IsFiniteSet(GroupLayouts(hand, v))
    OBVIOUS
  <2> DEFINE h(n) == [part \in parts(v) |-> part \o slots[n]]
             f == [n \in jokers |-> {h(n)[part] : part \in parts(v)}]
  <2>1. \A n \in jokers : IsFiniteSet(f[n])
    <3> SUFFICES ASSUME NEW n \in jokers  PROVE IsFiniteSet(f[n])
      OBVIOUS
    <3>1. f[n] = {h(n)[part] : part \in parts(v)}
      OBVIOUS
    <3> HIDE DEF f, h
    <3>. QED  BY <1>1, <3>1, FiniteImage
  <2>2. \A n \in jokers : {part \o slots[n] : part \in parts(v)} = f[n]
    OBVIOUS
  <2>3. IsFiniteSet(UNION {f[n] : n \in jokers})
    <3>1. IsFiniteSet(jokers)
      BY FiniteBounds
    <3> HIDE DEF f, jokers
    <3>. QED  BY <2>1, <3>1, FiniteUnion
  <2> DEFINE a(n) == {part \o slots[n] : part \in parts(v)}
  <2>5. \A n \in jokers : a(n) = f[n]
    BY <2>2
  <2>4. UNION {a(n) : n \in jokers} = UNION {f[n] : n \in jokers}
    <3> HIDE DEF a, f, jokers
    <3>. QED  BY <2>5
  <2> HIDE DEF f, jokers
  <2>. QED  BY <1>2, <2>3, <2>4 DEF jokers
<1>4. values \in SUBSET (MIN_VALUE .. MAX_VALUE)
  <2>1. \A t \in hand \ RackJokers(hand) : t.value \in MIN_VALUE .. MAX_VALUE
    BY DEF RackJokers, Catalog, IsNumbered
  <2>. QED  BY <2>1
<1>5. IsFiniteSet(values)
  <2> HIDE DEF values
  <2>. QED  BY <1>4, FiniteBounds, FS_Subset
<1> DEFINE layouts == UNION {GroupLayouts(hand, t.value) : t \in hand \ RackJokers(hand)}
           feasible == {l \in layouts : Len(l) \in MIN_SET_LENGTH .. MAX_GROUP_LENGTH}
<1>6. layouts = UNION {gl[v] : v \in values}
  <2>1. \A v \in values : gl[v] = GroupLayouts(hand, v)
    BY <1>4
  <2>2. \A t \in hand \ RackJokers(hand) : t.value \in values
    OBVIOUS
  <2>3. \A v \in values : \E t \in hand \ RackJokers(hand) : v = t.value
    OBVIOUS
  <2> HIDE DEF gl, values
  <2>. QED  BY <2>1, <2>2, <2>3
<1>7. IsFiniteSet(layouts)
  <2>1. \A v \in values : IsFiniteSet(gl[v])
    BY <1>3, <1>4
  <2> HIDE DEF gl, values, layouts
  <2>. QED  BY <1>5, <1>6, <2>1, FiniteUnion
<1>8. IsFiniteSet(feasible)
  <2>1. feasible \in SUBSET layouts
    OBVIOUS
  <2> HIDE DEF feasible, layouts
  <2>. QED  BY <1>7, <2>1, FS_Subset
<1>9. NewGroups(hand) = {Candidate("group", 0, l, <<>>, hand) : l \in Sound(feasible, hand)}
  BY DEF NewGroups
<1> HIDE DEF feasible
<1>. QED  BY <1>8, <1>9, FiniteCandidates

\* Finitely many extensions: ends of a run, colours missing in a group.
LEMMA FiniteExtensions ==
  ASSUME NEW hand \in SUBSET Catalog, NEW rows \in Seq(Seq(Catalog))
  PROVE  IsFiniteSet(Extensions(hand, rows))
<1> DEFINE ks == {k \in 1 .. Len(rows) : Extensible(rows[k])}
           ext == [k \in ks |-> IF ValidGroup(rows[k]) THEN GroupExtensions(hand, k, rows[k])
                                                       ELSE RunExtensions(hand, k, rows[k])]
<1>1. IsFiniteSet(ks)
  <2>1. Len(rows) \in Nat /\ ks \in SUBSET (1 .. Len(rows))
    OBVIOUS
  <2>2. IsFiniteSet(1 .. Len(rows))
    BY <2>1, FS_Interval
  <2> HIDE DEF ks
  <2>. QED  BY <2>1, <2>2, FS_Subset
<1>2. ASSUME NEW k \in ks  PROVE IsFiniteSet(GroupExtensions(hand, k, rows[k]))
  <2> DEFINE old == rows[k]
             missing == Color \ {t.color : t \in ToSet(old)}
             f == [cs \in SUBSET missing |-> old \o GroupPart(hand, old[1].value, cs)]
             layouts == {old \o GroupPart(hand, old[1].value, cs) : cs \in SUBSET missing}
             feasible == {l \in layouts : Len(l) \in Len(old) + 1 .. MAX_GROUP_LENGTH}
  <2>1. IsFiniteSet(SUBSET missing)
    <3>1. missing \in SUBSET Color
      OBVIOUS
    <3> HIDE DEF missing
    <3>2. IsFiniteSet(missing)
      BY <3>1, FiniteBounds, FS_Subset
    <3>. QED  BY <3>2, FS_SUBSET
  <2>2. layouts = {f[cs] : cs \in SUBSET missing}
    OBVIOUS
  <2>3. GroupExtensions(hand, k, old)
          = {Candidate("extend", k, l, old, hand) : l \in Sound(feasible, hand)}
    BY DEF GroupExtensions
  <2>4. feasible \in SUBSET layouts
    OBVIOUS
  <2> HIDE DEF f, missing, feasible, layouts
  <2>5. IsFiniteSet(layouts)
    BY <2>1, <2>2, FiniteImage
  <2>6. IsFiniteSet(feasible)
    BY <2>4, <2>5, FS_Subset
  <2>7. IsFiniteSet({Candidate("extend", k, l, old, hand) : l \in Sound(feasible, hand)})
    BY <2>6, FiniteCandidates
  <2>. QED  BY <2>3, <2>7
<1>3. ASSUME NEW k \in ks  PROVE IsFiniteSet(RunExtensions(hand, k, rows[k]))
  <2> DEFINE old == rows[k]
             co == old[1].color
             lo == old[1].value
             hi == old[Len(old)].value
             part(a, b) == [i \in 1 .. b - a + 1 |-> FirstCopy(hand, co, a + i - 1)]
             held(a, b) == \A v \in a .. b : Holds(hand, co, v)
             P == (MIN_VALUE .. lo) \X (hi .. MAX_VALUE)
             ends == {e \in P : /\ e # <<lo, hi>>
                                /\ held(e[1], lo - 1) /\ held(hi + 1, e[2])}
             layouts == {part(e[1], lo - 1) \o old \o part(hi + 1, e[2]) : e \in ends}
             f == [e \in P |-> part(e[1], lo - 1) \o old \o part(hi + 1, e[2])]
  <2>1. IsFiniteSet(P)
    <3>1. old \in Seq(Catalog) /\ Len(old) >= 3 /\ Len(old) \in Nat
      BY RulesAssumption DEF Extensible, ValidSet, ValidGroup, ValidRun, MIN_SET_LENGTH,
         MAX_RUN_LENGTH, MAX_GROUP_LENGTH
    <3>2. old[1] \in Catalog /\ old[Len(old)] \in Catalog
      BY <3>1
    <3>3. \A t \in Catalog : t.value \in Int
      BY RulesAssumption DEF Catalog, MIN_VALUE
    <3>4. lo \in Int /\ hi \in Int /\ MIN_VALUE \in Int /\ MAX_VALUE \in Int
      BY <3>2, <3>3, RulesAssumption DEF MIN_VALUE
    <3> HIDE DEF lo, hi
    <3>5. IsFiniteSet(MIN_VALUE .. lo)
      BY <3>4, FS_Interval
    <3>6. IsFiniteSet(hi .. MAX_VALUE)
      BY <3>4, FS_Interval
    <3>. QED  BY <3>5, <3>6, FS_Product
  <2>2. ends \in SUBSET P
    OBVIOUS
  <2>3. layouts = {f[e] : e \in ends}
    BY <2>2
  <2>4. RunExtensions(hand, k, old)
          = {Candidate("extend", k, l, old, hand) : l \in Sound(layouts, hand)}
    BY DEF RunExtensions
  <2> HIDE DEF f, P, ends, layouts
  <2>5. IsFiniteSet(ends)
    BY <2>1, <2>2, FS_Subset
  <2>6. IsFiniteSet(layouts)
    BY <2>3, <2>5, FiniteImage
  <2>7. IsFiniteSet({Candidate("extend", k, l, old, hand) : l \in Sound(layouts, hand)})
    BY <2>6, FiniteCandidates
  <2>. QED  BY <2>4, <2>7
<1>4. \A k \in ks : IsFiniteSet(ext[k])
  BY <1>2, <1>3
<1>5. Extensions(hand, rows) = UNION {ext[k] : k \in ks}
  BY DEF Extensions
<1> HIDE DEF ks, ext
<1>. QED  BY <1>1, <1>4, <1>5, FiniteUnion

\* So there are finitely many candidates.
LEMMA CandidatesFinite ==
  ASSUME NEW hand \in SUBSET Catalog, NEW rows \in Seq(Seq(Catalog)), NEW opened
  PROVE  IsFiniteSet(GenerateCandidates(hand, opened, rows))
<1> DEFINE all == AllCandidates(hand, opened, rows)
           more == IF opened THEN Extensions(hand, rows) ELSE {}
<1>1. IsFiniteSet(more)
  BY FiniteExtensions, FS_EmptySet
<1>2. IsFiniteSet(NewRuns(hand) \cup NewGroups(hand))
  BY FiniteNewRuns, FiniteNewGroups, FS_Union
<1>3. all = (NewRuns(hand) \cup NewGroups(hand)) \cup more
  BY DEF AllCandidates
<1> HIDE DEF more
<1>4. IsFiniteSet(all)
  <2> HIDE DEF all
  <2>. QED  BY <1>1, <1>2, <1>3, FS_Union
<1>5. GenerateCandidates(hand, opened, rows) \in SUBSET all
  BY DEF GenerateCandidates
<1> HIDE DEF all
<1>. QED  BY <1>4, <1>5, FS_Subset

\* What the search compares candidates by are numbers.
Weighed(S) == \A c \in S : c.tilesPlayed \in Nat /\ c.faceValuePlayed \in Int

\* Of finitely many candidates some come first.
LEMMA FirstExists ==
  ASSUME NEW S, IsFiniteSet(S), Weighed(S), S # {}
  PROVE  First(S) \in S
<1> DEFINE Topped(s) == \A c \in s : \E d \in s : CompareCandidates(d, c)
           Q == {s \in SUBSET S : s # {} /\ Topped(s)}
<1>1. ASSUME Q # {}  PROVE FALSE
  <2>1. PICK s \in Q : \A t \in Q : t \subseteq s => t = s
    <3>1. Q \in SUBSET (SUBSET S)
      OBVIOUS
    <3> HIDE DEF Q
    <3>. QED  BY <1>1, <3>1, SmallestSubset
  <2>2. s \in SUBSET S /\ s # {} /\ Topped(s)
    OBVIOUS
  <2>3. PICK c \in s : TRUE
    BY <2>2
  <2>4. \A x, y, z \in S : /\ ~ CompareCandidates(x, x)
                           /\ CompareCandidates(x, y) /\ CompareCandidates(y, z)
                                => CompareCandidates(x, z)
    BY DEF Weighed, CompareCandidates
  <2>5. PICK d \in s : CompareCandidates(d, c)
    BY <2>2
  <2>6. d \in s \ {c}
    BY <2>2, <2>4, <2>5
  <2>7. s \ {c} \notin Q
    BY <2>1, <2>3
  <2>8. ~ Topped(s \ {c})
    BY <2>2, <2>6, <2>7
  <2>9. PICK m \in s \ {c} : \A x \in s \ {c} : ~ CompareCandidates(x, m)
    BY <2>8
  <2>10. PICK x \in s : CompareCandidates(x, m)
    BY <2>2
  <2>11. x = c
    BY <2>9, <2>10
  <2>12. CompareCandidates(d, m)
    BY <2>2, <2>4, <2>5, <2>10, <2>11
  <2>. QED  BY <2>6, <2>9, <2>12
<1>2. ~ Topped(S)
  BY <1>1
<1>3. \E c \in S : \A d \in S : ~ CompareCandidates(d, c)
  BY <1>2
<1>. QED  BY <1>3 DEF First

\* f sorts the subsets of S.
Sorts(f, S) ==
  f = [s \in SUBSET S |-> IF s = {} THEN <<>> ELSE <<First(s)>> \o f[s \ {First(s)}]]

\* Two functions that sort a set sort it alike.
LEMMA SameOrder ==
  ASSUME NEW S, Weighed(S), NEW f, Sorts(f, S), NEW T, NEW g, Sorts(g, T),
         NEW r, IsFiniteSet(r), r \subseteq S, r \subseteq T
  PROVE  f[r] = g[r]
<1> DEFINE Q == {s \in SUBSET r : f[s] # g[s]}
<1>1. SUFFICES ASSUME Q # {}  PROVE FALSE
  OBVIOUS
<1>2. PICK s \in Q : \A t \in Q : t \subseteq s => t = s
  <2>1. Q \in SUBSET (SUBSET r)
    OBVIOUS
  <2> HIDE DEF Q
  <2>. QED  BY <1>1, <2>1, SmallestSubset
<1>3. s \in SUBSET S /\ s \in SUBSET T /\ IsFiniteSet(s)
  BY FS_Subset
<1>4. /\ f[s] = IF s = {} THEN <<>> ELSE <<First(s)>> \o f[s \ {First(s)}]
      /\ g[s] = IF s = {} THEN <<>> ELSE <<First(s)>> \o g[s \ {First(s)}]
  BY <1>3 DEF Sorts
<1>5. s # {} /\ f[s] # g[s]
  BY <1>4
<1>6. First(s) \in s
  <2>1. Weighed(s)
    BY <1>3 DEF Weighed
  <2>. QED  BY <1>3, <1>5, <2>1, FirstExists
<1>7. s \ {First(s)} \notin Q
  BY <1>2, <1>6
<1>8. f[s \ {First(s)}] = g[s \ {First(s)}]
  BY <1>7
<1>. QED  BY <1>4, <1>5, <1>8

\* Every finite set of candidates can be sorted.
LEMMA OrderExists ==
  ASSUME NEW S, IsFiniteSet(S), Weighed(S)
  PROVE  \E f : Sorts(f, S)
<1> DEFINE Q == {s \in SUBSET S : ~ \E f : Sorts(f, s)}
<1>1. SUFFICES ASSUME Q # {}  PROVE FALSE
  OBVIOUS
<1>2. PICK s \in Q : \A t \in Q : t \subseteq s => t = s
  <2>1. Q \in SUBSET (SUBSET S)
    OBVIOUS
  <2> HIDE DEF Q
  <2>. QED  BY <1>1, <2>1, SmallestSubset
<1> DEFINE G(t) == CHOOSE f : Sorts(f, t)
           rest(t) == t \ {First(t)}
           F == [t \in SUBSET s |-> IF t = {} THEN <<>> ELSE <<First(t)>> \o G(rest(t))[rest(t)]]
<1>3. \A t \in SUBSET s : t # s => Sorts(G(t), t)
  BY <1>2
<1>5. \A t \in SUBSET s : IsFiniteSet(t) /\ Weighed(t)
  <2>1. \A t \in SUBSET s : t \in SUBSET S
    OBVIOUS
  <2>. QED  BY <2>1, FS_Subset DEF Weighed
<1>4. \A t \in SUBSET s : t # {} => First(t) \in t /\ rest(t) \in SUBSET s /\ rest(t) # s
  BY <1>5, FirstExists
<1>6. ASSUME NEW t \in SUBSET s, t # s  PROVE F[t] = G(t)[t]
  <2>1. Sorts(G(t), t)
    BY <1>3, <1>6
  <2>4. G(t)[t] = IF t = {} THEN <<>> ELSE <<First(t)>> \o G(t)[rest(t)]
    <3> HIDE DEF G
    <3>1. t \in SUBSET t
      OBVIOUS
    <3>. QED  BY <2>1, <3>1 DEF Sorts
  <2>2. CASE t = {}
    BY <2>2, <2>4
  <2>3. CASE t # {}
    <3>2. Sorts(G(rest(t)), rest(t))
      BY <1>3, <1>4, <2>3
    <3>3. rest(t) \subseteq t /\ IsFiniteSet(rest(t)) /\ Weighed(t)
      BY <1>4, <1>5, <2>3
    <3>4. G(t)[rest(t)] = G(rest(t))[rest(t)]
      <4> HIDE DEF G, rest
      <4>. QED  BY <2>1, <3>2, <3>3, SameOrder
    <3>5. F[t] = <<First(t)>> \o G(rest(t))[rest(t)]
      BY <2>3
    <3>. QED  BY <2>3, <2>4, <3>4, <3>5
  <2>. QED  BY <2>2, <2>3
<1>7. \A t \in SUBSET s : F[t] = IF t = {} THEN <<>> ELSE <<First(t)>> \o F[rest(t)]
  <2> SUFFICES ASSUME NEW t \in SUBSET s
               PROVE  F[t] = IF t = {} THEN <<>> ELSE <<First(t)>> \o F[rest(t)]
    OBVIOUS
  <2>1. F[t] = IF t = {} THEN <<>> ELSE <<First(t)>> \o G(rest(t))[rest(t)]
    OBVIOUS
  <2>2. t # {} => F[rest(t)] = G(rest(t))[rest(t)]
    BY <1>4, <1>6
  <2> HIDE DEF F, G, rest
  <2>. QED  BY <2>1, <2>2
<1>8. F = [t \in SUBSET s |-> IF t = {} THEN <<>> ELSE <<First(t)>> \o F[rest(t)]]
  <2>1. F = [t \in SUBSET s |-> F[t]]
    OBVIOUS
  <2> HIDE DEF F, G, rest
  <2>. QED  BY <1>7, <2>1
<1>9. Sorts(F, s)
  BY <1>8 DEF Sorts
<1>. QED  BY <1>9

\* What is sorted is a sequence of what was to be sorted.
LEMMA SortedWithin ==
  ASSUME NEW S, IsFiniteSet(S), Weighed(S)
  PROVE  Sorted(S) \in Seq(S)
<1> DEFINE f == CHOOSE g : g = [s \in SUBSET S |->
                  IF s = {} THEN <<>> ELSE <<First(s)>> \o g[s \ {First(s)}]]
           Q == {s \in SUBSET S : f[s] \notin Seq(S)}
<1>1. \A s \in SUBSET S : f[s] = IF s = {} THEN <<>> ELSE <<First(s)>> \o f[s \ {First(s)}]
  <2>1. PICK h : Sorts(h, S)
    BY OrderExists
  <2>2. h = [s \in SUBSET S |-> IF s = {} THEN <<>> ELSE <<First(s)>> \o h[s \ {First(s)}]]
    BY <2>1 DEF Sorts
  <2>3. f = [s \in SUBSET S |-> IF s = {} THEN <<>> ELSE <<First(s)>> \o f[s \ {First(s)}]]
    BY <2>2
  <2> HIDE DEF f
  <2>. QED  BY <2>3
<1>2. Sorted(S) = f[S]
  BY DEF Sorted
<1> HIDE DEF f
<1>3. ASSUME Q # {}  PROVE FALSE
  <2>1. PICK s \in Q : \A t \in Q : t \subseteq s => t = s
    <3>1. Q \in SUBSET (SUBSET S)
      OBVIOUS
    <3> HIDE DEF Q
    <3>. QED  BY <1>3, <3>1, SmallestSubset
  <2>2. s \in SUBSET S /\ IsFiniteSet(s) /\ Weighed(s)
    BY FS_Subset DEF Weighed
  <2>3. CASE s = {}
    <3>1. f[s] = <<>>
      BY <1>1, <2>2, <2>3
    <3>2. <<>> \in Seq(S)
      OBVIOUS
    <3>. QED  BY <3>1, <3>2
  <2>4. CASE s # {}
    <3>1. First(s) \in s
      BY <2>2, <2>4, FirstExists
    <3>2. s \ {First(s)} \notin Q
      BY <2>1, <3>1
    <3>3. f[s \ {First(s)}] \in Seq(S)
      BY <3>2
    <3>4. <<First(s)>> \in Seq(S)
      BY <2>2, <3>1
    <3>5. f[s] = <<First(s)>> \o f[s \ {First(s)}]
      BY <1>1, <2>4
    <3>6. f[s] \in Seq(S)
      BY ONLY <3>3, <3>4, <3>5, Joined
    <3>. QED  BY <3>6
  <2>. QED  BY <2>3, <2>4
<1>. QED  BY <1>2, <1>3

-----------------------------------------------------------------------------
(* The search *)

\* What the candidates are, for a rack, a player and a table.
Suits(c, hand, opened, rows) == NewCandidate(c, hand) \/ (opened /\ Extending(c, hand, rows))

\* The sorted candidates are sets of the rack's own and extensions of the table.
LEMMA SortedCandidatesSuit ==
  ASSUME NEW hand \in SUBSET Catalog, NEW rows \in Seq(Seq(Catalog)),
         \A k \in 1 .. Len(rows) : ToSet(rows[k]) \cap hand = {}, NEW opened
  PROVE  LET cands == SortedCandidates(hand, opened, rows)
         IN  /\ Len(cands) \in Nat /\ DOMAIN cands = 1 .. Len(cands)
             /\ \A i \in 1 .. Len(cands) : Suits(cands[i], hand, opened, rows)
<1> DEFINE S == GenerateCandidates(hand, opened, rows)
           cands == SortedCandidates(hand, opened, rows)
<1>1. \A c \in S : Suits(c, hand, opened, rows)
  BY CandidatesSound DEF Suits
<1>2. Weighed(S)
  <2>1. \A c \in S : c.tilesPlayed \in Nat /\ c.faceValuePlayed \in Int
    BY <1>1 DEF Suits, NewCandidate, Extending
  <2>. QED  BY <2>1 DEF Weighed
<1>3. IsFiniteSet(S)
  BY CandidatesFinite
<1>4. cands = Sorted(S)
  BY DEF SortedCandidates
<1> HIDE DEF S, cands
<1>5. cands \in Seq(S)
  BY <1>2, <1>3, <1>4, SortedWithin
<1>6. /\ Len(cands) \in Nat /\ DOMAIN cands = 1 .. Len(cands)
      /\ \A i \in 1 .. Len(cands) : cands[i] \in S
  BY <1>5
<1>. QED  BY <1>1, <1>6 DEF cands

\* Numbered candidates, with the numbers the search adds up.
Counted(cands) ==
  /\ Len(cands) \in Nat /\ DOMAIN cands = 1 .. Len(cands)
  /\ \A i \in 1 .. Len(cands) :
       /\ cands[i].jokersUsed \in Nat /\ cands[i].tilesPlayed \in Nat
       /\ cands[i].faceValuePlayed \in Int

\* The candidates of a rack and a table are such.
LEMMA SuitingCounted ==
  ASSUME NEW cands, Len(cands) \in Nat, DOMAIN cands = 1 .. Len(cands),
         NEW hand, NEW opened, NEW rows,
         \A i \in 1 .. Len(cands) : Suits(cands[i], hand, opened, rows)
  PROVE  Counted(cands)
<1>1. \A c : NewCandidate(c, hand) =>
        c.jokersUsed \in Nat /\ c.tilesPlayed \in Nat /\ c.faceValuePlayed \in Int
  BY SlotRanks DEF NewCandidate
<1>2. \A c : Extending(c, hand, rows) =>
        c.jokersUsed \in Nat /\ c.tilesPlayed \in Nat /\ c.faceValuePlayed \in Int
  BY DEF Extending
<1>. QED  BY <1>1, <1>2 DEF Suits, Counted

\* The face value of a selection is a number.
LEMMA WorthCounted ==
  ASSUME NEW cands, Counted(cands), NEW sel \in SUBSET DOMAIN cands
  PROVE  IsFiniteSet(sel) /\ FaceValuePlayed(cands, sel) \in Int
<1> DEFINE v == [i \in DOMAIN cands |-> cands[i].faceValuePlayed]
<1>1. IsFiniteSet(1 .. Len(cands)) /\ sel \in SUBSET (1 .. Len(cands))
  BY FS_Interval DEF Counted
<1>2. IsFiniteSet(sel)
  BY <1>1, FS_Subset
<1>3. \A i \in sel : v[i] \in Int
  BY DEF Counted
<1>4. FaceValuePlayed(cands, sel) = SumFunctionOnSet(v, sel)
  BY DEF FaceValuePlayed
<1> HIDE DEF v
<1>. QED  BY <1>2, <1>3, <1>4, SumType

\* The candidates of a selection go together: another row for each, no tile
\* twice and no more jokers than there are.
Compatible(cands, hand, sel) ==
  /\ sel \in SUBSET DOMAIN cands
  /\ \A i, j \in sel : i # j => /\ cands[i].target = 0 \/ cands[i].target # cands[j].target
                                /\ cands[i].used \cap cands[j].used = {}
  /\ JokersUsed(cands, sel) <= Cardinality(RackJokers(hand))

\* It may be played, too: something, and before the first meld enough.
Playing(cands, hand, opened, sel) ==
  /\ Compatible(cands, hand, sel) /\ sel # {}
  /\ opened \/ FaceValuePlayed(cands, sel) >= INITIAL_MELD_THRESHOLD

\* A search that has found nothing else.
Sane(cands, hand, opened, found) ==
  found \in Found(cands) /\ \A sel \in found.best : Playing(cands, hand, opened, sel)

\* A loop over the candidates after the i-th finds nothing else.
LoopSane(cands, hand, opened, i, loop) ==
  \A node \in Node(cands) :
    /\ node.sel \subseteq 1 .. i /\ Compatible(cands, hand, node.sel)
    /\ Sane(cands, hand, opened, node.found)
    => Sane(cands, hand, opened, loop[node])

\* The jokers of a selection with one more candidate.
LEMMA JokersGrow ==
  ASSUME NEW cands, Counted(cands), NEW sel \in SUBSET DOMAIN cands
  PROVE  /\ JokersUsed(cands, sel) \in Nat
         /\ \A i \in DOMAIN cands \ sel :
              JokersUsed(cands, sel \cup {i}) = JokersUsed(cands, sel) + cands[i].jokersUsed
<1> DEFINE v == [i \in DOMAIN cands |-> cands[i].jokersUsed]
<1>2. IsFiniteSet(sel)
  BY WorthCounted
<1>3. \A i \in DOMAIN cands : v[i] = cands[i].jokersUsed /\ v[i] \in Int /\ v[i] >= 0
  BY DEF Counted
<1>4. \A s : JokersUsed(cands, s) = SumFunctionOnSet(v, s)
  BY DEF JokersUsed
<1> HIDE DEF v
<1>5. SumFunctionOnSet(v, sel) \in Int /\ SumFunctionOnSet(v, sel) >= 0
  <2>1. \A i \in sel : v[i] \in Int /\ v[i] >= 0
    BY <1>3
  <2>. QED  BY <1>2, <2>1, SumType
<1>6. ASSUME NEW i \in DOMAIN cands \ sel
      PROVE  SumFunctionOnSet(v, sel \cup {i}) = SumFunctionOnSet(v, sel) + v[i]
  <2>1. \A x \in sel \cup {i} : v[x] \in Int
    BY <1>3
  <2>. QED  BY <1>2, <1>6, <2>1, SumGrows
<1>. QED  BY <1>3, <1>4, <1>5, <1>6

\* A candidate that fits keeps a selection compatible.
LEMMA FitsCompatible ==
  ASSUME NEW cands, Counted(cands),
         NEW hand, NEW sel, Compatible(cands, hand, sel),
         NEW i \in DOMAIN cands \ sel, Fits(cands, hand, sel, i)
  PROVE  Compatible(cands, hand, sel \cup {i})
<1>1. sel \in SUBSET DOMAIN cands
  BY DEF Compatible
<1>2. JokersUsed(cands, sel \cup {i}) = JokersUsed(cands, sel) + cands[i].jokersUsed
  BY <1>1, JokersGrow
<1>3. JokersUsed(cands, sel \cup {i}) <= Cardinality(RackJokers(hand))
  BY <1>2 DEF Fits
<1>4. ASSUME NEW j \in sel
      PROVE  /\ cands[i].target = 0 \/ cands[i].target # cands[j].target
             /\ cands[j].target = 0 \/ cands[j].target # cands[i].target
             /\ cands[i].used \cap cands[j].used = {}
  BY <1>4 DEF Fits
<1>5. \A x, y \in sel \cup {i} : x # y =>
        /\ cands[x].target = 0 \/ cands[x].target # cands[y].target
        /\ cands[x].used \cap cands[y].used = {}
  BY <1>4 DEF Compatible
<1>6. sel \cup {i} \in SUBSET DOMAIN cands
  BY <1>1
<1>. QED  BY <1>3, <1>5, <1>6 DEF Compatible

\* Counting and considering a selection keeps what was found sane.
LEMMA VisitSane ==
  ASSUME NEW cands, Counted(cands), NEW hand, NEW opened \in BOOLEAN, NEW maxNodes, NEW sel,
         NEW found, Compatible(cands, hand, sel), Sane(cands, hand, opened, found)
  PROVE  Sane(cands, hand, opened, Visit(cands, opened, maxNodes, sel, found))
<1> DEFINE seen == Visit(cands, opened, maxNodes, sel, found)
           best == Consider(cands, opened, sel, found.best)
<1>1. found \in Found(cands) /\ \A s \in found.best : Playing(cands, hand, opened, s)
  BY DEF Sane
<1>2. /\ found = [best |-> found.best, nodes |-> found.nodes,
                  budgetExceeded |-> found.budgetExceeded]
      /\ found.best \in SUBSET SUBSET DOMAIN cands /\ found.nodes \in Nat
      /\ found.budgetExceeded \in BOOLEAN
  BY <1>1 DEF Found
<1>3. best \in SUBSET SUBSET DOMAIN cands /\ \A s \in best : s \in found.best \/ s = sel
  BY <1>2 DEF Consider, Compatible
<1>4. sel \in best /\ sel \notin found.best =>
        sel # {} /\ (opened \/ ~ (FaceValuePlayed(cands, sel) < INITIAL_MELD_THRESHOLD))
  BY DEF Consider
<1>5. FaceValuePlayed(cands, sel) \in Int
  BY WorthCounted DEF Compatible
<1>6. \A s \in best : Playing(cands, hand, opened, s)
  BY <1>1, <1>3, <1>4, <1>5 DEF Playing, INITIAL_MELD_THRESHOLD
<1>7. \/ seen = found
      \/ seen = [best |-> found.best, nodes |-> found.nodes + 1, budgetExceeded |-> TRUE]
      \/ seen = [best |-> best, nodes |-> found.nodes + 1, budgetExceeded |-> found.budgetExceeded]
  BY <1>2 DEF Visit
<1> HIDE DEF best, seen
<1>8. seen \in Found(cands) /\ \A s \in seen.best : Playing(cands, hand, opened, s)
  <2>1. CASE seen = found
    BY <1>1, <2>1
  <2>2. CASE seen = [best |-> found.best, nodes |-> found.nodes + 1, budgetExceeded |-> TRUE]
    <3>1. seen \in Found(cands)
      BY <1>2, <2>2 DEF Found
    <3>. QED  BY <1>1, <2>2, <3>1
  <2>3. CASE seen = [best |-> best, nodes |-> found.nodes + 1,
                     budgetExceeded |-> found.budgetExceeded]
    <3>1. seen \in Found(cands)
      BY <1>2, <1>3, <2>3 DEF Found
    <3>. QED  BY <1>6, <2>3, <3>1
  <2>. QED  BY <1>7, <2>1, <2>2, <2>3
<1>. QED  BY <1>8 DEF Sane, seen

\* So does a call of dfs, whose loop does.
LEMMA DfsSane ==
  ASSUME NEW cands, Counted(cands), NEW hand, NEW opened \in BOOLEAN, NEW maxNodes, NEW sel,
         NEW found, Compatible(cands, hand, sel), Sane(cands, hand, opened, found),
         NEW i, sel \subseteq 1 .. i, NEW loop, LoopSane(cands, hand, opened, i, loop)
  PROVE  Sane(cands, hand, opened, Dfs(cands, hand, opened, maxNodes, sel, found, loop))
<1> DEFINE seen == Visit(cands, opened, maxNodes, sel, found)
           node == [sel |-> sel, found |-> seen]
<1>1. Sane(cands, hand, opened, seen)
  BY VisitSane
<1> HIDE DEF seen
<1>2. node \in Node(cands) /\ node.sel = sel /\ node.found = seen
  BY <1>1 DEF Node, Sane, Compatible
<1>3. Sane(cands, hand, opened, loop[node])
  BY <1>1, <1>2 DEF LoopSane
<1>4. \/ Dfs(cands, hand, opened, maxNodes, sel, found, loop) = seen
      \/ Dfs(cands, hand, opened, maxNodes, sel, found, loop) = loop[node]
  BY DEF Dfs, seen
<1>. QED  BY <1>1, <1>3, <1>4

\* And so does the loop with one more candidate.
LEMMA BranchSane ==
  ASSUME NEW cands, Counted(cands), NEW hand, NEW opened \in BOOLEAN, NEW maxNodes,
         NEW i \in DOMAIN cands, NEW loop, LoopSane(cands, hand, opened, i, loop)
  PROVE  LoopSane(cands, hand, opened, i - 1, Branch(cands, hand, opened, maxNodes, i, loop))
<1> SUFFICES ASSUME NEW node \in Node(cands), node.sel \subseteq 1 .. i - 1,
                    Compatible(cands, hand, node.sel), Sane(cands, hand, opened, node.found)
             PROVE  Sane(cands, hand, opened, Branch(cands, hand, opened, maxNodes, i, loop)[node])
  BY DEF LoopSane
<1> DEFINE more == node.sel \cup {i}
           after == IF Fits(cands, hand, node.sel, i)
                    THEN Dfs(cands, hand, opened, maxNodes, more, node.found, loop)
                    ELSE node.found
           next == [sel |-> node.sel, found |-> after]
<1>1. i \in Nat /\ i \notin node.sel /\ node.sel \subseteq 1 .. i /\ more \subseteq 1 .. i
  BY DEF Counted
<1>2. Sane(cands, hand, opened, after)
  <2>1. CASE Fits(cands, hand, node.sel, i)
    <3>1. Compatible(cands, hand, more)
      BY <1>1, <2>1, FitsCompatible
    <3> HIDE DEF more
    <3>2. Sane(cands, hand, opened, Dfs(cands, hand, opened, maxNodes, more, node.found, loop))
      BY <1>1, <3>1, DfsSane
    <3>. QED  BY <2>1, <3>2
  <2>2. CASE ~ Fits(cands, hand, node.sel, i)
    BY <2>2
  <2>. QED  BY <2>1, <2>2
<1> HIDE DEF after
<1>3. next \in Node(cands) /\ next.sel = node.sel /\ next.found = after
  BY <1>2 DEF Node, Sane, Compatible
<1>4. Sane(cands, hand, opened, loop[next])
  BY <1>1, <1>2, <1>3 DEF LoopSane
<1>5. \/ Branch(cands, hand, opened, maxNodes, i, loop)[node] = node.found
      \/ Branch(cands, hand, opened, maxNodes, i, loop)[node] = loop[next]
  <2>1. node = [sel |-> node.sel, found |-> node.found]
    BY DEF Node
  <2>2. [node EXCEPT !.found = after] = next
    BY <2>1
  <2>3. Branch(cands, hand, opened, maxNodes, i, loop)[node]
          = IF node.found.budgetExceeded \/ OutOfReach(cands, node.sel, node.found.best, i)
            THEN node.found ELSE loop[[node EXCEPT !.found = after]]
    BY DEF Branch, after
  <2>. QED  BY <2>2, <2>3
<1>. QED  BY <1>4, <1>5

\* There is a loop over the last k candidates for every k.
Looping(f, cands, hand, opened, maxNodes, m) ==
  f = [k \in 0 .. m |->
         IF k = 0 THEN [node \in Node(cands) |-> node.found]
                  ELSE Branch(cands, hand, opened, maxNodes, Len(cands) - k + 1, f[k - 1])]

\* The recursion over the candidates is defined all the way.
LEMMA LoopsExist ==
  ASSUME NEW cands, NEW hand, NEW opened, NEW maxNodes, NEW n \in Nat
  PROVE  \E f : Looping(f, cands, hand, opened, maxNodes, n)
<1> DEFINE Q == {m \in Nat : ~ \E f : Looping(f, cands, hand, opened, maxNodes, m)}
           start == [node \in Node(cands) |-> node.found]
           step(k, g) == Branch(cands, hand, opened, maxNodes, Len(cands) - k + 1, g)
<1>1. SUFFICES ASSUME Q # {}  PROVE FALSE
  OBVIOUS
<1>2. PICK m \in Q : \A x \in Q : m <= x
  <2>1. Q \in SUBSET Nat
    OBVIOUS
  <2> HIDE DEF Q
  <2>. QED  BY <1>1, <2>1, LeastNatural
<1>3. CASE m = 0
  <2> DEFINE f == [k \in 0 .. m |-> start]
  <2>1. f = [k \in 0 .. m |-> IF k = 0 THEN start ELSE step(k, f[k - 1])]
    <3>1. \A k \in 0 .. m : k = 0
      BY <1>3
    <3> HIDE DEF start, step
    <3>. QED  BY <3>1
  <2>2. Looping(f, cands, hand, opened, maxNodes, m)
    <3> HIDE DEF f
    <3>. QED  BY <2>1 DEF Looping
  <2>. QED  BY <2>2
<1>4. CASE m # 0
  <2>1. m \in Nat /\ m - 1 \in Nat /\ m - 1 \notin Q
    BY <1>2, <1>4
  <2>2. PICK g : Looping(g, cands, hand, opened, maxNodes, m - 1)
    BY <2>1
  <2>3. g = [k \in 0 .. m - 1 |-> IF k = 0 THEN start ELSE step(k, g[k - 1])]
    BY <2>2 DEF Looping
  <2> DEFINE f == [k \in 0 .. m |-> IF k = m THEN step(m, g[m - 1]) ELSE g[k]]
  <2> HIDE DEF start, step
  <2>4. \A k \in 0 .. m - 1 : f[k] = g[k]
    BY <2>1
  <2>5. f[m] = step(m, f[m - 1])
    BY <2>1, <2>4
  <2>6. \A k \in 0 .. m : f[k] = IF k = 0 THEN start ELSE step(k, f[k - 1])
    <3> SUFFICES ASSUME NEW k \in 0 .. m  PROVE f[k] = IF k = 0 THEN start ELSE step(k, f[k - 1])
      OBVIOUS
    <3>1. CASE k = m
      BY <1>4, <2>5, <3>1
    <3>2. CASE k # m
      <4>1. k \in 0 .. m - 1 /\ (k # 0 => k - 1 \in 0 .. m - 1)
        BY <2>1, <3>2
      <4>2. f[k] = g[k] /\ (k # 0 => f[k - 1] = g[k - 1])
        BY <2>4, <4>1
      <4>3. g[k] = IF k = 0 THEN start ELSE step(k, g[k - 1])
        BY <2>3, <4>1
      <4> HIDE DEF f
      <4>. QED  BY <4>2, <4>3
    <3>. QED  BY <3>1, <3>2
  <2>7. f = [k \in 0 .. m |-> IF k = 0 THEN start ELSE step(k, f[k - 1])]
    <3>1. f = [k \in 0 .. m |-> f[k]]
      OBVIOUS
    <3> HIDE DEF f
    <3>. QED  BY <2>6, <3>1
  <2>8. Looping(f, cands, hand, opened, maxNodes, m)
    <3> HIDE DEF f
    <3>. QED  BY <2>7 DEF Looping, start, step
  <2>. QED  BY <2>8
<1>. QED  BY <1>3, <1>4

\* Such are the loops of the search.
LEMMA LoopsAre ==
  ASSUME NEW cands, Counted(cands), NEW hand, NEW opened, NEW maxNodes
  PROVE  Looping(Loops(cands, hand, opened, maxNodes), cands, hand, opened, maxNodes, Len(cands))
<1> DEFINE n == Len(cands)
           last == Loops(cands, hand, opened, maxNodes)
<1>1. PICK f : Looping(f, cands, hand, opened, maxNodes, n)
  BY LoopsExist DEF Counted
<1>2. f = [m \in 0 .. n |->
             IF m = 0 THEN [node \in Node(cands) |-> node.found]
             ELSE Branch(cands, hand, opened, maxNodes, n - m + 1, f[m - 1])]
  BY <1>1 DEF Looping
<1>3. last = CHOOSE f1 : f1 = [m \in 0 .. n |->
             IF m = 0 THEN [node \in Node(cands) |-> node.found]
             ELSE Branch(cands, hand, opened, maxNodes, n - m + 1, f1[m - 1])]
  BY DEF Loops
<1>4. last = [m \in 0 .. n |->
             IF m = 0 THEN [node \in Node(cands) |-> node.found]
             ELSE Branch(cands, hand, opened, maxNodes, n - m + 1, last[m - 1])]
  BY <1>2, <1>3
<1> HIDE DEF last
<1>5. Looping(last, cands, hand, opened, maxNodes, n)
  BY <1>4 DEF Looping
<1>. QED  BY <1>5 DEF last

\* Each loop finds nothing but selections that may be played.
LEMMA LoopsSane ==
  ASSUME NEW cands, Counted(cands), NEW hand, NEW opened \in BOOLEAN, NEW maxNodes,
         NEW k \in 0 .. Len(cands)
  PROVE  LoopSane(cands, hand, opened, Len(cands) - k, Loops(cands, hand, opened, maxNodes)[k])
<1> DEFINE n == Len(cands)
           last == Loops(cands, hand, opened, maxNodes)
           Q == {m \in 0 .. n : ~ LoopSane(cands, hand, opened, n - m, last[m])}
<1>1. Looping(last, cands, hand, opened, maxNodes, n)
  BY LoopsAre
<1> HIDE DEF last
<1>2. n \in Nat /\ DOMAIN cands = 1 .. n
  BY DEF Counted
<1>3. ASSUME Q # {}  PROVE FALSE
  <2>1. PICK m \in Q : \A x \in Q : m <= x
    <3>1. Q \in SUBSET Nat
      BY <1>2
    <3> HIDE DEF Q
    <3>. QED  BY <1>3, <3>1, LeastNatural
  <2>2. m \in 0 .. n /\ m \in Nat /\ ~ LoopSane(cands, hand, opened, n - m, last[m])
    BY <1>2
  <2>3. CASE m = 0
    <3>1. last[m] = [node \in Node(cands) |-> node.found]
      BY <1>1, <2>2, <2>3 DEF Looping
    <3>. QED  BY <2>2, <3>1 DEF LoopSane
  <2>4. CASE m # 0
    <3>1. m - 1 \in 0 .. n /\ m - 1 \notin Q
      BY <1>2, <2>1, <2>2, <2>4
    <3>2. LoopSane(cands, hand, opened, n - (m - 1), last[m - 1])
      BY <3>1
    <3> DEFINE i == n - m + 1
    <3>3. i \in DOMAIN cands /\ n - (m - 1) = i /\ n - m = i - 1
      BY <1>2, <2>2, <2>4
    <3>4. last[m] = Branch(cands, hand, opened, maxNodes, i, last[m - 1])
      BY <1>1, <2>2, <2>4 DEF Looping
    <3> HIDE DEF i
    <3>5. LoopSane(cands, hand, opened, i - 1,
                   Branch(cands, hand, opened, maxNodes, i, last[m - 1]))
      BY <3>2, <3>3, BranchSane
    <3>. QED  BY <2>2, <3>3, <3>4, <3>5
  <2>. QED  BY <2>3, <2>4
<1>. QED  BY <1>3 DEF last

\* What the search hands over may be played.
LEMMA SearchSane ==
  ASSUME NEW cands, Counted(cands), NEW hand, NEW opened \in BOOLEAN, NEW maxNodes,
         Cardinality(RackJokers(hand)) \in Nat
  PROVE  Sane(cands, hand, opened, Search(cands, hand, opened, maxNodes))
<1> DEFINE n == Len(cands)
           none == [best |-> {}, nodes |-> 0, budgetExceeded |-> FALSE]
           loop == Loops(cands, hand, opened, maxNodes)[n]
<1>1. n \in Nat /\ n \in 0 .. n
  BY DEF Counted
<1>2. LoopSane(cands, hand, opened, n - n, loop)
  BY <1>1, LoopsSane
<1>3. Sane(cands, hand, opened, none)
  BY DEF Sane, Found
<1>4. Compatible(cands, hand, {})
  <2>1. JokersUsed(cands, {}) = 0
    BY SumOfNothing DEF JokersUsed
  <2>. QED  BY <2>1 DEF Compatible
<1>5. Search(cands, hand, opened, maxNodes) = Dfs(cands, hand, opened, maxNodes, {}, none, loop)
  BY DEF Search
<1> HIDE DEF none, loop
<1>6. {} \subseteq 1 .. n - n
  OBVIOUS
<1>7. Sane(cands, hand, opened, Dfs(cands, hand, opened, maxNodes, {}, none, loop))
  BY <1>2, <1>3, <1>4, <1>6, DfsSane
<1>. QED  BY <1>5, <1>7

-----------------------------------------------------------------------------
(* The table the computer proposes *)

\* A finite set in some order: each of its elements once.
LEMMA InSomeOrder ==
  ASSUME NEW S, IsFiniteSet(S)
  PROVE  LET s == SetToSeq(S)
         IN  /\ Len(s) \in Nat /\ DOMAIN s = 1 .. Len(s) /\ s \in Seq(S)
             /\ \A m, n \in 1 .. Len(s) : s[m] = s[n] => m = n
             /\ {s[n] : n \in 1 .. Len(s)} = S
<1> DEFINE N == Cardinality(S)
           s == SetToSeq(S)
<1>1. N \in Nat /\ ExistsBijection(1 .. N, S)
  BY FS_CardinalityType
<1>2. PICK f : f \in Bijection(1 .. N, S)
  BY <1>1 DEF ExistsBijection
<1>3. f \in [1 .. N -> S] /\ IsInjective(f)
  BY <1>2 DEF Bijection, Injection, IsInjective
<1>4. s \in [1 .. N -> S] /\ IsInjective(s)
  <2>1. s = CHOOSE g \in [1 .. N -> S] : IsInjective(g)
    BY DEF SetToSeq
  <2> HIDE DEF s, N
  <2>. QED  BY <1>3, <2>1
<1> HIDE DEF s
<1>5. IsFiniteSet(1 .. N) /\ Cardinality(1 .. N) = N
  BY <1>1, FS_Interval
<1>6. s \in Surjection(1 .. N, S)
  <2>1. s \in Injection(1 .. N, S)
    BY <1>4 DEF Injection, IsInjective
  <2> DEFINE D == 1 .. N
  <2>2. s \in Injection(D, S) /\ IsFiniteSet(S) /\ Cardinality(D) = Cardinality(S)
    BY <1>5, <2>1
  <2> HIDE DEF D
  <2>3. s \in Surjection(D, S)
    BY <2>2, FS_Injection
  <2>. QED  BY <2>3 DEF D
<1>7. Len(s) = N /\ DOMAIN s = 1 .. N /\ s \in Seq(S)
  <2> HIDE DEF N
  <2>. QED  BY <1>1, <1>4
<1>8. {s[n] : n \in 1 .. N} = S
  BY <1>6 DEF Surjection
<1>9. \A m, n \in 1 .. N : s[m] = s[n] => m = n
  BY <1>4 DEF IsInjective
<1>. QED  BY <1>1, <1>7, <1>8, <1>9 DEF s

\* The new sets of a selection in the order they are laid, and the jokers
\* taken before the n-th of them.
Laid(cands, sel) == SetToSeq({i \in sel : cands[i].target = 0})
TakenBefore(cands, sel, n) == JokersUsed(cands, {Laid(cands, sel)[m] : m \in 1 .. n - 1})

\* Each of them is laid, once.
LEMMA LaidOrder ==
  ASSUME NEW cands, Counted(cands), NEW hand, NEW sel, Compatible(cands, hand, sel)
  PROVE  LET laid == Laid(cands, sel)
         IN  /\ Len(laid) \in Nat /\ DOMAIN laid = 1 .. Len(laid)
             /\ \A n \in 1 .. Len(laid) : laid[n] \in sel /\ cands[laid[n]].target = 0
             /\ \A m, n \in 1 .. Len(laid) : laid[m] = laid[n] => m = n
             /\ \A i \in sel : cands[i].target = 0 => \E n \in 1 .. Len(laid) : i = laid[n]
<1> DEFINE S == {i \in sel : cands[i].target = 0}
           laid == Laid(cands, sel)
<1>1. IsFiniteSet(sel) /\ S \in SUBSET sel
  BY WorthCounted DEF Compatible
<1>2. laid = SetToSeq(S)
  BY DEF Laid
<1> HIDE DEF S, laid
<1>3. IsFiniteSet(S)
  BY <1>1, FS_Subset
<1>4. /\ Len(laid) \in Nat /\ DOMAIN laid = 1 .. Len(laid) /\ laid \in Seq(S)
      /\ \A m, n \in 1 .. Len(laid) : laid[m] = laid[n] => m = n
      /\ {laid[n] : n \in 1 .. Len(laid)} = S
  BY <1>2, <1>3, InSomeOrder
<1>5. \A n \in 1 .. Len(laid) : laid[n] \in S
  BY <1>4
<1>6. \A i \in S : \E n \in 1 .. Len(laid) : i = laid[n]
  BY <1>4
<1>. QED  BY <1>4, <1>5, <1>6 DEF S, laid

\* The new sets take their jokers one after the other and there are enough.
LEMMA JokerShares ==
  ASSUME NEW cands, Counted(cands), NEW hand \in SUBSET Catalog, NEW sel,
         Compatible(cands, hand, sel)
  PROVE  LET laid == Laid(cands, sel)
             before(n) == TakenBefore(cands, sel, n)
         IN  \A n \in 1 .. Len(laid) :
               /\ before(n) \in Nat
               /\ before(n + 1) = before(n) + cands[laid[n]].jokersUsed
               /\ before(n + 1) <= Cardinality(RackJokers(hand))
               /\ \A m \in 1 .. Len(laid) : n < m => before(n + 1) <= before(m)
<1> DEFINE laid == Laid(cands, sel)
           upto(n) == {laid[m] : m \in 1 .. n - 1}
           v == [i \in DOMAIN cands |-> cands[i].jokersUsed]
<1>1. /\ Len(laid) \in Nat
      /\ \A n \in 1 .. Len(laid) : laid[n] \in sel
      /\ \A m, n \in 1 .. Len(laid) : laid[m] = laid[n] => m = n
  BY LaidOrder
<1>2. sel \in SUBSET DOMAIN cands /\ IsFiniteSet(sel)
      /\ JokersUsed(cands, sel) \in Nat /\ JokersUsed(cands, sel) <= Cardinality(RackJokers(hand))
  BY WorthCounted, JokersGrow DEF Compatible
<1>3. \A n : TakenBefore(cands, sel, n) = JokersUsed(cands, upto(n))
  BY DEF TakenBefore
<1>4. \A s : JokersUsed(cands, s) = SumFunctionOnSet(v, s)
  BY DEF JokersUsed
<1>5. \A i \in DOMAIN cands : v[i] \in Int /\ v[i] >= 0
  BY DEF Counted
<1> HIDE DEF laid, v
<1>6. ASSUME NEW S \in SUBSET sel, NEW R \in SUBSET S
      PROVE  JokersUsed(cands, R) <= JokersUsed(cands, S)
  <2>1. IsFiniteSet(S) /\ \A x \in S : v[x] \in Int /\ v[x] >= 0
    BY <1>2, <1>5, FS_Subset
  <2>. QED  BY <1>4, <2>1, SumMonotone
<1> SUFFICES ASSUME NEW n \in 1 .. Len(laid)
             PROVE  /\ JokersUsed(cands, upto(n)) \in Nat
                    /\ JokersUsed(cands, upto(n + 1))
                         = JokersUsed(cands, upto(n)) + cands[laid[n]].jokersUsed
                    /\ JokersUsed(cands, upto(n + 1)) <= Cardinality(RackJokers(hand))
                    /\ \A m \in 1 .. Len(laid) : n < m =>
                         JokersUsed(cands, upto(n + 1)) <= JokersUsed(cands, upto(m))
  BY <1>3 DEF laid
<1>7. n \in Nat /\ n + 1 - 1 = n
  BY <1>1
<1>8. \A m \in 1 .. n : m \in 1 .. Len(laid)
  BY <1>1
<1>9. upto(n) \in SUBSET sel /\ upto(n + 1) \in SUBSET sel
  BY <1>1, <1>7, <1>8
<1>10. upto(n + 1) = upto(n) \cup {laid[n]}
  <2>1. \A m \in 1 .. n : m = n \/ m \in 1 .. n - 1
    BY <1>7
  <2>2. \A m \in 1 .. n - 1 : m \in 1 .. n
    BY <1>7
  <2>3. n \in 1 .. n
    BY <1>7
  <2>4. upto(n + 1) = {laid[m] : m \in 1 .. n}
    BY <1>7
  <2>. QED  BY <2>1, <2>2, <2>3, <2>4
<1>11. laid[n] \in DOMAIN cands \ upto(n)
  <2>1. laid[n] \in DOMAIN cands
    BY <1>1, <1>2
  <2>2. \A m \in 1 .. n - 1 : m \in 1 .. Len(laid) /\ m # n
    BY <1>1
  <2>. QED  BY <1>1, <2>1, <2>2
<1> HIDE DEF upto
<1>12. upto(n) \in SUBSET DOMAIN cands
  BY <1>2, <1>9
<1>13. /\ JokersUsed(cands, upto(n)) \in Nat
       /\ JokersUsed(cands, upto(n + 1)) = JokersUsed(cands, upto(n)) + cands[laid[n]].jokersUsed
  BY <1>10, <1>11, <1>12, JokersGrow
<1>14. cands[laid[n]].jokersUsed \in Nat
  BY <1>11 DEF Counted
<1>15. JokersUsed(cands, upto(n + 1)) <= JokersUsed(cands, sel)
  BY <1>6, <1>9
<1>16. ASSUME NEW m \in 1 .. Len(laid), n < m
       PROVE  JokersUsed(cands, upto(n + 1)) <= JokersUsed(cands, upto(m))
  <2>1. upto(n + 1) \in SUBSET upto(m) /\ upto(m) \in SUBSET sel
    <3>1. \A x \in 1 .. n + 1 - 1 : x \in 1 .. m - 1
      BY <1>1, <1>16
    <3>2. \A x \in 1 .. m - 1 : x \in 1 .. Len(laid)
      BY <1>1
    <3>. QED  BY <1>1, <3>1, <3>2 DEF upto
  <2>. QED  BY <1>6, <2>1
<1>17. JokersUsed(cands, upto(n + 1)) <= Cardinality(RackJokers(hand))
  <2>1. Cardinality(RackJokers(hand)) \in Nat
    BY JokerIds
  <2>. QED  BY <1>2, <1>13, <1>14, <1>15, <2>1
<1>. QED  BY <1>13, <1>16, <1>17

\* A new set with its jokers in: a set of the rack's own worth what was said.
LEMMA LaidRow ==
  ASSUME NEW hand \in SUBSET Catalog, NEW c, NewCandidate(c, hand), NEW from \in Nat,
         from + c.jokersUsed <= Cardinality(RackJokers(hand))
  PROVE  LET ids == RackJokerIds(hand)
             r == Concretize(c.layout, ids, from)
         IN  /\ r \in Seq(Catalog) /\ ValidSet(r) /\ SetFaceValue(r) = c.faceValuePlayed
             /\ \A t \in ToSet(r) :
                  /\ IsNumbered(t) => t \in c.used
                  /\ ~ IsNumbered(t) => \E m \in from + 1 .. from + c.jokersUsed :
                                          m \in 1 .. Len(ids) /\ t = ids[m]
             /\ c.used \subseteq ToSet(r) /\ c.used # {} /\ c.used \subseteq hand
<1> DEFINE ids == RackJokerIds(hand)
           l == c.layout
           r == Concretize(l, ids, from)
           row0 == Concretize(l, ids, 0)
<1>1. /\ l \in Layouts /\ c.jokersUsed = Slots(l) /\ Slots(l) \in Nat
      /\ c.used = {t \in ToSet(l) : IsNumbered(t)} /\ c.used \subseteq hand
      /\ ValidSet(row0) /\ c.faceValuePlayed = SetFaceValue(row0)
  BY SlotRanks DEF NewCandidate
<1>2. /\ from + Slots(l) <= Len(ids) /\ 0 + Slots(l) <= Len(ids) /\ 0 \in Nat
      /\ Len(ids) = Cardinality(RackJokers(hand))
  <2>1. Len(ids) = Cardinality(RackJokers(hand)) /\ Len(ids) \in Nat
    BY JokerIds
  <2> HIDE DEF ids, l
  <2>. QED  BY <1>1, <2>1
<1>3. /\ row0 \in Seq(Catalog) /\ Len(row0) = Len(l)
      /\ \A i \in 1 .. Len(l) : /\ IsNumbered(row0[i]) <=> IsNumbered(l[i])
                                /\ IsNumbered(l[i]) => row0[i] = l[i]
  BY <1>1, <1>2, Concretized
<1>4. /\ r \in Seq(Catalog) /\ Len(r) = Len(l)
      /\ \A i \in 1 .. Len(l) : /\ IsNumbered(r[i]) <=> IsNumbered(l[i])
                                /\ IsNumbered(l[i]) => r[i] = l[i]
                                /\ ~ IsNumbered(l[i]) =>
                                     \E n \in from + 1 .. from + Slots(l) :
                                       n \in 1 .. Len(ids) /\ r[i] = ids[n]
      /\ \A i, k \in 1 .. Len(l) :
           ~ IsNumbered(l[i]) /\ ~ IsNumbered(l[k]) /\ i # k => r[i] # r[k]
  BY <1>1, <1>2, Concretized
<1> HIDE DEF ids, l, r, row0
<1>5. ~ HasDuplicateTileIds(r)
  <2>1. ~ HasDuplicateTileIds(row0)
    BY <1>1 DEF ValidSet, ValidGroup, ValidRun
  <2> SUFFICES ASSUME NEW i \in 1 .. Len(r), NEW k \in 1 .. Len(r), i # k, r[i] = r[k]
               PROVE  FALSE
    BY DEF HasDuplicateTileIds
  <2>2. i \in 1 .. Len(l) /\ k \in 1 .. Len(l)
    BY <1>4
  <2>3. CASE IsNumbered(l[i])
    <3>1. IsNumbered(l[k])
      BY <1>4, <2>2, <2>3
    <3>2. row0[i] = row0[k] /\ i \in 1 .. Len(row0) /\ k \in 1 .. Len(row0)
      BY <1>3, <1>4, <2>2, <2>3, <3>1
    <3>. QED  BY <2>1, <3>2 DEF HasDuplicateTileIds
  <2>4. CASE ~ IsNumbered(l[i])
    <3>1. ~ IsNumbered(l[k])
      BY <1>4, <2>2, <2>4
    <3>. QED  BY <1>4, <2>2, <2>4, <3>1
  <2>. QED  BY <2>3, <2>4
<1>6. /\ Len(row0) = Len(r)
      /\ \A i \in 1 .. Len(row0) : /\ IsNumbered(row0[i]) <=> IsNumbered(r[i])
                                   /\ IsNumbered(row0[i]) => row0[i] = r[i]
  BY <1>3, <1>4
<1>7. ValidSet(r) /\ SetFaceValue(r) = SetFaceValue(row0)
  BY <1>1, <1>3, <1>4, <1>5, <1>6, SameShape
<1>8. ToSet(r) = {r[i] : i \in 1 .. Len(l)} /\ ToSet(l) = {l[i] : i \in 1 .. Len(l)}
  <2>1. ToSet(r) = {r[i] : i \in 1 .. Len(r)}
    BY <1>4, SeqSet
  <2>2. ToSet(l) = {l[i] : i \in 1 .. Len(l)}
    BY <1>1, SeqSet DEF Layouts
  <2>. QED  BY <1>4, <2>1, <2>2
<1>9. \A t \in ToSet(r) :
        /\ IsNumbered(t) => t \in c.used
        /\ ~ IsNumbered(t) => \E m \in from + 1 .. from + c.jokersUsed :
                                m \in 1 .. Len(ids) /\ t = ids[m]
  <2> SUFFICES ASSUME NEW i \in 1 .. Len(l)
               PROVE  /\ IsNumbered(r[i]) => r[i] \in c.used
                      /\ ~ IsNumbered(r[i]) => \E m \in from + 1 .. from + c.jokersUsed :
                                m \in 1 .. Len(ids) /\ r[i] = ids[m]
    BY <1>8
  <2>1. IsNumbered(r[i]) => r[i] \in c.used
    BY <1>1, <1>4, <1>8
  <2>2. ~ IsNumbered(r[i]) => \E m \in from + 1 .. from + Slots(l) :
                                m \in 1 .. Len(ids) /\ r[i] = ids[m]
    BY <1>4
  <2>. QED  BY <1>1, <2>1, <2>2
<1>10. c.used \subseteq ToSet(r)
  <2> SUFFICES ASSUME NEW i \in 1 .. Len(l), IsNumbered(l[i])  PROVE l[i] \in ToSet(r)
    BY <1>1, <1>8
  <2>. QED  BY <1>4, <1>8
<1>11. c.used # {}
  <2>1. Anchors(r) # {}
    BY <1>7 DEF ValidSet, ValidGroup, ValidRun
  <2>2. PICK i \in 1 .. Len(r) : IsNumbered(r[i])
    BY <2>1 DEF Anchors
  <2>3. i \in 1 .. Len(l) /\ IsNumbered(l[i])
    BY <1>4, <2>2
  <2>. QED  BY <1>1, <1>8, <2>3
<1>. QED  BY <1>1, <1>4, <1>7, <1>9, <1>10, <1>11 DEF ids, l, r

\* A table of sets apart from one another and from a rack.
LegalTable(hand, rows) ==
  /\ hand \in SUBSET Catalog /\ rows \in Seq(Seq(Catalog))
  /\ \A k \in 1 .. Len(rows) : ValidSet(rows[k]) /\ ToSet(rows[k]) \cap hand = {}
  /\ \A k, l \in 1 .. Len(rows) : k # l => ToSet(rows[k]) \cap ToSet(rows[l]) = {}

\* Candidates for them, and a selection of these.
Selected(cands, sel, hand, opened, rows) ==
  /\ Len(cands) \in Nat /\ DOMAIN cands = 1 .. Len(cands)
  /\ \A i \in 1 .. Len(cands) : Suits(cands[i], hand, opened, rows)
  /\ Compatible(cands, hand, sel)

\* A selected candidate without a row is a set of the rack's own.
LEMMA LaidAreNew ==
  ASSUME NEW hand, NEW rows, LegalTable(hand, rows), NEW opened \in BOOLEAN,
         NEW cands, NEW sel, Selected(cands, sel, hand, opened, rows),
         NEW i \in sel, cands[i].target = 0
  PROVE  NewCandidate(cands[i], hand)
<1>1. Len(rows) \in Nat /\ i \in 1 .. Len(cands)
  BY DEF LegalTable, Selected, Compatible
<1>. QED  BY <1>1 DEF Selected, Suits, Extending

\* The sets that follow the table's rows.
LaidRows(cands, sel, hand, n) ==
  Concretize(cands[Laid(cands, sel)[n]].layout, RackJokerIds(hand), TakenBefore(cands, sel, n))

\* Each is a set, of tiles of the rack, and no two have one in common.
LEMMA LaidRowsSound ==
  ASSUME NEW hand, NEW rows, LegalTable(hand, rows), NEW opened \in BOOLEAN,
         NEW cands, NEW sel, Selected(cands, sel, hand, opened, rows),
         NEW n \in 1 .. Len(Laid(cands, sel))
  PROVE  LET c == cands[Laid(cands, sel)[n]]
             r == LaidRows(cands, sel, hand, n)
         IN  /\ r \in Seq(Catalog) /\ ValidSet(r) /\ SetFaceValue(r) = c.faceValuePlayed
             /\ ToSet(r) \subseteq hand /\ \A t \in ToSet(r) : IsNumbered(t) => t \in c.used
             /\ c.used \subseteq ToSet(r) /\ c.used # {} /\ c.used \subseteq hand
             /\ \A m \in 1 .. Len(Laid(cands, sel)) :
                  m # n => ToSet(r) \cap ToSet(LaidRows(cands, sel, hand, m)) = {}
<1> DEFINE laid == Laid(cands, sel)
           ids == RackJokerIds(hand)
           before(m) == TakenBefore(cands, sel, m)
           cand(m) == cands[laid[m]]
           r(m) == LaidRows(cands, sel, hand, m)
           share(m) == before(m) + 1 .. before(m) + cand(m).jokersUsed
<1>1. hand \in SUBSET Catalog /\ Counted(cands) /\ Compatible(cands, hand, sel)
  BY SuitingCounted DEF LegalTable, Selected
<1>2. /\ Len(laid) \in Nat
      /\ \A m \in 1 .. Len(laid) : laid[m] \in sel /\ cands[laid[m]].target = 0
      /\ \A m, k \in 1 .. Len(laid) : laid[m] = laid[k] => m = k
  BY <1>1, LaidOrder
<1>3. \A m \in 1 .. Len(laid) :
        /\ before(m) \in Nat
        /\ before(m + 1) = before(m) + cand(m).jokersUsed
        /\ before(m + 1) <= Cardinality(RackJokers(hand))
        /\ \A k \in 1 .. Len(laid) : m < k => before(m + 1) <= before(k)
  BY <1>1, JokerShares
<1>4. \A m \in 1 .. Len(laid) : NewCandidate(cand(m), hand)
  BY <1>2, LaidAreNew
<1>5. ASSUME NEW m \in 1 .. Len(laid)
      PROVE  /\ r(m) \in Seq(Catalog) /\ ValidSet(r(m))
             /\ SetFaceValue(r(m)) = cand(m).faceValuePlayed
             /\ \A t \in ToSet(r(m)) :
                  /\ IsNumbered(t) => t \in cand(m).used
                  /\ ~ IsNumbered(t) => \E j \in share(m) : j \in 1 .. Len(ids) /\ t = ids[j]
             /\ cand(m).used \subseteq ToSet(r(m))
              /\ cand(m).used # {} /\ cand(m).used \subseteq hand
  <2>1. r(m) = Concretize(cand(m).layout, ids, before(m))
    BY DEF LaidRows
  <2>2. before(m) \in Nat /\ before(m) + cand(m).jokersUsed <= Cardinality(RackJokers(hand))
    BY <1>3
  <2>3. NewCandidate(cand(m), hand)
    BY <1>4
  <2> HIDE DEF r, cand, before, ids
  <2>. QED  BY <1>1, <2>1, <2>2, <2>3, LaidRow DEF ids
<1>6. ids \in Seq(RackJokers(hand)) /\ \A i, j \in 1 .. Len(ids) : ids[i] = ids[j] => i = j
  BY <1>1, JokerIds
<1>7. \A j \in 1 .. Len(ids) : ids[j] \in hand
  BY <1>6 DEF RackJokers
<1>8. \A m \in 1 .. Len(laid) : cand(m).jokersUsed \in Nat
  BY <1>1, <1>2 DEF Counted, Compatible
<1>9. ASSUME NEW m \in 1 .. Len(laid), NEW k \in 1 .. Len(laid), m < k
      PROVE  share(m) \cap share(k) = {}
  <2>1. before(m) + cand(m).jokersUsed <= before(k) /\ before(m) \in Nat /\ before(k) \in Nat
    BY <1>3, <1>9
  <2> HIDE DEF before, cand
  <2>. QED  BY <1>8, <2>1
<1>10. \A m, k \in 1 .. Len(laid) : m # k => share(m) \cap share(k) = {}
  <2> HIDE DEF share
  <2>1. \A m, k \in 1 .. Len(laid) : m < k => share(m) \cap share(k) = {}
    BY <1>9
  <2>2. \A m, k \in 1 .. Len(laid) : m # k => m < k \/ k < m
    BY <1>2
  <2>. QED  BY <2>1, <2>2
<1>11. \A m, k \in 1 .. Len(laid) : m # k => cand(m).used \cap cand(k).used = {}
  BY <1>1, <1>2 DEF Compatible
<1> HIDE DEF laid, ids, before, cand, r, share
<1>12. ASSUME NEW m \in 1 .. Len(laid), m # n, n \in 1 .. Len(laid)
       PROVE  ToSet(r(n)) \cap ToSet(r(m)) = {}
  <2> SUFFICES ASSUME NEW t, t \in ToSet(r(n)), t \in ToSet(r(m))  PROVE FALSE
    OBVIOUS
  <2>1. CASE IsNumbered(t)
    BY <1>5, <1>11, <1>12, <2>1
  <2>2. CASE ~ IsNumbered(t)
    <3>1. PICK j \in share(n) : j \in 1 .. Len(ids) /\ t = ids[j]
      BY <1>5, <1>12, <2>2
    <3>2. PICK k \in share(m) : k \in 1 .. Len(ids) /\ t = ids[k]
      BY <1>5, <1>12, <2>2
    <3>3. j = k
      BY <1>6, <3>1, <3>2
    <3>. QED  BY <1>10, <1>12, <3>1, <3>2, <3>3
  <2>. QED  BY <2>1, <2>2
<1>13. n \in 1 .. Len(laid)
  BY DEF laid
<1>14. ToSet(r(n)) \subseteq hand
  BY <1>5, <1>7, <1>13
<1>. QED  BY <1>5, <1>12, <1>13, <1>14 DEF laid, cand, r

\* Row k of the proposed table, as long as the table has one.
KeptRow(cands, sel, rows, k) ==
  LET ext == {i \in sel : cands[i].target = k}
  IN  IF ext = {} THEN rows[k] ELSE cands[CHOOSE i \in ext : TRUE].layout

\* A row of the table stays as it is, or stays in one piece within a row of
\* numbered tiles that holds what one candidate brings.
LEMMA KeptRows ==
  ASSUME NEW hand, NEW rows, LegalTable(hand, rows), NEW opened \in BOOLEAN,
         NEW cands, NEW sel, Selected(cands, sel, hand, opened, rows),
         NEW k \in 1 .. Len(rows)
  PROVE  \/ /\ KeptRow(cands, sel, rows, k) = rows[k]
            /\ \A i \in sel : cands[i].target # k
         \/ \E i \in sel : /\ cands[i].target = k /\ Extending(cands[i], hand, rows)
                           /\ KeptRow(cands, sel, rows, k) = cands[i].layout
                           /\ opened
<1> DEFINE ext == {i \in sel : cands[i].target = k}
           j == CHOOSE i \in ext : TRUE
<1>1. CASE ext = {}
  BY <1>1 DEF KeptRow
<1>2. CASE ext # {}
  <2>1. j \in ext
    BY <1>2
  <2>2. KeptRow(cands, sel, rows, k) = cands[j].layout
    BY <1>2 DEF KeptRow
  <2> HIDE DEF j
  <2>3. j \in sel /\ j \in DOMAIN cands /\ cands[j].target = k /\ k # 0
    BY <2>1 DEF LegalTable, Selected, Compatible
  <2>4. opened /\ Extending(cands[j], hand, rows)
    BY <2>3 DEF Selected, Suits, NewCandidate
  <2>. QED  BY <2>2, <2>3, <2>4
<1>. QED  BY <1>1, <1>2

\* A row of the table keeps its tiles, remains a set, and takes in only tiles
\* of the rack.
LEMMA KeptRowsSound ==
  ASSUME NEW hand, NEW rows, LegalTable(hand, rows), NEW opened \in BOOLEAN,
         NEW cands, NEW sel, Selected(cands, sel, hand, opened, rows),
         NEW k \in 1 .. Len(rows)
  PROVE  LET r == KeptRow(cands, sel, rows, k)
         IN  /\ r \in Seq(Catalog) /\ ValidSet(r) /\ ToSet(rows[k]) \subseteq ToSet(r)
             /\ \A t \in ToSet(r) :
                  \/ t \in ToSet(rows[k])
                  \/ \E i \in sel : /\ cands[i].target = k /\ t \in cands[i].used
                                    /\ t \in hand /\ IsNumbered(t)
             /\ ~ opened => r = rows[k]
             /\ \A i \in sel : cands[i].target = k => cands[i].used \subseteq ToSet(r)
<1> DEFINE r == KeptRow(cands, sel, rows, k)
<1>1. hand \in SUBSET Catalog /\ rows \in Seq(Seq(Catalog)) /\ ValidSet(rows[k])
  BY DEF LegalTable
<1>2. \/ r = rows[k] /\ \A i \in sel : cands[i].target # k
      \/ \E i \in sel : /\ cands[i].target = k /\ Extending(cands[i], hand, rows)
                        /\ r = cands[i].layout /\ opened
  BY KeptRows
<1> HIDE DEF r
<1>3. CASE r = rows[k] /\ \A i \in sel : cands[i].target # k
  <2>1. r \in Seq(Catalog)
    BY <1>1, <1>3
  <2>. QED  BY <1>1, <1>3, <2>1 DEF r
<1>4. ASSUME NEW i \in sel, opened, cands[i].target = k, Extending(cands[i], hand, rows),
             r = cands[i].layout
      PROVE  /\ r \in Seq(Catalog) /\ ValidSet(r) /\ ToSet(rows[k]) \subseteq ToSet(r)
             /\ \A t \in ToSet(r) :
                  \/ t \in ToSet(rows[k])
                  \/ t \in cands[i].used /\ t \in hand /\ IsNumbered(t)
             /\ \A j \in sel : cands[j].target = k => cands[j].used \subseteq ToSet(r)
  <2>1. /\ r \in Seq(NumberedTile) /\ ValidSet(r)
        /\ ToSet(r) = ToSet(rows[k]) \cup cands[i].used /\ cands[i].used \subseteq hand
    BY <1>4 DEF Extending
  <2>2. r \in Seq(Catalog)
    <3>1. NumberedTile \subseteq Catalog
      BY DEF NumberedTile
    <3>. QED  BY <2>1, <3>1
  <2>3. ToSet(r) \subseteq NumberedTile
    <3>1. ToSet(r) = {r[x] : x \in 1 .. Len(r)}
      BY <2>1, SeqSet
    <3>. QED  BY <2>1, <3>1
  <2>4. \A t \in ToSet(r) : IsNumbered(t)
    BY <2>3 DEF NumberedTile
  <2>5. Len(rows) \in Nat /\ k # 0
    BY <1>1
  <2>6. \A j \in sel : cands[j].target = k => j = i
    BY <1>4, <2>5 DEF Selected, Compatible
  <2>. QED  BY <2>1, <2>2, <2>4, <2>6
<1>. QED  BY <1>2, <1>3, <1>4 DEF r

\* Where the rows of the proposed table come from.
LEMMA Arranged ==
  ASSUME NEW hand, NEW rows, LegalTable(hand, rows), NEW opened \in BOOLEAN,
         NEW cands, NEW sel, Selected(cands, sel, hand, opened, rows)
  PROVE  LET proposed == EmitArrangement(cands, sel, hand, rows)
             laid == Laid(cands, sel)
         IN  /\ proposed \in Seq(Seq(Catalog)) /\ Len(rows) \in Nat /\ Len(laid) \in Nat
             /\ Len(proposed) = Len(rows) + Len(laid)
             /\ \A k \in 1 .. Len(rows) : proposed[k] = KeptRow(cands, sel, rows, k)
             /\ \A n \in 1 .. Len(laid) :
                  proposed[n + Len(rows)] = LaidRows(cands, sel, hand, n)
<1> DEFINE laid == Laid(cands, sel)
           p == [k \in 1 .. Len(rows) |-> KeptRow(cands, sel, rows, k)]
           q == [n \in 1 .. Len(laid) |-> LaidRows(cands, sel, hand, n)]
           T == Seq(Catalog)
<1>1. Len(rows) \in Nat /\ Len(laid) \in Nat
  <2>1. Counted(cands) /\ Compatible(cands, hand, sel)
    BY SuitingCounted DEF LegalTable, Selected
  <2>. QED  BY <2>1, LaidOrder DEF LegalTable
<1>2. \A k \in 1 .. Len(rows) : KeptRow(cands, sel, rows, k) \in T
  BY KeptRowsSound
<1>3. \A n \in 1 .. Len(laid) : LaidRows(cands, sel, hand, n) \in T
  BY LaidRowsSound
<1>4. EmitArrangement(cands, sel, hand, rows) = p \o q
  BY DEF EmitArrangement, KeptRow, LaidRows, Laid, TakenBefore
<1> HIDE DEF T, laid
<1>5. /\ p \in Seq(T) /\ Len(p) = Len(rows)
      /\ \A k \in 1 .. Len(rows) : p[k] = KeptRow(cands, sel, rows, k)
  BY <1>1, <1>2
<1>6. /\ q \in Seq(T) /\ Len(q) = Len(laid)
      /\ \A n \in 1 .. Len(laid) : q[n] = LaidRows(cands, sel, hand, n)
  BY <1>1, <1>3
<1> HIDE DEF p, q
<1>7. /\ p \o q \in Seq(T) /\ Len(p \o q) = Len(p) + Len(q)
      /\ \A i \in 1 .. Len(p) : (p \o q)[i] = p[i]
      /\ \A i \in 1 .. Len(q) : (p \o q)[i + Len(p)] = q[i]
  <2>1. p \in Seq(T) /\ q \in Seq(T)
    BY <1>5, <1>6
  <2>. QED  BY ONLY <2>1, Joined
<1>. QED  BY <1>1, <1>4, <1>5, <1>6, <1>7 DEF T, laid

\* The rows of the proposed table are sets apart from one another.
LEMMA ProposedRows ==
  ASSUME NEW hand, NEW rows, LegalTable(hand, rows), NEW opened \in BOOLEAN,
         NEW cands, NEW sel, Selected(cands, sel, hand, opened, rows)
  PROVE  LET p == EmitArrangement(cands, sel, hand, rows)
         IN  /\ \A x \in 1 .. Len(p) : ValidSet(p[x])
             /\ \A x, y \in 1 .. Len(p) : x # y => ToSet(p[x]) \cap ToSet(p[y]) = {}
<1> DEFINE p == EmitArrangement(cands, sel, hand, rows)
           laid == Laid(cands, sel)
           N == Len(rows)
           M == Len(laid)
           old(k) == ToSet(rows[k])
<1>1. /\ N \in Nat /\ M \in Nat /\ Len(p) = N + M
      /\ \A k \in 1 .. N : p[k] = KeptRow(cands, sel, rows, k)
      /\ \A n \in 1 .. M : p[n + N] = LaidRows(cands, sel, hand, n)
  BY Arranged
<1>2. \A k \in 1 .. N :
        /\ ValidSet(p[k])
        /\ \A t \in ToSet(p[k]) :
             \/ t \in old(k)
             \/ \E i \in sel : /\ cands[i].target = k /\ t \in cands[i].used
                               /\ t \in hand /\ IsNumbered(t)
  BY <1>1, KeptRowsSound
<1>3. \A n \in 1 .. M :
        /\ ValidSet(p[n + N]) /\ ToSet(p[n + N]) \subseteq hand
        /\ \A t \in ToSet(p[n + N]) : IsNumbered(t) => t \in cands[laid[n]].used
        /\ \A m \in 1 .. M : m # n => ToSet(p[n + N]) \cap ToSet(p[m + N]) = {}
  BY <1>1, LaidRowsSound
<1>4. /\ \A k \in 1 .. N : old(k) \cap hand = {}
      /\ \A k, l \in 1 .. N : k # l => old(k) \cap old(l) = {}
  BY DEF LegalTable
<1>5. \A i, j \in sel : i # j => cands[i].used \cap cands[j].used = {}
  BY DEF Selected, Compatible
<1>6. \A n \in 1 .. M : laid[n] \in sel /\ cands[laid[n]].target = 0
  <2>1. Counted(cands) /\ Compatible(cands, hand, sel)
    BY SuitingCounted DEF Selected
  <2>. QED  BY <2>1, LaidOrder
<1> HIDE DEF p, laid, N, M, old
<1>7. \A x \in 1 .. Len(p) : x \in 1 .. N \/ \E n \in 1 .. M : x = n + N
  <2> SUFFICES ASSUME NEW x \in 1 .. Len(p), x \notin 1 .. N
               PROVE  \E n \in 1 .. M : x = n + N
    OBVIOUS
  <2>1. x - N \in 1 .. M /\ x = (x - N) + N
    BY <1>1
  <2>. QED  BY <2>1
<1>8. ASSUME NEW k \in 1 .. N, NEW l \in 1 .. N, k # l
      PROVE  ToSet(p[k]) \cap ToSet(p[l]) = {}
  <2> SUFFICES ASSUME NEW t, t \in ToSet(p[k]), t \in ToSet(p[l])  PROVE FALSE
    OBVIOUS
  <2>1. CASE t \in old(k) /\ t \in old(l)
    BY <1>4, <1>8, <2>1
  <2>2. CASE t \notin hand
    BY <1>2, <2>1, <2>2
  <2>3. CASE t \in hand
    <3>1. t \notin old(k) /\ t \notin old(l)
      BY <1>4, <2>3
    <3>2. PICK i \in sel : cands[i].target = k /\ t \in cands[i].used
      BY <1>2, <3>1
    <3>3. PICK j \in sel : cands[j].target = l /\ t \in cands[j].used
      BY <1>2, <3>1
    <3>. QED  BY <1>5, <1>8, <3>2, <3>3
  <2>. QED  BY <2>2, <2>3
<1>9. ASSUME NEW k \in 1 .. N, NEW n \in 1 .. M
      PROVE  ToSet(p[k]) \cap ToSet(p[n + N]) = {}
  <2> SUFFICES ASSUME NEW t, t \in ToSet(p[k]), t \in ToSet(p[n + N])  PROVE FALSE
    OBVIOUS
  <2>1. t \in hand
    BY <1>3
  <2>2. t \notin old(k)
    BY <1>4, <2>1
  <2>3. PICK i \in sel : cands[i].target = k /\ t \in cands[i].used /\ IsNumbered(t)
    BY <1>2, <2>2
  <2>4. t \in cands[laid[n]].used /\ laid[n] \in sel /\ cands[laid[n]].target = 0 /\ k # 0
    BY <1>1, <1>3, <1>6, <2>3
  <2>. QED  BY <1>5, <2>3, <2>4
<1>10. ASSUME NEW x \in 1 .. Len(p), NEW y \in 1 .. Len(p), x # y
       PROVE  ToSet(p[x]) \cap ToSet(p[y]) = {}
  <2>1. CASE x \in 1 .. N /\ y \in 1 .. N
    BY <1>8, <1>10, <2>1
  <2>2. CASE x \in 1 .. N /\ y \notin 1 .. N
    <3>1. PICK n \in 1 .. M : y = n + N
      BY <1>7, <2>2
    <3>. QED  BY <1>9, <2>2, <3>1
  <2>3. CASE x \notin 1 .. N /\ y \in 1 .. N
    <3>1. PICK n \in 1 .. M : x = n + N
      BY <1>7, <2>3
    <3>. QED  BY <1>9, <2>3, <3>1
  <2>4. CASE x \notin 1 .. N /\ y \notin 1 .. N
    <3>1. PICK n \in 1 .. M : x = n + N
      BY <1>7, <2>4
    <3>2. PICK m \in 1 .. M : y = m + N
      BY <1>7, <2>4
    <3>. QED  BY <1>3, <1>10, <3>1, <3>2
  <2>. QED  BY <2>1, <2>2, <2>3, <2>4
<1>11. \A x \in 1 .. Len(p) : ValidSet(p[x])
  BY <1>2, <1>3, <1>7
<1>. QED  BY <1>10, <1>11 DEF p

\* It keeps every tile of the table and adds tiles of the rack, at least one.
LEMMA ProposedTiles ==
  ASSUME NEW hand, NEW rows, LegalTable(hand, rows), NEW opened \in BOOLEAN,
         NEW cands, NEW sel, Selected(cands, sel, hand, opened, rows), sel # {}
  PROVE  LET p == EmitArrangement(cands, sel, hand, rows)
         IN  /\ RowTiles(rows) \subseteq RowTiles(p)
             /\ RowTiles(p) \ RowTiles(rows) \subseteq hand
             /\ RowTiles(p) \ RowTiles(rows) # {}
<1> DEFINE p == EmitArrangement(cands, sel, hand, rows)
           laid == Laid(cands, sel)
           N == Len(rows)
           M == Len(laid)
           old(k) == ToSet(rows[k])
<1>1. /\ N \in Nat /\ M \in Nat /\ Len(p) = N + M
      /\ \A k \in 1 .. N : p[k] = KeptRow(cands, sel, rows, k)
      /\ \A n \in 1 .. M : p[n + N] = LaidRows(cands, sel, hand, n)
  BY Arranged
<1>2. \A k \in 1 .. N :
        /\ old(k) \subseteq ToSet(p[k])
        /\ \A t \in ToSet(p[k]) : t \in old(k) \/ t \in hand
        /\ \A i \in sel : cands[i].target = k => cands[i].used \subseteq ToSet(p[k])
  BY <1>1, KeptRowsSound
<1>3. \A n \in 1 .. M :
        /\ ToSet(p[n + N]) \subseteq hand
        /\ cands[laid[n]].used \subseteq ToSet(p[n + N]) /\ cands[laid[n]].used # {}
        /\ cands[laid[n]].used \subseteq hand
  BY <1>1, LaidRowsSound
<1>4. \A k \in 1 .. N : old(k) \cap hand = {}
  BY DEF LegalTable
<1>5. \A i \in sel : cands[i].target = 0 => \E n \in 1 .. M : i = laid[n]
  <2>1. Counted(cands) /\ Compatible(cands, hand, sel)
    BY SuitingCounted DEF Selected
  <2>. QED  BY <2>1, LaidOrder
<1>6. \A i \in sel : cands[i].target # 0 =>
        cands[i].target \in 1 .. N /\ cands[i].used # {} /\ cands[i].used \subseteq hand
  BY DEF Selected, Compatible, Suits, NewCandidate, Extending
<1>7. /\ RowTiles(rows) = UNION {old(k) : k \in 1 .. N}
      /\ RowTiles(p) = UNION {ToSet(p[x]) : x \in 1 .. Len(p)}
  BY DEF RowTiles
<1> HIDE DEF p, laid, N, M, old
<1>8. \A k \in 1 .. N : k \in 1 .. Len(p)
  BY <1>1
<1>9. \A n \in 1 .. M : n + N \in 1 .. Len(p)
  BY <1>1
<1>10. \A x \in 1 .. Len(p) : x \in 1 .. N \/ \E n \in 1 .. M : x = n + N
  <2> SUFFICES ASSUME NEW x \in 1 .. Len(p), x \notin 1 .. N
               PROVE  \E n \in 1 .. M : x = n + N
    OBVIOUS
  <2>1. x - N \in 1 .. M /\ x = (x - N) + N
    BY <1>1
  <2>. QED  BY <2>1
<1>11. RowTiles(rows) \subseteq RowTiles(p)
  BY <1>2, <1>7, <1>8
<1>12. RowTiles(p) \ RowTiles(rows) \subseteq hand
  <2> SUFFICES ASSUME NEW x \in 1 .. Len(p), NEW t \in ToSet(p[x]), t \notin RowTiles(rows)
               PROVE  t \in hand
    BY <1>7
  <2>1. CASE x \in 1 .. N
    BY <1>2, <1>7, <2>1
  <2>2. CASE \E n \in 1 .. M : x = n + N
    BY <1>3, <2>2
  <2>. QED  BY <1>10, <2>1, <2>2
<1>13. hand \cap RowTiles(rows) = {}
  BY <1>4, <1>7
<1>14. PICK i \in sel : TRUE
  OBVIOUS
<1>15. CASE cands[i].target = 0
  <2>1. PICK n \in 1 .. M : i = laid[n]
    BY <1>5, <1>15
  <2>2. PICK t \in cands[i].used : t \in hand /\ t \in ToSet(p[n + N])
    BY <1>3, <2>1
  <2>3. t \in RowTiles(p)
    BY <1>7, <1>9, <2>2
  <2>. QED  BY <1>11, <1>12, <1>13, <2>2, <2>3 DEF p
<1>16. CASE cands[i].target # 0
  <2>1. PICK t \in cands[i].used : t \in hand /\ t \in ToSet(p[cands[i].target])
    BY <1>2, <1>6, <1>16
  <2>2. t \in RowTiles(p)
    BY <1>6, <1>7, <1>8, <1>16, <2>1
  <2>. QED  BY <1>11, <1>12, <1>13, <2>1, <2>2 DEF p
<1>. QED  BY <1>15, <1>16

\* The rows of a table as sets of tiles, and what the new ones are worth.
Keys(t) == {ToSet(t[k]) : k \in 1 .. Len(t)}
NewSetsWorth(rows, p) ==
  LET new == {k \in 1 .. Len(p) : ToSet(p[k]) \notin Keys(rows)}
      worth == [k \in 1 .. Len(p) |-> SetFaceValue(p[k])]
  IN  SumFunctionOnSet(worth, new)

\* Before the first meld the table stays as it is and the new sets are worth
\* what the search added up.
LEMMA ProposedMeld ==
  ASSUME NEW hand, NEW rows, LegalTable(hand, rows), NEW opened \in BOOLEAN, ~ opened,
         NEW cands, NEW sel, Selected(cands, sel, hand, opened, rows)
  PROVE  LET p == EmitArrangement(cands, sel, hand, rows)
         IN  /\ Keys(rows) \subseteq Keys(p)
             /\ NewSetsWorth(rows, p) = FaceValuePlayed(cands, sel)
<1> DEFINE p == EmitArrangement(cands, sel, hand, rows)
           laid == Laid(cands, sel)
           N == Len(rows)
           M == Len(laid)
           keys(t) == {ToSet(t[k]) : k \in 1 .. Len(t)}
           new == {k \in 1 .. Len(p) : ToSet(p[k]) \notin keys(rows)}
           worth == [k \in 1 .. Len(p) |-> SetFaceValue(p[k])]
           v == [i \in DOMAIN cands |-> cands[i].faceValuePlayed]
           f == [x \in new |-> laid[x - N]]
<1>1. /\ N \in Nat /\ M \in Nat /\ Len(p) = N + M
      /\ \A k \in 1 .. N : p[k] = KeptRow(cands, sel, rows, k)
      /\ \A n \in 1 .. M : p[n + N] = LaidRows(cands, sel, hand, n)
  BY Arranged
<1>2. \A k \in 1 .. N : p[k] = rows[k]
  BY <1>1, KeptRowsSound
<1>3. \A n \in 1 .. M :
        /\ SetFaceValue(p[n + N]) = cands[laid[n]].faceValuePlayed
        /\ ToSet(p[n + N]) \subseteq hand /\ ToSet(p[n + N]) # {}
  <2>1. \A n \in 1 .. M :
          /\ SetFaceValue(p[n + N]) = cands[laid[n]].faceValuePlayed
          /\ ToSet(p[n + N]) \subseteq hand
          /\ cands[laid[n]].used \subseteq ToSet(p[n + N]) /\ cands[laid[n]].used # {}
    BY <1>1, LaidRowsSound
  <2> HIDE DEF p, laid, N, M
  <2>. QED  BY <2>1
<1>4. \A k \in 1 .. N : ToSet(rows[k]) \cap hand = {}
  BY DEF LegalTable
<1>5. Counted(cands) /\ sel \in SUBSET DOMAIN cands
  BY SuitingCounted DEF Selected, Compatible
<1>6. /\ \A n \in 1 .. M : laid[n] \in sel
      /\ \A m, n \in 1 .. M : laid[m] = laid[n] => m = n
      /\ \A i \in sel : cands[i].target = 0 => \E n \in 1 .. M : i = laid[n]
  <2>1. Counted(cands) /\ Compatible(cands, hand, sel)
    BY SuitingCounted DEF Selected
  <2>. QED  BY <2>1, LaidOrder
<1>7. \A i \in sel : cands[i].target = 0
  BY DEF Selected, Compatible, Suits, NewCandidate
<1> HIDE DEF p, laid, N, M
<1>8. \A k \in 1 .. N : k \in 1 .. Len(p)
  BY <1>1
<1>9. \A n \in 1 .. M : n + N \in 1 .. Len(p) /\ (n + N) - N = n
  BY <1>1
<1>10. \A x \in 1 .. Len(p) : x \in 1 .. N \/ (x - N \in 1 .. M /\ x = (x - N) + N)
  BY <1>1
<1>11. keys(rows) = {ToSet(rows[k]) : k \in 1 .. N}
  BY DEF N
<1>12. keys(rows) \subseteq keys(p)
  BY <1>2, <1>8, <1>11
<1>13. \A x \in 1 .. Len(p) : x \in new <=> x - N \in 1 .. M
  <2> SUFFICES ASSUME NEW x \in 1 .. Len(p)  PROVE x \in new <=> x - N \in 1 .. M
    OBVIOUS
  <2>1. CASE x \in 1 .. N
    <3>1. ToSet(p[x]) = ToSet(rows[x])
      BY <1>2, <2>1
    <3>2. ToSet(rows[x]) \in {ToSet(rows[k]) : k \in 1 .. N}
      BY <2>1
    <3>3. x - N \notin 1 .. M
      BY <1>1, <2>1
    <3>. QED  BY <1>11, <3>1, <3>2, <3>3
  <2>2. CASE x - N \in 1 .. M
    <3>1. x = (x - N) + N
      BY <1>1
    <3>2. ToSet(p[x]) \subseteq hand /\ ToSet(p[x]) # {}
      BY <1>3, <2>2, <3>1
    <3>3. ToSet(p[x]) \notin keys(rows)
      BY <1>4, <1>11, <3>2 DEF N
    <3>. QED  BY <2>2, <3>3
  <2>. QED  BY <1>10, <2>1, <2>2
<1>14. IsFiniteSet(new)
  <2>1. Len(p) \in Nat /\ new \in SUBSET (1 .. Len(p))
    BY <1>1
  <2> HIDE DEF new
  <2>2. IsFiniteSet(1 .. Len(p))
    BY <2>1, FS_Interval
  <2>. QED  BY <2>1, <2>2, FS_Subset
<1>15. \A x \in new : x \in 1 .. Len(p) /\ x - N \in 1 .. M /\ x = (x - N) + N
  BY <1>1, <1>13
<1>16. \A x \in new : /\ f[x] = laid[x - N]
                      /\ worth[x] = v[f[x]] /\ worth[x] \in Int
  <2> SUFFICES ASSUME NEW x \in new
               PROVE  f[x] = laid[x - N] /\ worth[x] = v[f[x]] /\ worth[x] \in Int
    OBVIOUS
  <2>1. f[x] = laid[x - N] /\ worth[x] = SetFaceValue(p[x])
    BY <1>15
  <2>2. SetFaceValue(p[x]) = cands[laid[x - N]].faceValuePlayed
    BY <1>3, <1>15
  <2>3. laid[x - N] \in DOMAIN cands
    BY <1>5, <1>6, <1>15
  <2>4. v[laid[x - N]] = cands[laid[x - N]].faceValuePlayed
    BY <2>3
  <2>5. cands[laid[x - N]].faceValuePlayed \in Int
    BY <1>5, <2>3 DEF Counted
  <2>. QED  BY <2>1, <2>2, <2>4, <2>5
<1>17. \A x, y \in new : f[x] = f[y] => x = y
  <2> SUFFICES ASSUME NEW x \in new, NEW y \in new, f[x] = f[y]  PROVE x = y
    OBVIOUS
  <2>1. laid[x - N] = laid[y - N]
    BY <1>16
  <2>2. x - N = y - N
    BY <1>6, <1>15, <2>1
  <2>. QED  BY <1>15, <2>2
<1>18. {f[x] : x \in new} = sel
  <2>1. \A x \in new : f[x] \in sel
    BY <1>6, <1>15, <1>16
  <2>2. \A i \in sel : \E x \in new : f[x] = i
    <3> SUFFICES ASSUME NEW i \in sel  PROVE \E x \in new : f[x] = i
      OBVIOUS
    <3>1. PICK n \in 1 .. M : i = laid[n]
      BY <1>6, <1>7
    <3>2. n + N \in new
      BY <1>9, <1>13
    <3>. QED  BY <1>9, <1>16, <3>1, <3>2
  <2> HIDE DEF f, new
  <2>. QED  BY <2>1, <2>2
<1> HIDE DEF f, new, worth, v
<1>19. SumFunctionOnSet(worth, new) = SumFunctionOnSet(v, {f[x] : x \in new})
  BY <1>14, <1>16, <1>17, SumRenamed
<1>20. SumFunctionOnSet(worth, new) = FaceValuePlayed(cands, sel)
  BY <1>18, <1>19 DEF FaceValuePlayed, v
<1>. QED  BY <1>12, <1>20 DEF p, new, worth, Keys, NewSetsWorth

\* The server takes what the computer proposes.
LEMMA ProposedTurn ==
  ASSUME NEW hand, NEW rows, LegalTable(hand, rows), NEW opened \in BOOLEAN,
         NEW cands, NEW sel, Selected(cands, sel, hand, opened, rows),
         Playing(cands, hand, opened, sel)
  PROVE  ValidTurn(hand, opened, rows, EmitArrangement(cands, sel, hand, rows))
<1> DEFINE p == EmitArrangement(cands, sel, hand, rows)
<1>1. /\ \A x \in 1 .. Len(p) : ValidSet(p[x])
      /\ \A x, y \in 1 .. Len(p) : x # y => ToSet(p[x]) \cap ToSet(p[y]) = {}
  BY ProposedRows
<1>2. /\ RowTiles(rows) \subseteq RowTiles(p)
      /\ RowTiles(p) \ RowTiles(rows) \subseteq hand
      /\ RowTiles(p) \ RowTiles(rows) # {}
  BY ProposedTiles DEF Playing
<1>3. opened \/ /\ Keys(rows) \subseteq Keys(p)
                /\ NewSetsWorth(rows, p) >= INITIAL_MELD_THRESHOLD
  BY ProposedMeld DEF Playing
<1> HIDE DEF p
<1>4. ValidTurn(hand, opened, rows, p)
  BY <1>1, <1>2, <1>3 DEF ValidTurn, Keys, NewSetsWorth
<1>. QED  BY <1>4 DEF p

-----------------------------------------------------------------------------
(* The computer's moves at a table *)

\* A proposal is the arrangement of a selection that may be played.
LEMMA ProposalsSelected ==
  ASSUME NEW hand, NEW rows, LegalTable(hand, rows), NEW opened \in BOOLEAN, NEW maxNodes,
         NEW p \in Proposals(SortedCandidates(hand, opened, rows), hand, opened, rows, maxNodes)
  PROVE  LET cands == SortedCandidates(hand, opened, rows)
         IN  \E sel : /\ Selected(cands, sel, hand, opened, rows)
                      /\ Playing(cands, hand, opened, sel)
                      /\ p = EmitArrangement(cands, sel, hand, rows)
<1> DEFINE cands == SortedCandidates(hand, opened, rows)
<1>1. /\ hand \in SUBSET Catalog /\ rows \in Seq(Seq(Catalog))
      /\ \A k \in 1 .. Len(rows) : ToSet(rows[k]) \cap hand = {}
  BY DEF LegalTable
<1>2. PICK sel \in Search(cands, hand, opened, maxNodes).best :
        p = EmitArrangement(cands, sel, hand, rows)
  BY DEF Proposals
<1>3. /\ Len(cands) \in Nat /\ DOMAIN cands = 1 .. Len(cands)
      /\ \A i \in 1 .. Len(cands) : Suits(cands[i], hand, opened, rows)
  BY <1>1, SortedCandidatesSuit
<1> HIDE DEF cands
<1>4. Counted(cands)
  BY <1>3, SuitingCounted
<1>5. Cardinality(RackJokers(hand)) \in Nat
  BY <1>1, JokerIds
<1>6. Sane(cands, hand, opened, Search(cands, hand, opened, maxNodes))
  BY <1>4, <1>5, SearchSane
<1>7. Playing(cands, hand, opened, sel)
  BY <1>6 DEF Sane
<1>8. Selected(cands, sel, hand, opened, rows)
  BY <1>3, <1>7 DEF Selected, Playing
<1>. QED  BY <1>2, <1>7, <1>8 DEF cands

\* The rack and the table are of the catalog, the table is one of sets.
TableInv == LegalTable(rack, table) /\ melded \in BOOLEAN

\* With them every proposal is a legal turn.
LEMMA LegalFromTable == TableInv => ProposalsLegal
<1> SUFFICES ASSUME TableInv, NEW n \in {MaxNodes} \cup Budgets,
                    NEW p \in Proposals(SortedCandidates(rack, melded, table),
                                        rack, melded, table, n)
             PROVE  ValidTurn(rack, melded, table, p)
  BY DEF ProposalsLegal, Candidates
<1> DEFINE cands == SortedCandidates(rack, melded, table)
<1>1. LegalTable(rack, table) /\ melded \in BOOLEAN
  BY DEF TableInv
<1>2. PICK sel : /\ Selected(cands, sel, rack, melded, table)
                 /\ Playing(cands, rack, melded, sel)
                 /\ p = EmitArrangement(cands, sel, rack, table)
  BY <1>1, ProposalsSelected
<1> HIDE DEF cands
<1>. QED  BY <1>1, <1>2, ProposedTurn

\* What a commit makes of the table.
LEMMA CommitArranges ==
  ASSUME TableInv, BotCommits
  PROVE  \E cands, sel : /\ Selected(cands, sel, rack, melded, table)
                         /\ table' = EmitArrangement(cands, sel, rack, table)
                         /\ ValidTurn(rack, melded, table, table')
                         /\ rack' = rack \ RowTiles(table') /\ melded' = TRUE
<1> DEFINE cands == SortedCandidates(rack, melded, table)
<1>1. LegalTable(rack, table) /\ melded \in BOOLEAN
  BY DEF TableInv
<1>2. PICK p \in Proposals(cands, rack, melded, table, MaxNodes) :
        /\ ValidTurn(rack, melded, table, p)
        /\ table' = p /\ rack' = rack \ RowTiles(p) /\ melded' = TRUE
  BY DEF BotCommits, Candidates
<1>3. PICK sel : /\ Selected(cands, sel, rack, melded, table)
                 /\ p = EmitArrangement(cands, sel, rack, table)
  BY <1>1, ProposalsSelected
<1> HIDE DEF cands
<1>. QED  BY <1>2, <1>3

\* It holds of the empty table.
LEMMA TableInit == Init => TableInv
<1> SUFFICES ASSUME Init  PROVE TableInv
  OBVIOUS
<1>1. table = <<>> /\ rack = {} /\ melded \in BOOLEAN
  BY DEF Init
<1>2. table \in Seq(Seq(Catalog)) /\ 1 .. Len(table) = {}
  BY <1>1
<1>. QED  BY <1>1, <1>2 DEF TableInv, LegalTable

\* Tiles come from elsewhere, rows that are laid are sets, and what the
\* computer plays passed validateTurn and leaves its rack.
LEMMA TableStep == TableInv /\ [Next]_vars => TableInv'
<1> SUFFICES ASSUME TableInv, [Next]_vars  PROVE TableInv'
  OBVIOUS
<1>1. /\ rack \in SUBSET Catalog /\ table \in Seq(Seq(Catalog)) /\ Len(table) \in Nat
      /\ \A k \in 1 .. Len(table) : ValidSet(table[k]) /\ ToSet(table[k]) \cap rack = {}
      /\ \A k, l \in 1 .. Len(table) : k # l => ToSet(table[k]) \cap ToSet(table[l]) = {}
      /\ melded \in BOOLEAN
  <2>1. LegalTable(rack, table) /\ melded \in BOOLEAN
    BY DEF TableInv
  <2>2. \A k, l \in 1 .. Len(table) : k # l => ToSet(table[k]) \cap ToSet(table[l]) = {}
    BY <2>1 DEF LegalTable
  <2>3. \A k \in 1 .. Len(table) : ValidSet(table[k]) /\ ToSet(table[k]) \cap rack = {}
    BY <2>1 DEF LegalTable
  <2>4. rack \in SUBSET Catalog /\ table \in Seq(Seq(Catalog))
    BY <2>1 DEF LegalTable
  <2>5. Len(table) \in Nat
    BY <2>4
  <2>6. melded \in BOOLEAN
    BY <2>1
  <2>. QED  BY <2>2, <2>3, <2>4, <2>5, <2>6
<1>2. \A k \in 1 .. Len(table) : ToSet(table[k]) \subseteq RowTiles(table)
  BY DEF RowTiles
<1>3. CASE UNCHANGED vars
  <2>1. rack' = rack /\ table' = table /\ melded' = melded
    BY <1>3 DEF vars
  <2>. QED  BY <1>1, <2>1 DEF TableInv, LegalTable
<1>4. ASSUME NEW t \in Deck, TakeTile(t)  PROVE TableInv'
  <2>1. rack' = rack \cup {t} /\ table' = table /\ melded' = melded /\ t \notin RowTiles(table)
    BY <1>4 DEF TakeTile
  <2>2. t \in Catalog
    BY TableAssumption
  <2>3. rack' \in SUBSET Catalog
    BY <1>1, <2>1, <2>2
  <2>4. \A k \in 1 .. Len(table) : ToSet(table[k]) \cap rack' = {}
    BY <1>1, <1>2, <2>1
  <2>. QED  BY <1>1, <2>1, <2>3, <2>4 DEF TableInv, LegalTable
<1>5. ASSUME NEW r \in HumanRows, HumanLays(r)  PROVE TableInv'
  <2>1. /\ table' = Append(table, r) /\ rack' = rack /\ melded' = melded
        /\ ToSet(r) \cap rack = {} /\ ToSet(r) \cap RowTiles(table) = {}
    BY <1>5 DEF HumanLays
  <2>2. r \in Seq(Catalog) /\ ValidSet(r)
    BY TableAssumption
  <2> DEFINE T == Seq(Catalog)
  <2>3. /\ table' \in Seq(T) /\ Len(table') = Len(table) + 1 /\ table'[Len(table) + 1] = r
        /\ \A k \in 1 .. Len(table) : table'[k] = table[k]
    <3>1. table \in Seq(T) /\ r \in T
      BY <1>1, <2>2
    <3> HIDE DEF T
    <3>. QED  BY <2>1, <3>1
  <2>4. \A k \in 1 .. Len(table') : k \in 1 .. Len(table) \/ k = Len(table) + 1
    BY <1>1, <2>3
  <2>5. \A k \in 1 .. Len(table') : ValidSet(table'[k]) /\ ToSet(table'[k]) \cap rack' = {}
    BY <1>1, <2>1, <2>2, <2>3, <2>4
  <2>6. \A k \in 1 .. Len(table) : ToSet(table[k]) \cap ToSet(r) = {}
    BY <1>2, <2>1
  <2>7. \A k, l \in 1 .. Len(table') : k # l => ToSet(table'[k]) \cap ToSet(table'[l]) = {}
    BY <1>1, <2>3, <2>4, <2>6
  <2>. QED  BY <1>1, <2>1, <2>3, <2>5, <2>7 DEF TableInv, LegalTable
<1>6. CASE BotCommits
  <2>1. PICK cands, sel : /\ Selected(cands, sel, rack, melded, table)
                          /\ table' = EmitArrangement(cands, sel, rack, table)
                          /\ ValidTurn(rack, melded, table, table')
                          /\ rack' = rack \ RowTiles(table') /\ melded' = TRUE
    BY <1>6, CommitArranges
  <2>2. table' \in Seq(Seq(Catalog))
    BY <2>1, Arranged DEF TableInv
  <2>3. /\ \A k \in 1 .. Len(table') : ValidSet(table'[k])
        /\ \A k, l \in 1 .. Len(table') : k # l => ToSet(table'[k]) \cap ToSet(table'[l]) = {}
    BY <2>1 DEF ValidTurn
  <2>4. \A k \in 1 .. Len(table') : ToSet(table'[k]) \subseteq RowTiles(table')
    BY DEF RowTiles
  <2>5. rack' \in SUBSET Catalog /\ \A k \in 1 .. Len(table') : ToSet(table'[k]) \cap rack' = {}
    BY <1>1, <2>1, <2>4
  <2>. QED  BY <2>1, <2>2, <2>3, <2>5 DEF TableInv, LegalTable
<1>. QED  BY <1>3, <1>4, <1>5, <1>6 DEF Next

\* The rack and the table remain what they should be.
THEOREM TableSound == Spec => []TableInv
<1>. QED  BY TableInit, TableStep, PTL DEF Spec

\* Whatever the search hands over, with any budget, passes validateTurn.
THEOREM ProposalsLegalAlways == Spec => []ProposalsLegal
<1>. QED  BY TableSound, LegalFromTable, PTL

\* A row stays in one piece, and all of its tiles keep their meaning.
KeepsMeaning(old, r) ==
  \E shift \in 0 .. Len(r) - Len(old) :
    \A i \in 1 .. Len(old) :
      /\ r[i + shift] = old[i]
      /\ Represents(r, i + shift) = Represents(old, i)

\* A row that stays as it is keeps its meaning.
LEMMA UnchangedKeeps ==
  ASSUME NEW r \in Seq(Catalog)
  PROVE  KeepsMeaning(r, r)
<1>1. 0 \in 0 .. Len(r) - Len(r)
  OBVIOUS
<1>2. \A i \in 1 .. Len(r) : i + 0 = i
  OBVIOUS
<1>. QED  BY <1>1, <1>2 DEF KeepsMeaning

\* Numbered tiles mean themselves wherever they are.
LEMMA CarriedOnKeeps ==
  ASSUME NEW old \in Seq(NumberedTile), NEW r \in Seq(NumberedTile), CarriesOnRow(old, r)
  PROVE  KeepsMeaning(old, r)
<1>1. PICK shift \in 0 .. Len(r) - Len(old) : \A i \in 1 .. Len(old) : r[i + shift] = old[i]
  BY DEF CarriesOnRow
<1>2. Len(r) \in Nat /\ Len(old) \in Nat
  OBVIOUS
<1>3. \A s \in Seq(NumberedTile) : \A i \in 1 .. Len(s) :
        Represents(s, i) = [color |-> s[i].color, value |-> s[i].value]
  <2> SUFFICES ASSUME NEW s \in Seq(NumberedTile), NEW i \in 1 .. Len(s)
               PROVE  Represents(s, i) = [color |-> s[i].color, value |-> s[i].value]
    OBVIOUS
  <2>1. i \in Anchors(s)
    BY DEF Anchors, NumberedTile
  <2>. QED  BY <2>1 DEF Represents
<1>4. \A i \in 1 .. Len(old) : i + shift \in 1 .. Len(r)
  BY <1>2
<1>5. \A i \in 1 .. Len(old) : Represents(r, i + shift) = Represents(old, i)
  BY <1>1, <1>3, <1>4
<1>. QED  BY <1>1, <1>5 DEF KeepsMeaning

\* Whatever the step, no row of the table changes its meaning.
LEMMA MeaningStep ==
  ASSUME TableInv, [Next]_vars, NEW k \in 1 .. Len(table)
  PROVE  k \in 1 .. Len(table') /\ KeepsMeaning(table[k], table'[k])
<1>1. table \in Seq(Seq(Catalog)) /\ Len(table) \in Nat /\ table[k] \in Seq(Catalog)
  BY DEF TableInv, LegalTable
<1>2. KeepsMeaning(table[k], table[k])
  BY <1>1, UnchangedKeeps
<1>3. CASE table' = table
  BY <1>2, <1>3
<1>4. ASSUME NEW r \in HumanRows, HumanLays(r)
      PROVE  k \in 1 .. Len(table') /\ KeepsMeaning(table[k], table'[k])
  <2> DEFINE T == Seq(Catalog)
  <2>1. table \in Seq(T) /\ r \in T /\ table' = Append(table, r)
    BY <1>1, <1>4, TableAssumption DEF HumanLays
  <2> HIDE DEF T
  <2>2. k \in 1 .. Len(table') /\ table'[k] = table[k]
    BY <2>1
  <2>. QED  BY <1>2, <2>2
<1>5. CASE BotCommits
  <2>1. PICK cands, sel : /\ Selected(cands, sel, rack, melded, table)
                          /\ table' = EmitArrangement(cands, sel, rack, table)
    BY <1>5, CommitArranges
  <2>2. LegalTable(rack, table) /\ melded \in BOOLEAN
    BY DEF TableInv
  <2>3. k \in 1 .. Len(table') /\ table'[k] = KeptRow(cands, sel, table, k)
    <3>1. /\ Len(table) \in Nat /\ Len(Laid(cands, sel)) \in Nat
          /\ Len(table') = Len(table) + Len(Laid(cands, sel))
          /\ table'[k] = KeptRow(cands, sel, table, k)
      BY <2>1, <2>2, Arranged
    <3>. QED  BY <3>1
  <2>4. \/ table'[k] = table[k]
        \/ \E i \in sel : /\ cands[i].target = k /\ Extending(cands[i], rack, table)
                          /\ table'[k] = cands[i].layout
    BY <2>1, <2>2, <2>3, KeptRows
  <2>5. ASSUME NEW i \in sel, cands[i].target = k, Extending(cands[i], rack, table),
               table'[k] = cands[i].layout
        PROVE  KeepsMeaning(table[k], table'[k])
    <3>1. /\ table[k] \in Seq(NumberedTile) /\ cands[i].layout \in Seq(NumberedTile)
          /\ CarriesOnRow(table[k], cands[i].layout)
      BY <2>5 DEF Extending
    <3>. QED  BY <2>5, <3>1, CarriedOnKeeps
  <2>. QED  BY <1>2, <2>3, <2>4, <2>5
<1>6. CASE UNCHANGED vars
  BY <1>3, <1>6 DEF vars
<1>7. ASSUME NEW t \in Deck, TakeTile(t)  PROVE table' = table
  BY <1>7 DEF TakeTile
<1>. QED  BY <1>3, <1>4, <1>5, <1>6, <1>7 DEF Next

\* A set of the table stays in one piece and none of its jokers comes to mean
\* another tile.
THEOREM JokersKeepTheirMeaningAlways == Spec => JokersKeepTheirMeaning
<1> DEFINE Kept == \A k \in 1 .. Len(table) :
              /\ k \in 1 .. Len(table')
              /\ \E shift \in 0 .. Len(table'[k]) - Len(table[k]) :
                   \A i \in 1 .. Len(table[k]) :
                     /\ table'[k][i + shift] = table[k][i]
                     /\ Represents(table'[k], i + shift) = Represents(table[k], i)
<1>1. TableInv /\ [Next]_vars => Kept
  BY MeaningStep DEF KeepsMeaning
<1>2. TableInv /\ [Next]_vars => [Kept]_vars
  BY <1>1
<1>. QED  BY <1>2, TableSound, PTL DEF Spec, JokersKeepTheirMeaning

-----------------------------------------------------------------------------
(* What the search leaves out *)

\* A sum over two sets that have nothing in common.
LEMMA SumApart ==
  ASSUME NEW v, NEW A, NEW B, IsFiniteSet(A), IsFiniteSet(B), A \cap B = {},
         \A x \in A \cup B : v[x] \in Int
  PROVE  SumFunctionOnSet(v, A \cup B) = SumFunctionOnSet(v, A) + SumFunctionOnSet(v, B)
<1> DEFINE Sum(s) == SumFunctionOnSet(v, s)
           Q == {s \in SUBSET B : Sum(A \cup s) # Sum(A) + Sum(s)}
<1>1. SUFFICES ASSUME Q # {}  PROVE FALSE
  OBVIOUS
<1>2. PICK s \in Q : \A t \in Q : t \subseteq s => t = s
  <2>1. Q \in SUBSET (SUBSET B)
    OBVIOUS
  <2> HIDE DEF Q
  <2>. QED  BY <1>1, <2>1, SmallestSubset
<1>3. s \in SUBSET B /\ Sum(A \cup s) # Sum(A) + Sum(s)
  OBVIOUS
<1>4. Sum(A) \in Int
  BY SumType
<1>5. s # {}
  <2> SUFFICES ASSUME s = {}  PROVE FALSE
    OBVIOUS
  <2>1. Sum(s) = 0 /\ A \cup s = A
    BY SumOfNothing
  <2>2. Sum(A \cup s) = Sum(A)
    BY <2>1
  <2> HIDE DEF Sum
  <2>. QED  BY <1>3, <1>4, <2>1, <2>2
<1>6. PICK y \in s : TRUE
  BY <1>5
<1> DEFINE r == s \ {y}
<1>7. r \in SUBSET B /\ r \notin Q /\ Sum(A \cup r) = Sum(A) + Sum(r)
  BY <1>2, <1>3, <1>6
<1>8. /\ s = r \cup {y} /\ A \cup s = (A \cup r) \cup {y} /\ y \notin r /\ y \notin A \cup r
      /\ IsFiniteSet(r) /\ IsFiniteSet(A \cup r)
  BY <1>3, <1>6, FS_Subset, FS_Union
<1>9. (\A x \in r \cup {y} : v[x] \in Int) /\ (\A x \in (A \cup r) \cup {y} : v[x] \in Int)
  BY <1>3, <1>6
<1> HIDE DEF r
<1>10. Sum(s) = Sum(r) + v[y]
  BY <1>8, <1>9, SumGrows
<1>11. Sum(A \cup s) = Sum(A \cup r) + v[y]
  BY <1>8, <1>9, SumGrows
<1>12. Sum(r) \in Int /\ v[y] \in Int
  BY <1>8, <1>9, SumType
<1> HIDE DEF Sum, Q
<1>. QED  BY <1>3, <1>4, <1>7, <1>10, <1>11, <1>12

\* The tiles of a selection, and of one with one more candidate, add up.
LEMMA TilesCounted ==
  ASSUME NEW cands, Counted(cands), NEW sel \in SUBSET DOMAIN cands
  PROVE  /\ TilesPlayed(cands, sel) \in Nat
         /\ \A i \in DOMAIN cands \ sel :
              TilesPlayed(cands, sel \cup {i}) = TilesPlayed(cands, sel) + cands[i].tilesPlayed
<1> DEFINE v == [i \in DOMAIN cands |-> cands[i].tilesPlayed]
<1>1. IsFiniteSet(sel)
  BY WorthCounted
<1>2. \A i \in DOMAIN cands : v[i] = cands[i].tilesPlayed /\ v[i] \in Int /\ v[i] >= 0
  BY DEF Counted
<1>3. \A s : TilesPlayed(cands, s) = SumFunctionOnSet(v, s)
  BY DEF TilesPlayed
<1> HIDE DEF v
<1>4. SumFunctionOnSet(v, sel) \in Int /\ SumFunctionOnSet(v, sel) >= 0
  <2>1. \A i \in sel : v[i] \in Int /\ v[i] >= 0
    BY <1>2
  <2>. QED  BY <1>1, <2>1, SumType
<1>5. ASSUME NEW i \in DOMAIN cands \ sel
      PROVE  SumFunctionOnSet(v, sel \cup {i}) = SumFunctionOnSet(v, sel) + v[i]
  <2>1. \A x \in sel \cup {i} : v[x] \in Int
    BY <1>2
  <2>. QED  BY <1>1, <1>5, <2>1, SumGrows
<1>. QED  BY <1>2, <1>3, <1>4, <1>5

\* So do the tiles of two that have no candidate in common.
LEMMA TilesAdd ==
  ASSUME NEW cands, Counted(cands), NEW sel \in SUBSET DOMAIN cands,
         NEW more \in SUBSET DOMAIN cands, sel \cap more = {}
  PROVE  TilesPlayed(cands, sel \cup more) = TilesPlayed(cands, sel) + TilesPlayed(cands, more)
<1> DEFINE v == [i \in DOMAIN cands |-> cands[i].tilesPlayed]
<1>1. IsFiniteSet(sel) /\ IsFiniteSet(more)
  BY WorthCounted
<1>2. \A i \in sel \cup more : v[i] \in Int
  BY DEF Counted
<1>3. \A s : TilesPlayed(cands, s) = SumFunctionOnSet(v, s)
  BY DEF TilesPlayed
<1> HIDE DEF v
<1>. QED  BY <1>1, <1>2, <1>3, SumApart

\* A part of a selection plays no more tiles and uses no more jokers.
LEMMA PartsCounted ==
  ASSUME NEW cands, Counted(cands), NEW sel \in SUBSET DOMAIN cands, NEW part \in SUBSET sel
  PROVE  /\ TilesPlayed(cands, part) <= TilesPlayed(cands, sel)
         /\ JokersUsed(cands, part) <= JokersUsed(cands, sel)
<1> DEFINE v == [i \in DOMAIN cands |-> cands[i].tilesPlayed]
           u == [i \in DOMAIN cands |-> cands[i].jokersUsed]
<1>1. IsFiniteSet(sel)
  BY WorthCounted
<1>2. \A i \in sel : v[i] \in Int /\ v[i] >= 0 /\ u[i] \in Int /\ u[i] >= 0
  BY DEF Counted
<1>3. \A s : /\ TilesPlayed(cands, s) = SumFunctionOnSet(v, s)
             /\ JokersUsed(cands, s) = SumFunctionOnSet(u, s)
  BY DEF TilesPlayed, JokersUsed
<1> HIDE DEF v, u
<1>4. SumFunctionOnSet(v, part) <= SumFunctionOnSet(v, sel)
  BY <1>1, <1>2, SumMonotone
<1>5. SumFunctionOnSet(u, part) <= SumFunctionOnSet(u, sel)
  BY <1>1, <1>2, SumMonotone
<1>. QED  BY <1>3, <1>4, <1>5

\* How selections rank is a strict order, with ties.
LEMMA Ranked ==
  ASSUME NEW cands, Counted(cands), NEW a \in SUBSET DOMAIN cands,
         NEW b \in SUBSET DOMAIN cands, NEW c \in SUBSET DOMAIN cands
  PROVE  /\ ~ Better(cands, a, a)
         /\ Better(cands, a, b) => /\ ~ Better(cands, b, a)
                                   /\ TilesPlayed(cands, b) <= TilesPlayed(cands, a)
         /\ Better(cands, a, b) /\ Better(cands, b, c) => Better(cands, a, c)
<1>1. /\ TilesPlayed(cands, a) \in Nat /\ FaceValuePlayed(cands, a) \in Int
      /\ TilesPlayed(cands, b) \in Nat /\ FaceValuePlayed(cands, b) \in Int
      /\ TilesPlayed(cands, c) \in Nat /\ FaceValuePlayed(cands, c) \in Int
  BY TilesCounted, WorthCounted
<1>. QED  BY <1>1 DEF Better

\* Selection sel is no loss: one of the best found wins or ranks as high.
Covers(cands, hand, best, sel) ==
  \E b \in best : TilesPlayed(cands, b) >= Cardinality(hand) \/ ~ Better(cands, sel, b)

\* From one state of the search to a later one nothing is lost again.
Further(cands, hand, found, later) ==
  /\ later \in Found(cands)
  /\ found.budgetExceeded => later.budgetExceeded
  /\ \A s \in SUBSET DOMAIN cands : Covers(cands, hand, found.best, s)
                                      => Covers(cands, hand, later.best, s)

\* Within the budget nothing is lost that goes on from `sel` with candidates
\* from i on.
Explored(cands, hand, opened, sel, i, found) ==
  ~ found.budgetExceeded =>
    \A more \in SUBSET (i .. Len(cands)) :
      more # {} /\ Playing(cands, hand, opened, sel \cup more)
        => Covers(cands, hand, found.best, sel \cup more)

\* A loop over the candidates after the i-th loses none of theirs.
LoopFull(cands, hand, opened, i, loop) ==
  \A node \in Node(cands) :
    node.sel \subseteq 1 .. i =>
      /\ Further(cands, hand, node.found, loop[node])
      /\ Explored(cands, hand, opened, node.sel, i + 1, loop[node])

\* Getting further is transitive.
LEMMA FurtherOn ==
  ASSUME NEW cands, NEW hand, NEW x, NEW y, NEW z,
         Further(cands, hand, x, y), Further(cands, hand, y, z)
  PROVE  Further(cands, hand, x, z)
<1>. QED  BY DEF Further

\* Considering a selection loses none: neither it nor one considered before.
LEMMA ConsiderCovers ==
  ASSUME NEW cands, Counted(cands), NEW hand, Cardinality(hand) \in Nat,
         NEW opened \in BOOLEAN, NEW best \in SUBSET SUBSET DOMAIN cands,
         NEW sel \in SUBSET DOMAIN cands
  PROVE  LET after == Consider(cands, opened, sel, best)
         IN  /\ \A s \in SUBSET DOMAIN cands :
                  Covers(cands, hand, best, s) => Covers(cands, hand, after, s)
             /\ Playing(cands, hand, opened, sel) => Covers(cands, hand, after, sel)
<1> DEFINE after == Consider(cands, opened, sel, best)
           kept == {b \in best : ~ Better(cands, sel, b)} \cup {sel}
           no == \/ sel = {}
                 \/ ~ opened /\ FaceValuePlayed(cands, sel) < INITIAL_MELD_THRESHOLD
<1>1. after = IF no \/ \E b \in best : Better(cands, b, sel) THEN best ELSE kept
  BY DEF Consider
<1>2. \A s \in SUBSET DOMAIN cands : TilesPlayed(cands, s) \in Nat
  BY TilesCounted
<1>3. ASSUME NEW s \in SUBSET DOMAIN cands, Covers(cands, hand, best, s)
      PROVE  Covers(cands, hand, kept, s)
  <2>1. PICK b \in best : TilesPlayed(cands, b) >= Cardinality(hand) \/ ~ Better(cands, s, b)
    BY <1>3 DEF Covers
  <2>2. CASE ~ Better(cands, sel, b)
    BY <2>1, <2>2 DEF Covers
  <2>3. CASE Better(cands, sel, b)
    <3>1. /\ TilesPlayed(cands, b) <= TilesPlayed(cands, sel)
          /\ Better(cands, s, sel) => Better(cands, s, b)
      BY <2>3, Ranked
    <3>2. TilesPlayed(cands, sel) >= Cardinality(hand) \/ ~ Better(cands, s, sel)
      BY <1>2, <2>1, <3>1
    <3>. QED  BY <3>2 DEF Covers
  <2>. QED  BY <2>2, <2>3
<1>4. ASSUME Playing(cands, hand, opened, sel)  PROVE Covers(cands, hand, after, sel)
  <2>1. ~ no
    <3>1. FaceValuePlayed(cands, sel) \in Int
      BY WorthCounted
    <3>. QED  BY <1>4, <3>1 DEF Playing, INITIAL_MELD_THRESHOLD
  <2> HIDE DEF no
  <2>2. CASE \E b \in best : Better(cands, b, sel)
    <3>1. PICK b \in best : Better(cands, b, sel)
      BY <2>2
    <3>2. ~ Better(cands, sel, b) /\ after = best
      BY <1>1, <3>1, Ranked
    <3> HIDE DEF after
    <3>. QED  BY <3>2 DEF Covers
  <2>3. CASE ~ \E b \in best : Better(cands, b, sel)
    <3>1. after = kept /\ sel \in kept /\ ~ Better(cands, sel, sel)
      BY <1>1, <2>1, <2>3, Ranked
    <3> HIDE DEF after, kept
    <3>. QED  BY <3>1 DEF Covers
  <2>. QED  BY <2>2, <2>3
<1> HIDE DEF no, kept
<1>5. \A s \in SUBSET DOMAIN cands :
        Covers(cands, hand, best, s) => Covers(cands, hand, after, s)
  BY <1>1, <1>3
<1>. QED  BY <1>4, <1>5

\* A call of dfs counts and considers its selection.
LEMMA VisitFull ==
  ASSUME NEW cands, Counted(cands), NEW hand, Cardinality(hand) \in Nat,
         NEW opened \in BOOLEAN, NEW maxNodes, NEW sel \in SUBSET DOMAIN cands,
         NEW found \in Found(cands)
  PROVE  LET seen == Visit(cands, opened, maxNodes, sel, found)
         IN  /\ Further(cands, hand, found, seen)
             /\ ~ seen.budgetExceeded /\ Playing(cands, hand, opened, sel)
                  => Covers(cands, hand, seen.best, sel)
<1> DEFINE seen == Visit(cands, opened, maxNodes, sel, found)
           best == Consider(cands, opened, sel, found.best)
<1>1. /\ found = [best |-> found.best, nodes |-> found.nodes,
                  budgetExceeded |-> found.budgetExceeded]
      /\ found.best \in SUBSET SUBSET DOMAIN cands /\ found.nodes \in Nat
      /\ found.budgetExceeded \in BOOLEAN
  BY DEF Found
<1>2. best \in SUBSET SUBSET DOMAIN cands
  BY <1>1 DEF Consider
<1>3. /\ \A s \in SUBSET DOMAIN cands :
           Covers(cands, hand, found.best, s) => Covers(cands, hand, best, s)
      /\ Playing(cands, hand, opened, sel) => Covers(cands, hand, best, sel)
  BY <1>1, ConsiderCovers
<1>4. \/ found.budgetExceeded /\ seen = found
      \/ seen = [best |-> found.best, nodes |-> found.nodes + 1, budgetExceeded |-> TRUE]
      \/ seen = [best |-> best, nodes |-> found.nodes + 1, budgetExceeded |-> found.budgetExceeded]
  BY <1>1 DEF Visit
<1> HIDE DEF best, seen
<1>5. CASE found.budgetExceeded /\ seen = found
  BY <1>5 DEF Further, seen
<1>6. CASE seen = [best |-> found.best, nodes |-> found.nodes + 1, budgetExceeded |-> TRUE]
  <2>1. seen \in Found(cands)
    BY <1>1, <1>6 DEF Found
  <2>2. seen.best = found.best /\ seen.budgetExceeded
    BY <1>6
  <2>. QED  BY <2>1, <2>2 DEF Further, seen
<1>7. CASE seen = [best |-> best, nodes |-> found.nodes + 1,
                   budgetExceeded |-> found.budgetExceeded]
  <2>1. seen \in Found(cands)
    BY <1>1, <1>2, <1>7 DEF Found
  <2>2. seen.best = best /\ seen.budgetExceeded = found.budgetExceeded
    BY <1>7
  <2>. QED  BY <1>3, <2>1, <2>2 DEF Further, seen
<1>. QED  BY <1>4, <1>5, <1>6, <1>7

\* A win covers everything, so dfs may stop at one.
LEMMA DfsFull ==
  ASSUME NEW cands, Counted(cands), NEW hand, Cardinality(hand) \in Nat,
         NEW opened \in BOOLEAN, NEW maxNodes, NEW sel \in SUBSET DOMAIN cands,
         NEW found \in Found(cands), NEW i \in Nat, sel \subseteq 1 .. i,
         NEW loop, LoopFull(cands, hand, opened, i, loop)
  PROVE  LET later == Dfs(cands, hand, opened, maxNodes, sel, found, loop)
         IN  /\ Further(cands, hand, found, later)
             /\ ~ later.budgetExceeded /\ Playing(cands, hand, opened, sel)
                  => Covers(cands, hand, later.best, sel)
             /\ Explored(cands, hand, opened, sel, i + 1, later)
<1> DEFINE later == Dfs(cands, hand, opened, maxNodes, sel, found, loop)
           seen == Visit(cands, opened, maxNodes, sel, found)
           node == [sel |-> sel, found |-> seen]
<1>1. /\ Further(cands, hand, found, seen)
      /\ ~ seen.budgetExceeded /\ Playing(cands, hand, opened, sel)
           => Covers(cands, hand, seen.best, sel)
  BY VisitFull
<1>2. later = IF Wins(cands, hand, seen.best) THEN seen ELSE loop[node]
  BY DEF Dfs
<1> HIDE DEF seen, later
<1>3. seen \in Found(cands)
  BY <1>1 DEF Further
<1>4. CASE Wins(cands, hand, seen.best)
  <2>1. later = seen
    BY <1>2, <1>4
  <2>2. PICK b \in seen.best : TilesPlayed(cands, b) = Cardinality(hand)
    BY <1>4 DEF Wins
  <2>3. TilesPlayed(cands, b) >= Cardinality(hand)
    BY <2>2
  <2>4. \A s : Covers(cands, hand, seen.best, s)
    BY <2>3 DEF Covers
  <2>. QED  BY <1>1, <2>1, <2>4 DEF Explored, later
<1>5. CASE ~ Wins(cands, hand, seen.best)
  <2>1. node \in Node(cands) /\ node.sel = sel /\ node.found = seen
    BY <1>3 DEF Node
  <2>2. later = loop[node]
    BY <1>2, <1>5
  <2> HIDE DEF node
  <2>3. /\ Further(cands, hand, seen, later)
        /\ Explored(cands, hand, opened, sel, i + 1, later)
    BY <2>1, <2>2 DEF LoopFull
  <2>4. Further(cands, hand, found, later)
    BY <1>1, <2>3, FurtherOn
  <2>5. ~ later.budgetExceeded /\ Playing(cands, hand, opened, sel)
          => Covers(cands, hand, later.best, sel)
    BY <1>1, <2>3 DEF Further
  <2>. QED  BY <2>3, <2>4, <2>5 DEF later
<1>. QED  BY <1>4, <1>5

\* A candidate of a selection that may be played fits the part of it before.
LEMMA PartsFit ==
  ASSUME NEW cands, Counted(cands), NEW hand, Cardinality(RackJokers(hand)) \in Nat,
         NEW sel \in SUBSET DOMAIN cands, NEW all, sel \subseteq all,
         Compatible(cands, hand, all), NEW i \in all \ sel
  PROVE  Fits(cands, hand, sel, i)
<1>1. all \in SUBSET DOMAIN cands /\ JokersUsed(cands, all) <= Cardinality(RackJokers(hand))
  BY DEF Compatible
<1>2. /\ JokersUsed(cands, sel \cup {i}) = JokersUsed(cands, sel) + cands[i].jokersUsed
      /\ JokersUsed(cands, sel \cup {i}) \in Nat /\ JokersUsed(cands, all) \in Nat
  BY <1>1, JokersGrow
<1>3. JokersUsed(cands, sel \cup {i}) <= JokersUsed(cands, all)
  <2>1. sel \cup {i} \in SUBSET all
    OBVIOUS
  <2>. QED  BY <1>1, <2>1, PartsCounted
<1>4. JokersUsed(cands, sel) + cands[i].jokersUsed <= Cardinality(RackJokers(hand))
  BY <1>1, <1>2, <1>3
<1>5. \A j \in sel : /\ cands[i].target = 0 \/ cands[j].target # cands[i].target
                     /\ cands[j].used \cap cands[i].used = {}
  BY DEF Compatible
<1>. QED  BY <1>4, <1>5 DEF Fits

\* What is out of reach can be left out.
LEMMA OutOfReachCovered ==
  ASSUME NEW cands, Counted(cands), NEW hand, NEW sel \in SUBSET DOMAIN cands,
         NEW best \in SUBSET SUBSET DOMAIN cands, NEW i \in DOMAIN cands,
         sel \subseteq 1 .. i - 1, OutOfReach(cands, sel, best, i),
         NEW more \in SUBSET (i .. Len(cands))
  PROVE  Covers(cands, hand, best, sel \cup more)
<1>1. /\ Len(cands) \in Nat /\ DOMAIN cands = 1 .. Len(cands) /\ i \in Nat \ {0}
      /\ (i .. Len(cands)) \in SUBSET DOMAIN cands
  BY DEF Counted
<1>2. PICK b \in best :
        TilesPlayed(cands, sel) + TilesPlayed(cands, i .. Len(cands)) < TilesPlayed(cands, b)
  BY DEF OutOfReach
<1>3. TilesPlayed(cands, more) <= TilesPlayed(cands, i .. Len(cands))
  BY <1>1, PartsCounted
<1>4. TilesPlayed(cands, sel \cup more) = TilesPlayed(cands, sel) + TilesPlayed(cands, more)
  <2>1. more \in SUBSET DOMAIN cands /\ sel \cap more = {}
    BY <1>1
  <2>. QED  BY <2>1, TilesAdd
<1>5. /\ TilesPlayed(cands, sel) \in Nat /\ TilesPlayed(cands, more) \in Nat
      /\ TilesPlayed(cands, i .. Len(cands)) \in Nat /\ TilesPlayed(cands, b) \in Nat
  BY <1>1, TilesCounted
<1>6. ~ Better(cands, sel \cup more, b)
  BY <1>2, <1>3, <1>4, <1>5 DEF Better
<1>. QED  BY <1>6 DEF Covers

\* The loop with one more candidate loses none of its selections either.
LEMMA BranchFull ==
  ASSUME NEW cands, Counted(cands), NEW hand, Cardinality(hand) \in Nat,
         Cardinality(RackJokers(hand)) \in Nat,
         NEW opened \in BOOLEAN, NEW maxNodes,
         NEW i \in DOMAIN cands, NEW loop, LoopFull(cands, hand, opened, i, loop)
  PROVE  LoopFull(cands, hand, opened, i - 1, Branch(cands, hand, opened, maxNodes, i, loop))
<1> DEFINE result(node) == Branch(cands, hand, opened, maxNodes, i, loop)[node]
<1>1. /\ Len(cands) \in Nat /\ DOMAIN cands = 1 .. Len(cands) /\ i \in Nat \ {0}
      /\ (i - 1) + 1 = i
  BY DEF Counted
<1>2. SUFFICES ASSUME NEW node \in Node(cands), node.sel \subseteq 1 .. i - 1
               PROVE  /\ Further(cands, hand, node.found, result(node))
                      /\ Explored(cands, hand, opened, node.sel, i, result(node))
  BY <1>1 DEF LoopFull
<1> DEFINE sel == node.sel
           found == node.found
           after == IF Fits(cands, hand, sel, i)
                    THEN Dfs(cands, hand, opened, maxNodes, sel \cup {i}, found, loop)
                    ELSE found
           next == [sel |-> sel, found |-> after]
<1>3. node = [sel |-> sel, found |-> found] /\ sel \in SUBSET DOMAIN cands /\ found \in Found(cands)
  BY DEF Node
<1>4. result(node) = IF found.budgetExceeded \/ OutOfReach(cands, sel, found.best, i)
                     THEN found ELSE loop[[node EXCEPT !.found = after]]
  BY DEF Branch
<1>5. [node EXCEPT !.found = after] = next
  BY <1>3
<1> DEFINE later == result(node)
<1>6. later = IF found.budgetExceeded \/ OutOfReach(cands, sel, found.best, i)
              THEN found ELSE loop[next]
  BY <1>4, <1>5
<1>7. sel \subseteq 1 .. i - 1 /\ i \notin sel
  BY <1>1, <1>2
<1> HIDE DEF result, later
<1> SUFFICES /\ Further(cands, hand, found, later)
             /\ Explored(cands, hand, opened, sel, i, later)
  BY DEF later
<1> HIDE DEF sel, found, after
<1>8. Further(cands, hand, found, found)
  BY <1>3 DEF Further
<1>9. CASE found.budgetExceeded
  BY <1>6, <1>8, <1>9 DEF Explored
<1>10. CASE ~ found.budgetExceeded /\ OutOfReach(cands, sel, found.best, i)
  <2>1. later = found /\ found.best \in SUBSET SUBSET DOMAIN cands
    BY <1>3, <1>6, <1>10 DEF Found
  <2>2. \A more \in SUBSET (i .. Len(cands)) : Covers(cands, hand, found.best, sel \cup more)
    BY <1>3, <1>7, <1>10, <2>1, OutOfReachCovered
  <2>. QED  BY <1>8, <2>1, <2>2 DEF Explored
<1>11. CASE ~ found.budgetExceeded /\ ~ OutOfReach(cands, sel, found.best, i)
  <2>1. later = loop[next]
    BY <1>6, <1>11
  <2>2. Fits(cands, hand, sel, i) =>
          /\ Further(cands, hand, found, after)
          /\ ~ after.budgetExceeded /\ Playing(cands, hand, opened, sel \cup {i})
               => Covers(cands, hand, after.best, sel \cup {i})
          /\ Explored(cands, hand, opened, sel \cup {i}, i + 1, after)
    <3> SUFFICES ASSUME Fits(cands, hand, sel, i)
                 PROVE  /\ Further(cands, hand, found, after)
                        /\ ~ after.budgetExceeded /\ Playing(cands, hand, opened, sel \cup {i})
                             => Covers(cands, hand, after.best, sel \cup {i})
                        /\ Explored(cands, hand, opened, sel \cup {i}, i + 1, after)
      OBVIOUS
    <3> DEFINE with == sel \cup {i}
    <3>1. with \in SUBSET DOMAIN cands /\ with \subseteq 1 .. i /\ i \in Nat
      BY <1>1, <1>3, <1>7
    <3>2. after = Dfs(cands, hand, opened, maxNodes, with, found, loop)
      BY DEF after
    <3> HIDE DEF with
    <3>3. /\ Further(cands, hand, found, after)
          /\ ~ after.budgetExceeded /\ Playing(cands, hand, opened, with)
               => Covers(cands, hand, after.best, with)
          /\ Explored(cands, hand, opened, with, i + 1, after)
      BY <1>3, <3>1, <3>2, DfsFull
    <3>. QED  BY <3>3 DEF with
  <2>3. Further(cands, hand, found, after)
    BY <1>8, <2>2 DEF after
  <2>4. next \in Node(cands) /\ next.sel = sel /\ next.found = after
    BY <1>3, <2>3 DEF Node, Further
  <2>5. sel \subseteq 1 .. i
    BY <1>1, <1>7
  <2>6. /\ Further(cands, hand, after, later)
        /\ Explored(cands, hand, opened, sel, i + 1, later)
    <3> HIDE DEF next
    <3>. QED  BY <2>1, <2>4, <2>5 DEF LoopFull
  <2>7. Further(cands, hand, found, later)
    BY <2>3, <2>6, FurtherOn
  <2>8. ASSUME ~ later.budgetExceeded, NEW more \in SUBSET (i .. Len(cands)), more # {},
               Playing(cands, hand, opened, sel \cup more)
        PROVE  Covers(cands, hand, later.best, sel \cup more)
    <3> DEFINE rest == more \ {i}
               all == sel \cup more
    <3>1. rest \in SUBSET (i + 1 .. Len(cands)) /\ ~ after.budgetExceeded
      <4>1. ~ after.budgetExceeded
        BY <2>6, <2>8 DEF Further
      <4>2. \A x \in i .. Len(cands) : x # i => x \in i + 1 .. Len(cands)
        BY <1>1
      <4>. QED  BY <4>1, <4>2
    <3>2. CASE i \notin more
      <4>1. rest = more
        BY <3>2
      <4>. QED  BY <2>6, <2>8, <3>1, <4>1 DEF Explored
    <3>3. CASE i \in more
      <4>1. Compatible(cands, hand, all) /\ all \in SUBSET DOMAIN cands
        BY <2>8 DEF Playing, Compatible
      <4>2. sel \subseteq all /\ i \in all \ sel /\ all = (sel \cup {i}) \cup rest
        BY <1>7, <3>3
      <4>3. Fits(cands, hand, sel, i)
        <5> HIDE DEF all
        <5>. QED  BY <1>3, <4>1, <4>2, PartsFit
      <4>4. Covers(cands, hand, after.best, all)
        <5>1. CASE rest = {}
          <6>1. all = sel \cup {i} /\ Playing(cands, hand, opened, sel \cup {i})
            BY <2>8, <4>2, <5>1
          <6> HIDE DEF all
          <6>. QED  BY <2>2, <3>1, <4>3, <6>1
        <5>2. CASE rest # {}
          <6>1. Playing(cands, hand, opened, (sel \cup {i}) \cup rest)
            BY <2>8, <4>2
          <6> HIDE DEF all, rest
          <6>. QED  BY <2>2, <3>1, <4>2, <4>3, <5>2, <6>1 DEF Explored
        <5>. QED  BY <5>1, <5>2
      <4> HIDE DEF all
      <4>5. Covers(cands, hand, later.best, all)
        BY <2>6, <4>1, <4>4 DEF Further
      <4>. QED  BY <4>5 DEF all
    <3>. QED  BY <3>2, <3>3
  <2>9. Explored(cands, hand, opened, sel, i, later)
    BY <2>8 DEF Explored
  <2>. QED  BY <2>7, <2>9
<1>. QED  BY <1>9, <1>10, <1>11

\* Each loop does as much.
LEMMA LoopsFull ==
  ASSUME NEW cands, Counted(cands), NEW hand, Cardinality(hand) \in Nat,
         Cardinality(RackJokers(hand)) \in Nat,
         NEW opened \in BOOLEAN, NEW maxNodes, NEW k \in 0 .. Len(cands)
  PROVE  LoopFull(cands, hand, opened, Len(cands) - k, Loops(cands, hand, opened, maxNodes)[k])
<1> DEFINE n == Len(cands)
           last == Loops(cands, hand, opened, maxNodes)
           Q == {m \in 0 .. n : ~ LoopFull(cands, hand, opened, n - m, last[m])}
<1>1. Looping(last, cands, hand, opened, maxNodes, n)
  BY LoopsAre
<1> HIDE DEF last
<1>2. n \in Nat /\ DOMAIN cands = 1 .. n
  BY DEF Counted
<1>3. ASSUME Q # {}  PROVE FALSE
  <2>1. PICK m \in Q : \A x \in Q : m <= x
    <3>1. Q \in SUBSET Nat
      BY <1>2
    <3> HIDE DEF Q
    <3>. QED  BY <1>3, <3>1, LeastNatural
  <2>2. m \in 0 .. n /\ m \in Nat /\ ~ LoopFull(cands, hand, opened, n - m, last[m])
    BY <1>2
  <2>3. CASE m = 0
    <3>1. last[m] = [node \in Node(cands) |-> node.found]
      BY <1>1, <2>2, <2>3 DEF Looping
    <3>2. n - m + 1 .. Len(cands) = {}
      BY <1>2, <2>3
    <3>3. ASSUME NEW node \in Node(cands)
          PROVE  /\ Further(cands, hand, node.found, last[m][node])
                 /\ Explored(cands, hand, opened, node.sel, n - m + 1, last[m][node])
      <4>1. last[m][node] = node.found /\ node.found \in Found(cands)
        BY <3>1 DEF Node
      <4>2. Further(cands, hand, node.found, last[m][node])
        BY <4>1 DEF Further
      <4>3. Explored(cands, hand, opened, node.sel, n - m + 1, last[m][node])
        BY <3>2 DEF Explored
      <4>. QED  BY <4>2, <4>3
    <3>. QED  BY <2>2, <3>3 DEF LoopFull
  <2>4. CASE m # 0
    <3>1. m - 1 \in 0 .. n /\ m - 1 \notin Q
      BY <1>2, <2>1, <2>2, <2>4
    <3>2. LoopFull(cands, hand, opened, n - (m - 1), last[m - 1])
      BY <3>1
    <3> DEFINE i == n - m + 1
    <3>3. i \in DOMAIN cands /\ n - (m - 1) = i /\ n - m = i - 1
      BY <1>2, <2>2, <2>4
    <3>4. last[m] = Branch(cands, hand, opened, maxNodes, i, last[m - 1])
      BY <1>1, <2>2, <2>4 DEF Looping
    <3> HIDE DEF i
    <3>5. LoopFull(cands, hand, opened, i - 1,
                   Branch(cands, hand, opened, maxNodes, i, last[m - 1]))
      BY <3>2, <3>3, BranchFull
    <3>. QED  BY <2>2, <3>3, <3>4, <3>5
  <2>. QED  BY <2>3, <2>4
<1>. QED  BY <1>3 DEF last

\* A search that ends within its budget has lost no selection that may be played.
LEMMA SearchFull ==
  ASSUME NEW cands, Counted(cands), NEW hand, Cardinality(hand) \in Nat,
         Cardinality(RackJokers(hand)) \in Nat,
         NEW opened \in BOOLEAN, NEW maxNodes,
         ~ Search(cands, hand, opened, maxNodes).budgetExceeded,
         NEW sel, Playing(cands, hand, opened, sel)
  PROVE  Covers(cands, hand, Search(cands, hand, opened, maxNodes).best, sel)
<1> DEFINE n == Len(cands)
           none == [best |-> {}, nodes |-> 0, budgetExceeded |-> FALSE]
           loop == Loops(cands, hand, opened, maxNodes)[n]
           later == Search(cands, hand, opened, maxNodes)
<1>1. n \in Nat /\ n \in 0 .. n /\ n - n = 0 /\ DOMAIN cands = 1 .. n
  BY DEF Counted
<1>2. LoopFull(cands, hand, opened, 0, loop)
  <2>1. LoopFull(cands, hand, opened, n - n, loop)
    BY <1>1, LoopsFull
  <2>. QED  BY <1>1, <2>1
<1>3. none \in Found(cands) /\ {} \in SUBSET DOMAIN cands /\ {} \subseteq 1 .. 0 /\ 0 \in Nat
  BY DEF Found
<1>4. later = Dfs(cands, hand, opened, maxNodes, {}, none, loop)
  BY DEF Search
<1> HIDE DEF none, loop
<1>5. Explored(cands, hand, opened, {}, 0 + 1, Dfs(cands, hand, opened, maxNodes, {}, none, loop))
  BY <1>2, <1>3, DfsFull
<1> HIDE DEF later
<1>6. Explored(cands, hand, opened, {}, 1, later)
  BY <1>4, <1>5
<1>7. sel \in SUBSET (1 .. Len(cands)) /\ sel # {} /\ {} \cup sel = sel
  BY <1>1 DEF Playing, Compatible
<1>8. ~ later.budgetExceeded
  BY DEF later
<1>9. Covers(cands, hand, later.best, sel)
  BY <1>6, <1>7, <1>8 DEF Explored
<1>. QED  BY <1>9 DEF later

\* There are finitely many tiles.
LEMMA CatalogFinite == IsFiniteSet(Catalog)
<1> DEFINE faces == (Color \X (MIN_VALUE .. MAX_VALUE)) \X Copy
           tile(f) == [color |-> f[1][1], value |-> f[1][2], copy |-> f[2]]
           joker(k) == [color |-> "joker", value |-> 0, copy |-> k]
           f == [x \in faces |-> tile(x)]
           g == [k \in Copy |-> joker(k)]
<1>1. IsFiniteSet(Color) /\ IsFiniteSet(MIN_VALUE .. MAX_VALUE)
  <2>1. {} \in SUBSET Catalog
    OBVIOUS
  <2>. QED  BY <2>1, FiniteBounds
<1>2. IsFiniteSet(Copy)
  <2>1. Copy = {"a"} \cup {"b"}
    BY DEF Copy
  <2>. QED  BY <2>1, FS_Singleton, FS_Union
<1>3. IsFiniteSet(faces)
  BY <1>1, <1>2, FS_Product
<1>4. IsFiniteSet({f[x] : x \in faces}) /\ IsFiniteSet({g[k] : k \in Copy})
  <2> HIDE DEF faces, f, g
  <2>. QED  BY <1>2, <1>3, FiniteImage
<1>5. Catalog \subseteq {f[x] : x \in faces} \cup {g[k] : k \in Copy}
  <2> SUFFICES ASSUME NEW t \in Catalog
               PROVE  (\E x \in faces : t = f[x]) \/ (\E k \in Copy : t = g[k])
    OBVIOUS
  <2>1. CASE t \in [color : Color, value : MIN_VALUE .. MAX_VALUE, copy : Copy]
    <3> DEFINE x == <<<<t.color, t.value>>, t.copy>>
    <3>1. x \in faces /\ t = [color |-> t.color, value |-> t.value, copy |-> t.copy]
      BY <2>1
    <3>2. t = f[x]
      BY <3>1
    <3>. QED  BY <3>1, <3>2
  <2>2. CASE t \in [color : {"joker"}, value : {0}, copy : Copy]
    <3>1. t.copy \in Copy /\ t = [color |-> "joker", value |-> 0, copy |-> t.copy]
      BY <2>2
    <3>2. t = g[t.copy]
      BY <3>1
    <3>. QED  BY <3>1, <3>2
  <2>. QED  BY <2>1, <2>2 DEF Catalog
<1> HIDE DEF faces, f, g
<1>. QED  BY <1>4, <1>5, FS_Union, FS_Subset

\* Sets that have nothing in common count separately.
LEMMA CardinalityApart ==
  ASSUME NEW A, NEW B, IsFiniteSet(A), IsFiniteSet(B), A \cap B = {}
  PROVE  /\ IsFiniteSet(A \cup B) /\ Cardinality(A) \in Nat /\ Cardinality(B) \in Nat
         /\ Cardinality(A \cup B) = Cardinality(A) + Cardinality(B)
<1>1. /\ IsFiniteSet(A \cup B)
      /\ Cardinality(A \cup B) = Cardinality(A) + Cardinality(B) - Cardinality(A \cap B)
  BY FS_Union
<1>2. Cardinality(A \cap B) = 0
  BY FS_EmptySet
<1>3. Cardinality(A) \in Nat /\ Cardinality(B) \in Nat
  BY FS_CardinalityType
<1>. QED  BY <1>1, <1>2, <1>3

\* What a selection uses of the rack.
UsedTiles(cands, sel) == UNION {cands[i].used : i \in sel}

\* Every tile and every joker it plays is another one.
LEMMA TilesApart ==
  ASSUME NEW cands, Counted(cands), NEW hand \in SUBSET Catalog, NEW opened, NEW rows,
         \A i \in 1 .. Len(cands) : Suits(cands[i], hand, opened, rows),
         NEW sel, Compatible(cands, hand, sel)
  PROVE  /\ IsFiniteSet(UsedTiles(cands, sel))
         /\ TilesPlayed(cands, sel)
              = Cardinality(UsedTiles(cands, sel)) + JokersUsed(cands, sel)
<1> DEFINE Good(s) ==
             /\ IsFiniteSet(UsedTiles(cands, s))
             /\ TilesPlayed(cands, s) = Cardinality(UsedTiles(cands, s)) + JokersUsed(cands, s)
           Q == {s \in SUBSET sel : ~ Good(s)}
<1>1. sel \in SUBSET DOMAIN cands /\ DOMAIN cands = 1 .. Len(cands) /\ IsFiniteSet(sel)
  BY WorthCounted DEF Compatible, Counted
<1>2. \A i \in sel : /\ IsFiniteSet(cands[i].used) /\ cands[i].jokersUsed \in Nat
                     /\ cands[i].tilesPlayed = Cardinality(cands[i].used) + cands[i].jokersUsed
  <2>1. \A c : NewCandidate(c, hand) =>
          IsFiniteSet(c.used) /\ c.tilesPlayed = Cardinality(c.used) + c.jokersUsed
    BY DEF NewCandidate
  <2>2. \A c : Extending(c, hand, rows) =>
          IsFiniteSet(c.used) /\ c.tilesPlayed = Cardinality(c.used) + c.jokersUsed
    BY DEF Extending
  <2>. QED  BY <1>1, <2>1, <2>2 DEF Suits, Counted
<1>3. ASSUME Q # {}  PROVE FALSE
  <2>1. PICK s \in Q : \A t \in Q : t \subseteq s => t = s
    <3>1. Q \in SUBSET (SUBSET sel)
      OBVIOUS
    <3> HIDE DEF Q
    <3>. QED  BY <1>1, <1>3, <3>1, SmallestSubset
  <2>2. s \in SUBSET sel /\ ~ Good(s) /\ s \in SUBSET DOMAIN cands
    BY <1>1
  <2>3. CASE s = {}
    <3>1. UsedTiles(cands, s) = {}
      BY <2>3 DEF UsedTiles
    <3>2. TilesPlayed(cands, s) = 0 /\ JokersUsed(cands, s) = 0
      BY <2>3, SumOfNothing DEF TilesPlayed, JokersUsed
    <3>3. IsFiniteSet({}) /\ Cardinality({}) = 0
      BY FS_EmptySet
    <3>. QED  BY <2>2, <3>1, <3>2, <3>3
  <2>4. CASE s # {}
    <3>1. PICK y \in s : TRUE
      BY <2>4
    <3> DEFINE r == s \ {y}
               old == UsedTiles(cands, r)
               new == cands[y].used
    <3>2. r \in SUBSET sel /\ r \notin Q /\ r \in SUBSET DOMAIN cands /\ y \in DOMAIN cands \ r
          /\ s = r \cup {y} /\ y \in sel
      BY <2>1, <2>2, <3>1
    <3>3. Good(r)
      BY <3>2
    <3> HIDE DEF Q, r
    <3>4. UsedTiles(cands, s) = old \cup new
      BY <3>2 DEF UsedTiles
    <3>5. old \cap new = {}
      <4>1. \A i \in r : cands[i].used \cap cands[y].used = {}
        BY <3>2 DEF Compatible
      <4>. QED  BY <4>1 DEF UsedTiles
    <3>6. IsFiniteSet(old) /\ IsFiniteSet(new)
      BY <1>2, <3>2, <3>3
    <3>7. /\ JokersUsed(cands, r) \in Nat
          /\ JokersUsed(cands, s) = JokersUsed(cands, r) + cands[y].jokersUsed
      BY <3>2, JokersGrow
    <3>8. TilesPlayed(cands, s) = TilesPlayed(cands, r) + cands[y].tilesPlayed
      BY <3>2, TilesCounted
    <3>9. /\ TilesPlayed(cands, r) = Cardinality(old) + JokersUsed(cands, r)
          /\ cands[y].tilesPlayed = Cardinality(new) + cands[y].jokersUsed
          /\ cands[y].jokersUsed \in Nat
      BY <1>2, <3>2, <3>3
    <3> HIDE DEF old, new
    <3>10. /\ IsFiniteSet(old \cup new) /\ Cardinality(old) \in Nat /\ Cardinality(new) \in Nat
           /\ Cardinality(old \cup new) = Cardinality(old) + Cardinality(new)
      BY <3>5, <3>6, CardinalityApart
    <3>11. TilesPlayed(cands, s) = Cardinality(old \cup new) + JokersUsed(cands, s)
      BY <3>7, <3>8, <3>9, <3>10
    <3>. QED  BY <2>2, <3>4, <3>10, <3>11
  <2>. QED  BY <2>3, <2>4
<1>4. sel \notin Q /\ sel \in SUBSET sel
  BY <1>3
<1>. QED  BY <1>4

\* So a selection plays at most the tiles of the rack.
LEMMA TilesOnRack ==
  ASSUME NEW cands, Counted(cands), NEW hand \in SUBSET Catalog, NEW opened, NEW rows,
         \A i \in 1 .. Len(cands) : Suits(cands[i], hand, opened, rows),
         NEW sel, Compatible(cands, hand, sel)
  PROVE  TilesPlayed(cands, sel) <= Cardinality(hand)
<1> DEFINE used == UsedTiles(cands, sel)
           jokers == RackJokers(hand)
           numbered == hand \ jokers
<1>1. sel \in SUBSET (1 .. Len(cands)) /\ JokersUsed(cands, sel) <= Cardinality(jokers)
      /\ JokersUsed(cands, sel) \in Nat
  BY JokersGrow DEF Compatible, Counted
<1>2. IsFiniteSet(hand)
  BY CatalogFinite, FS_Subset
<1>3. /\ hand = numbered \cup jokers /\ numbered \cap jokers = {}
      /\ IsFiniteSet(numbered) /\ IsFiniteSet(jokers)
  BY <1>2, FS_Subset DEF RackJokers
<1>4. Cardinality(hand) = Cardinality(numbered) + Cardinality(jokers)
  <2> HIDE DEF numbered, jokers
  <2>. QED  BY <1>3, CardinalityApart
<1>5. used \subseteq numbered
  <2>1. \A c : NewCandidate(c, hand) => c.used \subseteq numbered
    BY DEF NewCandidate, RackJokers
  <2>2. \A c : Extending(c, hand, rows) => c.used \subseteq numbered
    BY DEF Extending, RackJokers
  <2>3. \A i \in sel : cands[i].used \subseteq numbered
    BY <1>1, <2>1, <2>2 DEF Suits
  <2>. QED  BY <2>3 DEF UsedTiles
<1>6. TilesPlayed(cands, sel) = Cardinality(used) + JokersUsed(cands, sel)
  BY TilesApart
<1> HIDE DEF used, numbered, jokers
<1>7. Cardinality(used) <= Cardinality(numbered) /\ Cardinality(used) \in Nat
  BY <1>3, <1>5, FS_Subset, FS_CardinalityType
<1>8. Cardinality(numbered) \in Nat /\ Cardinality(jokers) \in Nat
  BY <1>3, FS_CardinalityType
<1>. QED  BY <1>1, <1>4, <1>6, <1>7, <1>8

\* search.ts: a search that ends within its budget has found a selection as
\* good as any there is, though most branches are cut off: none that may be
\* played plays more tiles, and unless the one found wins, none is worth more
\* among those that play as many.
SearchExact ==
  \A n \in Nat :
    LET cands == Candidates
        found == Search(cands, rack, melded, n)
    IN  ~ found.budgetExceeded =>
          \A sel : Playing(cands, rack, melded, sel) =>
            \E best \in found.best :
              /\ TilesPlayed(cands, sel) <= TilesPlayed(cands, best)
              /\ TilesPlayed(cands, best) = Cardinality(rack) \/ ~ Better(cands, sel, best)

\* It follows from what the rack and the table are.
LEMMA ExactFromTable == TableInv => SearchExact
<1> DEFINE cands == SortedCandidates(rack, melded, table)
<1> SUFFICES ASSUME TableInv, NEW n \in Nat,
                    ~ Search(cands, rack, melded, n).budgetExceeded,
                    NEW sel, Playing(cands, rack, melded, sel)
             PROVE  \E best \in Search(cands, rack, melded, n).best :
                      /\ TilesPlayed(cands, sel) <= TilesPlayed(cands, best)
                      /\ \/ TilesPlayed(cands, best) = Cardinality(rack)
                         \/ ~ Better(cands, sel, best)
  BY DEF SearchExact, Candidates
<1> DEFINE found == Search(cands, rack, melded, n)
<1>1. /\ rack \in SUBSET Catalog /\ table \in Seq(Seq(Catalog)) /\ melded \in BOOLEAN
      /\ \A k \in 1 .. Len(table) : ToSet(table[k]) \cap rack = {}
  BY DEF TableInv, LegalTable
<1>2. /\ Len(cands) \in Nat /\ DOMAIN cands = 1 .. Len(cands)
      /\ \A i \in 1 .. Len(cands) : Suits(cands[i], rack, melded, table)
  BY <1>1, SortedCandidatesSuit
<1> HIDE DEF cands
<1>3. Counted(cands)
  BY <1>2, SuitingCounted
<1>4. Cardinality(rack) \in Nat /\ Cardinality(RackJokers(rack)) \in Nat
  BY <1>1, CatalogFinite, FS_Subset, FS_CardinalityType, JokerIds
<1>5. PICK best \in found.best :
        TilesPlayed(cands, best) >= Cardinality(rack) \/ ~ Better(cands, sel, best)
  <2>1. Covers(cands, rack, found.best, sel)
    BY <1>1, <1>3, <1>4, SearchFull
  <2> HIDE DEF found
  <2>. QED  BY <2>1 DEF Covers
<1>6. Compatible(cands, rack, sel) /\ Compatible(cands, rack, best)
  <2>1. Sane(cands, rack, melded, found)
    BY <1>1, <1>3, <1>4, SearchSane
  <2> HIDE DEF found
  <2>. QED  BY <2>1 DEF Sane, Playing
<1>7. /\ TilesPlayed(cands, sel) <= Cardinality(rack)
      /\ TilesPlayed(cands, best) <= Cardinality(rack)
  BY <1>1, <1>2, <1>3, <1>6, TilesOnRack
<1>8. TilesPlayed(cands, sel) \in Nat /\ TilesPlayed(cands, best) \in Nat
  BY <1>3, <1>6, TilesCounted DEF Compatible
<1>9. TilesPlayed(cands, sel) <= TilesPlayed(cands, best)
  BY <1>4, <1>5, <1>7, <1>8 DEF Better
<1>10. TilesPlayed(cands, best) = Cardinality(rack) \/ ~ Better(cands, sel, best)
  BY <1>4, <1>5, <1>7, <1>8
<1>. QED  BY <1>9, <1>10

\* Whatever the rack, the table and the budget, a search that is not cut
\* short misses nothing better.
THEOREM SearchExactAlways == Spec => []SearchExact
<1>. QED  BY TableSound, ExactFromTable, PTL
===============================================================================
