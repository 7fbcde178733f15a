------------------------------- MODULE SetRules -------------------------------
(***************************************************************************)
(* When is a row of tiles a valid set?  The pure rules of sets.ts over an  *)
(* ordered row of tiles, and setFaceValue of the rows they accept.         *)
(*                                                                         *)
(* A tile is a record [color, value, copy]; a joker has color "joker".     *)
(* Reasons for a rejection are left out: the engine collapses them all to  *)
(* "invalid_set".                                                          *)
(***************************************************************************)
EXTENDS Integers, Sequences, FiniteSets, FiniteSetsExt, Functions

CONSTANTS
  COLORS,       \* the colours, in canonical order, as a sequence
  MAX_VALUE     \* the highest number on a tile

ASSUME RulesAssumption ==
  /\ COLORS \in Seq(STRING) /\ Len(COLORS) > 0
  /\ \A i, j \in 1 .. Len(COLORS) : COLORS[i] = COLORS[j] => i = j
  /\ \A i \in 1 .. Len(COLORS) : COLORS[i] # "joker"
  /\ MAX_VALUE \in Nat \ {0}

MIN_VALUE == 1
MIN_SET_LENGTH == 3
MAX_RUN_LENGTH == MAX_VALUE
MAX_GROUP_LENGTH == Len(COLORS)

Color == {COLORS[i] : i \in 1 .. Len(COLORS)}
Copy == {"a", "b"}
Catalog ==
  [color : Color, value : MIN_VALUE .. MAX_VALUE, copy : Copy]
    \cup [color : {"joker"}, value : {0}, copy : Copy]

IsNumbered(tile) == tile.color # "joker"

\* The positions of a row that hold numbered tiles.
Anchors(row) == {i \in 1 .. Len(row) : IsNumbered(row[i])}

HasDuplicateTileIds(row) ==
  \E i, j \in 1 .. Len(row) : i # j /\ row[i] = row[j]

\* The value a run would start with if position i fixed it.
BaseAt(row, i) == row[i].value - (i - 1)

\* Fault: the high end of a run goes unchecked.
ValidRun_NoUpperBound(row) ==
  /\ ~ HasDuplicateTileIds(row)
  /\ Len(row) \in MIN_SET_LENGTH .. MAX_RUN_LENGTH
  /\ Anchors(row) # {}
  /\ \A i, j \in Anchors(row) :
       row[i].color = row[j].color /\ BaseAt(row, i) = BaseAt(row, j)
  /\ \A i \in Anchors(row) : BaseAt(row, i) >= MIN_VALUE

ValidRun(row) ==
  /\ ~ HasDuplicateTileIds(row)
  /\ Len(row) \in MIN_SET_LENGTH .. MAX_RUN_LENGTH
  /\ Anchors(row) # {}
  /\ \A i, j \in Anchors(row) :
       /\ row[i].color = row[j].color
       /\ i # j => row[i].value # row[j].value
       /\ BaseAt(row, i) = BaseAt(row, j)
  /\ \A i \in Anchors(row) :
       /\ BaseAt(row, i) >= MIN_VALUE
       /\ BaseAt(row, i) + Len(row) - 1 <= MAX_VALUE

ValidGroup(row) ==
  /\ ~ HasDuplicateTileIds(row)
  /\ Len(row) \in MIN_SET_LENGTH .. MAX_GROUP_LENGTH
  /\ Anchors(row) # {}
  /\ \A i, j \in Anchors(row) :
       /\ row[i].value = row[j].value
       /\ i # j => row[i].color # row[j].color

ValidSet(row) == ValidGroup(row) \/ ValidRun(row)

\* Fault: colours already in the group are not taken out.
FreeColors_AllColors(row) == Color

\* What each position of an accepted row stands for.  A row that is both a
\* group and a run is a group; a group's jokers take its free colours in
\* canonical order, a run's jokers take its colour and their own position.
FreeColors(row) == Color \ {row[i].color : i \in Anchors(row)}

UpTo(k, colors) == {j \in 1 .. k : COLORS[j] \in colors}

\* The n-th of the given colours.
NthColor(n, colors) ==
  COLORS[CHOOSE k \in 1 .. Len(COLORS) :
           COLORS[k] \in colors /\ Cardinality(UpTo(k, colors)) = n]

JokersBefore(row, i) == Cardinality((1 .. i) \ Anchors(row))

Represents(row, i) ==
  LET a == Min(Anchors(row))
  IN  IF i \in Anchors(row)
      THEN [color |-> row[i].color, value |-> row[i].value]
      ELSE IF ValidGroup(row)
      THEN [color |-> NthColor(JokersBefore(row, i), FreeColors(row)), value |-> row[a].value]
      ELSE [color |-> row[a].color, value |-> BaseAt(row, a) + i - 1]

\* setFaceValue of an accepted row.
SetFaceValue(row) ==
  SumFunction([i \in 1 .. Len(row) |-> Represents(row, i).value])
=============================================================================
