------------------------------- MODULE RowDraft -------------------------------
(***************************************************************************)
(* A player lays a row tile by tile.  Any tile of the catalog can be named *)
(* in a request, twice included, so any row can reach validateSet; what it *)
(* answers is compared with the rules of the game stated without positions *)
(* or bases.                                                               *)
(***************************************************************************)
EXTENDS SetRules

CONSTANTS MaxRow
ASSUME MaxRowAssumption == MaxRow \in Nat

VARIABLE row

RowInit == row = <<>>

Place(tile) == Len(row) < MaxRow /\ row' = Append(row, tile)

RowNext == \E tile \in Catalog : Place(tile)

RowSpec == RowInit /\ [][RowNext]_row

-----------------------------------------------------------------------------
(* The rules of the game, stated without positions or bases: a row is a    *)
(* set when its jokers can stand for tiles that make it one.               *)

Face == [color : Color, value : MIN_VALUE .. MAX_VALUE]

\* A row read with its jokers standing for the faces `as`.
ReadAs(r, as) == [i \in 1 .. Len(r) |->
  IF IsNumbered(r[i]) THEN [color |-> r[i].color, value |-> r[i].value] ELSE as[i]]

Readings(r) == {ReadAs(r, as) : as \in [(1 .. Len(r)) \ Anchors(r) -> Face]}

RunReading(f, n) ==
  \A i \in 1 .. n - 1 : f[i + 1].color = f[i].color /\ f[i + 1].value = f[i].value + 1

GroupReading(f, n) ==
  \A i, j \in 1 .. n : f[i].value = f[j].value /\ (i # j => f[i].color # f[j].color)

IsSet(r) ==
  /\ Len(r) >= 3 /\ Anchors(r) # {}
  /\ \A i, j \in 1 .. Len(r) : i # j => r[i] # r[j]
  /\ \E f \in Readings(r) : RunReading(f, Len(r)) \/ GroupReading(f, Len(r))

\* validateSet accepts exactly the rows whose jokers can be read so that the
\* row is a run in order or a group (sets.ts works on bases and colour counts).
AcceptsExactlySets == ValidSet(row) <=> IsSet(row)

\* What an accepted row's jokers are recorded to stand for (joker_repr) is
\* itself a reading that makes the row a run or a group, never a colour that
\* is already in the group or a number off the end of the run.
JokersReadTrue ==
  ValidSet(row) =>
    LET f == [i \in 1 .. Len(row) |-> Represents(row, i)]
    IN  /\ f \in Readings(row)
        /\ RunReading(f, Len(row)) \/ GroupReading(f, Len(row))
=============================================================================
