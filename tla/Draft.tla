-------------------------------- MODULE Draft --------------------------------
(***************************************************************************)
(* A player's rearrangement of the table and the rack in one browser       *)
(* (draftState.ts, useDraftState.ts): pure functions of a draft, which the *)
(* server never sees before Commit.                                        *)
(*                                                                         *)
(* A draft is its rack (a sequence), its sets (rows of tiles; the code's   *)
(* set ids are left out, a set is named by the row it holds), the drafts   *)
(* that Undo goes back to, and the version of the game it was built from.  *)
(***************************************************************************)
EXTENDS TurnService, Functions

\* Rows are lists of tiles.  A set is refused if it names a tile twice
\* (duplicate_tile_id, sets.ts).
ASSUME RowsAssumption ==
  /\ Rows \subseteq Seq(Tile)
  /\ \A row \in Rows : TilesOf[row] = Range(row)
  /\ \A m \in Melds : IsInjective(m)

\* filter: what is not t, in the order it had; the k-th kept place has k - 1
\* kept places before it.
Without(row, t) ==
  LET kept == {i \in DOMAIN row : row[i] # t}
      place(k) == CHOOSE i \in kept : Cardinality({j \in kept : j < i}) = k - 1
  IN  [k \in 1 .. Cardinality(kept) |-> row[place(k)]]

\* buildInitialDraft, its rack in the order the server sent it.
InRackOrder(rack) ==
  [k \in 1 .. Cardinality(rack) |->
     CHOOSE t \in rack : Cardinality({u \in rack : u < t}) = k - 1]

InitialDraft(g, me, version) ==
  [rack |-> InRackOrder(g.rack[me]), sets |-> g.table, past |-> <<>>, from |-> version]

NoDraft == [rack |-> <<>>, sets |-> {}, past |-> <<>>, from |-> -1]

RemoveTileFromEverywhere(d, t) ==
  [d EXCEPT !.rack = Without(@, t),
            !.sets = {Without(row, t) : row \in @} \ {<<>>}]

\* Fault: a set that held nothing but the tile is not made again for it.
MoveToSet_NoRecreate(d, t, row) ==
  LET cleared == RemoveTileFromEverywhere(d, t)
      rest == Without(row, t)
  IN  IF rest = <<>> THEN cleared
      ELSE [cleared EXCEPT !.sets = (@ \ {rest}) \cup {Append(rest, t)}]

\* The row is taken without the tile; when the tile was all it held, the set
\* has just been dropped and is made again.
MoveToSet(d, t, row) ==
  LET rest == Without(row, t)
  IN  [RemoveTileFromEverywhere(d, t) EXCEPT !.sets = (@ \ {rest}) \cup {Append(rest, t)}]

MoveToNewSet(d, t) ==
  [RemoveTileFromEverywhere(d, t) EXCEPT !.sets = @ \cup {<<t>>}]

MoveToRack(d, t) == [RemoveTileFromEverywhere(d, t) EXCEPT !.rack = Append(@, t)]

Swapped(row, i, j) == [row EXCEPT ![i] = row[j], ![j] = row[i]]

ReorderInSet(d, row, i, j) == [d EXCEPT !.sets = (@ \ {row}) \cup {Swapped(row, i, j)}]

\* Rack.tsx, sort by number: jokers last, equal numbers in the order they had.
SortKey(t) == IF t \in Jokers THEN 99 ELSE TileNumber[t]

ComesBefore(rack, j, i) ==
  \/ SortKey(rack[j]) < SortKey(rack[i])
  \/ SortKey(rack[j]) = SortKey(rack[i]) /\ j < i

SortRack(d) ==
  LET place(k) == CHOOSE i \in DOMAIN d.rack :
                    Cardinality({j \in DOMAIN d.rack : ComesBefore(d.rack, j, i)}) = k - 1
  IN  [d EXCEPT !.rack = [k \in DOMAIN d.rack |-> d.rack[place(k)]]]

\* Every edit is pushed on the past; Undo pops it.
Edited(d, e) == [e EXCEPT !.past = Append(d.past, [rack |-> d.rack, sets |-> d.sets])]

Undone(d) ==
  LET last == d.past[Len(d.past)]
  IN  [d EXCEPT !.rack = last.rack, !.sets = last.sets,
                !.past = SubSeq(@, 1, Len(@) - 1)]

\* How often tile t lies in the rack and the sets of a draft.
Copies(d, t) ==
  Cardinality({i \in DOMAIN d.rack : d.rack[i] = t})
    + MapThenSumSet(LAMBDA row : Cardinality({i \in DOMAIN row : row[i] = t}), d.sets)
=============================================================================
