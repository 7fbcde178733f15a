------------------------------ MODULE MCGamePage ------------------------------
(* Two games a page may be opened on, each reached by play.  In the first the *)
(* opponent has opened with C1 10-11-12 and the page's player has not opened: *)
(* laying C1 13 on that run looks good and costs a penalty.  In the second    *)
(* both have opened, and the same move is fine.                               *)
EXTENDS GamePage, SequencesExt

CONSTANTS f1, f2

Rules == INSTANCE SetRules WITH COLORS <- <<"C1", "C2", "C3", "C4">>, MAX_VALUE <- 13

N(c, v) == [color |-> c, value |-> v, copy |-> "a"]
MCCatalog ==
  << N("C2", 1),
     N("C2", 12), N("C3", 12), N("C4", 12), N("C1", 13), N("C3", 1),
     N("C1", 10), N("C1", 11), N("C1", 12), N("C1", 9), N("C4", 2) >>

MCHand == [s \in 0 .. 1 |-> IF s = 0 THEN 2 .. 6 ELSE 7 .. 11]
MCTileNumber == [t \in 1 .. 11 |-> MCCatalog[t].value]
MCRowTiles == {2, 3, 4, 5, 7, 8, 9, 10}
MCRows == {r \in UNION {[1 .. n -> MCRowTiles] : n \in 1 .. 4} : IsInjective(r)}

Printed(row) == [i \in 1 .. Len(row) |-> MCCatalog[row[i]]]
MCTilesOf == [r \in MCRows |-> {r[i] : i \in 1 .. Len(r)}]
MCMelds == {r \in MCRows : Rules!ValidSet(Printed(r))}
MCMeldValue == [r \in MCMelds |-> Rules!SetFaceValue(Printed(r))]

Twelves == <<2, 3, 4>>
Run == <<7, 8, 9>>

Lays(d, s, proposed) ==
  Process(d, [player |-> s, key |-> <<"setup", d.version>>, kind |-> "commit",
              proposed |-> proposed, version |-> d.version, turn |-> d.currentTurn])

Draws(d, s) ==
  Process(d, [player |-> s, key |-> <<"setup", d.version>>, kind |-> "draw",
              version |-> d.version, turn |-> d.currentTurn])

MCStartRows ==
  { Lays(Draws(DealtRows(0), 0), 1, {Run}),
    Lays(Lays(DealtRows(0), 0, {Twelves}), 1, {Twelves, Run}) }

MCOtherMoves ==
  { [kind |-> "draw", proposed |-> {}], [kind |-> "pass", proposed |-> {}],
    [kind |-> "resign", proposed |-> {}],
    [kind |-> "commit", proposed |-> {<<10, 7, 8, 9>>}] }

MCBounds ==
  { [steps |-> 2, edits |-> 0, clicks |-> 1, drops |-> 1],
    [steps |-> 2, edits |-> 1, clicks |-> 1, drops |-> 0],
    [steps |-> 1, edits |-> 2, clicks |-> 0, drops |-> 0] }

MCSlots == {f1, f2}
Interchangeable == Permutations(MCSlots)
=============================================================================
