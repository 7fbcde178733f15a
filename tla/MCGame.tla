-------------------------------- MODULE MCGame --------------------------------
(* Three seats with three tiles each and a pool of four real tiles.  Seat 0 *)
(* can open with a run, seat 1 with a joker in a group, seat 2 holds a      *)
(* group too cheap to open with; what one lays the others can rearrange and *)
(* extend.  A penalty of three empties the pool in two turns.               *)
EXTENDS Game, Sequences

Rules == INSTANCE SetRules WITH COLORS <- <<"C1", "C2", "C3", "C4">>, MAX_VALUE <- 13

N(c, v) == [color |-> c, value |-> v, copy |-> "a"]
MCCatalog ==
  << N("C2", 2), N("C4", 9), N("C1", 9), N("C1", 13),
     N("C1", 10), N("C1", 11), N("C1", 12),
     N("C2", 10), N("joker", 0), N("C3", 10),
     N("C3", 1), N("C2", 1), N("C1", 1) >>

MCHand == [s \in 0 .. 2 |-> (5 + 3 * s) .. (7 + 3 * s)]
MCTileNumber == [t \in 1 .. 13 |-> MCCatalog[t].value]
MCJokers == {9}

\* The rows a player thinks of: runs of C1, groups of ones and tens, the same
\* tiles out of order and a pair.
MCRows ==
  { <<5, 6, 7>>, <<3, 5, 6, 7>>, <<5, 6, 7, 4>>, <<6, 7, 4>>, <<9, 6, 7>>,
    <<8, 9, 10>>, <<5, 8, 10>>, <<5, 8, 9, 10>>, <<11, 12, 13>>,
    <<7, 6, 5>>, <<12, 13>> }

Printed(row) == [i \in 1 .. Len(row) |-> MCCatalog[row[i]]]
MCTilesOf == [r \in MCRows |-> {r[i] : i \in 1 .. Len(r)}]
MCMelds == {r \in MCRows : Rules!ValidSet(Printed(r))}
MCMeldValue == [r \in MCMelds |-> Rules!SetFaceValue(Printed(r))]
\* Tables of at most three rows that share no tile, and one that repeats two.
MCProposals ==
  {p \in UNION {kSubset(k, MCRows) : k \in 0 .. 3} :
     \A a, b \in p : a # b => MCTilesOf[a] \cap MCTilesOf[b] = {}}
  \cup {{<<5, 8, 10>>, <<8, 9, 10>>}}
=============================================================================
