---------------------------- MODULE MCTurnSystem ----------------------------
(* Seat 0 is dealt a run of C1 10-11-12 that opens and the 13 that extends   *)
(* it; the others hold one tile each and can only draw, pass, miss or leave. *)
(* One tile is left in the pool, so two turns without a play empty it.       *)
EXTENDS TurnSystem, TLC

Shown == <<2, 10, 11, 12, 13, 5, 8>>
MCTileNumber == [t \in 1 .. NumTiles |-> Shown[t]]
MCHand == [s \in 0 .. NumSeats - 1 |-> IF s = 0 THEN 2 .. 5 ELSE {5 + s}]

Run3 == <<2, 3, 4>>
Run4 == <<2, 3, 4, 5>>
MCRows == {Run3, Run4}
MCTilesOf == (Run3 :> 2 .. 4) @@ (Run4 :> 2 .. 5)
MCMeldValue == (Run3 :> 33) @@ (Run4 :> 46)
MCProposals == {{Run3}, {Run4}}
=============================================================================
