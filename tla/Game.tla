--------------------------------- MODULE Game ---------------------------------
(***************************************************************************)
(* What a game promises, whatever server runs it: it goes from one state   *)
(* to the next by the engine's transitions only, one turn at a time, the   *)
(* seat in turn deciding unless its time runs out, and any seat may resign *)
(* at any time.  TurnService.tla implements this specification.            *)
(***************************************************************************)
EXTENDS Engine

CONSTANT Proposals    \* the tables a player may propose, valid or not
ASSUME ProposalsAssumption == Proposals \subseteq SUBSET Rows

VARIABLE game

\* E-START: any seat may be drawn to begin.
Init == \E start \in Seat : game = DealtGame(start)

InTurn(s) == game.status = "active" /\ game.activeSeat = s

Commit(s, proposed) == InTurn(s) /\ game' = ApplyCommit(game, s, proposed)

\* The product's Draw button is Pass once the pool is empty (D-EMPTYDRAW).
Draw(s) == InTurn(s) /\ game.pool > 0 /\ game' = ApplyDraw(game, s)

Pass(s) == InTurn(s) /\ game.pool = 0 /\ game' = ApplyPass(game, s)

Timeout(s) == InTurn(s) /\ game' = ApplyTimeout(game, s)

Resign(s) ==
  /\ game.status = "active" /\ game.seatStatus[s] = "active"
  /\ game' = ApplyResign(game, s)

\* resignTurn forfeits an overdue turn and then resigns, in one transaction.
TimeoutThenResign(s) ==
  LET settled == ApplyTimeout(game, game.activeSeat)
  IN  /\ game.status = "active"
      /\ settled.status = "active" /\ settled.seatStatus[s] = "active"
      /\ game' = ApplyResign(settled, s)

Next ==
  \E s \in Seat :
    \/ \E proposed \in Proposals : Commit(s, proposed)
    \/ Draw(s)
    \/ Pass(s)
    \/ Timeout(s)
    \/ Resign(s)
    \/ TimeoutThenResign(s)

Spec == Init /\ [][Next]_game

\* Every deadline expires: the turn of a player who does nothing is forfeited.
FairSpec == Spec /\ WF_game(\E s \in Seat : Timeout(s))

-----------------------------------------------------------------------------
TypeOK == WellTyped(game)

\* No tile is created, lost or duplicated by any sequence of transitions:
\* the pool, the racks (resigned seats' too) and the table share no tile and
\* hold every tile of the catalog (conservation.ts, plan 5.3 invariant 1).
TilesConserved == Conserved(game)

\* An active game can go on: the turn is with a seat still playing, another
\* one plays too, none of them has run out of tiles and no stalemate is due.
\* nextActiveSeat never finds the rotation empty; no end goes undetected.
GameIsLive == game.status = "active" => CanGoOn(game)

\* Until its first meld of 30 a seat has laid nothing: it still holds every
\* tile it was dealt, whatever the others did to the table.
NothingLaidBeforeFirstMeld ==
  \A s \in Seat : ~ game.hasInitialMeld[s] => Hand[s] \subseteq game.rack[s]

\* The scores of a finished game: they sum to zero, the winner is a seat that
\* never resigned and gains, nobody else gains, and a resigned seat pays its
\* whole frozen rack, never a difference (E-RESIGNN).
ScoresSettle ==
  game.status = "completed" =>
    LET p == Score(game)
        w == WinnerOf(game)
        of(s) == p[s]
    IN  /\ MapThenSumSet(of, Seat) = 0
        /\ game.seatStatus[w] = "active" /\ p[w] >= 0
        /\ \A s \in Seat \ {w} :
             /\ p[s] <= 0
             /\ game.seatStatus[s] = "resigned" => p[s] = -RackFaceValue(game.rack[s])

\* Tiles only move forward, from the pool to a rack and from there to the
\* table: a laid tile never leaves it, and a rack loses tiles only when its
\* owner lays them in its own turn.
TilesMoveForward ==
  [][/\ game'.pool <= game.pool
     /\ TableTiles(game) \subseteq TableTiles(game')
     /\ \A s \in Seat :
          LET gone == game.rack[s] \ game'.rack[s]
          IN  gone # {} => s = game.activeSeat /\ gone \subseteq TableTiles(game')]_game

\* A seat that resigned is out for good: its rack is frozen, it never plays
\* again, and a finished game never changes.
ResignationIsFinal ==
  [][/\ game.status = "active"
     /\ \A s \in Seat : game.seatStatus[s] = "resigned" =>
          /\ game'.seatStatus[s] = "resigned"
          /\ game'.rack[s] = game.rack[s]
          /\ game'.activeSeat # s]_game

\* E-ABANDON: a game whose turns are forfeited one after the other ends, so
\* no game needs a player to act for it to finish.
GameEnds == <>(game.status = "completed")
=============================================================================
