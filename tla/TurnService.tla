------------------------------ MODULE TurnService ------------------------------
(***************************************************************************)
(* The transactions on one game (turnActions.ts, persistTransition and the *)
(* settlement the sweep shares with them) as operators on the database     *)
(* rows they lock, read and write.  Each holds the games row from its      *)
(* first statement to its commit, so each is one step of TurnSystem.tla;   *)
(* an ActionError rolls back whatever the transaction had written.         *)
(*                                                                         *)
(* A turn id is the number of its row in `turns`; a player is the seat it  *)
(* holds; a deadline is the flag `overdue` of the turn it belongs to.      *)
(***************************************************************************)
EXTENDS Engine, Sequences

\* The requests that play the turn.
Moves == {"commit", "draw", "pass"}

FreshTurn(seat) == [seat |-> seat, status |-> "active", overdue |-> FALSE]

\* The rows of a game just dealt by dealNewGame.
DealtRows(start) ==
  [game |-> DealtGame(start), version |-> 0,
   turns |-> <<FreshTurn(start)>>, currentTurn |-> 1,
   roomStatus |-> "in_game", recorded |-> 0, results |-> {}]

CurrentTurn(d) == d.turns[d.currentTurn]

-----------------------------------------------------------------------------
(* Writing a transition back *)

\* Fault: a turn row is left open when the game ends without moving on.
PersistTransition_LeavesOpen(d, g, event) ==
  LET advanced == g.activeSeat # d.game.activeSeat
      opens == advanced /\ g.status # "completed"
      resolved == IF advanced THEN [d.turns EXCEPT ![d.currentTurn].status = event]
                              ELSE d.turns
  IN  [d EXCEPT !.game = g, !.version = d.version + 1,
                !.turns = IF opens THEN Append(resolved, FreshTurn(g.activeSeat)) ELSE resolved,
                !.currentTurn = IF opens THEN Len(resolved) + 1 ELSE d.currentTurn]

\* persistTransition: the turn row is resolved when the turn moved on or the
\* game ended, and a new one is opened when it moved on in a game that did not.
PersistTransition(d, g, event) ==
  LET advanced == g.activeSeat # d.game.activeSeat
      ended == g.status = "completed"
      resolved == IF advanced \/ ended
                  THEN [d.turns EXCEPT ![d.currentTurn].status = event]
                  ELSE d.turns
      opens == advanced /\ ~ ended
  IN  [d EXCEPT !.game = g,
                !.version = d.version + 1,
                !.turns = IF opens THEN Append(resolved, FreshTurn(g.activeSeat))
                                   ELSE resolved,
                !.currentTurn = IF opens THEN Len(resolved) + 1 ELSE d.currentTurn]

\* applySideEffects: a transition that ends the game also frees the room and
\* adds the result to its ledger.
ApplySideEffects(d, g, event) ==
  LET p == PersistTransition(d, g, event)
  IN  IF g.status = "completed"
      THEN [p EXCEPT !.roomStatus = "between_games", !.recorded = d.recorded + 1]
      ELSE p

RecordResult(d, r) ==
  [d EXCEPT !.results = d.results \cup {[player |-> r.player, key |-> r.key]}]

-----------------------------------------------------------------------------
(* Settling an overdue turn *)

IsOverdue(d) ==
  /\ d.game.status = "active"
  /\ CurrentTurn(d).status = "active"
  /\ CurrentTurn(d).overdue

\* Fault: a turn is not forfeited when there is no penalty left to draw.
SettleOverdueTurn_NeedsPool(d) ==
  IF IsOverdue(d) /\ d.game.pool > 0
  THEN ApplySideEffects(d, ApplyTimeout(d.game, d.game.activeSeat), "timed_out")
  ELSE d

SettleOverdueTurn(d) ==
  IF IsOverdue(d)
  THEN ApplySideEffects(d, ApplyTimeout(d.game, d.game.activeSeat), "timed_out")
  ELSE d

-----------------------------------------------------------------------------
(* Answering a request: it is replayed, applied, or refused with an        *)
(* ActionError, whose code is left out                                     *)

\* Fault: recorded results are never looked up.
IsReplay_Never(d, r) == FALSE

IsReplay(d, r) == \E x \in d.results : x.player = r.player /\ x.key = r.key

\* Fault: only the turn is compared.
IsStale_TurnOnly(d, r) == r.turn # d.currentTurn

\* The version or the turn the request was made for is no longer current.
IsStale(d, r) == r.version # d.version \/ r.turn # d.currentTurn

\* Draw with an empty pool or pass with a full one.
IsInvalid(g, r) ==
  \/ r.kind = "draw" /\ g.pool = 0
  \/ r.kind = "pass" /\ g.pool > 0

\* Faults: an overdue turn may still be played; anybody may play it.
AppliesMove_Late(d, r) ==
  /\ d.game.status = "active"
  /\ ~ IsStale(d, r)
  /\ d.game.activeSeat = r.player
  /\ ~ IsInvalid(d.game, r)

AppliesMove_AnyPlayer(d, r) ==
  /\ d.game.status = "active"
  /\ ~ IsOverdue(d)
  /\ ~ IsStale(d, r)
  /\ ~ IsInvalid(d.game, r)

\* executeTransition's checks.  A turn found overdue is settled and the request
\* refused, which rolls the settlement back.
AppliesMove(d, r) ==
  /\ d.game.status = "active"
  /\ ~ IsOverdue(d)
  /\ ~ IsStale(d, r)
  /\ d.game.activeSeat = r.player
  /\ ~ IsInvalid(d.game, r)

\* Fault: the game is not looked at again after the settlement.
AppliesResign_StaleStatus(d, r) ==
  d.game.status = "active" /\ SettleOverdueTurn(d).game.seatStatus[r.player] = "active"

\* Resigning needs no version or turn, and settles an overdue turn first.
AppliesResign(d, r) ==
  LET g == SettleOverdueTurn(d).game
  IN  /\ d.game.status = "active" /\ g.status = "active"
      /\ g.seatStatus[r.player] = "active"

\* Nothing is applied twice: a recorded result is replayed first of all.
Applies(d, r) ==
  /\ ~ IsReplay(d, r)
  /\ IF r.kind = "resign" THEN AppliesResign(d, r) ELSE AppliesMove(d, r)

\* The engine's answer to a move, and the event it is logged as.
Transition(g, r) ==
  CASE r.kind = "commit" -> ApplyCommit(g, r.player, r.proposed)
    [] r.kind = "draw"   -> ApplyDraw(g, r.player)
    [] r.kind = "pass"   -> ApplyPass(g, r.player)
    [] r.kind = "resign" -> ApplyResign(g, r.player)

EventOf(g, r) ==
  CASE r.kind = "commit" ->
         IF ValidTurn(g, r.player, r.proposed) THEN "committed" ELSE "invalid_commit"
    [] r.kind = "draw"   -> "drawn"
    [] r.kind = "pass"   -> "passed"
    [] r.kind = "resign" -> "resigned"

\* The rows the request works on: a resignation settles an overdue turn and
\* keeps the settlement, a move never reaches the engine on an overdue turn.
Prepared(d, r) == IF r.kind = "resign" THEN SettleOverdueTurn(d) ELSE d

\* Fault: a resignation leaves nothing to replay.
Process_ForgetsResign(d, r) ==
  LET p == Prepared(d, r)
      done == ApplySideEffects(p, Transition(p.game, r), EventOf(p.game, r))
  IN  IF ~ Applies(d, r) THEN d
      ELSE IF r.kind = "resign" THEN done ELSE RecordResult(done, r)

\* The rows left by a request: changed only when it is applied.
Process(d, r) ==
  LET p == Prepared(d, r)
  IN  IF ~ Applies(d, r) THEN d
      ELSE RecordResult(
             ApplySideEffects(p, Transition(p.game, r), EventOf(p.game, r)), r)

-----------------------------------------------------------------------------
(* What holds of the rows between two transactions *)

\* How a turn row is resolved.
Resolution ==
  {"committed", "invalid_commit", "drawn", "passed", "resigned", "timed_out"}

TurnRow == [seat : Seat, status : Resolution \cup {"active"}, overdue : BOOLEAN]

\* The key of a request: who made it up, and their number for it ("setup" is
\* what was played before a page was opened, "other" the opponents of a page).
Key == {"click", "bot", "other", "setup"} \X Nat

Database ==
  [game : GameState, version : Nat, turns : Seq(TurnRow), currentTurn : Nat,
   roomStatus : {"in_game", "between_games"}, recorded : Nat,
   results : SUBSET [player : Seat, key : Key]]

\* The turn rows and the game agree: the current turn, and no other, is open
\* while the game runs; a turn was forfeited exactly when its deadline had
\* passed; no turn of a seat in `spared` is an invalid commit.
TurnsSound(d, spared) ==
  /\ d.currentTurn \in 1 .. Len(d.turns)
  /\ d.game.status = "active" => CurrentTurn(d).seat = d.game.activeSeat
  /\ \A i \in 1 .. Len(d.turns) :
       /\ d.turns[i].status = "active" <=> i = d.currentTurn /\ d.game.status = "active"
       /\ d.turns[i].status # "active" => (d.turns[i].overdue <=> d.turns[i].status = "timed_out")
       /\ d.turns[i].seat \in spared => d.turns[i].status # "invalid_commit"

\* The room's ledger has the result of a game that is over and of no other.
LedgerSound(d) ==
  /\ d.recorded = IF d.game.status = "completed" THEN 1 ELSE 0
  /\ d.roomStatus = "between_games" <=> d.game.status = "completed"

RowsSound(d, spared) ==
  d \in Database /\ Sound(d.game) /\ TurnsSound(d, spared) /\ LedgerSound(d)
===============================================================================
