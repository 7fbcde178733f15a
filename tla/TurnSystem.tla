------------------------------ MODULE TurnSystem ------------------------------
(***************************************************************************)
(* Everybody who touches one game at once: the players' browsers, the      *)
(* clock, the deadline sweep, the computer opponent's two drivers (the     *)
(* timer set after a broadcast and the recovery sweep) and a server that   *)
(* may stop at any moment.  They meet in the rows of TurnService.tla.      *)
(*                                                                         *)
(* A browser acts on the state it was last shown, however old that is: a   *)
(* request is stamped with the state its player is shown, and the time to  *)
(* think, click and cross the network is one delay before it is delivered, *)
(* out of order, many times or never, its answer perhaps lost.  A server   *)
(* that stops loses what its sweeps and timers held in memory; an open     *)
(* transaction is rolled back, which is the step not happening.            *)
(***************************************************************************)
EXTENDS TurnService

CONSTANTS
  Bots,          \* the seats the computer plays
  Proposals,     \* the tables a player may propose, valid or not
  MaxRequests,   \* bound: requests the human players make in one game
  Drivers        \* the processes that run bot turns

ASSUME SystemAssumption ==
  /\ Bots \subseteq Seat
  /\ Proposals \subseteq SUBSET Rows
  /\ MaxRequests \in Nat
  /\ "sweep" \in Drivers

VARIABLES
  db,        \* the rows of the game, its room and its idempotency keys
  sent,      \* every request ever sent; nothing is ever removed
  accepted,  \* the requests that were answered with a result
  refused,   \* the requests that were answered with an error
  candidate, \* the deadline sweep has this game on its list
  bot        \* what each driver of the bot has read so far

vars == <<db, sent, accepted, refused, candidate, bot>>

Human == Seat \ Bots
Idle == [stage |-> "idle"]

Init ==
  \E start \in Seat :
    /\ db = DealtRows(start)
    /\ sent = {} /\ accepted = {} /\ refused = {}
    /\ candidate = FALSE
    /\ bot = [w \in Drivers |-> Idle]

-----------------------------------------------------------------------------
(* The players *)

\* catchUpAndLoad (game:join, GET /api/games/:id, chat:send): every look at
\* the game settles an overdue turn first.
Look ==
  /\ db' = SettleOverdueTurn(db)
  /\ UNCHANGED <<sent, accepted, refused, candidate, bot>>

\* useGame gives every click a key of its own.
FreshKey == <<"click", Cardinality(sent) + 1>>

\* A move carries the version and the turn of the game its player is shown.
SendMove(s, kind, proposed) ==
  /\ Cardinality(sent) < MaxRequests
  /\ sent' = sent \cup
       {[player |-> s, key |-> FreshKey, kind |-> kind, proposed |-> proposed,
         version |-> db.version, turn |-> db.currentTurn, seen |-> db.game]}
  /\ UNCHANGED <<db, accepted, refused, candidate, bot>>

SendResign(s) ==
  /\ Cardinality(sent) < MaxRequests
  /\ sent' = sent \cup {[player |-> s, key |-> FreshKey, kind |-> "resign"]}
  /\ UNCHANGED <<db, accepted, refused, candidate, bot>>

Answer(r) ==
  /\ db' = Process(db, r)
  /\ IF IsReplay(db, r) \/ Applies(db, r)
     THEN accepted' = accepted \cup {r} /\ UNCHANGED refused
     ELSE refused' = refused \cup {r} /\ UNCHANGED accepted

\* turn:commit, turn:draw, turn:pass, turn:resign.  Delivered once or again.
Deliver(r) == Answer(r) /\ UNCHANGED <<sent, candidate, bot>>

-----------------------------------------------------------------------------
(* The clock and the deadline sweep *)

DeadlinePasses ==
  /\ db.game.status = "active" /\ ~ CurrentTurn(db).overdue
  /\ db' = [db EXCEPT !.turns[db.currentTurn].overdue = TRUE]
  /\ UNCHANGED <<sent, accepted, refused, candidate, bot>>

\* The sweep lists the overdue games with a plain, non-locking read.
ScanOverdue ==
  /\ ~ candidate /\ IsOverdue(db)
  /\ candidate' = TRUE
  /\ UNCHANGED <<db, sent, accepted, refused, bot>>

\* Later it takes each one's row and settles it, if it still is overdue.
SettleCandidate ==
  /\ candidate /\ candidate' = FALSE
  /\ db' = SettleOverdueTurn(db)
  /\ UNCHANGED <<sent, accepted, refused, bot>>

\* SKIP LOCKED: another transaction has the row just now.
SkipCandidate ==
  /\ candidate /\ candidate' = FALSE
  /\ UNCHANGED <<db, sent, accepted, refused, bot>>

-----------------------------------------------------------------------------
(* The computer opponent *)

\* loadBotSnapshot reads the games row, then (later, outside any transaction)
\* the other tables: what it holds may be torn.
ReadGameRow(w) ==
  /\ bot[w] = Idle
  /\ db.game.status = "active" /\ db.game.activeSeat \in Bots
  /\ bot' = [bot EXCEPT ![w] =
       [stage |-> "row", version |-> db.version, turn |-> db.currentTurn, game |-> db.game]]
  /\ UNCHANGED <<db, sent, accepted, refused, candidate>>

\* Fault: every turn of the computer has the same key.
BotKey_Shared(turn) == <<"bot", 0>>

BotKey(turn) == <<"bot", turn>>

\* Fault: the version is read last.
ReadTables_VersionLast(w) ==
  /\ bot[w].stage = "row"
  /\ bot' = [bot EXCEPT ![w] = [@ EXCEPT !.stage = "read", !.version = db.version,
                                         !.turn = db.currentTurn]]
  /\ UNCHANGED <<db, sent, accepted, refused, candidate>>

\* Racks, seats and table as they are now; pool and turn as the row said.
ReadTables(w) ==
  LET torn == [bot[w].game EXCEPT !.rack = db.game.rack, !.table = db.game.table,
                                  !.hasInitialMeld = db.game.hasInitialMeld,
                                  !.seatStatus = db.game.seatStatus]
      done == [player |-> bot[w].game.activeSeat, key |-> BotKey(bot[w].turn)]
  IN  /\ bot[w].stage = "row"
      /\ bot' = [bot EXCEPT ![w] = IF done \in db.results THEN Idle
                                   ELSE [@ EXCEPT !.stage = "read", !.game = torn]]
      /\ UNCHANGED <<db, sent, accepted, refused, candidate>>

\* generateBotTurn plays a table it could commit, draws, or passes.
BotDecisions(g, s) ==
  {[kind |-> "commit", proposed |-> p] : p \in {q \in Proposals : ValidTurn(g, s, q)}}
    \cup {[kind |-> IF g.pool > 0 THEN "draw" ELSE "pass", proposed |-> {}]}

\* Fault: the decision is stamped with the game as it is now.
SubmitBotDecision_FreshStamp(w) ==
  LET seen == bot[w].game
      s == seen.activeSeat
  IN  /\ bot[w].stage = "read"
      /\ bot' = [bot EXCEPT ![w] = Idle]
      /\ \E move \in BotDecisions(seen, s) :
           db' = Process(db,
             [player |-> s, key |-> BotKey(db.currentTurn), kind |-> move.kind,
              proposed |-> move.proposed, version |-> db.version,
              turn |-> db.currentTurn])
      /\ UNCHANGED <<sent, accepted, refused, candidate>>

\* submitBotDecision: every error is a no-op.
SubmitBotDecision(w) ==
  LET seen == bot[w].game
      s == seen.activeSeat
  IN  /\ bot[w].stage = "read"
      /\ bot' = [bot EXCEPT ![w] = Idle]
      /\ \E move \in BotDecisions(seen, s) :
           db' = Process(db,
             [player |-> s, key |-> BotKey(bot[w].turn), kind |-> move.kind,
              proposed |-> move.proposed, version |-> bot[w].version,
              turn |-> bot[w].turn])
      /\ UNCHANGED <<sent, accepted, refused, candidate>>

-----------------------------------------------------------------------------
\* The server stops and comes back with nothing but its database.
Restart ==
  /\ candidate' = FALSE /\ bot' = [w \in Drivers |-> Idle]
  /\ UNCHANGED <<db, sent, accepted, refused>>

Next ==
  \/ Look
  \/ \E s \in Human :
       \/ \E proposed \in Proposals : SendMove(s, "commit", proposed)
       \/ SendMove(s, "draw", {}) \/ SendMove(s, "pass", {}) \/ SendResign(s)
  \/ \E r \in sent : Deliver(r)
  \/ DeadlinePasses \/ ScanOverdue \/ SettleCandidate \/ SkipCandidate
  \/ \E w \in Drivers : ReadGameRow(w) \/ ReadTables(w) \/ SubmitBotDecision(w)
  \/ Restart

Spec == Init /\ [][Next]_vars

\* The sweeps come round every fifteen seconds for as long as the server runs.
\* Each of their steps is bounded work, so one that could be taken again and
\* again, between restarts and skipped locks, is taken: strong fairness.
\* Nothing is asked of players or of the bot's timer.
DeadlineSweepRuns == SF_vars(ScanOverdue) /\ SF_vars(SettleCandidate)
BotSweepRuns ==
  /\ SF_vars(ReadGameRow("sweep")) /\ SF_vars(ReadTables("sweep"))
  /\ SF_vars(SubmitBotDecision("sweep"))

\* The deadline sweep runs for good; what the clock or the computer must do is
\* each property's own premise.
LiveSpec == Spec /\ DeadlineSweepRuns

-----------------------------------------------------------------------------
\* While the game runs exactly one turn row is open, the current one, and it
\* is the active seat's; none is left dangling once the game has ended
\* (persistTransition's comment on out-of-turn resignations).
OneOpenTurn ==
  LET open == {i \in 1 .. Len(db.turns) : db.turns[i].status = "active"}
  IN  IF db.game.status = "active"
      THEN open = {db.currentTurn} /\ CurrentTurn(db).seat = db.game.activeSeat
      ELSE open = {}

\* A game's result reaches the room's ledger exactly once, in the transaction
\* that frees the room, whoever ends the game and however often it is retried.
ResultRecordedOnce ==
  /\ db.recorded = IF db.game.status = "completed" THEN 1 ELSE 0
  /\ db.roomStatus = "between_games" <=> db.game.status = "completed"

\* Every version of the game is accounted for: by one request that can be
\* replayed or by one forfeited turn.
EveryVersionAccounted ==
  db.version = Cardinality(db.results)
                 + Cardinality({i \in 1 .. Len(db.turns) : db.turns[i].status = "timed_out"})

\* The first answer to a request is final: delivered again, an accepted one is
\* never refused and a refused one never takes effect.
AnswerIsFinal == accepted \cap refused = {}

\* The deadline alone decides a race between an answer and the sweep: the
\* turns forfeited are exactly the resolved ones whose deadline had passed.
DeadlineDecides ==
  \A i \in 1 .. Len(db.turns) :
    db.turns[i].status # "active" =>
      (db.turns[i].overdue <=> db.turns[i].status = "timed_out")

\* The computer is never punished for an invalid commit: what it read piece by
\* piece without a lock takes effect only if it was the game all along.
BotNeverPenalised ==
  \A i \in 1 .. Len(db.turns) :
    db.turns[i].seat \in Bots => db.turns[i].status # "invalid_commit"

\* A move takes effect on exactly the game its player was looking at, and the
\* computer's on the game it pieced together.
AppliedAsSeen ==
  [][/\ \A r \in sent :
          r.kind \in Moves /\ ~ IsReplay(db, r) /\ IsReplay(db', r) => r.seen = db.game
     /\ \A w \in Drivers :
          bot[w].stage = "read" /\ bot'[w] = Idle /\ db'.results # db.results
            => bot[w].game = db.game]_vars

\* Seen from outside, all this is the game of Game.tla.
G == INSTANCE Game WITH game <- db.game
ImplementsGame == G!Spec

-----------------------------------------------------------------------------
\* A computer's turn ends by the recovery sweep alone, clock or no clock.
BotTurnEnds ==
  BotSweepRuns =>
    \A s \in Bots : db.game.activeSeat = s ~>
                      (db.game.activeSeat # s \/ db.game.status = "completed")

\* E-ABANDON: a game everybody has walked away from still ends, as long as its
\* deadlines pass.
GameEnds == WF_vars(DeadlinePasses) => <>(db.game.status = "completed")
===============================================================================
