-------------------------------- MODULE Engine --------------------------------
(***************************************************************************)
(* The pure rules engine (packages/engine): one operator per transition of *)
(* turns.ts over a game-state record, with the rotation, the end-of-game   *)
(* test and the scoring it calls.                                          *)
(*                                                                         *)
(* A tile is named by its position: the tiles of the shuffled pool are     *)
(* 1..PoolSize in pool order, the dealt ones are PoolSize+1..NumTiles.     *)
(* Tiles are drawn from the END of the pool, so a pool is the number of    *)
(* tiles left in it (the code stores pool_order and pool_cursor).          *)
(*                                                                         *)
(* The table is a set of rows.  A row is an ORDERED list of tiles, because *)
(* order decides whether a run is valid and what its jokers stand for.     *)
(* What a row holds enters only through TilesOf; whether validateSet       *)
(* accepts it, through Melds; its setFaceValue, through MeldValue.         *)
(* SetRules.tla defines the three for real tiles.                          *)
(***************************************************************************)
EXTENDS Integers, FiniteSets, FiniteSetsExt

CONSTANTS
  NumSeats,     \* players in this game
  NumTiles,     \* tiles in the catalog
  PoolSize,     \* tiles left in the pool by the deal
  Hand,         \* the rack dealt to each seat
  TileNumber,   \* the number printed on a tile that is not a joker
  Jokers,       \* the joker tiles
  Rows,         \* the rows of tiles that may be laid on the table
  TilesOf,      \* the tiles of a row
  Melds,        \* the rows that are a valid run or group
  MeldValue     \* the face value of a meld, jokers as represented

Seat == 0 .. NumSeats - 1
Tile == 1 .. NumTiles

\* docs: 2 to 4 players; packages/engine never deals to fewer than two.
ASSUME SeatAssumption == NumSeats \in Nat /\ NumSeats >= 2
\* The deal gives every tile one place and every seat a non-empty rack.
ASSUME DealAssumption ==
  /\ NumTiles \in Nat
  /\ PoolSize \in 0 .. NumTiles
  /\ Hand \in [Seat -> SUBSET Tile]
  /\ \A s \in Seat : Hand[s] # {}
  /\ \A s, t \in Seat : s # t => Hand[s] \cap Hand[t] = {}
  /\ UNION {Hand[s] : s \in Seat} = (PoolSize + 1) .. NumTiles
\* The catalog: numbered tiles, jokers, and which rows are runs or groups.
ASSUME CatalogAssumption ==
  /\ TileNumber \in [Tile -> Nat]
  /\ Jokers \subseteq Tile
  /\ TilesOf \in [Rows -> SUBSET Tile]
  /\ Melds \subseteq Rows
  /\ MeldValue \in [Melds -> Nat]

INITIAL_MELD_THRESHOLD == 30
PENALTY_TILE_COUNT == 3
JOKER_RACK_PENALTY == 30

-----------------------------------------------------------------------------
(* The state of a game and the queries on it *)

\* Why a game ended; the winner and the scores follow from the state it
\* ended in, which never changes again (WinnerOf and Score below).
EndReason == {"empty_rack", "last_active_standing", "pool_exhausted"}

GameState ==
  [pool : 0 .. PoolSize, rack : [Seat -> SUBSET Tile], table : SUBSET Rows,
   seatStatus : [Seat -> {"active", "resigned"}],
   hasInitialMeld : [Seat -> BOOLEAN],
   activeSeat : Seat, consecutivePasses : Nat,
   status : {"active", "completed"}, endReason : EndReason \cup {"none"}]

\* What dealNewGame leaves when seat `start` is drawn to begin.
DealtGame(start) ==
  [pool |-> PoolSize, rack |-> Hand, table |-> {},
   seatStatus |-> [s \in Seat |-> "active"],
   hasInitialMeld |-> [s \in Seat |-> FALSE],
   activeSeat |-> start, consecutivePasses |-> 0,
   status |-> "active", endReason |-> "none"]

PoolTiles(g) == 1 .. g.pool
TilesIn(rows) == UNION {TilesOf[m] : m \in rows}
TableTiles(g) == TilesIn(g.table)
ActiveSeats(g) == {s \in Seat : g.seatStatus[s] = "active"}

\* Seats passed when walking round the table from seat a to seat b.
Distance(a, b) == IF a <= b THEN b - a ELSE b - a + NumSeats

\* The first active seat met when walking round from seat `start` itself.
FirstActiveFrom(g, start) ==
  CHOOSE s \in ActiveSeats(g) :
    \A t \in ActiveSeats(g) : Distance(start, s) <= Distance(start, t)

SeatAfter(s) == IF s = NumSeats - 1 THEN 0 ELSE s + 1

\* Fault: resigned seats are not skipped.
NextActiveSeat_NoSkip(g, s) == SeatAfter(s)

NextActiveSeat(g, s) == FirstActiveFrom(g, SeatAfter(s))

-----------------------------------------------------------------------------
(* Scoring *)

TileFaceValue(t) == IF t \in Jokers THEN JOKER_RACK_PENALTY ELSE TileNumber[t]
RackFaceValue(rack) == MapThenSumSet(TileFaceValue, rack)

\* E-TIE: lowest face value, then fewest tiles, then next in turn order.
BeatsOnTie(g, s, t) ==
  LET v(x) == RackFaceValue(g.rack[x])
      n(x) == Cardinality(g.rack[x])
      d(x) == Distance(g.activeSeat, x)
  IN  \/ v(s) < v(t)
      \/ v(s) = v(t) /\ n(s) < n(t)
      \/ v(s) = v(t) /\ n(s) = n(t) /\ d(s) <= d(t)

PickPoolExhaustionWinner(g) ==
  CHOOSE s \in ActiveSeats(g) : \A t \in ActiveSeats(g) : BeatsOnTie(g, s, t)

\* Fault: a resigned seat is paid off with a difference like the others.
LoserPoints_ResignedToo(g, winner, s) ==
  IF g.endReason = "pool_exhausted"
  THEN -(RackFaceValue(g.rack[s]) - RackFaceValue(g.rack[winner]))
  ELSE -RackFaceValue(g.rack[s])

\* What a seat that did not win scores.
LoserPoints(g, winner, s) ==
  IF g.endReason = "pool_exhausted" /\ g.seatStatus[s] = "active"
  THEN -(RackFaceValue(g.rack[s]) - RackFaceValue(g.rack[winner]))
  ELSE -RackFaceValue(g.rack[s])

-----------------------------------------------------------------------------
(* The end of the game *)

EmptyRackSeats(g) == {s \in ActiveSeats(g) : g.rack[s] = {}}
PoolExhausted(g) ==
  g.pool = 0 /\ g.consecutivePasses >= Cardinality(ActiveSeats(g))

\* Fault: an exhausted pool does not end the game.
EndReasonOf_NoStalemate(g) ==
  IF EmptyRackSeats(g) # {} THEN "empty_rack"
  ELSE IF Cardinality(ActiveSeats(g)) = 1 THEN "last_active_standing"
  ELSE "none"

\* detectGameEnd: has the game just ended?
EndReasonOf(g) ==
  IF EmptyRackSeats(g) # {} THEN "empty_rack"
  ELSE IF Cardinality(ActiveSeats(g)) = 1 THEN "last_active_standing"
  ELSE IF PoolExhausted(g) THEN "pool_exhausted"
  ELSE "none"

\* The tail of every transition.
FinalizeTransition(g) ==
  IF EndReasonOf(g) = "none" THEN g
  ELSE [g EXCEPT !.status = "completed", !.endReason = EndReasonOf(g)]

\* Who won the completed game g, and what every seat scores in it.
WinnerOf(g) ==
  CASE g.endReason = "empty_rack" -> Min(EmptyRackSeats(g))
    [] g.endReason = "last_active_standing" -> CHOOSE s \in ActiveSeats(g) : TRUE
    [] g.endReason = "pool_exhausted" -> PickPoolExhaustionWinner(g)

Score(g) ==
  LET winner == WinnerOf(g)
      lost(s) == LoserPoints(g, winner, s)
  IN  [s \in Seat |-> IF s = winner THEN -MapThenSumSet(lost, Seat \ {winner})
                                    ELSE lost(s)]

-----------------------------------------------------------------------------
(* The transitions *)

\* Faults: the penalty ignores what is left; the slice is off by one.
DrawCount_Unbounded(g, n) == n
LastTiles_OffByOne(g, n) == (g.pool - n) .. (g.pool - 1)

\* The last n tiles of the pool, fewer when it runs out.
DrawCount(g, n) == IF g.pool < n THEN g.pool ELSE n
LastTiles(g, n) == (g.pool - n + 1) .. g.pool

\* The tiles of a proposed table that are not on the table yet.
Added(g, proposed) == TilesIn(proposed) \ TableTiles(g)

\* setKey: the sets of tiles on a table, whatever their order in the row.
SetKeys(rows) == {TilesOf[m] : m \in rows}

\* A first meld leaves every set on the table whole and is worth 30 or more.
OpensWell(g, proposed) ==
  LET worth(m) == MeldValue[m]
      new == {m \in proposed : TilesOf[m] \notin SetKeys(g.table)}
  IN  /\ SetKeys(g.table) \subseteq SetKeys(proposed)
      /\ MapThenSumSet(worth, new) >= INITIAL_MELD_THRESHOLD

\* Fault: tiles of the table may be taken back.
ValidTurn_TakesBack(g, s, proposed) ==
  /\ proposed \subseteq Melds
  /\ \A m1, m2 \in proposed : m1 # m2 => TilesOf[m1] \cap TilesOf[m2] = {}
  /\ Added(g, proposed) \subseteq g.rack[s]
  /\ Added(g, proposed) # {}
  /\ g.hasInitialMeld[s] \/ OpensWell(g, proposed)

\* validateTurn: is the table `proposed` acceptable from seat s?
ValidTurn(g, s, proposed) ==
  /\ proposed \subseteq Melds
  /\ \A m1, m2 \in proposed : m1 # m2 => TilesOf[m1] \cap TilesOf[m2] = {}
  /\ TableTiles(g) \subseteq TilesIn(proposed)
  /\ Added(g, proposed) \subseteq g.rack[s]
  /\ Added(g, proposed) # {}
  /\ g.hasInitialMeld[s] \/ OpensWell(g, proposed)

\* The seat draws n tiles and the turn moves on, `passes` counted so far.
DrawAndAdvance(g, s, n, passes) ==
  FinalizeTransition(
    [g EXCEPT !.pool = g.pool - n,
              !.rack[s] = g.rack[s] \cup LastTiles(g, n),
              !.activeSeat = NextActiveSeat(g, s),
              !.consecutivePasses = passes])

\* Fault: a forfeited turn does not count as a pass.
Penalize_NoPass(g, s) == DrawAndAdvance(g, s, DrawCount(g, PENALTY_TILE_COUNT), 0)

\* An invalid commit and a timeout cost the same: up to three tiles, the turn.
Penalize(g, s) ==
  DrawAndAdvance(g, s, DrawCount(g, PENALTY_TILE_COUNT), g.consecutivePasses + 1)

\* Fault: the first meld is not noted down.
ApplyCommit_ForgetsMeld(g, s, proposed) ==
  IF ValidTurn(g, s, proposed)
  THEN FinalizeTransition(
         [g EXCEPT !.table = proposed,
                   !.rack[s] = g.rack[s] \ Added(g, proposed),
                   !.activeSeat = NextActiveSeat(g, s),
                   !.consecutivePasses = 0])
  ELSE Penalize(g, s)

ApplyCommit(g, s, proposed) ==
  IF ValidTurn(g, s, proposed)
  THEN FinalizeTransition(
         [g EXCEPT !.table = proposed,
                   !.rack[s] = g.rack[s] \ Added(g, proposed),
                   !.hasInitialMeld[s] = TRUE,
                   !.activeSeat = NextActiveSeat(g, s),
                   !.consecutivePasses = 0])
  ELSE Penalize(g, s)

ApplyDraw(g, s) == DrawAndAdvance(g, s, 1, 0)

ApplyPass(g, s) == DrawAndAdvance(g, s, 0, g.consecutivePasses + 1)

ApplyTimeout(g, s) == Penalize(g, s)

ApplyResign(g, s) ==
  LET left == [g EXCEPT !.seatStatus[s] = "resigned"]
  IN  FinalizeTransition(
        [left EXCEPT !.activeSeat = IF g.activeSeat = s THEN NextActiveSeat(left, s)
                                                        ELSE g.activeSeat])

-----------------------------------------------------------------------------
(* What holds of the state between two transitions *)

WellTyped(g) ==
  /\ g \in GameState
  /\ g.status = "active" <=> g.endReason = "none"

Conserved(g) ==
  /\ PoolTiles(g) \cup (UNION {g.rack[s] : s \in Seat}) \cup TableTiles(g) = Tile
  /\ PoolTiles(g) \cap TableTiles(g) = {}
  /\ \A s \in Seat : g.rack[s] \cap (PoolTiles(g) \cup TableTiles(g)) = {}
  /\ \A s, t \in Seat : s # t => g.rack[s] \cap g.rack[t] = {}
  /\ \A m1, m2 \in g.table : m1 # m2 => TilesOf[m1] \cap TilesOf[m2] = {}

CanGoOn(g) ==
  /\ g.seatStatus[g.activeSeat] = "active"
  /\ \E s \in ActiveSeats(g) : s # g.activeSeat
  /\ EmptyRackSeats(g) = {}
  /\ ~ PoolExhausted(g)

\* The inductive invariant behind GameIsLive.
Sound(g) ==
  /\ WellTyped(g)
  /\ g.seatStatus[g.activeSeat] = "active"
  /\ g.status = "active" => CanGoOn(g)
=============================================================================
