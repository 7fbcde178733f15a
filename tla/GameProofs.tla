------------------------------ MODULE GameProofs ------------------------------
(***************************************************************************)
(* What holds of every game, for any number of seats, any deal and any set *)
(* of proposals: one step per action of Game.tla, on the lemmas about the  *)
(* engine.                                                                 *)
(***************************************************************************)
EXTENDS Game, EngineProofs

\* One step of the game keeps it sound.
LEMMA StepIsSound ==
  ASSUME Sound(game), Next  PROVE  Sound(game')
<1> SUFFICES ASSUME NEW s \in Seat,
                    \/ \E proposed \in Proposals : Commit(s, proposed)
                    \/ Draw(s) \/ Pass(s) \/ Timeout(s)
                    \/ Resign(s) \/ TimeoutThenResign(s)
             PROVE  Sound(game')
  BY DEF Next
<1>1. ASSUME NEW proposed \in Proposals, Commit(s, proposed)  PROVE  Sound(game')
  <2>1. proposed \in SUBSET Rows
    BY ProposalsAssumption
  <2>. QED  BY <1>1, <2>1, ApplyCommitIsSound DEF Commit, InTurn
<1>2. CASE Draw(s)
  <2>1. 1 \in 0 .. game.pool
    BY <1>2, DealAssumption DEF Draw, Sound, WellTyped, GameState
  <2>. QED  BY <1>2, <2>1, DrawAndAdvanceIsSound DEF Draw, InTurn, ApplyDraw
<1>3. CASE Pass(s)
  <2>1. 0 \in 0 .. game.pool /\ game.consecutivePasses + 1 \in Nat
    BY <1>3 DEF Pass, Sound, WellTyped, GameState
  <2>. QED  BY <1>3, <2>1, DrawAndAdvanceIsSound DEF Pass, InTurn, ApplyPass
<1>4. CASE Timeout(s)
  BY <1>4, PenalizeIsSound DEF Timeout, InTurn, ApplyTimeout
<1>5. CASE Resign(s)
  BY <1>5, ApplyResignIsSound DEF Resign
<1>6. CASE TimeoutThenResign(s)
  <2> DEFINE settled == ApplyTimeout(game, game.activeSeat)
  <2>1. Sound(settled)
    BY <1>6, PenalizeIsSound DEF TimeoutThenResign, ApplyTimeout
  <2>2. settled.status = "active" /\ settled.seatStatus[s] = "active"
        /\ game' = ApplyResign(settled, s)
    BY <1>6 DEF TimeoutThenResign
  <2>. QED  BY <2>1, <2>2, ApplyResignIsSound
<1>. QED  BY <1>1, <1>2, <1>3, <1>4, <1>5, <1>6

\* Every game of every size stays well typed, and while it is active the turn
\* is with a seat that plays, somebody else plays too, nobody has run out of
\* tiles and no stalemate goes undetected.
THEOREM SoundAlways == Spec => []Sound(game)
<1>1. Init => Sound(game)
  BY DealIsSound DEF Init
<1>2. Sound(game) /\ [Next]_game => Sound(game)'
  BY StepIsSound
<1>. QED  BY <1>1, <1>2, PTL DEF Spec

\* The fields of the game record keep their types for every deal and every
\* number of seats.
THEOREM TypeCorrect == Spec => []TypeOK
<1>1. Sound(game) => TypeOK
  BY DEF Sound, TypeOK
<1>. QED  BY <1>1, SoundAlways, PTL

\* nextActiveSeat never finds the rotation empty and no end of a game goes
\* undetected.
THEOREM LiveAlways == Spec => []GameIsLive
<1>1. Sound(game) => GameIsLive
  BY DEF Sound, GameIsLive
<1>. QED  BY <1>1, SoundAlways, PTL

\* Every step of the game keeps each tile in one place, and lays accepted rows.
LEMMA StepIntact ==
  ASSUME Sound(game), Intact(game), Next  PROVE  Intact(game')
<1> SUFFICES ASSUME NEW s \in Seat,
                    \/ \E proposed \in Proposals : Commit(s, proposed)
                    \/ Draw(s) \/ Pass(s) \/ Timeout(s)
                    \/ Resign(s) \/ TimeoutThenResign(s)
             PROVE  Intact(game')
  BY DEF Next
<1>1. ASSUME NEW proposed \in Proposals, Commit(s, proposed)  PROVE  Intact(game')
  <2>1. proposed \in SUBSET Rows
    BY ProposalsAssumption
  <2>. QED  BY <1>1, <2>1, ApplyCommitKeepsIntact DEF Commit, InTurn
<1>2. CASE Draw(s)
  <2>1. 1 \in 0 .. game.pool
    BY <1>2, DealAssumption DEF Draw, Sound, WellTyped, GameState
  <2>. QED  BY <1>2, <2>1, DrawKeepsIntact DEF Draw, InTurn, ApplyDraw
<1>3. CASE Pass(s)
  <2>1. 0 \in 0 .. game.pool /\ game.consecutivePasses + 1 \in Nat
    BY <1>3 DEF Pass, Sound, WellTyped, GameState
  <2>. QED  BY <1>3, <2>1, DrawKeepsIntact DEF Pass, InTurn, ApplyPass
<1>4. CASE Timeout(s)
  BY <1>4, PenalizeKeepsIntact DEF Timeout, InTurn, ApplyTimeout
<1>5. CASE Resign(s)
  BY <1>5, ApplyResignKeepsIntact DEF Resign
<1>6. CASE TimeoutThenResign(s)
  <2> DEFINE settled == ApplyTimeout(game, game.activeSeat)
  <2>1. Sound(settled) /\ Intact(settled)
    BY <1>6, PenalizeIsSound, PenalizeKeepsIntact DEF TimeoutThenResign, ApplyTimeout
  <2>2. settled.status = "active" /\ settled.seatStatus[s] = "active"
        /\ game' = ApplyResign(settled, s)
    BY <1>6 DEF TimeoutThenResign
  <2>. QED  BY <2>1, <2>2, ApplyResignKeepsIntact
<1>. QED  BY <1>1, <1>2, <1>3, <1>4, <1>5, <1>6

\* However long the game and whatever is proposed: no tile is out of place, and
\* every row on the table is one the rules accept.
THEOREM IntactAlways == Spec => []Intact(game)
<1>1. Init => Sound(game) /\ Intact(game)
  <2> SUFFICES ASSUME NEW start \in Seat  PROVE Sound(DealtGame(start)) /\ Intact(DealtGame(start))
    BY DEF Init
  <2>1. DealtGame(start).table = {}
    BY DEF DealtGame
  <2>. QED  BY <2>1, DealIsSound, DealConserves DEF Intact
<1>2. Sound(game) /\ Intact(game) /\ [Next]_game => (Sound(game) /\ Intact(game))'
  BY StepIsSound, StepIntact
<1>. QED  BY <1>1, <1>2, PTL DEF Spec

\* Every tile of the catalog is in exactly one place: the pool, one rack or one
\* row on the table.
THEOREM ConservedAlways == Spec => []TilesConserved
<1>1. Intact(game) => TilesConserved
  BY DEF Intact, TilesConserved
<1>. QED  BY <1>1, IntactAlways, PTL

\* Every step is one of a game still going on, and moves tiles forward only.
LEMMA StepMoves ==
  ASSUME Sound(game), Next
  PROVE  game.status = "active" /\ MovesOn(game, game')
<1> SUFFICES ASSUME NEW s \in Seat,
                    \/ \E proposed \in Proposals : Commit(s, proposed)
                    \/ Draw(s) \/ Pass(s) \/ Timeout(s)
                    \/ Resign(s) \/ TimeoutThenResign(s)
             PROVE  game.status = "active" /\ MovesOn(game, game')
  BY DEF Next
<1>0. game.pool \in Nat /\ game.consecutivePasses + 1 \in Nat
  BY DealAssumption DEF Sound, WellTyped, GameState
<1>1. ASSUME NEW proposed \in Proposals, Commit(s, proposed)
      PROVE  game.status = "active" /\ MovesOn(game, game')
  <2>1. proposed \in SUBSET Rows
    BY ProposalsAssumption
  <2>. QED  BY <1>1, <2>1, ApplyCommitMoves DEF Commit, InTurn
<1>2. CASE Draw(s)
  <2>1. 1 \in 0 .. game.pool
    BY <1>0, <1>2 DEF Draw
  <2>. QED  BY <1>2, <2>1, DrawAndAdvanceMoves DEF Draw, InTurn, ApplyDraw
<1>3. CASE Pass(s)
  <2>1. 0 \in 0 .. game.pool
    BY <1>3 DEF Pass
  <2>. QED  BY <1>0, <1>3, <2>1, DrawAndAdvanceMoves DEF Pass, InTurn, ApplyPass
<1>4. CASE Timeout(s)
  BY <1>4, PenalizeMoves DEF Timeout, InTurn, ApplyTimeout
<1>5. CASE Resign(s)
  <2>1. game.pool <= game.pool
    BY <1>0
  <2>. QED  BY <1>5, <2>1, ApplyResignMoves
     DEF Resign, MovesOn, Forward, KeepsResigned, KeepsUnopened, TableTiles
<1>6. CASE TimeoutThenResign(s)
  <2> DEFINE settled == ApplyTimeout(game, game.activeSeat)
  <2>1. game.status = "active" /\ settled.status = "active" /\ settled.seatStatus[s] = "active"
        /\ game' = ApplyResign(settled, s)
    BY <1>6 DEF TimeoutThenResign
  <2>2. Sound(settled) /\ MovesOn(game, settled)
    BY <2>1, PenalizeIsSound, PenalizeMoves DEF ApplyTimeout
  <2> HIDE DEF settled
  <2>3. /\ game'.pool = settled.pool /\ game'.rack = settled.rack /\ game'.table = settled.table
        /\ game'.hasInitialMeld = settled.hasInitialMeld
        /\ \A t \in Seat : settled.seatStatus[t] = "resigned" => game'.seatStatus[t] = "resigned"
    BY <2>1, <2>2, ApplyResignMoves
  <2>. QED  BY <2>1, <2>2, <2>3 DEF MovesOn, Forward, KeepsResigned, KeepsUnopened, TableTiles
<1>. QED  BY <1>1, <1>2, <1>3, <1>4, <1>5, <1>6

\* In any game a laid tile stays on the table and a rack loses tiles only to
\* its owner's own turn.
THEOREM ForwardAlways == Spec => TilesMoveForward
<1>1. Sound(game) /\ [Next]_game => [Forward(game, game')]_game
  BY StepMoves DEF MovesOn
<1>2. Spec => [][Forward(game, game')]_game
  BY <1>1, SoundAlways, PTL DEF Spec
<1>. QED  BY <1>2 DEF TilesMoveForward, Forward

\* In any game a resigned seat keeps its rack, never plays again, and nothing
\* changes once the game is over.
THEOREM ResignedForGood == Spec => ResignationIsFinal
<1> DEFINE A == /\ game.status = "active"
                /\ \A s \in Seat : game.seatStatus[s] = "resigned" =>
                     /\ game'.seatStatus[s] = "resigned"
                     /\ game'.rack[s] = game.rack[s]
                     /\ game'.activeSeat # s
<1>1. Sound(game) /\ Sound(game') /\ Next => A
  <2> SUFFICES ASSUME Sound(game), Sound(game'), Next  PROVE A
    OBVIOUS
  <2>1. game.status = "active" /\ KeepsResigned(game, game')
    BY StepMoves DEF MovesOn
  <2>2. game'.seatStatus[game'.activeSeat] = "active"
    BY DEF Sound
  <2>. QED  BY <2>1, <2>2 DEF KeepsResigned
<1>2. Sound(game) /\ Sound(game)' /\ [Next]_game => [A]_game
  BY <1>1
<1> HIDE DEF A
<1>3. Spec => [][A]_game
  BY <1>2, SoundAlways, PTL DEF Spec
<1>. QED  BY <1>3 DEF A, ResignationIsFinal

\* In any game a seat that has not melded yet holds every tile it was dealt.
THEOREM UnopenedHandsWhole == Spec => []NothingLaidBeforeFirstMeld
<1>1. Init => NothingLaidBeforeFirstMeld
  BY DEF Init, DealtGame, NothingLaidBeforeFirstMeld
<1>2. Sound(game) /\ NothingLaidBeforeFirstMeld /\ [Next]_game => NothingLaidBeforeFirstMeld'
  <2> SUFFICES ASSUME Sound(game), NothingLaidBeforeFirstMeld, [Next]_game
               PROVE  NothingLaidBeforeFirstMeld'
    OBVIOUS
  <2>1. CASE Next
    BY <2>1, StepMoves DEF NothingLaidBeforeFirstMeld, MovesOn, KeepsUnopened
  <2>2. CASE UNCHANGED game
    BY <2>2 DEF NothingLaidBeforeFirstMeld
  <2>. QED  BY <2>1, <2>2
<1>. QED  BY <1>1, <1>2, SoundAlways, PTL DEF Spec

-----------------------------------------------------------------------------
(* How a game ends *)

\* A completed game is recorded with the reason detectGameEnd gives in the state
\* it ended in.
EndsWell(g) ==
  g.status = "completed" => g.endReason = EndReasonOf(g) /\ g.endReason # "none"

\* FinalizeTransition marks the end it detects and nothing detectGameEnd reads.
LEMMA FinalizeEnds ==
  ASSUME NEW g, g = [x \in DOMAIN g |-> g[x]], g.status = "active",
         NEW old \in GameState, DOMAIN g = DOMAIN old
  PROVE  EndsWell(FinalizeTransition(g))
<1> DEFINE f == FinalizeTransition(g)
<1>1. DOMAIN g = {"pool", "rack", "table", "seatStatus", "hasInitialMeld", "activeSeat",
                  "consecutivePasses", "status", "endReason"}
  BY DEF GameState
<1>2. CASE EndReasonOf(g) = "none"
  BY <1>2 DEF FinalizeTransition, EndsWell
<1>3. CASE EndReasonOf(g) # "none"
  <2>1. f = [g EXCEPT !.status = "completed", !.endReason = EndReasonOf(g)]
    BY <1>3 DEF FinalizeTransition
  <2>2. /\ f.pool = g.pool /\ f.rack = g.rack /\ f.seatStatus = g.seatStatus
        /\ f.consecutivePasses = g.consecutivePasses /\ f.endReason = EndReasonOf(g)
    BY <1>1, <2>1
  <2>3. EndReasonOf(f) = EndReasonOf(g)
    BY <2>2 DEF EndReasonOf, EmptyRackSeats, ActiveSeats, PoolExhausted
  <2>. QED  BY <1>3, <2>2, <2>3 DEF EndsWell
<1>. QED  BY <1>2, <1>3

\* So a turn that is passed, forfeited or drawn ends the game for its reason,
LEMMA DrawAndAdvanceEnds ==
  ASSUME NEW g \in GameState, g.status = "active", NEW s, NEW n, NEW passes
  PROVE  EndsWell(DrawAndAdvance(g, s, n, passes))
<1> DEFINE h == [g EXCEPT !.pool = g.pool - n,
                          !.rack[s] = g.rack[s] \cup LastTiles(g, n),
                          !.activeSeat = NextActiveSeat(g, s),
                          !.consecutivePasses = passes]
<1>1. DOMAIN h = DOMAIN g /\ h = [x \in DOMAIN h |-> h[x]] /\ h.status = "active"
  BY DEF GameState
<1>. QED  BY <1>1, FinalizeEnds DEF DrawAndAdvance

\* and a commit,
LEMMA ApplyCommitEnds ==
  ASSUME NEW g \in GameState, g.status = "active", NEW s, NEW proposed
  PROVE  EndsWell(ApplyCommit(g, s, proposed))
<1> DEFINE h == [g EXCEPT !.table = proposed,
                          !.rack[s] = g.rack[s] \ Added(g, proposed),
                          !.hasInitialMeld[s] = TRUE,
                          !.activeSeat = NextActiveSeat(g, s),
                          !.consecutivePasses = 0]
<1>1. DOMAIN h = DOMAIN g /\ h = [x \in DOMAIN h |-> h[x]] /\ h.status = "active"
  BY DEF GameState
<1>. QED  BY <1>1, FinalizeEnds, DrawAndAdvanceEnds DEF ApplyCommit, Penalize

\* and a resignation.
LEMMA ApplyResignEnds ==
  ASSUME NEW g \in GameState, g.status = "active", NEW s
  PROVE  EndsWell(ApplyResign(g, s))
<1> DEFINE left == [g EXCEPT !.seatStatus[s] = "resigned"]
           h == [left EXCEPT !.activeSeat = IF g.activeSeat = s THEN NextActiveSeat(left, s)
                                                                ELSE g.activeSeat]
<1>1. DOMAIN left = DOMAIN g /\ left.status = "active" /\ left = [x \in DOMAIN left |-> left[x]]
  BY DEF GameState
<1>2. DOMAIN h = DOMAIN g /\ h = [x \in DOMAIN h |-> h[x]] /\ h.status = "active"
  BY <1>1 DEF GameState
<1>3. ApplyResign(g, s) = FinalizeTransition(h)
  BY DEF ApplyResign
<1> HIDE DEF h
<1>. QED  BY <1>2, <1>3, FinalizeEnds

\* Every step of the game ends it, if at all, for a reason that holds after it.
LEMMA StepEnds ==
  ASSUME Sound(game), Next  PROVE  EndsWell(game')
<1>0. game \in GameState
  BY DEF Sound, WellTyped
<1> SUFFICES ASSUME NEW s \in Seat,
                    \/ \E proposed \in Proposals : Commit(s, proposed)
                    \/ Draw(s) \/ Pass(s) \/ Timeout(s)
                    \/ Resign(s) \/ TimeoutThenResign(s)
             PROVE  EndsWell(game')
  BY DEF Next
<1>1. ASSUME NEW proposed \in Proposals, Commit(s, proposed)  PROVE  EndsWell(game')
  BY <1>0, <1>1, ApplyCommitEnds DEF Commit, InTurn
<1>2. CASE Draw(s) \/ Pass(s) \/ Timeout(s)
  BY <1>0, <1>2, DrawAndAdvanceEnds
     DEF Draw, Pass, Timeout, InTurn, ApplyDraw, ApplyPass, ApplyTimeout, Penalize
<1>3. CASE Resign(s)
  BY <1>0, <1>3, ApplyResignEnds DEF Resign
<1>4. CASE TimeoutThenResign(s)
  <2> DEFINE settled == ApplyTimeout(game, game.activeSeat)
  <2>1. settled \in GameState
    BY <1>4, PenalizeIsSound DEF TimeoutThenResign, ApplyTimeout, Sound, WellTyped
  <2>2. settled.status = "active" /\ game' = ApplyResign(settled, s)
    BY <1>4 DEF TimeoutThenResign
  <2> HIDE DEF settled
  <2>. QED  BY <2>1, <2>2, ApplyResignEnds
<1>. QED  BY <1>1, <1>2, <1>3, <1>4

-----------------------------------------------------------------------------
(* The scores *)

\* The tiles on a rack are finitely many and worth a natural number.
LEMMA RackWorth ==
  ASSUME NEW rack \in SUBSET Tile
  PROVE  Cardinality(rack) \in Nat /\ RackFaceValue(rack) \in Nat
<1> DEFINE v == [t \in rack |-> TileFaceValue(t)]
           Rec(F) == F = [s \in SUBSET rack |->
                            IF s = {} THEN 0 ELSE TileFaceValue(Pick(s)) + F[s \ {Pick(s)}]]
           sums == CHOOSE F : Rec(F)
<1>1. IsFiniteSet(rack) /\ Cardinality(rack) \in Nat
  <2>1. IsFiniteSet(Tile)
    BY DealAssumption, FS_Interval DEF Tile
  <2>. QED  BY <2>1, FS_Subset, FS_CardinalityType
<1>2. \A t \in rack : v[t] \in Nat
  <2>1. \A t \in rack : TileNumber[t] \in Nat
    BY CatalogAssumption
  <2>. QED  BY <2>1 DEF TileFaceValue, JOKER_RACK_PENALTY
<1>3. \A F : Rec(F) <=> Adds(F, v, rack)
  <2>1. \A s \in SUBSET rack : s # {} => v[Pick(s)] = TileFaceValue(Pick(s))
    BY DEF Pick
  <2> SUFFICES ASSUME NEW F  PROVE Rec(F) <=> Adds(F, v, rack)
    OBVIOUS
  <2>2. [s \in SUBSET rack |-> IF s = {} THEN 0 ELSE TileFaceValue(Pick(s)) + F[s \ {Pick(s)}]]
        = [s \in SUBSET rack |-> IF s = {} THEN 0 ELSE v[Pick(s)] + F[s \ {Pick(s)}]]
    <3> HIDE DEF v
    <3>. QED  BY <2>1
  <2> HIDE DEF v
  <2>. QED  BY <2>2 DEF Adds
<1>4. Adds(sums, v, rack)
  <2>1. \E F : Adds(F, v, rack)
    BY <1>1, SumExists
  <2>2. \E F : Rec(F)
    BY <1>3, <2>1
  <2> HIDE DEF Rec, v
  <2>3. Rec(sums)
    BY <2>2
  <2>. QED  BY <1>3, <2>3
<1>5. RackFaceValue(rack) = sums[rack]
  BY DEF RackFaceValue, MapThenSumSet, MapThenFoldSet, Pick
<1> HIDE DEF v, sums
<1>6. sums[rack] \in Int /\ sums[rack] >= 0
  <2>1. \A t \in rack : v[t] \in Int /\ v[t] >= 0
    BY <1>2
  <2>. QED  BY <1>1, <1>4, <2>1, SumSign
<1>. QED  BY <1>1, <1>5, <1>6

\* Some active seat beats every other on the tie-break.
LEMMA WinnerAtStalemate ==
  ASSUME NEW g \in GameState, ActiveSeats(g) # {}
  PROVE  /\ PickPoolExhaustionWinner(g) \in ActiveSeats(g)
         /\ \A t \in ActiveSeats(g) :
              RackFaceValue(g.rack[PickPoolExhaustionWinner(g)]) <= RackFaceValue(g.rack[t])
<1> DEFINE v(x) == RackFaceValue(g.rack[x])
           n(x) == Cardinality(g.rack[x])
           d(x) == Distance(g.activeSeat, x)
           A == ActiveSeats(g)
<1>1. A \subseteq Seat /\ g.activeSeat \in Seat /\ \A x \in A : g.rack[x] \in SUBSET Tile
  BY DEF ActiveSeats, GameState
<1>2. \A x \in A : v(x) \in Nat /\ n(x) \in Nat /\ d(x) \in Nat
  <2>1. \A x \in A : d(x) \in Nat
    BY <1>1, SeatAssumption DEF Distance, Seat
  <2>. QED  BY <1>1, <2>1, RackWorth
<1> HIDE DEF v, n, d, A
<1>3. PICK a \in A : \A x \in A : v(a) <= v(x)
  <2> DEFINE S == {v(x) : x \in A}
  <2>1. S \in SUBSET Nat /\ S # {}
    BY <1>2 DEF A
  <2> HIDE DEF S
  <2>2. PICK k \in S : \A m \in S : k <= m
    BY <2>1, LeastNatural
  <2>. QED  BY <2>2 DEF S
<1> DEFINE B == {x \in A : v(x) = v(a)}
<1>4. PICK b \in B : \A x \in B : n(b) <= n(x)
  <2> DEFINE S == {n(x) : x \in B}
  <2>1. S \in SUBSET Nat /\ S # {}
    BY <1>2
  <2> HIDE DEF S
  <2>2. PICK k \in S : \A m \in S : k <= m
    BY <2>1, LeastNatural
  <2>. QED  BY <2>2 DEF S
<1> DEFINE C == {x \in B : n(x) = n(b)}
<1>5. PICK c \in C : \A x \in C : d(c) <= d(x)
  <2> DEFINE S == {d(x) : x \in C}
  <2>1. S \in SUBSET Nat /\ S # {}
    BY <1>2
  <2> HIDE DEF S
  <2>2. PICK k \in S : \A m \in S : k <= m
    BY <2>1, LeastNatural
  <2>. QED  BY <2>2 DEF S
<1>6. c \in A /\ \A t \in A : BeatsOnTie(g, c, t)
  <2> SUFFICES ASSUME NEW t \in A  PROVE BeatsOnTie(g, c, t)
    OBVIOUS
  <2>1. v(c) = v(a) /\ n(c) = n(b) /\ v(a) <= v(t)
    BY <1>3
  <2>2. v(t) = v(a) => n(b) <= n(t)
    BY <1>4
  <2>3. v(t) = v(a) /\ n(t) = n(b) => d(c) <= d(t)
    BY <1>5
  <2>4. \/ v(c) < v(t)
        \/ v(c) = v(t) /\ n(c) < n(t)
        \/ v(c) = v(t) /\ n(c) = n(t) /\ d(c) <= d(t)
    <3>1. v(c) \in Nat /\ v(t) \in Nat /\ n(c) \in Nat /\ n(t) \in Nat
      BY <1>2
    <3> HIDE DEF B, C
    <3>. QED  BY <2>1, <2>2, <2>3, <3>1
  <2>. QED  BY <2>4 DEF BeatsOnTie, v, n, d
<1> DEFINE w == PickPoolExhaustionWinner(g)
<1>7. w \in A /\ \A t \in A : BeatsOnTie(g, w, t)
  BY <1>6 DEF PickPoolExhaustionWinner, A
<1> HIDE DEF w
<1>8. \A t \in A : v(w) <= v(t)
  <2> SUFFICES ASSUME NEW t \in A  PROVE v(w) <= v(t)
    OBVIOUS
  <2>1. v(w) < v(t) \/ v(w) = v(t)
    BY <1>7 DEF BeatsOnTie, v, n, d
  <2>. QED  BY <1>2, <1>7, <2>1
<1>. QED  BY <1>7, <1>8 DEF v, w, A

\* The winner has not resigned, whatever the reason the game ended for.
LEMMA WinnerIsActive ==
  ASSUME NEW g, Sound(g), EndsWell(g), g.status = "completed"
  PROVE  WinnerOf(g) \in ActiveSeats(g)
<1>1. g \in GameState /\ g.endReason = EndReasonOf(g) /\ g.endReason # "none"
  BY DEF Sound, WellTyped, EndsWell
<1>2. CASE g.endReason = "empty_rack"
  <2>1. EmptyRackSeats(g) # {}
    BY <1>1, <1>2 DEF EndReasonOf
  <2>2. EmptyRackSeats(g) \in SUBSET Nat
    BY SeatAssumption DEF EmptyRackSeats, ActiveSeats, Seat
  <2>3. Min(EmptyRackSeats(g)) \in EmptyRackSeats(g)
    BY <2>1, <2>2, LeastNatural DEF Min
  <2>. QED  BY <1>2, <2>3 DEF WinnerOf, EmptyRackSeats
<1>3. CASE g.endReason = "last_active_standing"
  <2>1. ActiveSeats(g) # {}
    BY <1>1, <1>3 DEF Sound, ActiveSeats, GameState
  <2>2. (CHOOSE s \in ActiveSeats(g) : TRUE) \in ActiveSeats(g)
    BY <2>1
  <2>. QED  BY <1>3, <2>2 DEF WinnerOf
<1>4. CASE g.endReason = "pool_exhausted"
  <2>1. ActiveSeats(g) # {}
    BY <1>1, <1>4 DEF Sound, ActiveSeats, GameState
  <2>2. PickPoolExhaustionWinner(g) \in ActiveSeats(g)
    BY <1>1, <2>1, WinnerAtStalemate
  <2>. QED  BY <1>4, <2>2 DEF WinnerOf
<1>. QED  BY <1>1, <1>2, <1>3, <1>4 DEF GameState, EndReason

\* Nobody else gains, and a seat that resigned pays its whole rack.
LEMMA LosersPay ==
  ASSUME NEW g, Sound(g), EndsWell(g), g.status = "completed", NEW s \in Seat
  PROVE  LET lost == LoserPoints(g, WinnerOf(g), s)
         IN  /\ lost \in Int /\ lost <= 0
             /\ g.seatStatus[s] = "resigned" => lost = -RackFaceValue(g.rack[s])
<1> DEFINE w == WinnerOf(g)
<1>1. g \in GameState /\ w \in ActiveSeats(g) /\ w \in Seat
  BY WinnerIsActive DEF Sound, WellTyped, ActiveSeats
<1>2. RackFaceValue(g.rack[s]) \in Nat /\ RackFaceValue(g.rack[w]) \in Nat
  <2>1. g.rack[s] \in SUBSET Tile /\ g.rack[w] \in SUBSET Tile
    BY <1>1 DEF GameState
  <2>. QED  BY <2>1, RackWorth
<1>3. CASE g.endReason = "pool_exhausted" /\ g.seatStatus[s] = "active"
  <2>1. w = PickPoolExhaustionWinner(g)
    BY <1>3 DEF WinnerOf
  <2>2. s \in ActiveSeats(g)
    BY <1>3 DEF ActiveSeats
  <2>3. RackFaceValue(g.rack[w]) <= RackFaceValue(g.rack[s])
    BY <1>1, <2>1, <2>2, WinnerAtStalemate
  <2>4. LoserPoints(g, w, s) = -(RackFaceValue(g.rack[s]) - RackFaceValue(g.rack[w]))
    BY <1>3 DEF LoserPoints
  <2> HIDE DEF w
  <2>. QED  BY <1>2, <1>3, <2>3, <2>4 DEF w
<1>4. CASE ~ (g.endReason = "pool_exhausted" /\ g.seatStatus[s] = "active")
  <2>1. LoserPoints(g, w, s) = -RackFaceValue(g.rack[s])
    BY <1>4 DEF LoserPoints
  <2>. QED  BY <1>2, <2>1
<1>. QED  BY <1>3, <1>4

\* What the others lose the winner gains.
LEMMA ScoresBalance ==
  ASSUME NEW g, Sound(g), EndsWell(g), g.status = "completed"
  PROVE  LET p == Score(g)
             w == WinnerOf(g)
             of(s) == p[s]
         IN  /\ MapThenSumSet(of, Seat) = 0
             /\ g.seatStatus[w] = "active" /\ p[w] >= 0
             /\ \A s \in Seat \ {w} :
                  /\ p[s] <= 0
                  /\ g.seatStatus[s] = "resigned" => p[s] = -RackFaceValue(g.rack[s])
<1> DEFINE p == Score(g)
           w == WinnerOf(g)
           of(s) == p[s]
           others == Seat \ {w}
           lost(s) == LoserPoints(g, w, s)
           v == [s \in Seat |-> lost(s)]
           Rec(F) == F = [s \in SUBSET others |->
                            IF s = {} THEN 0 ELSE lost(Pick(s)) + F[s \ {Pick(s)}]]
           sums == CHOOSE F : Rec(F)
<1>1. w \in Seat /\ g.seatStatus[w] = "active"
  BY WinnerIsActive DEF ActiveSeats
<1>2. IsFiniteSet(Seat) /\ IsFiniteSet(others)
  <2>1. IsFiniteSet(Seat)
    BY SeatAssumption, FS_Interval DEF Seat
  <2>. QED  BY <2>1, FS_Subset
<1>3. \A s \in Seat : v[s] = lost(s) /\ v[s] \in Int /\ v[s] <= 0
  BY LosersPay
<1>4. Adds(sums, v, others)
  <2>1. \A s \in SUBSET others : s # {} => v[Pick(s)] = lost(Pick(s))
    BY <1>3 DEF Pick
  <2>2. ASSUME NEW F  PROVE Rec(F) <=> Adds(F, v, others)
    <3>1. [s \in SUBSET others |-> IF s = {} THEN 0 ELSE lost(Pick(s)) + F[s \ {Pick(s)}]]
          = [s \in SUBSET others |-> IF s = {} THEN 0 ELSE v[Pick(s)] + F[s \ {Pick(s)}]]
      <4> HIDE DEF v, lost, others
      <4>. QED  BY <2>1
    <3> HIDE DEF v, lost, others
    <3>. QED  BY <3>1 DEF Adds
  <2>3. \E F : Adds(F, v, others)
    BY <1>2, SumExists
  <2> HIDE DEF Rec, v, others
  <2>4. Rec(sums)
    BY <2>2, <2>3
  <2>. QED  BY <2>2, <2>4
<1>5. MapThenSumSet(lost, others) = sums[others]
  BY DEF MapThenSumSet, MapThenFoldSet, Pick
<1> HIDE DEF sums, Rec
<1>6. sums[others] \in Int /\ sums[others] <= 0
  <2>1. \A s \in others : v[s] \in Int /\ v[s] <= 0
    BY <1>3
  <2> HIDE DEF v, others
  <2>. QED  BY <1>2, <1>4, <2>1, SumSign
<1>7. \A s \in Seat : p[s] = IF s = w THEN -sums[others] ELSE v[s]
  <2>1. p = [s \in Seat |-> IF s = w THEN -MapThenSumSet(lost, others) ELSE lost(s)]
    BY DEF Score
  <2> HIDE DEF p, lost, others
  <2>. QED  BY <1>5, <2>1
<1>8. MapThenSumSet(of, Seat) = 0
  <2> DEFINE F == CHOOSE G : Adds(G, p, Seat)
  <2> HIDE DEF p, v, w
  <2>0. MapThenSumSet(of, Seat) = F[Seat]
    BY DEF MapThenSumSet, MapThenFoldSet, Pick, Adds
  <2>1. Adds(F, p, Seat)
    BY <1>2, SumExists
  <2> HIDE DEF F
  <2>2. \A s \in Seat : p[s] \in Int
    BY <1>3, <1>6, <1>7
  <2>3. F[Seat] = p[w] + F[others]
    BY <1>1, <1>2, <2>1, <2>2, SumSplits
  <2>4. F[others] = sums[others]
    <3>1. \A s \in others : p[s] = v[s]
      BY <1>7
    <3>2. others \subseteq Seat
      OBVIOUS
    <3> HIDE DEF others
    <3>. QED  BY <1>2, <1>4, <2>1, <3>1, <3>2, SameSum
  <2> HIDE DEF others, of
  <2>. QED  BY <1>1, <1>6, <1>7, <2>0, <2>3, <2>4
<1>9. p[w] >= 0
  <2> HIDE DEF p, w, others
  <2>. QED  BY <1>1, <1>6, <1>7
<1>10. ASSUME NEW s \in others
       PROVE  p[s] <= 0 /\ (g.seatStatus[s] = "resigned" => p[s] = -RackFaceValue(g.rack[s]))
  <2>1. p[s] = lost(s)
    BY <1>3, <1>7
  <2> HIDE DEF p
  <2>. QED  BY <2>1, LosersPay
<1>. QED  BY <1>1, <1>8, <1>9, <1>10

\* Every finished game of every size is settled: the scores sum to zero, the
\* winner is a seat that never resigned and does not lose, nobody else gains,
\* and a seat that resigned pays its whole rack (scoring.ts).
THEOREM ScoresSettleAlways == Spec => []ScoresSettle
<1>1. Init => Sound(game) /\ EndsWell(game)
  BY DealIsSound DEF Init, DealtGame, EndsWell
<1>2. Sound(game) /\ EndsWell(game) /\ [Next]_game => (Sound(game) /\ EndsWell(game))'
  <2> SUFFICES ASSUME Sound(game), EndsWell(game), [Next]_game
               PROVE  Sound(game') /\ EndsWell(game')
    OBVIOUS
  <2>1. CASE Next
    BY <2>1, StepIsSound, StepEnds
  <2>2. CASE UNCHANGED game
    BY <2>2
  <2>. QED  BY <2>1, <2>2
<1>3. Sound(game) /\ EndsWell(game) => ScoresSettle
  BY ScoresBalance DEF ScoresSettle
<1>. QED  BY <1>1, <1>2, <1>3, PTL DEF Spec
=============================================================================
