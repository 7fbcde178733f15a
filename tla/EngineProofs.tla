------------------------------ MODULE EngineProofs ------------------------------
(***************************************************************************)
(* What each operator of the engine returns for a state that is typed and  *)
(* can go on, for any number of seats, any deal and any proposed table.    *)
(* The theorems about games (GameProofs) and about the rows of the         *)
(* database they are kept in (TurnProofs) rest on these lemmas.            *)
(***************************************************************************)
EXTENDS TurnService, WellFoundedInduction, FiniteSetTheorems, SequenceTheorems, TLAPS

-----------------------------------------------------------------------------
(* Extreme elements of sets of naturals *)

\* Every non-empty set of naturals has a least element.
LEMMA LeastNatural ==
  ASSUME NEW S \in SUBSET Nat, S # {}
  PROVE  \E n \in S : \A m \in S : n <= m
<1>1. PICK n \in S : \A m \in S : ~ (<<m, n>> \in OpToRel(<, Nat))
  BY NatLessThanWellFounded, WFMin
<1>2. \A m \in S : ~ (m < n)
  BY <1>1 DEF OpToRel
<1>3. \A m \in S : m \in Nat /\ n \in Nat
  OBVIOUS
<1>. QED  BY <1>2, <1>3

-----------------------------------------------------------------------------
(* Sums over finite sets *)

\* The element at which a sum goes on, and what it is for F to hold the sums of
\* v over the subsets of S.
Pick(s) == CHOOSE x \in s : TRUE

Adds(F, v, S) ==
  F = [s \in SUBSET S |-> IF s = {} THEN 0 ELSE v[Pick(s)] + F[s \ {Pick(s)}]]

\* What such a sum is made of.
LEMMA AddsUp ==
  ASSUME NEW S, NEW v, NEW F, Adds(F, v, S), NEW s \in SUBSET S
  PROVE  /\ s = {} => F[s] = 0
         /\ s # {} => /\ Pick(s) \in s /\ s \ {Pick(s)} \in SUBSET S
                      /\ F[s] = v[Pick(s)] + F[s \ {Pick(s)}]
<1>1. F[s] = IF s = {} THEN 0 ELSE v[Pick(s)] + F[s \ {Pick(s)}]
  BY DEF Adds
<1>2. s # {} => Pick(s) \in s
  BY DEF Pick
<1>. QED  BY <1>1, <1>2

\* Nothing adds up to zero.
LEMMA EmptySum ==
  ASSUME NEW S, NEW v, NEW F, Adds(F, v, S)
  PROVE  F[{}] = 0
<1>1. {} \in SUBSET S
  OBVIOUS
<1>. QED  BY <1>1, AddsUp

\* Among the subsets of a finite set that have something in common there is one
\* no proper part of which has it.
LEMMA SmallestSubset ==
  ASSUME NEW S, IsFiniteSet(S), NEW Q \in SUBSET (SUBSET S), Q # {}
  PROVE  \E s \in Q : \A t \in Q : t \subseteq s => t = s
<1> DEFINE C == {Cardinality(s) : s \in Q}
<1>1. \A s \in Q : IsFiniteSet(s) /\ Cardinality(s) \in Nat
  BY FS_Subset, FS_CardinalityType
<1>2. C \in SUBSET Nat /\ C # {}
  BY <1>1
<1>3. PICK n \in C : \A m \in C : n <= m
  BY <1>2, LeastNatural
<1>4. PICK s \in Q : n = Cardinality(s)
  BY <1>3
<1>5. ASSUME NEW t \in Q, t \subseteq s  PROVE t = s
  <2>1. Cardinality(t) <= Cardinality(s) /\ (Cardinality(s) = Cardinality(t) => s = t)
    BY <1>1, <1>5, FS_Subset
  <2>2. Cardinality(s) <= Cardinality(t)
    BY <1>3, <1>4
  <2>. QED  BY <1>1, <2>1, <2>2
<1>. QED  BY <1>5

\* Sums of the same numbers over the same set are the same.
LEMMA SameSum ==
  ASSUME NEW S, NEW v, NEW F, Adds(F, v, S), NEW T, NEW u, NEW G, Adds(G, u, T),
         NEW r, IsFiniteSet(r), r \subseteq S, r \subseteq T, \A x \in r : v[x] = u[x]
  PROVE  F[r] = G[r]
<1> DEFINE Q == {s \in SUBSET r : F[s] # G[s]}
<1>1. SUFFICES ASSUME Q # {}  PROVE FALSE
  OBVIOUS
<1>2. PICK s \in Q : \A t \in Q : t \subseteq s => t = s
  <2>1. Q \in SUBSET (SUBSET r)
    OBVIOUS
  <2> HIDE DEF Q
  <2>. QED  BY <1>1, <2>1, SmallestSubset
<1>3. s \in SUBSET S /\ s \in SUBSET T
  OBVIOUS
<1>4. s # {}
  BY EmptySum
<1>5. /\ Pick(s) \in s
      /\ F[s] = v[Pick(s)] + F[s \ {Pick(s)}] /\ G[s] = u[Pick(s)] + G[s \ {Pick(s)}]
  BY <1>3, <1>4, AddsUp
<1>6. s \ {Pick(s)} \notin Q
  BY <1>2, <1>5
<1>7. F[s \ {Pick(s)}] = G[s \ {Pick(s)}]
  BY <1>6
<1>8. v[Pick(s)] = u[Pick(s)]
  BY <1>5
<1>. QED  BY <1>5, <1>7, <1>8

\* Every finite set of numbers has a sum.
LEMMA SumExists ==
  ASSUME NEW S, IsFiniteSet(S), NEW v
  PROVE  \E F : Adds(F, v, S)
<1> DEFINE Q == {s \in SUBSET S : ~ \E F : Adds(F, v, s)}
<1>1. SUFFICES ASSUME Q # {}  PROVE FALSE
  OBVIOUS
<1>2. PICK s \in Q : \A t \in Q : t \subseteq s => t = s
  <2>1. Q \in SUBSET (SUBSET S)
    OBVIOUS
  <2> HIDE DEF Q
  <2>. QED  BY <1>1, <2>1, SmallestSubset
<1> DEFINE G(t) == CHOOSE F : Adds(F, v, t)
           rest(t) == t \ {Pick(t)}
           F == [t \in SUBSET s |-> IF t = {} THEN 0 ELSE v[Pick(t)] + G(rest(t))[rest(t)]]
<1>3. \A t \in SUBSET s : t # s => Adds(G(t), v, t)
  BY <1>2
<1>4. \A t \in SUBSET s : t # {} => Pick(t) \in t /\ rest(t) \in SUBSET s /\ rest(t) # s
  BY DEF Pick
<1>5. \A t \in SUBSET s : IsFiniteSet(t)
  BY FS_Subset
<1>6. ASSUME NEW t \in SUBSET s, t # s  PROVE F[t] = G(t)[t]
  <2>1. Adds(G(t), v, t)
    BY <1>3, <1>6
  <2>2. CASE t = {}
    <3>1. G(t)[{}] = 0
      BY <2>1, EmptySum
    <3>. QED  BY <2>2, <3>1
  <2>3. CASE t # {}
    <3>1. G(t)[t] = v[Pick(t)] + G(t)[rest(t)]
      BY <2>1, <2>3, AddsUp
    <3>2. Adds(G(rest(t)), v, rest(t))
      BY <1>3, <1>4, <2>3
    <3>3. rest(t) \subseteq t /\ IsFiniteSet(rest(t))
      BY <1>4, <1>5, <2>3
    <3>4. G(t)[rest(t)] = G(rest(t))[rest(t)]
      <4> HIDE DEF G, rest
      <4>. QED  BY <2>1, <3>2, <3>3, SameSum
    <3>5. F[t] = v[Pick(t)] + G(rest(t))[rest(t)]
      BY <2>3
    <3>. QED  BY <3>1, <3>4, <3>5
  <2>. QED  BY <2>2, <2>3
<1>7. \A t \in SUBSET s : F[t] = IF t = {} THEN 0 ELSE v[Pick(t)] + F[rest(t)]
  <2> SUFFICES ASSUME NEW t \in SUBSET s
               PROVE  F[t] = IF t = {} THEN 0 ELSE v[Pick(t)] + F[rest(t)]
    OBVIOUS
  <2>1. F[t] = IF t = {} THEN 0 ELSE v[Pick(t)] + G(rest(t))[rest(t)]
    OBVIOUS
  <2>2. t # {} => F[rest(t)] = G(rest(t))[rest(t)]
    BY <1>4, <1>6
  <2> HIDE DEF F, G, rest
  <2>. QED  BY <2>1, <2>2
<1>8. F = [t \in SUBSET s |-> IF t = {} THEN 0 ELSE v[Pick(t)] + F[rest(t)]]
  <2>1. F = [t \in SUBSET s |-> F[t]]
    OBVIOUS
  <2> HIDE DEF F, G, rest
  <2>. QED  BY <1>7, <2>1
<1>9. Adds(F, v, s)
  BY <1>8 DEF Adds
<1>. QED  BY <1>9

\* The sum of integers is an integer, and has their sign.
LEMMA SumSign ==
  ASSUME NEW S, IsFiniteSet(S), NEW v, \A x \in S : v[x] \in Int, NEW F, Adds(F, v, S)
  PROVE  /\ F[S] \in Int
         /\ (\A x \in S : v[x] >= 0) => F[S] >= 0
         /\ (\A x \in S : v[x] <= 0) => F[S] <= 0
<1> DEFINE Good(s) == /\ F[s] \in Int
                      /\ (\A x \in S : v[x] >= 0) => F[s] >= 0
                      /\ (\A x \in S : v[x] <= 0) => F[s] <= 0
           Q == {s \in SUBSET S : ~ Good(s)}
<1>1. SUFFICES ASSUME Q # {}  PROVE FALSE
  OBVIOUS
<1>2. PICK s \in Q : \A t \in Q : t \subseteq s => t = s
  <2>1. Q \in SUBSET (SUBSET S)
    OBVIOUS
  <2> HIDE DEF Q
  <2>. QED  BY <1>1, <2>1, SmallestSubset
<1>3. s # {}
  <2>1. Good({})
    BY EmptySum
  <2>. QED  BY <2>1
<1>4. Pick(s) \in s /\ s \ {Pick(s)} \in SUBSET S /\ F[s] = v[Pick(s)] + F[s \ {Pick(s)}]
  BY <1>3, AddsUp
<1>5. Good(s \ {Pick(s)})
  BY <1>2, <1>4
<1>6. v[Pick(s)] \in Int /\ Pick(s) \in S
  BY <1>4
<1>7. Good(s)
  <2> DEFINE p == v[Pick(s)]
             f == F[s \ {Pick(s)}]
  <2>1. F[s] = p + f /\ p \in Int /\ f \in Int
    BY <1>4, <1>5, <1>6
  <2>2. (\A x \in S : v[x] >= 0) => p >= 0 /\ f >= 0
    BY <1>5, <1>6
  <2>3. (\A x \in S : v[x] <= 0) => p <= 0 /\ f <= 0
    BY <1>5, <1>6
  <2> HIDE DEF p, f
  <2>. QED  BY <2>1, <2>2, <2>3
<1>. QED  BY <1>7

\* A sum can be taken in any order: one element comes first.
LEMMA SumSplits ==
  ASSUME NEW S, IsFiniteSet(S), NEW v, \A x \in S : v[x] \in Int, NEW F, Adds(F, v, S),
         NEW y \in S
  PROVE  F[S] = v[y] + F[S \ {y}]
<1> DEFINE Good(s) == \A x \in s : F[s] = v[x] + F[s \ {x}]
           Q == {s \in SUBSET S : ~ Good(s)}
<1>1. SUFFICES ASSUME Q # {}  PROVE FALSE
  OBVIOUS
<1>2. PICK s \in Q : \A t \in Q : t \subseteq s => t = s
  <2>1. Q \in SUBSET (SUBSET S)
    OBVIOUS
  <2> HIDE DEF Q
  <2>. QED  BY <1>1, <2>1, SmallestSubset
<1>3. PICK x \in s : F[s] # v[x] + F[s \ {x}]
  OBVIOUS
<1> DEFINE p == Pick(s)
           r == s \ {p}
           t == s \ {x}
           u == s \ {p, x}
<1>4. p \in s /\ F[s] = v[p] + F[r]
  BY <1>3, AddsUp
<1>5. p # x
  BY <1>3, <1>4
<1>6. Good(r) /\ Good(t)
  BY <1>2, <1>3, <1>4
<1>7. x \in r /\ p \in t /\ r \ {x} = u /\ t \ {p} = u
  BY <1>3, <1>4, <1>5
<1>8. F[r] = v[x] + F[u] /\ F[t] = v[p] + F[u]
  BY <1>6, <1>7
<1>9. v[x] \in Int /\ v[p] \in Int /\ F[u] \in Int
  <2>1. F[u] \in Int
    <3>1. \E G : Adds(G, v, u)
      <4>1. IsFiniteSet(u)
        BY FS_Subset
      <4> HIDE DEF u
      <4>. QED  BY <4>1, SumExists
    <3>2. PICK G : Adds(G, v, u)
      BY <3>1
    <3>3. u \in SUBSET S
      OBVIOUS
    <3>4. IsFiniteSet(u)
      BY <3>3, FS_Subset
    <3> HIDE DEF u
    <3>5. G[u] \in Int
      BY <3>2, <3>3, <3>4, SumSign
    <3>6. F[u] = G[u]
      BY <3>2, <3>3, <3>4, SameSum
    <3>. QED  BY <3>5, <3>6
  <2>. QED  BY <1>4, <2>1
<1> HIDE DEF p, r, t, u
<1>10. F[s] = v[x] + F[t]
  BY <1>4, <1>8, <1>9
<1>. QED  BY <1>3, <1>10 DEF t

-----------------------------------------------------------------------------
(* The rotation *)

\* Distances round the table are naturals below the number of seats, and two
\* seats at the same distance are the same seat.
LEMMA DistanceType ==
  ASSUME NEW a \in Seat, NEW b \in Seat, NEW c \in Seat
  PROVE  /\ Distance(a, b) \in 0 .. NumSeats - 1
         /\ Distance(a, b) = Distance(a, c) => b = c
BY SeatAssumption DEF Distance, Seat

\* From the next seat on, a seat is the last to be met.
LEMMA SeatAfterFarthest ==
  ASSUME NEW s \in Seat
  PROVE  SeatAfter(s) \in Seat /\ Distance(SeatAfter(s), s) = NumSeats - 1
BY SeatAssumption DEF SeatAfter, Distance, Seat

\* activeRotationFrom finds the nearest active seat whenever one is left.
LEMMA FirstActiveFromIsActive ==
  ASSUME NEW g, NEW start \in Seat, ActiveSeats(g) # {}
  PROVE  /\ FirstActiveFrom(g, start) \in ActiveSeats(g)
         /\ \A t \in ActiveSeats(g) :
              Distance(start, FirstActiveFrom(g, start)) <= Distance(start, t)
<1> DEFINE A == ActiveSeats(g)
           D == {Distance(start, t) : t \in A}
<1>1. A \subseteq Seat
  BY DEF ActiveSeats
<1>2. D \in SUBSET Nat /\ D # {}
  BY <1>1, DistanceType, SeatAssumption
<1>3. PICK n \in D : \A m \in D : n <= m
  BY <1>2, LeastNatural
<1>4. PICK s \in A : n = Distance(start, s)
  BY <1>3
<1>5. \A t \in A : Distance(start, s) <= Distance(start, t)
  BY <1>3, <1>4
<1>. QED  BY <1>4, <1>5 DEF FirstActiveFrom

\* nextActiveSeat hands the turn to ANOTHER active seat when there is one.
LEMMA NextActiveSeatAdvances ==
  ASSUME NEW g, NEW s \in Seat, NEW t \in ActiveSeats(g), t # s
  PROVE  NextActiveSeat(g, s) \in ActiveSeats(g) /\ NextActiveSeat(g, s) # s
<1> DEFINE n == NextActiveSeat(g, s)
<1>1. t \in Seat /\ SeatAfter(s) \in Seat
  BY SeatAfterFarthest DEF ActiveSeats
<1>2. n \in ActiveSeats(g) /\ Distance(SeatAfter(s), n) <= Distance(SeatAfter(s), t)
  BY <1>1, FirstActiveFromIsActive DEF NextActiveSeat
<1>3. n \in Seat
  BY <1>2 DEF ActiveSeats
<1>4. Distance(SeatAfter(s), t) < NumSeats - 1
  BY <1>1, DistanceType, SeatAfterFarthest, SeatAssumption
<1>. QED  BY <1>1, <1>2, <1>3, <1>4, DistanceType, SeatAfterFarthest, SeatAssumption

\* The same without another active seat to go to: the turn stays in the game.
LEMMA NextActiveSeatStays ==
  ASSUME NEW g, NEW s \in Seat, ActiveSeats(g) # {}
  PROVE  NextActiveSeat(g, s) \in ActiveSeats(g)
BY SeatAfterFarthest, FirstActiveFromIsActive DEF NextActiveSeat

-----------------------------------------------------------------------------
(* Every transition ends in FinalizeTransition *)

\* A game that detectGameEnd lets go on can.
LEMMA NoEndMeansCanGoOn ==
  ASSUME NEW g \in GameState, g.seatStatus[g.activeSeat] = "active",
         EndReasonOf(g) = "none"
  PROVE  CanGoOn(g)
<1>1. EmptyRackSeats(g) = {} /\ Cardinality(ActiveSeats(g)) # 1 /\ ~ PoolExhausted(g)
  BY DEF EndReasonOf
<1>2. g.activeSeat \in ActiveSeats(g)
  BY DEF ActiveSeats, GameState
<1>3. ASSUME \A s \in ActiveSeats(g) : s = g.activeSeat  PROVE  FALSE
  <2>1. ActiveSeats(g) = {g.activeSeat}
    BY <1>2, <1>3
  <2>. QED  BY <1>1, <2>1, FS_Singleton
<1>. QED  BY <1>1, <1>3 DEF CanGoOn

\* FinalizeTransition completes the game or leaves it able to go on.
LEMMA FinalizeIsSound ==
  ASSUME NEW g \in GameState, g.status = "active", g.endReason = "none",
         g.seatStatus[g.activeSeat] = "active"
  PROVE  Sound(FinalizeTransition(g))
<1>1. CASE EndReasonOf(g) = "none"
  BY <1>1, NoEndMeansCanGoOn DEF FinalizeTransition, Sound, WellTyped
<1>2. CASE EndReasonOf(g) # "none"
  <2>1. EndReasonOf(g) \in EndReason
    BY <1>2 DEF EndReasonOf, EndReason
  <2>2. FinalizeTransition(g) = [g EXCEPT !.status = "completed", !.endReason = EndReasonOf(g)]
    BY <1>2 DEF FinalizeTransition
  <2>. QED  BY <1>2, <2>1, <2>2 DEF Sound, WellTyped, GameState
<1>. QED  BY <1>1, <1>2

-----------------------------------------------------------------------------
(* What each transition makes of a sound game *)

\* In a sound active game the turn passes to another active seat.
LEMMA TurnMovesOn ==
  ASSUME NEW g, Sound(g), g.status = "active"
  PROVE  LET n == NextActiveSeat(g, g.activeSeat)
         IN  n \in ActiveSeats(g) /\ n # g.activeSeat
<1>1. PICK t \in ActiveSeats(g) : t # g.activeSeat
  BY DEF Sound, CanGoOn
<1>2. g.activeSeat \in Seat
  BY DEF Sound, WellTyped, GameState
<1>. QED  BY <1>1, <1>2, NextActiveSeatAdvances

\* Drawing what the pool has and moving on leaves a sound game.
LEMMA DrawAndAdvanceIsSound ==
  ASSUME NEW g, Sound(g), g.status = "active",
         NEW n \in 0 .. g.pool, NEW passes \in Nat
  PROVE  Sound(DrawAndAdvance(g, g.activeSeat, n, passes))
<1> DEFINE s == g.activeSeat
           h == [g EXCEPT !.pool = g.pool - n,
                          !.rack[s] = g.rack[s] \cup LastTiles(g, n),
                          !.activeSeat = NextActiveSeat(g, s),
                          !.consecutivePasses = passes]
<1>1. g \in GameState /\ g.endReason = "none" /\ s \in Seat
  BY DEF Sound, WellTyped, GameState
<1>2. NextActiveSeat(g, s) \in Seat /\ g.seatStatus[NextActiveSeat(g, s)] = "active"
  BY TurnMovesOn DEF ActiveSeats
<1>3. LastTiles(g, n) \subseteq Tile /\ g.pool - n \in 0 .. PoolSize
  BY <1>1, DealAssumption DEF LastTiles, Tile, GameState
<1>4. h \in GameState
  BY <1>1, <1>2, <1>3 DEF GameState
<1>5. h.status = "active" /\ h.endReason = "none" /\ h.seatStatus[h.activeSeat] = "active"
  BY <1>1, <1>2 DEF GameState
<1>6. Sound(FinalizeTransition(h))
  BY <1>4, <1>5, FinalizeIsSound
<1>. QED  BY <1>6 DEF DrawAndAdvance

\* So does a penalty: it never draws more than the pool has.
LEMMA PenalizeIsSound ==
  ASSUME NEW g, Sound(g), g.status = "active"
  PROVE  Sound(Penalize(g, g.activeSeat))
<1>1. g.pool \in Nat /\ g.consecutivePasses + 1 \in Nat
  BY DealAssumption DEF Sound, WellTyped, GameState
<1>2. DrawCount(g, PENALTY_TILE_COUNT) \in 0 .. g.pool
  BY <1>1 DEF DrawCount, PENALTY_TILE_COUNT
<1>. QED  BY <1>1, <1>2, DrawAndAdvanceIsSound DEF Penalize

\* So does a commit, whatever was proposed: it is valid or it is penalised.
LEMMA ApplyCommitIsSound ==
  ASSUME NEW g, Sound(g), g.status = "active", NEW proposed
  PROVE  Sound(ApplyCommit(g, g.activeSeat, proposed))
<1> DEFINE s == g.activeSeat
           h == [g EXCEPT !.table = proposed,
                          !.rack[s] = g.rack[s] \ Added(g, proposed),
                          !.hasInitialMeld[s] = TRUE,
                          !.activeSeat = NextActiveSeat(g, s),
                          !.consecutivePasses = 0]
<1>1. CASE ValidTurn(g, s, proposed)
  <2>1. g \in GameState /\ g.endReason = "none" /\ s \in Seat
    BY DEF Sound, WellTyped, GameState
  <2>2. NextActiveSeat(g, s) \in Seat /\ g.seatStatus[NextActiveSeat(g, s)] = "active"
    BY TurnMovesOn DEF ActiveSeats
  <2>3. proposed \subseteq Rows
    BY <1>1, CatalogAssumption DEF ValidTurn
  <2>4. h \in GameState
    BY <2>1, <2>2, <2>3 DEF GameState
  <2>5. h.status = "active" /\ h.endReason = "none" /\ h.seatStatus[h.activeSeat] = "active"
    BY <2>1, <2>2 DEF GameState
  <2>6. Sound(FinalizeTransition(h))
    BY <2>4, <2>5, FinalizeIsSound
  <2>. QED  BY <1>1, <2>6 DEF ApplyCommit
<1>2. CASE ~ ValidTurn(g, s, proposed)
  BY <1>2, PenalizeIsSound DEF ApplyCommit
<1>. QED  BY <1>1, <1>2

\* A seat other than the last may always resign: somebody is left to play.
LEMMA ApplyResignIsSound ==
  ASSUME NEW g, Sound(g), g.status = "active",
         NEW s \in Seat, g.seatStatus[s] = "active"
  PROVE  Sound(ApplyResign(g, s))
<1> DEFINE left == [g EXCEPT !.seatStatus[s] = "resigned"]
           next == IF g.activeSeat = s THEN NextActiveSeat(left, s) ELSE g.activeSeat
           h == [left EXCEPT !.activeSeat = next]
<1>1. g \in GameState /\ g.endReason = "none" /\ g.activeSeat \in Seat
  BY DEF Sound, WellTyped, GameState
<1>2. left \in GameState /\ left.activeSeat = g.activeSeat
  BY <1>1 DEF GameState
<1>3. next \in Seat /\ left.seatStatus[next] = "active"
  <2>1. CASE g.activeSeat = s
    <3>1. PICK t \in ActiveSeats(g) : t # s
      BY <2>1 DEF Sound, CanGoOn
    <3>2. t \in ActiveSeats(left)
      BY <1>1, <3>1 DEF ActiveSeats, GameState
    <3>3. next \in ActiveSeats(left)
      BY <2>1, <3>2, NextActiveSeatStays
    <3>. QED  BY <3>3 DEF ActiveSeats
  <2>2. CASE g.activeSeat # s
    <3>1. g.seatStatus[g.activeSeat] = "active"
      BY DEF Sound, CanGoOn
    <3>. QED  BY <1>1, <2>2, <3>1 DEF GameState
  <2>. QED  BY <2>1, <2>2
<1>4. h \in GameState
  BY <1>2, <1>3 DEF GameState
<1>5. h.status = "active" /\ h.endReason = "none" /\ h.seatStatus[h.activeSeat] = "active"
  BY <1>1, <1>2, <1>3 DEF GameState
<1>6. Sound(FinalizeTransition(h))
  BY <1>4, <1>5, FinalizeIsSound
<1>. QED  BY <1>6 DEF ApplyResign

-----------------------------------------------------------------------------
(* Whose turn it is next *)

\* The turn that is played, forfeited or penalised passes to another seat.
LEMMA DrawAndAdvancePassesOn ==
  ASSUME NEW g, Sound(g), g.status = "active",
         NEW n \in 0 .. g.pool, NEW passes \in Nat
  PROVE  LET h == DrawAndAdvance(g, g.activeSeat, n, passes)
         IN  h.activeSeat # g.activeSeat /\ h.seatStatus = g.seatStatus
<1>1. g \in GameState
  BY DEF Sound, WellTyped
<1>2. NextActiveSeat(g, g.activeSeat) # g.activeSeat
  BY TurnMovesOn
<1>. QED  BY <1>1, <1>2 DEF DrawAndAdvance, FinalizeTransition, GameState

\* A penalty moves the turn on and changes nobody's standing.
LEMMA PenalizePassesOn ==
  ASSUME NEW g, Sound(g), g.status = "active"
  PROVE  LET h == Penalize(g, g.activeSeat)
         IN  h.activeSeat # g.activeSeat /\ h.seatStatus = g.seatStatus
<1>1. g.pool \in Nat /\ g.consecutivePasses + 1 \in Nat
  BY DealAssumption DEF Sound, WellTyped, GameState
<1>2. DrawCount(g, PENALTY_TILE_COUNT) \in 0 .. g.pool
  BY <1>1 DEF DrawCount, PENALTY_TILE_COUNT
<1>. QED  BY <1>1, <1>2, DrawAndAdvancePassesOn DEF Penalize

\* So does a commit, valid or not.
LEMMA ApplyCommitPassesOn ==
  ASSUME NEW g, Sound(g), g.status = "active", NEW proposed
  PROVE  LET h == ApplyCommit(g, g.activeSeat, proposed)
         IN  h.activeSeat # g.activeSeat /\ h.seatStatus = g.seatStatus
<1>1. CASE ValidTurn(g, g.activeSeat, proposed)
  <2>1. g \in GameState
    BY DEF Sound, WellTyped
  <2>2. NextActiveSeat(g, g.activeSeat) # g.activeSeat
    BY TurnMovesOn
  <2>. QED  BY <1>1, <2>1, <2>2 DEF ApplyCommit, FinalizeTransition, GameState
<1>2. CASE ~ ValidTurn(g, g.activeSeat, proposed)
  BY <1>2, PenalizePassesOn DEF ApplyCommit
<1>. QED  BY <1>1, <1>2

-----------------------------------------------------------------------------
(* The deal *)

\* The game begins sound, whoever starts.
LEMMA DealIsSound ==
  ASSUME NEW start \in Seat  PROVE  Sound(DealtGame(start))
<1> DEFINE g == DealtGame(start)
<1>1. g \in GameState
  BY DealAssumption DEF DealtGame, GameState
<1>2. ActiveSeats(g) = Seat
  BY DEF DealtGame, ActiveSeats
<1>3. EmptyRackSeats(g) = {}
  BY <1>2, DealAssumption DEF DealtGame, EmptyRackSeats
<1>4. Cardinality(Seat) = NumSeats
  BY SeatAssumption, FS_Interval DEF Seat
<1>5. ~ PoolExhausted(g)
  BY <1>2, <1>4, SeatAssumption DEF PoolExhausted, DealtGame
<1>6. \E s \in Seat : s # start
  <2>1. 0 \in Seat /\ 1 \in Seat
    BY SeatAssumption DEF Seat
  <2>. QED  BY <2>1
<1>. QED  BY <1>1, <1>2, <1>3, <1>5, <1>6 DEF Sound, WellTyped, CanGoOn, DealtGame

-----------------------------------------------------------------------------
(* No tile is lost *)

\* Finalizing a transition moves no tile.
LEMMA FinalizeMovesNoTile ==
  ASSUME NEW g \in GameState, Conserved(g)
  PROVE  Conserved(FinalizeTransition(g))
<1> DEFINE f == FinalizeTransition(g)
<1>1. f.pool = g.pool /\ f.rack = g.rack /\ f.table = g.table
  BY DEF FinalizeTransition, GameState
<1>. QED  BY <1>1 DEF Conserved, PoolTiles, TableTiles

\* Drawing takes tiles off the end of the pool and puts them in one rack.
LEMMA DrawAndAdvanceConserves ==
  ASSUME NEW g, Sound(g), g.status = "active", Conserved(g),
         NEW n \in 0 .. g.pool, NEW passes \in Nat
  PROVE  Conserved(DrawAndAdvance(g, g.activeSeat, n, passes))
<1> DEFINE s == g.activeSeat
           h == [g EXCEPT !.pool = g.pool - n,
                          !.rack[s] = g.rack[s] \cup LastTiles(g, n),
                          !.activeSeat = NextActiveSeat(g, s),
                          !.consecutivePasses = passes]
<1>1. g \in GameState /\ s \in Seat /\ g.pool \in Nat
  BY DealAssumption DEF Sound, WellTyped, GameState
<1>2. PoolTiles(g) = PoolTiles(h) \cup LastTiles(g, n)
  BY <1>1 DEF PoolTiles, LastTiles, GameState
<1>3. PoolTiles(h) \cap LastTiles(g, n) = {}
  BY <1>1 DEF PoolTiles, LastTiles, GameState
<1>4. h.rack = [g.rack EXCEPT ![s] = g.rack[s] \cup LastTiles(g, n)]
      /\ h.table = g.table /\ TableTiles(h) = TableTiles(g)
  BY <1>1 DEF GameState, TableTiles
<1>5. g.rack \in [Seat -> SUBSET Tile]
  BY <1>1 DEF GameState
<1>6. /\ h.rack[s] = g.rack[s] \cup LastTiles(g, n)
      /\ \A t \in Seat : t # s => h.rack[t] = g.rack[t]
  BY <1>1, <1>4, <1>5
<1>7. Conserved(h)
  <2>1. (UNION {h.rack[t] : t \in Seat}) = (UNION {g.rack[t] : t \in Seat}) \cup LastTiles(g, n)
    BY <1>1, <1>6
  <2>2. PoolTiles(h) \cup (UNION {h.rack[t] : t \in Seat}) \cup TableTiles(h) = Tile
    BY <1>2, <1>4, <2>1 DEF Conserved
  <2>3. PoolTiles(h) \cap TableTiles(h) = {}
    BY <1>2, <1>4 DEF Conserved
  <2>4. ASSUME NEW t \in Seat
        PROVE  h.rack[t] \cap (PoolTiles(h) \cup TableTiles(h)) = {}
    BY <1>2, <1>3, <1>4, <1>6 DEF Conserved
  <2>5. ASSUME NEW t \in Seat, NEW u \in Seat, t # u  PROVE  h.rack[t] \cap h.rack[u] = {}
    BY <1>1, <1>2, <1>6, <2>5 DEF Conserved
  <2>. QED  BY <1>4, <2>2, <2>3, <2>4, <2>5 DEF Conserved
<1>8. h \in GameState
  <2>1. NextActiveSeat(g, s) \in Seat
    BY TurnMovesOn DEF ActiveSeats
  <2>2. LastTiles(g, n) \subseteq Tile /\ g.pool - n \in 0 .. PoolSize
    BY <1>1, DealAssumption DEF LastTiles, Tile, GameState
  <2>. QED  BY <1>1, <2>1, <2>2 DEF GameState
<1>. QED  BY <1>7, <1>8, FinalizeMovesNoTile DEF DrawAndAdvance

\* A penalty moves tiles of the pool and of no other place.
LEMMA PenalizeConserves ==
  ASSUME NEW g, Sound(g), g.status = "active", Conserved(g)
  PROVE  Conserved(Penalize(g, g.activeSeat))
<1>1. g.pool \in Nat /\ g.consecutivePasses + 1 \in Nat
  BY DealAssumption DEF Sound, WellTyped, GameState
<1>2. DrawCount(g, PENALTY_TILE_COUNT) \in 0 .. g.pool
  BY <1>1 DEF DrawCount, PENALTY_TILE_COUNT
<1>. QED  BY <1>1, <1>2, DrawAndAdvanceConserves DEF Penalize

\* An accepted table is the old one with tiles of the player's rack, which
\* leave the rack: validateTurn checks both, and that no tile is laid twice.
LEMMA ApplyCommitConserves ==
  ASSUME NEW g, Sound(g), g.status = "active", Conserved(g),
         NEW proposed \in SUBSET Rows
  PROVE  Conserved(ApplyCommit(g, g.activeSeat, proposed))
<1> DEFINE s == g.activeSeat
           laid == Added(g, proposed)
           h == [g EXCEPT !.table = proposed,
                          !.rack[s] = g.rack[s] \ laid,
                          !.hasInitialMeld[s] = TRUE,
                          !.activeSeat = NextActiveSeat(g, s),
                          !.consecutivePasses = 0]
<1>1. CASE ValidTurn(g, s, proposed)
  <2>1. g \in GameState /\ s \in Seat
    BY DEF Sound, WellTyped, GameState
  <2>2. /\ \A m1, m2 \in proposed : m1 # m2 => TilesOf[m1] \cap TilesOf[m2] = {}
        /\ laid \subseteq g.rack[s]
        /\ TableTiles(g) \subseteq TilesIn(proposed)
    BY <1>1 DEF ValidTurn
  <2>3. h.table = proposed /\ h.pool = g.pool
        /\ h.rack = [g.rack EXCEPT ![s] = g.rack[s] \ laid]
    BY <2>1 DEF GameState
  <2>4. g.rack \in [Seat -> SUBSET Tile]
    BY <2>1 DEF GameState
  <2>5. /\ h.rack[s] = g.rack[s] \ laid
        /\ \A t \in Seat : t # s => h.rack[t] = g.rack[t]
    BY <2>1, <2>3, <2>4
  <2>6. TableTiles(h) = TableTiles(g) \cup laid /\ PoolTiles(h) = PoolTiles(g)
    BY <2>2, <2>3 DEF TableTiles, PoolTiles, Added
  <2>7. (UNION {g.rack[t] : t \in Seat}) = (UNION {h.rack[t] : t \in Seat}) \cup laid
    BY <2>1, <2>2, <2>5
  <2>8. PoolTiles(h) \cup (UNION {h.rack[t] : t \in Seat}) \cup TableTiles(h) = Tile
    BY <2>6, <2>7 DEF Conserved
  <2>9. PoolTiles(h) \cap TableTiles(h) = {}
    BY <2>1, <2>2, <2>6 DEF Conserved
  <2>10. ASSUME NEW t \in Seat
         PROVE  h.rack[t] \cap (PoolTiles(h) \cup TableTiles(h)) = {}
    BY <2>1, <2>2, <2>5, <2>6 DEF Conserved
  <2>11. ASSUME NEW t \in Seat, NEW u \in Seat, t # u  PROVE  h.rack[t] \cap h.rack[u] = {}
    BY <2>1, <2>5, <2>11 DEF Conserved
  <2>12. Conserved(h)
    BY <2>2, <2>3, <2>8, <2>9, <2>10, <2>11 DEF Conserved
  <2>13. h \in GameState
    <3>1. NextActiveSeat(g, s) \in Seat
      BY TurnMovesOn DEF ActiveSeats
    <3>. QED  BY <2>1, <3>1 DEF GameState
  <2>. QED  BY <1>1, <2>12, <2>13, FinalizeMovesNoTile DEF ApplyCommit
<1>2. CASE ~ ValidTurn(g, s, proposed)
  BY <1>2, PenalizeConserves DEF ApplyCommit
<1>. QED  BY <1>1, <1>2

\* A resignation moves no tile.
LEMMA ApplyResignConserves ==
  ASSUME NEW g, Sound(g), g.status = "active", Conserved(g),
         NEW s \in Seat, g.seatStatus[s] = "active"
  PROVE  Conserved(ApplyResign(g, s))
<1> DEFINE r == ApplyResign(g, s)
<1>1. g \in GameState
  BY DEF Sound, WellTyped
<1>2. r.pool = g.pool /\ r.rack = g.rack /\ r.table = g.table
  BY <1>1 DEF ApplyResign, FinalizeTransition, GameState
<1>. QED  BY <1>2 DEF Conserved, PoolTiles, TableTiles

\* The deal gives every tile one place.
LEMMA DealConserves ==
  ASSUME NEW start \in Seat  PROVE  Conserved(DealtGame(start))
<1> DEFINE g == DealtGame(start)
<1>1. PoolTiles(g) = 1 .. PoolSize /\ g.rack = Hand /\ g.table = {} /\ TableTiles(g) = {}
  BY DEF DealtGame, PoolTiles, TableTiles, TilesIn
<1>2. UNION {Hand[s] : s \in Seat} = (PoolSize + 1) .. NumTiles
  BY DealAssumption
<1>3. (1 .. PoolSize) \cup ((PoolSize + 1) .. NumTiles) = Tile
  BY DealAssumption DEF Tile
<1>4. \A s \in Seat : Hand[s] \cap (1 .. PoolSize) = {}
  <2>1. ((PoolSize + 1) .. NumTiles) \cap (1 .. PoolSize) = {}
    BY DealAssumption
  <2>. QED  BY <1>2, <2>1
<1>. QED  BY <1>1, <1>2, <1>3, <1>4, DealAssumption DEF Conserved

-----------------------------------------------------------------------------
(* What lies on the table was accepted *)

\* No tile of the game is lost, and what lies on the table was accepted.
Intact(g) == Conserved(g) /\ g.table \subseteq Melds

\* What is drawn leaves the table alone.
LEMMA DrawKeepsIntact ==
  ASSUME NEW g, Sound(g), g.status = "active", Intact(g), NEW n \in 0 .. g.pool, NEW passes \in Nat
  PROVE  Intact(DrawAndAdvance(g, g.activeSeat, n, passes))
<1>1. g \in GameState
  BY DEF Sound, WellTyped
<1>2. DrawAndAdvance(g, g.activeSeat, n, passes).table = g.table
  BY <1>1 DEF DrawAndAdvance, FinalizeTransition, GameState
<1>. QED  BY <1>2, DrawAndAdvanceConserves DEF Intact

\* Nor does a penalty touch it.
LEMMA PenalizeKeepsIntact ==
  ASSUME NEW g, Sound(g), g.status = "active", Intact(g)
  PROVE  Intact(Penalize(g, g.activeSeat))
<1>1. g.pool \in Nat /\ g.consecutivePasses + 1 \in Nat
  BY DealAssumption DEF Sound, WellTyped, GameState
<1>2. DrawCount(g, PENALTY_TILE_COUNT) \in 0 .. g.pool
  BY <1>1 DEF DrawCount, PENALTY_TILE_COUNT
<1>. QED  BY <1>1, <1>2, DrawKeepsIntact DEF Penalize

\* A table that is committed is made of accepted rows; one that is refused is
\* not laid.
LEMMA ApplyCommitKeepsIntact ==
  ASSUME NEW g, Sound(g), g.status = "active", Intact(g), NEW proposed \in SUBSET Rows
  PROVE  Intact(ApplyCommit(g, g.activeSeat, proposed))
<1>1. g \in GameState
  BY DEF Sound, WellTyped
<1>2. CASE ValidTurn(g, g.activeSeat, proposed)
  <2>1. proposed \subseteq Melds
    BY <1>2 DEF ValidTurn
  <2>2. ApplyCommit(g, g.activeSeat, proposed).table = proposed
    BY <1>1, <1>2 DEF ApplyCommit, FinalizeTransition, GameState
  <2>. QED  BY <2>1, <2>2, ApplyCommitConserves DEF Intact
<1>3. CASE ~ ValidTurn(g, g.activeSeat, proposed)
  BY <1>3, PenalizeKeepsIntact DEF ApplyCommit
<1>. QED  BY <1>2, <1>3

\* A resignation leaves the table alone.
LEMMA ApplyResignKeepsIntact ==
  ASSUME NEW g, Sound(g), g.status = "active", Intact(g),
         NEW s \in Seat, g.seatStatus[s] = "active"
  PROVE  Intact(ApplyResign(g, s))
<1>1. g \in GameState
  BY DEF Sound, WellTyped
<1>2. ApplyResign(g, s).table = g.table
  BY <1>1 DEF ApplyResign, FinalizeTransition, GameState
<1>. QED  BY <1>2, ApplyResignConserves DEF Intact

-----------------------------------------------------------------------------
(* What a step may never do *)

\* From g to h tiles move forward, and the seats that resigned stay as they are.
Forward(g, h) ==
  /\ h.pool <= g.pool
  /\ TableTiles(g) \subseteq TableTiles(h)
  /\ \A s \in Seat :
       LET gone == g.rack[s] \ h.rack[s]
       IN  gone # {} => s = g.activeSeat /\ gone \subseteq TableTiles(h)

KeepsResigned(g, h) ==
  \A s \in Seat : g.seatStatus[s] = "resigned" =>
    h.seatStatus[s] = "resigned" /\ h.rack[s] = g.rack[s]

\* A seat that has not melded by then had not before, and lost no tile.
KeepsUnopened(g, h) ==
  \A s \in Seat : ~ h.hasInitialMeld[s] =>
    ~ g.hasInitialMeld[s] /\ g.rack[s] \subseteq h.rack[s]

MovesOn(g, h) == Forward(g, h) /\ KeepsResigned(g, h) /\ KeepsUnopened(g, h)

\* The fields finalizeTransition leaves alone.
LEMMA FinalizeKeeps ==
  ASSUME NEW g \in GameState
  PROVE  LET f == FinalizeTransition(g)
         IN  f.pool = g.pool /\ f.rack = g.rack /\ f.table = g.table
             /\ f.seatStatus = g.seatStatus /\ f.hasInitialMeld = g.hasInitialMeld
             /\ f.activeSeat = g.activeSeat
BY DEF FinalizeTransition, GameState

\* Drawing moves tiles from the pool to the rack in turn.
LEMMA DrawAndAdvanceMoves ==
  ASSUME NEW g, Sound(g), g.status = "active",
         NEW n \in 0 .. g.pool, NEW passes \in Nat
  PROVE  LET h == DrawAndAdvance(g, g.activeSeat, n, passes)
         IN  MovesOn(g, h)
<1> DEFINE s == g.activeSeat
           d == [g EXCEPT !.pool = g.pool - n,
                          !.rack[s] = g.rack[s] \cup LastTiles(g, n),
                          !.activeSeat = NextActiveSeat(g, s),
                          !.consecutivePasses = passes]
           h == DrawAndAdvance(g, s, n, passes)
<1>1. g \in GameState /\ s \in Seat /\ g.pool \in Nat /\ g.seatStatus[s] = "active"
  BY DealAssumption DEF Sound, WellTyped, GameState
<1>2. d \in GameState
  <2>1. NextActiveSeat(g, s) \in Seat
    BY TurnMovesOn DEF ActiveSeats
  <2>2. LastTiles(g, n) \subseteq Tile /\ g.pool - n \in 0 .. PoolSize
    BY <1>1, DealAssumption DEF LastTiles, Tile, GameState
  <2>. QED  BY <1>1, <2>1, <2>2 DEF GameState
<1>3. /\ h.pool = d.pool /\ h.rack = d.rack /\ h.table = d.table
      /\ h.seatStatus = d.seatStatus /\ h.hasInitialMeld = d.hasInitialMeld
  BY <1>2, FinalizeKeeps DEF DrawAndAdvance
<1>4. /\ h.pool <= g.pool /\ h.table = g.table
      /\ h.seatStatus = g.seatStatus /\ h.hasInitialMeld = g.hasInitialMeld
  BY <1>1, <1>3 DEF GameState
<1>5. \A t \in Seat : g.rack[t] \subseteq h.rack[t] /\ (t # s => h.rack[t] = g.rack[t])
  BY <1>1, <1>3 DEF GameState
<1>6. Forward(g, h)
  BY <1>4, <1>5 DEF Forward, TableTiles
<1>7. KeepsResigned(g, h)
  BY <1>1, <1>4, <1>5 DEF KeepsResigned
<1>8. KeepsUnopened(g, h)
  BY <1>4, <1>5 DEF KeepsUnopened
<1>. QED  BY <1>6, <1>7, <1>8 DEF MovesOn

\* So does a penalty.
LEMMA PenalizeMoves ==
  ASSUME NEW g, Sound(g), g.status = "active"
  PROVE  MovesOn(g, Penalize(g, g.activeSeat))
<1>1. g.pool \in Nat /\ g.consecutivePasses + 1 \in Nat
  BY DealAssumption DEF Sound, WellTyped, GameState
<1>2. DrawCount(g, PENALTY_TILE_COUNT) \in 0 .. g.pool
  BY <1>1 DEF DrawCount, PENALTY_TILE_COUNT
<1>. QED  BY <1>1, <1>2, DrawAndAdvanceMoves DEF Penalize

\* A commit lays tiles of the rack in turn and takes none back.
LEMMA ApplyCommitMoves ==
  ASSUME NEW g, Sound(g), g.status = "active", NEW proposed \in SUBSET Rows
  PROVE  LET h == ApplyCommit(g, g.activeSeat, proposed)
         IN  MovesOn(g, h)
<1> DEFINE s == g.activeSeat
           laid == Added(g, proposed)
           d == [g EXCEPT !.table = proposed,
                          !.rack[s] = g.rack[s] \ laid,
                          !.hasInitialMeld[s] = TRUE,
                          !.activeSeat = NextActiveSeat(g, s),
                          !.consecutivePasses = 0]
           h == ApplyCommit(g, s, proposed)
<1>1. CASE ValidTurn(g, s, proposed)
  <2>1. g \in GameState /\ s \in Seat /\ g.pool \in Nat /\ g.seatStatus[s] = "active"
    BY DealAssumption DEF Sound, WellTyped, GameState
  <2>2. d \in GameState
    <3>1. NextActiveSeat(g, s) \in Seat
      BY TurnMovesOn DEF ActiveSeats
    <3>. QED  BY <2>1, <3>1 DEF GameState
  <2>3. /\ h.pool = d.pool /\ h.rack = d.rack /\ h.table = d.table
        /\ h.seatStatus = d.seatStatus /\ h.hasInitialMeld = d.hasInitialMeld
    BY <1>1, <2>2, FinalizeKeeps DEF ApplyCommit
  <2>4. h.pool = g.pool /\ h.table = proposed /\ h.seatStatus = g.seatStatus
    BY <2>1, <2>3 DEF GameState
  <2>5. /\ h.rack[s] = g.rack[s] \ laid
        /\ \A t \in Seat : t # s => h.rack[t] = g.rack[t]
    BY <2>1, <2>3 DEF GameState
  <2>6. TableTiles(g) \subseteq TableTiles(h) /\ laid \subseteq TableTiles(h)
    BY <1>1, <2>4 DEF ValidTurn, TableTiles, Added
  <2>7. Forward(g, h)
    BY <2>1, <2>4, <2>5, <2>6 DEF Forward
  <2>8. KeepsResigned(g, h)
    BY <2>1, <2>4, <2>5 DEF KeepsResigned
  <2>9. KeepsUnopened(g, h)
    <3>1. h.hasInitialMeld = [g.hasInitialMeld EXCEPT ![s] = TRUE]
      BY <2>1, <2>3 DEF GameState
    <3>2. \A t \in Seat : ~ h.hasInitialMeld[t] => t # s /\ ~ g.hasInitialMeld[t]
      BY <2>1, <3>1 DEF GameState
    <3>. QED  BY <2>5, <3>2 DEF KeepsUnopened
  <2>. QED  BY <2>7, <2>8, <2>9 DEF MovesOn
<1>2. CASE ~ ValidTurn(g, s, proposed)
  BY <1>2, PenalizeMoves DEF ApplyCommit
<1>. QED  BY <1>1, <1>2

\* Resigning moves no tile, and takes nobody else out of the game.
LEMMA ApplyResignMoves ==
  ASSUME NEW g, Sound(g), g.status = "active",
         NEW s \in Seat, g.seatStatus[s] = "active"
  PROVE  LET h == ApplyResign(g, s)
         IN  /\ h.pool = g.pool /\ h.rack = g.rack /\ h.table = g.table
             /\ h.hasInitialMeld = g.hasInitialMeld
             /\ \A t \in Seat : g.seatStatus[t] = "resigned" => h.seatStatus[t] = "resigned"
<1>1. g \in GameState
  BY DEF Sound, WellTyped
<1>. QED  BY <1>1 DEF ApplyResign, FinalizeTransition, GameState

-----------------------------------------------------------------------------
(* The rows of a game just dealt, and how its versions are accounted for *)

TimedOut(d) == {i \in 1 .. Len(d.turns) : d.turns[i].status = "timed_out"}

\* n versions of the game were neither a recorded request nor a forfeited turn.
Unaccounted(d, n) ==
  /\ IsFiniteSet(d.results)
  /\ d.version = Cardinality(d.results) + Cardinality(TimedOut(d)) + n

\* The rows of a game just dealt are sound, and no version is owed yet.
LEMMA DealtRowsSound ==
  ASSUME NEW spared, NEW start \in Seat
  PROVE  RowsSound(DealtRows(start), spared) /\ Unaccounted(DealtRows(start), 0)
<1> DEFINE d == DealtRows(start)
<1>1. Sound(d.game) /\ d.game \in GameState
  BY DealIsSound DEF DealtRows, Sound, WellTyped
<1>2. d.turns = <<FreshTurn(start)>> /\ Len(d.turns) = 1 /\ d.turns[1] = FreshTurn(start)
      /\ d.currentTurn = 1
  BY DEF DealtRows
<1>3. FreshTurn(start) \in TurnRow
  BY DEF FreshTurn, TurnRow
<1>4. d \in Database
  BY <1>1, <1>2, <1>3 DEF DealtRows, Database
<1>5. d.game.status = "active" /\ d.game.activeSeat = start
  BY DEF DealtRows, DealtGame
<1>6. TurnsSound(d, spared)
  BY <1>2, <1>5 DEF TurnsSound, CurrentTurn, FreshTurn
<1>7. LedgerSound(d)
  BY <1>5 DEF LedgerSound, DealtRows
<1>8. TimedOut(d) = {}
  BY <1>2 DEF TimedOut, FreshTurn
<1>9. Unaccounted(d, 0)
  BY <1>8, FS_EmptySet DEF Unaccounted, DealtRows
<1>. QED  BY <1>1, <1>4, <1>6, <1>7, <1>9 DEF RowsSound

-----------------------------------------------------------------------------
(* Writing a transition back *)

\* The row of the current turn is resolved, or left open.
Closes(d, h) == h.activeSeat # d.game.activeSeat \/ h.status = "completed"
Opens(d, h) == h.activeSeat # d.game.activeSeat /\ h.status # "completed"

\* persistTransition row by row.
LEMMA PersistRows ==
  ASSUME NEW d, d \in Database, d.currentTurn \in 1 .. Len(d.turns),
         NEW h \in GameState, NEW event \in Resolution
  PROVE  LET e == ApplySideEffects(d, h, event)
             n == Len(d.turns)
         IN  /\ e \in Database
             /\ e.game = h /\ e.version = d.version + 1 /\ e.results = d.results
             /\ Len(e.turns) = IF Opens(d, h) THEN n + 1 ELSE n
             /\ e.currentTurn = IF Opens(d, h) THEN n + 1 ELSE d.currentTurn
             /\ Opens(d, h) => e.turns[n + 1] = FreshTurn(h.activeSeat)
             /\ \A i \in 1 .. n :
                  e.turns[i] = IF i = d.currentTurn /\ Closes(d, h)
                               THEN [d.turns[i] EXCEPT !.status = event] ELSE d.turns[i]
<1> DEFINE e == ApplySideEffects(d, h, event)
           p == PersistTransition(d, h, event)
           n == Len(d.turns)
           resolved == IF Closes(d, h)
                       THEN [d.turns EXCEPT ![d.currentTurn].status = event] ELSE d.turns
           after == IF Opens(d, h) THEN Append(resolved, FreshTurn(h.activeSeat)) ELSE resolved
<1>1. d.turns \in Seq(TurnRow) /\ n \in Nat /\ d.version + 1 \in Nat /\ d.currentTurn \in Nat
      /\ d.recorded + 1 \in Nat
  BY DEF Database
<1>2. /\ resolved \in Seq(TurnRow) /\ Len(resolved) = n
      /\ \A i \in 1 .. n :
           resolved[i] = IF i = d.currentTurn /\ Closes(d, h)
                         THEN [d.turns[i] EXCEPT !.status = event] ELSE d.turns[i]
  <2>1. CASE Closes(d, h)
    <3>1. d.turns[d.currentTurn] \in TurnRow
      BY <1>1
    <3>2. [d.turns[d.currentTurn] EXCEPT !.status = event] \in TurnRow
      BY <3>1 DEF TurnRow
    <3>. QED  BY <1>1, <2>1, <3>2, ExceptSeq
  <2>2. CASE ~ Closes(d, h)
    BY <1>1, <2>2
  <2>. QED  BY <2>1, <2>2
<1>3. FreshTurn(h.activeSeat) \in TurnRow
  BY DEF FreshTurn, TurnRow, GameState
<1> HIDE DEF resolved
<1>4. /\ after \in Seq(TurnRow) /\ Len(after) = IF Opens(d, h) THEN n + 1 ELSE n
      /\ Opens(d, h) => after[n + 1] = FreshTurn(h.activeSeat)
      /\ \A i \in 1 .. n : after[i] = resolved[i]
  BY <1>1, <1>2, <1>3, AppendProperties
<1> DEFINE current == IF Opens(d, h) THEN n + 1 ELSE d.currentTurn
<1>5. /\ p = [d EXCEPT !.game = h, !.version = d.version + 1, !.turns = after,
                       !.currentTurn = current]
      /\ current \in Nat
  BY <1>1, <1>2 DEF PersistTransition, resolved, Closes, Opens
<1> HIDE DEF after, p, current
<1>6. /\ p \in Database /\ p.game = h /\ p.version = d.version + 1 /\ p.results = d.results
      /\ p.turns = after /\ p.currentTurn = current
  BY <1>1, <1>4, <1>5 DEF Database
<1>7. e = IF h.status = "completed"
          THEN [p EXCEPT !.roomStatus = "between_games", !.recorded = d.recorded + 1] ELSE p
  BY DEF ApplySideEffects, p
<1> HIDE DEF e
<1>8. /\ e \in Database /\ e.game = p.game /\ e.version = p.version /\ e.results = p.results
      /\ e.turns = p.turns /\ e.currentTurn = p.currentTurn
  BY <1>1, <1>6, <1>7 DEF Database
<1>. QED  BY <1>2, <1>4, <1>6, <1>8 DEF e, current

\* A transition that is sound leaves sound rows, if the event it is logged as
\* tells whether the deadline had passed.
LEMMA ApplySideEffectsSound ==
  ASSUME NEW spared, NEW d, RowsSound(d, spared), d.game.status = "active",
         NEW h, Sound(h), NEW event \in Resolution,
         event = "timed_out" <=> CurrentTurn(d).overdue,
         event = "invalid_commit" => d.game.activeSeat \notin spared
  PROVE  LET e == ApplySideEffects(d, h, event)
         IN  /\ RowsSound(e, spared)
             /\ e.game = h /\ e.version = d.version + 1 /\ e.results = d.results
<1> DEFINE e == ApplySideEffects(d, h, event)
           n == Len(d.turns)
           cur == d.currentTurn
<1>1. /\ d \in Database /\ n \in Nat /\ cur \in 1 .. n /\ h \in GameState
      /\ d.turns \in Seq(TurnRow)
  BY DEF RowsSound, TurnsSound, Database, Sound, WellTyped
<1>2. /\ e \in Database /\ e.game = h /\ e.version = d.version + 1 /\ e.results = d.results
      /\ Len(e.turns) = IF Opens(d, h) THEN n + 1 ELSE n
      /\ e.currentTurn = IF Opens(d, h) THEN n + 1 ELSE cur
      /\ Opens(d, h) => e.turns[n + 1] = FreshTurn(h.activeSeat)
      /\ \A i \in 1 .. n :
           e.turns[i] = IF i = cur /\ Closes(d, h)
                        THEN [d.turns[i] EXCEPT !.status = event] ELSE d.turns[i]
  BY <1>1, PersistRows
<1>3. h.status \in {"active", "completed"} /\ d.game.status \in {"active", "completed"}
  BY <1>1 DEF Database, GameState
<1>4. LedgerSound(e)
  <2>1. d.recorded = 0 /\ d.roomStatus = "in_game"
    BY <1>1 DEF RowsSound, LedgerSound, Database
  <2>2. CASE h.status = "completed"
    BY <1>1, <1>2, <2>1, <2>2 DEF LedgerSound, ApplySideEffects, PersistTransition, Database
  <2>3. CASE h.status # "completed"
    BY <1>1, <1>2, <2>1, <2>3 DEF LedgerSound, ApplySideEffects, PersistTransition, Database
  <2>. QED  BY <2>2, <2>3
<1> HIDE DEF e
<1>5. TurnsSound(e, spared)
  <2>1. e.currentTurn \in 1 .. Len(e.turns)
    BY <1>1, <1>2
  <2>2. e.game.status = "active" => CurrentTurn(e).seat = e.game.activeSeat
    <3>1. CASE Opens(d, h)
      BY <1>2, <3>1 DEF CurrentTurn, FreshTurn
    <3>2. CASE ~ Opens(d, h) /\ h.status = "active"
      <4>1. h.activeSeat = d.game.activeSeat /\ ~ Closes(d, h)
        BY <3>2 DEF Opens, Closes
      <4>2. CurrentTurn(e) = CurrentTurn(d)
        BY <1>1, <1>2, <3>2, <4>1 DEF CurrentTurn
      <4>. QED  BY <1>2, <4>1, <4>2 DEF RowsSound, TurnsSound
    <3>. QED  BY <1>2, <3>1, <3>2
  <2>3. ASSUME NEW i \in 1 .. Len(e.turns)
        PROVE  /\ e.turns[i].status = "active" <=> i = e.currentTurn /\ e.game.status = "active"
               /\ e.turns[i].status # "active" =>
                    (e.turns[i].overdue <=> e.turns[i].status = "timed_out")
               /\ e.turns[i].seat \in spared => e.turns[i].status # "invalid_commit"
    <3>1. CASE i = n + 1
      <4>1. Opens(d, h)
        BY <1>1, <1>2, <3>1
      <4>2. e.turns[i] = FreshTurn(h.activeSeat) /\ e.currentTurn = i /\ h.status = "active"
        BY <1>2, <1>3, <3>1, <4>1 DEF Opens
      <4>. QED  BY <1>2, <4>2 DEF FreshTurn
    <3>2. CASE i # n + 1 /\ i = cur /\ Closes(d, h)
      <4>1. i \in 1 .. n /\ d.turns[i] \in TurnRow /\ d.turns[i] = CurrentTurn(d)
        BY <1>1, <3>2 DEF CurrentTurn
      <4>2. e.turns[i] = [d.turns[i] EXCEPT !.status = event]
        BY <1>2, <3>2, <4>1
      <4>3. /\ e.turns[i].status = event /\ e.turns[i].seat = d.game.activeSeat
            /\ e.turns[i].overdue = CurrentTurn(d).overdue
        BY <4>1, <4>2 DEF TurnRow, RowsSound, TurnsSound
      <4>4. ~ (i = e.currentTurn /\ e.game.status = "active")
        BY <1>2, <1>3, <3>2 DEF Opens, Closes
      <4>5. event # "active"
        BY DEF Resolution
      <4>. QED  BY <4>3, <4>4, <4>5
    <3>3. CASE i # n + 1 /\ ~ (i = cur /\ Closes(d, h))
      <4>0. i \in 1 .. n
        BY <1>1, <1>2, <3>3
      <4>1. e.turns[i] = d.turns[i]
        BY <1>2, <3>3, <4>0
      <4>2. (i = cur) <=> (i = e.currentTurn /\ h.status = "active")
        BY <1>1, <1>2, <1>3, <3>3, <4>1 DEF Opens, Closes
      <4>. QED  BY <1>2, <4>0, <4>1, <4>2 DEF RowsSound, TurnsSound
    <3>. QED  BY <3>1, <3>2, <3>3
  <2>. QED  BY <2>1, <2>2, <2>3 DEF TurnsSound
<1>. QED  BY <1>2, <1>4, <1>5 DEF RowsSound, e

\* Forfeited turns can be counted.
LEMMA TimedOutFinite ==
  ASSUME NEW d, d \in Database
  PROVE  IsFiniteSet(TimedOut(d)) /\ Cardinality(TimedOut(d)) \in Nat
<1>1. Len(d.turns) \in Nat
  BY DEF Database
<1>2. IsFiniteSet(1 .. Len(d.turns))
  BY <1>1, FS_Interval
<1>3. TimedOut(d) \subseteq 1 .. Len(d.turns)
  BY DEF TimedOut
<1>. QED  BY <1>2, <1>3, FS_Subset, FS_CardinalityType

\* Its version is accounted for by the turn it forfeits, or by nothing yet.
LEMMA ApplySideEffectsAccounts ==
  ASSUME NEW spared, NEW d, RowsSound(d, spared), d.game.status = "active",
         NEW h \in GameState, NEW event \in Resolution,
         NEW k \in Nat, Unaccounted(d, k)
  PROVE  LET e == ApplySideEffects(d, h, event)
         IN  /\ event # "timed_out" => Unaccounted(e, k + 1)
             /\ event = "timed_out" /\ Closes(d, h) => Unaccounted(e, k)
<1> DEFINE e == ApplySideEffects(d, h, event)
           n == Len(d.turns)
           cur == d.currentTurn
<1>1. d \in Database /\ n \in Nat /\ cur \in 1 .. n /\ d.turns \in Seq(TurnRow)
  BY DEF RowsSound, TurnsSound, Database
<1>2. /\ e.version = d.version + 1 /\ e.results = d.results
      /\ Len(e.turns) = IF Opens(d, h) THEN n + 1 ELSE n
      /\ Opens(d, h) => e.turns[n + 1] = FreshTurn(h.activeSeat)
      /\ \A i \in 1 .. n :
           e.turns[i] = IF i = cur /\ Closes(d, h)
                        THEN [d.turns[i] EXCEPT !.status = event] ELSE d.turns[i]
  BY <1>1, PersistRows
<1> HIDE DEF e
<1>3. d.turns[cur].status = "active" /\ cur \notin TimedOut(d)
  BY <1>1 DEF RowsSound, TurnsSound, TimedOut
<1>4. \A i \in 1 .. n : d.turns[i] \in TurnRow
  BY <1>1
<1>5. \A i \in 1 .. Len(e.turns) :
        e.turns[i].status = "timed_out" <=>
          \/ i \in TimedOut(d)
          \/ i = cur /\ Closes(d, h) /\ event = "timed_out"
  <2> SUFFICES ASSUME NEW i \in 1 .. Len(e.turns)
               PROVE  e.turns[i].status = "timed_out" <=>
                        \/ i \in TimedOut(d)
                        \/ i = cur /\ Closes(d, h) /\ event = "timed_out"
    OBVIOUS
  <2>1. CASE i = n + 1
    BY <1>1, <1>2, <2>1 DEF TimedOut, FreshTurn
  <2>2. CASE i # n + 1 /\ i = cur /\ Closes(d, h)
    BY <1>1, <1>2, <1>3, <1>4, <2>2 DEF TimedOut, TurnRow
  <2>3. CASE i # n + 1 /\ ~ (i = cur /\ Closes(d, h))
    <3>1. i \in 1 .. n
      BY <1>1, <1>2, <2>3
    <3>2. e.turns[i] = d.turns[i]
      BY <1>2, <2>3, <3>1
    <3>. QED  BY <2>3, <3>1, <3>2 DEF TimedOut
  <2>. QED  BY <2>1, <2>2, <2>3
<1>6. TimedOut(d) \cup {cur} \subseteq 1 .. Len(e.turns)
  BY <1>1, <1>2 DEF TimedOut
<1>7. /\ IsFiniteSet(TimedOut(d)) /\ Cardinality(TimedOut(d)) \in Nat
      /\ Cardinality(TimedOut(d) \cup {cur}) = Cardinality(TimedOut(d)) + 1
  BY <1>1, <1>3, TimedOutFinite, FS_AddElement
<1>8. Cardinality(d.results) \in Nat /\ d.version \in Nat
  BY <1>1, FS_CardinalityType DEF Unaccounted, Database
<1>9. CASE event # "timed_out"
  <2>1. TimedOut(e) = TimedOut(d)
    BY <1>5, <1>6, <1>9 DEF TimedOut
  <2>2. Unaccounted(e, k + 1)
    BY <1>2, <1>7, <1>8, <2>1 DEF Unaccounted
  <2>. QED  BY <1>9, <2>2 DEF e
<1>10. CASE event = "timed_out" /\ Closes(d, h)
  <2>1. TimedOut(e) = TimedOut(d) \cup {cur}
    BY <1>5, <1>6, <1>10 DEF TimedOut
  <2>2. Unaccounted(e, k)
    BY <1>2, <1>7, <1>8, <2>1 DEF Unaccounted
  <2>. QED  BY <1>10, <2>2 DEF e
<1>. QED  BY <1>9, <1>10

-----------------------------------------------------------------------------
(* The settlement and the requests *)

\* settleOverdueTurnIfNeeded leaves sound rows with no turn overdue; if it
\* changes them at all, it forfeits the current turn.
LEMMA SettleSound ==
  ASSUME NEW spared, NEW d, RowsSound(d, spared)
  PROVE  LET e == SettleOverdueTurn(d)
         IN  /\ RowsSound(e, spared) /\ ~ IsOverdue(e) /\ e.results = d.results
             /\ \A k \in Nat : Unaccounted(d, k) => Unaccounted(e, k)
             /\ ~ IsOverdue(d) => e = d
             /\ IsOverdue(d) =>
                  /\ e.version = d.version + 1
                  /\ e.game = ApplyTimeout(d.game, d.game.activeSeat)
                  /\ e.game.seatStatus = d.game.seatStatus
<1> DEFINE e == SettleOverdueTurn(d)
           h == ApplyTimeout(d.game, d.game.activeSeat)
<1>1. CASE ~ IsOverdue(d)
  BY <1>1 DEF SettleOverdueTurn
<1>2. CASE IsOverdue(d)
  <2>1. d.game.status = "active" /\ CurrentTurn(d).overdue /\ Sound(d.game)
    BY <1>2 DEF IsOverdue, RowsSound
  <2>2. Sound(h) /\ h.activeSeat # d.game.activeSeat /\ h.seatStatus = d.game.seatStatus
    BY <2>1, PenalizeIsSound, PenalizePassesOn DEF ApplyTimeout
  <2>3. Closes(d, h) /\ h \in GameState /\ "timed_out" \in Resolution
    BY <2>2 DEF Closes, Sound, WellTyped, Resolution
  <2> HIDE DEF h
  <2>4. e = ApplySideEffects(d, h, "timed_out")
    BY <1>2 DEF SettleOverdueTurn, h
  <2>5. RowsSound(e, spared) /\ e.game = h /\ e.version = d.version + 1 /\ e.results = d.results
    BY <2>1, <2>2, <2>3, <2>4, ApplySideEffectsSound
  <2>6. \A k \in Nat : Unaccounted(d, k) => Unaccounted(e, k)
    BY <2>1, <2>3, <2>4, ApplySideEffectsAccounts
  <2>7. ~ IsOverdue(e)
    <3>1. CASE h.status = "completed"
      BY <2>5, <3>1 DEF IsOverdue
    <3>2. CASE h.status # "completed"
      <4>1. Opens(d, h)
        BY <2>2, <3>2 DEF Opens
      <4>2. CurrentTurn(e) = FreshTurn(h.activeSeat)
        BY <2>3, <2>4, <4>1, PersistRows DEF CurrentTurn, RowsSound, TurnsSound
      <4>. QED  BY <4>2 DEF IsOverdue, FreshTurn
    <3>. QED  BY <3>1, <3>2
  <2> HIDE DEF e
  <2>. QED  BY <1>2, <2>2, <2>5, <2>6, <2>7 DEF e, h
<1>. QED  BY <1>1, <1>2

\* What every request is, a browser's or the bot's, whatever it proposes.
WellFormed(r) ==
  /\ r.player \in Seat /\ r.key \in Key
  /\ r.kind \in Moves \cup {"resign"}

\* The checks on a request that are made of the game itself.
MayPlay(g, r) ==
  /\ g.status = "active"
  /\ r.kind \in Moves => g.activeSeat = r.player /\ ~ IsInvalid(g, r)
  /\ r.kind = "resign" => g.seatStatus[r.player] = "active"

\* The engine makes a sound game of a request that passed the checks, and its
\* event is never that of a forfeited turn.
LEMMA TransitionSound ==
  ASSUME NEW g, Sound(g), NEW r, WellFormed(r), MayPlay(g, r)
  PROVE  /\ Sound(Transition(g, r))
         /\ EventOf(g, r) \in Resolution /\ EventOf(g, r) # "timed_out"
         /\ EventOf(g, r) = "invalid_commit" =>
              r.kind = "commit" /\ ~ ValidTurn(g, r.player, r.proposed)
<1>1. g.status = "active" /\ g.pool \in Nat /\ g.consecutivePasses + 1 \in Nat
  BY DealAssumption DEF MayPlay, Sound, WellTyped, GameState
<1>2. EventOf(g, r) \in Resolution /\ EventOf(g, r) # "timed_out"
      /\ (EventOf(g, r) = "invalid_commit" =>
            r.kind = "commit" /\ ~ ValidTurn(g, r.player, r.proposed))
  BY DEF WellFormed, Moves, EventOf, Resolution
<1>3. CASE r.kind = "commit"
  <2>1. r.player = g.activeSeat
    BY <1>3 DEF WellFormed, MayPlay, Moves
  <2>2. Transition(g, r) = ApplyCommit(g, g.activeSeat, r.proposed)
    BY <1>3, <2>1 DEF Transition
  <2>. QED  BY <1>1, <1>2, <2>1, <2>2, ApplyCommitIsSound
<1>4. CASE r.kind = "draw"
  <2>1. 1 \in 0 .. g.pool /\ r.player = g.activeSeat
    BY <1>1, <1>4 DEF MayPlay, Moves, IsInvalid
  <2>2. Transition(g, r) = DrawAndAdvance(g, g.activeSeat, 1, 0)
    BY <1>4, <2>1 DEF Transition, ApplyDraw
  <2>. QED  BY <1>1, <1>2, <2>1, <2>2, DrawAndAdvanceIsSound
<1>5. CASE r.kind = "pass"
  <2>1. 0 \in 0 .. g.pool /\ r.player = g.activeSeat
    BY <1>1, <1>5 DEF MayPlay, Moves
  <2>2. Transition(g, r) = DrawAndAdvance(g, g.activeSeat, 0, g.consecutivePasses + 1)
    BY <1>5, <2>1 DEF Transition, ApplyPass
  <2>. QED  BY <1>1, <1>2, <2>1, <2>2, DrawAndAdvanceIsSound
<1>6. CASE r.kind = "resign"
  <2>1. r.player \in Seat /\ g.seatStatus[r.player] = "active"
    BY <1>6 DEF WellFormed, MayPlay
  <2>2. Transition(g, r) = ApplyResign(g, r.player)
    BY <1>6 DEF Transition
  <2>. QED  BY <1>1, <1>2, <2>1, <2>2, ApplyResignIsSound
<1>. QED  BY <1>3, <1>4, <1>5, <1>6 DEF WellFormed, Moves

\* The rows a request is applied to are sound, not overdue, and the game in
\* them lets it be played.
LEMMA PreparedSound ==
  ASSUME NEW spared, NEW d, RowsSound(d, spared), NEW r, WellFormed(r), Applies(d, r)
  PROVE  LET p == Prepared(d, r)
         IN  /\ RowsSound(p, spared) /\ ~ IsOverdue(p) /\ MayPlay(p.game, r)
             /\ p.results = d.results /\ p.version \in Nat /\ p.version >= d.version
             /\ \A k \in Nat : Unaccounted(d, k) => Unaccounted(p, k)
             /\ r.kind # "resign" => p = d
<1>1. d.version \in Nat
  BY DEF RowsSound, Database
<1>2. CASE r.kind = "resign"
  <2>1. Prepared(d, r) = SettleOverdueTurn(d)
    BY <1>2 DEF Prepared
  <2>2. MayPlay(SettleOverdueTurn(d).game, r)
    BY <1>2 DEF Applies, AppliesResign, MayPlay, Moves
  <2>. QED  BY <1>1, <1>2, <2>1, <2>2, SettleSound
<1>3. CASE r.kind # "resign"
  <2>1. Prepared(d, r) = d /\ AppliesMove(d, r)
    BY <1>3 DEF Prepared, Applies
  <2>2. MayPlay(d.game, r) /\ ~ IsOverdue(d)
    BY <1>3, <2>1 DEF AppliesMove, MayPlay
  <2>. QED  BY <1>1, <2>1, <2>2
<1>. QED  BY <1>2, <1>3

\* A request that is applied leaves sound rows, a later version and one result
\* more, which accounts for the version.
LEMMA ProcessSound ==
  ASSUME NEW spared, NEW d, RowsSound(d, spared), NEW r, WellFormed(r), Applies(d, r),
         r.kind = "commit" /\ ~ ValidTurn(d.game, r.player, r.proposed) => r.player \notin spared
  PROVE  LET e == Process(d, r)
             p == Prepared(d, r)
         IN  /\ RowsSound(e, spared)
             /\ e.game = Transition(p.game, r)
             /\ e.version \in Nat /\ e.version > d.version
             /\ e.results = d.results \cup {[player |-> r.player, key |-> r.key]}
             /\ Unaccounted(d, 0) => Unaccounted(e, 0)
<1> DEFINE p == Prepared(d, r)
           h == Transition(p.game, r)
           event == EventOf(p.game, r)
           q == ApplySideEffects(p, h, event)
           x == [player |-> r.player, key |-> r.key]
           e == Process(d, r)
<1>1. /\ RowsSound(p, spared) /\ ~ IsOverdue(p) /\ MayPlay(p.game, r)
      /\ p.results = d.results /\ p.version \in Nat /\ p.version >= d.version
      /\ \A k \in Nat : Unaccounted(d, k) => Unaccounted(p, k)
      /\ r.kind # "resign" => p = d
  BY PreparedSound
<1>2. e = [q EXCEPT !.results = q.results \cup {x}]
  BY DEF Process, RecordResult
<1> HIDE DEF p, e
<1>3. p.game.status = "active" /\ Sound(p.game)
  BY <1>1 DEF MayPlay, RowsSound
<1>4. Sound(h) /\ event \in Resolution /\ event # "timed_out"
      /\ (event = "invalid_commit" =>
            r.kind = "commit" /\ ~ ValidTurn(p.game, r.player, r.proposed))
  BY <1>1, <1>3, TransitionSound
<1>5. event = "timed_out" <=> CurrentTurn(p).overdue
  BY <1>1, <1>3, <1>4 DEF IsOverdue, RowsSound, TurnsSound, CurrentTurn
<1>6. event = "invalid_commit" => p.game.activeSeat \notin spared
  BY <1>1, <1>4 DEF MayPlay, Moves
<1> HIDE DEF h, event
<1>7. RowsSound(q, spared) /\ q.game = h /\ q.version = p.version + 1 /\ q.results = p.results
  BY <1>1, <1>3, <1>4, <1>5, <1>6, ApplySideEffectsSound
<1>8. Unaccounted(d, 0) => Unaccounted(q, 1)
  <2>1. h \in GameState
    BY <1>4 DEF Sound, WellTyped
  <2>2. Unaccounted(p, 0) => Unaccounted(q, 0 + 1)
    BY <1>1, <1>3, <1>4, <2>1, ApplySideEffectsAccounts
  <2>. QED  BY <1>1, <2>2
<1> HIDE DEF q
<1>9. q \in Database /\ x \in [player : Seat, key : Key]
  BY <1>7 DEF RowsSound, WellFormed
<1>10. /\ e \in Database /\ e.results = d.results \cup {x}
       /\ e.game = q.game /\ e.version = q.version /\ e.turns = q.turns
       /\ e.currentTurn = q.currentTurn /\ e.roomStatus = q.roomStatus
       /\ e.recorded = q.recorded
  <2>1. q.results \cup {x} \subseteq [player : Seat, key : Key]
    BY <1>9 DEF Database
  <2>. QED  BY <1>1, <1>2, <1>7, <1>9, <2>1 DEF Database
<1>11. RowsSound(e, spared)
  BY <1>7, <1>10 DEF RowsSound, TurnsSound, LedgerSound, CurrentTurn
<1>12. Unaccounted(d, 0) => Unaccounted(e, 0)
  <2> SUFFICES ASSUME Unaccounted(d, 0)  PROVE Unaccounted(e, 0)
    OBVIOUS
  <2>1. x \notin d.results
    BY DEF Applies, IsReplay
  <2>2. /\ IsFiniteSet(e.results)
        /\ Cardinality(e.results) = Cardinality(d.results) + 1
        /\ Cardinality(d.results) \in Nat
    BY <1>10, <2>1, FS_AddElement, FS_CardinalityType DEF Unaccounted
  <2>3. TimedOut(e) = TimedOut(q) /\ Cardinality(TimedOut(q)) \in Nat
    BY <1>9, <1>10, TimedOutFinite DEF TimedOut
  <2>. QED  BY <1>1, <1>7, <1>8, <1>10, <2>2, <2>3 DEF Unaccounted
<1>13. d.version \in Nat
  BY DEF RowsSound, Database
<1>. QED  BY <1>1, <1>7, <1>10, <1>11, <1>12, <1>13 DEF e, p, h

\* A request that is applied leaves only accepted rows on the table.
LEMMA TransitionKeepsIntact ==
  ASSUME NEW g, Sound(g), Intact(g), NEW r, WellFormed(r), MayPlay(g, r)
  PROVE  Intact(Transition(g, r))
<1>1. g.status = "active" /\ g.pool \in Nat /\ g.consecutivePasses + 1 \in Nat /\ g \in GameState
  BY DealAssumption DEF MayPlay, Sound, WellTyped, GameState
<1>2. CASE r.kind = "commit"
  <2>1. r.player = g.activeSeat /\ Transition(g, r) = ApplyCommit(g, g.activeSeat, r.proposed)
    BY <1>2 DEF MayPlay, Moves, Transition
  <2>2. CASE r.proposed \in SUBSET Rows
    BY <1>1, <2>1, <2>2, ApplyCommitKeepsIntact
  <2>3. CASE r.proposed \notin SUBSET Rows
    <3>1. ~ ValidTurn(g, g.activeSeat, r.proposed)
      BY <2>3, CatalogAssumption DEF ValidTurn
    <3>. QED  BY <1>1, <2>1, <3>1, PenalizeKeepsIntact DEF ApplyCommit
  <2>. QED  BY <2>2, <2>3
<1>3. CASE r.kind = "draw"
  <2>1. Transition(g, r) = DrawAndAdvance(g, g.activeSeat, 1, 0) /\ 1 \in 0 .. g.pool
    BY <1>1, <1>3 DEF MayPlay, Moves, Transition, ApplyDraw, IsInvalid
  <2>. QED  BY <1>1, <2>1, DrawKeepsIntact
<1>4. CASE r.kind = "pass"
  <2>1. /\ Transition(g, r) = DrawAndAdvance(g, g.activeSeat, 0, g.consecutivePasses + 1)
        /\ 0 \in 0 .. g.pool
    BY <1>1, <1>4 DEF MayPlay, Moves, Transition, ApplyPass
  <2>. QED  BY <1>1, <2>1, DrawKeepsIntact
<1>5. CASE r.kind = "resign"
  <2>1. r.player \in Seat /\ g.seatStatus[r.player] = "active"
        /\ Transition(g, r) = ApplyResign(g, r.player)
    BY <1>5 DEF WellFormed, MayPlay, Moves, Transition
  <2>. QED  BY <1>1, <2>1, ApplyResignKeepsIntact
<1>. QED  BY <1>2, <1>3, <1>4, <1>5 DEF WellFormed, Moves

\* The settlement of an overdue turn loses no tile.
LEMMA SettleKeepsIntact ==
  ASSUME NEW d, RowsSound(d, {}), Intact(d.game)
  PROVE  Intact(SettleOverdueTurn(d).game)
<1>1. CASE IsOverdue(d)
  <2>1. SettleOverdueTurn(d).game = Penalize(d.game, d.game.activeSeat)
    BY <1>1, SettleSound DEF ApplyTimeout
  <2>. QED  BY <1>1, <2>1, PenalizeKeepsIntact DEF IsOverdue, RowsSound
<1>2. CASE ~ IsOverdue(d)
  BY <1>2, SettleSound
<1>. QED  BY <1>1, <1>2

\* A request that applies may settle an overdue turn first.
LEMMA ProcessKeepsIntact ==
  ASSUME NEW d, RowsSound(d, {}), Intact(d.game), NEW r, WellFormed(r), Applies(d, r)
  PROVE  Intact(Process(d, r).game)
<1> DEFINE p == Prepared(d, r)
<1>1. /\ RowsSound(p, {}) /\ MayPlay(p.game, r)
      /\ Process(d, r).game = Transition(p.game, r)
  BY PreparedSound, ProcessSound
<1>2. Intact(p.game)
  BY SettleKeepsIntact DEF Prepared
<1> HIDE DEF p
<1>. QED  BY <1>1, <1>2, TransitionKeepsIntact DEF RowsSound

-----------------------------------------------------------------------------
(* A refusal is final *)

\* Neither replayed nor applied to the rows d.
Refused(d, r) == ~ IsReplay(d, r) /\ ~ Applies(d, r)

\* A seat that resigned is out of every game that a request makes of this one.
LEMMA TransitionKeepsResigned ==
  ASSUME NEW g, Sound(g), NEW r, WellFormed(r), MayPlay(g, r),
         NEW s \in Seat, g.seatStatus[s] = "resigned"
  PROVE  Transition(g, r).seatStatus[s] = "resigned"
<1>1. g.status = "active" /\ g.pool \in Nat /\ g.consecutivePasses + 1 \in Nat
  BY DealAssumption DEF MayPlay, Sound, WellTyped, GameState
<1>2. CASE r.kind = "commit"
  <2>1. r.player = g.activeSeat
    BY <1>2 DEF WellFormed, MayPlay, Moves
  <2>2. Transition(g, r) = ApplyCommit(g, g.activeSeat, r.proposed)
    BY <1>2, <2>1 DEF Transition
  <2>. QED  BY <1>1, <2>1, <2>2, ApplyCommitPassesOn
<1>3. CASE r.kind = "draw"
  <2>1. 1 \in 0 .. g.pool /\ r.player = g.activeSeat
    BY <1>1, <1>3 DEF MayPlay, Moves, IsInvalid
  <2>2. Transition(g, r) = DrawAndAdvance(g, g.activeSeat, 1, 0)
    BY <1>3, <2>1 DEF Transition, ApplyDraw
  <2>. QED  BY <1>1, <2>1, <2>2, DrawAndAdvancePassesOn
<1>4. CASE r.kind = "pass"
  <2>1. 0 \in 0 .. g.pool /\ r.player = g.activeSeat
    BY <1>1, <1>4 DEF MayPlay, Moves
  <2>2. Transition(g, r) = DrawAndAdvance(g, g.activeSeat, 0, g.consecutivePasses + 1)
    BY <1>4, <2>1 DEF Transition, ApplyPass
  <2>. QED  BY <1>1, <2>1, <2>2, DrawAndAdvancePassesOn
<1>5. CASE r.kind = "resign"
  <2>1. r.player \in Seat /\ g.seatStatus[r.player] = "active"
    BY <1>5 DEF WellFormed, MayPlay
  <2>2. Transition(g, r) = ApplyResign(g, r.player)
    BY <1>5 DEF Transition
  <2>. QED  BY <1>1, <2>1, <2>2, ApplyResignMoves
<1>. QED  BY <1>2, <1>3, <1>4, <1>5 DEF WellFormed, Moves

\* Who may resign: a seat still playing in a game that goes on once an overdue
\* turn is settled.
LEMMA WhoMayResign ==
  ASSUME NEW spared, NEW d, RowsSound(d, spared), NEW r
  PROVE  AppliesResign(d, r) <=>
           /\ d.game.status = "active"
           /\ SettleOverdueTurn(d).game.status = "active"
           /\ d.game.seatStatus[r.player] = "active"
<1>1. SettleOverdueTurn(d).game.seatStatus = d.game.seatStatus
  BY SettleSound
<1>. QED  BY <1>1 DEF AppliesResign

\* What was refused is refused again after an overdue turn was settled.
LEMMA SettleKeepsRefusal ==
  ASSUME NEW spared, NEW d, RowsSound(d, spared), NEW r, Refused(d, r),
         r.kind # "resign" => r.version \in Nat /\ r.version <= d.version
  PROVE  Refused(SettleOverdueTurn(d), r)
<1> DEFINE e == SettleOverdueTurn(d)
<1>1. CASE ~ IsOverdue(d)
  BY <1>1, SettleSound
<1>2. CASE IsOverdue(d)
  <2>1. /\ RowsSound(e, spared) /\ ~ IsOverdue(e) /\ e.results = d.results
        /\ e.version = d.version + 1 /\ e.game.seatStatus = d.game.seatStatus
    BY <1>2, SettleSound
  <2> HIDE DEF e
  <2>2. d.version \in Nat /\ d.game.status = "active"
    BY <1>2 DEF RowsSound, Database, IsOverdue
  <2>3. ~ IsReplay(e, r)
    BY <2>1 DEF Refused, IsReplay
  <2>4. CASE r.kind = "resign"
    <3>1. SettleOverdueTurn(e) = e
      BY <2>1, SettleSound
    <3>2. ~ AppliesResign(d, r)
      BY <2>4 DEF Refused, Applies
    <3>3. ~ AppliesResign(e, r)
      BY <2>1, <2>2, <3>1, <3>2, WhoMayResign DEF e
    <3>. QED  BY <2>3, <2>4, <3>3 DEF Refused, Applies, e
  <2>5. CASE r.kind # "resign"
    <3>1. IsStale(e, r)
      BY <2>1, <2>2, <2>5 DEF IsStale
    <3>. QED  BY <2>3, <2>5, <3>1 DEF Refused, Applies, AppliesMove, e
  <2>. QED  BY <2>4, <2>5
<1>. QED  BY <1>1, <1>2

\* The clock: the deadline of the current turn has passed.
Expired(d) == [d EXCEPT !.turns[d.currentTurn].overdue = TRUE]

\* A deadline that passes changes nothing but that the turn is overdue.
LEMMA ExpiredSound ==
  ASSUME NEW spared, NEW d, RowsSound(d, spared), d.game.status = "active"
  PROVE  LET e == Expired(d)
         IN  /\ RowsSound(e, spared) /\ IsOverdue(e)
             /\ e.game = d.game /\ e.version = d.version /\ e.results = d.results
             /\ \A k \in Nat : Unaccounted(d, k) => Unaccounted(e, k)
<1> DEFINE e == Expired(d)
           cur == d.currentTurn
           row == [d.turns[cur] EXCEPT !.overdue = TRUE]
<1>1. d \in Database /\ cur \in 1 .. Len(d.turns) /\ d.turns \in Seq(TurnRow)
  BY DEF RowsSound, TurnsSound, Database
<1>2. d.turns[cur] \in TurnRow
  BY <1>1
<1>3. /\ row \in TurnRow /\ row.overdue = TRUE
      /\ row.seat = d.turns[cur].seat /\ row.status = d.turns[cur].status
  BY <1>2 DEF TurnRow
<1>4. row.status = "active"
  BY <1>1, <1>3 DEF RowsSound, TurnsSound
<1>5. e = [d EXCEPT !.turns = [d.turns EXCEPT ![cur] = row]]
  BY DEF Expired
<1> HIDE DEF e, row
<1>6. /\ [d.turns EXCEPT ![cur] = row] \in Seq(TurnRow)
      /\ Len([d.turns EXCEPT ![cur] = row]) = Len(d.turns)
      /\ \A i \in 1 .. Len(d.turns) :
           [d.turns EXCEPT ![cur] = row][i] = IF i = cur THEN row ELSE d.turns[i]
  BY <1>1, <1>3, ExceptSeq
<1>7. /\ e \in Database /\ e.game = d.game /\ e.version = d.version
      /\ e.results = d.results /\ e.currentTurn = cur /\ e.roomStatus = d.roomStatus
      /\ e.recorded = d.recorded
      /\ Len(e.turns) = Len(d.turns)
      /\ \A i \in 1 .. Len(d.turns) : e.turns[i] = IF i = cur THEN row ELSE d.turns[i]
  BY <1>1, <1>5, <1>6 DEF Database
<1>8. IsOverdue(e)
  BY <1>1, <1>3, <1>4, <1>7 DEF IsOverdue, CurrentTurn
<1>9. TurnsSound(e, spared)
  BY <1>1, <1>3, <1>4, <1>7 DEF RowsSound, TurnsSound, CurrentTurn
<1>10. RowsSound(e, spared)
  BY <1>7, <1>9 DEF RowsSound, LedgerSound
<1>11. TimedOut(e) = TimedOut(d)
  <2>1. \A i \in 1 .. Len(d.turns) : e.turns[i].status = d.turns[i].status
    BY <1>3, <1>7
  <2>. QED  BY <1>7, <2>1 DEF TimedOut
<1>12. \A k \in Nat : Unaccounted(d, k) => Unaccounted(e, k)
  BY <1>7, <1>11 DEF Unaccounted
<1>. QED  BY <1>7, <1>8, <1>10, <1>12 DEF e

\* What was refused before the deadline passed is refused after it.
LEMMA ExpiredKeepsRefusal ==
  ASSUME NEW spared, NEW d, RowsSound(d, spared), d.game.status = "active", ~ IsOverdue(d),
         NEW r, Refused(d, r)
  PROVE  Refused(Expired(d), r)
<1> DEFINE e == Expired(d)
<1>1. /\ RowsSound(e, spared) /\ IsOverdue(e) /\ e.game = d.game /\ e.results = d.results
  BY ExpiredSound
<1> HIDE DEF e
<1>2. ~ IsReplay(e, r)
  BY <1>1 DEF Refused, IsReplay
<1>3. CASE r.kind = "resign"
  <2>1. SettleOverdueTurn(d) = d
    BY DEF SettleOverdueTurn
  <2>2. ~ AppliesResign(d, r)
    BY <1>3 DEF Refused, Applies
  <2>3. ~ AppliesResign(e, r)
    BY <1>1, <2>1, <2>2, WhoMayResign
  <2>. QED  BY <1>2, <1>3, <2>3 DEF Refused, Applies, e
<1>4. CASE r.kind # "resign"
  BY <1>1, <1>2, <1>4 DEF Refused, Applies, AppliesMove, e
<1>. QED  BY <1>3, <1>4

\* What was refused is refused again after another request was applied.
LEMMA ProcessKeepsRefusal ==
  ASSUME NEW spared, NEW d, RowsSound(d, spared), NEW q, WellFormed(q), Applies(d, q),
         q.kind = "commit" /\ ~ ValidTurn(d.game, q.player, q.proposed) => q.player \notin spared,
         NEW r, WellFormed(r), Refused(d, r), r.key # q.key,
         r.kind # "resign" => r.version \in Nat /\ r.version <= d.version
  PROVE  Refused(Process(d, q), r)
<1> DEFINE e == Process(d, q)
           p == Prepared(d, q)
<1>1. /\ RowsSound(e, spared) /\ e.game = Transition(p.game, q)
      /\ e.version \in Nat /\ e.version > d.version
      /\ e.results = d.results \cup {[player |-> q.player, key |-> q.key]}
  BY ProcessSound
<1>2. RowsSound(p, spared) /\ MayPlay(p.game, q) /\ ~ IsOverdue(p) /\ (q.kind # "resign" => p = d)
  BY PreparedSound
<1>3. d.version \in Nat
  BY DEF RowsSound, Database
<1>4. p.game.seatStatus = d.game.seatStatus
  BY <1>2, SettleSound DEF Prepared
<1>5. p = SettleOverdueTurn(d) /\ p.game.status = "active" /\ d.game.status = "active"
  <2>1. d.game.status = "active"
    BY DEF Applies, AppliesMove, AppliesResign
  <2>2. p.game.status = "active"
    BY <1>2 DEF MayPlay
  <2>3. CASE q.kind = "resign"
    BY <2>1, <2>2, <2>3 DEF Prepared
  <2>4. CASE q.kind # "resign"
    BY <1>2, <2>1, <2>2, <2>4 DEF SettleOverdueTurn
  <2>. QED  BY <2>3, <2>4
<1> HIDE DEF e, p
<1>6. ~ IsReplay(e, r)
  BY <1>1 DEF Refused, IsReplay
<1>7. CASE r.kind = "resign"
  <2>1. ~ AppliesResign(d, r)
    BY <1>7 DEF Refused, Applies
  <2>2. r.player \in Seat /\ d.game.seatStatus[r.player] # "active"
    BY <1>5, <2>1, WhoMayResign DEF WellFormed
  <2>3. p.game.seatStatus[r.player] = "resigned"
    BY <1>2, <1>4, <2>2 DEF RowsSound, Database, GameState
  <2>4. e.game.seatStatus[r.player] = "resigned"
    BY <1>1, <1>2, <2>2, <2>3, TransitionKeepsResigned DEF RowsSound
  <2>5. ~ AppliesResign(e, r)
    BY <1>1, <2>4, WhoMayResign
  <2>. QED  BY <1>6, <1>7, <2>5 DEF Refused, Applies, e
<1>8. CASE r.kind # "resign"
  <2>1. IsStale(e, r)
    BY <1>1, <1>3, <1>8 DEF IsStale
  <2>. QED  BY <1>6, <1>8, <2>1 DEF Refused, Applies, AppliesMove, e
<1>. QED  BY <1>7, <1>8
==============================================================================
