------------------------------- MODULE TurnProofs -------------------------------
(***************************************************************************)
(* What holds of the rows a game is kept in, whoever touches them in       *)
(* whatever order: any number of seats, drivers of the bot and requests.   *)
(* First what the requests and snapshots in flight know of the rows, then  *)
(* what follows of the properties, then the refinement of Game.tla.        *)
(***************************************************************************)
EXTENDS TurnSystem, EngineProofs

-----------------------------------------------------------------------------
(* What the requests and the snapshots in flight know of the rows *)

\* A browser's requests have keys of their own; a move that carries the
\* current version was made for the game as it is.
RequestsSound ==
  /\ IsFiniteSet(sent)
  /\ \A r \in sent :
       /\ WellFormed(r) /\ r.player \in Human
       /\ r.kind = "commit" => r.proposed \in Proposals
       /\ \E n \in 1 .. Cardinality(sent) : r.key = <<"click", n>>
       /\ r.kind \in Moves =>
            /\ r.version \in Nat /\ r.version <= db.version
            /\ r.version = db.version => r.seen = db.game
  /\ \A r, q \in sent : r.key = q.key => r = q

\* What a request was answered stays so: an accepted one can be replayed, a
\* refused one neither replayed nor applied.
AnswersSound ==
  /\ \A r \in accepted : r \in sent /\ IsReplay(db, r)
  /\ \A r \in refused : r \in sent /\ Refused(db, r)

Snapshot == [stage : {"row", "read"}, version : Nat, turn : Nat, game : GameState]

\* A driver of the bot whose snapshot has the current version has the game as
\* it is, however many steps it was read in.
SnapshotsSound ==
  /\ bot \in [Drivers -> {Idle} \cup Snapshot]
  /\ \A w \in Drivers : bot[w] # Idle =>
       /\ bot[w].game.activeSeat \in Bots
       /\ bot[w].version <= db.version
       /\ bot[w].version = db.version => bot[w].game = db.game

SystemSound ==
  /\ RowsSound(db, Bots) /\ Unaccounted(db, 0)
  /\ RequestsSound /\ AnswersSound /\ SnapshotsSound

\* A game just dealt, with nothing sent and nothing read, is sound.
LEMMA InitSound == Init => SystemSound
<1> SUFFICES ASSUME Init  PROVE SystemSound
  OBVIOUS
<1>1. PICK start \in Seat : db = DealtRows(start)
  BY DEF Init
<1>2. RowsSound(db, Bots) /\ Unaccounted(db, 0)
  BY <1>1, DealtRowsSound
<1>3. RequestsSound
  BY FS_EmptySet DEF Init, RequestsSound
<1>4. AnswersSound
  BY DEF Init, AnswersSound
<1>5. SnapshotsSound
  BY DEF Init, SnapshotsSound
<1>. QED  BY <1>2, <1>3, <1>4, <1>5 DEF SystemSound

\* The rows only ever grow older: a new version, or the same game still, and
\* no result is forgotten.
Later(d, e) ==
  /\ d.version \in Nat /\ e.version \in Nat /\ d.version <= e.version
  /\ e.version = d.version => e.game = d.game
  /\ d.results \subseteq e.results

\* What is known of the requests and the snapshots survives any step that
\* makes the rows older and refuses again what was refused.
LEMMA KnowledgeKept ==
  ASSUME RequestsSound, AnswersSound, SnapshotsSound, Later(db, db'),
         UNCHANGED <<sent, accepted, refused, bot>>,
         \A r \in refused : Refused(db', r)
  PROVE  RequestsSound' /\ AnswersSound' /\ SnapshotsSound'
<1>1. RequestsSound'
  BY DEF RequestsSound, Later
<1>2. AnswersSound'
  BY DEF AnswersSound, Later, IsReplay
<1>3. SnapshotsSound'
  <2>1. \A w \in Drivers : bot[w] # Idle => bot[w].version \in Nat
    BY DEF SnapshotsSound, Snapshot
  <2>. QED  BY <2>1 DEF SnapshotsSound, Later
<1>. QED  BY <1>1, <1>2, <1>3

\* A look at the game and the sweep's settlement.
LEMMA SettleStep ==
  ASSUME SystemSound, db' = SettleOverdueTurn(db),
         UNCHANGED <<sent, accepted, refused, bot>>
  PROVE  SystemSound'
<1>1. RowsSound(db, Bots) /\ db.version \in Nat
  BY DEF SystemSound, RowsSound, Database
<1>2. RowsSound(db', Bots) /\ db'.results = db.results
      /\ (Unaccounted(db, 0) => Unaccounted(db', 0))
      /\ (~ IsOverdue(db) => db' = db)
      /\ (IsOverdue(db) => db'.version = db.version + 1)
  BY <1>1, SettleSound
<1>3. Later(db, db')
  BY <1>1, <1>2 DEF Later
<1>4. \A r \in refused : Refused(db', r)
  <2>1. \A r \in refused : Refused(db, r) /\ (r.kind # "resign" => r.version \in Nat /\ r.version <= db.version)
    BY DEF SystemSound, AnswersSound, RequestsSound, WellFormed
  <2>. QED  BY <1>1, <2>1, SettleKeepsRefusal
<1>5. RequestsSound' /\ AnswersSound' /\ SnapshotsSound'
  BY <1>3, <1>4, KnowledgeKept DEF SystemSound
<1>. QED  BY <1>2, <1>5 DEF SystemSound

\* A browser sends a request with a key of its own.
LEMMA SendStep ==
  ASSUME SystemSound, NEW r, WellFormed(r), r.player \in Human, r.key = FreshKey,
         r.kind = "commit" => r.proposed \in Proposals,
         r.kind \in Moves => r.version = db.version /\ r.seen = db.game,
         sent' = sent \cup {r}, UNCHANGED <<db, accepted, refused, bot>>
  PROVE  SystemSound'
<1>1. RowsSound(db, Bots) /\ db.version \in Nat /\ IsFiniteSet(sent) /\ Cardinality(sent) \in Nat
  BY FS_CardinalityType DEF SystemSound, RowsSound, Database, RequestsSound
<1>2. \A q \in sent : q.key # r.key
  BY <1>1 DEF SystemSound, RequestsSound, FreshKey
<1>3. IsFiniteSet(sent') /\ Cardinality(sent') = Cardinality(sent) + 1
  BY <1>1, <1>2, FS_AddElement
<1>4. RequestsSound'
  <2>1. ASSUME NEW q \in sent'
        PROVE  /\ WellFormed(q) /\ q.player \in Human
               /\ q.kind = "commit" => q.proposed \in Proposals
               /\ \E n \in 1 .. Cardinality(sent') : q.key = <<"click", n>>
               /\ q.kind \in Moves =>
                    /\ q.version \in Nat /\ q.version <= db.version
                    /\ q.version = db.version => q.seen = db.game
    <3>1. CASE q \in sent
      <4>1. PICK n \in 1 .. Cardinality(sent) : q.key = <<"click", n>>
        BY <3>1 DEF SystemSound, RequestsSound
      <4>2. n \in 1 .. Cardinality(sent')
        BY <1>1, <1>3
      <4>. QED  BY <3>1, <4>1, <4>2 DEF SystemSound, RequestsSound
    <3>2. CASE q = r
      <4>1. r.key = <<"click", Cardinality(sent')>> /\ Cardinality(sent') \in 1 .. Cardinality(sent')
        BY <1>1, <1>3 DEF FreshKey
      <4>. QED  BY <1>1, <3>2, <4>1
    <3>. QED  BY <3>1, <3>2
  <2>2. \A q, t \in sent' : q.key = t.key => q = t
    BY <1>2 DEF SystemSound, RequestsSound
  <2>. QED  BY <1>3, <2>1, <2>2 DEF RequestsSound
<1>5. AnswersSound' /\ SnapshotsSound'
  BY DEF SystemSound, AnswersSound, SnapshotsSound
<1>. QED  BY <1>1, <1>4, <1>5 DEF SystemSound

\* The clock.
LEMMA ExpireStep ==
  ASSUME SystemSound, DeadlinePasses  PROVE SystemSound'
<1>1. RowsSound(db, Bots) /\ db.version \in Nat
  BY DEF SystemSound, RowsSound, Database
<1>2. db' = Expired(db) /\ db.game.status = "active" /\ ~ IsOverdue(db)
      /\ UNCHANGED <<sent, accepted, refused, bot>>
  BY DEF DeadlinePasses, Expired, IsOverdue
<1>3. /\ RowsSound(db', Bots) /\ db'.game = db.game /\ db'.version = db.version
      /\ db'.results = db.results /\ (Unaccounted(db, 0) => Unaccounted(db', 0))
  BY <1>1, <1>2, ExpiredSound
<1>4. \A r \in refused : Refused(db', r)
  BY <1>1, <1>2, ExpiredKeepsRefusal DEF SystemSound, AnswersSound
<1>5. RequestsSound' /\ AnswersSound' /\ SnapshotsSound'
  BY <1>1, <1>2, <1>3, <1>4, KnowledgeKept DEF SystemSound, Later
<1>. QED  BY <1>3, <1>5 DEF SystemSound

\* What a request that is applied leaves of the requests answered before it.
LEMMA ProcessStep ==
  ASSUME SystemSound, NEW q, WellFormed(q), Applies(db, q), db' = Process(db, q),
         q.kind = "commit" /\ ~ ValidTurn(db.game, q.player, q.proposed) => q.player \notin Bots
  PROVE  /\ RowsSound(db', Bots) /\ Unaccounted(db', 0) /\ Later(db, db') /\ db'.version # db.version
         /\ \A r \in refused : r.key # q.key => Refused(db', r)
         /\ IsReplay(db', q)
<1>1. RowsSound(db, Bots) /\ db.version \in Nat
  BY DEF SystemSound, RowsSound, Database
<1>2. /\ RowsSound(db', Bots) /\ db'.version \in Nat /\ db'.version > db.version
      /\ db'.results = db.results \cup {[player |-> q.player, key |-> q.key]}
      /\ (Unaccounted(db, 0) => Unaccounted(db', 0))
  BY <1>1, ProcessSound
<1>3. ASSUME NEW r \in refused, r.key # q.key  PROVE Refused(db', r)
  <2>1. WellFormed(r) /\ Refused(db, r)
        /\ (r.kind # "resign" => r.version \in Nat /\ r.version <= db.version)
    BY DEF SystemSound, AnswersSound, RequestsSound, WellFormed
  <2>. QED  BY <1>1, <1>3, <2>1, ProcessKeepsRefusal
<1>4. Later(db, db') /\ db'.version # db.version
  BY <1>1, <1>2 DEF Later
<1>5. IsReplay(db', q)
  <2>1. [player |-> q.player, key |-> q.key] \in db'.results
    BY <1>2
  <2>. QED  BY <2>1 DEF IsReplay
<1>. QED  BY <1>2, <1>3, <1>4, <1>5 DEF SystemSound

\* A request is delivered, for the first time or again.
LEMMA DeliverStep ==
  ASSUME SystemSound, NEW r \in sent, Deliver(r)  PROVE SystemSound'
<1>1. WellFormed(r) /\ r.player \notin Bots
  BY DEF SystemSound, RequestsSound, Human
<1>2. db' = Process(db, r) /\ UNCHANGED <<sent, bot>>
  BY DEF Deliver, Answer
<1>3. CASE Applies(db, r)
  <2>1. /\ RowsSound(db', Bots) /\ Unaccounted(db', 0) /\ Later(db, db')
        /\ \A q \in refused : q.key # r.key => Refused(db', q)
        /\ IsReplay(db', r)
    BY <1>1, <1>2, <1>3, ProcessStep
  <2>2. accepted' = accepted \cup {r} /\ refused' = refused
    BY <1>3 DEF Deliver, Answer
  <2>3. \A q \in refused : q.key # r.key
    BY <1>3 DEF SystemSound, AnswersSound, RequestsSound, Refused
  <2>4. RequestsSound'
    BY <1>2, <2>1 DEF SystemSound, RequestsSound, Later
  <2>5. AnswersSound'
    <3>1. \A q \in accepted : IsReplay(db', q)
      BY <2>1 DEF SystemSound, AnswersSound, Later, IsReplay
    <3>. QED  BY <1>2, <2>1, <2>2, <2>3, <3>1 DEF SystemSound, AnswersSound
  <2>6. SnapshotsSound'
    <3>1. \A w \in Drivers : bot[w] # Idle => bot[w].version \in Nat
      BY DEF SystemSound, SnapshotsSound, Snapshot
    <3>. QED  BY <1>2, <2>1, <3>1 DEF SystemSound, SnapshotsSound, Later
  <2>. QED  BY <2>1, <2>4, <2>5, <2>6 DEF SystemSound
<1>4. CASE ~ Applies(db, r)
  <2>1. db' = db
    BY <1>2, <1>4 DEF Process
  <2>2. AnswersSound'
    <3>1. CASE IsReplay(db, r)
      BY <1>2, <2>1, <3>1 DEF SystemSound, AnswersSound, Deliver, Answer
    <3>2. CASE ~ IsReplay(db, r)
      BY <1>2, <1>4, <2>1, <3>2 DEF SystemSound, AnswersSound, Deliver, Answer, Refused
    <3>. QED  BY <3>1, <3>2
  <2>3. RequestsSound' /\ SnapshotsSound'
    BY <1>2, <2>1 DEF SystemSound, RequestsSound, SnapshotsSound
  <2>. QED  BY <2>1, <2>2, <2>3 DEF SystemSound
<1>. QED  BY <1>3, <1>4

\* The computer's request, as submitBotDecision makes it of a snapshot.
BotRequest(w, move) ==
  [player |-> bot[w].game.activeSeat, key |-> BotKey(bot[w].turn), kind |-> move.kind,
   proposed |-> move.proposed, version |-> bot[w].version, turn |-> bot[w].turn]

\* A snapshot is read row by row; one with the current version is whole.
LEMMA ReadStep ==
  ASSUME SystemSound, NEW w \in Drivers, ReadGameRow(w) \/ ReadTables(w)
  PROVE  SystemSound'
<1>1. /\ db.version \in Nat /\ db.currentTurn \in Nat /\ db.game \in GameState
      /\ bot \in [Drivers -> {Idle} \cup Snapshot]
  BY DEF SystemSound, RowsSound, Database, SnapshotsSound
<1>2. UNCHANGED <<db, sent, accepted, refused>>
  BY DEF ReadGameRow, ReadTables
<1>3. RowsSound(db', Bots) /\ Unaccounted(db', 0) /\ RequestsSound' /\ AnswersSound'
  BY <1>2 DEF SystemSound, RequestsSound, AnswersSound
<1>4. SnapshotsSound'
  <2>1. CASE ReadGameRow(w)
    <3> DEFINE b == [stage |-> "row", version |-> db.version, turn |-> db.currentTurn,
                     game |-> db.game]
    <3>1. b \in Snapshot /\ bot' = [bot EXCEPT ![w] = b] /\ db.game.activeSeat \in Bots
      BY <1>1, <2>1 DEF ReadGameRow, Snapshot
    <3>2. b.game = db.game /\ b.version = db.version
      OBVIOUS
    <3> HIDE DEF b
    <3>. QED  BY <1>1, <1>2, <3>1, <3>2 DEF SystemSound, SnapshotsSound
  <2>2. CASE ReadTables(w)
    <3> DEFINE torn == [bot[w].game EXCEPT !.rack = db.game.rack, !.table = db.game.table,
                                           !.hasInitialMeld = db.game.hasInitialMeld,
                                           !.seatStatus = db.game.seatStatus]
               b == [bot[w] EXCEPT !.stage = "read", !.game = torn]
    <3>1. bot[w].stage = "row"
      BY <2>2 DEF ReadTables
    <3>2. bot[w] \in Snapshot /\ bot[w] # Idle
      BY <1>1, <3>1 DEF Idle
    <3>3. torn \in GameState /\ torn.activeSeat = bot[w].game.activeSeat
      BY <1>1, <3>2 DEF Snapshot, GameState
    <3>4. bot[w].game = db.game => torn = db.game
      BY <1>1 DEF GameState
    <3> HIDE DEF torn
    <3>5. b \in Snapshot /\ b.game = torn /\ b.version = bot[w].version
      BY <3>2, <3>3 DEF Snapshot
    <3>6. bot' = [bot EXCEPT ![w] = Idle] \/ bot' = [bot EXCEPT ![w] = b]
      BY <2>2 DEF ReadTables, torn
    <3> HIDE DEF b
    <3>. QED  BY <1>1, <1>2, <3>2, <3>3, <3>4, <3>5, <3>6 DEF SystemSound, SnapshotsSound
  <2>. QED  BY <2>1, <2>2
<1>. QED  BY <1>3, <1>4 DEF SystemSound

\* What the bot submits is a request like any other, and if it is applied, then
\* to the game of its snapshot, in which a table it lays is valid.
LEMMA BotRequestSound ==
  ASSUME SystemSound, NEW w \in Drivers, bot[w].stage = "read",
         NEW move \in BotDecisions(bot[w].game, bot[w].game.activeSeat)
  PROVE  LET q == BotRequest(w, move)
         IN  /\ WellFormed(q) /\ \A r \in sent : r.key # q.key
             /\ q.kind = "commit" => q.proposed \in Proposals
             /\ q.kind # "resign"
             /\ Applies(db, q) =>
                  /\ bot[w].game = db.game
                  /\ q.kind = "commit" => ValidTurn(db.game, q.player, q.proposed)
<1> DEFINE q == BotRequest(w, move)
<1>1. bot[w] \in Snapshot /\ bot[w] # Idle
  BY DEF SystemSound, SnapshotsSound, Idle
<1>2. bot[w].turn \in Nat /\ bot[w].game.activeSeat \in Seat
  BY <1>1 DEF Snapshot, GameState
<1>3. /\ move.kind \in Moves
      /\ move.kind = "commit" =>
           move.proposed \in Proposals
           /\ ValidTurn(bot[w].game, bot[w].game.activeSeat, move.proposed)
  BY DEF BotDecisions, Moves
<1>4. /\ q.player = bot[w].game.activeSeat /\ q.key = <<"bot", bot[w].turn>>
      /\ q.kind = move.kind /\ q.proposed = move.proposed /\ q.version = bot[w].version
  BY DEF BotRequest, BotKey
<1> HIDE DEF q
<1>5. WellFormed(q) /\ q.kind # "resign"
  BY <1>2, <1>3, <1>4 DEF WellFormed, Key, Moves
<1>6. \A r \in sent : r.key # q.key
  BY <1>4 DEF SystemSound, RequestsSound
<1>7. ASSUME Applies(db, q)  PROVE bot[w].game = db.game
  <2>1. q.version = db.version
    BY <1>5, <1>7 DEF Applies, AppliesMove, IsStale
  <2>. QED  BY <1>1, <1>4, <2>1 DEF SystemSound, SnapshotsSound
<1>. QED  BY <1>3, <1>4, <1>5, <1>6, <1>7 DEF q

\* The computer's request, made of a snapshot of any age.
LEMMA SubmitStep ==
  ASSUME SystemSound, NEW w \in Drivers, SubmitBotDecision(w)  PROVE SystemSound'
<1>1. bot[w].stage = "read" /\ bot' = [bot EXCEPT ![w] = Idle]
      /\ UNCHANGED <<sent, accepted, refused>>
  BY DEF SubmitBotDecision
<1>2. PICK move \in BotDecisions(bot[w].game, bot[w].game.activeSeat) :
        db' = Process(db, BotRequest(w, move))
  BY DEF SubmitBotDecision, BotRequest
<1> DEFINE q == BotRequest(w, move)
<1>3. /\ WellFormed(q) /\ \A r \in sent : r.key # q.key
      /\ Applies(db, q) /\ q.kind = "commit" => ValidTurn(db.game, q.player, q.proposed)
  BY <1>1, BotRequestSound
<1> HIDE DEF q
<1>4. /\ RowsSound(db', Bots) /\ Unaccounted(db', 0) /\ Later(db, db')
      /\ \A r \in refused : Refused(db', r)
  <2>1. CASE Applies(db, q)
    <3>1. /\ RowsSound(db', Bots) /\ Unaccounted(db', 0) /\ Later(db, db')
          /\ \A r \in refused : r.key # q.key => Refused(db', r)
      BY <1>2, <1>3, <2>1, ProcessStep DEF q
    <3>. QED  BY <1>3, <3>1 DEF SystemSound, AnswersSound
  <2>2. CASE ~ Applies(db, q)
    <3>1. db' = db
      BY <1>2, <2>2 DEF Process, q
    <3>. QED  BY <3>1 DEF SystemSound, AnswersSound, Later, RowsSound, Database
  <2>. QED  BY <2>1, <2>2
<1>5. RequestsSound'
  BY <1>1, <1>4 DEF SystemSound, RequestsSound, Later
<1>6. AnswersSound'
  BY <1>1, <1>4 DEF SystemSound, AnswersSound, Later, IsReplay
<1>7. SnapshotsSound'
  <2>1. \A v \in Drivers : bot[v] # Idle => bot[v].version \in Nat
    BY DEF SystemSound, SnapshotsSound, Snapshot
  <2>2. bot' \in [Drivers -> {Idle} \cup Snapshot]
    BY <1>1 DEF SystemSound, SnapshotsSound
  <2>3. \A v \in Drivers : bot'[v] # Idle => bot'[v] = bot[v]
    BY <1>1 DEF SystemSound, SnapshotsSound
  <2>. QED  BY <1>4, <2>1, <2>2, <2>3 DEF SystemSound, SnapshotsSound, Later
<1>. QED  BY <1>4, <1>5, <1>6, <1>7 DEF SystemSound

\* Every step of every actor keeps the invariant.
LEMMA StepSound == SystemSound /\ [Next]_vars => SystemSound'
<1> SUFFICES ASSUME SystemSound, [Next]_vars  PROVE SystemSound'
  OBVIOUS
<1>1. CASE Look
  BY <1>1, SettleStep DEF Look
<1>2. ASSUME NEW s \in Human,
             \/ \E proposed \in Proposals : SendMove(s, "commit", proposed)
             \/ SendMove(s, "draw", {}) \/ SendMove(s, "pass", {}) \/ SendResign(s)
      PROVE  SystemSound'
  <2>1. s \in Seat /\ FreshKey \in Key
    <3>1. Cardinality(sent) \in Nat
      BY FS_CardinalityType DEF SystemSound, RequestsSound
    <3>. QED  BY <3>1 DEF Human, FreshKey, Key
  <2>2. ASSUME NEW kind \in Moves, NEW proposed, kind = "commit" => proposed \in Proposals,
               SendMove(s, kind, proposed)
        PROVE  SystemSound'
    <3> DEFINE r == [player |-> s, key |-> FreshKey, kind |-> kind, proposed |-> proposed,
                     version |-> db.version, turn |-> db.currentTurn, seen |-> db.game]
    <3>1. /\ WellFormed(r) /\ r.player \in Human /\ r.key = FreshKey
          /\ r.kind = "commit" => r.proposed \in Proposals
          /\ r.version = db.version /\ r.seen = db.game
      BY <2>1, <2>2 DEF WellFormed
    <3>2. sent' = sent \cup {r} /\ UNCHANGED <<db, accepted, refused, bot>>
      BY <2>2 DEF SendMove
    <3> HIDE DEF r
    <3>. QED  BY <3>1, <3>2, SendStep
  <2>3. CASE SendResign(s)
    <3> DEFINE r == [player |-> s, key |-> FreshKey, kind |-> "resign"]
    <3>1. WellFormed(r) /\ r.player \in Human /\ r.key = FreshKey /\ r.kind \notin Moves
          /\ r.kind # "commit"
      BY <2>1 DEF WellFormed, Moves
    <3>2. sent' = sent \cup {r} /\ UNCHANGED <<db, accepted, refused, bot>>
      BY <2>3 DEF SendResign
    <3> HIDE DEF r
    <3>. QED  BY <3>1, <3>2, SendStep
  <2>. QED  BY <1>2, <2>2, <2>3 DEF Moves
<1>3. ASSUME NEW r \in sent, Deliver(r)  PROVE SystemSound'
  BY <1>3, DeliverStep
<1>4. CASE DeadlinePasses
  BY <1>4, ExpireStep
<1>5. CASE ScanOverdue \/ SkipCandidate \/ UNCHANGED vars
  BY <1>5 DEF ScanOverdue, SkipCandidate, vars, SystemSound, RequestsSound, AnswersSound, SnapshotsSound
<1>6. CASE SettleCandidate
  BY <1>6, SettleStep DEF SettleCandidate
<1>7. ASSUME NEW w \in Drivers, ReadGameRow(w) \/ ReadTables(w) \/ SubmitBotDecision(w)
      PROVE  SystemSound'
  BY <1>7, ReadStep, SubmitStep
<1>8. CASE Restart
  BY <1>8 DEF Restart, SystemSound, RequestsSound, AnswersSound, SnapshotsSound
<1>. QED  BY <1>1, <1>2, <1>3, <1>4, <1>5, <1>6, <1>7, <1>8 DEF Next

\* Rows, requests, answers and snapshots fit together in every reachable state.
THEOREM SystemSoundAlways == Spec => []SystemSound
BY InitSound, StepSound, PTL DEF Spec

-----------------------------------------------------------------------------
(* What follows for every state and every step *)

\* While the game runs exactly one turn row is open, the current one and the
\* active seat's; none is left open once it has ended.
THEOREM OneOpenTurnAlways == Spec => []OneOpenTurn
<1>1. SystemSound => OneOpenTurn
  BY DEF SystemSound, RowsSound, TurnsSound, OneOpenTurn
<1>. QED  BY <1>1, SystemSoundAlways, PTL

\* A game's result is in the room's ledger exactly once, from the transaction
\* that ends it on, and that one frees the room.
THEOREM ResultRecordedOnceAlways == Spec => []ResultRecordedOnce
<1>1. SystemSound => ResultRecordedOnce
  BY DEF SystemSound, RowsSound, LedgerSound, ResultRecordedOnce
<1>. QED  BY <1>1, SystemSoundAlways, PTL

\* Every version of the game is one request that can be replayed or one turn
\* that was forfeited.
THEOREM EveryVersionAccountedAlways == Spec => []EveryVersionAccounted
<1>1. SystemSound => EveryVersionAccounted
  <2> SUFFICES ASSUME SystemSound  PROVE EveryVersionAccounted
    OBVIOUS
  <2>1. db.version = Cardinality(db.results) + Cardinality(TimedOut(db)) + 0
    BY DEF SystemSound, Unaccounted
  <2>2. Cardinality(db.results) \in Nat /\ Cardinality(TimedOut(db)) \in Nat
    BY TimedOutFinite, FS_CardinalityType DEF SystemSound, RowsSound, Unaccounted
  <2>. QED  BY <2>1, <2>2 DEF EveryVersionAccounted, TimedOut
<1>. QED  BY <1>1, SystemSoundAlways, PTL

\* An accepted request is never refused later, a refused one never takes
\* effect, however often and however late either is delivered again.
THEOREM AnswerIsFinalAlways == Spec => []AnswerIsFinal
<1>1. SystemSound => AnswerIsFinal
  BY DEF SystemSound, AnswersSound, Refused, AnswerIsFinal
<1>. QED  BY <1>1, SystemSoundAlways, PTL

\* The turns that were forfeited are exactly the resolved ones whose deadline
\* had passed.
THEOREM DeadlineDecidesAlways == Spec => []DeadlineDecides
<1>1. SystemSound => DeadlineDecides
  BY DEF SystemSound, RowsSound, TurnsSound, DeadlineDecides
<1>. QED  BY <1>1, SystemSoundAlways, PTL

\* No turn of the computer is ever an invalid commit.
THEOREM BotNeverPenalisedAlways == Spec => []BotNeverPenalised
<1>1. SystemSound => BotNeverPenalised
  BY DEF SystemSound, RowsSound, TurnsSound, BotNeverPenalised
<1>. QED  BY <1>1, SystemSoundAlways, PTL

\* A move takes effect on exactly the game its player was shown, and the
\* computer's on the game it pieced together.
THEOREM AppliedAsSeenAlways == Spec => AppliedAsSeen
<1> DEFINE A == /\ \A r \in sent :
                     r.kind \in Moves /\ ~ IsReplay(db, r) /\ IsReplay(db', r) => r.seen = db.game
                /\ \A w \in Drivers :
                     bot[w].stage = "read" /\ bot'[w] = Idle /\ db'.results # db.results
                       => bot[w].game = db.game
<1>1. SystemSound /\ Next => A
  <2> SUFFICES ASSUME SystemSound, Next  PROVE A
    OBVIOUS
  <2>0. RowsSound(db, Bots) /\ bot \in [Drivers -> {Idle} \cup Snapshot]
    BY DEF SystemSound, SnapshotsSound
  <2>1. CASE db'.results = db.results
    BY <2>1 DEF IsReplay
  <2>2. ASSUME NEW r \in sent, Deliver(r)  PROVE A
    <3>1. WellFormed(r) /\ r.player \notin Bots /\ db' = Process(db, r) /\ bot' = bot
      BY <2>2 DEF SystemSound, RequestsSound, Human, Deliver, Answer
    <3>2. CASE Applies(db, r)
      <4>1. db'.results = db.results \cup {[player |-> r.player, key |-> r.key]}
        BY <2>0, <3>1, <3>2, ProcessSound
      <4>2. \A q \in sent : ~ IsReplay(db, q) /\ IsReplay(db', q) => q = r
        BY <4>1 DEF SystemSound, RequestsSound, IsReplay
      <4>3. r.kind \in Moves => r.seen = db.game
        <5> SUFFICES ASSUME r.kind \in Moves  PROVE r.seen = db.game
          OBVIOUS
        <5>1. r.version = db.version
          BY <3>2 DEF Applies, AppliesMove, IsStale, Moves
        <5>. QED  BY <5>1 DEF SystemSound, RequestsSound
      <4>4. \A w \in Drivers : bot[w].stage = "read" => bot'[w] # Idle
        BY <3>1 DEF Idle
      <4>. QED  BY <4>2, <4>3, <4>4
    <3>3. CASE ~ Applies(db, r)
      BY <2>1, <3>1, <3>3 DEF Process
    <3>. QED  BY <3>2, <3>3
  <2>3. ASSUME NEW w \in Drivers, SubmitBotDecision(w)  PROVE A
    <3>1. bot[w].stage = "read" /\ bot' = [bot EXCEPT ![w] = Idle] /\ sent' = sent
      BY <2>3 DEF SubmitBotDecision
    <3>2. PICK move \in BotDecisions(bot[w].game, bot[w].game.activeSeat) :
            db' = Process(db, BotRequest(w, move))
      BY <2>3 DEF SubmitBotDecision, BotRequest
    <3> DEFINE q == BotRequest(w, move)
    <3>3. /\ WellFormed(q) /\ \A r \in sent : r.key # q.key
          /\ Applies(db, q) => bot[w].game = db.game
                               /\ (q.kind = "commit" => ValidTurn(db.game, q.player, q.proposed))
      BY <3>1, BotRequestSound
    <3> HIDE DEF q
    <3>4. CASE Applies(db, q)
      <4>1. db'.results = db.results \cup {[player |-> q.player, key |-> q.key]}
        BY <2>0, <3>2, <3>3, <3>4, ProcessSound DEF q
      <4>2. \A r \in sent : IsReplay(db', r) => IsReplay(db, r)
        BY <3>3, <4>1 DEF IsReplay
      <4>3. \A v \in Drivers : v # w => bot'[v] = bot[v]
        BY <2>0, <3>1
      <4>4. \A v \in Drivers : v # w /\ bot[v].stage = "read" => bot'[v] # Idle
        BY <4>3 DEF Idle
      <4>. QED  BY <3>3, <3>4, <4>2, <4>4
    <3>5. CASE ~ Applies(db, q)
      BY <2>1, <3>2, <3>5 DEF Process, q
    <3>. QED  BY <3>4, <3>5
  <2>4. CASE Look \/ SettleCandidate
    <3>1. db' = SettleOverdueTurn(db)
      BY <2>4 DEF Look, SettleCandidate
    <3>. QED  BY <2>0, <2>1, <3>1, SettleSound
  <2>5. CASE DeadlinePasses
    <3>1. db' = Expired(db) /\ db.game.status = "active"
      BY <2>5 DEF DeadlinePasses, Expired
    <3>. QED  BY <2>0, <2>1, <3>1, ExpiredSound
  <2>6. ASSUME UNCHANGED db  PROVE A
    BY <2>1, <2>6
  <2>. QED
    BY <2>2, <2>3, <2>4, <2>5, <2>6
       DEF Next, SendMove, SendResign, ScanOverdue, SkipCandidate, ReadGameRow, ReadTables, Restart
<1> HIDE DEF A
<1>2. SystemSound /\ [Next]_vars => [A]_vars
  BY <1>1
<1>3. Spec => [][A]_vars
  BY <1>2, SystemSoundAlways, PTL DEF Spec
<1>. QED  BY <1>3 DEF A, AppliedAsSeen

-----------------------------------------------------------------------------
(* The refinement *)

\* The engine that the abstract specification is instantiated with is this one.
LEMMA SameEngine ==
  ASSUME NEW g, NEW s, NEW proposed
  PROVE  /\ G!ApplyCommit(g, s, proposed) = ApplyCommit(g, s, proposed)
         /\ G!ApplyDraw(g, s) = ApplyDraw(g, s)
         /\ G!ApplyPass(g, s) = ApplyPass(g, s)
         /\ G!ApplyTimeout(g, s) = ApplyTimeout(g, s)
         /\ G!ApplyResign(g, s) = ApplyResign(g, s)
         /\ G!DealtGame(s) = DealtGame(s)
         /\ G!Seat = Seat
<1> USE DEF G!Seat, Seat, G!DrawAndAdvance, DrawAndAdvance,
            G!FinalizeTransition, FinalizeTransition, G!EndReasonOf, EndReasonOf,
            G!EmptyRackSeats, EmptyRackSeats, G!PoolExhausted, PoolExhausted,
            G!ActiveSeats, ActiveSeats, G!Cardinality, Cardinality,
            G!NextActiveSeat, NextActiveSeat, G!FirstActiveFrom, FirstActiveFrom,
            G!SeatAfter, SeatAfter, G!Distance, Distance, G!LastTiles, LastTiles,
            G!Penalize, Penalize, G!DrawCount, DrawCount,
            G!PENALTY_TILE_COUNT, PENALTY_TILE_COUNT
<1>1. G!ApplyDraw(g, s) = ApplyDraw(g, s)
  BY DEF G!ApplyDraw, ApplyDraw
<1>2. G!ApplyPass(g, s) = ApplyPass(g, s)
  BY DEF G!ApplyPass, ApplyPass
<1>3. G!ApplyTimeout(g, s) = ApplyTimeout(g, s)
  BY DEF G!ApplyTimeout, ApplyTimeout
<1>4. G!ApplyResign(g, s) = ApplyResign(g, s)
  BY DEF G!ApplyResign, ApplyResign
<1>5. G!ApplyCommit(g, s, proposed) = ApplyCommit(g, s, proposed)
  BY DEF G!ApplyCommit, ApplyCommit, G!ValidTurn, ValidTurn, G!OpensWell, OpensWell,
         G!SetKeys, SetKeys, G!Added, Added, G!TilesIn, TilesIn, G!TableTiles, TableTiles,
         G!INITIAL_MELD_THRESHOLD, INITIAL_MELD_THRESHOLD,
         G!MapThenSumSet, MapThenSumSet, G!MapThenFoldSet, MapThenFoldSet
<1>6. G!DealtGame(s) = DealtGame(s)
  BY DEF G!DealtGame, DealtGame
<1>. QED  BY <1>1, <1>2, <1>3, <1>4, <1>5, <1>6

\* The settlement is the abstract timeout, or nothing.
LEMMA SettleRefines ==
  ASSUME RowsSound(db, Bots), db' = SettleOverdueTurn(db)
  PROVE  [G!Next]_(db.game)
<1>1. CASE ~ IsOverdue(db)
  BY <1>1, SettleSound
<1>2. CASE IsOverdue(db)
  <2>1. db.game.status = "active" /\ db.game.activeSeat \in Seat
    BY <1>2 DEF IsOverdue, RowsSound, Sound, WellTyped, GameState
  <2>2. db'.game = ApplyTimeout(db.game, db.game.activeSeat)
    BY <1>2, SettleSound
  <2>3. G!Timeout(db.game.activeSeat)
    BY <2>1, <2>2, SameEngine DEF G!Timeout, G!InTurn
  <2>. QED  BY <2>1, <2>3, SameEngine DEF G!Next
<1>. QED  BY <1>1, <1>2

\* A request that is applied is one abstract step: the settlement that a
\* resignation may start with is part of it.
LEMMA ProcessRefines ==
  ASSUME RowsSound(db, Bots), NEW r, WellFormed(r), Applies(db, r), db' = Process(db, r),
         r.kind = "commit" => r.proposed \in Proposals,
         r.kind = "commit" /\ ~ ValidTurn(db.game, r.player, r.proposed) => r.player \notin Bots
  PROVE  G!Next
<1> DEFINE p == Prepared(db, r)
           s == r.player
<1>1. s \in Seat /\ s \in G!Seat
  BY SameEngine DEF WellFormed
<1>2. db'.game = Transition(p.game, r)
  BY ProcessSound
<1>3. MayPlay(p.game, r) /\ (r.kind # "resign" => p = db)
  BY PreparedSound
<1>4. CASE r.kind # "resign"
  <2>1. p = db /\ G!InTurn(s) /\ r.kind \in Moves /\ ~ IsInvalid(db.game, r)
    BY <1>3, <1>4 DEF MayPlay, G!InTurn, WellFormed
  <2>2. CASE r.kind = "commit"
    <3>1. db'.game = G!ApplyCommit(db.game, s, r.proposed) /\ r.proposed \in Proposals
      BY <1>2, <2>1, <2>2, SameEngine DEF Transition, WellFormed
    <3>. QED  BY <1>1, <2>1, <3>1 DEF G!Next, G!Commit
  <2>3. CASE r.kind = "draw"
    <3>1. db'.game = G!ApplyDraw(db.game, s)
      BY <1>2, <2>1, <2>3, SameEngine DEF Transition
    <3>2. db.game.pool > 0
      BY <2>1, <2>3, DealAssumption DEF IsInvalid, RowsSound, Sound, WellTyped, GameState
    <3>. QED  BY <1>1, <2>1, <3>1, <3>2 DEF G!Next, G!Draw
  <2>4. CASE r.kind = "pass"
    <3>1. db'.game = G!ApplyPass(db.game, s)
      BY <1>2, <2>1, <2>4, SameEngine DEF Transition
    <3>2. db.game.pool = 0
      BY <2>1, <2>4, DealAssumption DEF IsInvalid, RowsSound, Sound, WellTyped, GameState
    <3>. QED  BY <1>1, <2>1, <3>1, <3>2 DEF G!Next, G!Pass
  <2>. QED  BY <2>1, <2>2, <2>3, <2>4 DEF Moves
<1>5. CASE r.kind = "resign"
  <2>1. p = SettleOverdueTurn(db) /\ db.game.status = "active"
    BY <1>5 DEF Prepared, Applies, AppliesResign
  <2>2. db'.game = G!ApplyResign(p.game, s)
    BY <1>2, <1>5, SameEngine DEF Transition
  <2>3. p.game.status = "active" /\ p.game.seatStatus[s] = "active"
    BY <1>3, <1>5 DEF MayPlay
  <2>4. CASE IsOverdue(db)
    <3>1. p.game = G!ApplyTimeout(db.game, db.game.activeSeat)
      BY <2>1, <2>4, SettleSound, SameEngine
    <3> HIDE DEF p
    <3>. QED  BY <1>1, <2>1, <2>2, <2>3, <3>1 DEF G!Next, G!TimeoutThenResign
  <2>5. CASE ~ IsOverdue(db)
    <3>1. p = db
      BY <2>1, <2>5, SettleSound
    <3>. QED  BY <1>1, <2>1, <2>2, <2>3, <3>1 DEF G!Next, G!Resign
  <2>. QED  BY <2>4, <2>5
<1>. QED  BY <1>4, <1>5

\* Every step of every actor is one of the abstract game, or none.
LEMMA StepRefines == SystemSound /\ [Next]_vars => [G!Next]_(db.game)
<1> SUFFICES ASSUME SystemSound, [Next]_vars  PROVE [G!Next]_(db.game)
  OBVIOUS
<1>1. RowsSound(db, Bots)
  BY DEF SystemSound
<1>2. CASE Look \/ SettleCandidate
  BY <1>1, <1>2, SettleRefines DEF Look, SettleCandidate
<1>3. ASSUME NEW r \in sent, Deliver(r)  PROVE [G!Next]_(db.game)
  <2>1. /\ WellFormed(r) /\ r.player \notin Bots /\ db' = Process(db, r)
        /\ r.kind = "commit" => r.proposed \in Proposals
    BY <1>3 DEF SystemSound, RequestsSound, Human, Deliver, Answer
  <2>2. CASE Applies(db, r)
    BY <1>1, <2>1, <2>2, ProcessRefines
  <2>3. CASE ~ Applies(db, r)
    BY <2>1, <2>3 DEF Process
  <2>. QED  BY <2>2, <2>3
<1>4. ASSUME NEW w \in Drivers, SubmitBotDecision(w)  PROVE [G!Next]_(db.game)
  <2>1. PICK move \in BotDecisions(bot[w].game, bot[w].game.activeSeat) :
          db' = Process(db, BotRequest(w, move))
    BY <1>4 DEF SubmitBotDecision, BotRequest
  <2> DEFINE q == BotRequest(w, move)
  <2>2. /\ WellFormed(q)
        /\ q.kind = "commit" => q.proposed \in Proposals
        /\ Applies(db, q) /\ q.kind = "commit" => ValidTurn(db.game, q.player, q.proposed)
    BY <1>4, BotRequestSound DEF SubmitBotDecision
  <2> HIDE DEF q
  <2>3. CASE Applies(db, q)
    BY <1>1, <2>1, <2>2, <2>3, ProcessRefines DEF q
  <2>4. CASE ~ Applies(db, q)
    BY <2>1, <2>4 DEF Process, q
  <2>. QED  BY <2>3, <2>4
<1>5. CASE DeadlinePasses
  <2>1. db' = Expired(db) /\ db.game.status = "active"
    BY <1>5 DEF DeadlinePasses, Expired
  <2>. QED  BY <1>1, <2>1, ExpiredSound
<1>6. ASSUME UNCHANGED db  PROVE [G!Next]_(db.game)
  BY <1>6
<1>. QED
  BY <1>2, <1>3, <1>4, <1>5, <1>6
     DEF Next, vars, SendMove, SendResign, ScanOverdue, SkipCandidate, ReadGameRow, ReadTables, Restart

\* Seen from outside, the rows, requests, sweeps and snapshots together are the
\* game of Game.tla: every transaction is one of its steps or none.
THEOREM RefinesGame == Spec => ImplementsGame
<1>1. Init => G!Init
  <2> SUFFICES ASSUME Init  PROVE G!Init
    OBVIOUS
  <2>1. PICK start \in Seat : db = DealtRows(start)
    BY DEF Init
  <2>2. db.game = G!DealtGame(start) /\ start \in G!Seat
    BY <2>1, SameEngine DEF DealtRows
  <2>. QED  BY <2>2 DEF G!Init
<1>. QED  BY <1>1, StepRefines, SystemSoundAlways, PTL DEF Spec, ImplementsGame, G!Spec
=================================================================================
