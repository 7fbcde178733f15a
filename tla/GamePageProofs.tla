----------------------------- MODULE GamePageProofs -----------------------------
(***************************************************************************)
(* What holds of a page of a game and of the server it talks to, for every *)
(* number of seats, games it may be opened on, moves of the opponents and  *)
(* bounds: what it shows is never newer than the rows, something is under  *)
(* way to it whenever it is behind, a click that carries the current       *)
(* version was made for the game as it is, and the draft holds every tile  *)
(* of the view it was built from.                                          *)
(***************************************************************************)
EXTENDS GamePage, EngineProofs

-----------------------------------------------------------------------------
(* The inductive invariant *)

Message ==
  [kind : {"news"}] \cup [kind : {"error"}, code : {"stale", "conflict"}]
    \cup [kind : {"state"}, version : Nat]

Joining ==
  [stage : {"none", "asked", "done"}] \cup [stage : {"in room"}, version : Nat \cup {-1}]

Fetch == [stage : {"free", "sent"}] \cup [stage : {"read"}, version : Nat]

PageTyped ==
  /\ link \in {"up", "down"} /\ join \in Joining
  /\ inbox \in Seq(Message) /\ fetches \in [Slots -> Fetch]
  /\ left \in [steps : Nat, edits : Nat, clicks : Nat, drops : Nat]
  /\ view \in Nat \cup {-1} /\ seen \in Nat \cup {-1} /\ failed \in BOOLEAN

\* The rows are sound, and the page can look up what their version was.
ServerSound ==
  /\ RowsSound(db, {})
  /\ history[db.version] = Snapshot(db)

\* Nothing that is shown or on its way to the page is newer than the rows.
NothingNewer ==
  /\ view <= seen /\ seen <= db.version
  /\ \A i \in DOMAIN inbox : inbox[i].kind = "state" => inbox[i].version <= db.version
  /\ \A k \in Slots : fetches[k].stage = "read" => fetches[k].version <= db.version
  /\ join.stage = "in room" => join.version <= db.version

\* Something under way will make the page show version v, or fetch it.
UnderWay(v) ==
  \/ v \in unsent
  \/ \E i \in DOMAIN inbox :
       inbox[i].kind = "news" \/ (inbox[i].kind = "state" /\ inbox[i].version = v)
  \/ \E k \in Slots :
       fetches[k].stage = "sent" \/ (fetches[k].stage = "read" /\ fetches[k].version = v)
  \/ join.stage = "in room" /\ join.version \in {-1, v}

\* A page in the game's room has seen the current version, or will, unless a
\* fetch failed.
NotLeftBehind ==
  link = "up" /\ join.stage \in {"in room", "done"} =>
    UnderWay(db.version) \/ failed \/ seen = db.version

\* The clicks still to come have keys nobody has used.
KeysFresh ==
  \A x \in db.results : x.player = Me /\ x.key[1] = "click" => x.key[2] > left.clicks

\* A click under way has not been answered; if it carries the current version
\* it is a move its player may make, and its hint is about the game as it is.
ClickSound ==
  request.kind # "none" =>
    /\ DOMAIN request = {"player", "key", "kind", "proposed", "version", "turn", "hint", "onWire"}
    /\ WellFormed(request) /\ request.player = Me
    /\ request.key[1] = "click" /\ request.key[2] > left.clicks
    /\ ~ IsReplay(db, request)
    /\ request.version \in Nat /\ request.version <= db.version
    /\ request.version = db.version /\ request.kind # "resign" =>
         /\ MayPlay(db.game, request)
         /\ request.kind = "commit" =>
              (request.hint <=> ValidTurn(db.game, Me, request.proposed))

PageSound ==
  /\ PageTyped /\ ServerSound /\ NothingNewer /\ NotLeftBehind /\ KeysFresh /\ ClickSound

-----------------------------------------------------------------------------
(* What is on the wires, by its kind *)

\* What a message, a join and a fetch carry.
LEMMA WireKinds ==
  /\ \A m \in Message : /\ m.kind = "state" => m.version \in Nat
                        /\ m.kind = "error" => m.code \in {"stale", "conflict"}
  /\ \A j \in Joining : j.stage = "in room" => j.version \in Nat \cup {-1}
  /\ \A f \in Fetch : f.stage = "read" => f.version \in Nat
<1>1. ASSUME NEW m \in Message
      PROVE  /\ m.kind = "state" => m.version \in Nat
             /\ m.kind = "error" => m.code \in {"stale", "conflict"}
  BY DEF Message
<1>2. ASSUME NEW j \in Joining, j.stage = "in room"  PROVE j.version \in Nat \cup {-1}
  BY <1>2 DEF Joining
<1>3. ASSUME NEW f \in Fetch, f.stage = "read"  PROVE f.version \in Nat
  BY <1>3 DEF Fetch
<1>. QED  BY <1>1, <1>2, <1>3

\* They are on the wires of a page that is typed, and their versions can be
\* compared.
LEMMA WiresTyped ==
  ASSUME PageTyped
  PROVE  /\ Len(inbox) \in Nat /\ DOMAIN inbox = 1 .. Len(inbox)
         /\ \A i \in DOMAIN inbox : inbox[i] \in Message
         /\ \A i \in DOMAIN inbox : inbox[i].kind = "state" => inbox[i].version \in Int
         /\ \A k \in Slots : fetches[k].stage = "read" => fetches[k].version \in Int
         /\ join.stage = "in room" => join.version \in Int
         /\ view \in Int /\ seen \in Int
<1>1. /\ Len(inbox) \in Nat /\ DOMAIN inbox = 1 .. Len(inbox)
      /\ \A i \in DOMAIN inbox : inbox[i] \in Message
  BY DEF PageTyped
<1>2. ASSUME NEW i \in DOMAIN inbox, inbox[i].kind = "state"  PROVE inbox[i].version \in Int
  <2>1. inbox[i].version \in Nat
    BY <1>1, <1>2, WireKinds
  <2>. QED  BY <2>1
<1>3. ASSUME NEW k \in Slots, fetches[k].stage = "read"  PROVE fetches[k].version \in Int
  <2>1. fetches[k] \in Fetch
    BY DEF PageTyped
  <2>2. fetches[k].version \in Nat
    BY <1>3, <2>1, WireKinds
  <2>. QED  BY <2>2
<1>4. ASSUME join.stage = "in room"  PROVE join.version \in Int
  <2>1. join \in Joining
    BY DEF PageTyped
  <2>2. join.version \in Nat \cup {-1}
    BY <1>4, <2>1, WireKinds
  <2>. QED  BY <2>2
<1>5. view \in Int /\ seen \in Int
  BY DEF PageTyped
<1>. QED  BY <1>1, <1>2, <1>3, <1>4, <1>5

\* The page as it is opened: it shows nothing and is not in the room.
LEMMA InitPageSound ==
  ASSUME Init
  PROVE  PageSound
<1>1. PICK b \in Bounds : left = b
  BY DEF Init
<1>2. RowsSound(db, {}) /\ \A x \in db.results : x.key[1] # "click"
  BY PageAssumption DEF Init
<1>3. db.version \in Nat
  BY <1>2 DEF RowsSound, Database
<1>4. PageTyped
  <2>1. join \in Joining
    BY DEF Init, Joining
  <2>2. [stage |-> "free"] \in Fetch
    BY DEF Fetch
  <2>3. fetches \in [Slots -> Fetch]
    BY <2>2 DEF Init
  <2>4. left \in [steps : Nat, edits : Nat, clicks : Nat, drops : Nat]
    BY <1>1, PageAssumption
  <2>5. inbox \in Seq(Message)
    BY DEF Init
  <2>6. view \in Nat \cup {-1} /\ seen \in Nat \cup {-1} /\ failed \in BOOLEAN /\ link = "down"
    BY DEF Init
  <2>. QED  BY <2>1, <2>3, <2>4, <2>5, <2>6 DEF PageTyped
<1>5. ServerSound
  BY <1>2 DEF Init, ServerSound
<1>6. NothingNewer
  BY <1>3 DEF Init, NothingNewer
<1>7. NotLeftBehind /\ KeysFresh
  BY <1>2 DEF Init, NotLeftBehind, KeysFresh
<1>8. ClickSound
  BY DEF Init, ClickSound, None
<1>. QED  BY <1>4, <1>5, <1>6, <1>7, <1>8 DEF PageSound

-----------------------------------------------------------------------------
(* The server: what the page may count on when the rows move on *)

\* What a transaction may make of the rows d: sound rows e, which are another
\* version if they are another game.
Advances(d, e) ==
  /\ RowsSound(e, {}) /\ d.version <= e.version
  /\ e.version = d.version => Snapshot(e) = Snapshot(d)

\* If it was not this page's click, no result of its player's is recorded.
MovesTo(d, e) ==
  Advances(d, e) /\ \A x \in e.results : x \in d.results \/ x.player # Me

\* The rows are typed, and versions are counted from zero.
LEMMA VersionsAreNaturals ==
  ASSUME PageSound
  PROVE  db.version \in Nat /\ db \in Database
BY DEF PageSound, ServerSound, RowsSound, Database

\* Becomes names a new version and leaves a broadcast of it to make.
LEMMA BecomesNamed ==
  ASSUME PageSound, NEW d, Becomes(d), Advances(db, d)
  PROVE  /\ db' = d /\ ServerSound' /\ unsent \subseteq unsent'
         /\ db'.version # db.version => db'.version \in unsent'
<1>1. CASE d.version = db.version
  BY <1>1 DEF Becomes, PageSound, ServerSound, Snapshot, Advances
<1>2. CASE d.version # db.version
  <2>1. /\ db' = d /\ unsent' = unsent \cup {d.version}
        /\ history'[d.version] = Snapshot(d)
    BY <1>2 DEF Becomes
  <2>. QED  BY <2>1 DEF ServerSound, Snapshot, Advances
<1>. QED  BY <1>1, <1>2

\* What is under way was not newer than the rows and is not when they move on.
LEMMA StillNotNewer ==
  ASSUME PageSound, Advances(db, db')
  PROVE  /\ db.version \in Nat /\ db'.version \in Nat /\ db.version <= db'.version
         /\ view <= seen /\ seen <= db'.version
         /\ \A i \in DOMAIN inbox : inbox[i].kind = "state" => inbox[i].version <= db'.version
         /\ \A k \in Slots : fetches[k].stage = "read" => fetches[k].version <= db'.version
         /\ join.stage = "in room" => join.version <= db'.version
<1>1. db.version \in Nat /\ db'.version \in Nat /\ db.version <= db'.version
  BY VersionsAreNaturals DEF Advances, RowsSound, Database
<1>2. \A v \in Int : v <= db.version => v <= db'.version
  BY <1>1
<1>. QED  BY <1>1, <1>2, WiresTyped DEF PageSound, NothingNewer

\* What is known of the click under way survives every step that answers
\* nobody else's requests: a click made for the version before is late.
LEMMA ClickKept ==
  ASSUME PageSound, MovesTo(db, db'), left'.clicks = left.clicks,
         request' = request \/ request'.kind = "none"
  PROVE  KeysFresh' /\ ClickSound'
<1>1. KeysFresh'
  BY DEF PageSound, KeysFresh, MovesTo
<1>2. ASSUME request' = request, request.kind # "none"  PROVE ClickSound'
  <2>1. ~ IsReplay(db', request)
    BY <1>2 DEF PageSound, ClickSound, MovesTo, IsReplay
  <2>2. db'.version = db.version => db'.game = db.game
    BY DEF MovesTo, Advances, Snapshot
  <2>3. request.version \in Nat /\ request.version <= db.version
    BY <1>2 DEF PageSound, ClickSound
  <2>4. request.version <= db'.version /\ (request.version = db'.version => db'.version = db.version)
    <3>1. db.version \in Nat /\ db'.version \in Nat /\ db.version <= db'.version
      BY StillNotNewer DEF MovesTo
    <3>. QED  BY <2>3, <3>1
  <2>. QED  BY <1>2, <2>1, <2>2, <2>3, <2>4 DEF PageSound, ClickSound
<1>3. ASSUME request'.kind = "none"  PROVE ClickSound'
  BY <1>3 DEF ClickSound
<1>. QED  BY <1>1, <1>2, <1>3

\* Whoever moves the rows on, the page is sound: the broadcast is under way.
LEMMA RowsMoveOn ==
  ASSUME PageSound, NEW d, Becomes(d), Advances(db, d), KeysFresh', ClickSound',
         UNCHANGED <<link, join, inbox, fetches, left, page>>
  PROVE  PageSound'
<1>1. /\ db' = d /\ ServerSound' /\ unsent \subseteq unsent'
      /\ db'.version # db.version => db'.version \in unsent'
  BY BecomesNamed
<1>2. UNCHANGED <<link, join, inbox, fetches, left, view, seen, failed, draft>>
  BY DEF page
<1>3. PageTyped'
  BY <1>2 DEF PageSound, PageTyped
<1>4. NothingNewer'
  BY <1>1, <1>2, StillNotNewer DEF NothingNewer
<1>5. NotLeftBehind'
  <2>1. CASE db'.version = db.version
    BY <1>1, <1>2, <2>1 DEF PageSound, NotLeftBehind, UnderWay
  <2>2. CASE db'.version # db.version
    BY <1>1, <2>2 DEF NotLeftBehind, UnderWay
  <2>. QED  BY <2>1, <2>2
<1>. QED  BY <1>1, <1>3, <1>4, <1>5 DEF PageSound

\* A transaction that is not about this page's click leaves the click alone.
LEMMA OthersMoveRows ==
  ASSUME PageSound, NEW d, Becomes(d), MovesTo(db, d), UNCHANGED <<wires, page>>
  PROVE  PageSound'
<1>1. db' = d
  BY BecomesNamed DEF MovesTo
<1>2. UNCHANGED <<link, join, inbox, fetches, left, request, page>>
  BY DEF wires
<1>3. KeysFresh' /\ ClickSound'
  BY <1>1, <1>2, ClickKept
<1>. QED  BY <1>2, <1>3, RowsMoveOn DEF MovesTo

\* The clock moves the rows on without a new version.
LEMMA ExpiredMoves ==
  ASSUME NEW d, RowsSound(d, {}), d.game.status = "active"
  PROVE  MovesTo(d, Expired(d))
<1>1. /\ RowsSound(Expired(d), {}) /\ Expired(d).game = d.game
      /\ Expired(d).version = d.version /\ Expired(d).results = d.results
  BY ExpiredSound
<1>2. Expired(d).currentTurn = d.currentTurn /\ d.version \in Nat
  BY DEF RowsSound, Database, Expired
<1>. QED  BY <1>1, <1>2 DEF MovesTo, Advances, Snapshot

\* The settlement of an overdue turn makes a version and records no result.
LEMMA SettleMoves ==
  ASSUME NEW d, RowsSound(d, {})
  PROVE  MovesTo(d, SettleOverdueTurn(d))
<1>1. d.version \in Nat
  BY DEF RowsSound, Database
<1>. QED  BY <1>1, SettleSound DEF MovesTo, Advances

\* Another seat's request makes a version and records that seat's result.
LEMMA OthersMove ==
  ASSUME NEW d, RowsSound(d, {}), NEW r, WellFormed(r), Applies(d, r), r.player # Me
  PROVE  MovesTo(d, Process(d, r))
<1>1. d.version \in Nat
  BY DEF RowsSound, Database
<1>2. LET e == Process(d, r)
      IN  /\ RowsSound(e, {}) /\ e.version \in Nat /\ e.version > d.version
          /\ e.results = d.results \cup {[player |-> r.player, key |-> r.key]}
  BY ProcessSound
<1>. QED  BY <1>1, <1>2 DEF MovesTo, Advances

-----------------------------------------------------------------------------
(* The server's steps *)

\* Deadlines, the sweep and the other seats leave the page sound.
LEMMA ServerKeeps ==
  ASSUME PageSound,
         DeadlinePasses \/ Sweep \/ \E s \in Seat \ {Me}, m \in OtherMoves : OtherActs(s, m)
  PROVE  PageSound'
<1>1. RowsSound(db, {}) /\ db.version \in Nat
  BY VersionsAreNaturals DEF PageSound, ServerSound
<1>2. CASE DeadlinePasses
  <2>1. db.game.status = "active" /\ Becomes(Expired(db)) /\ UNCHANGED <<wires, page>>
    BY <1>2 DEF DeadlinePasses, Expired
  <2>. QED  BY <1>1, <2>1, ExpiredMoves, OthersMoveRows
<1>3. CASE Sweep
  BY <1>1, <1>3, SettleMoves, OthersMoveRows DEF Sweep
<1>4. ASSUME NEW s \in Seat \ {Me}, NEW m \in OtherMoves, OtherActs(s, m)
      PROVE  PageSound'
  <2> DEFINE r == [player |-> s, key |-> <<"other", db.version>>, kind |-> m.kind,
                   proposed |-> m.proposed, version |-> db.version, turn |-> db.currentTurn]
  <2>1. WellFormed(r) /\ r.player # Me
    BY <1>1, PageAssumption DEF WellFormed, Key
  <2>2. Applies(db, r) /\ Becomes(Process(db, r)) /\ UNCHANGED <<wires, page>>
    BY <1>4 DEF OtherActs
  <2> HIDE DEF r
  <2>. QED  BY <1>1, <2>1, <2>2, OthersMove, OthersMoveRows
<1>. QED  BY <1>2, <1>3, <1>4

\* News is put behind what is on its way already.
LEMMA NewsSent ==
  ASSUME PageSound, NEW v, inbox' = inbox \o News(v)
  PROVE  /\ inbox' \in Seq(Message)
         /\ \A i \in DOMAIN inbox : i \in DOMAIN inbox' /\ inbox'[i] = inbox[i]
         /\ \A i \in DOMAIN inbox' :
              (i \in DOMAIN inbox /\ inbox'[i] = inbox[i]) \/ inbox'[i].kind = "news"
         /\ \E i \in DOMAIN inbox' : inbox'[i].kind = "news"
<1> DEFINE news == News(v)
<1>1. inbox \in Seq(Message)
  BY DEF PageSound, PageTyped
<1>2. /\ news \in Seq(Message) /\ Len(news) \in Nat \ {0}
      /\ \A i \in 1 .. Len(news) : news[i].kind = "news"
  <2>1. [kind |-> "news"] \in Message
    BY DEF Message
  <2>. QED  BY <2>1 DEF News
<1> HIDE DEF news
<1>3. /\ inbox' \in Seq(Message) /\ Len(inbox') = Len(inbox) + Len(news)
      /\ \A i \in 1 .. Len(inbox) : inbox'[i] = inbox[i]
      /\ \A i \in 1 .. Len(news) : inbox'[Len(inbox) + i] = news[i]
  <2>1. inbox' = inbox \o news
    BY DEF news
  <2>. QED  BY <1>1, <1>2, <2>1, ConcatProperties
<1>4. Len(inbox) \in Nat /\ DOMAIN inbox = 1 .. Len(inbox) /\ DOMAIN inbox' = 1 .. Len(inbox')
  BY <1>1, <1>3
<1>5. \A i \in DOMAIN inbox : i \in DOMAIN inbox' /\ inbox'[i] = inbox[i]
  BY <1>2, <1>3, <1>4
<1>6. ASSUME NEW i \in DOMAIN inbox', i \notin DOMAIN inbox  PROVE inbox'[i].kind = "news"
  <2>1. i - Len(inbox) \in 1 .. Len(news) /\ i = Len(inbox) + (i - Len(inbox))
    BY <1>2, <1>3, <1>4, <1>6
  <2>. QED  BY <1>2, <1>3, <2>1
<1>7. Len(inbox) + 1 \in DOMAIN inbox' /\ inbox'[Len(inbox) + 1].kind = "news"
  BY <1>2, <1>3, <1>4
<1>. QED  BY <1>3, <1>5, <1>6, <1>7

\* A broadcast hands on what was to be sent: news that the page will follow.
LEMMA BroadcastKeeps ==
  ASSUME PageSound, NEW v \in unsent, Broadcast(v)
  PROVE  PageSound'
<1>1. /\ UNCHANGED <<db, history, link, join, fetches, request, left, view, seen, failed, draft>>
      /\ unsent' = unsent \ {v}
      /\ inbox' = IF InRoom THEN inbox \o News(v) ELSE inbox
  BY DEF Broadcast, page
<1>2. CASE ~ InRoom
  <2>1. join.stage \notin {"in room", "done"}
    BY <1>2 DEF InRoom
  <2>2. KeysFresh' /\ ClickSound' /\ NothingNewer'
    BY <1>1, <1>2 DEF PageSound, KeysFresh, ClickSound, NothingNewer
  <2>. QED
    BY <1>1, <1>2, <2>1, <2>2 DEF PageSound, PageTyped, ServerSound, NotLeftBehind
<1>3. CASE InRoom
  <2>1. /\ inbox' \in Seq(Message)
        /\ \A i \in DOMAIN inbox : i \in DOMAIN inbox' /\ inbox'[i] = inbox[i]
        /\ \A i \in DOMAIN inbox' :
             (i \in DOMAIN inbox /\ inbox'[i] = inbox[i]) \/ inbox'[i].kind = "news"
        /\ \E i \in DOMAIN inbox' : inbox'[i].kind = "news"
    BY <1>1, <1>3, NewsSent
  <2>2. PageTyped' /\ ServerSound'
    BY <1>1, <2>1 DEF PageSound, PageTyped, ServerSound
  <2>3. NothingNewer'
    BY <1>1, <2>1 DEF PageSound, NothingNewer
  <2>4. NotLeftBehind'
    BY <1>1, <2>1 DEF NotLeftBehind, UnderWay
  <2>5. KeysFresh' /\ ClickSound'
    BY <1>1 DEF PageSound, KeysFresh, ClickSound
  <2>. QED  BY <2>2, <2>3, <2>4, <2>5 DEF PageSound
<1>. QED  BY <1>2, <1>3

\* One more message at the end of what the socket delivers.
LEMMA InboxGrows ==
  ASSUME PageSound, NEW m \in Message, inbox' = Append(inbox, m)
  PROVE  /\ inbox' \in Seq(Message)
         /\ \A i \in DOMAIN inbox : i \in DOMAIN inbox' /\ inbox'[i] = inbox[i]
         /\ \A i \in DOMAIN inbox' : i \in DOMAIN inbox \/ inbox'[i] = m
         /\ \E i \in DOMAIN inbox' : inbox'[i] = m
<1>1. inbox \in Seq(Message) /\ Len(inbox) \in Nat /\ DOMAIN inbox = 1 .. Len(inbox)
  BY DEF PageSound, PageTyped
<1>2. /\ inbox' \in Seq(Message) /\ Len(inbox') = Len(inbox) + 1
      /\ \A i \in 1 .. Len(inbox) : inbox'[i] = inbox[i]
      /\ inbox'[Len(inbox) + 1] = m
  BY <1>1, AppendProperties
<1>3. DOMAIN inbox' = 1 .. Len(inbox) + 1
  BY <1>2
<1>. QED  BY <1>1, <1>2, <1>3

\* A click is refused only because the game moved on under it.
LEMMA RefusedLate ==
  ASSUME PageSound, request.kind # "none", ~ Applies(db, request)
  PROVE  RefusalCode(db, request) \in {"stale", "conflict"}
<1>1. WellFormed(request) /\ request.player = Me /\ ~ IsReplay(db, request)
      /\ (request.version = db.version /\ request.kind # "resign" => MayPlay(db.game, request))
  BY DEF PageSound, ClickSound
<1>2. CASE request.kind = "resign"
  BY <1>2 DEF RefusalCode
<1>3. CASE request.kind # "resign"
  <2>1. request.kind \in Moves /\ ~ AppliesMove(db, request)
    BY <1>1, <1>3 DEF WellFormed, Applies
  <2>2. ~ (db.game.status = "active" /\ ~ IsOverdue(db) /\ ~ IsStale(db, request))
    BY <1>1, <1>3, <2>1 DEF AppliesMove, MayPlay, IsStale
  <2>. QED  BY <2>2 DEF RefusalCode
<1>. QED  BY <1>2, <1>3

\* The server's answer to the click: applied, it makes a version and records a
\* result under the click's own key; refused, it tells the page so.
LEMMA HandleActionKeeps ==
  ASSUME PageSound, HandleAction
  PROVE  PageSound'
<1>1. request.kind # "none" /\ request' = None
      /\ UNCHANGED <<link, join, fetches, left, page>>
  BY DEF HandleAction
<1>2. WellFormed(request) /\ request.player = Me /\ ~ IsReplay(db, request)
      /\ request.key[1] = "click" /\ request.key[2] > left.clicks
  BY <1>1 DEF PageSound, ClickSound
<1>3. ClickSound'
  BY <1>1 DEF ClickSound, None
<1>4. RowsSound(db, {}) /\ db.version \in Nat
  BY VersionsAreNaturals DEF PageSound, ServerSound
<1>5. CASE Applies(db, request)
  <2> DEFINE e == Process(db, request)
  <2>1. Becomes(e) /\ UNCHANGED inbox
    BY <1>5 DEF HandleAction
  <2>2. /\ RowsSound(e, {}) /\ e.version \in Nat /\ e.version > db.version
        /\ e.results = db.results \cup {[player |-> request.player, key |-> request.key]}
    BY <1>2, <1>4, <1>5, ProcessSound
  <2> HIDE DEF e
  <2>3. Advances(db, e)
    BY <1>4, <2>2 DEF Advances
  <2>4. db' = e
    BY <2>1, <2>3, BecomesNamed
  <2>5. KeysFresh'
    BY <1>1, <1>2, <2>2, <2>4 DEF PageSound, KeysFresh
  <2>. QED  BY <1>1, <1>3, <2>1, <2>3, <2>5, RowsMoveOn
<1>6. CASE ~ Applies(db, request)
  <2> DEFINE m == [kind |-> "error", code |-> RefusalCode(db, request)]
  <2>1. UNCHANGED <<db, history, unsent, view, seen, failed>>
        /\ inbox' = IF link = "up" THEN Append(inbox, m) ELSE inbox
    BY <1>1, <1>6 DEF HandleAction, server, page
  <2>2. m \in Message /\ m.kind = "error"
    BY <1>1, <1>6, RefusedLate DEF Message
  <2> HIDE DEF m
  <2>3. /\ inbox' \in Seq(Message)
        /\ \A i \in DOMAIN inbox : i \in DOMAIN inbox' /\ inbox'[i] = inbox[i]
        /\ \A i \in DOMAIN inbox' : (i \in DOMAIN inbox /\ inbox'[i] = inbox[i]) \/ inbox'[i] = m
    <3>1. CASE link = "up"
      BY <2>1, <2>2, <3>1, InboxGrows
    <3>2. CASE link # "up"
      BY <2>1, <3>2 DEF PageSound, PageTyped
    <3>. QED  BY <3>1, <3>2
  <2>4. PageTyped' /\ ServerSound' /\ KeysFresh'
    BY <1>1, <2>1, <2>3 DEF PageSound, PageTyped, ServerSound, KeysFresh
  <2>5. NothingNewer'
    BY <1>1, <2>1, <2>2, <2>3 DEF PageSound, NothingNewer
  <2>6. NotLeftBehind'
    BY <1>1, <2>1, <2>3 DEF PageSound, NotLeftBehind, UnderWay
  <2>. QED  BY <1>3, <2>4, <2>5, <2>6 DEF PageSound
<1>. QED  BY <1>5, <1>6

-----------------------------------------------------------------------------
(* The steps of a join, of a fetch and of the connection *)

\* Entering the room: the snapshot to come is not read yet.
LEMMA EnterRoomKeeps ==
  ASSUME PageSound, EnterRoom
  PROVE  PageSound'
<1>1. /\ UNCHANGED <<db, history, unsent, link, inbox, fetches, request, left>>
      /\ UNCHANGED <<view, seen, failed, draft>>
      /\ join' = [stage |-> "in room", version |-> -1]
  BY DEF EnterRoom, server, page
<1>2. join' \in Joining
  BY <1>1 DEF Joining
<1>3. PageTyped' /\ ServerSound' /\ KeysFresh' /\ ClickSound'
  BY <1>1, <1>2 DEF PageSound, PageTyped, ServerSound, KeysFresh, ClickSound
<1>4. db.version \in Nat
  BY VersionsAreNaturals
<1>5. NothingNewer'
  <2>1. join'.version <= db'.version
    <3>1. \A n \in Nat : -1 <= n
      OBVIOUS
    <3>2. join'.version = -1 /\ db'.version \in Nat
      BY <1>1, <1>4
    <3>. QED  BY <3>1, <3>2
  <2>. QED  BY <1>1, <2>1 DEF PageSound, NothingNewer
<1>6. NotLeftBehind'
  BY <1>1 DEF NotLeftBehind, UnderWay
<1>. QED  BY <1>3, <1>5, <1>6 DEF PageSound

\* The rows the settlement leaves, for the snapshot or the fetch that reads them.
LEMMA SettledForReading ==
  ASSUME PageSound, Becomes(SettleOverdueTurn(db)),
         UNCHANGED <<request, left, view, seen>>
  PROVE  /\ ServerSound' /\ KeysFresh' /\ ClickSound'
         /\ db'.version \in Nat /\ unsent \subseteq unsent'
         /\ view <= seen /\ seen <= db'.version
         /\ \A i \in DOMAIN inbox : inbox[i].kind = "state" => inbox[i].version <= db'.version
         /\ \A k \in Slots : fetches[k].stage = "read" => fetches[k].version <= db'.version
         /\ join.stage = "in room" => join.version <= db'.version
<1>1. MovesTo(db, SettleOverdueTurn(db))
  BY SettleMoves DEF PageSound, ServerSound
<1>2. db' = SettleOverdueTurn(db) /\ ServerSound' /\ unsent \subseteq unsent'
  BY <1>1, BecomesNamed DEF MovesTo
<1>3. MovesTo(db, db')
  BY <1>1, <1>2
<1>4. KeysFresh' /\ ClickSound'
  BY <1>3, ClickKept
<1>. QED  BY <1>2, <1>3, <1>4, StillNotNewer DEF MovesTo

\* The snapshot of a join is of the version just settled on.
LEMMA LoadForJoinKeeps ==
  ASSUME PageSound, LoadForJoin
  PROVE  PageSound'
<1>1. /\ Becomes(SettleOverdueTurn(db)) /\ join.stage = "in room"
      /\ UNCHANGED <<link, inbox, fetches, request, left, view, seen, failed>>
      /\ join' = [join EXCEPT !.version = db'.version]
  BY DEF LoadForJoin, page
<1>2. /\ ServerSound' /\ KeysFresh' /\ ClickSound' /\ db'.version \in Nat
      /\ view <= seen /\ seen <= db'.version
      /\ \A i \in DOMAIN inbox : inbox[i].kind = "state" => inbox[i].version <= db'.version
      /\ \A k \in Slots : fetches[k].stage = "read" => fetches[k].version <= db'.version
  BY <1>1, SettledForReading
<1>3. /\ join' \in Joining /\ join'.stage = "in room" /\ join'.version = db'.version
  <2>1. join \in [stage : {"in room"}, version : Nat \cup {-1}]
    BY <1>1 DEF PageSound, PageTyped, Joining
  <2>2. join' \in [stage : {"in room"}, version : Nat \cup {-1}] /\ join'.version = db'.version
    BY <1>1, <1>2, <2>1
  <2>. QED  BY <2>2 DEF Joining
<1>4. PageTyped'
  BY <1>1, <1>3 DEF PageSound, PageTyped
<1>5. NothingNewer'
  <2>1. \A n \in Nat : n <= n
    OBVIOUS
  <2>2. join'.version <= db'.version
    BY <1>2, <1>3, <2>1
  <2>. QED  BY <1>1, <1>2, <2>2 DEF NothingNewer
<1>6. NotLeftBehind'
  BY <1>3 DEF NotLeftBehind, UnderWay
<1>. QED  BY <1>2, <1>4, <1>5, <1>6 DEF PageSound

\* The snapshot leaves for the page after whatever was sent to it before.
LEMMA SendStateKeeps ==
  ASSUME PageSound, SendState
  PROVE  PageSound'
<1> DEFINE m == [kind |-> "state", version |-> join.version]
<1>1. /\ UNCHANGED <<db, history, unsent, link, fetches, request, left>>
      /\ UNCHANGED <<view, seen, failed, draft>>
      /\ join.stage = "in room" /\ join.version # -1
      /\ inbox' = Append(inbox, m) /\ join' = [stage |-> "done"]
  BY DEF SendState, server, page
<1>2. join.version \in Nat
  BY <1>1, WireKinds DEF PageSound, PageTyped
<1>3. m \in Message /\ m.kind = "state" /\ m.version = join.version
  BY <1>2 DEF Message
<1> HIDE DEF m
<1>4. /\ inbox' \in Seq(Message)
      /\ \A i \in DOMAIN inbox : i \in DOMAIN inbox' /\ inbox'[i] = inbox[i]
      /\ \A i \in DOMAIN inbox' : i \in DOMAIN inbox \/ inbox'[i] = m
      /\ \E i \in DOMAIN inbox' : inbox'[i] = m
  BY <1>1, <1>3, InboxGrows
<1>5. join' \in Joining
  BY <1>1 DEF Joining
<1>6. PageTyped' /\ ServerSound' /\ KeysFresh' /\ ClickSound'
  BY <1>1, <1>4, <1>5 DEF PageSound, PageTyped, ServerSound, KeysFresh, ClickSound
<1>7. NothingNewer'
  BY <1>1, <1>3, <1>4 DEF PageSound, NothingNewer
<1>8. NotLeftBehind'
  <2>1. CASE join.version = db.version
    BY <1>1, <1>3, <1>4, <2>1 DEF NotLeftBehind, UnderWay
  <2>2. CASE join.version # db.version
    BY <1>1, <1>4, <2>2 DEF PageSound, NotLeftBehind, UnderWay
  <2>. QED  BY <2>1, <2>2
<1>. QED  BY <1>6, <1>7, <1>8 DEF PageSound

\* One fetch moves on: the others are what they were.
LEMMA SlotUpdated ==
  ASSUME PageSound, NEW k \in Slots, NEW f \in Fetch, fetches' = [fetches EXCEPT ![k] = f]
  PROVE  /\ fetches' \in [Slots -> Fetch] /\ fetches'[k] = f
         /\ \A j \in Slots : j # k => fetches'[j] = fetches[j]
BY DEF PageSound, PageTyped

\* A fetch reads the version just settled on.
LEMMA ReadForFetchKeeps ==
  ASSUME PageSound, NEW k \in Slots, ReadForFetch(k)
  PROVE  PageSound'
<1> DEFINE f == [stage |-> "read", version |-> db'.version]
<1>1. /\ Becomes(SettleOverdueTurn(db))
      /\ UNCHANGED <<link, join, inbox, request, left, view, seen, failed>>
      /\ fetches' = [fetches EXCEPT ![k] = f]
  BY DEF ReadForFetch, page
<1>2. /\ ServerSound' /\ KeysFresh' /\ ClickSound' /\ db'.version \in Nat
      /\ view <= seen /\ seen <= db'.version
      /\ \A i \in DOMAIN inbox : inbox[i].kind = "state" => inbox[i].version <= db'.version
      /\ \A j \in Slots : fetches[j].stage = "read" => fetches[j].version <= db'.version
      /\ join.stage = "in room" => join.version <= db'.version
  BY <1>1, SettledForReading
<1>3. f \in Fetch /\ f.stage = "read" /\ f.version = db'.version
  BY <1>2 DEF Fetch
<1> HIDE DEF f
<1>4. /\ fetches' \in [Slots -> Fetch] /\ fetches'[k] = f
      /\ \A j \in Slots : j # k => fetches'[j] = fetches[j]
  BY <1>1, <1>3, SlotUpdated
<1>5. PageTyped'
  BY <1>1, <1>4 DEF PageSound, PageTyped
<1>6. NothingNewer'
  <2>1. \A j \in Slots : fetches'[j].stage = "read" => fetches'[j].version <= db'.version
    <3>1. f.version <= db'.version
      <4>1. \A n \in Nat : n <= n
        OBVIOUS
      <4>. QED  BY <1>2, <1>3, <4>1
    <3>. QED  BY <1>2, <1>4, <3>1
  <2>. QED  BY <1>1, <1>2, <2>1 DEF NothingNewer
<1>7. NotLeftBehind'
  BY <1>3, <1>4 DEF NotLeftBehind, UnderWay
<1>. QED  BY <1>2, <1>5, <1>6, <1>7 DEF PageSound

\* A click that is flushed to the server is the click it was.
LEMMA FlushKeepsClick ==
  ASSUME PageSound, request.kind # "none", request' = [request EXCEPT !.onWire = TRUE],
         UNCHANGED <<db, left>>
  PROVE  ClickSound'
<1>1. DOMAIN request = {"player", "key", "kind", "proposed", "version", "turn", "hint", "onWire"}
  BY DEF PageSound, ClickSound
<1>2. /\ DOMAIN request' = DOMAIN request /\ request'.player = request.player
      /\ request'.key = request.key /\ request'.kind = request.kind
      /\ request'.proposed = request.proposed /\ request'.version = request.version
      /\ request'.turn = request.turn /\ request'.hint = request.hint
  BY <1>1
<1>3. /\ WellFormed(request') <=> WellFormed(request)
      /\ IsReplay(db, request') <=> IsReplay(db, request)
      /\ MayPlay(db.game, request') <=> MayPlay(db.game, request)
  BY <1>2 DEF WellFormed, IsReplay, MayPlay, IsInvalid
<1>. QED  BY <1>1, <1>2, <1>3 DEF PageSound, ClickSound

\* A connection asks to join again; until the server has let it in nothing is
\* promised.
LEMMA ConnectKeeps ==
  ASSUME PageSound, Connect
  PROVE  PageSound'
<1>1. /\ UNCHANGED <<db, history, unsent, inbox, fetches, left, view, seen>>
      /\ link' = "up" /\ join' = [stage |-> "asked"] /\ failed' = FALSE
      /\ request' = IF request.kind = "none" THEN None ELSE [request EXCEPT !.onWire = TRUE]
  BY DEF Connect, server
<1>2. join' \in Joining
  BY <1>1 DEF Joining
<1>3. PageTyped' /\ ServerSound' /\ KeysFresh'
  BY <1>1, <1>2 DEF PageSound, PageTyped, ServerSound, KeysFresh
<1>4. NothingNewer' /\ NotLeftBehind'
  BY <1>1 DEF PageSound, NothingNewer, NotLeftBehind
<1>5. ClickSound'
  <2>1. CASE request.kind = "none"
    BY <1>1, <2>1 DEF ClickSound, None
  <2>2. CASE request.kind # "none"
    BY <1>1, <2>2, FlushKeepsClick
  <2>. QED  BY <2>1, <2>2
<1>. QED  BY <1>3, <1>4, <1>5 DEF PageSound

\* A connection that drops takes what was on the socket with it.
LEMMA DropKeeps ==
  ASSUME PageSound, Drop
  PROVE  PageSound'
<1>1. /\ UNCHANGED <<db, history, unsent, fetches, view, seen, failed>>
      /\ link' = "down" /\ join' = [stage |-> "none"] /\ inbox' = <<>>
      /\ request' \in {request, None} /\ left.drops > 0
      /\ left' = [left EXCEPT !.drops = @ - 1]
  BY DEF Drop, server, page
<1>2. left' \in [steps : Nat, edits : Nat, clicks : Nat, drops : Nat] /\ left'.clicks = left.clicks
  BY <1>1 DEF PageSound, PageTyped
<1>3. join' \in Joining /\ inbox' \in Seq(Message)
  BY <1>1 DEF Joining
<1>4. PageTyped' /\ ServerSound' /\ KeysFresh'
  BY <1>1, <1>2, <1>3 DEF PageSound, PageTyped, ServerSound, KeysFresh
<1>5. NothingNewer' /\ NotLeftBehind'
  <2>1. view' <= seen' /\ seen' <= db'.version
        /\ \A k \in Slots : fetches'[k].stage = "read" => fetches'[k].version <= db'.version
    BY <1>1 DEF PageSound, NothingNewer
  <2>2. DOMAIN inbox' = {} /\ join'.stage = "none" /\ link' # "up"
    BY <1>1
  <2>. QED  BY <2>1, <2>2 DEF NothingNewer, NotLeftBehind
<1>6. ClickSound'
  BY <1>1, <1>2 DEF PageSound, ClickSound, None
<1>. QED  BY <1>4, <1>5, <1>6 DEF PageSound

-----------------------------------------------------------------------------
(* The steps of the page *)

\* A page shown version v, which it knows no newer one than the rows' of.
LEMMA ShowViewKeeps ==
  ASSUME PageSound, NEW v \in Nat, v <= db.version, ShowView(v)
  PROVE  /\ view' \in Nat \cup {-1} /\ seen' \in Nat \cup {-1} /\ failed' \in BOOLEAN
         /\ view' <= seen' /\ seen' <= db.version
         /\ v = db.version => seen' = db.version
         /\ seen = db.version => seen' = db.version
         /\ failed => failed' \/ seen' = db.version
<1>1. view' = v /\ seen' = (IF v > seen THEN v ELSE seen) /\ failed' = (failed /\ v # db.version)
  BY DEF ShowView
<1>2. seen \in Nat \cup {-1} /\ failed \in BOOLEAN /\ db.version \in Nat /\ seen <= db.version
  BY VersionsAreNaturals DEF PageSound, PageTyped, NothingNewer
<1>3. /\ seen' \in Nat \cup {-1} /\ v <= seen' /\ seen' <= db.version
      /\ v = db.version => seen' = db.version
      /\ seen = db.version => seen' = db.version
  BY <1>1, <1>2
<1>4. failed' \in BOOLEAN /\ (failed => failed' \/ v = db.version)
  BY <1>1
<1>. QED  BY <1>1, <1>3, <1>4

\* What is left of the inbox once its first message was taken.
LEMMA InboxShrinks ==
  ASSUME PageSound, inbox # <<>>, inbox' = Tail(inbox)
  PROVE  /\ inbox' \in Seq(Message) /\ 1 \in DOMAIN inbox /\ Head(inbox) = inbox[1]
         /\ \A i \in DOMAIN inbox' : i + 1 \in DOMAIN inbox /\ inbox'[i] = inbox[i + 1]
         /\ \A i \in DOMAIN inbox :
              i = 1 \/ \E j \in DOMAIN inbox' : inbox'[j] = inbox[i]
<1>1. inbox \in Seq(Message) /\ Len(inbox) \in Nat /\ DOMAIN inbox = 1 .. Len(inbox)
  BY DEF PageSound, PageTyped
<1>2. /\ inbox' \in Seq(Message) /\ Len(inbox') = Len(inbox) - 1 /\ Len(inbox) > 0
      /\ Head(inbox) = inbox[1]
      /\ \A i \in 1 .. Len(inbox) - 1 : inbox'[i] = inbox[i + 1]
  BY <1>1, EmptySeq, HeadTailProperties
<1>3. DOMAIN inbox' = 1 .. Len(inbox) - 1
  BY <1>2
<1>4. \A i \in DOMAIN inbox' : i + 1 \in DOMAIN inbox /\ inbox'[i] = inbox[i + 1]
  BY <1>1, <1>2, <1>3
<1>5. ASSUME NEW i \in DOMAIN inbox, i # 1
      PROVE  \E j \in DOMAIN inbox' : inbox'[j] = inbox[i]
  <2>1. i - 1 \in 1 .. Len(inbox) - 1 /\ (i - 1) + 1 = i
    BY <1>1, <1>5
  <2>2. i - 1 \in DOMAIN inbox' /\ inbox'[i - 1] = inbox[i]
    BY <1>2, <1>3, <2>1
  <2>. QED  BY <2>2
<1>6. 1 \in DOMAIN inbox
  BY <1>1, <1>2
<1>. QED  BY <1>2, <1>4, <1>5, <1>6

\* The page takes a message: it shows the snapshot, or goes and fetches.
LEMMA ReceiveKeeps ==
  ASSUME PageSound, Receive
  PROVE  PageSound'
<1> DEFINE m == inbox[1]
<1>1. /\ inbox # <<>> /\ inbox' = Tail(inbox)
      /\ UNCHANGED <<db, history, unsent, link, join, request, left>>
  BY DEF Receive, server
<1>2. /\ inbox' \in Seq(Message) /\ 1 \in DOMAIN inbox /\ Head(inbox) = m
      /\ \A i \in DOMAIN inbox' : i + 1 \in DOMAIN inbox /\ inbox'[i] = inbox[i + 1]
      /\ \A i \in DOMAIN inbox : i = 1 \/ \E j \in DOMAIN inbox' : inbox'[j] = inbox[i]
  BY <1>1, InboxShrinks
<1>3. m \in Message /\ (m.kind = "state" => m.version \in Nat /\ m.version <= db.version)
  BY <1>2, WiresTyped, WireKinds DEF PageSound, NothingNewer
<1>4. /\ fetches' \in [Slots -> Fetch]
      /\ \A j \in Slots : fetches'[j] = fetches[j] \/ fetches'[j].stage = "sent"
      /\ \A j \in Slots : fetches[j].stage # "free" => fetches'[j] = fetches[j]
      /\ m.kind = "news" => \E j \in Slots : fetches'[j].stage = "sent"
  <2>1. CASE UNCHANGED fetches
    <3>1. m.kind # "news"
      BY <1>2, <2>1 DEF Receive, PageSound, PageTyped
    <3>. QED  BY <2>1, <3>1 DEF PageSound, PageTyped
  <2>2. ASSUME NEW k \in Slots, fetches[k].stage = "free",
               fetches' = [fetches EXCEPT ![k] = [stage |-> "sent"]]
        PROVE  <1>4!1
    <3>1. [stage |-> "sent"] \in Fetch
      BY DEF Fetch
    <3>2. /\ fetches' \in [Slots -> Fetch] /\ fetches'[k] = [stage |-> "sent"]
          /\ \A j \in Slots : j # k => fetches'[j] = fetches[j]
      BY <2>2, <3>1, SlotUpdated
    <3>. QED  BY <2>2, <3>2
  <2>. QED  BY <2>1, <2>2 DEF Receive
<1>5. /\ view' \in Nat \cup {-1} /\ seen' \in Nat \cup {-1} /\ failed' \in BOOLEAN
      /\ view' <= seen' /\ seen' <= db.version
      /\ m.kind = "state" /\ m.version = db.version => seen' = db.version
      /\ seen = db.version => seen' = db.version
      /\ failed => failed' \/ seen' = db.version
  <2>1. CASE m.kind = "state"
    <3>1. ShowView(m.version)
      BY <1>2, <2>1 DEF Receive
    <3>. QED  BY <1>3, <2>1, <3>1, ShowViewKeeps
  <2>2. CASE m.kind # "state"
    <3>1. UNCHANGED <<view, seen, failed>>
      BY <1>2, <2>2 DEF Receive
    <3>. QED  BY <2>2, <3>1 DEF PageSound, PageTyped, NothingNewer
  <2>. QED  BY <2>1, <2>2
<1> HIDE DEF m
<1>6. PageTyped' /\ ServerSound' /\ KeysFresh' /\ ClickSound'
  BY <1>1, <1>2, <1>4, <1>5 DEF PageSound, PageTyped, ServerSound, KeysFresh, ClickSound
<1>7. NothingNewer'
  <2>1. ASSUME NEW i \in DOMAIN inbox', inbox'[i].kind = "state"
        PROVE  inbox'[i].version <= db.version
    <3>1. i + 1 \in DOMAIN inbox /\ inbox'[i] = inbox[i + 1]
      BY <1>2
    <3>. QED  BY <2>1, <3>1 DEF PageSound, NothingNewer
  <2>2. \A k \in Slots : fetches'[k].stage = "read" => fetches'[k].version <= db.version
    BY <1>4 DEF PageSound, NothingNewer
  <2>. QED  BY <1>1, <1>5, <2>1, <2>2 DEF PageSound, NothingNewer
<1>8. NotLeftBehind'
  <2> SUFFICES ASSUME link = "up", join.stage \in {"in room", "done"}
               PROVE  UnderWay(db.version)' \/ failed' \/ seen' = db.version
    BY <1>1 DEF NotLeftBehind
  <2>1. UnderWay(db.version) \/ failed \/ seen = db.version
    BY DEF PageSound, NotLeftBehind
  <2>2. CASE failed \/ seen = db.version
    BY <1>5, <2>2
  <2>3. CASE db.version \in unsent
    BY <1>1, <2>3 DEF UnderWay
  <2>4. ASSUME NEW i \in DOMAIN inbox,
               inbox[i].kind = "news" \/ (inbox[i].kind = "state" /\ inbox[i].version = db.version)
        PROVE  UnderWay(db.version)' \/ seen' = db.version
    <3>1. CASE i = 1
      BY <1>1, <1>4, <1>5, <2>4, <3>1 DEF UnderWay, m
    <3>2. CASE i # 1
      <4>1. PICK j \in DOMAIN inbox' : inbox'[j] = inbox[i]
        BY <1>2, <3>2
      <4>. QED  BY <1>1, <2>4, <4>1 DEF UnderWay
    <3>. QED  BY <3>1, <3>2
  <2>5. ASSUME NEW k \in Slots,
               fetches[k].stage = "sent" \/ (fetches[k].stage = "read" /\ fetches[k].version = db.version)
        PROVE  UnderWay(db.version)'
    BY <1>1, <1>4, <2>5 DEF UnderWay
  <2>6. CASE join.stage = "in room" /\ join.version \in {-1, db.version}
    BY <1>1, <2>6 DEF UnderWay
  <2>. QED  BY <2>1, <2>2, <2>3, <2>4, <2>5, <2>6 DEF UnderWay
<1>. QED  BY <1>6, <1>7, <1>8 DEF PageSound

\* A fetch that is over frees its slot.
LEMMA SlotFreed ==
  ASSUME PageSound, NEW k \in Slots, fetches' = [fetches EXCEPT ![k] = [stage |-> "free"]]
  PROVE  /\ fetches' \in [Slots -> Fetch] /\ fetches'[k].stage = "free"
         /\ \A j \in Slots : j # k => fetches'[j] = fetches[j]
<1>1. [stage |-> "free"] \in Fetch
  BY DEF Fetch
<1>. QED  BY <1>1, SlotUpdated

\* The page shows what a fetch brought, however old.
LEMMA FetchAnsweredKeeps ==
  ASSUME PageSound, NEW k \in Slots, FetchAnswered(k)
  PROVE  PageSound'
<1> DEFINE v == fetches[k].version
<1>1. /\ fetches[k].stage = "read" /\ ShowView(v)
      /\ fetches' = [fetches EXCEPT ![k] = [stage |-> "free"]]
      /\ UNCHANGED <<db, history, unsent, link, join, inbox, request, left>>
  BY DEF FetchAnswered, server
<1>2. v \in Nat /\ v <= db.version
  BY <1>1, WireKinds DEF PageSound, PageTyped, NothingNewer
<1>3. /\ fetches' \in [Slots -> Fetch] /\ fetches'[k].stage = "free"
      /\ \A j \in Slots : j # k => fetches'[j] = fetches[j]
  BY <1>1, SlotFreed
<1>4. /\ view' \in Nat \cup {-1} /\ seen' \in Nat \cup {-1} /\ failed' \in BOOLEAN
      /\ view' <= seen' /\ seen' <= db.version
      /\ v = db.version => seen' = db.version
      /\ seen = db.version => seen' = db.version
      /\ failed => failed' \/ seen' = db.version
  BY <1>1, <1>2, ShowViewKeeps
<1>5. PageTyped' /\ ServerSound' /\ KeysFresh' /\ ClickSound'
  BY <1>1, <1>3, <1>4 DEF PageSound, PageTyped, ServerSound, KeysFresh, ClickSound
<1>6. NothingNewer'
  BY <1>1, <1>3, <1>4 DEF PageSound, NothingNewer
<1>7. NotLeftBehind'
  <2> SUFFICES ASSUME link = "up", join.stage \in {"in room", "done"}
               PROVE  UnderWay(db.version)' \/ failed' \/ seen' = db.version
    BY <1>1 DEF NotLeftBehind
  <2>1. UnderWay(db.version) \/ failed \/ seen = db.version
    BY DEF PageSound, NotLeftBehind
  <2>2. UnderWay(db.version) => UnderWay(db.version)' \/ v = db.version
    BY <1>1, <1>3 DEF UnderWay
  <2>. QED  BY <1>4, <2>1, <2>2
<1>. QED  BY <1>5, <1>6, <1>7 DEF PageSound

\* A fetch that fails is noted down.
LEMMA FetchFailsKeeps ==
  ASSUME PageSound, NEW k \in Slots, FetchFails(k)
  PROVE  PageSound'
<1>1. /\ fetches' = [fetches EXCEPT ![k] = [stage |-> "free"]] /\ failed' = TRUE
      /\ UNCHANGED <<db, history, unsent, link, join, inbox, request, left, view, seen>>
  BY DEF FetchFails, server
<1>2. /\ fetches' \in [Slots -> Fetch] /\ fetches'[k].stage = "free"
      /\ \A j \in Slots : j # k => fetches'[j] = fetches[j]
  BY <1>1, SlotFreed
<1>3. PageTyped' /\ ServerSound' /\ KeysFresh' /\ ClickSound'
  BY <1>1, <1>2 DEF PageSound, PageTyped, ServerSound, KeysFresh, ClickSound
<1>4. NothingNewer' /\ NotLeftBehind'
  BY <1>1, <1>2 DEF PageSound, NothingNewer, NotLeftBehind
<1>. QED  BY <1>3, <1>4 DEF PageSound

\* What the player makes of the draft is nobody else's business.
LEMMA DraftStepsKeep ==
  ASSUME PageSound, ResetDraft \/ EditDraft \/ UNCHANGED vars
  PROVE  PageSound'
<1>1. UNCHANGED <<db, history, unsent, link, join, inbox, fetches, request, left, view, seen, failed>>
  BY DEF ResetDraft, EditDraft, vars, server, wires, page
<1>. QED  BY <1>1 DEF PageSound, PageTyped, ServerSound, NothingNewer, NotLeftBehind,
               UnderWay, KeysFresh, ClickSound

-----------------------------------------------------------------------------
(* A click *)

\* validateTurn asks of a game only its table, the player's rack and whether
\* the player has opened.
LEMMA ValidTurnReads ==
  ASSUME NEW g, NEW h, NEW s \in Seat, NEW rows,
         g.table = h.table, g.rack[s] = h.rack[s], g.hasInitialMeld[s] <=> h.hasInitialMeld[s]
  PROVE  ValidTurn(g, s, rows) <=> ValidTurn(h, s, rows)
BY DEF ValidTurn, Added, TableTiles, OpensWell

\* A hint made on the rows as they are is the verdict they would give.
LEMMA HintOnTheGame ==
  ASSUME PageSound, view = db.version
  PROVE  Hint <=> ValidTurn(db.game, Me, draft.sets)
<1>1. Shown = db.game /\ Me \in Seat
  BY PageAssumption DEF PageSound, ServerSound, Snapshot, Shown
<1>2. /\ HintGame.table = Shown.table /\ HintGame.rack[Me] = Shown.rack[Me]
      /\ HintGame.hasInitialMeld[Me] <=> Shown.hasInitialMeld[Me]
  BY <1>1 DEF HintGame, DealtGame
<1>. QED  BY <1>1, <1>2, ValidTurnReads DEF Hint

\* What a button lets the player ask for, on the rows as they are, may be played.
LEMMA EnabledMayPlay ==
  ASSUME PageSound, view = db.version, NEW kind \in Moves, Enabled(kind),
         NEW r, r.kind = kind, r.player = Me
  PROVE  MayPlay(db.game, r)
<1>1. Shown = db.game
  BY DEF PageSound, ServerSound, Snapshot, Shown
<1>2. db.game.pool \in Nat
  BY DealAssumption DEF PageSound, ServerSound, RowsSound, Database, GameState
<1>3. IsMyTurn /\ (kind = "draw" => Shown.pool > 0) /\ (kind = "pass" => Shown.pool = 0)
  BY DEF Moves, Enabled
<1>4. ~ IsInvalid(db.game, r)
  BY <1>1, <1>2, <1>3 DEF IsInvalid
<1>. QED  BY <1>1, <1>3, <1>4 DEF MayPlay, IsMyTurn, Moves

\* A click takes a key nobody has used and the version on the screen.
LEMMA ClickKeeps ==
  ASSUME PageSound, NEW kind \in Moves \cup {"resign"}, Click(kind)
  PROVE  PageSound'
<1>1. /\ UNCHANGED <<db, history, unsent, link, join, inbox, fetches, view, seen, failed, draft>>
      /\ view # -1 /\ Enabled(kind) /\ left.clicks > 0
      /\ left' = [left EXCEPT !.clicks = @ - 1]
  BY DEF Click, server, page
<1>2. request' = [player |-> Me, key |-> <<"click", left.clicks>>, kind |-> kind,
                  proposed |-> IF kind = "commit" THEN draft.sets ELSE {},
                  version |-> view, turn |-> history[view].turn,
                  hint |-> IF kind = "commit" THEN Hint ELSE FALSE,
                  onWire |-> link = "up"]
  BY DEF Click
<1>3. /\ left \in [steps : Nat, edits : Nat, clicks : Nat, drops : Nat]
      /\ view \in Nat /\ view <= db.version /\ db.version \in Nat
  <2>1. view \in Nat \cup {-1} /\ seen \in Nat \cup {-1} /\ view <= seen /\ seen <= db.version
    BY DEF PageSound, PageTyped, NothingNewer
  <2>2. left \in [steps : Nat, edits : Nat, clicks : Nat, drops : Nat]
    BY DEF PageSound, PageTyped
  <2>. QED  BY <1>1, <2>1, <2>2, VersionsAreNaturals
<1>4. /\ left' \in [steps : Nat, edits : Nat, clicks : Nat, drops : Nat]
      /\ left.clicks \in Nat /\ left'.clicks = left.clicks - 1
  BY <1>1, <1>3
<1>5. PageTyped' /\ ServerSound' /\ NothingNewer' /\ NotLeftBehind'
  BY <1>1, <1>4 DEF PageSound, PageTyped, ServerSound, NothingNewer, NotLeftBehind, UnderWay
<1>6. KeysFresh'
  <2> SUFFICES ASSUME NEW x \in db.results, x.player = Me, x.key[1] = "click"
               PROVE  x.key[2] > left'.clicks
    BY <1>1 DEF KeysFresh
  <2>1. x.key[2] > left.clicks
    BY DEF PageSound, KeysFresh
  <2>2. x.key \in Key
    BY DEF PageSound, ServerSound, RowsSound, Database
  <2>3. x.key[2] \in Nat
    BY <2>2 DEF Key
  <2>. QED  BY <1>4, <2>1, <2>3
<1>7. ClickSound'
  <2>1. /\ request'.player = Me /\ request'.key = <<"click", left.clicks>>
        /\ request'.kind = kind /\ request'.version = view
        /\ kind = "commit" => request'.proposed = draft.sets /\ request'.hint = Hint
        /\ DOMAIN request' = {"player", "key", "kind", "proposed", "version", "turn", "hint", "onWire"}
    BY <1>2
  <2>2. WellFormed(request')
    BY <1>4, <2>1, PageAssumption DEF WellFormed, Key
  <2>3. ~ IsReplay(db, request')
    <3> SUFFICES ASSUME NEW x \in db.results, x.player = Me, x.key = <<"click", left.clicks>>
                 PROVE  FALSE
      BY <2>1 DEF IsReplay
    <3>1. x.key[1] = "click" /\ x.key[2] = left.clicks
      OBVIOUS
    <3>2. left.clicks > left.clicks
      BY <3>1 DEF PageSound, KeysFresh
    <3>. QED  BY <1>4, <3>2
  <2>4. request'.key[1] = "click" /\ request'.key[2] > left'.clicks
    BY <1>4, <2>1
  <2>5. ASSUME view = db.version, kind # "resign"
        PROVE  /\ MayPlay(db.game, request')
               /\ kind = "commit" => (request'.hint <=> ValidTurn(db.game, Me, request'.proposed))
    <3>1. kind \in Moves
      BY <2>5
    <3>2. MayPlay(db.game, request')
      BY <1>1, <2>1, <2>5, <3>1, EnabledMayPlay
    <3>3. Hint <=> ValidTurn(db.game, Me, draft.sets)
      BY <2>5, HintOnTheGame
    <3>. QED  BY <2>1, <3>2, <3>3
  <2>. QED  BY <1>1, <1>3, <2>1, <2>2, <2>3, <2>4, <2>5 DEF ClickSound
<1>. QED  BY <1>5, <1>6, <1>7 DEF PageSound

-----------------------------------------------------------------------------
(* The theorems *)

\* Every step keeps the page sound.
LEMMA StepKeepsPageSound ==
  ASSUME PageSound, [Next]_vars
  PROVE  PageSound'
<1>1. CASE DeadlinePasses \/ Sweep \/ \E s \in Seat \ {Me}, m \in OtherMoves : OtherActs(s, m)
  BY <1>1, ServerKeeps
<1>2. CASE HandleAction
  BY <1>2, HandleActionKeeps
<1>3. ASSUME NEW v \in unsent, Broadcast(v)  PROVE PageSound'
  BY <1>3, BroadcastKeeps
<1>4. CASE EnterRoom \/ LoadForJoin \/ SendState
  BY <1>4, EnterRoomKeeps, LoadForJoinKeeps, SendStateKeeps
<1>5. ASSUME NEW k \in Slots, ReadForFetch(k) \/ FetchAnswered(k) \/ FetchFails(k)
      PROVE  PageSound'
  BY <1>5, ReadForFetchKeeps, FetchAnsweredKeeps, FetchFailsKeeps
<1>6. CASE Connect \/ Drop
  BY <1>6, ConnectKeeps, DropKeeps
<1>7. CASE Receive
  BY <1>7, ReceiveKeeps
<1>8. CASE ResetDraft \/ EditDraft \/ UNCHANGED vars
  BY <1>8, DraftStepsKeep
<1>9. ASSUME NEW kind \in Moves \cup {"resign"}, Click(kind)  PROVE PageSound'
  BY <1>9, ClickKeeps
<1>. QED  BY <1>1, <1>2, <1>3, <1>4, <1>5, <1>6, <1>7, <1>8, <1>9 DEF Next

\* However the other players move, whatever the socket loses and however the
\* fetches overtake one another: the page shows nothing newer than the rows, is
\* told of every version or goes to fetch it, and a click that carries the
\* current version is one its player may make.
THEOREM PageSoundAlways == Spec => []PageSound
<1>1. Init => PageSound
  BY InitPageSound
<1>2. PageSound /\ [Next]_vars => PageSound'
  BY StepKeepsPageSound
<1>. QED  BY <1>1, <1>2, PTL DEF Spec

\* A connected page with nothing under way to it shows the game as it is,
\* unless a fetch failed or an older answer overtook a newer one.
THEOREM PageCatchesUpAlways == Spec => []PageCatchesUp
<1>1. PageSound => PageCatchesUp
  <2> SUFFICES ASSUME PageSound, link = "up", join.stage = "done", inbox = <<>>, unsent = {},
                      \A k \in Slots : fetches[k].stage = "free"
               PROVE  view = db.version \/ failed \/ view < seen
    BY DEF PageCatchesUp
  <2>1. DOMAIN inbox = {}
    OBVIOUS
  <2>2. ~ UnderWay(db.version)
    BY <2>1 DEF UnderWay
  <2>3. failed \/ seen = db.version
    BY <2>2 DEF PageSound, NotLeftBehind
  <2>4. view \in Int /\ seen \in Int /\ view <= seen
    BY WiresTyped DEF PageSound, NothingNewer
  <2>. QED  BY <2>3, <2>4
<1>. QED  BY <1>1, PageSoundAlways, PTL

\* No click is refused as another seat's turn, nor as a draw or a pass out of
\* place: what the buttons allow is refused only because the game moved on.
THEOREM RefusedOnlyWhenLateAlways == Spec => []RefusedOnlyWhenLate
<1>1. PageSound => RefusedOnlyWhenLate
  BY WiresTyped, WireKinds DEF PageSound, RefusedOnlyWhenLate
<1>. QED  BY <1>1, PageSoundAlways, PTL

\* The event a commit that applies to sound rows is logged as, in the row of
\* the turn it played.
LEMMA CommitIsLogged ==
  ASSUME NEW d, RowsSound(d, {}), NEW r, WellFormed(r), r.kind = "commit", Applies(d, r)
  PROVE  Process(d, r).turns[d.currentTurn].status = "committed"
           <=> ValidTurn(d.game, r.player, r.proposed)
<1> DEFINE g == d.game
           h == Transition(g, r)
           event == EventOf(g, r)
           e == ApplySideEffects(d, h, event)
<1>1. /\ d \in Database /\ d.currentTurn \in 1 .. Len(d.turns) /\ Sound(g)
      /\ d.turns \in Seq(TurnRow)
  BY DEF RowsSound, TurnsSound, Database
<1>2. MayPlay(g, r) /\ g.status = "active" /\ r.player = g.activeSeat
  BY DEF Applies, AppliesMove, MayPlay, Moves
<1>3. Sound(h) /\ event \in Resolution
  BY <1>1, <1>2, TransitionSound
<1>4. h.activeSeat # g.activeSeat
  <2>1. h = ApplyCommit(g, g.activeSeat, r.proposed)
    BY <1>2 DEF Transition
  <2> HIDE DEF g, h
  <2>. QED  BY <1>1, <1>2, <2>1, ApplyCommitPassesOn
<1>5. event = "committed" <=> ValidTurn(g, r.player, r.proposed)
  BY DEF EventOf
<1>6. Process(d, r) = [e EXCEPT !.results = e.results \cup {[player |-> r.player, key |-> r.key]}]
  BY DEF Process, Prepared, RecordResult
<1> HIDE DEF h, event
<1>7. Closes(d, h) /\ h \in GameState
  BY <1>3, <1>4 DEF Closes, Sound, WellTyped
<1>8. /\ e \in Database
      /\ e.turns[d.currentTurn] = [d.turns[d.currentTurn] EXCEPT !.status = event]
  BY <1>1, <1>3, <1>7, PersistRows
<1> HIDE DEF e
<1>9. d.turns[d.currentTurn] \in TurnRow
  BY <1>1
<1>10. e.turns[d.currentTurn].status = event
  BY <1>8, <1>9 DEF TurnRow
<1>11. Process(d, r).turns = e.turns
  BY <1>6, <1>8 DEF Database
<1>. QED  BY <1>5, <1>10, <1>11

\* Only the server's answer takes a click away and moves the rows on.
LEMMA OnlyAnswersClick ==
  ASSUME [Next]_vars, request.kind # "none", request' = None, db' # db
  PROVE  HandleAction
<1>1. request' # request
  BY DEF None
<1>2. CASE DeadlinePasses \/ Sweep \/ \E s \in Seat \ {Me}, m \in OtherMoves : OtherActs(s, m)
  BY <1>1, <1>2 DEF wires, DeadlinePasses, Sweep, OtherActs
<1>3. CASE \E v \in unsent : Broadcast(v)
  BY <1>1, <1>3 DEF Broadcast
<1>4. CASE EnterRoom \/ LoadForJoin \/ SendState
  BY <1>1, <1>4 DEF EnterRoom, LoadForJoin, SendState
<1>5. CASE \E k \in Slots : ReadForFetch(k) \/ FetchAnswered(k) \/ FetchFails(k)
  BY <1>1, <1>5 DEF ReadForFetch, FetchAnswered, FetchFails
<1>6. CASE Connect \/ Drop \/ Receive \/ ResetDraft \/ EditDraft \/ UNCHANGED vars
  BY <1>6 DEF vars, server, Connect, Drop, Receive, ResetDraft, EditDraft
<1>7. CASE \E kind \in Moves \cup {"resign"} : Click(kind)
  BY <1>7 DEF Click
<1>. QED  BY <1>2, <1>3, <1>4, <1>5, <1>6, <1>7 DEF Next

\* "A hint can never disagree with what the server will actually decide on
\* Commit": a commit that is judged is logged as committed just when the hint
\* at the click took it for valid, whatever draft it was and whatever the pool
\* and the other racks were.
THEOREM HintIsVerdictAlways == Spec => HintIsVerdict
<1> DEFINE Verdict ==
      (request.kind = "commit" /\ request' = None /\ Applies(db, request) /\ db' # db) =>
        (db'.turns[db.currentTurn].status = "committed" <=> request.hint)
<1>1. PageSound /\ [Next]_vars => [Verdict]_vars
  <2> SUFFICES ASSUME PageSound, [Next]_vars, request.kind = "commit", request' = None,
                      Applies(db, request), db' # db
               PROVE  db'.turns[db.currentTurn].status = "committed" <=> request.hint
    OBVIOUS
  <2>1. HandleAction
    BY OnlyAnswersClick
  <2>2. WellFormed(request) /\ request.player = Me /\ RowsSound(db, {})
    BY DEF PageSound, ClickSound, ServerSound
  <2>3. db' = Process(db, request)
    BY <2>1 DEF HandleAction, Becomes
  <2>4. request.version = db.version
    BY DEF Applies, AppliesMove, IsStale
  <2>5. request.hint <=> ValidTurn(db.game, Me, request.proposed)
    BY <2>4 DEF PageSound, ClickSound
  <2>. QED  BY <2>2, <2>3, <2>5, CommitIsLogged
<1>. QED  BY <1>1, PageSoundAlways, PTL DEF Spec, HintIsVerdict

-----------------------------------------------------------------------------
(* Lists of tiles without repetition *)

\* Ranks in a finite linear order: every element has another one, and they are
\* the numbers below the size of the set.
LEMMA Ranks ==
  ASSUME NEW S, IsFiniteSet(S), NEW below \in [S -> SUBSET S],
         \A i \in S : i \notin below[i],
         \A i, j \in S : i # j => i \in below[j] \/ j \in below[i],
         \A i, j \in S : i \in below[j] => below[i] \subseteq below[j]
  PROVE  /\ Cardinality(S) \in Nat
         /\ \A i \in S : Cardinality(below[i]) \in 0 .. Cardinality(S) - 1
         /\ \A i, j \in S : Cardinality(below[i]) = Cardinality(below[j]) => i = j
         /\ \A k \in 0 .. Cardinality(S) - 1 : \E i \in S : Cardinality(below[i]) = k
<1> DEFINE n == Cardinality(S)
           f == [i \in S |-> Cardinality(below[i])]
<1>1. n \in Nat
  BY FS_CardinalityType
<1>2. ASSUME NEW i \in S
      PROVE  IsFiniteSet(below[i]) /\ Cardinality(below[i]) \in Nat /\ Cardinality(below[i]) < n
  <2>1. below[i] \subseteq S /\ below[i] # S
    OBVIOUS
  <2>2. IsFiniteSet(below[i]) /\ Cardinality(below[i]) <= n /\ Cardinality(below[i]) # n
    BY <2>1, FS_Subset
  <2>3. Cardinality(below[i]) \in Nat
    BY <2>2, FS_CardinalityType
  <2>. QED  BY <1>1, <2>2, <2>3
<1>3. ASSUME NEW i \in S, NEW j \in S, Cardinality(below[i]) = Cardinality(below[j])  PROVE i = j
  <2>1. ASSUME NEW a \in S, NEW b \in S, a \in below[b]
        PROVE  Cardinality(below[a]) # Cardinality(below[b])
    <3>1. below[a] \subseteq below[b] /\ below[a] # below[b]
      BY <2>1
    <3>. QED  BY <1>2, <3>1, FS_Subset
  <2>. QED  BY <1>3, <2>1
<1>4. f \in Injection(S, 0 .. n - 1)
  <2>1. \A i \in S : Cardinality(below[i]) \in 0 .. n - 1
    BY <1>1, <1>2
  <2>. QED  BY <1>3, <2>1 DEF Injection, IsInjective
<1>5. IsFiniteSet(0 .. n - 1) /\ Cardinality(0 .. n - 1) = n
  BY <1>1, FS_Interval
<1>6. f \in Surjection(S, 0 .. n - 1)
  <2> HIDE DEF f, n
  <2>1. Cardinality(S) = Cardinality(0 .. n - 1) <=> f \in Surjection(S, 0 .. n - 1)
    BY <1>4, <1>5, FS_Injection
  <2>. QED  BY <1>5, <2>1 DEF n
<1>7. \A k \in 0 .. n - 1 : \E i \in S : Cardinality(below[i]) = k
  BY <1>6 DEF Surjection
<1>. QED  BY <1>1, <1>2, <1>3, <1>7

\* To list a set by rank is to list every element once.
LEMMA Listing ==
  ASSUME NEW S, IsFiniteSet(S), NEW below \in [S -> SUBSET S],
         \A i \in S : i \notin below[i],
         \A i, j \in S : i # j => i \in below[j] \/ j \in below[i],
         \A i, j \in S : i \in below[j] => below[i] \subseteq below[j],
         NEW L \in [1 .. Cardinality(S) -> S],
         \A k \in 1 .. Cardinality(S) : Cardinality(below[L[k]]) = k - 1
  PROVE  L \in Seq(S) /\ Len(L) = Cardinality(S) /\ IsInjective(L) /\ Range(L) = S
<1> DEFINE n == Cardinality(S)
<1>1. /\ n \in Nat
      /\ \A i \in S : Cardinality(below[i]) \in 0 .. n - 1
      /\ \A i, j \in S : Cardinality(below[i]) = Cardinality(below[j]) => i = j
  BY Ranks
<1>2. L \in [1 .. n -> S] /\ \A k \in 1 .. n : Cardinality(below[L[k]]) = k - 1
  OBVIOUS
<1> HIDE DEF n
<1>3. L \in Seq(S) /\ Len(L) = n /\ DOMAIN L = 1 .. n
  BY <1>1, <1>2
<1>4. IsInjective(L)
  <2>1. ASSUME NEW a \in 1 .. n, NEW b \in 1 .. n, L[a] = L[b]  PROVE a = b
    <3>1. a - 1 = b - 1
      BY <1>2, <2>1
    <3>. QED  BY <1>1, <3>1
  <2>. QED  BY <1>3, <2>1 DEF IsInjective
<1>5. Range(L) = S
  <2>1. ASSUME NEW i \in S  PROVE \E k \in 1 .. n : L[k] = i
    <3> DEFINE k == Cardinality(below[i]) + 1
    <3>1. k \in 1 .. n /\ k - 1 = Cardinality(below[i])
      BY <1>1
    <3>2. L[k] \in S /\ Cardinality(below[L[k]]) = k - 1
      BY <1>2, <3>1
    <3> HIDE DEF k
    <3>3. L[k] = i
      BY <1>1, <3>1, <3>2
    <3>. QED  BY <3>1, <3>3
  <2>2. \A k \in 1 .. n : L[k] \in S
    BY <1>2
  <2>. QED  BY <1>3, <2>1, <2>2 DEF Range
<1>. QED  BY <1>3, <1>4, <1>5 DEF n

\* What lies at listed places of a row without repetition.
LEMMA PlacesRead ==
  ASSUME NEW T, NEW row \in Seq(T), IsInjective(row), NEW S \in SUBSET DOMAIN row,
         NEW L \in Seq(S), IsInjective(L), Range(L) = S,
         NEW r \in [1 .. Len(L) -> T], \A k \in 1 .. Len(L) : r[k] = row[L[k]]
  PROVE  r \in Seq(T) /\ IsInjective(r) /\ Range(r) = {row[i] : i \in S}
<1>1. /\ Len(L) \in Nat /\ DOMAIN L = 1 .. Len(L) /\ DOMAIN r = 1 .. Len(L)
      /\ \A k \in 1 .. Len(L) : L[k] \in S /\ L[k] \in DOMAIN row /\ row[L[k]] \in T
  OBVIOUS
<1>2. r \in Seq(T)
  BY <1>1
<1>3. IsInjective(r)
  BY <1>1 DEF IsInjective
<1>4. Range(r) = {row[i] : i \in S}
  <2>1. S = {L[k] : k \in 1 .. Len(L)}
    BY <1>1 DEF Range
  <2>2. \A k \in 1 .. Len(L) : r[k] = row[L[k]]
    OBVIOUS
  <2>. QED  BY <1>1, <2>1, <2>2 DEF Range
<1>. QED  BY <1>2, <1>3, <1>4

\* Filtering a tile out of a row without repetition takes that tile only.
LEMMA WithoutTile ==
  ASSUME NEW T, NEW row \in Seq(T), IsInjective(row), NEW t
  PROVE  /\ Without(row, t) \in Seq(T) /\ IsInjective(Without(row, t))
         /\ Range(Without(row, t)) = Range(row) \ {t}
<1> DEFINE kept == {i \in DOMAIN row : row[i] # t}
           below == [i \in kept |-> {j \in kept : j < i}]
           place(k) == CHOOSE i \in kept : Cardinality({j \in kept : j < i}) = k - 1
           L == [k \in 1 .. Cardinality(kept) |-> place(k)]
<1>1. Len(row) \in Nat /\ DOMAIN row = 1 .. Len(row) /\ kept \subseteq 1 .. Len(row)
  OBVIOUS
<1>2. IsFiniteSet(kept)
  <2>1. IsFiniteSet(1 .. Len(row))
    BY <1>1, FS_Interval
  <2> HIDE DEF kept
  <2>. QED  BY <1>1, <2>1, FS_Subset
<1>3. /\ below \in [kept -> SUBSET kept]
      /\ \A i \in kept : i \notin below[i]
      /\ \A i, j \in kept : i # j => i \in below[j] \/ j \in below[i]
      /\ \A i, j \in kept : i \in below[j] => below[i] \subseteq below[j]
  <2>1. \A i \in kept : i \in Int
    BY <1>1
  <2> HIDE DEF kept
  <2>. QED  BY <2>1
<1>4. L \in Seq(kept) /\ Len(L) = Cardinality(kept) /\ IsInjective(L) /\ Range(L) = kept
  <2>1. \A i \in kept : below[i] = {j \in kept : j < i}
    OBVIOUS
  <2> HIDE DEF below, kept
  <2>2. ASSUME NEW k \in 1 .. Cardinality(kept)
        PROVE  place(k) \in kept /\ Cardinality(below[place(k)]) = k - 1
    <3>1. k - 1 \in 0 .. Cardinality(kept) - 1
      BY <1>2, <1>3, Ranks
    <3>2. \E i \in kept : Cardinality(below[i]) = k - 1
      BY <1>2, <1>3, <3>1, Ranks
    <3>3. \E i \in kept : Cardinality({j \in kept : j < i}) = k - 1
      BY <2>1, <3>2
    <3>4. place(k) \in kept /\ Cardinality({j \in kept : j < place(k)}) = k - 1
      BY <3>3
    <3> HIDE DEF place
    <3>. QED  BY <2>1, <3>4
  <2> HIDE DEF place
  <2>3. L \in [1 .. Cardinality(kept) -> kept] /\ \A k \in 1 .. Cardinality(kept) : L[k] = place(k)
    BY <2>2
  <2> HIDE DEF L
  <2>4. \A k \in 1 .. Cardinality(kept) : Cardinality(below[L[k]]) = k - 1
    BY <2>2, <2>3
  <2>. QED  BY <1>2, <1>3, <2>3, <2>4, Listing
<1>5. Without(row, t) = [k \in 1 .. Len(L) |-> row[L[k]]]
  <2>1. Without(row, t) = [k \in 1 .. Cardinality(kept) |-> row[place(k)]]
    BY DEF Without
  <2>2. L = [k \in 1 .. Cardinality(kept) |-> place(k)]
    OBVIOUS
  <2> HIDE DEF L, kept, place
  <2>. QED  BY <1>4, <2>1, <2>2
<1>6. {row[i] : i \in kept} = Range(row) \ {t}
  BY DEF Range
<1> HIDE DEF L, kept
<1>7. kept \in SUBSET DOMAIN row
  BY DEF kept
<1> DEFINE r == Without(row, t)
<1> HIDE DEF r
<1>8. r \in [1 .. Len(L) -> T] /\ \A k \in 1 .. Len(L) : r[k] = row[L[k]]
  <2>1. \A k \in 1 .. Len(L) : row[L[k]] \in T
    BY <1>1, <1>4, <1>7
  <2>2. r = [k \in 1 .. Len(L) |-> row[L[k]]]
    BY <1>5 DEF r
  <2>. QED  BY <2>1, <2>2
<1>9. r \in Seq(T) /\ IsInjective(r) /\ Range(r) = {row[i] : i \in kept}
  BY <1>4, <1>7, <1>8, PlacesRead
<1>. QED  BY <1>6, <1>9 DEF r, kept

\* The rack a draft begins with holds every tile of the seat's once.
LEMMA RackListed ==
  ASSUME NEW rack \in SUBSET Tile
  PROVE  /\ InRackOrder(rack) \in Seq(rack) /\ IsInjective(InRackOrder(rack))
         /\ Range(InRackOrder(rack)) = rack
<1> DEFINE below == [i \in rack |-> {j \in rack : j < i}]
           place(k) == CHOOSE t \in rack : Cardinality({u \in rack : u < t}) = k - 1
           L == [k \in 1 .. Cardinality(rack) |-> place(k)]
<1>1. IsFiniteSet(rack) /\ \A t \in rack : t \in Int
  <2>1. IsFiniteSet(Tile) /\ \A t \in Tile : t \in Int
    BY DealAssumption, FS_Interval DEF Tile
  <2>. QED  BY <2>1, FS_Subset
<1>2. /\ below \in [rack -> SUBSET rack]
      /\ \A i \in rack : i \notin below[i]
      /\ \A i, j \in rack : i # j => i \in below[j] \/ j \in below[i]
      /\ \A i, j \in rack : i \in below[j] => below[i] \subseteq below[j]
  BY <1>1
<1>3. L \in Seq(rack) /\ IsInjective(L) /\ Range(L) = rack
  <2>1. \A i \in rack : below[i] = {j \in rack : j < i}
    OBVIOUS
  <2> HIDE DEF below
  <2>2. ASSUME NEW k \in 1 .. Cardinality(rack)
        PROVE  place(k) \in rack /\ Cardinality(below[place(k)]) = k - 1
    <3>1. k - 1 \in 0 .. Cardinality(rack) - 1
      BY <1>1, <1>2, Ranks
    <3>2. \E i \in rack : Cardinality(below[i]) = k - 1
      BY <1>1, <1>2, <3>1, Ranks
    <3>3. \E i \in rack : Cardinality({j \in rack : j < i}) = k - 1
      BY <2>1, <3>2
    <3>4. place(k) \in rack /\ Cardinality({j \in rack : j < place(k)}) = k - 1
      BY <3>3
    <3> HIDE DEF place
    <3>. QED  BY <2>1, <3>4
  <2> HIDE DEF place
  <2>3. L \in [1 .. Cardinality(rack) -> rack] /\ \A k \in 1 .. Cardinality(rack) : L[k] = place(k)
    BY <2>2
  <2> HIDE DEF L
  <2>4. \A k \in 1 .. Cardinality(rack) : Cardinality(below[L[k]]) = k - 1
    BY <2>2, <2>3
  <2>5. IsFiniteSet(rack)
    BY <1>1
  <2>6. L \in Seq(rack) /\ Len(L) = Cardinality(rack) /\ IsInjective(L) /\ Range(L) = rack
    BY ONLY <1>2, <2>3, <2>4, <2>5, Listing
  <2>. QED  BY <2>6
<1>4. InRackOrder(rack) = L
  BY DEF InRackOrder
<1> HIDE DEF L
<1>. QED  BY <1>3, <1>4

\* Sorting a rack changes the order only.
LEMMA SortedRack ==
  ASSUME NEW rack \in Seq(Tile), IsInjective(rack)
  PROVE  LET place(k) == CHOOSE i \in DOMAIN rack :
                    Cardinality({j \in DOMAIN rack : ComesBefore(rack, j, i)}) = k - 1
             r == [k \in DOMAIN rack |-> rack[place(k)]]
         IN  r \in Seq(Tile) /\ IsInjective(r) /\ Range(r) = Range(rack)
<1> DEFINE S == DOMAIN rack
           below == [i \in S |-> {j \in S : ComesBefore(rack, j, i)}]
           place(k) == CHOOSE i \in S : Cardinality({j \in S : ComesBefore(rack, j, i)}) = k - 1
           L == [k \in 1 .. Cardinality(S) |-> place(k)]
           r == [k \in S |-> rack[place(k)]]
<1>1. Len(rack) \in Nat /\ S = 1 .. Len(rack)
  OBVIOUS
<1>2. IsFiniteSet(S) /\ Cardinality(S) = Len(rack)
  BY <1>1, FS_Interval
<1>3. \A i \in S : i \in Int /\ SortKey(rack[i]) \in Int
  <2>1. \A t \in Tile : SortKey(t) \in Int
    BY CatalogAssumption DEF SortKey
  <2>. QED  BY <1>1, <2>1
<1>4. /\ below \in [S -> SUBSET S]
      /\ \A i \in S : i \notin below[i]
      /\ \A i, j \in S : i # j => i \in below[j] \/ j \in below[i]
      /\ \A i, j \in S : i \in below[j] => below[i] \subseteq below[j]
  <2> HIDE DEF S
  <2>. QED  BY <1>3 DEF ComesBefore
<1>5. L \in Seq(S) /\ Len(L) = Cardinality(S) /\ IsInjective(L) /\ Range(L) = S
  <2>1. \A i \in S : below[i] = {j \in S : ComesBefore(rack, j, i)}
    OBVIOUS
  <2> HIDE DEF below, S
  <2>2. ASSUME NEW k \in 1 .. Cardinality(S)
        PROVE  place(k) \in S /\ Cardinality(below[place(k)]) = k - 1
    <3>1. k - 1 \in 0 .. Cardinality(S) - 1
      BY <1>2, <1>4, Ranks
    <3>2. \E i \in S : Cardinality(below[i]) = k - 1
      BY <1>2, <1>4, <3>1, Ranks
    <3>3. \E i \in S : Cardinality({j \in S : ComesBefore(rack, j, i)}) = k - 1
      BY <2>1, <3>2
    <3>4. place(k) \in S /\ Cardinality({j \in S : ComesBefore(rack, j, place(k))}) = k - 1
      BY <3>3
    <3> HIDE DEF place
    <3>. QED  BY <2>1, <3>4
  <2> HIDE DEF place
  <2>3. L \in [1 .. Cardinality(S) -> S] /\ \A k \in 1 .. Cardinality(S) : L[k] = place(k)
    BY <2>2
  <2> HIDE DEF L
  <2>4. \A k \in 1 .. Cardinality(S) : Cardinality(below[L[k]]) = k - 1
    BY <2>2, <2>3
  <2>. QED  BY <1>2, <1>4, <2>3, <2>4, Listing
<1> HIDE DEF place
<1>6. r = [k \in 1 .. Len(L) |-> rack[L[k]]]
  <2>1. S = 1 .. Len(L)
    BY <1>1, <1>2, <1>5
  <2>2. \A k \in 1 .. Cardinality(S) : L[k] = place(k)
    OBVIOUS
  <2> HIDE DEF L, S
  <2>. QED  BY <1>5, <2>1, <2>2
<1>7. {rack[i] : i \in S} = Range(rack)
  BY DEF Range
<1> HIDE DEF L, r, S
<1>8. r \in [1 .. Len(L) -> Tile] /\ \A k \in 1 .. Len(L) : r[k] = rack[L[k]]
  <2>1. \A k \in 1 .. Len(L) : rack[L[k]] \in Tile
    BY <1>1, <1>5 DEF S
  <2>. QED  BY <1>6, <2>1
<1>9. S \in SUBSET DOMAIN rack
  BY DEF S
<1>10. r \in Seq(Tile) /\ IsInjective(r) /\ Range(r) = {rack[i] : i \in S}
  BY <1>5, <1>8, <1>9, PlacesRead
<1>. QED  BY <1>7, <1>10 DEF r, place, S

-----------------------------------------------------------------------------
(* What a draft holds *)

\* A rack and rows that hold no tile twice, and hold all of `tiles`.
Keeps(rack, rows, tiles) ==
  /\ rack \in Seq(Tile) /\ IsInjective(rack)
  /\ rows \in SUBSET Seq(Tile) /\ IsFiniteSet(rows)
  /\ \A row \in rows : IsInjective(row) /\ Range(row) \cap Range(rack) = {}
  /\ \A r1, r2 \in rows : r1 # r2 => Range(r1) \cap Range(r2) = {}
  /\ tiles \subseteq Range(rack) \cup UNION {Range(row) : row \in rows}

\* A row is taken away with its tiles.
LEMMA RowDropped ==
  ASSUME NEW rack, NEW rows, NEW tiles, Keeps(rack, rows, tiles), NEW row
  PROVE  /\ Keeps(rack, rows \ {row}, tiles \ Range(row))
         /\ row \in rows => \A r \in rows \ {row} : Range(r) \cap Range(row) = {}
<1>1. IsFiniteSet(rows \ {row})
  BY FS_Subset DEF Keeps
<1>2. tiles \ Range(row) \subseteq Range(rack) \cup UNION {Range(r) : r \in rows \ {row}}
  BY DEF Keeps
<1>. QED  BY <1>1, <1>2 DEF Keeps

\* A row is added whose tiles are nowhere yet.
LEMMA RowPut ==
  ASSUME NEW rack, NEW rows, NEW tiles, Keeps(rack, rows, tiles),
         NEW row \in Seq(Tile), IsInjective(row), Range(row) \cap Range(rack) = {},
         \A r \in rows : Range(r) \cap Range(row) = {}
  PROVE  Keeps(rack, rows \cup {row}, tiles \cup Range(row))
<1>1. IsFiniteSet(rows \cup {row})
  BY FS_AddElement DEF Keeps
<1>2. tiles \cup Range(row) \subseteq Range(rack) \cup UNION {Range(r) : r \in rows \cup {row}}
  BY DEF Keeps
<1>. QED  BY <1>1, <1>2 DEF Keeps

\* A tile at the end of a row it is not in.
LEMMA TileAppended ==
  ASSUME NEW row \in Seq(Tile), IsInjective(row), NEW t \in Tile, t \notin Range(row)
  PROVE  /\ Append(row, t) \in Seq(Tile) /\ IsInjective(Append(row, t))
         /\ Range(Append(row, t)) = Range(row) \cup {t}
<1> DEFINE r == Append(row, t)
           n == Len(row)
<1>1. /\ n \in Nat /\ DOMAIN row = 1 .. n /\ r \in Seq(Tile) /\ DOMAIN r = 1 .. n + 1
      /\ r[n + 1] = t /\ \A i \in 1 .. n : r[i] = row[i]
  OBVIOUS
<1> HIDE DEF r
<1>2. \A i \in 1 .. n + 1 : i \in 1 .. n \/ i = n + 1
  BY <1>1
<1>3. \A i \in 1 .. n : i \in 1 .. n + 1 /\ row[i] # t
  BY <1>1 DEF Range
<1>4. n + 1 \in 1 .. n + 1
  BY <1>1
<1> HIDE DEF n
<1>5. IsInjective(r)
  BY <1>1, <1>2, <1>3 DEF IsInjective
<1>6. Range(r) = Range(row) \cup {t}
  BY <1>1, <1>2, <1>3, <1>4 DEF Range
<1>. QED  BY <1>1, <1>5, <1>6 DEF r

\* A tile is taken out wherever it lies.
LEMMA TileCleared ==
  ASSUME NEW rack, NEW rows, NEW tiles, Keeps(rack, rows, tiles), NEW t
  PROVE  LET rest == {Without(row, t) : row \in rows} \ {<<>>}
         IN  /\ Keeps(Without(rack, t), rest, tiles \ {t})
             /\ t \notin Range(Without(rack, t)) /\ \A r \in rest : t \notin Range(r)
<1> DEFINE W(row) == Without(row, t)
           all == {W(row) : row \in rows}
           some == all \ {<<>>}
           f == [row \in rows |-> W(row)]
<1>1. /\ W(rack) \in Seq(Tile) /\ IsInjective(W(rack)) /\ Range(W(rack)) = Range(rack) \ {t}
  BY WithoutTile DEF Keeps
<1>2. \A row \in rows : /\ W(row) \in Seq(Tile) /\ IsInjective(W(row))
                        /\ Range(W(row)) = Range(row) \ {t}
  BY WithoutTile DEF Keeps
<1> HIDE DEF W
<1>3. IsFiniteSet(some)
  <2>1. f \in Surjection(rows, all)
    BY DEF Surjection
  <2>2. IsFiniteSet(all)
    <3> HIDE DEF f, all
    <3>. QED  BY <2>1, FS_Surjection DEF Keeps
  <2>. QED  BY <2>2, FS_Subset
<1>4. \A r \in some : \E row \in rows : r = W(row)
  OBVIOUS
<1>5. \A r \in some : /\ r \in Seq(Tile) /\ IsInjective(r) /\ t \notin Range(r)
                      /\ Range(r) \cap Range(W(rack)) = {}
  BY <1>1, <1>2, <1>4 DEF Keeps
<1>6. \A r1, r2 \in some : r1 # r2 => Range(r1) \cap Range(r2) = {}
  <2> SUFFICES ASSUME NEW a \in rows, NEW b \in rows, W(a) # W(b)
               PROVE  Range(W(a)) \cap Range(W(b)) = {}
    BY <1>4
  <2>1. Range(a) \cap Range(b) = {}
    BY DEF Keeps
  <2>. QED  BY <1>2, <2>1
<1>7. tiles \ {t} \subseteq Range(W(rack)) \cup UNION {Range(r) : r \in some}
  <2> SUFFICES ASSUME NEW x \in tiles, x # t, x \notin Range(rack)
               PROVE  \E r \in some : x \in Range(r)
    BY <1>1
  <2>1. PICK row \in rows : x \in Range(row)
    BY DEF Keeps
  <2>2. x \in Range(W(row))
    BY <1>2, <2>1
  <2>3. W(row) # <<>>
    BY <2>2 DEF Range
  <2>. QED  BY <2>2, <2>3
<1> HIDE DEF some
<1>8. Keeps(W(rack), some, tiles \ {t})
  BY <1>1, <1>3, <1>5, <1>6, <1>7 DEF Keeps
<1>. QED  BY <1>1, <1>5, <1>8 DEF some, W

\* Swapping two places of a row changes the order only.
LEMMA PlacesSwapped ==
  ASSUME NEW row \in Seq(Tile), IsInjective(row), NEW i \in DOMAIN row, NEW j \in DOMAIN row
  PROVE  /\ Swapped(row, i, j) \in Seq(Tile) /\ IsInjective(Swapped(row, i, j))
         /\ Range(Swapped(row, i, j)) = Range(row)
<1> DEFINE r == Swapped(row, i, j)
           n == Len(row)
<1>1. n \in Nat /\ DOMAIN row = 1 .. n /\ row \in [1 .. n -> Tile]
  OBVIOUS
<1>2. r = [[row EXCEPT ![i] = row[j]] EXCEPT ![j] = row[i]]
  BY DEF Swapped
<1>3. /\ r \in [1 .. n -> Tile]
      /\ \A k \in 1 .. n : r[k] = IF k = j THEN row[i] ELSE IF k = i THEN row[j] ELSE row[k]
  BY <1>1, <1>2
<1> HIDE DEF r
<1>4. r \in Seq(Tile) /\ DOMAIN r = 1 .. n
  BY <1>1, <1>3
<1> HIDE DEF n
<1>5. IsInjective(r)
  BY <1>1, <1>3, <1>4 DEF IsInjective
<1>6. Range(r) = Range(row)
  <2>1. \A k \in 1 .. n : \E m \in 1 .. n : r[k] = row[m]
    BY <1>1, <1>3
  <2>2. \A m \in 1 .. n : \E k \in 1 .. n : r[k] = row[m]
    <3> SUFFICES ASSUME NEW m \in 1 .. n  PROVE \E k \in 1 .. n : r[k] = row[m]
      OBVIOUS
    <3>1. r[j] = row[i]
      BY <1>1, <1>3
    <3>2. r[i] = row[j]
      BY <1>1, <1>3
    <3>3. m # i /\ m # j => r[m] = row[m]
      BY <1>3
    <3>. QED  BY <1>1, <3>1, <3>2, <3>3
  <2>3. Range(r) = {r[k] : k \in 1 .. n} /\ Range(row) = {row[k] : k \in 1 .. n}
    BY <1>1, <1>4 DEF Range
  <2>. QED  BY <2>1, <2>2, <2>3
<1>. QED  BY <1>4, <1>5, <1>6 DEF r

\* How often a tile lies in a list that repeats none.
LEMMA CopiesInList ==
  ASSUME NEW row \in Seq(Tile), IsInjective(row), NEW t
  PROVE  Cardinality({i \in DOMAIN row : row[i] = t}) = IF t \in Range(row) THEN 1 ELSE 0
<1> DEFINE P == {i \in DOMAIN row : row[i] = t}
<1>1. CASE t \in Range(row)
  <2>1. PICK i \in DOMAIN row : row[i] = t
    BY <1>1 DEF Range
  <2>2. P = {i}
    BY <2>1 DEF IsInjective
  <2>. QED  BY <1>1, <2>2, FS_Singleton
<1>2. CASE t \notin Range(row)
  <2>1. P = {}
    BY <1>2 DEF Range
  <2>. QED  BY <1>2, <2>1, FS_EmptySet
<1>. QED  BY <1>1, <1>2

\* A rack and rows that keep their tiles hold each once, and no tile twice.
LEMMA CopiesCounted ==
  ASSUME NEW d, NEW tiles, Keeps(d.rack, d.sets, tiles), NEW t
  PROVE  Copies(d, t) \in {0, 1} /\ (t \in tiles => Copies(d, t) = 1)
<1> DEFINE rows == d.sets
           n(row) == Cardinality({i \in DOMAIN row : row[i] = t})
           v == [row \in rows |-> n(row)]
           Rec(F) == F = [s \in SUBSET rows |->
                            IF s = {} THEN 0 ELSE n(Pick(s)) + F[s \ {Pick(s)}]]
           sums == CHOOSE F : Rec(F)
<1>1. IsFiniteSet(rows) /\ rows \in SUBSET Seq(Tile)
  BY DEF Keeps
<1>2. \A row \in rows : v[row] = IF t \in Range(row) THEN 1 ELSE 0
  BY CopiesInList DEF Keeps
<1>3. Adds(sums, v, rows)
  <2>1. \A s \in SUBSET rows : s # {} => v[Pick(s)] = n(Pick(s))
    BY DEF Pick
  <2>2. ASSUME NEW F  PROVE Rec(F) <=> Adds(F, v, rows)
    <3>1. [s \in SUBSET rows |-> IF s = {} THEN 0 ELSE n(Pick(s)) + F[s \ {Pick(s)}]]
          = [s \in SUBSET rows |-> IF s = {} THEN 0 ELSE v[Pick(s)] + F[s \ {Pick(s)}]]
      <4> HIDE DEF v, n, rows
      <4>. QED  BY <2>1
    <3> HIDE DEF v, n, rows
    <3>. QED  BY <3>1 DEF Adds
  <2>3. \E F : Adds(F, v, rows)
    BY <1>1, SumExists
  <2> HIDE DEF Rec, v, rows
  <2>4. Rec(sums)
    BY <2>2, <2>3
  <2>. QED  BY <2>2, <2>4
<1>4. MapThenSumSet(n, rows) = sums[rows]
  BY DEF MapThenSumSet, MapThenFoldSet, Pick
<1>5. Copies(d, t) = n(d.rack) + MapThenSumSet(n, rows)
  BY DEF Copies
<1>6. n(d.rack) = IF t \in Range(d.rack) THEN 1 ELSE 0
  BY CopiesInList DEF Keeps
<1> HIDE DEF sums, Rec, v, n, rows
\* The sum over rows none of which has the tile is nought.
<1>7. ASSUME NEW s \in SUBSET rows, \A row \in s : t \notin Range(row)
      PROVE  sums[s] = 0
  <2>1. PICK G : Adds(G, v, s)
    BY <1>1, FS_Subset, SumExists
  <2>2. IsFiniteSet(s) /\ \A row \in s : v[row] \in Int /\ v[row] >= 0 /\ v[row] <= 0
    BY <1>1, <1>2, <1>7, FS_Subset
  <2>3. G[s] \in Int /\ G[s] >= 0 /\ G[s] <= 0
    BY <2>1, <2>2, SumSign
  <2>4. sums[s] = G[s]
    BY <1>3, <2>1, <2>2, SameSum
  <2>. QED  BY <2>3, <2>4
<1>8. CASE \A row \in rows : t \notin Range(row)
  <2>1. sums[rows] = 0
    BY <1>7, <1>8
  <2>2. t \in tiles => t \in Range(d.rack)
    BY <1>8 DEF Keeps, rows
  <2>. QED  BY <1>4, <1>5, <1>6, <2>1, <2>2
<1>9. ASSUME NEW row \in rows, t \in Range(row)
      PROVE  Copies(d, t) = 1
  <2>1. t \notin Range(d.rack) /\ \A r \in rows \ {row} : t \notin Range(r)
    BY <1>9 DEF Keeps, rows
  <2>2. sums[rows \ {row}] = 0
    BY <1>7, <2>1
  <2>3. \A r \in rows : v[r] \in Int
    BY <1>2
  <2>4. sums[rows] = v[row] + sums[rows \ {row}]
    BY <1>1, <1>3, <2>3, SumSplits
  <2>. QED  BY <1>2, <1>4, <1>5, <1>6, <1>9, <2>1, <2>2, <2>4
<1>. QED  BY <1>8, <1>9

-----------------------------------------------------------------------------
(* The edits *)

DraftState ==
  [rack : Seq(Tile), sets : SUBSET Seq(Tile),
   past : Seq([rack : Seq(Tile), sets : SUBSET Seq(Tile)]), from : Nat \cup {-1}]

\* A draft keeps the tiles, and so does every draft Undo can go back to.
DraftKeeps(d, tiles) ==
  /\ d \in DraftState /\ Keeps(d.rack, d.sets, tiles)
  /\ \A i \in DOMAIN d.past : Keeps(d.past[i].rack, d.past[i].sets, tiles)

\* A tile goes back to the rack.
LEMMA MoveToRackKeeps ==
  ASSUME NEW d, NEW tiles, DraftKeeps(d, tiles), NEW t \in Tile
  PROVE  LET e == MoveToRack(d, t)
         IN  e \in DraftState /\ Keeps(e.rack, e.sets, tiles) /\ e.from = d.from
<1> DEFINE rack == Without(d.rack, t)
           rows == {Without(row, t) : row \in d.sets} \ {<<>>}
           e == MoveToRack(d, t)
<1>1. /\ Keeps(rack, rows, tiles \ {t})
      /\ t \notin Range(rack) /\ \A r \in rows : t \notin Range(r)
  BY TileCleared DEF DraftKeeps
<1>2. d \in DraftState
  BY DEF DraftKeeps
<1> HIDE DEF rack, rows
<1>3. /\ Append(rack, t) \in Seq(Tile) /\ IsInjective(Append(rack, t))
      /\ Range(Append(rack, t)) = Range(rack) \cup {t}
  BY <1>1, TileAppended DEF Keeps
<1>4. e = [d EXCEPT !.rack = Append(rack, t), !.sets = rows]
  BY <1>2 DEF MoveToRack, RemoveTileFromEverywhere, DraftState, rack, rows
<1> HIDE DEF e
<1>5. e.rack = Append(rack, t) /\ e.sets = rows /\ e \in DraftState /\ e.from = d.from
  BY <1>1, <1>2, <1>3, <1>4 DEF DraftState, Keeps
<1>6. Keeps(Append(rack, t), rows, tiles)
  BY <1>1, <1>3 DEF Keeps
<1>. QED  BY <1>5, <1>6 DEF e

\* A tile put down as a set of its own.
LEMMA MoveToNewSetKeeps ==
  ASSUME NEW d, NEW tiles, DraftKeeps(d, tiles), NEW t \in Tile
  PROVE  LET e == MoveToNewSet(d, t)
         IN  e \in DraftState /\ Keeps(e.rack, e.sets, tiles) /\ e.from = d.from
<1> DEFINE rack == Without(d.rack, t)
           rows == {Without(row, t) : row \in d.sets} \ {<<>>}
           new == <<t>>
           e == MoveToNewSet(d, t)
<1>1. /\ Keeps(rack, rows, tiles \ {t})
      /\ t \notin Range(rack) /\ \A r \in rows : t \notin Range(r)
  BY TileCleared DEF DraftKeeps
<1>2. d \in DraftState
  BY DEF DraftKeeps
<1> HIDE DEF rack, rows
<1>3. new \in Seq(Tile) /\ IsInjective(new) /\ Range(new) = {t}
  BY DEF IsInjective, Range
<1> HIDE DEF new
<1>4. e = [d EXCEPT !.rack = rack, !.sets = rows \cup {new}]
  BY <1>2 DEF MoveToNewSet, RemoveTileFromEverywhere, DraftState, rack, rows, new
<1> HIDE DEF e
<1>5. e.rack = rack /\ e.sets = rows \cup {new} /\ e \in DraftState /\ e.from = d.from
  BY <1>1, <1>2, <1>3, <1>4 DEF DraftState, Keeps
<1>6. Keeps(rack, rows \cup {new}, (tiles \ {t}) \cup {t})
  BY <1>1, <1>3, RowPut
<1>7. Keeps(rack, rows \cup {new}, tiles)
  BY <1>6 DEF Keeps
<1>. QED  BY <1>5, <1>7 DEF e

\* A tile put at the end of a set, which is made again if it had only the tile.
LEMMA MoveToSetKeeps ==
  ASSUME NEW d, NEW tiles, DraftKeeps(d, tiles), NEW t \in Tile, NEW row \in d.sets
  PROVE  LET e == MoveToSet(d, t, row)
         IN  e \in DraftState /\ Keeps(e.rack, e.sets, tiles) /\ e.from = d.from
<1> DEFINE rack == Without(d.rack, t)
           rows == {Without(r, t) : r \in d.sets} \ {<<>>}
           rest == Without(row, t)
           new == Append(rest, t)
           e == MoveToSet(d, t, row)
<1>1. /\ Keeps(rack, rows, tiles \ {t})
      /\ t \notin Range(rack) /\ \A r \in rows : t \notin Range(r)
  BY TileCleared DEF DraftKeeps
<1>2. d \in DraftState
  BY DEF DraftKeeps
<1>3. rest \in Seq(Tile) /\ IsInjective(rest) /\ t \notin Range(rest)
  BY WithoutTile DEF DraftKeeps, Keeps
<1>4. rest \in rows \/ Range(rest) = {}
  <2>1. rest = <<>> => Range(rest) = {}
    BY DEF Range
  <2>. QED  BY <2>1
<1> HIDE DEF rack, rows, rest
<1>5. new \in Seq(Tile) /\ IsInjective(new) /\ Range(new) = Range(rest) \cup {t}
  BY <1>3, TileAppended
<1> HIDE DEF new
<1>6. e = [d EXCEPT !.rack = rack, !.sets = (rows \ {rest}) \cup {new}]
  BY <1>2 DEF MoveToSet, RemoveTileFromEverywhere, DraftState, rack, rows, rest, new
<1> HIDE DEF e
<1>7. e.rack = rack /\ e.sets = (rows \ {rest}) \cup {new} /\ e \in DraftState /\ e.from = d.from
  BY <1>1, <1>2, <1>5, <1>6 DEF DraftState, Keeps
<1>8. Keeps(rack, rows \ {rest}, (tiles \ {t}) \ Range(rest))
  BY <1>1, RowDropped
<1>9. /\ Range(new) \cap Range(rack) = {}
      /\ \A r \in rows \ {rest} : Range(r) \cap Range(new) = {}
  <2>1. \A r \in rows \ {rest} : Range(r) \cap Range(rest) = {}
    BY <1>1, <1>4, RowDropped
  <2>2. Range(rest) \cap Range(rack) = {}
    BY <1>1, <1>4 DEF Keeps
  <2>. QED  BY <1>1, <1>5, <2>1, <2>2
<1>10. Keeps(rack, (rows \ {rest}) \cup {new}, ((tiles \ {t}) \ Range(rest)) \cup Range(new))
  BY <1>5, <1>8, <1>9, RowPut
<1>11. Keeps(rack, (rows \ {rest}) \cup {new}, tiles)
  BY <1>5, <1>10 DEF Keeps
<1>. QED  BY <1>7, <1>11 DEF e

\* Two tiles of a set change places.
LEMMA ReorderInSetKeeps ==
  ASSUME NEW d, NEW tiles, DraftKeeps(d, tiles), NEW row \in d.sets,
         NEW i \in DOMAIN row, NEW j \in DOMAIN row
  PROVE  LET e == ReorderInSet(d, row, i, j)
         IN  e \in DraftState /\ Keeps(e.rack, e.sets, tiles) /\ e.from = d.from
<1> DEFINE rows == d.sets
           new == Swapped(row, i, j)
           e == ReorderInSet(d, row, i, j)
<1>1. d \in DraftState /\ Keeps(d.rack, rows, tiles)
  BY DEF DraftKeeps
<1>2. row \in Seq(Tile) /\ IsInjective(row) /\ Range(row) \cap Range(d.rack) = {}
  BY DEF DraftKeeps, Keeps
<1>3. new \in Seq(Tile) /\ IsInjective(new) /\ Range(new) = Range(row)
  BY <1>2, PlacesSwapped
<1>4. e = [d EXCEPT !.sets = (rows \ {row}) \cup {new}]
  BY DEF ReorderInSet
<1> HIDE DEF new, e
<1>5. e.rack = d.rack /\ e.sets = (rows \ {row}) \cup {new} /\ e \in DraftState /\ e.from = d.from
  BY <1>1, <1>3, <1>4 DEF DraftState
<1>6. /\ Keeps(d.rack, rows \ {row}, tiles \ Range(row))
      /\ \A r \in rows \ {row} : Range(r) \cap Range(row) = {}
  BY <1>1, RowDropped
<1> HIDE DEF rows
<1>7. Keeps(d.rack, (rows \ {row}) \cup {new}, (tiles \ Range(row)) \cup Range(row))
  BY <1>2, <1>3, <1>6, RowPut
<1>8. Keeps(d.rack, (rows \ {row}) \cup {new}, tiles)
  BY <1>7 DEF Keeps
<1>. QED  BY <1>5, <1>8 DEF e

\* The rack is sorted.
LEMMA SortRackKeeps ==
  ASSUME NEW d, NEW tiles, DraftKeeps(d, tiles)
  PROVE  LET e == SortRack(d)
         IN  e \in DraftState /\ Keeps(e.rack, e.sets, tiles) /\ e.from = d.from
<1> DEFINE place(k) == CHOOSE i \in DOMAIN d.rack :
                    Cardinality({j \in DOMAIN d.rack : ComesBefore(d.rack, j, i)}) = k - 1
           r == [k \in DOMAIN d.rack |-> d.rack[place(k)]]
           e == SortRack(d)
<1>1. d \in DraftState /\ Keeps(d.rack, d.sets, tiles) /\ d.rack \in Seq(Tile)
  BY DEF DraftKeeps, Keeps
<1>2. r \in Seq(Tile) /\ IsInjective(r) /\ Range(r) = Range(d.rack)
  BY <1>1, SortedRack DEF Keeps
<1>3. e = [d EXCEPT !.rack = r]
  BY DEF SortRack
<1> HIDE DEF r, e
<1>4. e.rack = r /\ e.sets = d.sets /\ e \in DraftState /\ e.from = d.from
  BY <1>1, <1>2, <1>3 DEF DraftState
<1>. QED  BY <1>1, <1>2, <1>4 DEF Keeps, e

-----------------------------------------------------------------------------
(* The draft and the view it was built from *)

\* The tiles the player of the page has to do with in a game.
MyTiles(g) == g.rack[Me] \cup TableTiles(g)

\* Every version the page can look up was a game no tile was missing from.
HistorySound ==
  /\ DOMAIN history \subseteq Nat /\ db.version \in DOMAIN history
  /\ \A v \in DOMAIN history :
       /\ v <= db.version
       /\ history[v].game \in GameState /\ Intact(history[v].game)

\* What is shown or on its way are versions the page can look up.
ViewsKnown ==
  /\ view # -1 => view \in DOMAIN history
  /\ \A i \in DOMAIN inbox : inbox[i].kind = "state" => inbox[i].version \in DOMAIN history
  /\ \A k \in Slots : fetches[k].stage = "read" => fetches[k].version \in DOMAIN history
  /\ join.stage = "in room" /\ join.version # -1 => join.version \in DOMAIN history

\* The draft holds what it was built from, whatever the player did since.
DraftSound ==
  /\ view = -1 => draft.from = -1
  /\ draft.from # -1 =>
       draft.from \in DOMAIN history /\ DraftKeeps(draft, MyTiles(history[draft.from].game))

TilesSound == HistorySound /\ ViewsKnown /\ DraftSound

\* The draft a view begins with holds the rack and the table.
LEMMA InitialDraftKeeps ==
  ASSUME NEW g \in GameState, Intact(g), NEW v \in Nat
  PROVE  DraftKeeps(InitialDraft(g, Me, v), MyTiles(g))
<1> DEFINE rack == InRackOrder(g.rack[Me])
           rows == g.table
<1>1. g.rack[Me] \in SUBSET Tile
  BY PageAssumption DEF GameState
<1>2. rack \in Seq(Tile) /\ IsInjective(rack) /\ Range(rack) = g.rack[Me]
  BY <1>1, RackListed
<1>3. \A row \in rows : row \in Seq(Tile) /\ IsInjective(row) /\ TilesOf[row] = Range(row)
  BY CatalogAssumption, RowsAssumption DEF Intact
<1>4. \A row \in rows : Range(row) \cap Range(rack) = {}
  BY <1>2, <1>3, PageAssumption DEF Intact, Conserved, TableTiles, TilesIn
<1>5. \A r1, r2 \in rows : r1 # r2 => Range(r1) \cap Range(r2) = {}
  BY <1>3 DEF Intact, Conserved
<1>6. IsFiniteSet(rows)
  <2> DEFINE some == {row \in rows : Range(row) # {}}
             f == [row \in some |-> CHOOSE t \in Range(row) : TRUE]
  <2>1. \A row \in some : f[row] \in Range(row) /\ f[row] \in Tile
    BY <1>3 DEF Range
  <2>2. f \in Injection(some, Tile)
    <3>1. f \in [some -> Tile]
      BY <2>1
    <3>2. \A r1, r2 \in some : f[r1] = f[r2] => r1 = r2
      BY <1>5, <2>1
    <3> HIDE DEF f, some
    <3>. QED  BY <3>1, <3>2 DEF Injection, IsInjective
  <2>3. IsFiniteSet(Tile)
    BY DealAssumption, FS_Interval DEF Tile
  <2>4. IsFiniteSet(some)
    <3> HIDE DEF f, some
    <3>. QED  BY <2>2, <2>3, FS_Injection
  <2>5. \A row \in rows : row \in some \/ row = <<>>
    <3>1. ASSUME NEW row \in rows, Range(row) = {}  PROVE row = <<>>
      <4>1. row \in Seq(Tile) /\ DOMAIN row = {}
        BY <1>3, <3>1 DEF Range
      <4>. QED  BY <4>1
    <3>. QED  BY <3>1
  <2>6. IsFiniteSet(some \cup {<<>>}) /\ rows \subseteq some \cup {<<>>}
    BY <2>4, <2>5, FS_AddElement
  <2>. QED  BY <2>6, FS_Subset
<1>7. MyTiles(g) \subseteq Range(rack) \cup UNION {Range(row) : row \in rows}
  BY <1>2, <1>3 DEF MyTiles, TableTiles, TilesIn
<1> HIDE DEF rack, rows
<1>8. Keeps(rack, rows, MyTiles(g))
  BY <1>2, <1>3, <1>4, <1>5, <1>6, <1>7 DEF Keeps
<1>9. InitialDraft(g, Me, v) = [rack |-> rack, sets |-> rows, past |-> <<>>, from |-> v]
  BY DEF InitialDraft, rack, rows
<1>10. rows \in SUBSET Seq(Tile) /\ <<>> \in Seq([rack : Seq(Tile), sets : SUBSET Seq(Tile)])
  BY <1>3
<1>. QED  BY <1>2, <1>8, <1>9, <1>10 DEF DraftKeeps, DraftState

\* An edit is pushed on the drafts to go back to, which it leaves as they are.
LEMMA EditedKeeps ==
  ASSUME NEW d, NEW tiles, DraftKeeps(d, tiles),
         NEW e \in DraftState, Keeps(e.rack, e.sets, tiles), e.from = d.from
  PROVE  DraftKeeps(Edited(d, e), tiles) /\ Edited(d, e).from = d.from
<1> DEFINE P == [rack : Seq(Tile), sets : SUBSET Seq(Tile)]
           p == [rack |-> d.rack, sets |-> d.sets]
           past == Append(d.past, p)
           n == Len(d.past)
<1>1. d \in DraftState /\ Keeps(d.rack, d.sets, tiles) /\ d.past \in Seq(P)
      /\ \A i \in DOMAIN d.past : Keeps(d.past[i].rack, d.past[i].sets, tiles)
  BY DEF DraftKeeps, DraftState
<1>2. p \in P /\ p.rack = d.rack /\ p.sets = d.sets
  BY DEF DraftKeeps, Keeps
<1> HIDE DEF P, p
<1>3. /\ past \in Seq(P) /\ n \in Nat /\ DOMAIN past = 1 .. n + 1 /\ DOMAIN d.past = 1 .. n
      /\ past[n + 1] = p /\ \A i \in 1 .. n : past[i] = d.past[i]
  BY <1>1, <1>2
<1>4. Edited(d, e) = [e EXCEPT !.past = past]
  BY DEF Edited, p
<1> HIDE DEF past, n
<1>5. \A i \in 1 .. n + 1 : i \in 1 .. n \/ i = n + 1
  BY <1>3
<1>6. \A i \in DOMAIN past : Keeps(past[i].rack, past[i].sets, tiles)
  BY <1>1, <1>2, <1>3, <1>5
<1>7. /\ Edited(d, e) \in DraftState /\ Edited(d, e).past = past
      /\ Edited(d, e).rack = e.rack /\ Edited(d, e).sets = e.sets /\ Edited(d, e).from = e.from
  BY <1>3, <1>4 DEF DraftState, P
<1>. QED  BY <1>6, <1>7 DEF DraftKeeps

\* Undo goes back to a draft that holds the tiles as well.
LEMMA UndoneKeeps ==
  ASSUME NEW d, NEW tiles, DraftKeeps(d, tiles), d.past # <<>>
  PROVE  DraftKeeps(Undone(d), tiles) /\ Undone(d).from = d.from
<1> DEFINE P == [rack : Seq(Tile), sets : SUBSET Seq(Tile)]
           n == Len(d.past)
           last == d.past[n]
           past == SubSeq(d.past, 1, n - 1)
<1>1. d \in DraftState /\ d.past \in Seq(P)
      /\ \A i \in DOMAIN d.past : Keeps(d.past[i].rack, d.past[i].sets, tiles)
  BY DEF DraftKeeps, DraftState
<1> HIDE DEF P
<1>2. n \in Nat /\ n # 0 /\ DOMAIN d.past = 1 .. n /\ n \in 1 .. n
  BY <1>1
<1>3. last \in P /\ Keeps(last.rack, last.sets, tiles)
  BY <1>1, <1>2
<1>4. /\ past \in Seq(P) /\ DOMAIN past = 1 .. n - 1
      /\ \A i \in 1 .. n - 1 : past[i] = d.past[i] /\ i \in 1 .. n
  <2>1. d.past \in Seq(P) /\ n = Len(d.past) /\ n - 1 \in 0 .. n
    BY <1>1, <1>2
  <2>2. past = [i \in 1 .. n - 1 |-> d.past[i]]
    <3>1. past = [i \in 1 .. (n - 1) - 1 + 1 |-> d.past[i + 1 - 1]]
      BY DEF past
    <3>. QED  BY <1>2, <3>1
  <2>3. \A i \in 1 .. n - 1 : d.past[i] \in P /\ i \in 1 .. n
    BY <1>1, <1>2
  <2> HIDE DEF past, n
  <2>. QED  BY <2>1, <2>2, <2>3
<1>5. Undone(d) = [d EXCEPT !.rack = last.rack, !.sets = last.sets, !.past = past]
  BY DEF Undone
<1> HIDE DEF past, last, n
<1>6. \A i \in DOMAIN past : Keeps(past[i].rack, past[i].sets, tiles)
  BY <1>1, <1>2, <1>4
<1>7. /\ Undone(d) \in DraftState /\ Undone(d).past = past
      /\ Undone(d).rack = last.rack /\ Undone(d).sets = last.sets /\ Undone(d).from = d.from
  BY <1>1, <1>3, <1>4, <1>5 DEF DraftState, P
<1>. QED  BY <1>3, <1>6, <1>7 DEF DraftKeeps

-----------------------------------------------------------------------------
(* The history of the page *)

\* No version the page can look up is forgotten or changed.
HistoryKept ==
  HistorySound' /\ \A v \in DOMAIN history : v \in DOMAIN history' /\ history'[v] = history[v]

\* The game of the rows is the one their version names.
LEMMA RowsIntact ==
  ASSUME PageSound, HistorySound
  PROVE  RowsSound(db, {}) /\ db.game \in GameState /\ Intact(db.game)
<1>1. RowsSound(db, {}) /\ history[db.version].game = db.game
  BY DEF PageSound, ServerSound, Snapshot
<1>. QED  BY <1>1 DEF HistorySound, RowsSound, Database

\* Rows that move on to an intact game add a version to the history.
LEMMA HistoryGrows ==
  ASSUME PageSound, HistorySound, NEW d, Becomes(d), Advances(db, d), Intact(d.game)
  PROVE  HistoryKept
<1>1. /\ db.version \in Nat /\ d.version \in Nat /\ db.version <= d.version
      /\ d.game \in GameState /\ db' = d
  BY VersionsAreNaturals, BecomesNamed DEF Advances, RowsSound, Database
<1>2. CASE d.version = db.version
  BY <1>1, <1>2 DEF Becomes, HistorySound, HistoryKept
<1>3. CASE d.version # db.version
  <2>1. /\ DOMAIN history' = DOMAIN history \cup {d.version}
        /\ history'[d.version] = Snapshot(d)
        /\ \A v \in DOMAIN history : v # d.version => history'[v] = history[v]
    BY <1>3 DEF Becomes
  <2>2. \A v \in DOMAIN history : v \in Nat /\ v <= db.version
    BY DEF HistorySound
  <2>3. \A v \in DOMAIN history : v # d.version /\ v <= d.version
    BY <1>1, <1>3, <2>2
  <2>4. history'[d.version].game = d.game
    BY <2>1 DEF Snapshot
  <2>5. HistorySound'
    <3>1. DOMAIN history' \subseteq Nat /\ db'.version \in DOMAIN history'
      BY <1>1, <2>1, <2>2
    <3>2. ASSUME NEW v \in DOMAIN history'
          PROVE  /\ v <= d.version
                 /\ history'[v].game \in GameState /\ Intact(history'[v].game)
      <4>1. CASE v = d.version
        BY <1>1, <2>4, <4>1
      <4>2. CASE v \in DOMAIN history
        BY <2>1, <2>3, <4>2 DEF HistorySound
      <4>. QED  BY <2>1, <4>1, <4>2
    <3>. QED  BY <1>1, <3>1, <3>2 DEF HistorySound
  <2>. QED  BY <2>1, <2>3, <2>5 DEF HistoryKept
<1>. QED  BY <1>2, <1>3

\* The settlement of an overdue turn adds to the history as well.
LEMMA SettlementKept ==
  ASSUME PageSound, HistorySound, Becomes(SettleOverdueTurn(db))
  PROVE  HistoryKept /\ db'.version \in DOMAIN history'
<1>1. Advances(db, SettleOverdueTurn(db)) /\ Intact(SettleOverdueTurn(db).game)
  BY RowsIntact, SettleMoves, SettleKeepsIntact DEF MovesTo
<1>2. HistoryKept
  BY <1>1, HistoryGrows
<1>. QED  BY <1>2 DEF HistoryKept, HistorySound

\* So does a request that applies.
LEMMA RequestKept ==
  ASSUME PageSound, HistorySound, NEW r, WellFormed(r), Applies(db, r), Becomes(Process(db, r))
  PROVE  HistoryKept
<1>1. RowsSound(db, {}) /\ Intact(db.game) /\ db.version \in Nat
  BY RowsIntact, VersionsAreNaturals
<1>2. LET e == Process(db, r)
      IN  RowsSound(e, {}) /\ e.version \in Nat /\ e.version > db.version
  BY <1>1, ProcessSound
<1>3. Advances(db, Process(db, r))
  BY <1>1, <1>2 DEF Advances
<1>4. Intact(Process(db, r).game)
  BY <1>1, ProcessKeepsIntact
<1>. QED  BY <1>3, <1>4, HistoryGrows

\* Whatever happens, the page can look up what it could look up before.
LEMMA HistoryNeverForgets ==
  ASSUME PageSound, HistorySound, [Next]_vars
  PROVE  HistoryKept
<1>1. UNCHANGED <<db, history>> => HistoryKept
  BY DEF HistorySound, HistoryKept
<1>2. CASE DeadlinePasses
  <2>1. db.game.status = "active" /\ Becomes(Expired(db))
    BY <1>2 DEF DeadlinePasses, Expired
  <2>2. Advances(db, Expired(db)) /\ Expired(db).game = db.game
    BY <2>1, RowsIntact, ExpiredMoves, ExpiredSound DEF MovesTo
  <2>. QED  BY <2>1, <2>2, RowsIntact, HistoryGrows
<1>3. CASE Sweep \/ LoadForJoin \/ \E k \in Slots : ReadForFetch(k)
  BY <1>3, SettlementKept DEF Sweep, LoadForJoin, ReadForFetch
<1>4. CASE HandleAction
  <2>1. WellFormed(request)
    BY <1>4 DEF HandleAction, PageSound, ClickSound
  <2>2. CASE Applies(db, request)
    BY <1>4, <2>1, <2>2, RequestKept DEF HandleAction
  <2>3. CASE ~ Applies(db, request)
    BY <1>1, <1>4, <2>3 DEF HandleAction, server
  <2>. QED  BY <2>2, <2>3
<1>5. ASSUME NEW s \in Seat \ {Me}, NEW m \in OtherMoves, OtherActs(s, m)
      PROVE  HistoryKept
  <2> DEFINE r == [player |-> s, key |-> <<"other", db.version>>, kind |-> m.kind,
                   proposed |-> m.proposed, version |-> db.version, turn |-> db.currentTurn]
  <2>1. WellFormed(r)
    BY VersionsAreNaturals, PageAssumption DEF WellFormed, Key
  <2>2. Applies(db, r) /\ Becomes(Process(db, r))
    BY <1>5 DEF OtherActs
  <2> HIDE DEF r
  <2>. QED  BY <2>1, <2>2, RequestKept
<1>6. CASE \/ \E v \in unsent : Broadcast(v)
           \/ EnterRoom \/ SendState
           \/ \E k \in Slots : FetchAnswered(k) \/ FetchFails(k)
  BY <1>1, <1>6 DEF Broadcast, EnterRoom, SendState, FetchAnswered, FetchFails, server
<1>7. CASE \/ Connect \/ Drop \/ Receive \/ ResetDraft \/ EditDraft \/ UNCHANGED vars
           \/ \E kind \in Moves \cup {"resign"} : Click(kind)
  BY <1>1, <1>7 DEF Connect, Drop, Receive, ResetDraft, EditDraft, Click, server, vars
<1>. QED  BY <1>2, <1>3, <1>4, <1>5, <1>6, <1>7 DEF Next

\* The page, as it is opened, has no draft and one version to look up.
LEMMA InitTilesSound ==
  ASSUME Init
  PROVE  TilesSound
<1>1. /\ RowsSound(db, {}) /\ Intact(db.game)
      /\ history = [v \in {db.version} |-> Snapshot(db)]
  BY PageAssumption DEF Init, Intact
<1>2. db.version \in Nat /\ db.game \in GameState
  BY <1>1 DEF RowsSound, Database
<1>3. HistorySound
  BY <1>1, <1>2 DEF HistorySound, Snapshot
<1>4. ViewsKnown
  BY DEF Init, ViewsKnown
<1>5. DraftSound
  BY DEF Init, DraftSound, NoDraft
<1>. QED  BY <1>3, <1>4, <1>5 DEF TilesSound

\* What a step may put on its way to the page, or show, are known versions.
LEMMA ViewsStayKnown ==
  ASSUME PageSound, ViewsKnown, HistoryKept, [Next]_vars
  PROVE  ViewsKnown'
<1>1. \A v \in DOMAIN history : v \in DOMAIN history'
  BY DEF HistoryKept
<1>2. db'.version \in DOMAIN history'
  BY DEF HistoryKept, HistorySound
<1>3. (/\ UNCHANGED <<join, view>>
       /\ \A i \in DOMAIN inbox' :
            inbox'[i].kind = "state" => i \in DOMAIN inbox /\ inbox'[i] = inbox[i]
       /\ \A k \in Slots : fetches'[k] = fetches[k]) => ViewsKnown'
  BY <1>1 DEF ViewsKnown
<1>4. CASE \/ DeadlinePasses \/ Sweep
           \/ \E s \in Seat \ {Me}, m \in OtherMoves : OtherActs(s, m)
           \/ ResetDraft \/ EditDraft \/ UNCHANGED vars
           \/ \E kind \in Moves \cup {"resign"} : Click(kind)
  <2>1. UNCHANGED <<join, view, inbox, fetches>>
    BY <1>4 DEF DeadlinePasses, Sweep, OtherActs, ResetDraft, EditDraft, Click, vars, wires, page
  <2>. QED  BY <1>3, <2>1
<1>5. CASE HandleAction
  <2>1. UNCHANGED <<join, view, fetches>>
    BY <1>5 DEF HandleAction, page
  <2> DEFINE m == [kind |-> "error", code |-> RefusalCode(db, request)]
  <2>2. UNCHANGED inbox \/ inbox' = Append(inbox, m)
    BY <1>5 DEF HandleAction
  <2>3. \A i \in DOMAIN inbox' :
          inbox'[i].kind = "state" => i \in DOMAIN inbox /\ inbox'[i] = inbox[i]
    <3>1. CASE inbox' = Append(inbox, m)
      <4>1. Len(inbox) \in Nat /\ DOMAIN inbox = 1 .. Len(inbox) /\ inbox \in Seq(Message)
        BY WiresTyped DEF PageSound, PageTyped
      <4>2. m.kind = "error"
        OBVIOUS
      <4> HIDE DEF m
      <4>. QED  BY <3>1, <4>1, <4>2
    <3>. QED  BY <2>2, <3>1
  <2>. QED  BY <1>3, <2>1, <2>3
<1>6. ASSUME NEW v \in unsent, Broadcast(v)  PROVE ViewsKnown'
  <2>1. UNCHANGED <<join, view, fetches>> /\ (UNCHANGED inbox \/ inbox' = inbox \o News(v))
    BY <1>6 DEF Broadcast, page
  <2>2. \A i \in DOMAIN inbox' :
          inbox'[i].kind = "state" => i \in DOMAIN inbox /\ inbox'[i] = inbox[i]
    BY <2>1, NewsSent
  <2>. QED  BY <1>3, <2>1, <2>2
<1>7. CASE EnterRoom \/ Connect \/ Drop
  <2>1. /\ UNCHANGED <<view, fetches>> /\ (UNCHANGED inbox \/ inbox' = <<>>)
        /\ join'.stage = "in room" => join'.version = -1
    <3>1. CASE EnterRoom
      BY <3>1 DEF EnterRoom, page
    <3>2. CASE Connect
      BY <3>2 DEF Connect
    <3>3. CASE Drop
      BY <3>3 DEF Drop, page
    <3>. QED  BY <1>7, <3>1, <3>2, <3>3
  <2>2. \A i \in DOMAIN inbox' : i \in DOMAIN inbox /\ inbox'[i] = inbox[i]
    <3>1. CASE inbox' = <<>>
      <4>1. DOMAIN inbox' = {}
        BY <3>1
      <4>. QED  BY <4>1
    <3>. QED  BY <2>1, <3>1
  <2>. QED  BY <1>1, <2>1, <2>2 DEF ViewsKnown
<1>8. CASE LoadForJoin
  <2>1. UNCHANGED <<view, inbox, fetches>> /\ join' = [join EXCEPT !.version = db'.version]
    BY <1>8 DEF LoadForJoin, page
  <2>2. join'.version = db'.version
    <3>1. join \in Joining /\ join.stage = "in room"
      BY <1>8 DEF LoadForJoin, PageSound, PageTyped
    <3>2. join \in [stage : {"in room"}, version : Nat \cup {-1}]
      BY <3>1 DEF Joining
    <3>. QED  BY <2>1, <3>2
  <2>. QED  BY <1>1, <1>2, <2>1, <2>2 DEF ViewsKnown
<1>9. CASE SendState
  <2> DEFINE m == [kind |-> "state", version |-> join.version]
  <2>1. /\ UNCHANGED <<view, fetches>> /\ inbox' = Append(inbox, m) /\ join'.stage = "done"
        /\ join.stage = "in room" /\ join.version # -1
    BY <1>9 DEF SendState, page
  <2>2. m \in Message /\ m.version \in DOMAIN history
    <3>1. join \in Joining
      BY DEF PageSound, PageTyped
    <3>2. join.version \in Nat
      BY <2>1, <3>1, WireKinds
    <3>. QED  BY <2>1, <3>2 DEF Message, ViewsKnown
  <2> HIDE DEF m
  <2>3. \A i \in DOMAIN inbox' : (i \in DOMAIN inbox /\ inbox'[i] = inbox[i]) \/ inbox'[i] = m
    BY <2>1, <2>2, InboxGrows
  <2>. QED  BY <1>1, <2>1, <2>2, <2>3 DEF ViewsKnown
<1>10. ASSUME NEW k \in Slots, ReadForFetch(k) \/ FetchAnswered(k) \/ FetchFails(k)
       PROVE  ViewsKnown'
  <2>1. UNCHANGED <<join, inbox>> /\ (view' = view \/ view' \in DOMAIN history)
    BY <1>10 DEF ReadForFetch, FetchAnswered, FetchFails, ShowView, page, ViewsKnown
  <2>2. PICK f \in Fetch : /\ fetches' = [fetches EXCEPT ![k] = f]
                           /\ f.stage = "read" => f.version \in DOMAIN history'
    <3>1. CASE ReadForFetch(k)
      <4>1. [stage |-> "read", version |-> db'.version] \in Fetch
        BY <1>2 DEF HistoryKept, HistorySound, Fetch
      <4>. QED  BY <1>2, <3>1, <4>1 DEF ReadForFetch
    <3>2. CASE FetchAnswered(k) \/ FetchFails(k)
      <4>1. [stage |-> "free"] \in Fetch
        BY DEF Fetch
      <4>. QED  BY <3>2, <4>1 DEF FetchAnswered, FetchFails
    <3>. QED  BY <1>10, <3>1, <3>2
  <2>3. /\ fetches'[k] = f
        /\ \A j \in Slots : j # k => fetches'[j] = fetches[j]
    BY <2>2, SlotUpdated
  <2>. QED  BY <1>1, <2>1, <2>2, <2>3 DEF ViewsKnown
<1>11. CASE Receive
  <2>1. /\ UNCHANGED join /\ inbox # <<>> /\ inbox' = Tail(inbox)
    BY <1>11 DEF Receive
  <2>2. /\ 1 \in DOMAIN inbox /\ Head(inbox) = inbox[1]
        /\ \A i \in DOMAIN inbox' : i + 1 \in DOMAIN inbox /\ inbox'[i] = inbox[i + 1]
    BY <2>1, InboxShrinks
  <2>3. view' = view \/ view' \in DOMAIN history
    BY <1>11, <2>2 DEF Receive, ShowView, ViewsKnown
  <2>4. \A j \in Slots : fetches'[j] = fetches[j] \/ fetches'[j].stage = "sent"
    BY <1>11 DEF Receive, PageSound, PageTyped
  <2>. QED  BY <1>1, <2>1, <2>2, <2>3, <2>4 DEF ViewsKnown
<1>. QED  BY <1>4, <1>5, <1>6, <1>7, <1>8, <1>9, <1>10, <1>11 DEF Next

-----------------------------------------------------------------------------
(* The draft keeps its tiles *)

\* The draft made from a view holds the tiles of that view.
LEMMA FreshDraftSound ==
  ASSUME PageSound, HistorySound, ViewsKnown, view # -1
  PROVE  LET d == InitialDraft(history[view].game, Me, view)
         IN  d.from = view /\ DraftKeeps(d, MyTiles(history[view].game))
<1>1. view \in DOMAIN history /\ view \in Nat
  BY DEF ViewsKnown, HistorySound
<1>2. history[view].game \in GameState /\ Intact(history[view].game)
  BY <1>1 DEF HistorySound
<1>. QED  BY <1>1, <1>2, InitialDraftKeeps DEF InitialDraft

\* What the player does to the draft, it holds the tiles it held.
LEMMA EditsKeepTiles ==
  ASSUME PageSound, HistorySound, ViewsKnown, DraftSound, EditDraft
  PROVE  draft'.from = draft.from /\ DraftKeeps(draft', MyTiles(history[draft.from].game))
<1> DEFINE tiles == MyTiles(history[draft.from].game)
<1>1. view # -1 /\ draft.from = view /\ DraftKeeps(draft, tiles)
  BY DEF EditDraft, DraftSound
<1> HIDE DEF tiles
<1>2. ASSUME NEW e, e \in DraftState, Keeps(e.rack, e.sets, tiles), e.from = draft.from, Edit(e)
      PROVE  draft'.from = draft.from /\ DraftKeeps(draft', tiles)
  BY <1>1, <1>2, EditedKeeps DEF Edit
<1>3. ASSUME NEW t \in Touched, MoveTile(t)
      PROVE  draft'.from = draft.from /\ DraftKeeps(draft', tiles)
  <2>1. t \in Tile
    BY PageAssumption
  <2>2. CASE Edit(MoveToRack(draft, t))
    BY <1>1, <1>2, <2>1, <2>2, MoveToRackKeeps
  <2>3. CASE Edit(MoveToNewSet(draft, t))
    BY <1>1, <1>2, <2>1, <2>3, MoveToNewSetKeeps
  <2>4. ASSUME NEW row \in draft.sets, Edit(MoveToSet(draft, t, row))
        PROVE  draft'.from = draft.from /\ DraftKeeps(draft', tiles)
    BY <1>1, <1>2, <2>1, <2>4, MoveToSetKeeps
  <2>. QED  BY <1>3, <2>2, <2>3, <2>4 DEF MoveTile
<1>4. ASSUME NEW row \in draft.sets, NEW i \in 1 .. Len(row) - 1,
             Edit(ReorderInSet(draft, row, i, i + 1))
      PROVE  draft'.from = draft.from /\ DraftKeeps(draft', tiles)
  <2>1. row \in Seq(Tile)
    BY <1>1 DEF DraftKeeps, Keeps
  <2>2. i \in DOMAIN row /\ i + 1 \in DOMAIN row
    BY <2>1
  <2>. QED  BY <1>1, <1>2, <1>4, <2>2, ReorderInSetKeeps
<1>5. CASE Edit(SortRack(draft))
  <2>1. /\ SortRack(draft) \in DraftState /\ SortRack(draft).from = draft.from
        /\ Keeps(SortRack(draft).rack, SortRack(draft).sets, tiles)
    BY ONLY <1>1, SortRackKeeps
  <2>. QED  BY <1>2, <1>5, <2>1 DEF tiles
<1>6. CASE Undo
  <2>1. draft.past # <<>> /\ draft' = Undone(draft)
    BY <1>6 DEF Undo
  <2>2. DraftKeeps(Undone(draft), tiles) /\ Undone(draft).from = draft.from
    BY ONLY <1>1, <2>1, UndoneKeeps
  <2>. QED  BY <2>1, <2>2 DEF tiles
<1>7. CASE ResetTurn
  BY <1>1, <1>7, FreshDraftSound DEF ResetTurn, Shown, tiles
<1>8. (\E t \in Touched : MoveTile(t)) \/ Reorder \/ Edit(SortRack(draft)) \/ Undo \/ ResetTurn
  BY DEF EditDraft
<1>. QED  BY <1>3, <1>4, <1>5, <1>6, <1>7, <1>8 DEF Reorder, tiles

\* The draft holds the tiles of the view it was built from after every step.
LEMMA DraftStaysSound ==
  ASSUME PageSound, TilesSound, HistoryKept, [Next]_vars
  PROVE  DraftSound'
<1>1. \A v \in DOMAIN history : v \in DOMAIN history' /\ history'[v] = history[v]
  BY DEF HistoryKept
<1>2. view = -1 \/ view' # -1
  <2>1. CASE Receive
    <3>1. inbox # <<>>
      BY <2>1 DEF Receive
    <3>2. inbox[1] \in Message /\ Head(inbox) = inbox[1]
      <4>1. Head(inbox) = inbox[1] /\ 1 \in DOMAIN inbox
        BY <2>1, <3>1, InboxShrinks DEF Receive
      <4>. QED  BY <4>1, WiresTyped DEF PageSound
    <3>3. view' = view \/ view' \in Nat
      BY <2>1, <3>2, WireKinds DEF Receive, ShowView
    <3>. QED  BY <3>3
  <2>2. ASSUME NEW k \in Slots, FetchAnswered(k)  PROVE view = -1 \/ view' # -1
    <3>1. fetches[k] \in Fetch
      BY DEF PageSound, PageTyped
    <3>2. view' \in Nat
      BY <2>2, <3>1, WireKinds DEF FetchAnswered, ShowView
    <3>. QED  BY <3>2
  <2>3. CASE ~ Receive /\ ~ \E k \in Slots : FetchAnswered(k)
    <3>1. UNCHANGED view
      BY <2>3 DEF Next, vars, page, DeadlinePasses, Sweep, HandleAction, OtherActs, Broadcast,
         EnterRoom, LoadForJoin, SendState, ReadForFetch, FetchFails, Connect, Drop,
         ResetDraft, EditDraft, Click
    <3>. QED  BY <3>1
  <2>. QED  BY <2>1, <2>2, <2>3
<1>3. ASSUME UNCHANGED draft  PROVE DraftSound'
  <2>1. view' = -1 => draft'.from = -1
    BY <1>2, <1>3 DEF TilesSound, DraftSound
  <2>2. ASSUME draft.from # -1
        PROVE  /\ draft.from \in DOMAIN history'
               /\ DraftKeeps(draft, MyTiles(history'[draft.from].game))
    BY <1>1, <2>2 DEF TilesSound, DraftSound
  <2>. QED  BY <1>3, <2>1, <2>2 DEF DraftSound
<1>4. CASE ResetDraft
  <2>1. /\ draft' = InitialDraft(history[view].game, Me, view)
        /\ UNCHANGED <<view, history>> /\ draft.from # view
    BY <1>4 DEF ResetDraft, server
  <2>2. view # -1 /\ view \in DOMAIN history
    BY <2>1 DEF TilesSound, DraftSound, ViewsKnown
  <2>3. draft'.from = view /\ DraftKeeps(draft', MyTiles(history[view].game))
    BY <2>1, <2>2, FreshDraftSound DEF TilesSound
  <2>. QED  BY <2>1, <2>2, <2>3 DEF DraftSound
<1>5. CASE EditDraft
  <2>1. UNCHANGED <<view, history>> /\ view # -1 /\ draft.from = view
    BY <1>5 DEF EditDraft, server
  <2>2. draft'.from = draft.from /\ DraftKeeps(draft', MyTiles(history[draft.from].game))
    BY <1>5, EditsKeepTiles DEF TilesSound
  <2>3. draft.from \in DOMAIN history
    BY <2>1 DEF TilesSound, DraftSound
  <2>. QED  BY <2>1, <2>2, <2>3 DEF DraftSound
<1>6. UNCHANGED draft \/ ResetDraft \/ EditDraft
  BY DEF Next, vars, page, DeadlinePasses, Sweep, HandleAction, OtherActs, Broadcast,
     EnterRoom, LoadForJoin, SendState, ReadForFetch, FetchAnswered, FetchFails, Connect, Drop,
     Receive, Click
<1>. QED  BY <1>3, <1>4, <1>5, <1>6

\* Whatever the player picks up, drops, undoes and resets, and whatever view
\* arrives meanwhile, every tile of the view the draft was built from is in the
\* draft once, and in every draft Undo can go back to.
THEOREM DraftKeepsTilesAlways == Spec => []DraftKeepsTiles
<1>1. Init => TilesSound
  BY InitTilesSound
<1>2. PageSound /\ TilesSound /\ [Next]_vars => TilesSound'
  <2> SUFFICES ASSUME PageSound, TilesSound, [Next]_vars  PROVE TilesSound'
    OBVIOUS
  <2>1. HistoryKept
    BY HistoryNeverForgets DEF TilesSound
  <2>2. HistorySound'
    BY <2>1 DEF HistoryKept
  <2>3. ViewsKnown' /\ DraftSound'
    BY <2>1, ViewsStayKnown, DraftStaysSound DEF TilesSound
  <2>. QED  BY <2>2, <2>3 DEF TilesSound
<1>3. TilesSound => DraftKeepsTiles
  <2> SUFFICES ASSUME DraftSound, draft.from # -1
               PROVE  LET g == history[draft.from].game
                          tiles == g.rack[Me] \cup TableTiles(g)
                      IN  /\ \A t \in Tile :
                               Copies(draft, t) \in (IF t \in tiles THEN {1} ELSE {0, 1})
                          /\ \A i \in DOMAIN draft.past : \A t \in tiles :
                               Copies(draft.past[i], t) = 1
    BY DEF TilesSound, DraftKeepsTiles
  <2> DEFINE tiles == MyTiles(history[draft.from].game)
  <2>1. DraftKeeps(draft, tiles)
    BY DEF DraftSound
  <2> HIDE DEF tiles
  <2>2. \A t \in Tile : Copies(draft, t) \in {0, 1} /\ (t \in tiles => Copies(draft, t) = 1)
    BY <2>1, CopiesCounted DEF DraftKeeps
  <2>3. \A i \in DOMAIN draft.past : \A t \in tiles : Copies(draft.past[i], t) = 1
    BY <2>1, CopiesCounted DEF DraftKeeps
  <2>. QED  BY <2>2, <2>3 DEF tiles, MyTiles
<1>. QED  BY <1>1, <1>2, <1>3, PageSoundAlways, PTL DEF Spec
=================================================================================
