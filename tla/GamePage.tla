------------------------------- MODULE GamePage -------------------------------
(***************************************************************************)
(* One player's page of a running game, and how it is kept in step with    *)
(* the server (useGame.ts, TabletopPage.tsx, the game:join handler and the *)
(* broadcasts of gateway.ts, GET /api/games/:id).                          *)
(*                                                                         *)
(* The server tells a socket only THAT the game moved on; the page then    *)
(* fetches the game over HTTP.  The socket delivers in order and loses     *)
(* what is on it when it drops; fetches overtake one another and fail.     *)
(* The transactions are TurnService's; a committed transition and its      *)
(* broadcast are two steps.  A snapshot of the game is named by its        *)
(* version, which `history` turns back into the rows it was taken from.    *)
(*                                                                         *)
(* Left out: what is announced, chat, the countdown, and a rematch on the  *)
(* same page.                                                              *)
(***************************************************************************)
EXTENDS Draft

CONSTANTS
  Me,          \* the seat of the page's player
  StartRows,   \* the games the page may be opened on
  OtherMoves,  \* what the opponents may ask for: records [kind, proposed]
  Touched,     \* bound: the tiles the player picks up
  Bounds,      \* bounds: records [steps, edits, clicks, drops], see left below
  Slots        \* bound: fetches under way at once

\* The page is opened on rows that transactions left (what TurnSystem.tla and
\* Game.tla keep true of them), and no click of this page's has been answered yet.
ASSUME PageAssumption ==
  /\ Me \in Seat /\ Touched \subseteq Tile
  /\ \A d \in StartRows : RowsSound(d, {}) /\ \A x \in d.results : x.key[1] # "click"
  /\ \A d \in StartRows : Conserved(d.game) /\ d.game.table \subseteq Melds
  /\ \A m \in OtherMoves : m.kind \in Moves \cup {"resign"}
  /\ Bounds \subseteq [steps : Nat, edits : Nat, clicks : Nat, drops : Nat]

VARIABLES
  db,       \* the rows of the game
  history,  \* what each version of the game was
  unsent,   \* the versions committed and not broadcast yet
  link,     \* the socket: up or down
  join,     \* how far the server is with this connection's game:join
  inbox,    \* what is on its way to the page over the socket, in order
  fetches,  \* the refetches under way
  request,  \* the click under way to the server
  left,     \* the bounds: versions the game may still reach, edits one draft
            \* remembers, requests and drops still to come
  view,     \* the version the page shows, -1 while it is loading
  seen,     \* the newest version it ever showed
  failed,   \* a refetch failed since the page was last in step
  draft

server == <<db, history, unsent>>
wires == <<link, join, inbox, fetches, request, left>>
page == <<view, seen, failed, draft>>
vars == <<server, wires, page>>

None == [kind |-> "none"]
Snapshot(d) == [game |-> d.game, turn |-> d.currentTurn]

Init ==
  /\ db \in StartRows
  /\ history = [v \in {db.version} |-> Snapshot(db)] /\ unsent = {}
  /\ link = "down" /\ join = [stage |-> "none"] /\ inbox = <<>>
  /\ fetches = [k \in Slots |-> [stage |-> "free"]]
  /\ request = None /\ left \in Bounds
  /\ view = -1 /\ seen = -1 /\ failed = FALSE /\ draft = NoDraft

-----------------------------------------------------------------------------
(* The server *)

CanMove == Cardinality(DOMAIN history) <= left.steps

\* The rows become d; a transition leaves a version and a broadcast to make.
Becomes(d) ==
  /\ db' = d
  /\ IF d.version = db.version THEN UNCHANGED <<history, unsent>>
     ELSE /\ history' = [v \in DOMAIN history \cup {d.version} |->
                           IF v = d.version THEN Snapshot(d) ELSE history[v]]
          /\ unsent' = unsent \cup {d.version}

DeadlinePasses ==
  /\ db.game.status = "active" /\ ~ CurrentTurn(db).overdue /\ CanMove
  /\ Becomes([db EXCEPT !.turns[db.currentTurn].overdue = TRUE])
  /\ UNCHANGED <<wires, page>>

Sweep ==
  /\ IsOverdue(db)
  /\ Becomes(SettleOverdueTurn(db))
  /\ UNCHANGED <<wires, page>>

\* Another seat's request, whatever its own page had to do for it.
OtherActs(s, m) ==
  LET r == [player |-> s, key |-> <<"other", db.version>>, kind |-> m.kind,
            proposed |-> m.proposed, version |-> db.version, turn |-> db.currentTurn]
  IN  /\ CanMove /\ Applies(db, r)
      /\ Becomes(Process(db, r))
      /\ UNCHANGED <<wires, page>>

\* broadcastTurnActionResult: game:patch, and game:over when the game ended,
\* to the sockets in the game's room; either one makes the page fetch.
News(v) ==
  IF history[v].game.status = "completed" THEN <<[kind |-> "news"], [kind |-> "news"]>>
                                          ELSE <<[kind |-> "news"]>>

\* Fault: the socket enters the room only when its snapshot is sent.
InRoom_AfterLoading == join.stage = "done"

InRoom == join.stage \in {"in room", "done"}

Broadcast(v) ==
  /\ v \in unsent /\ unsent' = unsent \ {v}
  /\ inbox' = IF InRoom THEN inbox \o News(v) ELSE inbox
  /\ UNCHANGED <<db, history, link, join, fetches, request, left, page>>

\* The code of the ActionError a request is refused with.
RefusalCode(d, r) ==
  IF d.game.status # "active" \/ r.kind = "resign" THEN "conflict"
  ELSE IF IsOverdue(d) \/ IsStale(d, r) THEN "stale"
  ELSE IF d.game.activeSeat # r.player THEN "forbidden"
  ELSE "invalid"

\* handleAction: a result is broadcast, a refusal goes to the sender alone.
HandleAction ==
  /\ request.kind # "none" /\ request.onWire
  /\ request' = None
  /\ IF Applies(db, request)
     THEN Becomes(Process(db, request)) /\ UNCHANGED inbox
     ELSE /\ UNCHANGED server
          /\ inbox' = IF link = "up"
                      THEN Append(inbox, [kind |-> "error", code |-> RefusalCode(db, request)])
                      ELSE inbox
  /\ UNCHANGED <<link, join, fetches, left, page>>

\* game:join: the seat is found, the socket enters the room...
EnterRoom ==
  /\ join.stage = "asked" /\ join' = [stage |-> "in room", version |-> -1]
  /\ UNCHANGED <<server, link, inbox, fetches, request, left, page>>

\* ...catchUpAndLoad settles an overdue turn and reads the game...
LoadForJoin ==
  /\ join.stage = "in room" /\ join.version = -1
  /\ Becomes(SettleOverdueTurn(db))
  /\ join' = [join EXCEPT !.version = db'.version]
  /\ UNCHANGED <<link, inbox, fetches, request, left, page>>

\* ...and the snapshot is sent twice in a row, as game:state and in the answer.
SendState ==
  /\ join.stage = "in room" /\ join.version # -1
  /\ inbox' = Append(inbox, [kind |-> "state", version |-> join.version])
  /\ join' = [stage |-> "done"]
  /\ UNCHANGED <<server, link, fetches, request, left, page>>

\* GET /api/games/:id reads the game for the fetch in slot k.
ReadForFetch(k) ==
  /\ fetches[k].stage = "sent"
  /\ Becomes(SettleOverdueTurn(db))
  /\ fetches' = [fetches EXCEPT ![k] = [stage |-> "read", version |-> db'.version]]
  /\ UNCHANGED <<link, join, inbox, request, left, page>>

-----------------------------------------------------------------------------
(* The connection *)

\* The socket (re)connects: what was clicked meanwhile is flushed, and the
\* page asks to join the game's room again.
Connect ==
  /\ link = "down" /\ link' = "up" /\ join' = [stage |-> "asked"]
  /\ request' = IF request.kind = "none" THEN None ELSE [request EXCEPT !.onWire = TRUE]
  /\ failed' = FALSE
  /\ UNCHANGED <<server, inbox, fetches, left, view, seen, draft>>

\* The network or the server goes away: what is on the socket is lost, and a
\* click under way may have reached the server or not.
Drop ==
  /\ link = "up" /\ left.drops > 0
  /\ link' = "down" /\ join' = [stage |-> "none"] /\ inbox' = <<>>
  /\ request' \in {request, None} /\ left' = [left EXCEPT !.drops = @ - 1]
  /\ UNCHANGED <<server, fetches, page>>

-----------------------------------------------------------------------------
(* The page: what it is shown *)

\* setView, with whatever version the answer has.
ShowView(v) ==
  /\ view' = v /\ seen' = IF v > seen THEN v ELSE seen
  /\ failed' = (failed /\ v # db.version)

Receive ==
  LET m == Head(inbox)
      asks == m.kind = "news" \/ (m.kind = "error" /\ m.code = "stale")
  IN  /\ inbox # <<>> /\ inbox' = Tail(inbox)
      /\ IF m.kind = "state" THEN ShowView(m.version) ELSE UNCHANGED <<view, seen, failed>>
      /\ IF asks
         THEN \E k \in Slots :
                /\ fetches[k].stage = "free"
                /\ fetches' = [fetches EXCEPT ![k] = [stage |-> "sent"]]
         ELSE UNCHANGED fetches
      /\ UNCHANGED <<server, link, join, request, left, draft>>

FetchAnswered(k) ==
  /\ fetches[k].stage = "read"
  /\ ShowView(fetches[k].version)
  /\ fetches' = [fetches EXCEPT ![k] = [stage |-> "free"]]
  /\ UNCHANGED <<server, link, join, inbox, request, left, draft>>

FetchFails(k) ==
  /\ fetches[k].stage # "free"
  /\ fetches' = [fetches EXCEPT ![k] = [stage |-> "free"]]
  /\ failed' = TRUE
  /\ UNCHANGED <<server, link, join, inbox, request, left, view, seen, draft>>

\* useDraftState's effect runs after the new view was painted.
ResetDraft ==
  /\ draft.from # view
  /\ draft' = InitialDraft(history[view].game, Me, view)
  /\ UNCHANGED <<server, wires, view, seen, failed>>

-----------------------------------------------------------------------------
(* The page: what its player does *)

Shown == history[view].game

\* A tile may have been picked up before the view under it changed.
AtHand(t) == t \in Touched /\ \E v \in DOMAIN history :
  v <= seen /\ t \in history[v].game.rack[Me] \cup TableTiles(history[v].game)

\* An edit made before the draft followed the view is overwritten when it does.
Edit(e) ==
  /\ Len(draft.past) < left.edits /\ e.sets \subseteq Rows
  /\ draft' = Edited(draft, e)

MoveTile(t) ==
  /\ AtHand(t)
  /\ \/ Edit(MoveToRack(draft, t))
     \/ Edit(MoveToNewSet(draft, t))
     \/ \E row \in draft.sets : Edit(MoveToSet(draft, t, row))

Reorder ==
  \E row \in draft.sets : \E i \in 1 .. Len(row) - 1 :
    row[i] \in Touched /\ Edit(ReorderInSet(draft, row, i, i + 1))

Undo == draft.past # <<>> /\ draft' = Undone(draft)

DraftChanged ==
  \/ draft.rack # InRackOrder(Shown.rack[Me])
  \/ Cardinality(draft.sets) # Cardinality(Shown.table)

ResetTurn == DraftChanged /\ draft' = InitialDraft(Shown, Me, view)

EditDraft ==
  /\ view # -1 /\ draft.from = view
  /\ (\E t \in Touched : MoveTile(t)) \/ Reorder \/ Edit(SortRack(draft)) \/ Undo \/ ResetTurn
  /\ UNCHANGED <<server, wires, view, seen, failed>>

\* hintEngine.ts: the rules, run on what the page knows of the game.
HintGame ==
  [DealtGame(Me) EXCEPT
     !.pool = 0, !.table = Shown.table,
     !.rack = [s \in Seat |-> IF s = Me THEN Shown.rack[Me] ELSE {}],
     !.hasInitialMeld = [s \in Seat |-> s = Me => Shown.hasInitialMeld[Me]]]

\* Fault: the hint takes the first meld for done.
Hint_Opened ==
  ValidTurn([HintGame EXCEPT !.hasInitialMeld[Me] = TRUE], Me, draft.sets)

Hint == ValidTurn(HintGame, Me, draft.sets)

IsMyTurn == Shown.status = "active" /\ Shown.activeSeat = Me

\* Fault: Pass is there with tiles left in the pool.
Enabled_PassAnytime(kind) ==
  CASE kind = "draw"   -> IsMyTurn /\ Shown.pool > 0
    [] kind = "pass"   -> IsMyTurn
    [] kind = "commit" -> IsMyTurn /\ draft.sets # {}
    [] kind = "resign" -> TRUE

\* When a button can be pressed.
Enabled(kind) ==
  CASE kind = "draw"   -> IsMyTurn /\ Shown.pool > 0
    [] kind = "pass"   -> IsMyTurn /\ Shown.pool = 0
    [] kind = "commit" -> IsMyTurn /\ draft.sets # {}
    [] kind = "resign" -> TRUE

\* A click is stamped with the version and turn of the view on the screen.
Click(kind) ==
  /\ view # -1 /\ Enabled(kind)
  /\ request.kind = "none" /\ left.clicks > 0 /\ CanMove
  /\ left' = [left EXCEPT !.clicks = @ - 1]
  /\ request' = [player |-> Me, key |-> <<"click", left.clicks>>, kind |-> kind,
                 proposed |-> IF kind = "commit" THEN draft.sets ELSE {},
                 version |-> view, turn |-> history[view].turn,
                 hint |-> IF kind = "commit" THEN Hint ELSE FALSE,
                 onWire |-> link = "up"]
  /\ UNCHANGED <<server, link, join, inbox, fetches, page>>

-----------------------------------------------------------------------------
Next ==
  \/ DeadlinePasses \/ Sweep \/ HandleAction
  \/ \E s \in Seat \ {Me}, m \in OtherMoves : OtherActs(s, m)
  \/ \E v \in unsent : Broadcast(v)
  \/ EnterRoom \/ LoadForJoin \/ SendState
  \/ \E k \in Slots : ReadForFetch(k) \/ FetchAnswered(k) \/ FetchFails(k)
  \/ Connect \/ Drop
  \/ Receive \/ ResetDraft \/ EditDraft
  \/ \E kind \in Moves \cup {"resign"} : Click(kind)

Spec == Init /\ [][Next]_vars
-----------------------------------------------------------------------------
\* A page that is connected, with nothing under way to it, shows the game as
\* it is: no interleaving of a join with other players' moves, no drop and no
\* reconnect leaves it behind for good.  Two things may, and are excused: a
\* refetch that failed since, and an answer that overtook a newer one
\* (useGame.ts swallows the first and compares no versions for the second).
PageCatchesUp ==
  (/\ link = "up" /\ join.stage = "done" /\ inbox = <<>> /\ unsent = {}
   /\ \A k \in Slots : fetches[k].stage = "free")
    => view = db.version \/ failed \/ view < seen

\* Whatever the player picks up, drops, undoes and resets, and whatever view
\* arrives meanwhile, every tile of the view the draft was built from is in
\* the draft exactly once, and so it is in every draft Undo can go back to.
DraftKeepsTiles ==
  draft.from # -1 =>
    LET g == history[draft.from].game
        tiles == g.rack[Me] \cup TableTiles(g)
    IN  /\ \A t \in Tile : Copies(draft, t) \in (IF t \in tiles THEN {1} ELSE {0, 1})
        /\ \A i \in DOMAIN draft.past : \A t \in tiles : Copies(draft.past[i], t) = 1

\* "A hint can never disagree with what the server will actually decide on
\* Commit" (hintEngine.ts): a commit that is judged, and not refused as stale,
\* is accepted just when the hint at the click took it for valid, although the
\* hint never knew the pool or the other racks.
HintIsVerdict ==
  [][(request.kind = "commit" /\ request' = None /\ Applies(db, request) /\ db' # db) =>
       (db'.turns[db.currentTurn].status = "committed" <=> request.hint)]_vars

\* What the page lets its player do is refused only because the game moved
\* on: never as another seat's turn, nor as a draw or pass out of place.
RefusedOnlyWhenLate ==
  \A i \in DOMAIN inbox :
    inbox[i].kind = "error" => inbox[i].code \in {"stale", "conflict"}
=============================================================================
