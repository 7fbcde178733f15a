# Meld Masters: a verification project

TLA+ modules for this repository's game server and its browser client, the TLC
configurations that check them on small instances, and theorems about them
checked by TLAPS. `src/…` paths below are those of the repository; *plan* is
`docs/opus-implementation-plan.md`.

## 1. The system and its parts

Two to four people (or one and the computer) meet in a **room**, play a
**game** of tiles turn by turn, each turn under a deadline of hours, and may
play again. One Node process holds no game state: everything lives in
PostgreSQL rows, every request is one or more transactions, and three timers
sweep the database for what nobody asked for.

| Part | State it keeps | Operations | What makes it correct |
| --- | --- | --- | --- |
| Set validation `packages/engine/src/sets.ts` | none | `validateRun`, `validateGroup`, `setFaceValue` | exactly the rows some reading of the jokers makes a set are accepted; a joker counts as what it stands for |
| Turn engine `turns.ts`, `rotation.ts`, `scoring.ts` | none; a `GameState` in, one out | commit, draw, pass, timeout, resign, end test, scores | tiles conserved, only moving forward; no end missed; zero-sum scores; resignation is final |
| Turn service `apps/server/src/game/turnActions.ts`, `repositories/games.ts` | rows of `games`, `game_seats`, `turns`, `idempotency_keys`, `room_scores` | `commitTurn`, `drawTurn`, `passTurn`, `resignTurn`, `settleOverdueTurnIfNeeded`, `persistTransition` | one open turn; a request takes effect at most once, on what its player saw; the result is recorded once |
| Deadline sweep `deadlineSweep.ts` | a list in memory | settle overdue turns, warn, recover computer turns | overdue turns get settled; an answer in time is never forfeited |
| Computer opponent `botTurn.ts` | a snapshot and a timer in memory | snapshot, decide, submit | never penalised, never stuck |
| Computer's search `packages/bot` | none | candidates, search, proposal | legal, and as good as its rules allow |
| Rooms `roomStart.ts`, `routes/rooms.ts`, rooms repositories | rows of `rooms`, `room_members` | create, find, join, ready, start, rematch, leave | one game at a time, capacity, who is seated; names tell rooms apart |
| Retention `retention.ts`, `retentionSweep.ts` | a set in memory | delete old games and the rooms they leave empty | never deletes what is in use |
| Pages about a room `HomePage`, `WaitingRoomPage`, `RematchPanel`, `recentRooms` | the page shown, polls under way, the room last heard of, `localStorage` | poll, navigate, remember, forget | a member finds the way to the game being played |
| Gateway `realtime/gateway.ts` | sockets and their rooms | turn events, `game:join`, broadcasts | no page is left behind |
| Client of a game `apps/web/src/tabletop`, `TabletopPage` | the view shown, the local draft and its undo | join, refetch, edit, hint, click | catches up; loses no tile; hint and buttons agree with the server |
| Accounts `routes/account.ts`, `AuthProvider` | players, sessions, reset tokens; a cookie and a page | register, log in and out, change and reset a password | screens match sessions; a new password ends the old sessions; reset links work |
| Web push `routes/push.ts`, `usePushSubscription` | subscriptions on both sides | subscribe, unsubscribe, send | a device that says off is quiet |
| Chat, portraits, branding, screens | – | – | nothing another part relies on |

How they interact: a browser sends a turn event over Socket.IO; the gateway
calls the turn service, which locks the row of the game, settles an overdue
turn, checks, applies the engine's transition and writes it back; the fact (not
the state) is broadcast, each page fetches the game over HTTP, and, if the
computer is next, a timer is set that runs the bot through the same service.
The sweep runs the same settlement. The transition that ends a game frees the
room in the same transaction. Rooms deal games; retention deletes them. Pages
about a room have no socket: they poll.

What is hard: several actors act on one game at once from views of any age;
answers are lost and requests repeated; deadlines race answers; the computer
reads its snapshot piecemeal with no lock and is driven twice; a restart loses
timers and lists; leaving a room takes no lock while joining, starting, a
rematch and deletion do; account handlers are chains of single statements; a
page's draft outlives the view it was made from; a page has several requests
under way, whose answers arrive in any order and after it has moved on; and one
browser is used by several players, who share its storage and its subscription.

## 2. The modules

| Module | Models | Uses |
| --- | --- | --- |
| `SetRules` | the rules on one row of tiles: `ValidRun`, `ValidGroup`, `FreeColors`, `Represents`, `SetFaceValue` | |
| `RowDraft` | a row built tile by tile, and the reference definition: try every reading of the jokers | `SetRules` |
| `Engine` | one operator per transition of `turns.ts` over a record like `GameState`, with rotation, end test and scores | |
| `Game` | the abstract specification of a game: what every server must do | `Engine` |
| `TurnService` | the transactions as operators on database rows | `Engine` |
| `TurnSystem` | players, network, clock, sweeps, bot drivers and restarts around `TurnService`; refines `Game` | `TurnService`, `Game` |
| `BotMove` | candidates, search and decision of `packages/bot` as operators | `SetRules` |
| `BotTable` | the computer playing on one table, and the reference: every supported way to play | `BotMove` |
| `Room` | one room from its creation to its deletion | |
| `RoomPages` | the founder's browser, which others use too, beside that room | `Room` |
| `Lobby` | all the rooms there are, their names, and the ways to find and join one | |
| `Draft` | a player's rearrangement and its undo, as operators | `TurnService` |
| `GamePage` | one page of a running game with its socket, fetches and clicks, against the real transactions | `Draft` |
| `Account` | accounts, sessions, reset links and browsers with several requests under way, statement by statement | |
| `PushDevice` | web push beside the accounts, each click a chain of awaits | `Account` |
| `MC*` | the small instances | |
| `RowProofs` | *proofs:* `RowDraft`, and `BotTable`, which plays by its rules | `RowDraft`, `BotTable`, `TLAPS` |
| `EngineProofs` | *proofs:* a lemma per operator of `Engine` and per transaction of `TurnService` | `TurnService` |
| `GameProofs` | *proofs:* `Game` | `Game`, `EngineProofs` |
| `TurnProofs` | *proofs:* `TurnSystem`, and its refinement of `Game` | `TurnSystem`, `EngineProofs` |
| `RoomProofs` | *proofs:* `Room`, and `RoomPages` beside it | `RoomPages`, `TLAPS` |
| `LobbyProofs` | *proofs:* `Lobby` | `Lobby`, `TLAPS` |
| `AccountProofs` | *proofs:* `Account`, and `PushDevice` beside it | `PushDevice`, `TLAPS` |
| `GamePageProofs` | *proofs:* `GamePage` | `GamePage`, `EngineProofs` |

Definitions named `X_Something` above a definition `X` are *faults*: plausible
bugs put in the place of `X` to see that a property would notice. They are in
no specification.

### How state and actions correspond to the code

* **Tiles and rows** (`Engine`). Tiles are numbered; pool tiles are `1..pool`
  in pool order and are drawn from the end, as `pool_order`/`pool_cursor` do.
  A row is an ordered list known by its tiles, whether it is valid and what it
  is worth; `MCGame` and `MCGamePage` compute these from `SetRules`. The table
  is a set of rows: a table that lists the very same row twice is represented
  by two rows sharing tiles, which `validateTurn` refuses for the same reason.
* **A transaction is a step** (`TurnService`, `TurnSystem`). Each one takes the
  games row with `FOR UPDATE` first and commits last, so nothing else that
  takes the row comes between. `Process(d, r)` is the whole of
  `executeTransition` or `resignTurn`, `ActionError` meaning rollback. The
  idempotency key is looked up before everything else, as there. What is *not*
  under the lock is a step of its own: the sweep's candidate query
  (`ScanOverdue`), the bot's reads (`ReadGameRow`, `ReadTables`), the player's
  look at the game (a request carries the version, turn and game seen when it
  was composed). In `ReadTables` the seats, racks and table are read in one
  step after the games row; the code reads them by separate queries.
* **The network** (`TurnSystem`). `sent` only grows and any request in it may be
  delivered at any time: late, twice, out of order, or never.
* **Time** is the flag `overdue` of a turn row: `DeadlinePasses` may raise it at
  any moment, or never. A game grows old (`GrowsOld`), a session and a link
  expire, in the same way.
* **Restart** forgets the sweeps' lists, the bots' snapshots and every handler
  between two statements; rows stay.
* **The search** (`BotMove`). `NewRuns`, `NewGroups` and the extensions give the
  candidates, `SortedCandidates` their order, `Search` the branch and bound
  with its node budget, `Proposals` the tables it may end up proposing. The
  recursion of `dfs` is one function per loop (`Loops`): the loop over the last
  *k* candidates, made of the loop over the last *k* - 1 (`Branch`), with the
  selection and what was found so far as its argument (`Node`). Ties
  that the code breaks by comparing tile ids as strings are left open: every
  best selection found is one the caller may take.
* **Rooms** (`Room`). Joining holds the row lock from `JoinCheck` (count) to
  `JoinCommit` (insert, list, deal); `Locked` is that. `Start` and `Rematch`
  hold it too, in one step, after `requireRoomHost` was answered without it
  (`AsHost`). A leave is four steps (`LeaveRead`, `LeaveCommit`, `LeaveList`,
  `LeaveAbandon`) because the code reads, commits, lists and updates in four
  statements. `EndGame` stands for the transition that ends the game in
  `TurnSystem`, and has the room update of `applySideEffects`.
* **Pages about a room** (`RoomPages`). `PollRoom` is the room's row and the
  membership, `PollGame` the latest game, which `GET /api/rooms/:id` reads
  apart. To another page the browser `Leaves`: what was mounted goes, and the
  answers it waits for do not count. From one game to another it does not: both
  are the same route (`App.tsx:85`), so view, panel and polls stay (`ToTable`).
  The rematch panel is up while the view on the table is of a game's end
  (`ViewArrives`); its polls are not awaited and are answered in any order
  (`PollRematch`, `PollAnswered`), and its effect (`RematchPanel.tsx:61`) takes
  the page to the latest game *it* has heard of, also right after somebody went
  elsewhere (`LedTo`). `localStorage` is the browser's, so what another player
  does there counts too: `HandsOver` signs another one in, `LoadHome(p)` is the
  home page of whoever is signed in and forgets a room on 403 and on 404,
  `PollsAway`, `JoinAnswered` and `LeaveAnswered` are the other places that
  remember and forget. `wiped` notes that somebody else's refusal or leave has
  taken the room off the list. What the room does without this browser is
  `Unheard`.
* **The lobby** (`Lobby`). A create is `Hint` (which names are taken, read
  without a lock) and `InsertRoom` (the unique index), up to
  `MAX_NAME_INSERT_ATTEMPTS` times; a join is a lookup and then `Join` under
  the lock. What goes on inside a room is reduced to its transactions.
* **The page of a game** (`GamePage`). The socket is a queue that a drop
  empties; a fetch is sent, read and answered in three steps, and two of them
  may overtake each other. A commit on the server and its broadcast are two
  steps, and `game:join` is three (`EnterRoom`, `LoadForJoin`, `SendState`):
  the snapshot that goes out twice, as event and as acknowledgement, is one
  message. `ResetDraft` is React's passive effect, which runs after the new
  view is on the screen. The transactions are those of `TurnService`.
* **Accounts** (`Account`). `call` has a place for each request under way: which
  statement its handler has come to, and which browser hears the answer.
  `SetPassword`, `RevokeAll` and `OpenSession` are the three statements of a
  change, as `Supersede` and `MintLink` are the two of a reset request. A page
  disables the button that was pressed and no other (`AccountPage.tsx:178`,
  `LoginPage.tsx:70`), so any request may be sent while others are under way.
  An answer is a step of its own (`Opened`, `Me`, `LoggedOut`), at any time
  later or never (`Lost`); the browser takes its cookie whatever it shows by
  then. A reload drops answers, not requests (`Abandons`). A session ends
  (`Expire`), and a cookie, which has the same age (`session.ts:9`), is dropped
  by the browser (`CookieLapses`), while the page goes on showing its player.
  `overlapped` notes that the page has had two requests under way at once.
* **Push** (`PushDevice`). A click on the control starts a chain of awaits, with a
  place in `chain`: the permission prompt, the POST, or the DELETE and then the
  browser's own unsubscribe. When the player signs out the control is unmounted
  (`RootLayout.tsx:97`) and the chain goes on, under the cookie of whoever is
  there next and with no control to tell (`Remains`, `Tells`); a reload leaves
  nothing of it but a request on its way. `crossed` notes that two chains have
  been at work at once since the control came up, be the first one a former
  player's. The browser's push service is external: it gives out an endpoint
  per subscription, and an endpoint its browser dropped answers 410.

## 3. The runs

| Run | Instance and bounds | What it shows |
| --- | --- | --- |
| `rows` | every row of up to 4 tiles, a deck of 3 colours, values 1..4, 2 jokers | `AcceptsExactlySets`: acceptance equals the reference definition; `JokersReadTrue`: the value scored is one of a legal reading |
| `game` | 3 seats, 9 tiles in hand, 4 in the pool, one joker; every table of up to three rows out of 11, good and bad | `TypeOK`, `TilesConserved`, `GameIsLive`, `NothingLaidBeforeFirstMeld`, `ScoresSettle`, `TilesMoveForward`, `ResignationIsFinal`, `GameEnds` |
| `players` | 3 seats, a pool of one, 2 requests, any delivery, one sweep | rows consistent (`OneOpenTurn`, `ResultRecordedOnce`, `EveryVersionAccounted`), `AnswerIsFinal`, `DeadlineDecides`, `AppliedAsSeen`, and `ImplementsGame` |
| `computer` | 2 seats, one the computer's with 2 drivers, 1 human request | `BotNeverPenalised` and `AppliedAsSeen`, whatever it read in pieces |
| `live` | the same with one driver | `GameEnds` if deadlines pass; `BotTurnEnds` by the recovery sweep alone |
| `bot` | the real colours and numbers; 10 tiles that reach both ends of a run, a group of four, two copies and both jokers; 4 rows a person may lay; a rack of 6; budgets of 100000 nodes and of 2 | `ProposalsLegal`, `PlaysTheMost`, `JokersKeepTheirMeaning` |
| `room` | 4 people, capacity 3, games numbered 1 and 2; the founder's browser with 2 different reads under way, open beside 2 people in all or shut beside 4; symmetry of those who did not found the room | `OneGameAtATime`, `CapacityKept`, `GamesNumbered`, `RoomOutlivesGames`, `SeatsAreMembers`; with the pages, `StillListed` and `CarriedForward` |
| `room_abandoned` | 3 people, capacity 2, ending a game is tried for ever | *violated*: every dealt game ends (`DealtGamesEnd`) |
| `lobby` | 2 people who compete for one name base, 3 rooms, 2 candidate names, 3 attempts | `NamesTellApart` |
| `account` | 2 players, 2 browsers, 2 requests at once, 1 password, 2 sessions and 2 links, 3 of both together; players, browsers and requests interchangeable | `ScreenIsTheSession`, `ChangeSignsOthersOut`, `LatestLinkWorks` |
| `push` | 2 players on one browser, 2 sessions, 2 subscriptions, 2 clicks at work beside 1 request, no reset links; players and clicks interchangeable | `QuietWhenOff` |
| `client` | 2 seats; two games reached by play, one with an empty pool where the player has not opened and one where both have; three budgets of steps, edits, clicks and drops; 2 fetches at once | `PageCatchesUp`, `DraftKeepsTiles`, `RefusedOnlyWhenLate`, `HintIsVerdict` |

Why the bounds are enough. A penalty takes three tiles: a pool of four is the
smallest that is emptied by two penalties and leaves a remainder for the
second. Three seats are the fewest for a resignation that does not end the
game. Two requests are a first and a racing, duplicate or stale second one;
what any of them meets is whatever the clock, the sweep and the resignations
have made of the game. A row of four is longer than any group of three colours
and as long as a run of four numbers. A rack of six plays two new sets, the
fewest between which the search must choose, beside an extension. Capacity
three leaves a host, a successor and a joiner, and a fourth person is one too
many; the second game is the rematch. The room itself is looked at with the
browser shut (`Closed`) and all four people; with the browser open a second
person is the other member, the successor and the other player at the browser,
and two reads are an old answer and a new one. Two candidate names are few
enough to run out of, and a third room takes a name while one is abandoned and
one comes back. Two sessions are the one that changes the password and the one
that must end; two links are the one superseded and the latest; three rows are
a reset with both links and its session, or both sessions and a link. No
property tells passwords apart, so there is one: what was checked against an
older password is what was checked before a change. Two requests at once
already overlap; two clicks already cross. Two fetches are one that overtakes
another; three budgets keep apart what needs drops, what needs an edit and a
click, and what needs two edits of which the second builds on the first. Every
bound is a constant: `MaxRow`, `MaxRequests`, `MaxRack`, `MaxTable`,
`MaxGames`, `MaxReads`, `MaxCompany`, `MaxRooms`, `MaxSessions`, `MaxLinks`,
`MaxRows`, `Requests`, `MaxEndpoints`, `Clicks`, `Bounds`, `Touched` and
`Slots`; nothing else is capped. The theorems of section 5 hold for any of them.

A run checks deadlock only where the system never stops; a finished game, a
network with nothing left to deliver, a deleted room and spent bounds are
stops, so those configurations say `CHECK_DEADLOCK FALSE`.

### Fairness

* `Game!FairSpec`: weak fairness of `Timeout`: every deadline expires and is
  settled. Players owe nothing.
* `TurnSystem!LiveSpec`: strong fairness of the deadline sweep's two steps. The
  sweep runs every fifteen seconds (`startBackgroundSweeps`) and each step is
  bounded work; restarts and skipped locks may defeat a tick but not every
  tick. What else is needed stands as the premise of the property itself:
  `GameEnds` needs deadlines to pass (`WF_vars(DeadlinePasses)`) and asks
  nothing of the bot; `BotTurnEnds` needs the recovery sweep (`BotSweepRuns`)
  and neither the clock nor the timer set after a broadcast, which a restart
  loses.
* `Room!FairSpec`: weak fairness of `EndGame`, which `TurnSystem!GameEnds`
  justifies: whatever players do, the sweep comes to the ending transition and
  tries it again until it is saved.

## 4. What was found

One disagreement between the code and its documents is a run,
`room_abandoned`: ending the game of an abandoned room makes the room live
again; if its name has been taken since, the unique index refuses and the
transition is rolled back each time, so the game never ends (plan, E-ABANDON:
"Truly idle games therefore self-terminate").

Other things met while modelling, which the models allow and no property
forbids:

* *Turns.* A stalemate can fall on a turn that began with tiles in the pool:
  forfeited turns and invalid commits count as passes whatever the pool held
  (`turns.ts:254`; plan E-STALE: "once the pool is empty"). A move that finds
  its turn overdue settles it and throws, which rolls the settlement back
  (`turnActions.ts:201`), although `deadlineSweep.ts:33` expects the holder of
  the lock to settle; `live` shows that the sweep gets there all the same. A
  transition that fails ends the sweep's whole tick.
* *Rooms.* The leave route works on a room read before its transaction, so a
  room can be left with members and no host (`routes/rooms.ts:390`). The
  filling join counts before it inserts and lists after, so a leave in between
  may deal a game to one seat (`roomStart.ts:118`). A stop between the last
  leave and its `abandoned` leaves an open, empty room; one between the
  deletion of a room's last old game and the room's own keeps the room for
  good. Somebody who left a room cannot join it again (unique index).
* *Lobby.* A lookup by name may find an abandoned namesake. A computer room its
  person has left is never abandoned, because the computer stays a member, and
  keeps its name. A player called `public_John` draws on the names of John's
  public rooms.
* *Pages.* Members who were not ready when a game starts are carried to a table
  at which they have no seat and which is not shown to them (`ViewRefused`), and
  the home card leads back there until the game ends. The table page is not
  unmounted between two games, and an answer the rematch panel gets late, or has
  kept from before the host's own rematch, takes the page from the new game back
  to the finished one until a later poll (`RematchPanel.tsx:61`; line 55: "Every
  member still looking at this completed game -- host included -- is carried
  straight to the room's authoritative new game"). It goes no further back than
  the game whose end brought the panel up, which is `CarriedForward`. The list
  of recent rooms is shared by all players of a browser, and the home page
  removes a room on any 403 (`HomePage.tsx:74`): a player who signs in at
  another member's browser and opens the home page takes that member's rooms off
  it, and nothing brings them back but the room's own address (`wiped`, the
  excuse in `StillListed`; without it TLC finds this).
* *Client.* A refetch answered late puts an older view back, and a failed one
  is swallowed (`useGame.ts:63`): the two excuses in `PageCatchesUp`. A click
  between the painting of a new view and the draft's reset sends the old draft
  with the new version; the server judges it like any other.
* *Bot.* Of several candidates that use the same tiles only the first, the one
  with the lowest base, is kept (`candidates.ts:332`): a rack of 9, 10 and a
  joker is laid as 8-9-10, worth 27 and not 30, and does not open although
  9-10-11 would (`generate.ts:10`: "if no supported legal turn exists").
  `PlaysTheMost` is about turns after the first meld for that reason. The
  search stops at the first win ("nothing can beat it", `search.ts:116`), so of
  two winning turns it may take the one with the lower face value, against its
  own ranking (`search.ts:7`): with 1-2-3-4 of one colour, three elevens and a
  joker it finds 1-2-3-4-joker first and plays 48 points, not the 54 of four
  elevens and 1-2-3-4. `SearchExact` makes an exception of wins for that
  reason. A joker never stands for a number the rack holds
  (`candidates.ts:164`): with all thirteen of a colour, a joker and a group of
  the table that the six would complete, the run cannot leave the six out, and
  the win of fourteen tiles is missed.
* *Accounts.* With two requests under way at once a page may show one player
  and present the session of another: a log out while a password change is
  being handled, then another player's login, and the cookie of the change
  arrives last (`overlapped`, the excuse in `ScreenIsTheSession`; without it
  TLC finds this and the like, such as a registration beside a login). A page
  whose session or cookie has lapsed goes on showing its player, who cannot
  even log out: the request is refused (401) and the screen stays. A login
  checked against the old password whose session is inserted after the
  revocation stays signed in. Two reset requests at once may leave two working
  links. A reset that is cut off between the new password and the revocation
  leaves the old sessions.
* *Push.* The control shows "on" from the browser's own subscription alone, and
  a subscription that another player registered stays that player's row. A
  click goes on after its player has signed out: with the permission prompt
  open across a logout and another login, the subscription is made and
  registered for the next player, whose control says "off" and shows no error
  (`crossed`, the excuse in `QuietWhenOff`; without it TLC finds this).

## 5. What is proved

Each theorem below holds for every value of the constants that satisfies the
named assumptions, and tlapm checks it to the last leaf. Every property and
every inductive invariant was checked by TLC on the run's instance first. *P*
stands for `THEOREM PAlways == Spec => []P` (or `Spec => P` where *P* is an
action property) unless another name is given.

| Module | Theorems | Inductive invariant |
| --- | --- | --- |
| `RowProofs` | `AcceptsExactlySets`, `JokersReadTrue` | the row is a sequence over the deck |
| `RowProofs` | `ProposalsLegal`, `JokersKeepTheirMeaning`, `SearchExact`; `CandidatesSound` | `TableInv` (`TableSound`) |
| `GameProofs` | `TypeCorrect` (`TypeOK`), `LiveAlways` (`GameIsLive`), `ConservedAlways` (`TilesConserved`), `ForwardAlways` (`TilesMoveForward`), `ResignedForGood` (`ResignationIsFinal`), `UnopenedHandsWhole` (`NothingLaidBeforeFirstMeld`), `ScoresSettle` | `Sound(game)`, `Intact(game)`, `EndsWell(game)` |
| `TurnProofs` | `OneOpenTurn`, `ResultRecordedOnce`, `EveryVersionAccounted`, `AnswerIsFinal`, `DeadlineDecides`, `BotNeverPenalised`, `AppliedAsSeen`; `RefinesGame` (`ImplementsGame`) | `SystemSound` |
| `RoomProofs` | `OneGameAtATime`, `CapacityKept`, `GamesNumbered`, `RoomOutlivesGames`, `SeatsAreMembers`, `StillListed`, `CarriedForward`; `PagesImplementRoom` | `RoomSound`, `PagesSound` (`PagesSoundAlways`) |
| `LobbyProofs` | `NamesTellApart` | `LobbySound` |
| `AccountProofs` | `ScreenIsTheSession`, `ChangeSignsOthersOut`, `LatestLinkWorks`, `QuietWhenOff`; `DevicesImplementAccount` | `AccountSound` (`AccountSoundAlways`), `DeviceSound` (`DeviceSoundAlways`) |
| `GamePageProofs` | `PageCatchesUp`, `RefusedOnlyWhenLate`, `HintIsVerdict`, `DraftKeepsTiles` | `PageSound`, `TilesSound` |

### Assumptions

* `SetRules`: the colours are distinct, none of them is called "joker", and
  there is at least one colour and one number.
* `BotTable`: the tiles that are dealt are of the catalog, and the rows a
  person lays are valid sets of such tiles (the server refuses others). Racks,
  tables and budgets are otherwise arbitrary; `MaxRack` and `MaxTable` are any
  numbers.
* `Engine`: at least two seats; the deal puts each tile in one place and gives
  every seat a rack; `TilesOf` and `MeldValue` are functions of the right type.
  Nothing is assumed of what makes a row valid. `Game` and `TurnSystem`:
  proposals are tables of rows, the computer's seats are seats, the sweep is
  one of the drivers.
* `Room`, `Lobby`, `Account`: the founder is a player, a capacity is two to
  four (`CapacitySchema`), the values that mean
  "nobody", "no password", "loading" and "out" are none of the others, and the
  computer is not a person.
* `Draft`: a row is the list of its tiles, and no row that is accepted names a
  tile twice (`sets.ts` refuses it as `duplicate_tile_id`).
* `GamePage`: the games the page may be opened on are sound rows with no key of
  this page in them, no tile out of place and accepted rows on the table.
  `SystemSoundAlways` and `IntactAlways` say so of what is reached by play, and
  a page's keys are fresh random identifiers.

### The arguments

*A row.* `validateSet` computes; the reference definition asks for a reading of
the jokers. For a run the first numbered tile fixes what every place must show,
and the least place that breaks the count shows that no reading does. For a
group, the colours of the numbered tiles are as many as those tiles when none
repeats, so the free colours suffice for the jokers exactly when the row is no
longer than there are colours; the *n*th joker takes the *n*th free colour,
found by the least place in `COLORS` up to which *n* are free (`ColorCount`).
Conversely a reading maps the places of the row one to one to colours.

*The search.* That a proposal is legal needs no optimum, only that the search
chooses among its candidates, but it needs the table to be one that the rules
allow: an extension is a set because the row it extends is one, and its tiles
are new because nothing on the table is on the rack. So `TableInv`: rack and
rows are of the catalog, nothing lies twice, every row is a valid set. It is
inductive because what the computer plays was validated. `CandidatesSound` says
what a candidate is; the jokers of a run are the numbers that are not held
(`RunSlots`), those of a group the places after its colours (`GroupSlots`).
`LoopSane` is what the loops keep: the selections found are `Playing`, that is,
no tile and no row twice, no joker too many, and worth thirty before the first
meld. The least loop that did not would be a `Branch` of one that does
(`LoopsSane`): induction without an induction rule. Jokers are counted when a
candidate is made and handed out when the table is emitted; that each set laid
has as many as it needs and no two share one is `JokerShares`, and that other
jokers do not change what it is or is worth is `SameShape`. From these
`ProposedTurn` assembles `ValidTurn`, clause by clause.

*The cuts.* `Covers` says a selection is no loss: one of the best found wins or
ranks as high. `LoopFull` says of a loop that it loses nothing it had covered
and that, within the budget, it covers everything that goes on from its
selection. A candidate is passed over only if it does not fit, and then no
selection that may be played has it (`PartsFit`: jokers only add up); the rest
is cut off only if all of it together would not catch up
(`OutOfReachCovered`); and dfs stops only at a win, which covers everything,
because a selection plays different tiles of the rack (`TilesOnRack`). So
`SearchExact`: for every rack, table and budget, if the budget was not
exceeded, no selection of the candidates that may be played plays more tiles
than the one found, and unless that one wins, none that plays as many is worth
more. `SearchExact` and `TableInv` were checked by TLC on the instance of `bot`
(`SearchExact` for selections of up to four candidates).

*The game.* None of the properties is inductive by itself: that the next turn
is an active seat's needs an active seat to be found, which needs the game not
to have ended with a single one, which needs the end test to have looked at
every step. `Sound(g)` is: well typed, the turn is with an active seat, and an
active game can go on (`CanGoOn`: another active seat, no empty rack, no
stalemate due). There is one lemma per transition; `NextActiveSeatAdvances` is
the fact about the rotation, by the least distance round the table. `Conserved`
is then inductive together with `Sound`: a draw needs the drawn tiles to be the
pool's, a commit needs `ValidTurn`. `Intact` adds that what lies on the table
was accepted.

*The scores.* `Score` folds over the seats; the fold is one of the functions
that add up a set by taking an element at a time (`SumExists`, `SameSum`), and
that a sum can be split, has the sign of its terms and is taken in any order
follows from a smallest subset on which it would not. `EndsWell` says that the
reason a finished game is marked with still shows in its racks and seats, which
`Sound` does not remember: so `WinnerOf` finds a seat that never resigned, and
the winner of a stalemate has the least rack among the seats still in, so that
nobody it is paid by gains.

*The rows.* `RowsSound` (in `TurnService`) says that the rows fit together:
the open turn row is the current one and the active seat's, forfeited rows are
the resolved overdue ones, results have versions up to the current one, the
ledger is written with the end. `ProcessSound` and `SettleSound` say that each
transaction keeps it and what it does to the version, the keys and the game.
The same lemmas serve `TurnProofs` and `GamePageProofs`. `Unaccounted` counts:
a version is a result or a forfeit.

*The system around the rows.* `SystemSound` adds what those in flight know:
requests have keys of their own, and a request or a snapshot *with the current
version* was made for the game as it is (`RequestsSound`, `SnapshotsSound`).
That a refused request is refused for ever (`AnswersSound`) needs the version
never to go back, a resigned seat to stay resigned, and a key to be recorded
only by the request that carries it. The computer is never penalised because
its snapshot, if stale, is refused, and if not, is the game it was decided on.
`RefinesGame`: each transaction is one step of `Game` or none, also where a
request finds its turn overdue, since that settlement is rolled back with the
request; so what `GameProofs` proves holds of `db.game`.

*The room.* Requests in flight at the row lock are what is hard: `RoomSound`
says that at most one join holds it (`OneJoin`), that a join between its count
and its insert still has its place (`CallFits`), that members are listed once,
and that the games on record agree with the status (`GamesOK`: numbers are
distinct, only the latest may be active, one is while the room is in game, and
none is unless the room is in game or abandoned). `PagesSound` adds the
browser. A read of the waiting room is of a room with a later game than those
it knew to be over. At a table, `PanelSound`: the game whose end brought the
panel up is one the page has asked for, and what the panel has read and what it
knows are that game or later ones, because the panel came up over a game that
was dealt and reads the latest there is; so an answer of any age leads no
further back, and a rematch is dealt a number above them all. A panel that goes
down takes its reads with it, or one of them would meet the next panel.
`StillListed` is inductive as it stands. `PagesImplementRoom` carries the
theorems about `Room` over.

*The lobby.* `LobbyTyped` and the unique index make `NamesTellApart` inductive;
the work is in the requests that hold a hint about names that was read before.

*Accounts.* `AccountSound` has three parts. `RequestSound`: the sessions a
request counts or names are there, and those from before a new password are over
once they have been revoked. `WindowSound`: a page that is being loaded waits
for nothing, and one that has not had two requests at once has at most one
under way, which fits what it shows (`Fits`: who signs in or resets is signed
out, who changes a password is shown as its player until the answer is there,
and who asks "me" has the cookie of the login or none). That is what makes
`ScreenIsTheSession` inductive: the cookie and the screen change by two answers
of one request, and the invariant says what is so between them.
`LinkSound`: the latest link works, was used, has expired or is being replaced.

*Push.* `DeviceSound`: no subscription is two browsers' (`EndpointsApart`), a
click that will still be heard is on a control that has come up
(`HeardThere`), and where no two clicks have crossed the one there is agrees
with the control (`ControlSound`): off while it subscribes, on while it
unsubscribes, and about the subscription the browser has. So a control that
says "off" with nobody at work was left so by a delete or an error, or came up
over a browser with no subscription. `DevicesImplementAccount` carries the
theorems about `Account` over.

*The page.* `PageSound`: nothing shown or on its way is newer than the rows
(`NothingNewer`); if the page has not seen the current version then an event, a
fetch or a snapshot is on its way that will show it, or a fetch has failed
(`NotLeftBehind`); a click has a key nobody has used, and one that carries the
current version is allowed, with a hint computed on the game as it is
(`ClickSound`). A broadcast that a dropped socket loses is made good by
`game:join`, which is why a join that is "in room" counts as under way.

*The draft.* `Keeps(rack, rows, tiles)` says that no list names a tile twice, no
two of them share one and together they hold `tiles`; there is a lemma per edit.
What filtering and sorting do to a list follows from its places being numbered
by rank (`Ranks`, `Listing`): the element with *k* before it exists and is the
only one. `TilesSound` says that every version that is shown or on its way is
one the page can look up (`ViewsKnown`), that its game is intact
(`HistorySound`), and that the draft keeps the tiles of the view it was made
from, as does every draft in its past (`DraftSound`). The view moves on under
the draft, so this needs the history to forget nothing (`HistoryNeverForgets`).
`CopiesCounted` turns `Keeps` into the count the property is stated with.

### Model-checked only

* Liveness and everything under fairness (`GameEnds`, `BotTurnEnds`), and the
  counterexample to `DealtGamesEnd`: out of the prover's reach.
* `PlaysTheMost`. It compares the search with turns stated without candidates.
  `SearchExact` proves the half that is about the search; the other half, that
  candidates miss no turn, does not hold of every instance (section 4: the run
  of thirteen), and the reference itself looks at no more than two new sets and
  three rows, which is all the bounded rack and table of the run have room for.

## 6. Not modelled

* *Turn service:* a tick over several games. The warning sweep: its test that a
  turn has not been warned yet stands in the subquery and not in the update's
  own condition, so whether two overlapping sweeps can both warn is decided by
  how the database rechecks a row it waited for, which is not this code.
* *Rooms:* display names within a room, the time of last activity, and which of
  several rooms quick join prefers; the limit of twenty remembered rooms, past
  which a browser forgets the oldest.
* *Pages about a room:* a browser has one page open; a second one shows what it
  shows, and shares only the list. A start and a rematch are answered when the
  game is dealt, and a game does not grow old (days) while a read is under way.
  A table one of whose games is deleted is not followed further.
* *Client:* announcements, countdown and chat; a rematch on the same page, which
  is in `RoomPages` and not in `GamePage`.
* *Accounts:* portraits; rate limits; several pages of one browser. `me` and log
  out are handled with the cookie of that moment.
* *Push:* which event of a game is pushed to whom; a browser without push or with
  notifications blocked, and a server without keys, where there is no control
  to click.
* *Everything else:* chat (an insert and a broadcast), presence, rendering and
  formatting, shuffling (any deal is a value of the constants), migrations as
  programs, build and deployment.

The database's transactions, row locks and unique indexes are taken to work as
PostgreSQL documents them at its default isolation level.

## 7. Plan

Done: every module of section 2, and the theorems of section 5. Next, in this
order:

1. For which racks the candidates miss no turn: a joker that stands for a held
   number can give way to it and move to the end of its run, as long as the run
   has room there.
2. `Sweeps`: a tick over several games with a candidate that fails, and
   retention over several rooms and ticks.
