------------------------------ MODULE RoomPages ------------------------------
(***************************************************************************)
(* The founder's browser beside the room: the home page's card, the        *)
(* waiting room and the table of a game, and how the answers of            *)
(* GET /api/rooms/:id carry the founder from one to the next               *)
(* (WaitingRoomPage, RematchPanel, useGame, HomePage, dashboardStatus,     *)
(* recentRooms).  There is no channel of a room: the pages poll without    *)
(* waiting for the last answer, and the route reads the room and its       *)
(* latest game in separate statements.                                     *)
(*                                                                         *)
(* The founder can do all that another member can, and start games         *)
(* besides.  Others may sign in at the browser meanwhile: their pages are  *)
(* like these, only what they make of the list of rooms is looked at.  A   *)
(* read is dropped with the page that asked; a start, a join or a leave is *)
(* answered wherever the browser is by then.                               *)
(***************************************************************************)
EXTENDS Room

CONSTANTS
  MaxReads,   \* bound: reads under way at once that differ
  MaxCompany  \* bound: people who come to the room while the browser is open

ASSUME PagesAssumption == {MaxReads, MaxCompany} \subseteq Nat

VARIABLES
  page,    \* what the founder has on the screen
  reads,   \* the reads of the room under way, by what they will make of it
  asked,   \* the games this table page has asked views of
  panel,   \* the rematch panel, up while the view on the table is of a game's end
  recent,  \* localStorage still lists the room
  wiped    \* history: it does not, because of somebody else than the founder

pageVars == <<page, reads, asked, panel, recent, wiped>>

Home == [at |-> "home"]
Waiting == [at |-> "waiting"]
Table(n) == [at |-> "table", game |-> n]
NotFound == [at |-> "not found"]  \* a table that shows no game any more
Away == [at |-> "away"]           \* somebody else is signed in
Closed == [at |-> "closed"]       \* the browser is shut for good

NoGame == 0   \* the room tells of no game, or has not been heard of

\* since: the game whose end brought the panel up; knows: the latest game by
\* the last answer.
Down == [up |-> FALSE, since |-> NoGame, knows |-> NoGame]
Up(n) == [up |-> TRUE, since |-> n, knows |-> NoGame]

\* The founder's create was answered: remembered, and on to the waiting room.
PagesInit ==
  /\ Init
  /\ page \in {Waiting, Closed} /\ panel = Down
  /\ reads = {} /\ asked = {}
  /\ recent = TRUE /\ wiped = FALSE

AddRecentRoom == recent' = TRUE /\ wiped' = FALSE
RemoveRecentRoom(p) == recent' = FALSE /\ wiped' = (wiped \/ p # Founder)

\* Another page: that of before is unmounted, and its reads no longer count.
Leaves(to) == page' = to /\ reads' = {} /\ asked' = {} /\ panel' = Down

\* The effect of the panel: a game other than the one it knows of is left for
\* that one, whatever led there.
LedTo(n, known) == IF known \in {NoGame, n} THEN n ELSE known

\* From one game to another it is the same page, with the panel as it was.
ToTable(n) ==
  CASE page.at \in {"home", "waiting"} ->
         page' = Table(n) /\ asked' = {n} /\ reads' = {} /\ panel' = Down
    [] page.at = "table" ->
         /\ page' = Table(LedTo(n, panel.knows)) /\ asked' = asked \cup {n, LedTo(n, panel.knows)}
         /\ UNCHANGED <<reads, panel>>
    [] OTHER -> UNCHANGED <<page, reads, asked, panel>>

Latest == IF games = {} THEN NoGame ELSE Max({g.seq : g \in games})
LastFinished ==
  IF games = ActiveGames THEN 0 ELSE Max({g.seq : g \in games \ ActiveGames})

-----------------------------------------------------------------------------
(* The waiting room *)

\* Fault: the waiting room goes by the game alone.
CarriesOn_AnyStatus(status) == TRUE

\* The waiting room is left for the table while a game goes on.
CarriesOn(status) == status = "in_game"

\* GET /api/rooms/:id reads the room and the membership, and goes on to the
\* latest game if that will matter.
PollRoom ==
  /\ page = Waiting /\ Founder \in Present
  /\ reads' = IF CarriesOn(room.status) THEN reads \cup {LastFinished} ELSE reads
  /\ AddRecentRoom
  /\ UNCHANGED <<vars, page, asked, panel>>

\* The latest game, and with it the answer: the founder is carried to it.
PollGame ==
  /\ page = Waiting /\ reads # {} /\ AddRecentRoom
  /\ IF Latest = NoGame THEN UNCHANGED <<page, reads, asked, panel>> ELSE ToTable(Latest)
  /\ UNCHANGED <<vars>>

\* The waiting room forgets a room that is gone.
PollMissing ==
  /\ page = Waiting /\ room.status = "deleted" /\ RemoveRecentRoom(Founder)
  /\ UNCHANGED <<vars, page, reads, asked, panel>>

\* Fault: any error is taken for a room that is gone.
PollFails_Forgets ==
  /\ \E read \in reads : reads' = reads \ {read}
  /\ RemoveRecentRoom(Founder)
  /\ UNCHANGED <<vars, page, asked, panel>>

\* No answer, or an error that says nothing about the room.
PollFails ==
  /\ \E read \in reads : reads' = reads \ {read}
  /\ UNCHANGED <<vars, page, asked, panel, recent, wiped>>

-----------------------------------------------------------------------------
(* The table *)

\* Fault: a panel that goes down leaves its reads under way.
ViewArrives_ReadsStay(g) ==
  /\ page.at = "table" /\ g.seq \in asked /\ Founder \in g.seats
  /\ panel' = IF panel.up THEN Down ELSE Up(g.seq)
  /\ panel.up \/ g.status # "active"
  /\ UNCHANGED <<vars, page, reads, asked, recent, wiped>>

\* A view of a game the page has asked for, now or before: of its end, which
\* brings the panel up, or from before that, which takes it down again.
ViewArrives(g) ==
  /\ page.at = "table" /\ g.seq \in asked /\ Founder \in g.seats
  /\ panel' = IF panel.up THEN Down ELSE Up(g.seq)
  /\ panel.up \/ g.status # "active"
  /\ reads' = {}
  /\ UNCHANGED <<vars, page, asked, recent, wiped>>

\* A game is shown to who has a seat in it and to nobody else.
ViewRefused(g) ==
  /\ page.at = "table" /\ g.seq \in asked /\ Founder \notin g.seats
  /\ Leaves(NotFound)
  /\ UNCHANGED <<vars, recent, wiped>>

PollRematch ==
  /\ panel.up /\ Founder \in Present
  /\ reads' = reads \cup {Latest}
  /\ UNCHANGED <<vars, page, asked, panel, recent, wiped>>

\* The panel's answers come in any order.
PollAnswered(n) ==
  /\ panel.up /\ reads' = reads \ {n}
  /\ panel' = [panel EXCEPT !.knows = n]
  /\ page' = Table(LedTo(page.game, n)) /\ asked' = asked \cup {LedTo(page.game, n)}
  /\ UNCHANGED <<vars, recent, wiped>>

-----------------------------------------------------------------------------
(* The home page, and whose it is *)

GoHome ==
  /\ page \notin {Home, Away} /\ Leaves(Home)
  /\ UNCHANGED <<vars, recent, wiped>>

\* 404 for a room that is gone, 403 for who is no member of it: forgotten, for
\* every player of this browser and whoever is on whichever page by then.
LoadHome(p) ==
  /\ recent /\ p \notin Present /\ RemoveRecentRoom(p)
  /\ UNCHANGED <<vars, page, reads, asked, panel>>

\* The card of the room among the recent ones: dashboardCardHref of
\* classifyRoomStatus.  A status older than the game it comes with leads to
\* the same as both read then or both read now.
OpenCard ==
  /\ page = Home /\ recent /\ Founder \in Present
  /\ \/ room.status # "open" /\ Latest # NoGame /\ ToTable(Latest)
     \/ /\ room.status = "open" \/ (Latest = NoGame /\ room.status # "abandoned")
        /\ Leaves(Waiting)
  /\ UNCHANGED <<vars, recent, wiped>>

\* The founder signs out and somebody else in, and the other way round.
HandsOver ==
  /\ Leaves(IF page = Away THEN Home ELSE Away)
  /\ UNCHANGED <<vars, recent, wiped>>

\* Another member's waiting room.
PollsAway(p) ==
  /\ page = Away /\ p \in Present \ {Founder} /\ AddRecentRoom
  /\ UNCHANGED <<vars, page, reads, asked, panel>>

-----------------------------------------------------------------------------
(* Requests, and the steps of the room this browser has no part in *)

Deleted(n) == \A g \in games' : g.seq # n

Company == Range(members) \cup left \cup {p \in Players : call[p] # Idle}

\* A step of the room that this browser hears nothing of.  No read is under way
\* for the days a game needs to grow old; a table is not looked at any further
\* when one of its games is deleted.
Unheard ==
  /\ Next
  /\ page # Closed => Cardinality(Company') <= MaxCompany
  /\ reads # {} => \A g \in games' : g.old => g \in games
  /\ IF page.at = "table" /\ \E n \in asked \cup reads : Deleted(n)
     THEN Leaves(NotFound)
     ELSE UNCHANGED <<page, reads, asked, panel>>
  /\ UNCHANGED <<recent, wiped>>

\* startOrRematch of the waiting room, startRematch of the table: the answer
\* names the game that was dealt.
DealtAnswered ==
  /\ Start(Founder) \/ Rematch(Founder)
  /\ games' # games /\ ToTable(NextSeq) /\ UNCHANGED <<recent, wiped>>

\* Somebody else joins, or anybody leaves, at this browser.
JoinAnswered(p) ==
  /\ p # Founder /\ JoinCommit(p) /\ AddRecentRoom
  /\ UNCHANGED <<page, reads, asked, panel>>

LeaveAnswered(p) ==
  /\ (LeaveList(p) /\ members # <<>>) \/ LeaveAbandon(p)
  /\ RemoveRecentRoom(p)
  /\ Leaves(IF page = Away THEN Away ELSE Home)

PagesStep ==
  \/ Cardinality(reads) < MaxReads /\ (PollRoom \/ PollRematch)
  \/ PollGame \/ PollMissing \/ PollFails \/ \E n \in reads : PollAnswered(n)
  \/ \E g \in games : ViewArrives(g) \/ ViewRefused(g)
  \/ GoHome \/ OpenCard \/ HandsOver
  \/ \E p \in Players : LoadHome(p) \/ PollsAway(p) \/ JoinAnswered(p) \/ LeaveAnswered(p)
  \/ DealtAnswered

PagesNext == (page # Closed /\ PagesStep) \/ Unheard

PagesSpec == PagesInit /\ [][PagesNext]_<<vars, pageVars>>

-----------------------------------------------------------------------------
\* A member whose room exists finds it among the recent rooms: nothing else
\* leads back to it, the server lists nobody's rooms.  Errors, late answers and
\* other players at the same browser leave it there, save one whom the home
\* page was refused the room or who has left it: the list is the browser's,
\* not the player's.
StillListed == Founder \in Present => recent \/ wiped

\* Nobody is carried from the waiting room to a game that has been over since
\* before the page asked, nor from a table to a game before the one whose end
\* brought the panel up, in whatever order answers and views arrive while
\* rematches go on.
CarriedForward ==
  [][ (page' # page /\ page'.at = "table") =>
        /\ page = Waiting => \A over \in reads : page'.game > over
        /\ panel.up => page'.game >= panel.since
    ]_<<vars, pageVars>>
===============================================================================
