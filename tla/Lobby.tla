-------------------------------- MODULE Lobby --------------------------------
(***************************************************************************)
(* The rooms there are: how they get their names, and how people find one  *)
(* to join (routes/rooms.ts and the rooms repository).  A create reads     *)
(* which names are taken, inserts, and tries again when the unique index   *)
(* says the name has gone; every way to join looks a room up without a     *)
(* lock and joins under one.  What goes on inside a room is Room.tla: here *)
(* its transactions are single steps.                                      *)
(***************************************************************************)
EXTENDS Integers, Sequences, FiniteSets, FiniteSetsExt

CONSTANTS
  People,
  Computer,                    \* the computer opponent's player
  NameBase,                    \* the name a person's rooms of a visibility are built
                               \* from, for the rooms people ask for
  ROOM_NAME_CANDIDATE_WINDOW,  \* how many numbered names are looked at (50)
  MAX_NAME_INSERT_ATTEMPTS,    \* how often a create is tried (5)
  Capacities,                  \* the sizes people ask for
  MaxRooms                     \* bound: rooms ever created

Visibility == {"public", "private"}

ASSUME LobbyAssumption ==
  /\ Computer \notin People
  /\ DOMAIN NameBase \subseteq People \X Visibility
  /\ ROOM_NAME_CANDIDATE_WINDOW \in Nat /\ MAX_NAME_INSERT_ATTEMPTS \in Nat \ {0}
  /\ Capacities \subseteq 2 .. 4 /\ MaxRooms \in Nat

VARIABLES
  rooms,  \* every room ever created
  call    \* how far each person's request has come

vars == <<rooms, call>>

Idle == [op |-> "idle"]

Init == rooms = <<>> /\ call = [p \in People |-> Idle]

Goes(p, request) == call' = [call EXCEPT ![p] = request]

\* The rooms whose name is reserved (rooms_name_lower_uk).  Fault: a room
\* between games is not looked at.
Live_Playable == {r \in DOMAIN rooms : rooms[r].status \in {"open", "in_game"}}
Live == {r \in DOMAIN rooms : rooms[r].status \in {"open", "in_game", "between_games"}}

TakenNumbers(base) == {rooms[r].number : r \in {x \in Live : rooms[x].base = base}}

-----------------------------------------------------------------------------
(* Creating a room *)

NewRoom(p, visibility, capacity, computer) ==
  [base |-> NameBase[<<p, visibility>>], number |-> 0, visibility |-> visibility,
   capacity |-> capacity, computer |-> computer, creator |-> p, status |-> "open",
   playing |-> FALSE, members |-> {p} \cup (IF computer THEN {Computer} ELSE {}), left |-> {}]

Asks(p, room) ==
  /\ call[p] = Idle
  /\ Goes(p, [op |-> "hint", room |-> room, attempt |-> 1])
  /\ UNCHANGED rooms

CreateRoom(p, visibility, capacity) ==
  /\ <<p, visibility>> \in DOMAIN NameBase
  /\ Asks(p, NewRoom(p, visibility, capacity, FALSE))

\* createComputerRoom: private, for two, the computer already in it.
CreateComputerRoom(p) ==
  /\ <<p, "private">> \in DOMAIN NameBase
  /\ Asks(p, NewRoom(p, "private", 2, TRUE))

\* nextCandidateRoomName: the smallest number not taken, 0 for the bare base;
\* the request fails when all of them are.
Hint(p) ==
  LET free == (0 .. ROOM_NAME_CANDIDATE_WINDOW) \ TakenNumbers(call[p].room.base)
  IN  /\ call[p].op = "hint"
      /\ Goes(p, IF free = {} THEN Idle
                 ELSE [call[p] EXCEPT !.op = "insert", !.room.number = Min(free)])
      /\ UNCHANGED rooms

Collides(room) == room.number \in TakenNumbers(room.base)

\* The rest of the transaction: insert the room, its members and its host, or
\* roll back and, unless it was the last attempt, begin again.
InsertRoom(p) ==
  /\ call[p].op = "insert"
  /\ IF ~ Collides(call[p].room)
     THEN Goes(p, Idle) /\ rooms' = Append(rooms, call[p].room)
     ELSE /\ Goes(p, IF call[p].attempt < MAX_NAME_INSERT_ATTEMPTS
                     THEN [call[p] EXCEPT !.op = "hint", !.attempt = @ + 1] ELSE Idle)
          /\ UNCHANGED rooms

-----------------------------------------------------------------------------
(* Finding and joining a room *)

Found(p, r) ==
  /\ call[p] = Idle /\ p \notin rooms[r].members
  /\ Goes(p, [op |-> "join", found |-> r])
  /\ UNCHANGED rooms

\* Whoever has its code finds a room, whatever has become of it.
FindByCode(p, r) == Found(p, r)

\* findRoomByName: any of the rooms that have the name.
SameName(r, s) == rooms[r].base = rooms[s].base /\ rooms[r].number = rooms[s].number
FindByName(p, r) == Found(p, r)

\* The public lobby lists the open public rooms, full ones too...
Browse(p, r) ==
  /\ call[p] = Idle /\ rooms[r].visibility = "public" /\ rooms[r].status = "open"
  /\ Goes(p, [op |-> "listed", room |-> r])
  /\ UNCHANGED rooms

\* ...and joins the one picked by its name, a while later.
JoinListed(p, r) ==
  /\ call[p].op = "listed" /\ SameName(r, call[p].room)
  /\ Goes(p, [op |-> "join", found |-> r])
  /\ UNCHANGED rooms

HasSpace(r) == Cardinality(rooms[r].members) < rooms[r].capacity

\* findQuickJoinableRoom; which of several was idle longest is left out.
QuickJoinable(r) ==
  rooms[r].visibility = "public" /\ rooms[r].status = "open" /\ HasSpace(r)

QuickJoin(p, r) == QuickJoinable(r) /\ Found(p, r)

\* The checks of joinRoomAndMaybeAutoStart; a past member meets the unique
\* index on room and player.
Admits(r, p) ==
  /\ ~ rooms[r].computer
  /\ rooms[r].status = "open" /\ HasSpace(r) /\ p \notin rooms[r].members \cup rooms[r].left

\* The last seat starts the game.
Joined(room, p) ==
  LET full == Cardinality(room.members) + 1 = room.capacity
  IN  [room EXCEPT !.members = @ \cup {p}, !.playing = full,
                   !.status = IF full THEN "in_game" ELSE @]

Join(p) ==
  LET r == call[p].found
  IN  /\ call[p].op = "join" /\ Goes(p, Idle)
      /\ rooms' = IF Admits(r, p) THEN [rooms EXCEPT ![r] = Joined(@, p)] ELSE rooms

-----------------------------------------------------------------------------
(* What becomes of a room (Room.tla) *)

Becomes(r, status, playing) ==
  /\ rooms' = [rooms EXCEPT ![r].status = status, ![r].playing = playing]
  /\ UNCHANGED call

\* The host starts a game or a rematch.
Start(r) ==
  /\ rooms[r].status \in {"open", "between_games"} /\ Cardinality(rooms[r].members) >= 2
  /\ Becomes(r, "in_game", TRUE)

\* The end of a game brings even an abandoned room back, and its name with
\* it; it fails while another room has the name.
GameEnds(r) ==
  /\ rooms[r].playing
  /\ r \in Live \/ ~ Collides(rooms[r])
  /\ Becomes(r, "between_games", FALSE)

\* Who leaves is remembered; the last member's leave abandons the room.  The
\* computer is a member and never leaves.
Leave(p, r) ==
  /\ call[p] = Idle /\ p \in rooms[r].members
  /\ rooms' = [rooms EXCEPT
       ![r].members = @ \ {p}, ![r].left = @ \cup {p},
       ![r].status = IF rooms[r].members = {p} THEN "abandoned" ELSE @]
  /\ UNCHANGED call

\* The server stops: requests break off, open transactions are rolled back.
Restart == call' = [p \in People |-> Idle] /\ UNCHANGED rooms

Next ==
  \/ \E p \in People :
       \/ \E visibility \in Visibility, capacity \in Capacities :
            CreateRoom(p, visibility, capacity)
       \/ CreateComputerRoom(p)
       \/ Hint(p)
       \/ Len(rooms) < MaxRooms /\ InsertRoom(p)
       \/ \E r \in DOMAIN rooms :
            \/ FindByCode(p, r) \/ FindByName(p, r) \/ QuickJoin(p, r)
            \/ Browse(p, r) \/ JoinListed(p, r)
            \/ Leave(p, r)
       \/ Join(p)
  \/ \E r \in DOMAIN rooms : Start(r) \/ GameEnds(r)
  \/ Restart

Spec == Init /\ [][Next]_vars

-----------------------------------------------------------------------------
\* A name leads to one room: no two rooms that can still be played in share
\* theirs, whoever creates rooms at once, whichever rooms are abandoned and
\* whichever of those come back.
NamesTellApart ==
  \A r, s \in Live : SameName(r, s) => r = s
===============================================================================
