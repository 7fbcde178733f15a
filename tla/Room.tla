--------------------------------- MODULE Room ---------------------------------
(***************************************************************************)
(* One room from its creation to its deletion: who is in it, who is its    *)
(* host, which games it deals, and the requests that race over it          *)
(* (roomStart.ts, routes/rooms.ts, the rooms repositories, retention).     *)
(*                                                                         *)
(* Joining, starting, a rematch and deletion hold the row of the room; to  *)
(* leave is a chain of separate steps that do not.  A membership row is    *)
(* never reused (unique on room and player), so a player stands for it.    *)
(* The game itself is TurnSystem.tla: here it is dealt and it ends.        *)
(***************************************************************************)
EXTENDS Integers, Sequences, FiniteSets, FiniteSetsExt, Functions, SequencesExt

CONSTANTS
  Players,    \* the people who know of the room
  Founder,    \* the one who created it
  Capacity,   \* the most members it takes
  NoOne,      \* not a player: a null host
  MaxGames    \* bound: games dealt in this room

ASSUME RoomAssumption ==
  /\ Founder \in Players /\ NoOne \notin Players
  /\ Capacity \in 2 .. 4 /\ MaxGames \in Nat

VARIABLES
  room,     \* its row: status, host, and whether another room has its name
  members,  \* the players whose membership has not ended, in joining order
  left,     \* the players whose membership has ended
  ready,    \* the players marked ready
  games,    \* the games on record
  call,     \* the request each player has in flight
  touched   \* the retention sweep has deleted a game of this room just now

vars == <<room, members, left, ready, games, call, touched>>

MIN_READY_TO_START == 2
MIN_REMATCH_MEMBERS == 2

Idle == [op |-> "idle"]
Present == Range(members)

Init ==
  /\ room = [status |-> "open", host |-> Founder, nameTaken |-> FALSE]
  /\ members = <<Founder>> /\ left = {} /\ ready = {}
  /\ games = {} /\ touched = FALSE
  /\ call = [p \in Players |-> Idle]

\* The transaction of a join has the row of the room.
Locked == \E p \in Players : call[p].op = "join"

Busy(p, request) == call' = [call EXCEPT ![p] = request]
Done(p) == Busy(p, Idle)

-----------------------------------------------------------------------------
(* Dealing a game *)

ActiveGames == {g \in games : g.status = "active"}

\* Fault: games are counted, not numbered.
NextSeq_Count == Cardinality(games) + 1

\* One more than the latest game still on record.
NextSeq == IF games = {} THEN 1 ELSE Max({g.seq : g \in games}) + 1

\* dealForRoom: the new game, the room in_game, nobody ready any more.
Deal(seats, seq) ==
  /\ games' = games \cup {[seq |-> seq, status |-> "active", seats |-> seats, old |-> FALSE]}
  /\ room' = [room EXCEPT !.status = "in_game"]
  /\ ready' = {}

-----------------------------------------------------------------------------
(* Joining *)

\* Fault: the row is not locked.
JoinCheck_NoLock(p) ==
  /\ call[p] = Idle
  /\ room.status = "open" /\ p \notin Present \cup left
  /\ Len(members) < Capacity
  /\ Busy(p, [op |-> "join", before |-> Len(members)])
  /\ UNCHANGED <<room, members, left, ready, games, touched>>

\* joinRoomAndMaybeAutoStart takes the row, checks it and counts the members.
\* The insert of a player who has been a member before fails (unique index).
JoinCheck(p) ==
  /\ call[p] = Idle /\ ~ Locked
  /\ room.status = "open" /\ p \notin Present \cup left
  /\ Len(members) < Capacity
  /\ Busy(p, [op |-> "join", before |-> Len(members)])
  /\ UNCHANGED <<room, members, left, ready, games, touched>>

\* It inserts the member and, going by the count taken before, deals a first
\* game to the members it reads now.
JoinCommit(p) ==
  /\ call[p].op = "join"
  /\ members' = Append(members, p)
  /\ IF call[p].before + 1 < Capacity
     THEN UNCHANGED <<room, ready, games>>
     ELSE Deal(Present \cup {p}, 1)
  /\ Done(p)
  /\ UNCHANGED <<left, touched>>

SetReady(p, isReady) ==
  /\ call[p] = Idle /\ p \in Present
  /\ ready' = IF isReady THEN ready \cup {p} ELSE ready \ {p}
  /\ UNCHANGED <<room, members, left, games, call, touched>>

-----------------------------------------------------------------------------
(* Starting: host authorization is read first, without a lock *)

\* requireRoomHost, before the request goes on.
AsHost(p, next) ==
  /\ call[p] = Idle /\ p \in Present /\ room.host = p
  /\ Busy(p, [op |-> next])
  /\ UNCHANGED <<room, members, left, ready, games, touched>>

AskStart(p) == AsHost(p, "start")
AskRematch(p) == AsHost(p, "rematch")

\* Fault: members who have left count as ready.
ReadyMembers_LeftToo == ready

ReadyMembers == ready \cap Present

\* manualStartRoom deals to the members who are ready.
Start(p) ==
  /\ call[p].op = "start" /\ ~ Locked
  /\ IF room.status = "open" /\ Cardinality(ReadyMembers) >= MIN_READY_TO_START
     THEN Deal(ReadyMembers, 1)
     ELSE UNCHANGED <<room, ready, games>>
  /\ Done(p)
  /\ UNCHANGED <<members, left, touched>>

\* Fault: the status is not looked at again under the lock.
Rematch_Unchecked(p) ==
  /\ call[p].op = "rematch" /\ ~ Locked
  /\ IF Len(members) >= MIN_REMATCH_MEMBERS
     THEN Deal(Present, NextSeq)
     ELSE UNCHANGED <<room, ready, games>>
  /\ Done(p)
  /\ UNCHANGED <<members, left, touched>>

\* manualRematchRoom deals to every current member.
Rematch(p) ==
  /\ call[p].op = "rematch" /\ ~ Locked
  /\ IF room.status = "between_games" /\ Len(members) >= MIN_REMATCH_MEMBERS
     THEN Deal(Present, NextSeq)
     ELSE UNCHANGED <<room, ready, games>>
  /\ Done(p)
  /\ UNCHANGED <<members, left, touched>>

-----------------------------------------------------------------------------
(* Leaving: four steps, each on what the one before has read; an update of *)
(* a room that is gone meets no row                                        *)

LeaveRead(p) ==
  /\ call[p] = Idle /\ p \in Present
  /\ Busy(p, [op |-> "leave", host |-> room.host])
  /\ UNCHANGED <<room, members, left, ready, games, touched>>

\* markRoomMemberLeft and succeedHostIfNeeded, in one transaction.  Only a
\* host, as read before, hands over, and waits for the row to do so.
LeaveCommit(p) ==
  LET rest == RemoveAt(members, CHOOSE i \in DOMAIN members : members[i] = p)
  IN  /\ call[p].op = "leave" /\ room.status # "deleted"
      /\ members' = rest /\ left' = left \cup {p}
      /\ IF call[p].host = p
         THEN /\ ~ Locked
              /\ room' = [room EXCEPT !.host = IF rest = <<>> THEN NoOne ELSE Head(rest)]
         ELSE UNCHANGED room
      /\ Busy(p, [op |-> "gone"])
      /\ UNCHANGED <<ready, games, touched>>

\* listRoomMembers, after the transaction.
LeaveList(p) ==
  /\ call[p].op = "gone"
  /\ Busy(p, IF members = <<>> THEN [op |-> "last"] ELSE Idle)
  /\ UNCHANGED <<room, members, left, ready, games, touched>>

LeaveAbandon(p) ==
  /\ call[p].op = "last" /\ ~ Locked /\ room.status # "deleted"
  /\ room' = [room EXCEPT !.status = "abandoned"]
  /\ Done(p)
  /\ UNCHANGED <<members, left, ready, games, touched>>

-----------------------------------------------------------------------------
(* Games end, names are reused, old games are swept *)

\* The transition that ends a game frees the room (applySideEffects).  The
\* whole of it fails when that brings back a name another room has now.
EndGame(g) ==
  /\ g.status = "active" /\ ~ Locked /\ ~ room.nameTaken
  /\ games' = (games \ {g}) \cup {[g EXCEPT !.status = "completed"]}
  /\ room' = [room EXCEPT !.status = "between_games"]
  /\ UNCHANGED <<members, left, ready, call, touched>>

\* rooms_name_lower_uk leaves out abandoned rooms: somebody else may take the
\* name, and that room may come to its own end.
NameTaken(taken) ==
  /\ room.status = "abandoned" /\ taken # room.nameTaken
  /\ room' = [room EXCEPT !.nameTaken = taken]
  /\ UNCHANGED <<members, left, ready, games, call, touched>>

\* Forty-eight hours after its end.
GrowsOld(g) ==
  /\ g.status = "completed" /\ ~ g.old
  /\ games' = (games \ {g}) \cup {[g EXCEPT !.old = TRUE]}
  /\ UNCHANGED <<room, members, left, ready, call, touched>>

\* lockEligibleGameForUpdate and deleteGameSubtree.
SweepGame(g) ==
  /\ g.old
  /\ games' = games \ {g} /\ touched' = TRUE
  /\ UNCHANGED <<room, members, left, ready, call>>

\* Fault: the games left are not counted again under the lock.
SweepRoom_Blind ==
  /\ touched /\ ~ Locked /\ touched' = FALSE
  /\ room' = [room EXCEPT !.status = "deleted"] /\ members' = <<>>
  /\ UNCHANGED <<left, ready, games, call>>

\* maybeDeleteRoom: gone with its members, if no game is left.
SweepRoom ==
  /\ touched /\ ~ Locked /\ touched' = FALSE
  /\ IF games = {}
     THEN room' = [room EXCEPT !.status = "deleted"] /\ members' = <<>>
     ELSE UNCHANGED <<room, members>>
  /\ UNCHANGED <<left, ready, games, call>>

\* The server stops: open transactions are rolled back, requests break off
\* between two transactions, the sweep forgets which rooms it touched.
Restart ==
  /\ call' = [p \in Players |-> Idle] /\ touched' = FALSE
  /\ UNCHANGED <<room, members, left, ready, games>>

Next ==
  \/ \E p \in Players :
       \/ JoinCheck(p) \/ JoinCommit(p)
       \/ SetReady(p, TRUE) \/ SetReady(p, FALSE)
       \/ AskStart(p) \/ Start(p)
       \/ NextSeq <= MaxGames /\ AskRematch(p)
       \/ Rematch(p)
       \/ LeaveRead(p) \/ LeaveCommit(p) \/ LeaveList(p) \/ LeaveAbandon(p)
  \/ \E g \in games : EndGame(g) \/ GrowsOld(g) \/ SweepGame(g)
  \/ NameTaken(TRUE) \/ NameTaken(FALSE)
  \/ SweepRoom
  \/ Restart

Spec == Init /\ [][Next]_vars

\* No game goes on for ever by itself: its last turn is forfeited in the end
\* and the sweep comes back to that until it is saved (TurnSystem!GameEnds).
FairSpec == Spec /\ WF_vars(\E g \in games : EndGame(g))

-----------------------------------------------------------------------------
\* A room plays one game at a time: in_game means a game is running, and a
\* running game's room is in_game or abandoned, whatever starts, joins,
\* leaves and rematches raced each other into it (roomStart.ts: "deal at most
\* one game").
OneGameAtATime ==
  /\ Cardinality(ActiveGames) <= 1
  /\ room.status = "in_game" => ActiveGames # {}
  /\ ActiveGames # {} => room.status \in {"in_game", "abandoned"}

\* Two joins racing for the last seat do not both get it, although members
\* leave without the lock.
CapacityKept == Len(members) <= Capacity

\* No deal ever meets the unique index on (room_id, seq), though the sweep
\* deletes games from under the numbering: joins take 1, rematches one more
\* than the latest game left.
GamesNumbered == \A g, h \in games : g.seq = h.seq => g = h

\* A room is never deleted from under a game, a rematch racing the sweep
\* included (maybeDeleteRoom and manualRematchRoom lock the same row).
RoomOutlivesGames == room.status = "deleted" => games = {}

\* Who is dealt in is a member at that moment: nobody who left earlier is
\* seated in a start or a rematch (plan 5.3 invariant 10).
SeatsAreMembers ==
  [][\A g \in games' :
       g.status = "active" /\ (\A h \in games : h.seq # g.seq)
         => g.seats \subseteq Range(members')]_vars

-----------------------------------------------------------------------------
\* E-ABANDON: "Truly idle games therefore self-terminate": a game that was
\* dealt is over one day, whoever has left its room.
DealtGamesEnd ==
  \A n \in 1 .. MaxGames :
    (\E g \in ActiveGames : g.seq = n) ~> (\A g \in ActiveGames : g.seq # n)
===============================================================================
