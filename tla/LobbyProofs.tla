------------------------------- MODULE LobbyProofs -------------------------------
(***************************************************************************)
(* A name leads to one room, for any people, any name bases, any window of *)
(* candidate names and any number of attempts.  What keeps it so is the    *)
(* unique index at both places where a room comes under it: the insert of  *)
(* a new one and the return of an abandoned one.                           *)
(***************************************************************************)
EXTENDS Lobby, WellFoundedInduction, SequenceTheorems, TLAPS

-----------------------------------------------------------------------------
(* Extreme elements of sets of naturals *)

\* Every non-empty set of naturals has a least element.
LEMMA LeastNatural ==
  ASSUME NEW S \in SUBSET Nat, S # {}
  PROVE  \E n \in S : \A m \in S : n <= m
<1>1. PICK n \in S : \A m \in S : ~ (<<m, n>> \in OpToRel(<, Nat))
  BY NatLessThanWellFounded, WFMin
<1>2. \A m \in S : ~ (m < n)
  BY <1>1 DEF OpToRel
<1>3. \A m \in S : m \in Nat /\ n \in Nat
  OBVIOUS
<1>. QED  BY <1>2, <1>3

RoomRows ==
  [base : {NameBase[x] : x \in DOMAIN NameBase}, number : Nat, visibility : Visibility,
   capacity : Nat, computer : BOOLEAN, creator : People,
   status : {"open", "in_game", "between_games", "abandoned"}, playing : BOOLEAN,
   members : SUBSET (People \cup {Computer}), left : SUBSET People]

Requests ==
  {Idle} \cup [op : {"hint", "insert"}, room : RoomRows, attempt : Nat]
         \cup [op : {"listed"}, room : Nat] \cup [op : {"join"}, found : Nat]

\* Rooms are never deleted here: whoever has found one joins one there is.
LobbyTyped ==
  /\ rooms \in Seq(RoomRows)
  /\ call \in [People -> Requests]
  /\ \A p \in People : call[p].op = "join" => call[p].found \in DOMAIN rooms

LobbySound == LobbyTyped /\ NamesTellApart

-----------------------------------------------------------------------------
(* Requests *)

\* What a request that is half-way carries, by the step it is at.
LEMMA RequestKinds ==
  /\ Idle \in Requests /\ Idle.op = "idle"
  /\ \A q \in Requests :
       /\ q.op \in {"hint", "insert"} =>
            q \in [op : {"hint", "insert"}, room : RoomRows, attempt : Nat]
       /\ q.op = "join" => q.found \in Nat
       /\ q.op = "listed" => q.room \in Nat
<1>1. Idle \in Requests /\ Idle.op = "idle"
  BY DEF Requests, Idle
<1>2. ASSUME NEW q \in Requests
      PROVE  /\ q.op \in {"hint", "insert"} =>
                  q \in [op : {"hint", "insert"}, room : RoomRows, attempt : Nat]
             /\ q.op = "join" => q.found \in Nat
             /\ q.op = "listed" => q.room \in Nat
  <2>1. CASE q = Idle
    BY <1>1, <2>1
  <2>2. CASE q \in [op : {"hint", "insert"}, room : RoomRows, attempt : Nat]
    BY <2>2
  <2>3. CASE q \in [op : {"listed"}, room : Nat]
    BY <2>3
  <2>4. CASE q \in [op : {"join"}, found : Nat]
    BY <2>4
  <2>. QED  BY <2>1, <2>2, <2>3, <2>4 DEF Requests
<1>. QED  BY <1>1, <1>2

\* A handler moves its own person's request on and nobody else's.
LEMMA GoesMoves ==
  ASSUME call \in [People -> Requests], NEW p \in People, NEW q \in Requests, Goes(p, q)
  PROVE  /\ call' \in [People -> Requests] /\ call'[p] = q
         /\ \A o \in People : o # p => call'[o] = call[o]
  BY DEF Goes

\* A step of one request that leaves the rooms alone.
LEMMA RequestOnly ==
  ASSUME LobbySound, NEW p \in People, NEW q \in Requests, Goes(p, q), UNCHANGED rooms,
         q.op = "join" => q.found \in DOMAIN rooms
  PROVE  LobbySound'
<1>1. /\ call' \in [People -> Requests] /\ call'[p] = q
      /\ \A o \in People : o # p => call'[o] = call[o]
  BY GoesMoves DEF LobbySound, LobbyTyped
<1>2. LobbyTyped'
  BY <1>1 DEF LobbySound, LobbyTyped
<1>. QED  BY <1>2 DEF LobbySound, NamesTellApart, Live, SameName

-----------------------------------------------------------------------------
(* The steps *)

\* A new room is a row, whoever asks for it.
LEMMA NewRoomIsRow ==
  ASSUME NEW p \in People, NEW v \in Visibility, NEW c \in Capacities \cup {2},
         NEW computer \in BOOLEAN, <<p, v>> \in DOMAIN NameBase
  PROVE  NewRoom(p, v, c, computer) \in RoomRows
<1>1. c \in Nat
  <2>1. Capacities \subseteq 2 .. 4
    BY LobbyAssumption, Zenon
  <2>2. Capacities \cup {2} \subseteq 2 .. 4
    BY <2>1
  <2>3. 2 .. 4 \subseteq Nat
    OBVIOUS
  <2>. QED  BY <2>2, <2>3, Zenon
<1>2. NameBase[<<p, v>>] \in {NameBase[x] : x \in DOMAIN NameBase}
  OBVIOUS
<1>. QED  BY <1>1, <1>2 DEF NewRoom, RoomRows

\* To ask for a room touches no room.
LEMMA AskKeeps ==
  ASSUME LobbySound, NEW p \in People,
         \/ \E v \in Visibility, c \in Capacities : CreateRoom(p, v, c)
         \/ CreateComputerRoom(p)
  PROVE  LobbySound'
<1>1. PICK room \in RoomRows : Asks(p, room)
  BY NewRoomIsRow DEF CreateRoom, CreateComputerRoom, Visibility
<1>2. [op |-> "hint", room |-> room, attempt |-> 1] \in Requests
  BY DEF Requests
<1>. QED  BY <1>1, <1>2, RequestOnly DEF Asks

\* The hint is a number of the window.
LEMMA HintKeeps ==
  ASSUME LobbySound, NEW p \in People, Hint(p)
  PROVE  LobbySound'
<1> DEFINE free == (0 .. ROOM_NAME_CANDIDATE_WINDOW) \ TakenNumbers(call[p].room.base)
           n == Min(free)
           q == [call[p] EXCEPT !.op = "insert", !.room.number = n]
<1>1. call[p] \in [op : {"hint", "insert"}, room : RoomRows, attempt : Nat]
  BY RequestKinds DEF LobbySound, LobbyTyped, Hint
<1>2. CASE free = {}
  <2>1. Goes(p, Idle) /\ UNCHANGED rooms
    BY <1>2 DEF Hint
  <2>. QED  BY <2>1, RequestKinds, RequestOnly
<1>3. CASE free # {}
  <2>1. free \in SUBSET Nat
    BY LobbyAssumption
  <2>2. PICK m \in free : \A k \in free : m <= k
    BY <1>3, <2>1, LeastNatural
  <2>3. n \in free
    BY <2>2 DEF Min
  <2>4. Goes(p, q) /\ UNCHANGED rooms
    BY <1>3 DEF Hint
  <2> HIDE DEF free
  <2>5. n \in Nat
    BY <2>1, <2>3
  <2> HIDE DEF n
  <2>6. q \in [op : {"insert"}, room : RoomRows, attempt : Nat]
    BY <1>1, <2>5 DEF RoomRows
  <2> HIDE DEF q
  <2>7. q \in Requests /\ q.op = "insert"
    BY <2>6 DEF Requests
  <2>. QED  BY <2>4, <2>7, RequestOnly
<1>. QED  BY <1>2, <1>3

\* The index lets in a room whose name no live room has.
LEMMA InsertKeeps ==
  ASSUME LobbySound, NEW p \in People, InsertRoom(p)
  PROVE  LobbySound'
<1> DEFINE room == call[p].room
<1>1. /\ call[p] \in [op : {"hint", "insert"}, room : RoomRows, attempt : Nat]
      /\ room \in RoomRows
  BY RequestKinds DEF LobbySound, LobbyTyped, InsertRoom
<1>2. CASE ~ Collides(room)
  <2>1. Goes(p, Idle) /\ rooms' = Append(rooms, room)
    BY <1>2 DEF InsertRoom
  <2> DEFINE n == Len(rooms) + 1
  <2>2. /\ rooms \in Seq(RoomRows) /\ rooms' \in Seq(RoomRows)
        /\ DOMAIN rooms = 1 .. Len(rooms) /\ DOMAIN rooms' = 1 .. n
        /\ Len(rooms) \in Nat /\ rooms'[n] = room
        /\ \A r \in DOMAIN rooms : rooms'[r] = rooms[r]
    BY <1>1, <2>1, AppendProperties DEF LobbySound, LobbyTyped
  <2>3. DOMAIN rooms' = DOMAIN rooms \cup {n}
    BY <2>2
  <2> HIDE DEF n, room
  <2>4. LobbyTyped'
    <3>1. /\ call' \in [People -> Requests] /\ call'[p] = Idle
          /\ \A o \in People : o # p => call'[o] = call[o]
      BY <2>1, RequestKinds, GoesMoves DEF LobbySound, LobbyTyped
    <3>. QED  BY <2>2, <2>3, <3>1, RequestKinds DEF LobbySound, LobbyTyped
  <2>5. Live' \subseteq Live \cup {n}
    BY <2>2, <2>3 DEF Live
  <2>6. ASSUME NEW r \in Live  PROVE ~ (rooms[r].base = room.base /\ rooms[r].number = room.number)
    BY <1>2 DEF Collides, TakenNumbers
  <2>7. Live \subseteq DOMAIN rooms
    BY DEF Live
  <2>8. NamesTellApart'
    <3> SUFFICES ASSUME NEW r \in Live', NEW s \in Live',
                        rooms'[r].base = rooms'[s].base, rooms'[r].number = rooms'[s].number
                 PROVE  r = s
      BY DEF NamesTellApart, SameName
    <3>1. CASE r \in Live /\ s \in Live
      BY <2>2, <2>7, <3>1 DEF LobbySound, NamesTellApart, SameName
    <3>2. CASE r = n /\ s \in Live
      BY <2>2, <2>6, <2>7, <3>2
    <3>3. CASE s = n /\ r \in Live
      BY <2>2, <2>6, <2>7, <3>3
    <3>. QED  BY <2>5, <3>1, <3>2, <3>3
  <2>. QED  BY <2>4, <2>8 DEF LobbySound
<1>3. CASE Collides(room)
  <2> DEFINE q == IF call[p].attempt < MAX_NAME_INSERT_ATTEMPTS
                  THEN [call[p] EXCEPT !.op = "hint", !.attempt = @ + 1] ELSE Idle
  <2>1. Goes(p, q) /\ UNCHANGED rooms
    BY <1>3 DEF InsertRoom
  <2>2. q \in Requests /\ q.op # "join"
    <3> DEFINE k == call[p].attempt + 1
               again == [call[p] EXCEPT !.op = "hint", !.attempt = k]
    <3>1. k \in Nat
      BY <1>1
    <3>2. q = again \/ q = Idle
      OBVIOUS
    <3> HIDE DEF k, q
    <3>3. again \in [op : {"hint", "insert"}, room : RoomRows, attempt : Nat] /\ again.op = "hint"
      BY <1>1, <3>1
    <3> HIDE DEF again
    <3>. QED  BY <3>2, <3>3, RequestKinds DEF Requests
  <2> HIDE DEF q
  <2>. QED  BY <2>1, <2>2, RequestOnly
<1>. QED  BY <1>2, <1>3

\* A lookup touches no room and finds one there is.
LEMMA FindKeeps ==
  ASSUME LobbySound, NEW p \in People, NEW r \in DOMAIN rooms,
         FindByCode(p, r) \/ FindByName(p, r) \/ QuickJoin(p, r) \/ Browse(p, r) \/ JoinListed(p, r)
  PROVE  LobbySound'
<1>1. r \in Nat
  BY DEF LobbySound, LobbyTyped
<1>2. /\ [op |-> "join", found |-> r] \in Requests
      /\ [op |-> "listed", room |-> r] \in Requests
  BY <1>1 DEF Requests
<1>3. CASE Goes(p, [op |-> "join", found |-> r]) /\ UNCHANGED rooms
  BY <1>2, <1>3, RequestOnly
<1>4. CASE Goes(p, [op |-> "listed", room |-> r]) /\ UNCHANGED rooms
  BY <1>2, <1>4, RequestOnly
<1>. QED  BY <1>3, <1>4 DEF FindByCode, FindByName, QuickJoin, Found, Browse, JoinListed

\* An update of room r that leaves it its name and brings it under the index
\* only if no other room has that name.
LEMMA UpdateKeeps ==
  ASSUME LobbySound, NEW r \in DOMAIN rooms, NEW x \in RoomRows, rooms' = [rooms EXCEPT ![r] = x],
         x.base = rooms[r].base, x.number = rooms[r].number,
         x.status # "abandoned" => r \in Live \/ ~ Collides(rooms[r]),
         call' \in [People -> Requests],
         \A p \in People : call'[p] = call[p] \/ call'[p] = Idle
  PROVE  LobbySound'
<1>1. /\ rooms' \in Seq(RoomRows) /\ DOMAIN rooms' = DOMAIN rooms /\ rooms'[r] = x
      /\ \A i \in DOMAIN rooms : i # r => rooms'[i] = rooms[i]
  BY ExceptSeq DEF LobbySound, LobbyTyped
<1>2. LobbyTyped'
  BY <1>1, RequestKinds DEF LobbySound, LobbyTyped
<1>3. /\ Live' \subseteq Live \cup {r} /\ Live \subseteq DOMAIN rooms
      /\ r \in Live' => x.status # "abandoned"
  BY <1>1 DEF Live
<1>4. \A i \in DOMAIN rooms : /\ rooms'[i].base = rooms[i].base
                              /\ rooms'[i].number = rooms[i].number
  BY <1>1
<1>5. ~ Collides(rooms[r]) => \A s \in Live : ~ SameName(r, s)
  BY DEF Collides, TakenNumbers, SameName
<1>6. NamesTellApart'
  <2> SUFFICES ASSUME NEW i \in Live', NEW j \in Live',
                      rooms'[i].base = rooms'[j].base, rooms'[i].number = rooms'[j].number
               PROVE  i = j
    BY DEF NamesTellApart, SameName
  <2>1. i \in DOMAIN rooms /\ j \in DOMAIN rooms /\ SameName(i, j) /\ SameName(j, i)
    BY <1>3, <1>4 DEF SameName
  <2>2. CASE i \in Live /\ j \in Live
    BY <2>1, <2>2 DEF LobbySound, NamesTellApart
  <2>3. CASE i = r /\ j # r
    BY <1>3, <1>5, <2>1, <2>3 DEF LobbySound, NamesTellApart
  <2>4. CASE j = r /\ i # r
    BY <1>3, <1>5, <2>1, <2>4 DEF LobbySound, NamesTellApart
  <2>. QED  BY <1>3, <2>2, <2>3, <2>4
<1>. QED  BY <1>2, <1>6 DEF LobbySound

\* To join changes who is in a room and whether it is open, not its name.
LEMMA JoinKeeps ==
  ASSUME LobbySound, NEW p \in People, Join(p)
  PROVE  LobbySound'
<1> DEFINE r == call[p].found
           x == Joined(rooms[r], p)
<1>1. Goes(p, Idle) /\ r \in DOMAIN rooms
  BY DEF LobbySound, LobbyTyped, Join
<1>2. CASE rooms' = rooms
  BY <1>1, <1>2, RequestKinds, RequestOnly
<1>3. CASE Admits(r, p) /\ rooms' = [rooms EXCEPT ![r] = Joined(@, p)]
  <2>1. rooms[r] \in RoomRows /\ rooms[r].status = "open"
    BY <1>1, <1>3 DEF LobbySound, LobbyTyped, Admits
  <2>2. x \in RoomRows /\ x.base = rooms[r].base /\ x.number = rooms[r].number
    BY <2>1 DEF Joined, RoomRows
  <2>3. r \in Live
    BY <1>1, <2>1 DEF Live
  <2>4. rooms' = [rooms EXCEPT ![r] = x]
    BY <1>3
  <2>5. /\ call' \in [People -> Requests]
        /\ \A o \in People : call'[o] = call[o] \/ call'[o] = Idle
    BY <1>1, RequestKinds, GoesMoves DEF LobbySound, LobbyTyped
  <2> HIDE DEF x, r
  <2>. QED  BY <1>1, <2>2, <2>3, <2>4, <2>5, UpdateKeeps
<1>. QED  BY <1>2, <1>3 DEF Join

\* Neither a game's start nor its end gives a room a name that is taken.
LEMMA BecomesKeeps ==
  ASSUME LobbySound, NEW r \in DOMAIN rooms, Start(r) \/ GameEnds(r)
  PROVE  LobbySound'
<1>1. PICK status \in {"in_game", "between_games"}, playing \in BOOLEAN :
        /\ Becomes(r, status, playing)
        /\ r \in Live \/ ~ Collides(rooms[r])
  BY DEF Start, GameEnds, Live
<1> DEFINE x == [rooms[r] EXCEPT !.status = status, !.playing = playing]
<1>2. rooms[r] \in RoomRows
  BY DEF LobbySound, LobbyTyped
<1>3. x \in RoomRows /\ x.base = rooms[r].base /\ x.number = rooms[r].number
  BY <1>2 DEF RoomRows
<1>4. rooms' = [rooms EXCEPT ![r] = x] /\ UNCHANGED call
  BY <1>1 DEF Becomes
<1> HIDE DEF x
<1>. QED  BY <1>1, <1>3, <1>4, UpdateKeeps DEF LobbySound, LobbyTyped

\* A room that is left, abandoned or not, gives no name away twice.
LEMMA LeaveKeeps ==
  ASSUME LobbySound, NEW p \in People, NEW r \in DOMAIN rooms, Leave(p, r)
  PROVE  LobbySound'
<1> DEFINE x == [rooms[r] EXCEPT !.members = @ \ {p}, !.left = @ \cup {p},
                   !.status = IF rooms[r].members = {p} THEN "abandoned" ELSE @]
<1>1. rooms[r] \in RoomRows
  BY DEF LobbySound, LobbyTyped
<1>2. /\ x \in RoomRows /\ x.base = rooms[r].base /\ x.number = rooms[r].number
      /\ x.status \in {"abandoned", rooms[r].status}
  BY <1>1 DEF RoomRows
<1>3. x.status # "abandoned" => r \in Live
  BY <1>1, <1>2 DEF Live, RoomRows
<1>4. rooms' = [rooms EXCEPT ![r] = x] /\ UNCHANGED call
  BY DEF Leave
<1> HIDE DEF x
<1>. QED  BY <1>2, <1>3, <1>4, UpdateKeeps DEF LobbySound, LobbyTyped

\* Every step of every handler keeps the invariant.
LEMMA StepKeepsLobby ==
  ASSUME LobbySound, [Next]_vars
  PROVE  LobbySound'
<1>1. CASE Restart
  <2>1. /\ UNCHANGED rooms /\ \A p \in People : call'[p] = Idle
        /\ call' \in [People -> Requests]
    BY <1>1, RequestKinds DEF Restart
  <2>. QED  BY <2>1, RequestKinds
            DEF LobbySound, LobbyTyped, NamesTellApart, Live, SameName
<1>2. CASE UNCHANGED vars
  BY <1>2 DEF vars, LobbySound, LobbyTyped, NamesTellApart, Live, SameName
<1>. QED  BY <1>1, <1>2, AskKeeps, HintKeeps, InsertKeeps, FindKeeps, JoinKeeps, BecomesKeeps,
             LeaveKeeps DEF Next

-----------------------------------------------------------------------------
(* What holds of the lobby *)

\* The rooms and the requests are sound in every reachable state.
THEOREM LobbySoundAlways == Spec => []LobbySound
<1>1. Init => LobbySound
  BY RequestKinds DEF Init, LobbySound, LobbyTyped, NamesTellApart, Live
<1>2. LobbySound /\ [Next]_vars => LobbySound'
  BY StepKeepsLobby
<1>. QED  BY <1>1, <1>2, PTL DEF Spec

\* No two rooms that can still be played in share a name.
THEOREM NamesTellApartAlways == Spec => []NamesTellApart
<1>1. LobbySound => NamesTellApart
  BY DEF LobbySound
<1>. QED  BY <1>1, LobbySoundAlways, PTL
=================================================================================
