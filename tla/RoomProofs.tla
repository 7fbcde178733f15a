------------------------------- MODULE RoomProofs -------------------------------
(***************************************************************************)
(* What holds of every room, for any number of people, any capacity and    *)
(* any bound on its games: first the room alone, then the browser beside   *)
(* it, whose steps are the room's or leave the room alone.                 *)
(***************************************************************************)
EXTENDS RoomPages, WellFoundedInduction, FiniteSetTheorems, SequenceTheorems, TLAPS

-----------------------------------------------------------------------------
(* Numbers *)

\* Max of a non-empty set of naturals that has a bound is its greatest element:
\* the one whose distance to the bound is least.
LEMMA GreatestNatural ==
  ASSUME NEW S \in SUBSET Nat, S # {}, NEW b \in Nat, \A n \in S : n <= b
  PROVE  Max(S) \in S /\ \A n \in S : n <= Max(S)
<1> DEFINE T == {b - n : n \in S}
<1>1. \A n \in S : n \in Nat /\ b - n \in Nat
  OBVIOUS
<1>2. T \subseteq Nat /\ T # {}
  BY <1>1
<1>3. PICK t \in T : \A u \in T : ~ (<<u, t>> \in OpToRel(<, Nat))
  BY <1>2, NatLessThanWellFounded, WFMin
<1>4. PICK m \in S : t = b - m
  BY <1>3
<1>5. \A n \in S : ~ (b - n < b - m)
  BY <1>1, <1>3, <1>4 DEF OpToRel
<1>6. ASSUME NEW n \in S  PROVE m >= n
  <2>1. ~ (b - n < b - m) /\ n \in Nat /\ m \in Nat
    BY <1>1, <1>5
  <2>. QED  BY <2>1
<1>7. Max(S) \in S /\ \A n \in S : Max(S) >= n
  BY <1>6 DEF Max
<1>. QED  BY <1>1, <1>7

\* For leaves that the provers cannot read as arithmetic.
LEMMA OrderFacts ==
  /\ \A a, c \in Nat : a <= c /\ c # a => c > a
  /\ \A a, b, c \in Nat : a > b /\ a <= c => c > b
  OBVIOUS

-----------------------------------------------------------------------------
(* Sequences without repetition *)

\* No player has two memberships.
Injective(s) == \A i, j \in 1 .. Len(s) : s[i] = s[j] => i = j

\* The memberships left when the one of p ends.
Without(s, p) == RemoveAt(s, CHOOSE i \in DOMAIN s : s[i] = p)

\* A list without repetitions loses exactly the member that is removed.
LEMMA WithoutProperties ==
  ASSUME NEW S, NEW s \in Seq(S), Injective(s), NEW p \in Range(s)
  PROVE  /\ Without(s, p) \in Seq(S) /\ Injective(Without(s, p))
         /\ Len(Without(s, p)) = Len(s) - 1
         /\ Range(Without(s, p)) = Range(s) \ {p}
<1> DEFINE n == Len(s)
           k == CHOOSE i \in DOMAIN s : s[i] = p
           before == SubSeq(s, 1, k - 1)
           after == SubSeq(s, k + 1, n)
           r == Without(s, p)
<1>1. n \in Nat /\ DOMAIN s = 1 .. n /\ \A i \in 1 .. n : s[i] \in S
  OBVIOUS
<1>2. k \in 1 .. n /\ s[k] = p
  BY <1>1 DEF Range
<1> HIDE DEF k
<1>3. /\ before \in Seq(S) /\ Len(before) = k - 1
      /\ \A i \in 1 .. k - 1 : before[i] = s[i]
  BY <1>1, <1>2, SubSeqProperties
<1>4. /\ after \in Seq(S) /\ Len(after) = n - k
      /\ \A i \in 1 .. n - k : after[i] = s[k + i]
  <2>1. \A i \in k + 1 .. n : s[i] \in S
    BY <1>1, <1>2
  <2>2. k + 1 \in Int /\ n \in Int /\ n - (k + 1) + 1 = n - k
    BY <1>1, <1>2
  <2>3. /\ after \in Seq(S)
        /\ Len(after) = IF k + 1 <= n THEN n - (k + 1) + 1 ELSE 0
        /\ \A i \in 1 .. n - (k + 1) + 1 : after[i] = s[(k + 1) + i - 1]
    BY <2>1, <2>2, SubSeqProperties
  <2>4. Len(after) = n - k
    <3>1. CASE k + 1 <= n
      BY <2>2, <2>3, <3>1
    <3>2. CASE ~ (k + 1 <= n)
      <4>1. k = n /\ k \in Int
        <5>1. n \in Nat /\ k \in 1 .. n
          BY <1>1, <1>2
        <5> HIDE DEF n
        <5>. QED  BY <3>2, <5>1
      <4>2. Len(after) = 0
        BY <2>3, <3>2
      <4>. QED  BY <4>1, <4>2
    <3>. QED  BY <3>1, <3>2
  <2>5. ASSUME NEW i \in 1 .. n - k  PROVE after[i] = s[k + i]
    <3>1. after[i] = s[(k + 1) + i - 1] /\ (k + 1) + i - 1 = k + i
      BY <1>2, <2>2, <2>3
    <3>. QED  BY <3>1
  <2>. QED  BY <2>3, <2>4, <2>5
<1>5. r = before \o after
  BY DEF Without, RemoveAt, k
<1> HIDE DEF before, after, r
<1>6. /\ r \in Seq(S) /\ Len(r) = n - 1
      /\ \A i \in 1 .. n - 1 : r[i] = IF i < k THEN s[i] ELSE s[i + 1]
  <2>1. /\ r \in Seq(S) /\ Len(r) = (k - 1) + (n - k)
        /\ \A i \in 1 .. (k - 1) + (n - k) :
             r[i] = IF i <= k - 1 THEN before[i] ELSE after[i - (k - 1)]
    <3>1. /\ r \in Seq(S) /\ Len(r) = Len(before) + Len(after)
          /\ \A i \in 1 .. Len(before) + Len(after) :
               r[i] = IF i <= Len(before) THEN before[i] ELSE after[i - Len(before)]
      BY <1>3, <1>4, <1>5, ConcatProperties
    <3>2. Len(before) = k - 1 /\ Len(after) = n - k
      BY <1>3, <1>4
    <3>. QED  BY <3>1, <3>2
  <2>2. (k - 1) + (n - k) = n - 1
    BY <1>1, <1>2
  <2>3. ASSUME NEW i \in 1 .. n - 1  PROVE r[i] = IF i < k THEN s[i] ELSE s[i + 1]
    <3>1. CASE i < k
      BY <1>1, <1>2, <1>3, <2>1, <2>2, <3>1
    <3>2. CASE i >= k
      <4>1. r[i] = after[i - (k - 1)] /\ i - (k - 1) \in 1 .. n - k
        BY <1>1, <1>2, <2>1, <2>2, <3>2
      <4>2. after[i - (k - 1)] = s[k + (i - (k - 1))] /\ k + (i - (k - 1)) = i + 1
        BY <1>2, <1>4, <4>1
      <4>. QED  BY <1>2, <3>2, <4>1, <4>2
    <3>. QED  BY <1>2, <3>1, <3>2
  <2>. QED  BY <2>1, <2>2, <2>3
<1>7. Injective(r)
  BY <1>1, <1>2, <1>6 DEF Injective
<1>8. \A i \in 1 .. n - 1 : r[i] # p
  BY <1>1, <1>2, <1>6 DEF Injective
<1>9. ASSUME NEW q \in Range(s), q # p  PROVE \E i \in 1 .. n - 1 : r[i] = q
  <2>1. PICK i \in 1 .. n : s[i] = q
    BY <1>1 DEF Range
  <2>2. i # k
    BY <1>2, <1>9, <2>1
  <2>3. CASE i < k
    BY <1>2, <1>6, <2>1, <2>3
  <2>4. CASE i > k
    <3>1. i - 1 \in 1 .. n - 1 /\ r[i - 1] = s[i]
      BY <1>2, <1>6, <2>1, <2>4
    <3>. QED  BY <2>1, <3>1
  <2>. QED  BY <1>2, <2>1, <2>2, <2>3, <2>4
<1>10. DOMAIN r = 1 .. n - 1
  BY <1>6
<1>11. Range(r) = Range(s) \ {p}
  <2>1. ASSUME NEW i \in 1 .. n - 1  PROVE r[i] \in Range(s)
    <3>1. i \in DOMAIN s /\ i + 1 \in DOMAIN s
      BY <1>1
    <3>. QED  BY <1>6, <3>1 DEF Range
  <2>2. \A x \in Range(r) : \E i \in 1 .. n - 1 : r[i] = x
    BY <1>10 DEF Range
  <2>3. \A i \in 1 .. n - 1 : r[i] \in Range(r)
    BY <1>10 DEF Range
  <2>. QED  BY <1>8, <1>9, <2>1, <2>2, <2>3
<1>. QED  BY <1>6, <1>7, <1>11 DEF r

\* A list without repetitions keeps none when a new member is added.
LEMMA AppendKeepsApart ==
  ASSUME NEW S, NEW s \in Seq(S), NEW p \in S, p \notin Range(s)
  PROVE  /\ Append(s, p) \in Seq(S) /\ Len(Append(s, p)) = Len(s) + 1
         /\ Range(Append(s, p)) = Range(s) \cup {p}
         /\ Injective(s) => Injective(Append(s, p))
<1> DEFINE r == Append(s, p)
<1>1. /\ r \in Seq(S) /\ Len(s) \in Nat /\ Len(r) = Len(s) + 1 /\ r[Len(s) + 1] = p
      /\ \A i \in 1 .. Len(s) : r[i] = s[i]
  BY AppendProperties
<1>2. DOMAIN s = 1 .. Len(s) /\ DOMAIN r = 1 .. Len(s) + 1
  BY <1>1
<1> HIDE DEF r
<1>3. \A i \in 1 .. Len(s) : s[i] # p
  BY <1>2 DEF Range
<1>4. Range(r) = Range(s) \cup {p}
  BY <1>1, <1>2 DEF Range
<1>5. Injective(s) => Injective(r)
  BY <1>1, <1>3 DEF Injective
<1>. QED  BY <1>1, <1>4, <1>5 DEF r

-----------------------------------------------------------------------------
(* The inductive invariant of the room *)

Status == {"open", "in_game", "between_games", "abandoned", "deleted"}

Calls ==
  {Idle} \cup [op : {"join"}, before : Nat] \cup [op : {"leave"}, host : Players \cup {NoOne}]
         \cup [op : {"start", "rematch", "gone", "last"}]

GameRows ==
  [seq : Nat \ {0}, status : {"active", "completed"}, seats : SUBSET Players, old : BOOLEAN]

RoomTyped ==
  /\ room \in [status : Status, host : Players \cup {NoOne}, nameTaken : BOOLEAN]
  /\ members \in Seq(Players) /\ Injective(members)
  /\ left \subseteq Players /\ ready \subseteq Players
  /\ games \subseteq GameRows
  /\ call \in [Players -> Calls] /\ touched \in BOOLEAN

\* The requests in flight go by what is still so: one join at most, which has
\* counted no fewer members than there are; who leaves is a member until the
\* leave is committed, and has left from then on.
OneJoin == \A p, q \in Players : call[p].op = "join" /\ call[q].op = "join" => p = q

CallFits(p) ==
  /\ call[p].op = "join" =>
       /\ room.status = "open" /\ p \notin Present \cup left
       /\ Len(members) <= call[p].before /\ call[p].before < Capacity
  /\ call[p].op = "leave" /\ room.status # "deleted" => p \in Present
  /\ call[p].op \in {"gone", "last"} => p \in left

\* Nobody is a member twice or again; a room that is gone has no members.
MembersSound ==
  /\ CapacityKept
  /\ left \cap Present = {}
  /\ Founder \in Present \cup left \/ room.status = "deleted"
  /\ room.status = "deleted" => members = <<>>
  /\ OneJoin
  /\ \A p \in Players : CallFits(p)

\* The games of gs in a room of the given status: numbered, with a last one,
\* which is the only one that can be going on; none before the first deal.
GamesOK(gs, status) ==
  /\ \E b \in Nat : \A g \in gs : g.seq <= b
  /\ \A g, h \in gs : g.seq = h.seq => g = h
  /\ \A g \in gs : g.old => g.status = "completed"
  /\ \A g \in gs : g.status = "active" =>
       /\ status \in {"in_game", "abandoned"}
       /\ \A h \in gs : h.seq <= g.seq
  /\ status = "in_game" => \E g \in gs : g.status = "active"
  /\ status \in {"open", "deleted"} => gs = {}

RoomSound == RoomTyped /\ MembersSound /\ GamesOK(games, room.status)

\* The number of the latest game on record, from the games' having numbers.
LEMMA LatestGame ==
  ASSUME RoomTyped, GamesOK(games, room.status), NEW gs \in SUBSET games, gs # {}
  PROVE  /\ Max({g.seq : g \in gs}) \in {g.seq : g \in gs}
         /\ Max({g.seq : g \in gs}) \in Nat \ {0}
         /\ \A g \in gs : g.seq <= Max({h.seq : h \in gs})
<1> DEFINE S == {g.seq : g \in gs}
<1>1. \A g \in gs : g.seq \in Nat \ {0}
  BY DEF RoomTyped, GameRows
<1>2. S \in SUBSET Nat /\ S # {} /\ 0 \notin S
  BY <1>1
<1>3. PICK b \in Nat : \A g \in games : g.seq <= b
  BY DEF GamesOK
<1>4. \A n \in S : n <= b
  BY <1>3
<1>5. Max(S) \in S /\ \A n \in S : n <= Max(S)
  BY <1>2, <1>3, <1>4, GreatestNatural
<1>6. \A g \in gs : g.seq \in S
  OBVIOUS
<1>. QED  BY <1>2, <1>5, <1>6

\* The number of a rematch is above those of all games on record.
LEMMA NextSeqIsNext ==
  ASSUME RoomTyped, GamesOK(games, room.status)
  PROVE  NextSeq \in Nat \ {0} /\ \A g \in games : g.seq < NextSeq
<1> DEFINE m == Max({g.seq : g \in games})
<1>1. CASE games = {}
  <2>1. NextSeq = 1
    BY <1>1 DEF NextSeq
  <2>. QED  BY <1>1, <2>1
<1>2. CASE games # {}
  <2>1. m \in Nat /\ \A g \in games : g.seq <= m
    BY <1>2, LatestGame
  <2>2. NextSeq = m + 1
    BY <1>2 DEF NextSeq
  <2>3. \A g \in games : g.seq \in Nat
    BY DEF RoomTyped, GameRows
  <2> HIDE DEF m
  <2>. QED  BY <2>1, <2>2, <2>3
<1>. QED  BY <1>1, <1>2

\* A deal with a number above all others, when no game is going on.
LEMMA DealKeepsGames ==
  ASSUME RoomTyped, GamesOK(games, room.status), room.status # "in_game",
         \A g \in games : g.status # "active",
         NEW seats \in SUBSET Players, NEW n \in Nat \ {0}, \A g \in games : g.seq < n,
         Deal(seats, n)
  PROVE  /\ GamesOK(games', room'.status) /\ games' \subseteq GameRows
         /\ room' \in [status : Status, host : Players \cup {NoOne}, nameTaken : BOOLEAN]
         /\ room'.status = "in_game" /\ ready' = {}
<1> DEFINE new == [seq |-> n, status |-> "active", seats |-> seats, old |-> FALSE]
<1>1. new \in GameRows /\ games' = games \cup {new}
  BY DEF Deal, GameRows
<1>2. new.seq = n /\ new.status = "active" /\ new.old = FALSE
  OBVIOUS
<1>3. /\ room' \in [status : Status, host : Players \cup {NoOne}, nameTaken : BOOLEAN]
      /\ room'.status = "in_game"
  BY DEF Deal, RoomTyped, Status
<1>4. games \subseteq GameRows /\ \A g \in games : g.seq \in Nat
  BY DEF RoomTyped, GameRows
<1> HIDE DEF new
<1>5. \A g \in games' : g.seq <= n
  BY <1>1, <1>2, <1>4
<1>6. \A g, h \in games' : g.seq = h.seq => g = h
  BY <1>1, <1>2, <1>4 DEF GamesOK
<1>7. \A g \in games' : g.old => g.status = "completed"
  BY <1>1, <1>2 DEF GamesOK
<1>8. \A g \in games' : g.status = "active" => g = new
  BY <1>1
<1>9. \E g \in games' : g.status = "active"
  BY <1>1, <1>2
<1>. QED  BY <1>1, <1>2, <1>3, <1>4, <1>5, <1>6, <1>7, <1>8, <1>9 DEF GamesOK, Deal

\* A game that ends or grows old keeps its number.
LEMMA ChangeKeepsGames ==
  ASSUME RoomTyped, GamesOK(games, room.status), NEW g \in games, NEW h \in GameRows,
         h.seq = g.seq, h.status = "completed", NEW status,
         games' = (games \ {g}) \cup {h},
         status \notin {"open", "deleted"},
         g.status = "active" => status = "between_games",
         g.status # "active" => status = room.status
  PROVE  GamesOK(games', status) /\ games' \subseteq GameRows
<1>1. games \subseteq GameRows
  BY DEF RoomTyped
<1>2. PICK b \in Nat : \A x \in games : x.seq <= b
  BY DEF GamesOK
<1>3. \A x \in games' : x.seq <= b
  BY <1>2
<1>4. \A x, y \in games' : x.seq = y.seq => x = y
  BY DEF GamesOK
<1>5. \A x \in games' : x.old => x.status = "completed"
  BY DEF GamesOK
<1>6. CASE g.status = "active"
  <2>1. \A x \in games' : x.status # "active"
    <3> SUFFICES ASSUME NEW x \in games', x.status = "active"  PROVE FALSE
      OBVIOUS
    <3>1. x \in games /\ x # g
      OBVIOUS
    <3>2. x.seq <= g.seq /\ g.seq <= x.seq
      BY <1>6, <3>1 DEF GamesOK
    <3>3. x.seq \in Nat /\ g.seq \in Nat
      BY <1>1, <3>1 DEF GameRows
    <3>4. x.seq = g.seq
      BY <3>2, <3>3
    <3>. QED  BY <3>1, <3>4 DEF GamesOK
  <2>. QED  BY <1>1, <1>2, <1>3, <1>4, <1>5, <1>6, <2>1 DEF GamesOK
<1>7. CASE g.status # "active"
  <2>1. ASSUME NEW x \in games', x.status = "active"
        PROVE  /\ status \in {"in_game", "abandoned"}
               /\ \A y \in games' : y.seq <= x.seq
    <3>1. x \in games
      BY <2>1
    <3>. QED  BY <1>7, <2>1, <3>1 DEF GamesOK
  <2>2. status = "in_game" => \E x \in games' : x.status = "active"
    <3> SUFFICES ASSUME status = "in_game"  PROVE \E x \in games' : x.status = "active"
      OBVIOUS
    <3>1. PICK x \in games : x.status = "active"
      BY <1>7 DEF GamesOK
    <3>. QED  BY <1>7, <3>1
  <2>. QED  BY <1>1, <1>2, <1>3, <1>4, <1>5, <1>7, <2>1, <2>2 DEF GamesOK
<1>. QED  BY <1>6, <1>7

\* The sweep takes a game that is over.
LEMMA DropKeepsGames ==
  ASSUME RoomTyped, GamesOK(games, room.status), NEW g \in games, g.old, games' = games \ {g}
  PROVE  GamesOK(games', room.status) /\ games' \subseteq GameRows
<1>1. PICK b \in Nat : \A x \in games : x.seq <= b
  BY DEF GamesOK
<1>2. g.status = "completed" /\ games' \subseteq games /\ games \subseteq GameRows
  BY DEF GamesOK, RoomTyped
<1>3. room.status = "in_game" => \E x \in games' : x.status = "active"
  <2> SUFFICES ASSUME room.status = "in_game"  PROVE \E x \in games' : x.status = "active"
    OBVIOUS
  <2>1. PICK x \in games : x.status = "active"
    BY DEF GamesOK
  <2>. QED  BY <1>2, <2>1
<1>. QED  BY <1>1, <1>2, <1>3 DEF GamesOK

-----------------------------------------------------------------------------
(* Every step keeps it *)

\* A handler moves its own player's request on and nobody else's.
LEMMA BusyMoves ==
  ASSUME call \in [Players -> Calls], NEW p \in Players, NEW r \in Calls, Busy(p, r)
  PROVE  /\ call' \in [Players -> Calls] /\ call'[p] = r
         /\ \A q \in Players : q # p => call'[q] = call[q]
  BY DEF Busy

\* The requests by their kinds.
LEMMA CallKinds ==
  /\ Idle \in Calls /\ Idle.op = "idle"
  /\ \A o \in {"start", "rematch", "gone", "last"} : [op |-> o] \in Calls /\ [op |-> o].op = o
  /\ \A n \in Nat : LET r == [op |-> "join", before |-> n]
                    IN  r \in Calls /\ r.op = "join" /\ r.before = n
  /\ \A h \in Players \cup {NoOne} : LET r == [op |-> "leave", host |-> h]
                                     IN  r \in Calls /\ r.op = "leave"
  /\ \A r \in Calls : /\ r.op = "join" => r.before \in Nat
                      /\ r.op = "leave" => r.host \in Players \cup {NoOne}
<1>1. Idle \in Calls /\ Idle.op = "idle"
  BY DEF Calls, Idle
<1>2. ASSUME NEW r \in Calls
      PROVE  /\ r.op = "join" => r.before \in Nat
             /\ r.op = "leave" => r.host \in Players \cup {NoOne}
  <2>1. CASE r = Idle
    BY <2>1, <1>1
  <2>2. CASE r \in [op : {"join"}, before : Nat]
    BY <2>2
  <2>3. CASE r \in [op : {"leave"}, host : Players \cup {NoOne}]
    BY <2>3
  <2>4. CASE r \in [op : {"start", "rematch", "gone", "last"}]
    BY <2>4
  <2>. QED  BY <2>1, <2>2, <2>3, <2>4 DEF Calls
<1>. QED  BY <1>1, <1>2 DEF Calls

\* A step that only takes a request of p on to r.
LEMMA CallOnly ==
  ASSUME RoomSound, NEW p \in Players, NEW r \in Calls, Busy(p, r),
         UNCHANGED <<room, members, left, ready, games, touched>>,
         r.op = "join" => /\ ~ Locked
                          /\ room.status = "open" /\ p \notin Present \cup left
                          /\ Len(members) <= r.before /\ r.before < Capacity,
         r.op = "leave" => p \in Present,
         r.op \in {"gone", "last"} => p \in left
  PROVE  RoomSound'
<1>1. /\ call' \in [Players -> Calls] /\ call'[p] = r
      /\ \A q \in Players : q # p => call'[q] = call[q]
  BY BusyMoves DEF RoomSound, RoomTyped
<1>2. RoomTyped'
  BY <1>1 DEF RoomSound, RoomTyped
<1>3. OneJoin'
  BY <1>1 DEF RoomSound, MembersSound, OneJoin, Locked
<1>4. ASSUME NEW q \in Players  PROVE CallFits(q)'
  <2>1. CallFits(q)
    BY DEF RoomSound, MembersSound
  <2>. QED  BY <1>1, <2>1 DEF CallFits, Present
<1>5. MembersSound'
  BY <1>3, <1>4 DEF RoomSound, MembersSound, CapacityKept, Present
<1>6. GamesOK(games, room.status)'
  BY DEF RoomSound, GamesOK
<1>. QED  BY <1>2, <1>5, <1>6 DEF RoomSound

\* A step that ends the request of p, or none, and leaves the members alone.
LEMMA SameMembers ==
  ASSUME RoomSound, call' \in [Players -> Calls],
         \A q \in Players : call'[q] = call[q] \/ call'[q] = Idle,
         UNCHANGED <<members, left>>,
         room' \in [status : Status, host : Players \cup {NoOne}, nameTaken : BOOLEAN],
         ready' \subseteq Players, touched' \in BOOLEAN, games' \subseteq GameRows,
         GamesOK(games', room'.status),
         room'.status = "deleted" <=> room.status = "deleted",
         room'.status = room.status \/ ~ Locked
  PROVE  RoomSound'
<1>1. RoomTyped'
  BY DEF RoomSound, RoomTyped
<1>2. \A q \in Players : Idle.op = "idle" /\ (call'[q].op # "idle" => call'[q] = call[q])
  BY CallKinds
<1>3. OneJoin'
  BY <1>2 DEF RoomSound, MembersSound, OneJoin
<1>4. ASSUME NEW q \in Players  PROVE CallFits(q)'
  <2>1. CallFits(q)
    BY DEF RoomSound, MembersSound
  <2>2. call'[q].op \in {"join", "leave", "gone", "last"} => call'[q] = call[q]
    BY <1>2
  <2>3. call'[q].op = "join" => room'.status = room.status
    BY <2>2 DEF Locked
  <2>. QED  BY <2>1, <2>2, <2>3 DEF CallFits, Present
<1>5. MembersSound'
  BY <1>3, <1>4 DEF RoomSound, MembersSound, CapacityKept, Present
<1>6. GamesOK(games, room.status)'
  BY DEF GamesOK
<1>. QED  BY <1>1, <1>5, <1>6 DEF RoomSound

\* Whoever counts the members holds the row until the count is used.
LEMMA JoinCheckKeeps ==
  ASSUME RoomSound, NEW p \in Players, JoinCheck(p)
  PROVE  RoomSound'
<1> DEFINE r == [op |-> "join", before |-> Len(members)]
<1>1. Len(members) \in Nat
  BY DEF RoomSound, RoomTyped
<1>2. r \in Calls /\ r.op = "join" /\ r.before = Len(members)
  BY <1>1, CallKinds
<1>3. Busy(p, r) /\ UNCHANGED <<room, members, left, ready, games, touched>>
  BY DEF JoinCheck
<1> HIDE DEF r
<1>. QED  BY <1>1, <1>2, <1>3, CallOnly DEF JoinCheck

\* To be taken for the host changes nothing yet.
LEMMA AskKeeps ==
  ASSUME RoomSound, NEW p \in Players, AskStart(p) \/ AskRematch(p)
  PROVE  RoomSound'
<1>1. PICK o \in {"start", "rematch"} : AsHost(p, o)
  BY DEF AskStart, AskRematch
<1>2. [op |-> o] \in Calls /\ [op |-> o].op = o
  BY CallKinds
<1>. QED  BY <1>1, <1>2, CallOnly DEF AsHost

\* A leave begins with a look at the room.
LEMMA LeaveReadKeeps ==
  ASSUME RoomSound, NEW p \in Players, LeaveRead(p)
  PROVE  RoomSound'
<1> DEFINE r == [op |-> "leave", host |-> room.host]
<1>1. r \in Calls /\ r.op = "leave"
  BY CallKinds DEF RoomSound, RoomTyped
<1>2. Busy(p, r) /\ p \in Present /\ UNCHANGED <<room, members, left, ready, games, touched>>
  BY DEF LeaveRead
<1> HIDE DEF r
<1>. QED  BY <1>1, <1>2, CallOnly

\* The members still there are listed after the leave is committed.
LEMMA LeaveListKeeps ==
  ASSUME RoomSound, NEW p \in Players, LeaveList(p)
  PROVE  RoomSound'
<1> DEFINE r == IF members = <<>> THEN [op |-> "last"] ELSE Idle
<1>1. r \in Calls /\ r.op \in {"last", "idle"}
  BY CallKinds
<1>2. Busy(p, r) /\ UNCHANGED <<room, members, left, ready, games, touched>>
  BY DEF LeaveList
<1>3. p \in left
  BY DEF LeaveList, RoomSound, MembersSound, CallFits
<1> HIDE DEF r
<1>. QED  BY <1>1, <1>2, <1>3, CallOnly

\* The join that was counted finds the place it counted on, and may deal.
LEMMA JoinCommitKeeps ==
  ASSUME RoomSound, NEW p \in Players, JoinCommit(p)
  PROVE  RoomSound'
<1>1. /\ call' \in [Players -> Calls] /\ call'[p] = Idle /\ Idle.op = "idle"
      /\ \A q \in Players : q # p => call'[q] = call[q]
  BY BusyMoves, CallKinds DEF RoomSound, RoomTyped, JoinCommit, Done
<1>2. /\ call[p].before \in Nat /\ room.status = "open" /\ p \notin Present \cup left
      /\ Len(members) <= call[p].before /\ call[p].before < Capacity
  <2>1. CallFits(p) /\ call[p].op = "join" /\ call[p] \in Calls
    BY DEF RoomSound, RoomTyped, MembersSound, JoinCommit
  <2>. QED  BY <2>1, CallKinds DEF CallFits
<1>3. /\ members' \in Seq(Players) /\ Injective(members') /\ Len(members') = Len(members) + 1
      /\ Present' = Present \cup {p}
  BY <1>2, AppendKeepsApart DEF RoomSound, RoomTyped, JoinCommit, Present
<1>4. games = {}
  BY <1>2 DEF RoomSound, GamesOK
<1>5. /\ room' \in [status : Status, host : Players \cup {NoOne}, nameTaken : BOOLEAN]
      /\ ready' \subseteq Players /\ games' \subseteq GameRows
      /\ GamesOK(games', room'.status) /\ room'.status \in {"open", "in_game"}
  <2>1. CASE UNCHANGED <<room, ready, games>>
    BY <1>2, <2>1 DEF RoomSound, RoomTyped
  <2>2. CASE Deal(Present \cup {p}, 1)
    <3>1. Present \cup {p} \in SUBSET Players
      BY DEF RoomSound, RoomTyped, Present, Range
    <3>2. 1 \in Nat \ {0} /\ room.status # "in_game"
      BY <1>2
    <3>. QED  BY <1>4, <2>2, <3>1, <3>2, DealKeepsGames DEF RoomSound
  <2>. QED  BY <2>1, <2>2 DEF JoinCommit
<1>6. RoomTyped'
  BY <1>1, <1>3, <1>5 DEF RoomSound, RoomTyped, JoinCommit
<1>7. CapacityKept'
  <2>1. Len(members) \in Nat /\ Capacity \in Nat
    BY RoomAssumption DEF RoomSound, RoomTyped
  <2>. QED  BY <1>2, <1>3, <2>1 DEF CapacityKept
<1>8. \A q \in Players : call'[q].op # "join"
  <2>1. call[p].op = "join"
    BY DEF JoinCommit
  <2>. QED  BY <1>1, <2>1 DEF RoomSound, MembersSound, OneJoin
<1>9. ASSUME NEW q \in Players  PROVE CallFits(q)'
  <2>1. CallFits(q)
    BY DEF RoomSound, MembersSound
  <2>2. left' = left
    BY DEF JoinCommit
  <2>. QED  BY <1>1, <1>2, <1>3, <1>8, <2>1, <2>2 DEF CallFits
<1>10. MembersSound'
  BY <1>2, <1>3, <1>5, <1>7, <1>8, <1>9 DEF RoomSound, MembersSound, OneJoin, JoinCommit
<1>. QED  BY <1>5, <1>6, <1>10 DEF RoomSound, GamesOK

\* A start or a rematch: a deal, or nothing.
LEMMA StartKeeps ==
  ASSUME RoomSound, NEW p \in Players, Start(p) \/ Rematch(p)
  PROVE  RoomSound'
<1>1. /\ call' \in [Players -> Calls]
      /\ \A q \in Players : call'[q] = call[q] \/ call'[q] = Idle
  BY BusyMoves, CallKinds DEF RoomSound, RoomTyped, Start, Rematch, Done
<1>2. ~ Locked /\ UNCHANGED <<members, left, touched>>
  BY DEF Start, Rematch
<1>3. CASE UNCHANGED <<room, ready, games>>
  <2>1. GamesOK(games', room'.status)
    BY <1>3 DEF RoomSound
  <2>. QED  BY <1>1, <1>2, <1>3, <2>1, SameMembers DEF RoomSound, RoomTyped
<1>4. ASSUME NEW seats \in SUBSET Players, NEW n \in Nat \ {0}, Deal(seats, n),
             room.status \notin {"in_game", "deleted"}, \A g \in games : g.status # "active",
             \A g \in games : g.seq < n
      PROVE  RoomSound'
  <2>1. /\ GamesOK(games', room'.status) /\ games' \subseteq GameRows
        /\ room' \in [status : Status, host : Players \cup {NoOne}, nameTaken : BOOLEAN]
        /\ room'.status = "in_game" /\ ready' = {}
    BY <1>4, DealKeepsGames DEF RoomSound
  <2>. QED  BY <1>1, <1>2, <1>4, <2>1, SameMembers DEF RoomSound, RoomTyped
<1>5. Present \in SUBSET Players /\ ReadyMembers \in SUBSET Players
  BY DEF RoomSound, RoomTyped, Present, Range, ReadyMembers
<1>6. CASE Start(p) /\ room.status = "open" /\ Deal(ReadyMembers, 1)
  <2>1. games = {}
    BY <1>6 DEF RoomSound, GamesOK
  <2>. QED  BY <1>4, <1>5, <1>6, <2>1
<1>7. CASE Rematch(p) /\ room.status = "between_games" /\ Deal(Present, NextSeq)
  <2>1. \A g \in games : g.status # "active"
    BY <1>7 DEF RoomSound, GamesOK
  <2>2. NextSeq \in Nat \ {0} /\ \A g \in games : g.seq < NextSeq
    BY NextSeqIsNext DEF RoomSound
  <2>. QED  BY <1>4, <1>5, <1>7, <2>1, <2>2
<1>. QED  BY <1>3, <1>6, <1>7 DEF Start, Rematch

\* The place of a member who leaves is closed up, and only then has the member
\* left; a join that goes on meanwhile has counted more members, not fewer.
LEMMA LeaveCommitKeeps ==
  ASSUME RoomSound, NEW p \in Players, LeaveCommit(p)
  PROVE  RoomSound'
<1> DEFINE rest == Without(members, p)
<1>1. /\ call[p].op = "leave" /\ room.status # "deleted"
      /\ members' = rest /\ left' = left \cup {p}
      /\ UNCHANGED <<ready, games, touched>>
      /\ \/ ~ Locked /\ room' = [room EXCEPT !.host = IF rest = <<>> THEN NoOne ELSE Head(rest)]
         \/ UNCHANGED room
  BY DEF LeaveCommit, Without
<1>2. p \in Present
  BY <1>1 DEF RoomSound, MembersSound, CallFits
<1>3. /\ call' \in [Players -> Calls] /\ call'[p].op = "gone"
      /\ \A q \in Players : q # p => call'[q] = call[q]
  <2>1. [op |-> "gone"] \in Calls /\ [op |-> "gone"].op = "gone"
    BY CallKinds
  <2>. QED  BY <2>1, BusyMoves DEF RoomSound, RoomTyped, LeaveCommit
<1>4. /\ rest \in Seq(Players) /\ Injective(rest) /\ Len(rest) = Len(members) - 1
      /\ Range(rest) = Present \ {p}
  BY <1>2, WithoutProperties DEF RoomSound, RoomTyped, Present
<1> HIDE DEF rest
<1>5. Present' = Present \ {p}
  BY <1>1, <1>4 DEF Present
<1>6. /\ room' \in [status : Status, host : Players \cup {NoOne}, nameTaken : BOOLEAN]
      /\ room'.status = room.status
  <2>1. (IF rest = <<>> THEN NoOne ELSE Head(rest)) \in Players \cup {NoOne}
    <3>1. rest # <<>> => Head(rest) \in Players
      BY <1>4
    <3>. QED  BY <3>1
  <2>. QED  BY <1>1, <2>1 DEF RoomSound, RoomTyped
<1>7. RoomTyped'
  BY <1>1, <1>3, <1>4, <1>6 DEF RoomSound, RoomTyped
<1>8. /\ Len(members) \in Nat /\ Capacity \in Nat /\ Len(members') = Len(members) - 1
      /\ Len(members) <= Capacity
  BY <1>1, <1>4, RoomAssumption DEF RoomSound, RoomTyped, MembersSound, CapacityKept
<1>9. OneJoin'
  BY <1>3 DEF RoomSound, MembersSound, OneJoin
<1>10. ASSUME NEW q \in Players  PROVE CallFits(q)'
  <2>1. CASE q = p
    BY <1>1, <1>3, <2>1 DEF CallFits
  <2>2. CASE q # p
    <3>1. CallFits(q) /\ call'[q] = call[q] /\ call[q] \in Calls
      BY <1>3, <2>2 DEF RoomSound, RoomTyped, MembersSound
    <3>2. call[q].op = "join" => Len(members') <= call[q].before
      <4>1. call[q].op = "join" => call[q].before \in Nat /\ Len(members) <= call[q].before
        BY <3>1, CallKinds DEF CallFits
      <4>. QED  BY <1>8, <4>1
    <3>3. call[q].op = "join" => q \notin Present' \cup left'
      BY <1>1, <1>5, <2>2, <3>1 DEF CallFits
    <3>4. call[q].op = "leave" /\ room.status # "deleted" => q \in Present'
      BY <1>5, <2>2, <3>1 DEF CallFits
    <3>5. call[q].op \in {"gone", "last"} => q \in left'
      BY <1>1, <3>1 DEF CallFits
    <3>. QED  BY <1>6, <3>1, <3>2, <3>3, <3>4, <3>5 DEF CallFits
  <2>. QED  BY <2>1, <2>2
<1>11. MembersSound'
  <2>1. CapacityKept'
    BY <1>8 DEF CapacityKept
  <2>2. left' \cap Present' = {} /\ (Founder \in Present' \cup left' \/ room'.status = "deleted")
    BY <1>1, <1>5, <1>6 DEF RoomSound, MembersSound
  <2>. QED  BY <1>1, <1>6, <1>9, <1>10, <2>1, <2>2 DEF MembersSound
<1>. QED  BY <1>1, <1>6, <1>7, <1>11 DEF RoomSound, GamesOK

\* To be ready changes no membership.
LEMMA SetReadyKeeps ==
  ASSUME RoomSound, NEW p \in Players, NEW b, SetReady(p, b)
  PROVE  RoomSound'
<1>1. /\ ready' \subseteq Players /\ UNCHANGED <<room, members, left, games, call, touched>>
  BY DEF SetReady, RoomSound, RoomTyped
<1>2. GamesOK(games', room'.status)
  BY <1>1 DEF RoomSound
<1>. QED  BY <1>1, <1>2, SameMembers DEF RoomSound, RoomTyped

\* The room of the last member to leave is marked abandoned.
LEMMA LeaveAbandonKeeps ==
  ASSUME RoomSound, NEW p \in Players, LeaveAbandon(p)
  PROVE  RoomSound'
<1>1. /\ call' \in [Players -> Calls]
      /\ \A q \in Players : call'[q] = call[q] \/ call'[q] = Idle
  BY BusyMoves, CallKinds DEF RoomSound, RoomTyped, LeaveAbandon, Done
<1>2. /\ room' \in [status : Status, host : Players \cup {NoOne}, nameTaken : BOOLEAN]
      /\ room'.status = "abandoned" /\ room.status # "deleted" /\ ~ Locked
  BY DEF LeaveAbandon, RoomSound, RoomTyped, Status
<1>3. UNCHANGED <<members, left, ready, games, touched>>
  BY DEF LeaveAbandon
<1>4. GamesOK(games', room'.status)
  BY <1>2, <1>3 DEF RoomSound, GamesOK
<1>. QED  BY <1>1, <1>2, <1>3, <1>4, SameMembers DEF RoomSound, RoomTyped

\* A name that is taken or given back.
LEMMA NameTakenKeeps ==
  ASSUME RoomSound, NEW taken \in BOOLEAN, NameTaken(taken)
  PROVE  RoomSound'
<1>1. /\ room' \in [status : Status, host : Players \cup {NoOne}, nameTaken : BOOLEAN]
      /\ room'.status = room.status /\ UNCHANGED <<members, left, ready, games, call, touched>>
  BY DEF NameTaken, RoomSound, RoomTyped
<1>2. GamesOK(games', room'.status)
  BY <1>1 DEF RoomSound
<1>. QED  BY <1>1, <1>2, SameMembers DEF RoomSound, RoomTyped

\* The transition that ends a game frees its room with it.
LEMMA EndGameKeeps ==
  ASSUME RoomSound, NEW g \in games, EndGame(g)
  PROVE  RoomSound'
<1> DEFINE h == [g EXCEPT !.status = "completed"]
<1>1. g \in GameRows
  BY DEF RoomSound, RoomTyped
<1>2. h \in GameRows /\ h.seq = g.seq /\ h.status = "completed"
  BY <1>1 DEF GameRows
<1>3. games' = (games \ {g}) \cup {h} /\ g.status = "active" /\ ~ Locked
  BY DEF EndGame
<1>4. /\ room' \in [status : Status, host : Players \cup {NoOne}, nameTaken : BOOLEAN]
      /\ room'.status = "between_games"
  BY DEF EndGame, RoomSound, RoomTyped, Status
<1>5. UNCHANGED <<members, left, ready, call, touched>>
  BY DEF EndGame
<1> HIDE DEF h
<1>6. GamesOK(games', room'.status) /\ games' \subseteq GameRows
  BY <1>2, <1>3, <1>4, ChangeKeepsGames DEF RoomSound
<1>7. room.status # "deleted"
  BY DEF RoomSound, GamesOK
<1>. QED  BY <1>3, <1>4, <1>5, <1>6, <1>7, SameMembers DEF RoomSound, RoomTyped

\* A finished game grows old.
LEMMA GrowsOldKeeps ==
  ASSUME RoomSound, NEW g \in games, GrowsOld(g)
  PROVE  RoomSound'
<1> DEFINE h == [g EXCEPT !.old = TRUE]
<1>1. g \in GameRows
  BY DEF RoomSound, RoomTyped
<1>2. h \in GameRows /\ h.seq = g.seq /\ h.status = "completed"
  BY <1>1 DEF GameRows, GrowsOld
<1>3. games' = (games \ {g}) \cup {h} /\ g.status # "active"
  BY DEF GrowsOld
<1>4. UNCHANGED <<room, members, left, ready, call, touched>>
  BY DEF GrowsOld
<1> HIDE DEF h
<1>5. room.status \notin {"open", "deleted"}
  BY DEF RoomSound, GamesOK
<1>6. GamesOK(games', room'.status) /\ games' \subseteq GameRows
  BY <1>2, <1>3, <1>4, <1>5, ChangeKeepsGames DEF RoomSound
<1>. QED  BY <1>4, <1>6, SameMembers DEF RoomSound, RoomTyped

\* The sweep deletes an old game, which frees no number.
LEMMA SweepGameKeeps ==
  ASSUME RoomSound, NEW g \in games, SweepGame(g)
  PROVE  RoomSound'
<1>1. g.old /\ games' = games \ {g} /\ touched' = TRUE
  BY DEF SweepGame
<1>2. UNCHANGED <<room, members, left, ready, call>>
  BY DEF SweepGame
<1>3. GamesOK(games', room'.status) /\ games' \subseteq GameRows
  BY <1>1, <1>2, DropKeepsGames DEF RoomSound
<1>. QED  BY <1>1, <1>2, <1>3, SameMembers DEF RoomSound, RoomTyped

\* The room goes when its last game is gone; no join is under way then, and who
\* is leaving leaves nothing.
LEMMA SweepRoomKeeps ==
  ASSUME RoomSound, SweepRoom
  PROVE  RoomSound'
<1>1. touched' = FALSE /\ ~ Locked /\ UNCHANGED <<left, ready, games, call>>
  BY DEF SweepRoom
<1>2. CASE UNCHANGED <<room, members>>
  <2>1. GamesOK(games', room'.status)
    BY <1>1, <1>2 DEF RoomSound
  <2>. QED  BY <1>1, <1>2, <2>1, SameMembers DEF RoomSound, RoomTyped
<1>3. CASE games = {} /\ room' = [room EXCEPT !.status = "deleted"] /\ members' = <<>>
  <2>1. /\ room' \in [status : Status, host : Players \cup {NoOne}, nameTaken : BOOLEAN]
        /\ room'.status = "deleted"
    BY <1>3 DEF RoomSound, RoomTyped, Status
  <2>2. /\ members' \in Seq(Players) /\ Injective(members') /\ Len(members') = 0
        /\ Present' = {}
    BY <1>3 DEF Injective, Present, Range
  <2>3. RoomTyped'
    BY <1>1, <2>1, <2>2 DEF RoomSound, RoomTyped
  <2>4. \A q \in Players : call[q].op # "join"
    BY <1>1 DEF Locked
  <2>5. ASSUME NEW q \in Players  PROVE CallFits(q)'
    <3>1. CallFits(q)
      BY DEF RoomSound, MembersSound
    <3>. QED  BY <1>1, <2>1, <2>4, <3>1 DEF CallFits
  <2>6. MembersSound'
    <3>1. CapacityKept'
      BY <2>2, RoomAssumption DEF CapacityKept
    <3>2. OneJoin'
      BY <1>1, <2>4 DEF OneJoin
    <3>. QED  BY <1>3, <2>1, <2>2, <2>5, <3>1, <3>2 DEF MembersSound
  <2>7. GamesOK(games', room'.status)
    BY <1>1, <1>3, <2>1 DEF GamesOK, RoomSound
  <2>. QED  BY <2>3, <2>6, <2>7 DEF RoomSound
<1>. QED  BY <1>2, <1>3 DEF SweepRoom

\* A restart forgets the requests and the sweep's memory, and no row.
LEMMA RestartKeeps ==
  ASSUME RoomSound, Restart
  PROVE  RoomSound'
<1>1. /\ call' \in [Players -> Calls] /\ \A q \in Players : call'[q] = Idle
      /\ touched' = FALSE /\ UNCHANGED <<room, members, left, ready, games>>
  BY CallKinds DEF Restart
<1>2. GamesOK(games', room'.status)
  BY <1>1 DEF RoomSound
<1>. QED  BY <1>1, <1>2, SameMembers DEF RoomSound, RoomTyped

\* A room just created is sound.
LEMMA InitRoomSound ==
  ASSUME Init
  PROVE  RoomSound
<1>1. members = <<Founder>> /\ Founder \in Players
  BY RoomAssumption DEF Init
<1>2. /\ members \in Seq(Players) /\ Injective(members) /\ Len(members) = 1
      /\ Present = {Founder}
  BY <1>1 DEF Injective, Present, Range
<1>3. RoomTyped
  BY <1>1, <1>2, CallKinds DEF Init, RoomTyped, Status
<1>4. \A q \in Players : call[q].op = "idle"
  BY CallKinds DEF Init
<1>5. MembersSound
  <2>1. CapacityKept
    BY <1>2, RoomAssumption DEF CapacityKept
  <2>2. room.status = "open" /\ left = {}
    BY DEF Init
  <2>3. OneJoin /\ \A q \in Players : CallFits(q)
    BY <1>4 DEF OneJoin, CallFits
  <2>. QED  BY <1>2, <2>1, <2>2, <2>3 DEF MembersSound
<1>6. GamesOK(games, room.status)
  BY DEF Init, GamesOK
<1>. QED  BY <1>3, <1>5, <1>6 DEF RoomSound

\* Every step of every handler keeps the invariant.
LEMMA StepKeepsRoom ==
  ASSUME RoomSound, [Next]_vars
  PROVE  RoomSound'
<1>1. CASE \E p \in Players :
             \/ JoinCheck(p) \/ JoinCommit(p) \/ SetReady(p, TRUE) \/ SetReady(p, FALSE)
             \/ AskStart(p) \/ AskRematch(p) \/ Start(p) \/ Rematch(p)
             \/ LeaveRead(p) \/ LeaveCommit(p) \/ LeaveList(p) \/ LeaveAbandon(p)
  BY <1>1, JoinCheckKeeps, JoinCommitKeeps, SetReadyKeeps, AskKeeps, StartKeeps, LeaveReadKeeps,
     LeaveCommitKeeps, LeaveListKeeps, LeaveAbandonKeeps
<1>2. CASE \E g \in games : EndGame(g) \/ GrowsOld(g) \/ SweepGame(g)
  BY <1>2, EndGameKeeps, GrowsOldKeeps, SweepGameKeeps
<1>3. CASE NameTaken(TRUE) \/ NameTaken(FALSE)
  BY <1>3, NameTakenKeeps
<1>4. CASE SweepRoom
  BY <1>4, SweepRoomKeeps
<1>5. CASE Restart
  BY <1>5, RestartKeeps
<1>6. CASE UNCHANGED vars
  <2>1. UNCHANGED <<room, members, left, ready, games, call, touched>>
    BY <1>6 DEF vars
  <2>2. GamesOK(games', room'.status)
    BY <2>1 DEF RoomSound
  <2>. QED  BY <2>1, <2>2, SameMembers DEF RoomSound, RoomTyped
<1>. QED  BY <1>1, <1>2, <1>3, <1>4, <1>5, <1>6 DEF Next

-----------------------------------------------------------------------------
(* What holds of the room *)

\* The room is sound in every reachable state.
THEOREM RoomSoundAlways == Spec => []RoomSound
<1>1. Init => RoomSound
  BY InitRoomSound
<1>2. RoomSound /\ [Next]_vars => RoomSound'
  BY StepKeepsRoom
<1>. QED  BY <1>1, <1>2, PTL DEF Spec

\* The invariant implies the properties of the room.
LEMMA SoundRoomSafe ==
  ASSUME RoomSound
  PROVE  OneGameAtATime /\ CapacityKept /\ GamesNumbered /\ RoomOutlivesGames
<1>1. Cardinality(ActiveGames) <= 1
  <2>1. CASE ActiveGames = {}
    <3>1. Cardinality(ActiveGames) = 0
      BY <2>1, FS_EmptySet
    <3>. QED  BY <3>1
  <2>2. CASE ActiveGames # {}
    <3>1. PICK g \in ActiveGames : TRUE
      BY <2>2
    <3>2. ASSUME NEW h \in ActiveGames  PROVE h = g
      <4>1. g \in games /\ h \in games /\ h.seq <= g.seq /\ g.seq <= h.seq
        BY <3>1, <3>2 DEF RoomSound, GamesOK, ActiveGames
      <4>2. g.seq \in Nat /\ h.seq \in Nat
        BY <4>1 DEF RoomSound, RoomTyped, GameRows
      <4>3. g.seq = h.seq
        BY <4>1, <4>2
      <4>. QED  BY <4>1, <4>3 DEF RoomSound, GamesOK
    <3>3. ActiveGames = {g}
      BY <3>1, <3>2
    <3>4. Cardinality({g}) = 1
      BY FS_Singleton
    <3>. QED  BY <3>3, <3>4
  <2>. QED  BY <2>1, <2>2
<1>. QED  BY <1>1 DEF RoomSound, GamesOK, MembersSound, OneGameAtATime, ActiveGames, GamesNumbered,
             RoomOutlivesGames

\* A room plays one game at a time, and its status says whether it does,
\* whatever joins, starts, rematches, leaves and sweeps race over it.
THEOREM OneGameAtATimeAlways == Spec => []OneGameAtATime
<1>1. RoomSound => OneGameAtATime
  BY SoundRoomSafe
<1>. QED  BY <1>1, RoomSoundAlways, PTL

\* A room never has more members than it takes.
THEOREM CapacityKeptAlways == Spec => []CapacityKept
<1>1. RoomSound => CapacityKept
  BY SoundRoomSafe
<1>. QED  BY <1>1, RoomSoundAlways, PTL

\* No two games of a room on record have the same number.
THEOREM GamesNumberedAlways == Spec => []GamesNumbered
<1>1. RoomSound => GamesNumbered
  BY SoundRoomSafe
<1>. QED  BY <1>1, RoomSoundAlways, PTL

\* A room is never deleted from under a game.
THEOREM RoomOutlivesGamesAlways == Spec => []RoomOutlivesGames
<1>1. RoomSound => RoomOutlivesGames
  BY SoundRoomSafe
<1>. QED  BY <1>1, RoomSoundAlways, PTL

\* Who is dealt in is a member at that moment.
THEOREM SeatsAreMembersAlways == Spec => SeatsAreMembers
<1> DEFINE A == \A g \in games' :
                  g.status = "active" /\ (\A h \in games : h.seq # g.seq)
                    => g.seats \subseteq Range(members')
<1>1. ASSUME RoomSound, [Next]_vars  PROVE A
  <2> SUFFICES ASSUME NEW g \in games', \A h \in games : h.seq # g.seq
               PROVE  g.seats \subseteq Range(members')
    OBVIOUS
  <2>1. g \notin games
    OBVIOUS
  <2>2. ASSUME NEW seats, NEW n, Deal(seats, n)  PROVE g.seats = seats
    BY <2>1, <2>2 DEF Deal
  <2>3. CASE \E p \in Players : JoinCommit(p)
    <3>1. PICK p \in Players : JoinCommit(p)
      BY <2>3
    <3>2. Range(members') = Present \cup {p}
      <4>1. CallFits(p) /\ call[p].op = "join"
        BY <1>1, <3>1 DEF RoomSound, MembersSound, JoinCommit
      <4>. QED  BY <1>1, <3>1, <4>1, AppendKeepsApart
                DEF RoomSound, RoomTyped, JoinCommit, Present, CallFits
    <3>. QED  BY <2>1, <2>2, <3>1, <3>2 DEF JoinCommit
  <2>4. CASE \E p \in Players : Start(p) \/ Rematch(p)
    BY <2>1, <2>2, <2>4 DEF Start, Rematch, ReadyMembers, Present
  <2>5. CASE \E h \in games : EndGame(h) \/ GrowsOld(h) \/ SweepGame(h)
    <3>1. PICK h \in games : EndGame(h) \/ GrowsOld(h) \/ SweepGame(h)
      BY <2>5
    <3>2. h \in GameRows
      BY <1>1 DEF RoomSound, RoomTyped
    <3>3. g \in {h, [h EXCEPT !.status = "completed"], [h EXCEPT !.old = TRUE]}
      BY <2>1, <3>1 DEF EndGame, GrowsOld, SweepGame
    <3>4. g.seq = h.seq
      BY <3>2, <3>3 DEF GameRows
    <3>. QED  BY <3>4
  <2>6. ~ UNCHANGED games
    BY <2>1
  <2>. QED  BY <1>1, <2>3, <2>4, <2>5, <2>6
            DEF Next, vars, JoinCheck, SetReady, AskStart, AskRematch, AsHost, LeaveRead,
                LeaveCommit, LeaveList, LeaveAbandon, NameTaken, SweepRoom, Restart
<1>2. RoomSound /\ [Next]_vars => [A]_vars
  BY <1>1
<1>. QED  BY <1>2, RoomSoundAlways, PTL DEF Spec, SeatsAreMembers

-----------------------------------------------------------------------------
(* The browser beside the room *)

PageTyped ==
  /\ page \in {Home, Waiting, NotFound, Away, Closed} \cup {Table(n) : n \in Nat}
  /\ reads \subseteq Nat /\ asked \subseteq Nat
  /\ panel \in [up : BOOLEAN, since : Nat, knows : Nat]
  /\ recent \in BOOLEAN /\ wiped \in BOOLEAN

OnRecord(n) == \E g \in games : g.seq = n

\* The panel is up over a game the page has asked for; what it reads and what
\* it knows are later games or that one, and the page is at the one it knows.
PanelSound ==
  IF panel.up
  THEN /\ page.at = "table" /\ panel.since \in asked
       /\ \A n \in reads : n >= panel.since
       /\ panel.knows # NoGame => panel.knows = page.game /\ panel.knows >= panel.since
  ELSE panel = Down /\ (page.at = "table" => reads = {})

\* A read of the waiting room is of a room with a later game than those it knew
\* to be over; the games a table has asked for or read of are on record.
PagesSound ==
  /\ PageTyped /\ StillListed /\ PanelSound
  /\ page.at \notin {"waiting", "table"} => reads = {}
  /\ page.at = "waiting" =>
       \A over \in reads : \E g \in games : ~ g.old /\ g.seq > over
  /\ page.at = "table" => page.game \in asked /\ \A n \in asked \cup reads : OnRecord(n)

\* Beside the browser the room does what it does by itself.
LEMMA PagesStepIsRoomStep ==
  ASSUME [PagesNext]_<<vars, pageVars>>
  PROVE  [Next]_vars
<1>1. Founder \in Players
  BY RoomAssumption
<1>2. CASE DealtAnswered \/ \E p \in Players : JoinAnswered(p) \/ LeaveAnswered(p)
  BY <1>1, <1>2 DEF DealtAnswered, JoinAnswered, LeaveAnswered, Next
<1>3. CASE Unheard
  BY <1>3 DEF Unheard
<1>4. CASE \/ PollRoom \/ PollRematch \/ PollGame \/ PollMissing \/ PollFails
           \/ GoHome \/ OpenCard \/ HandsOver \/ UNCHANGED <<vars, pageVars>>
  BY <1>4 DEF PollRoom, PollGame, PollRematch, PollMissing, PollFails, GoHome, OpenCard, HandsOver
<1>5. CASE \/ \E n \in reads : PollAnswered(n)
           \/ \E g \in games : ViewArrives(g) \/ ViewRefused(g)
           \/ \E p \in Players : LoadHome(p) \/ PollsAway(p)
  BY <1>5 DEF PollAnswered, ViewArrives, ViewRefused, LoadHome, PollsAway
<1>. QED  BY <1>2, <1>3, <1>4, <1>5 DEF PagesNext, PagesStep

\* What is proved of Spec holds beside the browser: PagesSpec implements it.
THEOREM PagesImplementRoom == PagesSpec => Spec
<1>1. PagesInit => Init
  BY DEF PagesInit
<1>2. [PagesNext]_<<vars, pageVars>> => [Next]_vars
  BY PagesStepIsRoomStep
<1>. QED  BY <1>1, <1>2, PTL DEF PagesSpec, Spec

\* A game that is not old stays on record, until days have passed.
LEMMA GamesStay ==
  ASSUME RoomSound, [Next]_vars, \A g \in games' : g.old => g \in games
  PROVE  \A g \in games : ~ g.old => \E h \in games' : h.seq = g.seq /\ ~ h.old
<1> SUFFICES ASSUME NEW g \in games, ~ g.old
             PROVE  \E h \in games' : h.seq = g.seq /\ ~ h.old
  OBVIOUS
<1>1. CASE games \subseteq games'
  BY <1>1
<1>2. CASE \E x \in games : EndGame(x) \/ GrowsOld(x) \/ SweepGame(x)
  <2>1. PICK x \in games : EndGame(x) \/ GrowsOld(x) \/ SweepGame(x)
    BY <1>2
  <2>2. x \in GameRows
    BY DEF RoomSound, RoomTyped
  <2>3. CASE g # x
    BY <2>1, <2>3 DEF EndGame, GrowsOld, SweepGame
  <2>4. CASE g = x /\ EndGame(x)
    <3> DEFINE h == [x EXCEPT !.status = "completed"]
    <3>1. h \in games' /\ h.seq = g.seq /\ ~ h.old
      BY <2>2, <2>4 DEF EndGame, GameRows
    <3>. QED  BY <3>1
  <2>5. CASE g = x /\ GrowsOld(x)
    <3> DEFINE h == [x EXCEPT !.old = TRUE]
    <3>1. h \in games' /\ h.seq = x.seq /\ h.old
      BY <2>2, <2>5 DEF GrowsOld, GameRows
    <3>2. h \in games
      BY <3>1
    <3>3. h = x
      BY <3>1, <3>2 DEF RoomSound, GamesOK
    <3>. QED  BY <2>5, <3>1, <3>3
  <2>6. CASE g = x /\ SweepGame(x)
    BY <2>6 DEF SweepGame
  <2>. QED  BY <2>1, <2>3, <2>4, <2>5, <2>6
<1>3. CASE \E p \in Players : JoinCommit(p) \/ Start(p) \/ Rematch(p)
  BY <1>1, <1>3 DEF JoinCommit, Start, Rematch, Deal
<1>. QED  BY <1>1, <1>2, <1>3
          DEF Next, vars, JoinCheck, SetReady, AskStart, AskRematch, AsHost, LeaveRead,
              LeaveCommit, LeaveList, LeaveAbandon, NameTaken, SweepRoom, Restart

\* The founder does not come back: who has left has left, and a room that is
\* gone stays gone.
LEMMA FounderStaysOut ==
  ASSUME RoomSound, [Next]_vars, Founder \notin Present
  PROVE  Founder \notin Present'
<1>1. RoomSound'
  BY StepKeepsRoom
<1>2. left \subseteq left' /\ (room.status = "deleted" => room'.status = "deleted")
  <2>1. CASE UNCHANGED <<left, room>>
    BY <2>1
  <2>2. CASE \E p \in Players : JoinCommit(p)
    <3>1. PICK p \in Players : JoinCommit(p)
      BY <2>2
    <3>2. room.status = "open"
      BY <3>1 DEF JoinCommit, RoomSound, MembersSound, CallFits
    <3>. QED  BY <3>1, <3>2 DEF JoinCommit
  <2>3. CASE \E p \in Players : Start(p) \/ Rematch(p)
    BY <2>3 DEF Start, Rematch
  <2>4. CASE \E p \in Players : LeaveCommit(p) \/ LeaveAbandon(p)
    BY <2>4 DEF LeaveCommit, LeaveAbandon
  <2>5. CASE \E g \in games : EndGame(g) \/ GrowsOld(g) \/ SweepGame(g)
    BY <2>5 DEF EndGame, GrowsOld, SweepGame, RoomSound, GamesOK
  <2>6. CASE NameTaken(TRUE) \/ NameTaken(FALSE) \/ SweepRoom
    BY <2>6 DEF NameTaken, SweepRoom, RoomSound, RoomTyped
  <2>. QED  BY <2>1, <2>2, <2>3, <2>4, <2>5, <2>6
            DEF Next, vars, JoinCheck, SetReady, AskStart, AskRematch, AsHost, LeaveRead,
                LeaveList, Restart
<1>3. CASE Founder \in left
  BY <1>1, <1>2, <1>3 DEF RoomSound, MembersSound
<1>4. CASE room.status = "deleted"
  BY <1>1, <1>2, <1>4 DEF RoomSound, MembersSound, Present, Range
<1>. QED  BY <1>3, <1>4 DEF RoomSound, MembersSound

\* The pages apart, and the panel's two states.
LEMMA PageKinds ==
  /\ Home.at = "home" /\ Waiting.at = "waiting" /\ NotFound.at = "not found"
  /\ Away.at = "away" /\ Closed.at = "closed"
  /\ \A n : Table(n).at = "table" /\ Table(n).game = n
  /\ PageTyped /\ page.at = "table" => page.game \in Nat /\ page = Table(page.game)
  /\ PageTyped => (page.at = "waiting" <=> page = Waiting)
  /\ Down \in [up : BOOLEAN, since : Nat, knows : Nat] /\ ~ Down.up
  /\ \A n \in Nat : /\ Up(n) \in [up : BOOLEAN, since : Nat, knows : Nat] /\ Up(n).up
                    /\ Up(n).since = n /\ Up(n).knows = NoGame
<1>1. /\ Home.at = "home" /\ Waiting.at = "waiting" /\ NotFound.at = "not found"
      /\ Away.at = "away" /\ Closed.at = "closed"
  BY DEF Home, Waiting, NotFound, Away, Closed
<1>2. \A n : Table(n).at = "table" /\ Table(n).game = n
  BY DEF Table
<1>3. ASSUME PageTyped, page.at = "table"  PROVE page.game \in Nat /\ page = Table(page.game)
  <2>1. PICK n \in Nat : page = Table(n)
    BY <1>1, <1>3 DEF PageTyped
  <2>. QED  BY <1>2, <2>1
<1>4. PageTyped => (page.at = "waiting" <=> page = Waiting)
  BY <1>1, <1>2 DEF PageTyped
<1>5. Down \in [up : BOOLEAN, since : Nat, knows : Nat] /\ ~ Down.up
  BY DEF Down, NoGame
<1>6. ASSUME NEW n \in Nat
      PROVE  /\ Up(n) \in [up : BOOLEAN, since : Nat, knows : Nat] /\ Up(n).up
             /\ Up(n).since = n /\ Up(n).knows = NoGame
  BY DEF Up, NoGame
<1>. QED  BY <1>1, <1>2, <1>3, <1>4, <1>5, <1>6

\* Games have numbers from 1; the latest game's bounds all of them.
LEMMA LatestBounds ==
  ASSUME RoomSound
  PROVE  /\ Latest \in Nat /\ \A g \in games : g.seq \in Nat /\ g.seq > NoGame /\ g.seq <= Latest
         /\ games # {} => OnRecord(Latest)
<1>1. \A g \in games : g.seq \in Nat /\ g.seq > NoGame
  BY DEF RoomSound, RoomTyped, GameRows, NoGame
<1>2. CASE games = {}
  BY <1>2 DEF Latest, NoGame
<1>3. CASE games # {}
  <2>1. Latest = Max({g.seq : g \in games})
    BY <1>3 DEF Latest
  <2>2. Latest \in {g.seq : g \in games}
    BY <1>3, <2>1, LatestGame DEF RoomSound
  <2>. QED  BY <1>1, <1>3, <2>1, <2>2, LatestGame DEF RoomSound, OnRecord
<1>. QED  BY <1>1, <1>2, <1>3

\* The waiting room asks for a game it does not yet know to be over.
LEMMA LastFinishedIsOver ==
  ASSUME RoomSound
  PROVE  /\ LastFinished \in Nat
         /\ room.status = "in_game" => \E g \in games : ~ g.old /\ g.seq > LastFinished
<1> DEFINE done == games \ ActiveGames
           m == Max({g.seq : g \in done})
<1>1. \A g \in games : g.seq \in Nat \ {0}
  BY DEF RoomSound, RoomTyped, GameRows
<1>2. CASE games = ActiveGames
  <2>1. LastFinished = 0
    BY <1>2 DEF LastFinished
  <2>2. room.status = "in_game" => \E g \in games : ~ g.old
    BY DEF RoomSound, RoomTyped, GameRows, GamesOK
  <2>. QED  BY <1>1, <2>1, <2>2
<1>3. CASE games # ActiveGames
  <2>1. done \in SUBSET games /\ done # {}
    BY <1>3 DEF ActiveGames
  <2>2. m \in {g.seq : g \in done} /\ m \in Nat
    BY <2>1, LatestGame DEF RoomSound
  <2>3. LastFinished = m
    BY <1>3 DEF LastFinished
  <2>4. PICK d \in done : d.seq = m
    BY <2>2
  <2>5. ASSUME room.status = "in_game"
        PROVE  \E g \in games : ~ g.old /\ g.seq > m
    <3>1. PICK g \in games : g.status = "active"
      BY <2>5 DEF RoomSound, GamesOK
    <3>2. g # d /\ d \in games
      BY <2>4, <3>1 DEF ActiveGames
    <3>3. d.seq # g.seq /\ d.seq <= g.seq
      BY <3>1, <3>2 DEF RoomSound, GamesOK
    <3>4. ~ g.old
      BY <3>1 DEF RoomSound, RoomTyped, GameRows, GamesOK
    <3> HIDE DEF m
    <3>5. g.seq > m
      BY <1>1, <2>4, <3>2, <3>3
    <3>. QED  BY <3>4, <3>5
  <2>. QED  BY <2>2, <2>3, <2>5
<1>. QED  BY <1>2, <1>3

\* A page that is left takes its reads and its panel with it.
LEMMA LeftIsSound ==
  ASSUME Leaves(Home) \/ Leaves(Waiting) \/ Leaves(NotFound) \/ Leaves(Away),
         recent' \in BOOLEAN, wiped' \in BOOLEAN, StillListed'
  PROVE  PagesSound'
<1>1. /\ page' \in {Home, Waiting, NotFound, Away} /\ page'.at # "table"
      /\ reads' = {} /\ asked' = {} /\ panel' = Down
  BY PageKinds DEF Leaves
<1>. QED  BY <1>1, PageKinds DEF PagesSound, PageTyped, PanelSound

\* The page stays as it is, and may lose a read.
LEMMA StaysSound ==
  ASSUME PagesSound, UNCHANGED <<page, asked, panel>>, games \subseteq games',
         reads' \subseteq reads,
         recent' \in BOOLEAN, wiped' \in BOOLEAN, StillListed'
  PROVE  PagesSound'
  BY DEF PagesSound, PageTyped, PanelSound, OnRecord

\* The founder goes to the table of a game on record, from whichever page.
LEMMA ToTableIsSound ==
  ASSUME PagesSound, NEW n \in Nat, ToTable(n), OnRecord(n)',
         \A m \in Nat : OnRecord(m) => OnRecord(m)',
         recent' \in BOOLEAN, wiped' \in BOOLEAN, StillListed'
  PROVE  PagesSound'
<1>1. CASE page.at \in {"home", "waiting"}
  <2>1. page' = Table(n) /\ asked' = {n} /\ reads' = {} /\ panel' = Down
    BY <1>1 DEF ToTable
  <2>2. page'.at = "table" /\ page'.game = n
    BY <2>1, PageKinds
  <2>. QED  BY <2>1, <2>2, PageKinds DEF PagesSound, PageTyped, PanelSound
<1>2. CASE page.at = "table"
  <2> DEFINE to == LedTo(n, panel.knows)
  <2>1. /\ page' = Table(to) /\ asked' = asked \cup {n, to}
        /\ reads' = reads /\ panel' = panel
    BY <1>2 DEF ToTable
  <2>2. page.game \in Nat /\ PageTyped /\ PanelSound
    BY <1>2, PageKinds DEF PagesSound
  <2>3. to \in {n, page.game} /\ (panel.up /\ panel.knows # NoGame => to = panel.knows)
    BY <2>2 DEF LedTo, PanelSound, Down
  <2> HIDE DEF to
  <2>4. page'.at = "table" /\ page'.game = to /\ to \in Nat
    BY <2>1, <2>2, <2>3, PageKinds
  <2>5. \A m \in asked' \cup reads' : OnRecord(m)'
    <3>1. \A m \in asked \cup reads : m \in Nat /\ OnRecord(m)
      BY <1>2, <2>2 DEF PagesSound, PageTyped
    <3>2. page.game \in asked
      BY <1>2 DEF PagesSound
    <3>. QED  BY <2>1, <2>3, <3>1, <3>2
  <2>6. PanelSound'
    BY <1>2, <2>1, <2>2, <2>3, <2>4 DEF PanelSound
  <2>7. PageTyped'
    BY <2>1, <2>2, <2>4 DEF PageTyped
  <2>. QED  BY <2>1, <2>4, <2>5, <2>6, <2>7 DEF PagesSound
<1>3. CASE page.at \notin {"home", "waiting", "table"}
  <2>1. UNCHANGED <<page, reads, asked, panel>>
    BY <1>3 DEF ToTable
  <2>. QED  BY <1>3, <2>1 DEF PagesSound, PageTyped, PanelSound
<1>. QED  BY <1>1, <1>2, <1>3

\* The list is right when a visit remembers the room, when it is left alone,
\* and when a player forgets it who is not the founder or is no member.
LEMMA ListStaysRight ==
  ASSUME RoomSound, PagesSound, [Next]_vars,
         \/ AddRecentRoom \/ UNCHANGED <<recent, wiped>>
         \/ \E p \in Players : RemoveRecentRoom(p) /\ (p = Founder => Founder \notin Present')
  PROVE  recent' \in BOOLEAN /\ wiped' \in BOOLEAN /\ StillListed'
<1>1. recent \in BOOLEAN /\ wiped \in BOOLEAN /\ StillListed
  BY DEF PagesSound, PageTyped
<1>2. CASE AddRecentRoom
  BY <1>2 DEF AddRecentRoom, StillListed
<1>3. CASE UNCHANGED <<recent, wiped>>
  BY <1>1, <1>3, FounderStaysOut DEF StillListed
<1>4. ASSUME NEW p \in Players, RemoveRecentRoom(p), p = Founder => Founder \notin Present'
      PROVE  recent' \in BOOLEAN /\ wiped' \in BOOLEAN /\ StillListed'
  BY <1>1, <1>4 DEF RemoveRecentRoom, StillListed
<1>. QED  BY <1>2, <1>3, <1>4

\* The game that a start or a rematch deals has the next number.
LEMMA DealsNext ==
  ASSUME RoomSound, DealtAnswered
  PROVE  games \subseteq games' /\ \E g \in games' : g.seq = NextSeq
<1>1. ASSUME NEW seats, Deal(seats, NextSeq)
      PROVE  games \subseteq games' /\ \E g \in games' : g.seq = NextSeq
  <2> DEFINE new == [seq |-> NextSeq, status |-> "active", seats |-> seats, old |-> FALSE]
  <2>1. games' = games \cup {new}
    BY <1>1 DEF Deal
  <2>2. new.seq = NextSeq
    OBVIOUS
  <2> HIDE DEF new
  <2>. QED  BY <2>1, <2>2
<1>2. room.status = "open" => NextSeq = 1
  BY DEF RoomSound, GamesOK, NextSeq
<1>3. Deal(ReadyMembers, NextSeq) \/ Deal(Present, NextSeq)
  <2>1. games' # games /\ (Start(Founder) \/ Rematch(Founder))
    BY DEF DealtAnswered
  <2>2. CASE Start(Founder)
    BY <1>2, <2>1, <2>2 DEF Start
  <2>3. CASE Rematch(Founder)
    BY <2>1, <2>3 DEF Rematch
  <2>. QED  BY <2>1, <2>2, <2>3
<1>. QED  BY <1>1, <1>3

\* What the room does without the browser leaves its page sound.
LEMMA UnheardKeepsPages ==
  ASSUME RoomSound, PagesSound, Unheard
  PROVE  PagesSound'
<1>1. Next /\ UNCHANGED <<recent, wiped>>
  BY DEF Unheard
<1>2. recent' \in BOOLEAN /\ wiped' \in BOOLEAN /\ StillListed'
  BY <1>1, ListStaysRight
<1>3. CASE page.at = "table" /\ \E n \in asked \cup reads : Deleted(n)
  BY <1>2, <1>3, LeftIsSound DEF Unheard
<1>4. CASE ~ (page.at = "table" /\ \E n \in asked \cup reads : Deleted(n))
  <2>1. UNCHANGED <<page, reads, asked, panel>>
    BY <1>4 DEF Unheard
  <2>2. page'.at = "table" => page'.game \in asked' /\ \A n \in asked' \cup reads' : OnRecord(n)'
    BY <1>4, <2>1 DEF PagesSound, Deleted, OnRecord
  <2>3. ASSUME page.at = "waiting", NEW over \in reads
        PROVE  \E g \in games' : ~ g.old /\ g.seq > over
    <3>1. PICK g \in games : ~ g.old /\ g.seq > over
      BY <2>3 DEF PagesSound
    <3>2. PICK h \in games' : h.seq = g.seq /\ ~ h.old
      BY <1>1, <2>3, <3>1, GamesStay DEF Unheard
    <3>. QED  BY <3>1, <3>2
  <2>. QED  BY <1>2, <2>1, <2>2, <2>3 DEF PagesSound, PageTyped, PanelSound
<1>. QED  BY <1>3, <1>4

\* The pages' own requests leave them sound.
LEMMA PollsKeepPages ==
  ASSUME RoomSound, PagesSound,
         \/ PollRoom \/ PollGame \/ PollMissing \/ PollFails \/ PollRematch
         \/ \E n \in reads : PollAnswered(n)
  PROVE  PagesSound'
<1> USE RoomAssumption
<1>1. UNCHANGED vars
  BY DEF PollRoom, PollGame, PollMissing, PollFails, PollRematch, PollAnswered
<1>2. games' = games /\ Present' = Present /\ [Next]_vars
  BY <1>1 DEF vars, Present
<1>3. PageTyped /\ PanelSound
  BY DEF PagesSound
<1>4. \A m : OnRecord(m)' <=> OnRecord(m)
  BY <1>2 DEF OnRecord
<1>5. CASE PollRoom
  <2>1. recent' \in BOOLEAN /\ wiped' \in BOOLEAN /\ StillListed'
    BY <1>2, <1>5, ListStaysRight DEF PollRoom
  <2>2. UNCHANGED <<page, asked, panel>> /\ page = Waiting
    BY <1>5 DEF PollRoom
  <2>3. CASE reads' = reads
    BY <1>2, <2>1, <2>2, <2>3, StaysSound
  <2>4. CASE room.status = "in_game" /\ reads' = reads \cup {LastFinished}
    <3>1. LastFinished \in Nat /\ \E g \in games : ~ g.old /\ g.seq > LastFinished
      BY <2>4, LastFinishedIsOver
    <3>2. page.at = "waiting" /\ page'.at = "waiting"
      BY <2>2, PageKinds
    <3>3. \A over \in reads' : \E g \in games' : ~ g.old /\ g.seq > over
      BY <1>2, <2>4, <3>1, <3>2 DEF PagesSound
    <3>. QED  BY <1>3, <2>1, <2>2, <2>4, <3>1, <3>2, <3>3 DEF PagesSound, PageTyped, PanelSound
  <2>. QED  BY <1>5, <2>3, <2>4 DEF PollRoom, CarriesOn
<1>6. CASE PollGame
  <2>1. recent' \in BOOLEAN /\ wiped' \in BOOLEAN /\ StillListed'
    BY <1>2, <1>6, ListStaysRight DEF PollGame
  <2>2. CASE Latest = NoGame
    BY <1>2, <1>6, <2>1, <2>2, StaysSound DEF PollGame
  <2>3. CASE Latest # NoGame
    <3>1. ToTable(Latest) /\ Latest \in Nat /\ OnRecord(Latest)
      BY <1>6, <2>3, LatestBounds DEF PollGame, Latest
    <3>. QED  BY <1>4, <2>1, <3>1, ToTableIsSound
  <2>. QED  BY <2>2, <2>3
<1>7. CASE PollMissing
  <2>1. Founder \notin Present'
    BY <1>2, <1>7 DEF PollMissing, RoomSound, MembersSound, Present, Range
  <2>2. recent' \in BOOLEAN /\ wiped' \in BOOLEAN /\ StillListed'
    BY <1>2, <1>7, <2>1, ListStaysRight DEF PollMissing
  <2>. QED  BY <1>2, <1>7, <2>2, StaysSound DEF PollMissing
<1>8. CASE PollFails
  <2>1. recent' \in BOOLEAN /\ wiped' \in BOOLEAN /\ StillListed'
    BY <1>2, <1>8, ListStaysRight DEF PollFails
  <2>. QED  BY <1>2, <1>8, <2>1, StaysSound DEF PollFails
<1>9. CASE PollRematch
  <2>1. recent' \in BOOLEAN /\ wiped' \in BOOLEAN /\ StillListed'
    BY <1>2, <1>9, ListStaysRight DEF PollRematch
  <2>2. UNCHANGED <<page, asked, panel>> /\ reads' = reads \cup {Latest} /\ panel.up
    BY <1>9 DEF PollRematch
  <2>3. page.at = "table" /\ OnRecord(panel.since)
    BY <1>3, <2>2 DEF PagesSound, PanelSound
  <2>4. Latest \in Nat /\ Latest >= panel.since /\ OnRecord(Latest)
    BY <2>3, LatestBounds DEF OnRecord
  <2>. QED  BY <1>3, <1>4, <2>1, <2>2, <2>3, <2>4 DEF PagesSound, PageTyped, PanelSound
<1>10. CASE \E n \in reads : PollAnswered(n)
  <2>1. PICK n \in reads : PollAnswered(n)
    BY <1>10
  <2>2. recent' \in BOOLEAN /\ wiped' \in BOOLEAN /\ StillListed'
    BY <1>2, <2>1, ListStaysRight DEF PollAnswered
  <2> DEFINE to == LedTo(page.game, n)
  <2>3. /\ panel.up /\ reads' \subseteq reads /\ panel' = [panel EXCEPT !.knows = n]
        /\ page' = Table(to) /\ asked' = asked \cup {to}
    BY <2>1 DEF PollAnswered
  <2>4. page.at = "table" /\ page.game \in Nat /\ n \in Nat /\ n >= panel.since
    BY <1>3, <2>1, <2>3, PageKinds DEF PanelSound, PageTyped
  <2>5. to \in {page.game, n} /\ (n # NoGame => to = n)
    BY DEF LedTo
  <2> HIDE DEF to
  <2>6. page'.at = "table" /\ page'.game = to /\ to \in Nat
    BY <2>3, <2>4, <2>5, PageKinds
  <2>7. \A m \in asked' \cup reads' : OnRecord(m)'
    BY <1>4, <2>1, <2>3, <2>4, <2>5 DEF PagesSound
  <2>8. /\ panel' \in [up : BOOLEAN, since : Nat, knows : Nat]
        /\ panel'.up /\ panel'.since = panel.since /\ panel'.knows = n
    BY <1>3, <2>3, <2>4 DEF PageTyped
  <2>9. PanelSound'
    BY <1>3, <2>3, <2>4, <2>5, <2>6, <2>8 DEF PanelSound
  <2>10. PageTyped'
    BY <1>3, <2>2, <2>3, <2>6, <2>8 DEF PageTyped
  <2>. QED  BY <2>2, <2>3, <2>6, <2>7, <2>9, <2>10 DEF PagesSound
<1>. QED  BY <1>5, <1>6, <1>7, <1>8, <1>9, <1>10

\* Every step of the room or the browser keeps the pages sound.
LEMMA StepKeepsPages ==
  ASSUME RoomSound, PagesSound, [PagesNext]_<<vars, pageVars>>
  PROVE  PagesSound'
<1> USE RoomAssumption
<1>1. [Next]_vars
  BY PagesStepIsRoomStep
<1>2. CASE \/ PollRoom \/ PollGame \/ PollMissing \/ PollFails \/ PollRematch
           \/ \E n \in reads : PollAnswered(n)
  BY <1>2, PollsKeepPages
<1>3. CASE GoHome \/ HandsOver \/ \E g \in games : ViewRefused(g)
  <2>1. UNCHANGED <<recent, wiped>> /\ (Leaves(Home) \/ Leaves(Away) \/ Leaves(NotFound))
    BY <1>3 DEF GoHome, HandsOver, ViewRefused
  <2>. QED  BY <1>1, <2>1, ListStaysRight, LeftIsSound
<1>4. CASE \E g \in games : ViewArrives(g)
  <2>1. PICK g \in games : ViewArrives(g)
    BY <1>4
  <2>2. recent' \in BOOLEAN /\ wiped' \in BOOLEAN /\ StillListed'
    BY <1>1, <2>1, ListStaysRight DEF ViewArrives
  <2>3. /\ UNCHANGED <<vars, page, asked>> /\ reads' = {} /\ page.at = "table"
        /\ g.seq \in asked /\ panel' \in {Down, Up(g.seq)}
    BY <2>1 DEF ViewArrives
  <2>4. g.seq \in Nat
    BY LatestBounds
  <2>5. games' = games
    BY <2>3 DEF vars
  <2> DEFINE P == [up : BOOLEAN, since : Nat, knows : Nat]
  <2>6. PageTyped'
    <3>1. panel' \in P
      BY <2>3, <2>4, PageKinds
    <3> HIDE DEF P
    <3>. QED  BY <2>2, <2>3, <3>1 DEF PagesSound, PageTyped, P
  <2>8. PanelSound'
    <3>1. CASE panel' = Down
      BY <2>3, <3>1, PageKinds DEF PanelSound
    <3>2. CASE panel' = Up(g.seq)
      <4>1. panel'.up /\ panel'.since = g.seq /\ panel'.knows = NoGame
        BY <2>4, <3>2, PageKinds
      <4>. QED  BY <2>3, <4>1 DEF PanelSound
    <3>. QED  BY <2>3, <3>1, <3>2
  <2>7. page'.game \in asked' /\ \A n \in asked' \cup reads' : OnRecord(n)'
    BY <2>3, <2>5 DEF PagesSound, OnRecord
  <2>. QED  BY <2>2, <2>3, <2>6, <2>7, <2>8 DEF PagesSound
<1>5. CASE OpenCard
  <2>1. recent' \in BOOLEAN /\ wiped' \in BOOLEAN /\ StillListed'
    BY <1>1, <1>5, ListStaysRight DEF OpenCard
  <2>2. CASE Leaves(Waiting)
    BY <2>1, <2>2, LeftIsSound
  <2>3. CASE Latest # NoGame /\ ToTable(Latest)
    <3>1. Latest \in Nat /\ OnRecord(Latest)
      BY <2>3, LatestBounds DEF Latest
    <3>2. \A m : OnRecord(m)' <=> OnRecord(m)
      BY <1>5 DEF OpenCard, vars, OnRecord
    <3>. QED  BY <2>1, <2>3, <3>1, <3>2, ToTableIsSound
  <2>. QED  BY <1>5, <2>2, <2>3 DEF OpenCard
<1>6. CASE \E p \in Players : LoadHome(p) \/ PollsAway(p) \/ JoinAnswered(p)
  <2>1. PICK p \in Players : LoadHome(p) \/ PollsAway(p) \/ JoinAnswered(p)
    BY <1>6
  <2>2. UNCHANGED <<page, reads, asked, panel>> /\ games \subseteq games'
    BY <2>1 DEF LoadHome, PollsAway, JoinAnswered, JoinCommit, Deal, vars
  <2>3. AddRecentRoom \/ (RemoveRecentRoom(p) /\ p \notin Present')
    BY <2>1 DEF LoadHome, PollsAway, JoinAnswered, vars, Present
  <2>4. recent' \in BOOLEAN /\ wiped' \in BOOLEAN /\ StillListed'
    BY <1>1, <2>3, ListStaysRight
  <2>. QED  BY <2>2, <2>4, StaysSound
<1>7. CASE \E p \in Players : LeaveAnswered(p)
  <2>1. PICK p \in Players : LeaveAnswered(p)
    BY <1>7
  <2>2. LeaveList(p) \/ LeaveAbandon(p)
    BY <2>1 DEF LeaveAnswered
  <2>3. p \notin Present'
    <3>1. call[p].op \in {"gone", "last"} /\ members' = members
      BY <2>2 DEF LeaveList, LeaveAbandon
    <3>. QED  BY <3>1 DEF RoomSound, MembersSound, CallFits, Present
  <2>4. recent' \in BOOLEAN /\ wiped' \in BOOLEAN /\ StillListed'
    BY <1>1, <2>1, <2>3, ListStaysRight DEF LeaveAnswered
  <2>5. Leaves(Home) \/ Leaves(Away)
    BY <2>1 DEF LeaveAnswered
  <2>. QED  BY <2>4, <2>5, LeftIsSound
<1>8. CASE DealtAnswered
  <2>1. recent' \in BOOLEAN /\ wiped' \in BOOLEAN /\ StillListed'
    BY <1>1, <1>8, ListStaysRight DEF DealtAnswered
  <2>2. PICK n \in Nat : n = NextSeq
    BY NextSeqIsNext DEF RoomSound
  <2>3. games \subseteq games' /\ OnRecord(n)'
    BY <1>8, <2>2, DealsNext DEF OnRecord
  <2>4. \A m \in Nat : OnRecord(m) => OnRecord(m)'
    BY <2>3 DEF OnRecord
  <2>5. ToTable(n)
    BY <1>8, <2>2 DEF DealtAnswered
  <2>. QED  BY <2>1, <2>2, <2>3, <2>4, <2>5, ToTableIsSound
<1>9. CASE Unheard
  BY <1>9, UnheardKeepsPages
<1>10. CASE UNCHANGED <<vars, pageVars>>
  <2>1. UNCHANGED <<page, reads, asked, panel, games, members, recent, wiped>>
    BY <1>10 DEF vars, pageVars
  <2>. QED  BY <2>1 DEF PagesSound, PageTyped, PanelSound, StillListed, Present, OnRecord
<1>. QED  BY <1>2, <1>3, <1>4, <1>5, <1>6, <1>7, <1>8, <1>9, <1>10 DEF PagesNext, PagesStep

\* The room and the browser beside it are sound in every reachable state.
THEOREM PagesSoundAlways == PagesSpec => [](RoomSound /\ PagesSound)
<1>1. PagesInit => RoomSound /\ PagesSound
  BY InitRoomSound, PageKinds DEF PagesInit, PagesSound, PageTyped, PanelSound, StillListed
<1>2. RoomSound /\ PagesSound /\ [PagesNext]_<<vars, pageVars>> => (RoomSound /\ PagesSound)'
  BY StepKeepsRoom, StepKeepsPages, PagesStepIsRoomStep
<1>. QED  BY <1>1, <1>2, PTL DEF PagesSpec

\* A member whose room exists finds it among the recent rooms, unless another
\* player at the browser has had it forgotten since.
THEOREM StillListedAlways == PagesSpec => []StillListed
<1>1. RoomSound /\ PagesSound => StillListed
  BY DEF PagesSound
<1>. QED  BY <1>1, PagesSoundAlways, PTL

\* The waiting room leads to a game that was not over when it asked, a table to
\* none before the one whose end brought the panel up.
THEOREM CarriedForwardAlways == PagesSpec => CarriedForward
<1> DEFINE A == (page' # page /\ page'.at = "table") =>
                  /\ page = Waiting => \A over \in reads : page'.game > over
                  /\ panel.up => page'.game >= panel.since
<1>1. ASSUME RoomSound, PagesSound, [PagesNext]_<<vars, pageVars>>  PROVE A
  <2> SUFFICES ASSUME page' # page, page'.at = "table"
               PROVE  /\ page = Waiting => \A over \in reads : page'.game > over
                      /\ panel.up => page'.game >= panel.since
    OBVIOUS
  <2> HIDE DEF A
  <2>1. PageTyped /\ PanelSound
    BY <1>1 DEF PagesSound
  <2>2. ASSUME NEW n \in Nat, ToTable(n), \A g \in games : g.seq <= n
        PROVE  /\ page = Waiting => \A over \in reads : page'.game > over
               /\ panel.up => page'.game >= panel.since
    <3>1. ASSUME page = Waiting, NEW over \in reads  PROVE page'.game > over
      <4>1. page'.game = n
        <5>1. page.at = "waiting"
          BY <3>1, PageKinds
        <5>2. page' = Table(n)
          BY <2>2, <5>1 DEF ToTable
        <5>. QED  BY <5>2, PageKinds
      <4>2. PICK g \in games : g.seq > over
        BY <1>1, <3>1, PageKinds DEF PagesSound
      <4>3. g.seq \in Nat /\ over \in Nat /\ g.seq <= n
        BY <1>1, <2>1, <2>2, LatestBounds DEF PageTyped
      <4>. QED  BY <2>2, <4>1, <4>2, <4>3, OrderFacts
    <3>2. ASSUME panel.up  PROVE page'.game >= panel.since
      <4>1. page.at = "table" /\ OnRecord(panel.since)
        BY <1>1, <2>1, <3>2 DEF PagesSound, PanelSound
      <4>2. page'.game = LedTo(n, panel.knows)
        <5>1. page' = Table(LedTo(n, panel.knows))
          BY <2>2, <4>1 DEF ToTable
        <5>. QED  BY <5>1, PageKinds
      <4>3. n >= panel.since
        BY <2>1, <2>2, <4>1, LatestBounds DEF OnRecord, PageTyped
      <4>. QED  BY <2>1, <3>2, <4>2, <4>3 DEF LedTo, PanelSound
    <3>. QED  BY <3>1, <3>2
  <2>3. CASE PollGame \/ OpenCard
    <3>1. ToTable(Latest)
      BY <2>3, PageKinds DEF PollGame, OpenCard, Leaves
    <3>. QED  BY <1>1, <2>2, <3>1, LatestBounds
  <2>4. CASE DealtAnswered
    <3>1. NextSeq \in Nat /\ \A g \in games : g.seq \in Nat /\ g.seq < NextSeq
      BY <1>1, NextSeqIsNext, LatestBounds DEF RoomSound
    <3>2. ToTable(NextSeq) /\ \A g \in games : g.seq <= NextSeq
      BY <2>4, <3>1 DEF DealtAnswered
    <3>. QED  BY <2>2, <3>1, <3>2
  <2>5. CASE \E n \in reads : PollAnswered(n)
    <3>1. PICK n \in reads : PollAnswered(n)
      BY <2>5
    <3>2. page.at = "table" /\ page'.game = LedTo(page.game, n) /\ page = Table(page.game)
          /\ page' = Table(LedTo(page.game, n))
      BY <2>1, <3>1, PageKinds DEF PollAnswered, PanelSound
    <3>3. page'.game = n
      BY <2>5, <3>2 DEF LedTo
    <3>. QED  BY <2>1, <3>1, <3>2, <3>3, PageKinds DEF PanelSound, PollAnswered
  <2>6. CASE \/ GoHome \/ HandsOver \/ \E g \in games : ViewRefused(g)
             \/ \E p \in Players : LeaveAnswered(p)
    BY <2>6, PageKinds DEF GoHome, HandsOver, ViewRefused, LeaveAnswered, Leaves
  <2>7. CASE Unheard
    BY <2>7, PageKinds DEF Unheard, Leaves
  <2>. QED  BY <1>1, <2>3, <2>4, <2>5, <2>6, <2>7
            DEF PagesNext, PagesStep, PollRoom, PollRematch, PollMissing, PollFails,
                ViewArrives, LoadHome, PollsAway, JoinAnswered, pageVars
<1>2. RoomSound /\ PagesSound /\ [PagesNext]_<<vars, pageVars>> => [A]_<<vars, pageVars>>
  BY <1>1
<1>. QED  BY <1>2, PagesSoundAlways, PTL DEF PagesSpec, CarriedForward
=================================================================================
