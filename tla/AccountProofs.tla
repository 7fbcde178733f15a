------------------------------ MODULE AccountProofs ------------------------------
(***************************************************************************)
(* Accounts, sessions and reset links, for any names, passwords and        *)
(* browsers, and the push subscriptions beside them.  Every handler is a   *)
(* chain of statements, so the invariants say what a request that is       *)
(* half-way may count on.                                                  *)
(***************************************************************************)
EXTENDS PushDevice, WellFoundedInduction, SequenceTheorems, TLAPS

-----------------------------------------------------------------------------
(* Numbers *)

\* Max of a non-empty set of naturals that has a bound is its greatest element:
\* the one whose distance to the bound is least.
LEMMA GreatestNatural ==
  ASSUME NEW S \in SUBSET Nat, S # {}, NEW b \in Nat, \A n \in S : n <= b
  PROVE  Max(S) \in S /\ \A n \in S : n <= Max(S)
<1> DEFINE T == {b - n : n \in S}
<1>1. \A n \in S : n \in Nat /\ b - n \in Nat
  OBVIOUS
<1>2. T \subseteq Nat /\ T # {}
  BY <1>1
<1>3. PICK t \in T : \A u \in T : ~ (<<u, t>> \in OpToRel(<, Nat))
  BY <1>2, NatLessThanWellFounded, WFMin
<1>4. PICK m \in S : t = b - m
  BY <1>3
<1>5. \A n \in S : ~ (b - n < b - m)
  BY <1>1, <1>3, <1>4 DEF OpToRel
<1>6. ASSUME NEW n \in S  PROVE m >= n
  <2>1. ~ (b - n < b - m) /\ n \in Nat /\ m \in Nat
    BY <1>1, <1>5
  <2>. QED  BY <2>1
<1>7. Max(S) \in S /\ \A n \in S : Max(S) >= n
  BY <1>6 DEF Max
<1>. QED  BY <1>1, <1>7

-----------------------------------------------------------------------------
(* The inductive invariant of the accounts *)

Sessions == [player : Names, live : BOOLEAN]
Links == [player : Names, usable : BOOLEAN, over : BOOLEAN]

\* Requests by how far they have come, and the browser that waits, if it does.
Froms == Browsers \cup {NoBrowser}
Renewals == {"change", "reset"}
Opens == [op : {"open"}, from : Froms, player : Names, kind : {"login"} \cup Renewals, before : Nat]
Sets == [op : {"set"}, from : Froms, player : Names, password : Passwords, kind : Renewals]
Revokes == [op : {"revoke"}, from : Froms, player : Names, kind : Renewals, before : Nat]
Openeds == [op : {"opened"}, from : Froms, kind : {"login"} \cup Renewals, session : Nat]
Asked == [op : {"me"}, from : Froms, session : Nat] \cup [op : {"left"}, from : Froms]
Mints == [op : {"mint"}, player : Names]
Calls == {Idle} \cup Opens \cup Sets \cup Revokes \cup Openeds \cup Asked \cup Mints

AccountTyped ==
  /\ password \in [Names -> Passwords \cup {NoPassword}]
  /\ sessions \in Seq(Sessions) /\ links \in Seq(Links)
  /\ cookie \in [Browsers -> Nat] /\ \A b \in Browsers : cookie[b] <= Len(sessions)
  /\ screen \in [Browsers -> Names \cup {"loading", "out"}]
  /\ call \in [Requests -> Calls]
  /\ overlapped \in [Browsers -> BOOLEAN] /\ cutOff \subseteq Names

\* The sessions a request counts or names are there, and those of before a new
\* password are over once they have been revoked.
RequestSound(r) ==
  /\ call[r].op \in {"opened", "me"} => call[r].session \in 1 .. Len(sessions)
  /\ call[r].op \in {"revoke", "open"} => call[r].before <= Len(sessions)
  /\ call[r].op = "open" =>
       \A s \in 1 .. call[r].before :
         sessions[s].player = call[r].player => ~ sessions[s].live

\* The answer of r will be heard at b.
Waits(r, b) == call[r].op \notin {"idle", "mint"} /\ call[r].from = b

\* Who signs in or resets has the pages of nobody; who changes the password has
\* the pages of the player whose password it is.
Fits(r, b) ==
  /\ call[r].op \in {"open", "set", "revoke", "opened"} /\ call[r].kind \in {"login", "reset"}
       => screen[b] = "out"
  /\ call[r].op \in {"open", "set", "revoke"} /\ call[r].kind = "change"
       => screen[b] = call[r].player
  /\ call[r].op = "opened" /\ call[r].kind = "change"
       => screen[b] = sessions[call[r].session].player
  /\ call[r].op = "me" => screen[b] = "out" /\ cookie[b] \in {0, call[r].session}

WindowSound(b) ==
  /\ screen[b] = "loading" => \A r \in Requests : ~ Waits(r, b)
  /\ ~ overlapped[b] =>
       /\ \A r, q \in Requests : Waits(r, b) /\ Waits(q, b) => r = q
       /\ screen[b] \in Names /\ cookie[b] # 0 => PlayerOf(b) = screen[b]
       /\ \A r \in Requests : Waits(r, b) => Fits(r, b)

\* What is so of the links of one player.
Own(n) == {k \in DOMAIN links : links[k].player = n}
Works(k) == links[k].usable \/ links[k].over
Minting(n) == n \in cutOff \/ \E r \in Requests : call[r].op = "mint" /\ call[r].player = n
LinkSound(n) == Own(n) = {} \/ Works(Max(Own(n))) \/ Minting(n)

AccountSound ==
  /\ AccountTyped
  /\ \A r \in Requests : RequestSound(r)
  /\ \A b \in Browsers : WindowSound(b)
  /\ \A n \in Names : LinkSound(n)

-----------------------------------------------------------------------------
(* Requests and rows *)

\* What a request that is half-way carries, by the step it is at.
LEMMA RequestKinds ==
  /\ Idle \in Calls /\ Idle.op = "idle"
  /\ \A q \in Calls :
       /\ q.op \in {"idle", "open", "set", "revoke", "opened", "me", "left", "mint"}
       /\ q.op = "idle" => q = Idle
       /\ q.op = "open" => q \in Opens
       /\ q.op = "set" => q \in Sets
       /\ q.op = "revoke" => q \in Revokes
       /\ q.op = "opened" => q \in Openeds
       /\ q.op \in {"me", "left"} => q \in Asked
       /\ q.op = "me" => q.session \in Nat
       /\ q.op = "mint" => q \in Mints /\ q.player \in Names
       /\ q.op \notin {"idle", "mint"} => q.from \in Froms
<1>1. Idle \in Calls /\ Idle.op = "idle"
  BY DEF Calls, Idle
<1>2. ASSUME NEW q \in Calls
      PROVE  \/ q = Idle /\ q.op = "idle"
             \/ q \in Opens /\ q.op = "open" /\ q.from \in Froms
             \/ q \in Sets /\ q.op = "set" /\ q.from \in Froms
             \/ q \in Revokes /\ q.op = "revoke" /\ q.from \in Froms
             \/ q \in Openeds /\ q.op = "opened" /\ q.from \in Froms
             \/ q \in Asked /\ q.op = "me" /\ q.from \in Froms /\ q.session \in Nat
             \/ q \in Asked /\ q.op = "left" /\ q.from \in Froms
             \/ q \in Mints /\ q.op = "mint" /\ q.player \in Names
  <2>1. CASE q = Idle
    BY <1>1, <2>1
  <2>2. CASE q \in Opens
    BY <2>2 DEF Opens
  <2>3. CASE q \in Sets
    BY <2>3 DEF Sets
  <2>4. CASE q \in Revokes
    BY <2>4 DEF Revokes
  <2>5. CASE q \in Openeds
    BY <2>5 DEF Openeds
  <2>6. CASE q \in Asked
    BY <2>6 DEF Asked
  <2>7. CASE q \in Mints
    BY <2>7 DEF Mints
  <2>. QED  BY <2>1, <2>2, <2>3, <2>4, <2>5, <2>6, <2>7 DEF Calls
<1>. QED  BY <1>1, <1>2

\* What is left of a request when nobody hears its answer any more.
Carries(q, x) ==
  \/ x = Idle
  \/ /\ q.op \in {"open", "set", "revoke"} /\ x.op = q.op /\ x.from = NoBrowser
     /\ x.player = q.player /\ (q.op # "set" => x.before = q.before)

LEMMA UnheardCarries ==
  ASSUME NEW q \in Calls, q.op \notin {"idle", "mint"}
  PROVE  Unheard(q) \in Calls /\ Carries(q, Unheard(q))
<1> DEFINE x == [q EXCEPT !.from = NoBrowser]
<1>1. CASE q.op \in {"opened", "me", "left"}
  BY <1>1, RequestKinds DEF Unheard, Carries
<1>2. Unheard(q) = x \/ q.op \in {"opened", "me", "left"}
  BY DEF Unheard
<1>3. CASE q \in Opens
  <2>1. x \in Opens /\ Carries(q, x)
    BY <1>3 DEF Opens, Froms, Carries
  <2>. QED  BY <1>1, <1>2, <2>1 DEF Calls
<1>4. CASE q \in Sets
  <2>1. x \in Sets /\ Carries(q, x)
    BY <1>4 DEF Sets, Froms, Carries
  <2>. QED  BY <1>1, <1>2, <2>1 DEF Calls
<1>5. CASE q \in Revokes
  <2>1. x \in Revokes /\ Carries(q, x)
    BY <1>5 DEF Revokes, Froms, Carries
  <2>. QED  BY <1>1, <1>2, <2>1 DEF Calls
<1>. QED  BY <1>1, <1>3, <1>4, <1>5, RequestKinds

\* A handler moves its own request on and no other.
LEMMA GoesMoves ==
  ASSUME call \in [Requests -> Calls], NEW r \in Requests, NEW q \in Calls,
         call' = [call EXCEPT ![r] = q]
  PROVE  /\ call' \in [Requests -> Calls] /\ call'[r] = q
         /\ \A x \in Requests : x # r => call'[x] = call[x]
  OBVIOUS

\* A longer sequence of rows: what was there is there.
LEMMA RowAdded ==
  ASSUME NEW S, NEW s \in Seq(S), NEW x \in S
  PROVE  /\ Append(s, x) \in Seq(S) /\ Len(Append(s, x)) = Len(s) + 1 /\ Len(s) \in Nat
         /\ Append(s, x)[Len(s) + 1] = x
         /\ \A i \in 1 .. Len(s) : Append(s, x)[i] = s[i]
         /\ DOMAIN s = 1 .. Len(s) /\ DOMAIN Append(s, x) = 1 .. Len(s) + 1
  BY AppendProperties

\* Rows rewritten in place.
LEMMA RowsRewritten ==
  ASSUME NEW S, NEW s \in Seq(S), NEW t, DOMAIN t = DOMAIN s, t = [i \in DOMAIN t |-> t[i]],
         \A i \in DOMAIN s : t[i] \in S
  PROVE  t \in Seq(S) /\ Len(t) = Len(s) /\ DOMAIN s = 1 .. Len(s) /\ Len(s) \in Nat
<1>1. DOMAIN s = 1 .. Len(s) /\ Len(s) \in Nat
  OBVIOUS
<1>2. t \in [1 .. Len(s) -> S]
  BY <1>1
<1>. QED  BY <1>1, <1>2

\* The sessions there were have the players they had, and none comes back.
SessionsGoOn ==
  /\ Len(sessions) <= Len(sessions')
  /\ \A s \in 1 .. Len(sessions) :
       /\ sessions'[s].player = sessions[s].player
       /\ sessions'[s].live => sessions[s].live

\* Sessions that are left alone go on.
LEMMA SameSessions ==
  ASSUME AccountTyped, UNCHANGED sessions
  PROVE  SessionsGoOn
  BY DEF AccountTyped, SessionsGoOn

\* The session a browser presents has the same player as before.
LEMMA SamePlayer ==
  ASSUME AccountTyped, SessionsGoOn, NEW b \in Browsers, cookie[b] # 0
  PROVE  /\ cookie[b] \in 1 .. Len(sessions) /\ PlayerOf(b) \in Names
         /\ cookie'[b] = cookie[b] => PlayerOf(b)' = PlayerOf(b)
<1>1. cookie[b] \in 1 .. Len(sessions)
  BY DEF AccountTyped
<1>2. sessions[cookie[b]] \in Sessions
  BY <1>1 DEF AccountTyped
<1>. QED  BY <1>1, <1>2 DEF PlayerOf, SessionsGoOn, Sessions

\* A request that is as it was, or that has nothing to go by, is sound still.
LEMMA RequestGoesOn ==
  ASSUME AccountTyped, AccountTyped', SessionsGoOn, NEW r \in Requests, RequestSound(r),
         \/ call'[r] = call[r]
         \/ call'[r].op \in {"idle", "set", "left", "mint"}
         \/ Carries(call[r], call'[r])
  PROVE  RequestSound(r)'
<1>1. Len(sessions) \in Nat /\ Len(sessions') \in Nat /\ Len(sessions) <= Len(sessions')
  BY DEF AccountTyped, SessionsGoOn
<1>2. CASE call'[r].op \in {"idle", "set", "left", "mint"}
  BY <1>2 DEF RequestSound
<1>3. CASE call'[r] = call[r] /\ call[r].op \in {"opened", "me"}
  <2>1. call[r].session \in 1 .. Len(sessions')
    BY <1>1, <1>3 DEF RequestSound
  <2>. QED  BY <1>3, <2>1 DEF RequestSound
<1>4. CASE /\ call'[r].op \in {"open", "revoke"} /\ call'[r].op = call[r].op
           /\ call'[r].player = call[r].player /\ call'[r].before = call[r].before
  <2>1. call[r].before \in Nat
    BY <1>4, RequestKinds DEF AccountTyped, Opens, Revokes
  <2>2. call[r].before <= Len(sessions)
    BY <1>4 DEF RequestSound
  <2>3. \A s \in 1 .. call[r].before : s \in 1 .. Len(sessions)
    BY <1>1, <2>1, <2>2
  <2>4. call'[r].before <= Len(sessions')
    BY <1>1, <1>4, <2>1, <2>2
  <2>5. ASSUME call'[r].op = "open", NEW s \in 1 .. call'[r].before,
               sessions'[s].player = call'[r].player
        PROVE  ~ sessions'[s].live
    BY <1>4, <2>3, <2>5 DEF RequestSound, SessionsGoOn
  <2>. QED  BY <1>4, <2>4, <2>5 DEF RequestSound
<1>5. Idle.op = "idle" /\ call[r].op \in {"idle", "open", "set", "revoke", "opened", "me", "left", "mint"}
  BY RequestKinds DEF AccountTyped
<1>. QED  BY <1>2, <1>3, <1>4, <1>5 DEF Carries

\* A request goes on for the same player, and with the same end in view.
Follows(r) ==
  \/ call'[r] = call[r]
  \/ /\ call[r].op \in {"set", "revoke", "open"} /\ call'[r].kind = call[r].kind
     /\ \/ call'[r].op \in {"revoke", "open"} /\ call'[r].player = call[r].player
        \/ call'[r].op = "opened" /\ sessions'[call'[r].session].player = call[r].player

\* A page that stays as it is, and whose cookie stays or lapses, while requests
\* go on or end.
LEMMA WindowGoesOn ==
  ASSUME AccountTyped, SessionsGoOn, NEW b \in Browsers, WindowSound(b),
         \A r \in Requests : RequestSound(r),
         cookie'[b] \in {0, cookie[b]}, screen'[b] = screen[b], overlapped'[b] = overlapped[b],
         \A r \in Requests : Waits(r, b)' => Waits(r, b) /\ Follows(r)
  PROVE  WindowSound(b)'
<1>1. screen'[b] = "loading" => \A r \in Requests : ~ Waits(r, b)'
  BY DEF WindowSound
<1>2. ASSUME ~ overlapped[b], screen[b] \in Names, cookie'[b] # 0
      PROVE  PlayerOf(b)' = screen[b]
  BY <1>2, SamePlayer DEF WindowSound
<1>3. ASSUME ~ overlapped[b], NEW r \in Requests, Waits(r, b)'  PROVE Fits(r, b)'
  <2>1. Waits(r, b) /\ Fits(r, b) /\ Follows(r)
    BY <1>3 DEF WindowSound
  <2>2. CASE call'[r] = call[r]
    <3>1. call[r].op = "opened" => sessions'[call[r].session].player = sessions[call[r].session].player
      BY DEF RequestSound, SessionsGoOn
    <3>. QED  BY <2>1, <2>2, <3>1 DEF Fits
  <2>3. CASE call'[r] # call[r]
    BY <2>1, <2>3 DEF Fits, Follows
  <2>. QED  BY <2>2, <2>3
<1>. QED  BY <1>1, <1>2, <1>3 DEF WindowSound

\* A page that sends a request: if it is the only one, it fits.
LEMMA WindowSends ==
  ASSUME AccountTyped, SessionsGoOn, NEW b \in Browsers, WindowSound(b), NEW r \in Requests,
         NEW q, Sends(b, r, q), screen[b] # "loading", UNCHANGED <<cookie, screen>>,
         ~ overlapped[b] \/ screen[b] = "out" => Fits(r, b)'
  PROVE  WindowSound(b)'
<1>1. /\ overlapped'[b] = (UnderWay(b) \/ (overlapped[b] /\ screen[b] # "out"))
      /\ \A x \in Requests : x # r => call'[x] = call[x]
  BY DEF Sends, AccountTyped
<1>2. CASE overlapped'[b]
  BY <1>2 DEF WindowSound
<1>3. CASE ~ overlapped'[b]
  <2>1. ~ UnderWay(b) /\ (~ overlapped[b] \/ screen[b] = "out")
    BY <1>1, <1>3
  <2>2. \A x \in Requests : Waits(x, b)' => x = r
    BY <1>1, <2>1 DEF UnderWay, Waits
  <2>3. screen'[b] \in Names /\ cookie'[b] # 0 => PlayerOf(b)' = screen'[b]
    BY <2>1, SamePlayer, AccountAssumption DEF WindowSound
  <2>. QED  BY <1>3, <2>1, <2>2, <2>3 DEF WindowSound
<1>. QED  BY <1>2, <1>3

\* The operator Max of the module library finds the greatest member.
LEMMA GreatestIsMax ==
  ASSUME NEW S \in SUBSET Nat, NEW k \in S, \A j \in S : j <= k
  PROVE  Max(S) = k
<1> DEFINE m == Max(S)
<1>1. m \in S /\ k <= m
  BY GreatestNatural
<1> HIDE DEF m
<1>2. m <= k /\ m \in Nat /\ k \in Nat
  BY <1>1
<1>3. m = k
  BY <1>1, <1>2
<1>. QED  BY <1>3 DEF m

\* The links of a player whose links are the same, work if they did, and whose
\* unfinished request is still known of.
LEMMA LinkAlone ==
  ASSUME AccountTyped, NEW n \in Names, LinkSound(n), Own(n)' = Own(n),
         \A k \in Own(n) : Works(k) => Works(k)',
         Minting(n) => Minting(n)'
  PROVE  LinkSound(n)'
<1>1. Own(n) \in SUBSET Nat /\ Len(links) \in Nat /\ \A k \in Own(n) : k <= Len(links)
  BY DEF AccountTyped, Own
<1>2. Own(n) # {} => Max(Own(n)) \in Own(n)
  BY <1>1, GreatestNatural
<1>. QED  BY <1>2 DEF LinkSound

\* What is known of the reset links survives a step that leaves them alone and
\* forgets no request that was cut off.
LEMMA LinksAlone ==
  ASSUME AccountSound, UNCHANGED links, cutOff \subseteq cutOff',
         \A r \in Requests : call[r].op = "mint" =>
            call'[r] = call[r] \/ call[r].player \in cutOff'
  PROVE  \A n \in Names : LinkSound(n)'
<1> SUFFICES ASSUME NEW n \in Names  PROVE LinkSound(n)'
  OBVIOUS
<1>1. Own(n)' = Own(n) /\ \A k \in Own(n) : Works(k) => Works(k)'
  BY DEF Own, Works
<1>2. Minting(n) => Minting(n)'
  BY DEF Minting
<1>. QED  BY <1>1, <1>2, LinkAlone DEF AccountSound

\* A request goes on at the server, or ends, while the pages stay as they are.
LEMMA Proceeding ==
  ASSUME AccountSound, AccountTyped', SessionsGoOn, NEW r \in Requests, NEW q \in Calls,
         Goes(r, q), UNCHANGED <<cookie, screen>>, RequestSound(r)',
         \/ Follows(r) /\ q.from = call[r].from /\ call[r].op \notin {"idle", "mint"}
         \/ q.op \in {"idle", "mint"},
         \A n \in Names : LinkSound(n)'
  PROVE  AccountSound'
<1>1. AccountTyped /\ UNCHANGED overlapped
  BY DEF AccountSound, Goes
<1>2. call'[r] = q /\ \A x \in Requests : x # r => call'[x] = call[x]
  BY <1>1, GoesMoves DEF Goes, AccountTyped
<1>3. \A x \in Requests : RequestSound(x)'
  BY <1>1, <1>2, RequestGoesOn DEF AccountSound
<1>4. ASSUME NEW b \in Browsers  PROVE WindowSound(b)'
  <2>1. \A x \in Requests : Waits(x, b)' => Waits(x, b) /\ Follows(x)
    BY <1>2 DEF Waits, Follows
  <2>. QED  BY <1>1, <2>1, WindowGoesOn DEF AccountSound
<1>. QED  BY <1>3, <1>4 DEF AccountSound

\* A page sends a request.
LEMMA Sending ==
  ASSUME AccountSound, AccountTyped', SessionsGoOn, NEW b \in Browsers, NEW r \in Requests,
         NEW q \in Calls, Sends(b, r, q), q.from = b, screen[b] # "loading",
         UNCHANGED <<cookie, screen>>, RequestSound(r)',
         ~ overlapped[b] \/ screen[b] = "out" => Fits(r, b)',
         \A n \in Names : LinkSound(n)'
  PROVE  AccountSound'
<1>1. AccountTyped
  BY DEF AccountSound
<1>2. call'[r] = q /\ \A x \in Requests : x # r => call'[x] = call[x]
  BY <1>1, GoesMoves DEF Sends, AccountTyped
<1>3. \A x \in Requests : RequestSound(x)'
  BY <1>1, <1>2, RequestGoesOn DEF AccountSound
<1>4. WindowSound(b)'
  BY <1>1, WindowSends DEF AccountSound
<1>5. ASSUME NEW c \in Browsers, c # b  PROVE WindowSound(c)'
  <2>1. \A x \in Requests : Waits(x, c)' => Waits(x, c) /\ Follows(x)
    BY <1>2, <1>5 DEF Waits, Follows
  <2>2. overlapped'[c] = overlapped[c]
    BY <1>1, <1>5 DEF Sends, AccountTyped
  <2>. QED  BY <1>1, <2>1, <2>2, WindowGoesOn DEF AccountSound
<1>. QED  BY <1>3, <1>4, <1>5 DEF AccountSound

\* What a new request does to the types.
LEMMA SendingTyped ==
  ASSUME AccountTyped, NEW b \in Browsers, NEW r \in Requests, NEW q \in Calls, Sends(b, r, q)
  PROVE  /\ call' \in [Requests -> Calls] /\ call'[r] = q
         /\ overlapped' \in [Browsers -> BOOLEAN] /\ call[r].op = "idle"
         /\ \A x \in Requests : x # r => call'[x] = call[x]
<1>1. call' = [call EXCEPT ![r] = q] /\ call[r] = Idle
  BY DEF Sends
<1>2. overlapped' \in [Browsers -> BOOLEAN]
  <2>1. UnderWay(b) \in BOOLEAN
    BY DEF UnderWay
  <2>2. overlapped' = [overlapped EXCEPT ![b] = UnderWay(b) \/ (overlapped[b] /\ screen[b] # "out")]
    BY DEF Sends
  <2> HIDE DEF UnderWay
  <2>. QED  BY <2>1, <2>2 DEF AccountTyped
<1>. QED  BY <1>1, <1>2, GoesMoves, RequestKinds DEF AccountTyped

\* A page that shows something else now, by the answer to a request r that was
\* the last of it, while no other request moves.
LEMMA Answering ==
  ASSUME AccountSound, AccountTyped', UNCHANGED <<sessions, links, cutOff>>, NEW b \in Browsers,
         \A c \in Browsers : c # b => /\ cookie'[c] = cookie[c] /\ screen'[c] = screen[c]
                                      /\ overlapped'[c] = overlapped[c],
         \A r \in Requests : \/ call'[r] = call[r]
                             \/ Waits(r, b) /\ (Carries(call[r], call'[r]) \/ RequestSound(r)'),
         \A r \in Requests : call'[r] # call[r] => \A c \in Browsers : c # b => ~ Waits(r, c)',
         WindowSound(b)'
  PROVE  AccountSound'
<1>1. AccountTyped /\ SessionsGoOn
  BY SameSessions DEF AccountSound
<1>2. \A r \in Requests : RequestSound(r)'
  BY <1>1, RequestGoesOn DEF AccountSound
<1>3. ASSUME NEW c \in Browsers, c # b  PROVE WindowSound(c)'
  <2>1. \A r \in Requests : Waits(r, c)' => Waits(r, c) /\ Follows(r)
    BY <1>3 DEF Waits, Follows
  <2>. QED  BY <1>1, <1>3, <2>1, WindowGoesOn DEF AccountSound
<1>4. \A n \in Names : LinkSound(n)'
  BY LinksAlone DEF Waits
<1>. QED  BY <1>2, <1>3, <1>4 DEF AccountSound

-----------------------------------------------------------------------------
(* The page *)

\* What a page that is loaded anew leaves of the requests.
LEMMA AbandonsKinds ==
  ASSUME NEW b \in Browsers, NEW waiting \in [Requests -> Calls], Abandons(b, waiting)
  PROVE  /\ call' \in [Requests -> Calls]
         /\ \A r \in Requests : ~ Waits(r, b)'
         /\ \A r \in Requests :
              LET w == waiting[r].op \notin {"idle", "mint"} /\ waiting[r].from = b
              IN  IF w THEN Carries(waiting[r], call'[r]) ELSE call'[r] = waiting[r]
<1>1. ASSUME NEW r \in Requests
      PROVE  LET w == waiting[r].op \notin {"idle", "mint"} /\ waiting[r].from = b
             IN  /\ call'[r] \in Calls /\ ~ Waits(r, b)'
                 /\ IF w THEN Carries(waiting[r], call'[r]) ELSE call'[r] = waiting[r]
  <2> DEFINE w == waiting[r].op \notin {"idle", "mint"} /\ waiting[r].from = b
  <2>1. call'[r] = IF w THEN Unheard(waiting[r]) ELSE waiting[r]
    BY DEF Abandons
  <2>2. CASE w
    <3>1. call'[r] \in Calls /\ Carries(waiting[r], call'[r])
      BY <2>1, <2>2, UnheardCarries
    <3>2. b # NoBrowser
      BY AccountAssumption
    <3>3. ~ Waits(r, b)'
      BY <3>1, <3>2, RequestKinds DEF Waits, Carries
    <3>. QED  BY <2>2, <3>1, <3>3
  <2>3. CASE ~ w
    BY <2>1, <2>3 DEF Waits
  <2>. QED  BY <2>2, <2>3
<1>2. call' = [r \in Requests |-> call'[r]]
  BY DEF Abandons
<1>. QED  BY <1>1, <1>2

\* What is shown where a page changes.
LEMMA ShowsOne ==
  ASSUME AccountTyped, NEW b \in Browsers, NEW x \in Names \cup {"loading", "out"}, Shows(b, x)
  PROVE  /\ screen' \in [Browsers -> Names \cup {"loading", "out"}] /\ screen'[b] = x
         /\ \A c \in Browsers : c # b => screen'[c] = screen[c]
  BY DEF Shows, AccountTyped

\* A page that loads has nothing under way and asks who its session belongs to.
LEMMA BootstrapKeeps ==
  ASSUME AccountSound, NEW b \in Browsers, Bootstrap(b)
  PROVE  AccountSound'
<1>1. /\ UNCHANGED <<password, sessions, links, cookie, call, overlapped, cutOff>>
      /\ screen[b] = "loading" /\ Shows(b, IF HasSession(b) THEN PlayerOf(b) ELSE "out")
  BY DEF Bootstrap
<1>2. SessionsGoOn /\ AccountTyped
  BY <1>1, SameSessions DEF AccountSound
<1>3. HasSession(b) => PlayerOf(b) \in Names
  BY <1>2, SamePlayer DEF HasSession
<1>4. /\ screen' \in [Browsers -> Names \cup {"loading", "out"}]
      /\ screen'[b] = IF HasSession(b) THEN PlayerOf(b) ELSE "out"
      /\ \A c \in Browsers : c # b => screen'[c] = screen[c]
  BY <1>1, <1>2, <1>3, ShowsOne
<1>5. AccountTyped'
  BY <1>1, <1>2, <1>4 DEF AccountTyped
<1>6. \A r \in Requests : ~ Waits(r, b)'
  BY <1>1 DEF AccountSound, WindowSound, Waits
<1>7. screen'[b] \in Names => PlayerOf(b)' = screen'[b]
  BY <1>1, <1>4, AccountAssumption DEF PlayerOf
<1>8. WindowSound(b)'
  BY <1>6, <1>7 DEF WindowSound
<1>. QED  BY <1>1, <1>4, <1>5, <1>8, Answering

LEMMA ReloadKeeps ==
  ASSUME AccountSound, NEW b \in Browsers, Reload(b)
  PROVE  AccountSound'
<1>1. /\ UNCHANGED <<password, sessions, links, cookie, cutOff>> /\ Abandons(b, call)
  BY DEF Reload
<1>2. AccountTyped
  BY DEF AccountSound
<1>3. /\ call' \in [Requests -> Calls] /\ \A r \in Requests : ~ Waits(r, b)'
      /\ \A r \in Requests :
           IF Waits(r, b) THEN Carries(call[r], call'[r]) ELSE call'[r] = call[r]
  BY <1>1, <1>2, AbandonsKinds DEF AccountTyped, Waits
<1>4. /\ screen' \in [Browsers -> Names \cup {"loading", "out"}] /\ screen'[b] = "loading"
      /\ \A c \in Browsers : c # b => screen'[c] = screen[c]
  BY <1>1, <1>2, ShowsOne DEF Abandons
<1>5. /\ overlapped' \in [Browsers -> BOOLEAN]
      /\ \A c \in Browsers : c # b => overlapped'[c] = overlapped[c]
  BY <1>1, <1>2 DEF Abandons, AccountTyped
<1>6. AccountTyped'
  BY <1>1, <1>2, <1>3, <1>4, <1>5 DEF AccountTyped
<1>7. WindowSound(b)'
  BY <1>3, <1>4, AccountAssumption DEF WindowSound
<1>8. ASSUME NEW r \in Requests, Waits(r, b), NEW c \in Browsers, c # b
      PROVE  ~ Waits(r, c)'
  <2>1. Carries(call[r], call'[r]) /\ c # NoBrowser
    BY <1>3, <1>8, AccountAssumption
  <2>. QED  BY <2>1, RequestKinds DEF Waits, Carries
<1>. QED  BY <1>1, <1>3, <1>4, <1>5, <1>6, <1>7, <1>8, Answering

\* An answer that is lost leaves no trace.
LEMMA LostKeeps ==
  ASSUME AccountSound, NEW r \in Requests, Lost(r)
  PROVE  AccountSound'
<1>1. /\ UNCHANGED <<password, sessions, links, cookie, screen, cutOff>> /\ Goes(r, Idle)
      /\ call[r].op # "mint"
  BY DEF Lost
<1>2. SessionsGoOn /\ AccountTyped /\ Idle \in Calls /\ Idle.op = "idle"
  BY <1>1, SameSessions, RequestKinds DEF AccountSound
<1>3. /\ call' \in [Requests -> Calls] /\ call'[r] = Idle /\ overlapped' = overlapped
      /\ \A x \in Requests : x # r => call'[x] = call[x]
  BY <1>1, <1>2, GoesMoves DEF AccountTyped, Goes
<1>4. AccountTyped'
  BY <1>1, <1>2, <1>3 DEF AccountTyped
<1>5. RequestSound(r)'
  BY <1>2, <1>3 DEF RequestSound
<1>6. \A n \in Names : LinkSound(n)'
  BY <1>1, <1>3, LinksAlone
<1>. QED  BY <1>1, <1>2, <1>4, <1>5, <1>6, Proceeding

-----------------------------------------------------------------------------
(* Signing in and out *)

\* Both go on to a session, with nobody's pages on the screen.
LEMMA SignInKeeps ==
  ASSUME AccountSound, NEW b \in Browsers, NEW r \in Requests, NEW n \in Names, NEW w \in Passwords,
         Register(b, r, n, w) \/ Login(b, r, n, w)
  PROVE  AccountSound'
<1> DEFINE q == Opening(b, n)
<1>1. /\ UNCHANGED <<sessions, links, cookie, screen, cutOff>>
      /\ screen[b] = "out" /\ Sends(b, r, q)
      /\ password' = password \/ password' = [password EXCEPT ![n] = w]
  BY DEF Register, Login, SignedOut
<1>2. /\ q \in Calls /\ q.op = "open" /\ q.kind = "login" /\ q.from = b /\ q.before = 0
  BY DEF Calls, Opens, Opening, Froms
<1> HIDE DEF q
<1>3. SessionsGoOn /\ AccountTyped
  BY <1>1, SameSessions DEF AccountSound
<1>4. /\ call' \in [Requests -> Calls] /\ call'[r] = q /\ overlapped' \in [Browsers -> BOOLEAN]
      /\ call[r].op = "idle" /\ \A x \in Requests : x # r => call'[x] = call[x]
  BY <1>1, <1>2, <1>3, SendingTyped
<1>5. AccountTyped'
  BY <1>1, <1>3, <1>4 DEF AccountTyped
<1>6. RequestSound(r)'
  BY <1>1, <1>2, <1>3, <1>4 DEF RequestSound, AccountTyped
<1>7. Fits(r, b)'
  BY <1>1, <1>2, <1>4 DEF Fits
<1>8. \A m \in Names : LinkSound(m)'
  BY <1>1, <1>4, LinksAlone
<1>. QED  BY <1>1, <1>2, <1>3, <1>5, <1>6, <1>7, <1>8, Sending

\* The new session is the player's of the request.
LEMMA OpenSessionKeeps ==
  ASSUME AccountSound, NEW r \in Requests, OpenSession(r)
  PROVE  AccountSound'
<1> DEFINE new == [player |-> call[r].player, live |-> TRUE]
           n == Len(sessions) + 1
           q == [op |-> "opened", from |-> call[r].from, kind |-> call[r].kind, session |-> n]
<1>1. /\ UNCHANGED <<password, links, cookie, screen, cutOff>> /\ call[r].op = "open"
      /\ sessions' = Append(sessions, new) /\ Goes(r, q)
  BY DEF OpenSession
<1>2. AccountTyped /\ call[r] \in Opens
  BY <1>1, RequestKinds DEF AccountSound, AccountTyped
<1>3. call[r].player \in Names /\ call[r].kind \in {"login"} \cup Renewals /\ call[r].from \in Froms
  BY <1>2 DEF Opens
<1>4. /\ sessions' \in Seq(Sessions) /\ Len(sessions') = n /\ Len(sessions) \in Nat
      /\ sessions'[n] = new /\ \A s \in 1 .. Len(sessions) : sessions'[s] = sessions[s]
  BY <1>1, <1>2, <1>3, RowAdded DEF AccountTyped, Sessions
<1>5. SessionsGoOn
  BY <1>4 DEF SessionsGoOn
<1>6. /\ q \in Calls /\ q.op = "opened" /\ q.session = n /\ q.kind = call[r].kind
      /\ q.from = call[r].from
  BY <1>3, <1>4 DEF Calls, Openeds
<1>7. new.player = call[r].player
  OBVIOUS
<1> HIDE DEF new, n, q
<1>8. /\ call' \in [Requests -> Calls] /\ call'[r] = q /\ overlapped' = overlapped
      /\ \A x \in Requests : x # r => call'[x] = call[x]
  BY <1>1, <1>2, <1>6, GoesMoves DEF AccountTyped, Goes
<1>9. n \in Nat /\ Len(sessions) <= n /\ n \in 1 .. n
  BY <1>4 DEF n
<1>10. \A b \in Browsers : cookie'[b] <= Len(sessions')
  <2> SUFFICES ASSUME NEW b \in Browsers  PROVE cookie'[b] <= Len(sessions')
    OBVIOUS
  <2>1. cookie[b] \in Nat /\ cookie[b] <= Len(sessions) /\ cookie' = cookie
    BY <1>1, <1>2 DEF AccountTyped
  <2>. QED  BY <1>4, <1>9, <2>1
<1>11. AccountTyped'
  BY <1>1, <1>2, <1>4, <1>8, <1>10 DEF AccountTyped
<1>12. RequestSound(r)'
  BY <1>4, <1>6, <1>8, <1>9 DEF RequestSound
<1>13. Follows(r)
  BY <1>1, <1>4, <1>6, <1>7, <1>8 DEF Follows
<1>14. \A m \in Names : LinkSound(m)'
  BY <1>1, <1>8, LinksAlone
<1>. QED  BY <1>1, <1>5, <1>6, <1>11, <1>12, <1>13, <1>14, Proceeding

\* The cookie arrives: the player's whose page it is, if the page has sent
\* nothing else.
LEMMA OpenedKeeps ==
  ASSUME AccountSound, NEW r \in Requests, Opened(r)
  PROVE  AccountSound'
<1>1. AccountTyped /\ call[r].op = "opened" /\ call[r].from # NoBrowser /\ call[r] \in Openeds
  BY RequestKinds DEF Opened, AccountSound, AccountTyped
<1>2. PICK b \in Browsers : b = call[r].from
  BY <1>1 DEF Openeds, Froms
<1>3. PICK s \in Nat : s = call[r].session
  BY <1>1 DEF Openeds
<1> DEFINE me == [op |-> "me", from |-> b, session |-> s]
<1>4. /\ UNCHANGED <<password, sessions, links, cutOff>> /\ call[r].op = "opened"
      /\ cookie' = [cookie EXCEPT ![b] = s]
      /\ \/ call[r].kind = "login" /\ Goes(r, me) /\ UNCHANGED screen
         \/ call[r].kind = "reset" /\ Abandons(b, [call EXCEPT ![r] = Idle])
         \/ call[r].kind = "change" /\ Goes(r, Idle) /\ UNCHANGED screen
  <2>1. call[r].kind \in {"login", "reset", "change"}
    BY RequestKinds DEF Opened, AccountSound, AccountTyped, Openeds, Renewals
  <2>. QED  BY <1>2, <1>3, <2>1 DEF Opened
<1>5. AccountTyped /\ SessionsGoOn
  BY <1>1, <1>4, SameSessions
<1>6. s \in 1 .. Len(sessions) /\ s # 0 /\ Len(sessions) \in Nat
  BY <1>1, <1>3 DEF AccountSound, AccountTyped, RequestSound
<1>7. Waits(r, b)
  BY <1>4, <1>2 DEF Waits
<1>8. /\ me \in Calls /\ me.op = "me" /\ me.from = b /\ me.session = s
      /\ Idle \in Calls /\ Idle.op = "idle"
  BY <1>6, RequestKinds DEF Calls, Asked, Froms
<1> HIDE DEF me
<1>9. /\ cookie' \in [Browsers -> Nat] /\ cookie'[b] = s
      /\ \A c \in Browsers : c # b => cookie'[c] = cookie[c]
  BY <1>4, <1>5, <1>6 DEF AccountTyped
<1>10. \A c \in Browsers : cookie'[c] <= Len(sessions')
  <2> SUFFICES ASSUME NEW c \in Browsers  PROVE cookie'[c] <= Len(sessions')
    OBVIOUS
  <2>1. cookie[c] <= Len(sessions) /\ sessions' = sessions /\ s <= Len(sessions)
    BY <1>4, <1>5, <1>6 DEF AccountTyped
  <2>. QED  BY <1>9, <2>1
<1>11. PlayerOf(b)' = sessions[s].player
  BY <1>4, <1>9 DEF PlayerOf
<1>12. ~ overlapped[b] => \A x \in Requests : Waits(x, b) => x = r
  BY <1>6, <1>7 DEF AccountSound, WindowSound
<1>13. ~ overlapped[b] => Fits(r, b)
  BY <1>6, <1>7 DEF AccountSound, WindowSound
<1>14. screen[b] # "loading"
  BY <1>6, <1>7 DEF AccountSound, WindowSound
<1>15. CASE call[r].kind = "login" /\ Goes(r, me) /\ UNCHANGED screen
  <2>1. /\ call' \in [Requests -> Calls] /\ call'[r] = me /\ overlapped' = overlapped
        /\ \A x \in Requests : x # r => call'[x] = call[x]
    BY <1>5, <1>8, <1>15, GoesMoves DEF AccountTyped, Goes
  <2>2. AccountTyped'
    BY <1>4, <1>5, <1>9, <1>10, <1>15, <2>1 DEF AccountTyped
  <2>3. RequestSound(r)'
    BY <1>4, <1>6, <1>8, <2>1 DEF RequestSound
  <2>4. ~ overlapped[b] => screen[b] = "out"
    BY <1>4, <1>13, <1>15 DEF Fits
  <2>5. ~ overlapped'[b] => \A x \in Requests : Waits(x, b)' => x = r
    BY <1>12, <2>1 DEF Waits
  <2>6. ~ overlapped'[b] => Fits(r, b)'
    BY <1>8, <1>9, <1>15, <2>1, <2>4 DEF Fits
  <2>7. WindowSound(b)'
    BY <1>14, <1>15, <2>1, <2>4, <2>5, <2>6, AccountAssumption DEF WindowSound
  <2>8. \A c \in Browsers : c # b => ~ Waits(r, c)'
    BY <1>8, <2>1 DEF Waits
  <2>. QED  BY <1>4, <1>6, <1>7, <1>9, <1>15, <2>1, <2>2, <2>3, <2>7, <2>8, Answering
<1>16. CASE call[r].kind = "change" /\ Goes(r, Idle) /\ UNCHANGED screen
  <2>1. /\ call' \in [Requests -> Calls] /\ call'[r] = Idle /\ overlapped' = overlapped
        /\ \A x \in Requests : x # r => call'[x] = call[x]
    BY <1>5, <1>8, <1>16, GoesMoves DEF AccountTyped, Goes
  <2>2. AccountTyped'
    BY <1>4, <1>5, <1>9, <1>10, <1>16, <2>1 DEF AccountTyped
  <2>3. RequestSound(r)'
    BY <1>8, <2>1 DEF RequestSound
  <2>4. ~ overlapped[b] => screen[b] = sessions[s].player
    BY <1>4, <1>3, <1>13, <1>16 DEF Fits
  <2>5. \A c \in Browsers : ~ Waits(r, c)'
    BY <1>8, <2>1 DEF Waits
  <2>6. ~ overlapped'[b] => \A x \in Requests : ~ Waits(x, b)'
    BY <1>12, <2>1, <2>5 DEF Waits
  <2>7. WindowSound(b)'
    BY <1>11, <1>14, <1>16, <2>1, <2>4, <2>6 DEF WindowSound
  <2>. QED  BY <1>4, <1>6, <1>7, <1>9, <1>16, <2>1, <2>2, <2>3, <2>5, <2>7, Answering
<1>17. CASE call[r].kind = "reset" /\ Abandons(b, [call EXCEPT ![r] = Idle])
  <2> DEFINE waiting == [call EXCEPT ![r] = Idle]
  <2>1. /\ waiting \in [Requests -> Calls] /\ waiting[r] = Idle
        /\ \A x \in Requests : x # r => waiting[x] = call[x]
    BY <1>5, <1>8 DEF AccountTyped
  <2> HIDE DEF waiting
  <2>2. Abandons(b, waiting)
    BY <1>17 DEF waiting
  <2>3. /\ call' \in [Requests -> Calls] /\ \A x \in Requests : ~ Waits(x, b)'
        /\ \A x \in Requests :
             LET w == waiting[x].op \notin {"idle", "mint"} /\ waiting[x].from = b
             IN  IF w THEN Carries(waiting[x], call'[x]) ELSE call'[x] = waiting[x]
    BY <1>6, <2>1, <2>2, AbandonsKinds
  <2>4. call'[r] = Idle
    BY <1>8, <2>1, <2>3
  <2>5. \A x \in Requests : x # r =>
           IF Waits(x, b) THEN Carries(call[x], call'[x]) ELSE call'[x] = call[x]
    BY <2>1, <2>3 DEF Waits
  <2>6. /\ screen' \in [Browsers -> Names \cup {"loading", "out"}] /\ screen'[b] = "loading"
        /\ \A c \in Browsers : c # b => screen'[c] = screen[c]
    BY <1>5, <1>6, <2>2, ShowsOne DEF Abandons
  <2>7. /\ overlapped' \in [Browsers -> BOOLEAN]
        /\ \A c \in Browsers : c # b => overlapped'[c] = overlapped[c]
    BY <1>5, <2>2 DEF Abandons, AccountTyped
  <2>8. AccountTyped'
    BY <1>4, <1>5, <1>9, <1>10, <2>3, <2>6, <2>7 DEF AccountTyped
  <2>9. WindowSound(b)'
    BY <2>3, <2>6, AccountAssumption DEF WindowSound
  <2>10. Carries(call[r], call'[r])
    BY <2>4 DEF Carries
  <2>11. ASSUME NEW x \in Requests, Carries(call[x], call'[x]), NEW c \in Browsers
         PROVE  ~ Waits(x, c)'
    BY <1>8, <2>11, AccountAssumption DEF Waits, Carries
  <2>12. \A x \in Requests : call'[x] = call[x] \/ (Waits(x, b) /\ Carries(call[x], call'[x]))
    BY <1>7, <2>5, <2>10
  <2>13. \A x \in Requests : call'[x] # call[x] => \A c \in Browsers : ~ Waits(x, c)'
    BY <2>11, <2>12
  <2>. QED  BY <1>4, <1>6, <1>9, <2>6, <2>7, <2>8, <2>9, <2>12, <2>13, Answering
<1>. QED  BY <1>4, <1>15, <1>16, <1>17

\* The answer to that: the screen is the session's, or the login form.
LEMMA MeKeeps ==
  ASSUME AccountSound, NEW r \in Requests, Me(r)
  PROVE  AccountSound'
<1>1. /\ AccountTyped /\ call[r].op = "me" /\ call[r].from # NoBrowser
      /\ UNCHANGED <<password, sessions, links, cookie, cutOff>> /\ Goes(r, Idle)
  BY DEF Me, AccountSound
<1>2. PICK b \in Browsers : b = call[r].from
  BY <1>1, RequestKinds DEF AccountTyped, Froms
<1>3. PICK s \in 1 .. Len(sessions) : s = call[r].session
  BY <1>1 DEF AccountSound, RequestSound
<1>4. Idle \in Calls /\ Idle.op = "idle" /\ sessions[s].player \in Names
  <2>1. sessions[s] \in Sessions
    BY <1>1 DEF AccountTyped
  <2>. QED  BY <2>1, RequestKinds DEF Sessions
<1>5. /\ call' \in [Requests -> Calls] /\ call'[r] = Idle /\ overlapped' = overlapped
      /\ \A x \in Requests : x # r => call'[x] = call[x]
  BY <1>1, <1>4, GoesMoves DEF AccountTyped, Goes
<1>6. UNCHANGED screen \/ Shows(b, sessions[s].player)
  BY <1>2, <1>3 DEF Me
<1>7. /\ screen' \in [Browsers -> Names \cup {"loading", "out"}]
      /\ screen'[b] \in {screen[b], sessions[s].player}
      /\ \A c \in Browsers : c # b => screen'[c] = screen[c]
  BY <1>1, <1>4, <1>6, ShowsOne DEF AccountTyped
<1>8. AccountTyped'
  BY <1>1, <1>5, <1>7 DEF AccountTyped
<1>9. Waits(r, b)
  BY <1>1, <1>2 DEF Waits
<1>10. RequestSound(r)' /\ \A c \in Browsers : ~ Waits(r, c)'
  BY <1>4, <1>5 DEF RequestSound, Waits
<1>11. WindowSound(b)'
  <2>1. WindowSound(b)
    BY DEF AccountSound
  <2>2. screen'[b] # "loading"
    BY <1>4, <1>7, <1>9, <2>1, AccountAssumption DEF WindowSound
  <2>3. CASE ~ overlapped[b]
    <3>1. \A x \in Requests : ~ Waits(x, b)'
      BY <1>5, <1>9, <1>10, <2>1, <2>3 DEF WindowSound, Waits
    <3>2. screen[b] = "out" /\ cookie[b] \in {0, s}
      BY <1>1, <1>3, <1>9, <2>1, <2>3 DEF WindowSound, Fits
    <3>3. screen'[b] \in Names /\ cookie'[b] # 0 => PlayerOf(b)' = screen'[b]
      BY <1>1, <1>7, <3>2, AccountAssumption DEF PlayerOf
    <3>. QED  BY <3>1, <3>3 DEF WindowSound
  <2>. QED  BY <1>5, <2>2, <2>3 DEF WindowSound
<1>. QED  BY <1>1, <1>5, <1>7, <1>8, <1>9, <1>10, <1>11, Answering

\* A session that ends.
LEMMA SessionEnds ==
  ASSUME AccountTyped, NEW s \in DOMAIN sessions,
         NEW x, x = [sessions[s] EXCEPT !.live = FALSE], sessions' = [sessions EXCEPT ![s] = x]
  PROVE  sessions' \in Seq(Sessions) /\ Len(sessions') = Len(sessions) /\ SessionsGoOn
<1>1. sessions[s] \in Sessions /\ sessions \in Seq(Sessions)
  BY DEF AccountTyped
<1>2. x \in Sessions /\ x.player = sessions[s].player /\ x.live = FALSE
  BY <1>1 DEF Sessions
<1>3. /\ sessions' \in Seq(Sessions) /\ DOMAIN sessions' = DOMAIN sessions /\ sessions'[s] = x
      /\ \A j \in DOMAIN sessions : j # s => sessions'[j] = sessions[j]
  BY <1>1, <1>2, ExceptSeq
<1>4. Len(sessions') = Len(sessions) /\ DOMAIN sessions = 1 .. Len(sessions) /\ Len(sessions) \in Nat
  BY <1>1, <1>3
<1>. QED  BY <1>2, <1>3, <1>4 DEF SessionsGoOn

\* Logging out ends the session before the page shows the login form.
LEMMA LogoutKeeps ==
  ASSUME AccountSound, NEW b \in Browsers, NEW r \in Requests, Logout(b, r)
  PROVE  AccountSound'
<1> DEFINE q == [op |-> "left", from |-> b]
<1>1. /\ UNCHANGED <<password, links, cookie, screen, cutOff>> /\ Sends(b, r, q)
      /\ HasSession(b) /\ screen[b] \in Names /\ AccountTyped
      /\ sessions' = [sessions EXCEPT ![cookie[b]] = [sessions[cookie[b]] EXCEPT !.live = FALSE]]
  BY DEF Logout, SignedIn, AccountSound
<1>2. cookie[b] \in 1 .. Len(sessions) /\ cookie[b] \in DOMAIN sessions
  BY <1>1 DEF AccountTyped, HasSession
<1>3. sessions' \in Seq(Sessions) /\ Len(sessions') = Len(sessions) /\ SessionsGoOn
  BY <1>1, <1>2, SessionEnds
<1>4. q \in Calls /\ q.op = "left" /\ q.from = b
  BY DEF Calls, Asked, Froms
<1> HIDE DEF q
<1>5. /\ call' \in [Requests -> Calls] /\ call'[r] = q /\ overlapped' \in [Browsers -> BOOLEAN]
      /\ call[r].op = "idle" /\ \A x \in Requests : x # r => call'[x] = call[x]
  BY <1>1, <1>4, SendingTyped
<1>6. AccountTyped'
  BY <1>1, <1>3, <1>5 DEF AccountTyped
<1>7. RequestSound(r)' /\ Fits(r, b)'
  BY <1>4, <1>5 DEF RequestSound, Fits
<1>8. \A m \in Names : LinkSound(m)'
  BY <1>1, <1>5, LinksAlone
<1>. QED  BY <1>1, <1>3, <1>4, <1>6, <1>7, <1>8, Sending, AccountAssumption

\* The answer takes the cookie and the player's pages with it.
LEMMA LoggedOutKeeps ==
  ASSUME AccountSound, NEW r \in Requests, LoggedOut(r)
  PROVE  AccountSound'
<1>1. /\ AccountTyped /\ call[r].op = "left" /\ call[r].from # NoBrowser
      /\ UNCHANGED <<password, sessions, links, cutOff>> /\ Goes(r, Idle)
  BY DEF LoggedOut, AccountSound
<1>2. PICK b \in Browsers : b = call[r].from
  BY <1>1, RequestKinds DEF AccountTyped, Froms
<1>3. cookie' = [cookie EXCEPT ![b] = 0] /\ Shows(b, "out")
  BY <1>2 DEF LoggedOut
<1>4. Idle \in Calls /\ Idle.op = "idle"
  BY RequestKinds
<1>5. /\ call' \in [Requests -> Calls] /\ call'[r] = Idle /\ overlapped' = overlapped
      /\ \A x \in Requests : x # r => call'[x] = call[x]
  BY <1>1, <1>4, GoesMoves DEF AccountTyped, Goes
<1>6. /\ screen' \in [Browsers -> Names \cup {"loading", "out"}] /\ screen'[b] = "out"
      /\ \A c \in Browsers : c # b => screen'[c] = screen[c]
  BY <1>1, <1>3, ShowsOne
<1>7. /\ cookie' \in [Browsers -> Nat]
      /\ \A c \in Browsers : (c # b => cookie'[c] = cookie[c]) /\ cookie'[c] <= Len(sessions')
  <2>1. Len(sessions) \in Nat /\ \A c \in Browsers : cookie'[c] \in {0, cookie[c]}
    BY <1>1, <1>3 DEF AccountTyped
  <2>. QED  BY <1>1, <1>3, <2>1 DEF AccountTyped
<1>8. AccountTyped'
  BY <1>1, <1>5, <1>6, <1>7 DEF AccountTyped
<1>9. Waits(r, b)
  BY <1>1, <1>2 DEF Waits
<1>10. RequestSound(r)' /\ \A c \in Browsers : ~ Waits(r, c)'
  BY <1>4, <1>5 DEF RequestSound, Waits
<1>11. WindowSound(b)'
  <2>1. ~ overlapped[b] => \A x \in Requests : ~ Waits(x, b)'
    BY <1>5, <1>9, <1>10 DEF AccountSound, WindowSound, Waits
  <2>. QED  BY <1>5, <1>6, <2>1, AccountAssumption DEF WindowSound
<1>. QED  BY <1>1, <1>5, <1>6, <1>7, <1>8, <1>9, <1>10, <1>11, Answering

\* What happens by itself: nothing is asked or answered.
LEMMA Aside ==
  ASSUME AccountSound, AccountTyped', SessionsGoOn, UNCHANGED <<call, screen, overlapped>>,
         \A b \in Browsers : cookie'[b] \in {0, cookie[b]}, \A n \in Names : LinkSound(n)'
  PROVE  AccountSound'
<1>1. AccountTyped
  BY DEF AccountSound
<1>2. \A r \in Requests : RequestSound(r)'
  BY <1>1, RequestGoesOn DEF AccountSound
<1>3. \A b \in Browsers : WindowSound(b)'
  BY <1>1, WindowGoesOn DEF AccountSound, Waits, Follows
<1>. QED  BY <1>2, <1>3 DEF AccountSound

\* A session that expires is still its player's.
LEMMA ExpireKeeps ==
  ASSUME AccountSound, NEW s \in DOMAIN sessions, Expire(s)
  PROVE  AccountSound'
<1>1. /\ UNCHANGED <<password, links, cookie, screen, call, overlapped, cutOff>>
      /\ sessions' = [sessions EXCEPT ![s] = [sessions[s] EXCEPT !.live = FALSE]]
  BY DEF Expire
<1>2. sessions' \in Seq(Sessions) /\ Len(sessions') = Len(sessions) /\ SessionsGoOn
  BY <1>1, SessionEnds DEF AccountSound
<1>3. AccountTyped'
  BY <1>1, <1>2 DEF AccountSound, AccountTyped
<1>4. \A n \in Names : LinkSound(n)'
  BY <1>1, LinksAlone
<1>. QED  BY <1>1, <1>2, <1>3, <1>4, Aside

\* A cookie that lapses leaves the page as it was.
LEMMA CookieLapsesKeeps ==
  ASSUME AccountSound, NEW b \in Browsers, CookieLapses(b)
  PROVE  AccountSound'
<1>1. /\ UNCHANGED <<password, sessions, links, screen, call, overlapped, cutOff>>
      /\ cookie' = [cookie EXCEPT ![b] = 0] /\ AccountTyped
  BY DEF CookieLapses, AccountSound
<1>2. cookie' \in [Browsers -> Nat] /\ \A c \in Browsers : cookie'[c] \in {0, cookie[c]}
  BY <1>1 DEF AccountTyped
<1>3. AccountTyped'
  <2>1. Len(sessions) \in Nat
    BY <1>1 DEF AccountTyped
  <2>2. \A c \in Browsers : cookie'[c] <= Len(sessions')
    BY <1>1, <1>2, <2>1 DEF AccountTyped
  <2>. QED  BY <1>1, <1>2, <2>2 DEF AccountTyped
<1>4. \A n \in Names : LinkSound(n)'
  BY <1>1, LinksAlone
<1>. QED  BY <1>1, <1>2, <1>3, <1>4, SameSessions, Aside

-----------------------------------------------------------------------------
(* A new password *)

\* What a change or a reset begins with.
LEMMA SetIsRequest ==
  ASSUME NEW b \in Browsers, NEW n \in Names, NEW w \in Passwords, NEW k \in Renewals
  PROVE  LET q == Setting(b, n, w, k)
         IN  q \in Calls /\ q.op = "set" /\ q.from = b /\ q.kind = k /\ q.player = n
  BY DEF Calls, Sets, Setting, Froms

\* The old password is checked on one row before anything is written.
LEMMA ChangePasswordKeeps ==
  ASSUME AccountSound, NEW b \in Browsers, NEW r \in Requests, NEW old, NEW new \in Passwords,
         ChangePassword(b, r, old, new)
  PROVE  AccountSound'
<1>1. /\ UNCHANGED <<password, sessions, links, cookie, screen, cutOff>> /\ AccountTyped
      /\ Sends(b, r, Setting(b, PlayerOf(b), new, "change"))
      /\ screen[b] \in Names /\ cookie[b] # 0
  BY DEF ChangePassword, SignedIn, HasSession, AccountSound
<1>2. SessionsGoOn
  BY <1>1, SameSessions
<1>3. PICK n \in Names : n = PlayerOf(b)
  BY <1>1, <1>2, SamePlayer
<1> DEFINE q == Setting(b, n, new, "change")
<1>4. q \in Calls /\ q.op = "set" /\ q.kind = "change" /\ q.player = n /\ q.from = b
  BY SetIsRequest DEF Renewals
<1>5. Sends(b, r, q)
  BY <1>1, <1>3
<1> HIDE DEF q
<1>6. /\ call' \in [Requests -> Calls] /\ call'[r] = q /\ overlapped' \in [Browsers -> BOOLEAN]
      /\ call[r].op = "idle" /\ \A x \in Requests : x # r => call'[x] = call[x]
  BY <1>1, <1>4, <1>5, SendingTyped
<1>7. AccountTyped'
  BY <1>1, <1>6 DEF AccountTyped
<1>8. RequestSound(r)'
  BY <1>4, <1>6 DEF RequestSound
<1>9. screen[b] \notin {"out", "loading"} /\ (~ overlapped[b] => screen[b] = n)
  BY <1>1, <1>3, AccountAssumption DEF AccountSound, WindowSound
<1>10. ~ overlapped[b] \/ screen[b] = "out" => Fits(r, b)'
  BY <1>1, <1>4, <1>6, <1>9 DEF Fits
<1>11. \A m \in Names : LinkSound(m)'
  BY <1>1, <1>6, LinksAlone
<1>. QED  BY <1>1, <1>2, <1>4, <1>5, <1>7, <1>8, <1>9, <1>10, <1>11, Sending

\* A new password comes into force: every session there is now is to end.
LEMMA SetPasswordKeeps ==
  ASSUME AccountSound, NEW r \in Requests, SetPassword(r)
  PROVE  AccountSound'
<1> DEFINE q == [op |-> "revoke", from |-> call[r].from, player |-> call[r].player,
                 kind |-> call[r].kind, before |-> Len(sessions)]
<1>1. /\ UNCHANGED <<sessions, links, cookie, screen, cutOff>> /\ Goes(r, q)
      /\ call[r].op = "set"
      /\ password' = [password EXCEPT ![call[r].player] = call[r].password]
  BY DEF SetPassword
<1>2. SessionsGoOn /\ AccountTyped /\ call[r] \in Sets
  BY <1>1, SameSessions, RequestKinds DEF AccountSound, AccountTyped
<1>3. /\ call[r].player \in Names /\ call[r].kind \in Renewals /\ call[r].from \in Froms
      /\ call[r].password \in Passwords /\ Len(sessions) \in Nat
  BY <1>2 DEF Sets, AccountTyped
<1>4. /\ q \in Calls /\ q.op = "revoke" /\ q.kind = call[r].kind /\ q.from = call[r].from
      /\ q.player = call[r].player /\ q.before = Len(sessions)
  BY <1>3 DEF Calls, Revokes
<1> HIDE DEF q
<1>5. /\ call' \in [Requests -> Calls] /\ call'[r] = q /\ overlapped' = overlapped
      /\ \A x \in Requests : x # r => call'[x] = call[x]
  BY <1>1, <1>2, <1>4, GoesMoves DEF AccountTyped, Goes
<1>6. password' \in [Names -> Passwords \cup {NoPassword}]
  BY <1>1, <1>2, <1>3 DEF AccountTyped
<1>7. AccountTyped'
  BY <1>1, <1>2, <1>5, <1>6 DEF AccountTyped
<1>8. RequestSound(r)'
  BY <1>1, <1>3, <1>4, <1>5 DEF RequestSound
<1>9. Follows(r)
  BY <1>1, <1>4, <1>5 DEF Follows
<1>10. \A m \in Names : LinkSound(m)'
  BY <1>1, <1>5, LinksAlone
<1>. QED  BY <1>1, <1>2, <1>4, <1>7, <1>8, <1>9, <1>10, Proceeding

\* From here on every session there was is over; those who go on to another
\* are not asked.
LEMMA RevokeAllKeeps ==
  ASSUME AccountSound, NEW r \in Requests, RevokeAll(r)
  PROVE  AccountSound'
<1> DEFINE n == call[r].player
           q == [call[r] EXCEPT !.op = "open"]
<1>1. /\ UNCHANGED <<password, links, cookie, screen, cutOff>> /\ Goes(r, q)
      /\ call[r].op = "revoke" /\ sessions' = RevokedFor(n, sessions)
  BY DEF RevokeAll
<1>2. AccountTyped /\ call[r] \in Revokes
  BY <1>1, RequestKinds DEF AccountSound, AccountTyped
<1>3. /\ q \in Calls /\ q.op = "open" /\ q.kind = call[r].kind /\ q.from = call[r].from
      /\ q.player = n /\ q.before = call[r].before /\ call[r].before \in Nat
  <2>1. q \in Opens
    BY <1>2 DEF Opens, Revokes
  <2>. QED  BY <1>2, <2>1 DEF Calls, Revokes
<1>4. /\ DOMAIN sessions' = DOMAIN sessions /\ sessions' = [s \in DOMAIN sessions' |-> sessions'[s]]
      /\ \A s \in DOMAIN sessions :
           sessions'[s] = IF sessions[s].player = n THEN [sessions[s] EXCEPT !.live = FALSE]
                                                    ELSE sessions[s]
  BY <1>1 DEF RevokedFor
<1> HIDE DEF n, q
<1>5. \A s \in DOMAIN sessions :
        /\ sessions'[s] \in Sessions /\ sessions'[s].player = sessions[s].player
        /\ sessions'[s].live => sessions[s].live
        /\ sessions[s].player = n => ~ sessions'[s].live
  <2> SUFFICES ASSUME NEW s \in DOMAIN sessions
               PROVE  /\ sessions'[s] \in Sessions /\ sessions'[s].player = sessions[s].player
                      /\ sessions'[s].live => sessions[s].live
                      /\ sessions[s].player = n => ~ sessions'[s].live
    OBVIOUS
  <2>1. sessions[s] \in Sessions
    BY <1>2 DEF AccountTyped
  <2>2. CASE sessions[s].player = n
    <3>1. sessions'[s] = [sessions[s] EXCEPT !.live = FALSE]
      BY <1>4, <2>2
    <3>. QED  BY <2>1, <3>1 DEF Sessions
  <2>3. CASE sessions[s].player # n
    <3>1. sessions'[s] = sessions[s]
      BY <1>4, <2>3
    <3>. QED  BY <2>1, <2>3, <3>1
  <2>. QED  BY <2>2, <2>3
<1>6. /\ sessions' \in Seq(Sessions) /\ Len(sessions') = Len(sessions)
      /\ DOMAIN sessions = 1 .. Len(sessions) /\ Len(sessions) \in Nat
  <2>1. sessions \in Seq(Sessions)
    BY <1>2 DEF AccountTyped
  <2>. QED  BY <1>4, <1>5, <2>1, RowsRewritten
<1>7. SessionsGoOn
  BY <1>5, <1>6 DEF SessionsGoOn
<1>8. /\ call' \in [Requests -> Calls] /\ call'[r] = q /\ overlapped' = overlapped
      /\ \A x \in Requests : x # r => call'[x] = call[x]
  BY <1>1, <1>2, <1>3, GoesMoves DEF AccountTyped, Goes
<1>9. AccountTyped'
  BY <1>1, <1>2, <1>6, <1>8 DEF AccountTyped
<1>10. call[r].before <= Len(sessions)
  BY <1>1 DEF AccountSound, RequestSound
<1>11. RequestSound(r)'
  <2>1. \A s \in 1 .. call[r].before : s \in DOMAIN sessions
    BY <1>3, <1>6, <1>10
  <2>. QED  BY <1>3, <1>5, <1>6, <1>8, <1>10, <2>1 DEF RequestSound
<1>12. Follows(r)
  BY <1>1, <1>3, <1>8 DEF Follows, n
<1>13. \A m \in Names : LinkSound(m)'
  BY <1>1, <1>8, LinksAlone
<1>. QED  BY <1>1, <1>3, <1>7, <1>9, <1>11, <1>12, <1>13, Proceeding

-----------------------------------------------------------------------------
(* Links *)

\* A reset request uses up the links there are, and owes a new one.
LEMMA SupersedeKeeps ==
  ASSUME AccountSound, NEW b \in Browsers, NEW r \in Requests, NEW n \in Names, Supersede(b, r, n)
  PROVE  AccountSound'
<1> DEFINE q == [op |-> "mint", player |-> n]
<1>1. /\ UNCHANGED <<password, sessions, cookie, screen, cutOff>> /\ Goes(r, q)
      /\ call[r].op = "idle" /\ links' = Superseded(n)
  BY RequestKinds DEF Supersede
<1>2. SessionsGoOn /\ AccountTyped
  BY <1>1, SameSessions DEF AccountSound
<1>3. q \in Calls /\ q.op = "mint" /\ q.player = n
  BY DEF Calls, Mints
<1> HIDE DEF q
<1>4. /\ call' \in [Requests -> Calls] /\ call'[r] = q /\ overlapped' = overlapped
      /\ \A x \in Requests : x # r => call'[x] = call[x]
  BY <1>1, <1>2, <1>3, GoesMoves DEF AccountTyped, Goes
<1>5. /\ DOMAIN links' = DOMAIN links /\ links' = [k \in DOMAIN links' |-> links'[k]]
      /\ \A k \in DOMAIN links :
           links'[k] = IF links[k].player = n THEN [links[k] EXCEPT !.usable = FALSE] ELSE links[k]
  BY <1>1 DEF Superseded
<1>6. \A k \in DOMAIN links :
        /\ links'[k] \in Links /\ links'[k].player = links[k].player
        /\ links[k].player # n => links'[k] = links[k]
  <2> SUFFICES ASSUME NEW k \in DOMAIN links
               PROVE  /\ links'[k] \in Links /\ links'[k].player = links[k].player
                      /\ links[k].player # n => links'[k] = links[k]
    OBVIOUS
  <2>1. links[k] \in Links
    BY <1>2 DEF AccountTyped
  <2>2. CASE links[k].player = n
    <3>1. links'[k] = [links[k] EXCEPT !.usable = FALSE]
      BY <1>5, <2>2
    <3>. QED  BY <2>1, <2>2, <3>1 DEF Links
  <2>3. CASE links[k].player # n
    <3>1. links'[k] = links[k]
      BY <1>5, <2>3
    <3>. QED  BY <2>1, <3>1
  <2>. QED  BY <2>2, <2>3
<1>7. links' \in Seq(Links)
  <2>1. links \in Seq(Links)
    BY <1>2 DEF AccountTyped
  <2>. QED  BY <1>5, <1>6, <2>1, RowsRewritten
<1>8. AccountTyped' /\ RequestSound(r)'
  BY <1>1, <1>2, <1>3, <1>4, <1>7 DEF AccountTyped, RequestSound
<1>9. ASSUME NEW m \in Names  PROVE LinkSound(m)'
  <2>1. CASE m = n
    BY <1>3, <1>4, <2>1 DEF LinkSound, Minting
  <2>2. CASE m # n
    <3>1. Own(m)' = Own(m)
      BY <1>5, <1>6 DEF Own
    <3>2. \A k \in Own(m) : Works(k) => Works(k)'
      BY <1>6, <2>2 DEF Own, Works
    <3>3. Minting(m) => Minting(m)'
      BY <1>1, <1>4 DEF Minting
    <3>. QED  BY <1>2, <3>1, <3>2, <3>3, LinkAlone DEF AccountSound
  <2>. QED  BY <2>1, <2>2
<1>. QED  BY <1>1, <1>2, <1>3, <1>8, <1>9, Proceeding

\* The link that is mailed is the latest and can be used.
LEMMA MintLinkKeeps ==
  ASSUME AccountSound, NEW r \in Requests, MintLink(r)
  PROVE  AccountSound'
<1> DEFINE n == call[r].player
           new == NewLink(n)
           last == Len(links) + 1
<1>1. /\ UNCHANGED <<password, sessions, cookie, screen>> /\ Goes(r, Idle)
      /\ call[r].op = "mint" /\ links' = Append(links, new) /\ cutOff' = cutOff \ {n}
  BY DEF MintLink
<1>2. SessionsGoOn /\ AccountTyped /\ n \in Names
  BY <1>1, SameSessions, RequestKinds DEF AccountSound, AccountTyped
<1>3. new \in Links /\ new.player = n /\ new.usable
  BY <1>2 DEF NewLink, Links
<1>4. /\ call' \in [Requests -> Calls] /\ call'[r] = Idle /\ Idle.op = "idle" /\ Idle \in Calls
      /\ overlapped' = overlapped /\ \A x \in Requests : x # r => call'[x] = call[x]
  BY <1>1, <1>2, RequestKinds, GoesMoves DEF AccountTyped, Goes
<1> HIDE DEF new
<1>5. /\ links' \in Seq(Links) /\ Len(links) \in Nat /\ links'[last] = new
      /\ \A k \in DOMAIN links : links'[k] = links[k]
      /\ DOMAIN links = 1 .. Len(links) /\ DOMAIN links' = 1 .. last
  <2>1. links \in Seq(Links)
    BY <1>2 DEF AccountTyped
  <2>. QED  BY <1>1, <1>3, <2>1, RowAdded
<1>6. AccountTyped' /\ RequestSound(r)'
  BY <1>1, <1>2, <1>4, <1>5 DEF AccountTyped, RequestSound
<1> HIDE DEF n
<1>7. DOMAIN links' = DOMAIN links \cup {last} /\ \A k \in DOMAIN links' : k \in Nat /\ k <= last
  BY <1>5
<1> HIDE DEF last
<1>8. ASSUME NEW m \in Names  PROVE LinkSound(m)'
  <2>1. CASE m = n
    <3>1. /\ Own(m)' \in SUBSET Nat /\ last \in Own(m)' /\ \A k \in Own(m)' : k <= last
      BY <1>3, <1>5, <1>7, <2>1 DEF Own
    <3>2. Max(Own(m)') = last
      BY <3>1, GreatestIsMax
    <3>3. links'[last].usable
      BY <1>3, <1>5
    <3>. QED  BY <3>2, <3>3 DEF LinkSound, Works
  <2>2. CASE m # n
    <3>1. Own(m)' = Own(m)
      BY <1>3, <1>5, <1>7, <2>2 DEF Own
    <3>2. \A k \in Own(m) : Works(k) => Works(k)'
      BY <1>5 DEF Own, Works
    <3>3. Minting(m) => Minting(m)'
      BY <1>1, <1>4, <2>2 DEF Minting, n
    <3>. QED  BY <1>2, <3>1, <3>2, <3>3, LinkAlone DEF AccountSound
  <2>. QED  BY <2>1, <2>2
<1>. QED  BY <1>1, <1>2, <1>4, <1>6, <1>8, Proceeding

\* A link that is redeemed or too old is used up, not lost.
LEMMA LinkEnds ==
  ASSUME AccountSound, NEW k \in DOMAIN links, links' = Over(k),
         \A m \in Names : Minting(m) => Minting(m)'
  PROVE  links' \in Seq(Links) /\ \A m \in Names : LinkSound(m)'
<1> DEFINE x == [links[k] EXCEPT !.usable = FALSE, !.over = TRUE]
<1>1. AccountTyped /\ links \in Seq(Links) /\ links[k] \in Links
  BY DEF AccountSound, AccountTyped
<1>2. x \in Links /\ x.player = links[k].player /\ x.over
  BY <1>1 DEF Links
<1>3. links' = [links EXCEPT ![k] = x]
  BY DEF Over
<1> HIDE DEF x
<1>4. /\ links' \in Seq(Links) /\ DOMAIN links' = DOMAIN links /\ links'[k] = x
      /\ \A j \in DOMAIN links : j # k => links'[j] = links[j]
  BY <1>1, <1>2, <1>3, ExceptSeq
<1>5. ASSUME NEW m \in Names  PROVE LinkSound(m)'
  <2>1. Own(m)' = Own(m)
    BY <1>2, <1>4 DEF Own
  <2>2. \A j \in Own(m) : Works(j) => Works(j)'
    BY <1>2, <1>4 DEF Own, Works
  <2>. QED  BY <1>1, <2>1, <2>2, LinkAlone DEF AccountSound
<1>. QED  BY <1>4, <1>5

\* A link that expires is excused from working.
LEMMA ExpireLinkKeeps ==
  ASSUME AccountSound, NEW k \in DOMAIN links, ExpireLink(k)
  PROVE  AccountSound'
<1>1. UNCHANGED <<password, sessions, cookie, screen, call, overlapped, cutOff>> /\ links' = Over(k)
  BY DEF ExpireLink
<1>2. SessionsGoOn /\ AccountTyped
  BY <1>1, SameSessions DEF AccountSound
<1>3. links' \in Seq(Links) /\ \A m \in Names : LinkSound(m)'
  BY <1>1, LinkEnds DEF Minting
<1>4. AccountTyped'
  BY <1>1, <1>2, <1>3 DEF AccountTyped
<1>. QED  BY <1>1, <1>2, <1>3, <1>4, Aside

\* A link is used up by the reset it allows.
LEMMA ConfirmResetKeeps ==
  ASSUME AccountSound, NEW b \in Browsers, NEW r \in Requests, NEW k \in DOMAIN links,
         NEW new \in Passwords, ConfirmReset(b, r, k, new)
  PROVE  AccountSound'
<1>1. /\ UNCHANGED <<password, sessions, cookie, screen, cutOff>> /\ links' = Over(k)
      /\ Sends(b, r, Setting(b, links[k].player, new, "reset")) /\ screen[b] = "out"
  BY DEF ConfirmReset, SignedOut
<1>2. SessionsGoOn /\ AccountTyped
  BY <1>1, SameSessions DEF AccountSound
<1>3. PICK n \in Names : n = links[k].player
  <2>1. links[k] \in Links
    BY <1>2 DEF AccountTyped
  <2>. QED  BY <2>1 DEF Links
<1> DEFINE q == Setting(b, n, new, "reset")
<1>4. q \in Calls /\ q.op = "set" /\ q.kind = "reset" /\ q.from = b
  BY SetIsRequest DEF Renewals
<1>5. Sends(b, r, q)
  BY <1>1, <1>3
<1> HIDE DEF q
<1>6. /\ call' \in [Requests -> Calls] /\ call'[r] = q /\ overlapped' \in [Browsers -> BOOLEAN]
      /\ call[r].op = "idle" /\ \A x \in Requests : x # r => call'[x] = call[x]
  BY <1>2, <1>4, <1>5, SendingTyped
<1>7. \A m \in Names : Minting(m) => Minting(m)'
  BY <1>1, <1>6 DEF Minting
<1>8. links' \in Seq(Links) /\ \A m \in Names : LinkSound(m)'
  BY <1>1, <1>7, LinkEnds
<1>9. AccountTyped'
  BY <1>1, <1>2, <1>6, <1>8 DEF AccountTyped
<1>10. RequestSound(r)' /\ Fits(r, b)'
  BY <1>1, <1>4, <1>6 DEF RequestSound, Fits
<1>. QED  BY <1>1, <1>2, <1>4, <1>5, <1>8, <1>9, <1>10, Sending

\* A request that is cut off leaves what it has done, and is remembered if it
\* has left its player without a link.
LEMMA StopKeeps ==
  ASSUME AccountSound, Stop
  PROVE  AccountSound'
<1>1. /\ UNCHANGED <<password, sessions, links, cookie, screen, overlapped>>
      /\ cutOff' = cutOff \cup {call[r].player : r \in {q \in Requests : call[q].op = "mint"}}
      /\ call' = [r \in Requests |-> IF r \in Handling THEN Idle ELSE call[r]]
  BY DEF Stop
<1>2. SessionsGoOn /\ AccountTyped
  BY <1>1, SameSessions DEF AccountSound
<1>3. /\ call' \in [Requests -> Calls]
      /\ \A r \in Requests : call'[r] = call[r] \/ call'[r].op = "idle"
  BY <1>1, <1>2, RequestKinds DEF AccountTyped
<1>4. \A r \in Requests : call[r].op = "mint" => call[r].player \in Names
  BY <1>2, RequestKinds DEF AccountTyped
<1>5. AccountTyped'
  BY <1>1, <1>2, <1>3, <1>4 DEF AccountTyped
<1>6. \A r \in Requests : RequestSound(r)'
  BY <1>2, <1>3, <1>5, RequestGoesOn DEF AccountSound
<1>7. \A b \in Browsers : WindowSound(b)'
  BY <1>1, <1>2, <1>3, WindowGoesOn DEF AccountSound, Waits, Follows
<1>8. \A n \in Names : LinkSound(n)'
  BY <1>1, LinksAlone
<1>. QED  BY <1>5, <1>6, <1>7, <1>8 DEF AccountSound

-----------------------------------------------------------------------------
(* What holds of the accounts *)

\* Nobody is signed in and nothing is half-way at the start.
LEMMA InitAccountSound ==
  ASSUME Init
  PROVE  AccountSound
<1>1. /\ sessions = <<>> /\ links = <<>> /\ cutOff = {}
      /\ \A b \in Browsers : cookie[b] = 0 /\ screen[b] = "loading"
      /\ \A r \in Requests : call[r].op = "idle"
  BY RequestKinds DEF Init
<1>2. AccountTyped
  BY <1>1, RequestKinds DEF Init, AccountTyped
<1>3. \A r \in Requests : RequestSound(r)
  BY <1>1 DEF RequestSound
<1>4. \A b \in Browsers : WindowSound(b)
  BY <1>1, AccountAssumption DEF WindowSound, Waits
<1>5. \A n \in Names : LinkSound(n)
  BY <1>1 DEF LinkSound, Own
<1>. QED  BY <1>2, <1>3, <1>4, <1>5 DEF AccountSound

\* Every statement of every handler, and every answer, keeps the invariant.
LEMMA StepKeepsAccount ==
  ASSUME AccountSound, [AccountNext]_accountVars
  PROVE  AccountSound'
<1>1. CASE UNCHANGED accountVars
  <2>1. UNCHANGED <<password, sessions, links, cookie, screen, call, overlapped, cutOff>>
    BY <1>1 DEF accountVars
  <2>2. SessionsGoOn /\ AccountTyped'
    BY <2>1, SameSessions DEF AccountSound, AccountTyped
  <2>3. \A n \in Names : LinkSound(n)'
    BY <2>1, LinksAlone
  <2>. QED  BY <2>1, <2>2, <2>3, Aside
<1>2. CASE \E b \in Browsers : Bootstrap(b) \/ Reload(b) \/ CookieLapses(b)
  BY <1>2, BootstrapKeeps, ReloadKeeps, CookieLapsesKeeps
<1>3. CASE \E b \in Browsers, r \in Requests : Asks(b, r)
  BY <1>3, SignInKeeps, LogoutKeeps, ChangePasswordKeeps, SupersedeKeeps, ConfirmResetKeeps
     DEF Asks
<1>4. CASE \E r \in Requests : Proceeds(r)
  BY <1>4, OpenSessionKeeps, OpenedKeeps, MeKeeps, LoggedOutKeeps, LostKeeps, SetPasswordKeeps,
     RevokeAllKeeps, MintLinkKeeps
     DEF Proceeds
<1>5. CASE \/ \E s \in DOMAIN sessions : Expire(s)
           \/ \E k \in DOMAIN links : ExpireLink(k)
           \/ Stop
  BY <1>5, ExpireKeeps, ExpireLinkKeeps, StopKeeps
<1>. QED  BY <1>1, <1>2, <1>3, <1>4, <1>5 DEF AccountNext

\* The accounts are sound in every reachable state.
THEOREM AccountSoundAlways == AccountSpec => []AccountSound
<1>1. Init => AccountSound
  BY InitAccountSound
<1>2. AccountSound /\ [AccountNext]_accountVars => AccountSound'
  BY StepKeepsAccount
<1>. QED  BY <1>1, <1>2, PTL DEF AccountSpec

\* A page that shows a player's games presents a session of that player or
\* none, through lost and late answers, reloads, resets and stops of the
\* server, as long as it has had one request under way at a time.
THEOREM ScreenIsTheSessionAlways == AccountSpec => []ScreenIsTheSession
<1>1. AccountSound => ScreenIsTheSession
  BY DEF AccountSound, WindowSound, ScreenIsTheSession
<1>. QED  BY <1>1, AccountSoundAlways, PTL

\* When a new password signs its owner in again, every session there was when
\* it came into force is over, whoever signs in meanwhile.
THEOREM ChangeSignsOthersOutAlways == AccountSpec => []ChangeSignsOthersOut
<1>1. AccountSound => ChangeSignsOthersOut
  BY DEF AccountSound, RequestSound, ChangeSignsOthersOut
<1>. QED  BY <1>1, AccountSoundAlways, PTL

\* The latest link of an account works or is used up, unless a request for
\* another is half-way or was cut off there.
THEOREM LatestLinkWorksAlways == AccountSpec => []LatestLinkWorks
<1>1. AccountSound => LatestLinkWorks
  BY DEF AccountSound, LinkSound, Own, Works, Minting, LatestLinkWorks
<1>. QED  BY <1>1, AccountSoundAlways, PTL

-----------------------------------------------------------------------------
(* Push notifications beside them *)

Steps ==
  [at : Browsers, told : {"control", "page", "nobody"},
   step : {"prompt", "post", "delete", "drop"}, endpoint : Nat]

DeviceTyped ==
  /\ endpoints \in Nat /\ DOMAIN subs \subseteq 1 .. endpoints
  /\ endpoint \in [Browsers -> Nat] /\ \A b \in Browsers : endpoint[b] <= endpoints
  /\ control \in [Browsers -> {"checking", "off", "on"}]
  /\ error \in [Browsers -> BOOLEAN] /\ crossed \in [Browsers -> BOOLEAN]
  /\ chain \in [Clicks -> {Done} \cup Steps]

\* No subscription is two browsers'; a click that has got one has its own
\* browser's, now or before.
EndpointsApart ==
  /\ \A b, d \in Browsers : endpoint[b] = endpoint[d] /\ endpoint[b] # 0 => b = d
  /\ \A c \in Clicks : chain[c] # Done /\ chain[c].step # "prompt" =>
       /\ chain[c].endpoint \in 1 .. endpoints
       /\ \A b \in Browsers : endpoint[b] = chain[c].endpoint => b = chain[c].at

BusyAt(c, b) == chain[c] # Done /\ chain[c].at = b

\* Where no two clicks have been at work at once, the one there is is the
\* control's, about the subscription the browser has; and a control that says
\* off without an error has none the server knows.
ControlSound(b) ==
  control[b] # "checking" /\ ~ crossed[b] =>
    /\ \A c, d \in Clicks : BusyAt(c, b) /\ BusyAt(d, b) => c = d
    /\ \A c \in Clicks : BusyAt(c, b) =>
         /\ chain[c].told = "control"
         /\ control[b] = IF chain[c].step \in {"prompt", "post"} THEN "off" ELSE "on"
         /\ chain[c].step # "prompt" => chain[c].endpoint = endpoint[b]
    /\ control[b] = "off" /\ ~ error[b] /\ (\A c \in Clicks : ~ BusyAt(c, b))
         => endpoint[b] \notin DOMAIN subs

\* A click that will still be heard is on a control that has come up.
HeardThere ==
  \A c \in Clicks : chain[c] # Done /\ chain[c].told = "control"
                      => control[chain[c].at] # "checking"

DeviceSound ==
  DeviceTyped /\ EndpointsApart /\ HeardThere /\ \A b \in Browsers : ControlSound(b)

\* What a click that is half-way carries.
LEMMA ChainKinds ==
  ASSUME DeviceTyped, NEW c \in Clicks
  PROVE  /\ Done.step = "done" /\ Done \notin Steps
         /\ chain[c] # Done => /\ chain[c] \in Steps /\ chain[c].at \in Browsers
                               /\ chain[c].step \in {"prompt", "post", "delete", "drop"}
                               /\ chain[c].endpoint \in Nat
         /\ chain[c].step \in {"prompt", "post", "delete", "drop"} => chain[c] # Done
<1>1. Done.step = "done" /\ Done \notin Steps
  BY DEF Done, Steps
<1>2. chain[c] # Done => chain[c] \in Steps
  BY DEF DeviceTyped
<1>. QED  BY <1>1, <1>2 DEF Steps

\* A click that goes on in place, or ends.
LEMMA ContinuesMoves ==
  ASSUME DeviceTyped, NEW c \in Clicks, NEW q \in {Done} \cup Steps, Continues(c, q)
  PROVE  /\ chain' \in [Clicks -> {Done} \cup Steps] /\ chain'[c] = q /\ crossed' = crossed
         /\ \A d \in Clicks : d # c => chain'[d] = chain[d]
  BY DEF Continues, DeviceTyped

\* A browser that keeps its subscription, its control and its history, while
\* the clicks there are end or stay, and nobody else's row is for its
\* subscription.
LEMMA ControlAlone ==
  ASSUME NEW b \in Browsers, ControlSound(b), control'[b] \in {control[b], "checking"},
         control'[b] = control[b] => error'[b] = error[b] /\ endpoint'[b] = endpoint[b],
         crossed'[b] = crossed[b],
         control'[b] # "checking" => \A c \in Clicks : BusyAt(c, b)' \/ BusyAt(c, b) => chain'[c] = chain[c],
         endpoint[b] \in DOMAIN subs' => endpoint[b] \in DOMAIN subs
  PROVE  ControlSound(b)'
<1> SUFFICES ASSUME control'[b] # "checking", ~ crossed'[b]
             PROVE  ControlSound(b)'
  BY DEF ControlSound
<1>1. /\ control'[b] = control[b] /\ error'[b] = error[b] /\ endpoint'[b] = endpoint[b]
      /\ control[b] # "checking" /\ ~ crossed[b]
      /\ \A c \in Clicks : (BusyAt(c, b)' <=> BusyAt(c, b)) /\ (BusyAt(c, b) => chain'[c] = chain[c])
  BY DEF BusyAt
<1>2. \A c, d \in Clicks : BusyAt(c, b)' /\ BusyAt(d, b)' => c = d
  BY <1>1 DEF ControlSound
<1>3. \A c \in Clicks : BusyAt(c, b)' =>
         /\ chain'[c].told = "control"
         /\ control'[b] = IF chain'[c].step \in {"prompt", "post"} THEN "off" ELSE "on"
         /\ chain'[c].step # "prompt" => chain'[c].endpoint = endpoint'[b]
  BY <1>1 DEF ControlSound
<1>4. control'[b] = "off" /\ ~ error'[b] /\ (\A c \in Clicks : ~ BusyAt(c, b)')
         => endpoint'[b] \notin DOMAIN subs'
  BY <1>1 DEF ControlSound
<1>. QED  BY <1>2, <1>3, <1>4 DEF ControlSound

\* Signing in and out leaves a control that stays, with its click; another
\* one has to ask anew.
LEMMA AccountStepKeepsDevice ==
  ASSUME DeviceSound, AccountStep
  PROVE  DeviceSound'
<1>1. /\ UNCHANGED <<subs, endpoint, endpoints, crossed>>
      /\ control' = [b \in Browsers |-> IF Stays(b) THEN control[b] ELSE "checking"]
      /\ error' = [b \in Browsers |-> Stays(b) /\ error[b]]
      /\ chain' = [c \in Clicks |-> Remains(chain[c])]
  BY DEF AccountStep
<1>2. DeviceTyped /\ EndpointsApart /\ HeardThere /\ \A b \in Browsers : ControlSound(b)
  BY DEF DeviceSound
<1>3. ASSUME NEW c \in Clicks
      PROVE  /\ Remains(chain[c]) \in {Done} \cup Steps
             /\ Stays(chain[c].at) => Remains(chain[c]) = chain[c]
             /\ Remains(chain[c]) # Done /\ Remains(chain[c]).told = "control"
                  => Stays(chain[c].at)
             /\ Remains(chain[c]) # Done => /\ chain[c] # Done
                                            /\ Remains(chain[c]).at = chain[c].at
                                            /\ Remains(chain[c]).step = chain[c].step
                                            /\ Remains(chain[c]).endpoint = chain[c].endpoint
  <2>1. CASE chain[c] = Done
    BY <2>1 DEF Remains
  <2>2. CASE chain[c] # Done
    <3> DEFINE q == chain[c]
               x == [q EXCEPT !.told = "nobody"]
               y == [q EXCEPT !.told = "page"]
    <3>1. q \in Steps
      BY <1>2, <2>2, ChainKinds
    <3> HIDE DEF q
    <3>2. /\ x \in Steps /\ x.at = q.at /\ x.step = q.step /\ x.endpoint = q.endpoint
          /\ y \in Steps /\ y.at = q.at /\ y.step = q.step /\ y.endpoint = q.endpoint
          /\ x.told = "nobody" /\ y.told = "page"
      BY <3>1 DEF Steps
    <3>3. q # Done
      BY <2>2 DEF q
    <3>4. CASE Stays(q.at)
      <4>1. ~ Reloaded(q.at)
        BY <3>4, AccountAssumption DEF Stays, Reloaded
      <4>2. Remains(q) = q
        BY <3>3, <3>4, <4>1 DEF Remains
      <4>. QED  BY <3>1, <3>4, <4>2 DEF q
    <3>5. CASE Reloaded(q.at)
      <4>1. ~ Stays(q.at)
        BY <3>5, AccountAssumption DEF Stays, Reloaded
      <4>2. Remains(q) = IF q.step \in {"post", "delete"} THEN x ELSE Done
        BY <3>3, <3>5, <4>1 DEF Remains
      <4>3. Remains(q) \in {x, Done}
        BY <4>2
      <4>. QED  BY <3>1, <3>2, <3>3, <4>1, <4>3 DEF q
    <3>6. CASE ~ Stays(q.at) /\ ~ Reloaded(q.at)
      <4>1. Remains(q) = IF q.told = "control" THEN y ELSE q
        BY <3>3, <3>6 DEF Remains
      <4>2. Remains(q) = y \/ (Remains(q) = q /\ q.told # "control")
        BY <4>1
      <4>. QED  BY <3>1, <3>2, <3>3, <3>6, <4>2 DEF q
    <3>. QED  BY <3>4, <3>5, <3>6
  <2>. QED  BY <2>1, <2>2
<1>4. DeviceTyped'
  <2>1. chain' \in [Clicks -> {Done} \cup Steps]
    BY <1>1, <1>3
  <2>2. error' \in [Browsers -> BOOLEAN]
    BY <1>1, <1>2 DEF DeviceTyped, Stays
  <2>3. control' \in [Browsers -> {"checking", "off", "on"}]
    BY <1>1, <1>2 DEF DeviceTyped
  <2>. QED  BY <1>1, <1>2, <2>1, <2>2, <2>3 DEF DeviceTyped
<1>5. EndpointsApart'
  BY <1>1, <1>2, <1>3 DEF EndpointsApart
<1>6. ASSUME NEW b \in Browsers  PROVE ControlSound(b)'
  <2>1. CASE Stays(b)
    <3>1. \A c \in Clicks : BusyAt(c, b)' \/ BusyAt(c, b) => chain'[c] = chain[c]
      BY <1>1, <1>3, <2>1 DEF BusyAt
    <3>2. control'[b] = control[b] /\ error'[b] = error[b]
      BY <1>1, <1>2, <2>1 DEF DeviceTyped
    <3>. QED  BY <1>1, <1>2, <3>1, <3>2, ControlAlone
  <2>2. CASE ~ Stays(b)
    BY <1>1, <2>2 DEF ControlSound
  <2>. QED  BY <2>1, <2>2
<1>7. HeardThere'
  <2> SUFFICES ASSUME NEW c \in Clicks, chain'[c] # Done, chain'[c].told = "control"
               PROVE  control'[chain'[c].at] # "checking"
    BY DEF HeardThere
  <2>1. chain'[c] = Remains(chain[c])
    BY <1>1
  <2>2. Stays(chain[c].at) /\ chain[c] # Done
    BY <1>3, <2>1
  <2>3. chain'[c] = chain[c] /\ chain[c].at \in Browsers
    BY <1>2, <1>3, <2>1, <2>2, ChainKinds
  <2>4. control'[chain[c].at] = control[chain[c].at]
    BY <1>1, <2>2, <2>3
  <2>. QED  BY <1>2, <2>2, <2>3, <2>4 DEF HeardThere
<1>. QED  BY <1>4, <1>5, <1>6, <1>7 DEF DeviceSound

\* A step that is the browser b's alone: nobody else's control, subscription
\* or clicks change, and the server learns of nobody else's subscription.
OnlyAt(b) ==
  /\ \A d \in Browsers : d # b =>
       /\ control'[d] = control[d] /\ error'[d] = error[d]
       /\ endpoint'[d] = endpoint[d] /\ crossed'[d] = crossed[d]
       /\ endpoint[d] \in DOMAIN subs' => endpoint[d] \in DOMAIN subs
  /\ \A c \in Clicks :
       \/ chain'[c] = chain[c]
       \/ /\ chain[c] = Done \/ chain[c].at = b
          /\ chain'[c] = Done \/ chain'[c].at = b

LEMMA StepAtOne ==
  ASSUME DeviceSound, NEW b \in Browsers, OnlyAt(b),
         DeviceTyped', EndpointsApart', HeardThere', ControlSound(b)'
  PROVE  DeviceSound'
<1>1. ASSUME NEW d \in Browsers, d # b  PROVE ControlSound(d)'
  <2>1. ControlSound(d)
    BY DEF DeviceSound
  <2>2. \A c \in Clicks : BusyAt(c, d)' \/ BusyAt(c, d) => chain'[c] = chain[c]
    BY <1>1 DEF OnlyAt, BusyAt
  <2>3. /\ control'[d] = control[d] /\ error'[d] = error[d]
        /\ endpoint'[d] = endpoint[d] /\ crossed'[d] = crossed[d]
        /\ endpoint[d] \in DOMAIN subs' => endpoint[d] \in DOMAIN subs
    BY <1>1 DEF OnlyAt
  <2>. QED  BY <2>1, <2>2, <2>3, ControlAlone
<1>. QED  BY <1>1 DEF DeviceSound

\* The browser a click is at: its subscription, and what the control there is
\* when the click has it to itself.
LEMMA ClickAt ==
  ASSUME DeviceSound, NEW c \in Clicks, chain[c] # Done
  PROVE  /\ chain[c].at \in Browsers /\ chain[c] \in Steps
         /\ chain[c].told = "control" => control[chain[c].at] # "checking"
         /\ control[chain[c].at] # "checking" /\ ~ crossed[chain[c].at] =>
              /\ chain[c].told = "control"
              /\ control[chain[c].at] = IF chain[c].step \in {"prompt", "post"} THEN "off" ELSE "on"
              /\ chain[c].step # "prompt" => chain[c].endpoint = endpoint[chain[c].at]
              /\ \A d \in Clicks : BusyAt(d, chain[c].at) => d = c
<1>1. chain[c].at \in Browsers /\ chain[c] \in Steps
  BY ChainKinds DEF DeviceSound
<1>2. ControlSound(chain[c].at) /\ BusyAt(c, chain[c].at) /\ HeardThere
  BY <1>1 DEF DeviceSound, BusyAt
<1>. QED  BY <1>1, <1>2 DEF ControlSound, HeardThere

-----------------------------------------------------------------------------
\* A control that comes up shows the browser's subscription; without one
\* there is no row for it.
LEMMA MountKeeps ==
  ASSUME DeviceSound, NEW b \in Browsers, Mount(b)
  PROVE  DeviceSound'
<1>1. /\ UNCHANGED <<subs, endpoint, endpoints, error, chain>>
      /\ control[b] = "checking"
      /\ control' = [control EXCEPT ![b] = IF endpoint[b] = 0 THEN "off" ELSE "on"]
      /\ crossed' = [crossed EXCEPT ![b] = AtWork(b)]
  BY DEF Mount, Turns
<1>2. DeviceTyped /\ EndpointsApart /\ HeardThere
  BY DEF DeviceSound
<1>3. DeviceTyped'
  BY <1>1, <1>2 DEF DeviceTyped, AtWork
<1>4. EndpointsApart'
  BY <1>1, <1>2 DEF EndpointsApart
<1>5. HeardThere'
  <2>1. \A d \in Browsers : control[d] # "checking" => control'[d] # "checking"
    BY <1>1, <1>2 DEF DeviceTyped
  <2>2. \A c \in Clicks : chain[c] # Done => chain[c].at \in Browsers
    BY <1>2, ChainKinds
  <2>. QED  BY <1>1, <1>2, <2>1, <2>2 DEF HeardThere
<1>6. ControlSound(b)'
  <2> SUFFICES ASSUME ~ crossed'[b]  PROVE ControlSound(b)'
    BY DEF ControlSound
  <2>1. \A c \in Clicks : ~ BusyAt(c, b)'
    BY <1>1, <1>2 DEF BusyAt, AtWork, DeviceTyped
  <2>2. control'[b] = "off" => endpoint'[b] \notin DOMAIN subs'
    BY <1>1, <1>2 DEF DeviceTyped
  <2>. QED  BY <2>1, <2>2 DEF ControlSound
<1>7. OnlyAt(b)
  BY <1>1, <1>2 DEF OnlyAt, DeviceTyped
<1>. QED  BY <1>3, <1>4, <1>5, <1>6, <1>7, StepAtOne

\* A browser whose subscription is gone has no row to tell of; a click that
\* had it to itself would have one.
LEMMA DisableNothingKeeps ==
  ASSUME DeviceSound, NEW b \in Browsers, DisableNothing(b)
  PROVE  DeviceSound'
<1>1. /\ UNCHANGED <<subs, endpoint, endpoints, chain, crossed>>
      /\ control[b] = "on" /\ endpoint[b] = 0
      /\ control' = [control EXCEPT ![b] = "off"]
      /\ error' = [error EXCEPT ![b] = FALSE]
  BY DEF DisableNothing, Turns, Errs
<1>2. DeviceTyped /\ EndpointsApart /\ HeardThere /\ ControlSound(b)
  BY DEF DeviceSound
<1>3. DeviceTyped'
  BY <1>1, <1>2 DEF DeviceTyped
<1>4. EndpointsApart'
  BY <1>1, <1>2 DEF EndpointsApart
<1>5. HeardThere'
  <2>1. \A d \in Browsers : control[d] # "checking" => control'[d] # "checking"
    BY <1>1, <1>2 DEF DeviceTyped
  <2>2. \A c \in Clicks : chain[c] # Done => chain[c].at \in Browsers
    BY <1>2, ChainKinds
  <2>. QED  BY <1>1, <1>2, <2>1, <2>2 DEF HeardThere
<1>6. ControlSound(b)'
  <2> SUFFICES ASSUME ~ crossed'[b]  PROVE ControlSound(b)'
    BY DEF ControlSound
  <2>1. ASSUME NEW c \in Clicks, BusyAt(c, b)  PROVE FALSE
    <3>1. chain[c] # Done /\ chain[c].at = b /\ ~ crossed[b]
      BY <1>1, <2>1 DEF BusyAt
    <3>2. chain[c].step \notin {"prompt", "post"} /\ chain[c].endpoint = 0
      BY <1>1, <3>1, ClickAt
    <3>3. chain[c].endpoint \in 1 .. endpoints
      BY <1>2, <3>1, <3>2 DEF EndpointsApart
    <3>. QED  BY <1>2, <3>2, <3>3 DEF DeviceTyped
  <2>2. endpoint'[b] \notin DOMAIN subs'
    BY <1>1, <1>2 DEF DeviceTyped
  <2>3. \A c \in Clicks : ~ BusyAt(c, b)'
    BY <1>1, <2>1 DEF BusyAt
  <2>. QED  BY <2>2, <2>3 DEF ControlSound
<1>7. OnlyAt(b)
  BY <1>1, <1>2 DEF OnlyAt, DeviceTyped
<1>. QED  BY <1>3, <1>4, <1>5, <1>6, <1>7, StepAtOne

\* A click where no other is at work has the control to itself.
LEMMA ClickKeeps ==
  ASSUME DeviceSound, NEW b \in Browsers, NEW c \in Clicks, NEW step,
         Click(b, c, step), UNCHANGED <<subs, endpoint, endpoints, control>>,
         \/ step = "prompt" /\ control[b] = "off"
         \/ step = "delete" /\ control[b] = "on" /\ endpoint[b] # 0
  PROVE  DeviceSound'
<1> DEFINE q == [at |-> b, told |-> "control", step |-> step, endpoint |-> endpoint[b]]
<1>1. /\ chain[c] = Done /\ chain' = [chain EXCEPT ![c] = q]
      /\ error' = [error EXCEPT ![b] = FALSE]
      /\ crossed' = [crossed EXCEPT ![b] = crossed[b] \/ AtWork(b)]
  BY DEF Click, Errs
<1>2. DeviceTyped /\ EndpointsApart /\ HeardThere /\ ControlSound(b)
  BY DEF DeviceSound
<1>3. /\ q \in Steps /\ q.at = b /\ q.told = "control" /\ q.step = step
      /\ q.endpoint = endpoint[b]
  BY <1>2 DEF Steps, DeviceTyped
<1> HIDE DEF q
<1>4. chain'[c] = q /\ \A d \in Clicks : d # c => chain'[d] = chain[d]
  BY <1>1, <1>2 DEF DeviceTyped
<1>5. DeviceTyped'
  BY <1>1, <1>2, <1>3 DEF DeviceTyped, AtWork
<1>6. EndpointsApart'
  <2>1. step # "prompt" => /\ endpoint[b] \in 1 .. endpoints
                           /\ \A d \in Browsers : endpoint[d] = endpoint[b] => d = b
    BY <1>2 DEF DeviceTyped, EndpointsApart
  <2>. QED  BY <1>2, <1>3, <1>4, <2>1 DEF EndpointsApart
<1>7. HeardThere'
  BY <1>2, <1>3, <1>4 DEF HeardThere
<1>8. ControlSound(b)'
  <2> SUFFICES ASSUME ~ crossed'[b]  PROVE ControlSound(b)'
    BY DEF ControlSound
  <2>1. \A d \in Clicks : ~ BusyAt(d, b)
    BY <1>1, <1>2 DEF BusyAt, AtWork, DeviceTyped
  <2>2. BusyAt(c, b)' /\ \A d \in Clicks : BusyAt(d, b)' => d = c
    BY <1>3, <1>4, <2>1, ChainKinds, <1>2 DEF BusyAt
  <2>. QED  BY <1>3, <1>4, <2>2 DEF ControlSound
<1>9. OnlyAt(b)
  BY <1>1, <1>2, <1>3, <1>4 DEF OnlyAt, DeviceTyped
<1>. QED  BY <1>5, <1>6, <1>7, <1>8, <1>9, StepAtOne

-----------------------------------------------------------------------------
\* A click that ends, or goes on with what it has, where the subscription
\* stays the browser's.
LEMMA ClickGoesOn ==
  ASSUME DeviceSound, NEW c \in Clicks, chain[c] # Done,
         NEW q \in {Done} \cup Steps, Continues(c, q),
         q # Done => /\ q.at = chain[c].at /\ q.told = chain[c].told
                     /\ chain[c].step # "prompt" /\ q.endpoint = chain[c].endpoint,
         UNCHANGED <<endpoint, endpoints>>,
         control' \in [Browsers -> {"checking", "off", "on"}], error' \in [Browsers -> BOOLEAN],
         \A d \in Browsers : control[d] # "checking" => control'[d] # "checking",
         \A d \in Browsers : d # chain[c].at => control'[d] = control[d] /\ error'[d] = error[d],
         DOMAIN subs' \subseteq DOMAIN subs \cup
                                (IF chain[c].step = "prompt" THEN {} ELSE {chain[c].endpoint}),
         control'[chain[c].at] # "checking" /\ ~ crossed[chain[c].at] =>
           /\ control[chain[c].at] # "checking"
           /\ q = Done => (control'[chain[c].at] = "off" /\ ~ error'[chain[c].at]
                             => endpoint[chain[c].at] \notin DOMAIN subs')
           /\ q # Done => control'[chain[c].at] = IF q.step \in {"prompt", "post"} THEN "off" ELSE "on"
  PROVE  DeviceSound'
<1>0. PICK b \in Browsers : b = chain[c].at
  BY ClickAt
<1>1. DeviceTyped /\ EndpointsApart /\ HeardThere /\ ControlSound(b)
  BY DEF DeviceSound
<1>2. /\ chain' \in [Clicks -> {Done} \cup Steps] /\ chain'[c] = q /\ crossed' = crossed
      /\ \A d \in Clicks : d # c => chain'[d] = chain[d]
  BY <1>1, ContinuesMoves
<1>3. b \in Browsers /\ chain[c] \in Steps
  BY ClickAt
<1>4. chain[c].step # "prompt" => /\ chain[c].endpoint \in 1 .. endpoints
                                  /\ \A d \in Browsers : endpoint[d] = chain[c].endpoint => d = b
  BY <1>0, <1>1 DEF EndpointsApart
<1>5. DeviceTyped'
  <2>1. DOMAIN subs' \subseteq 1 .. endpoints'
    BY <1>1, <1>4 DEF DeviceTyped
  <2>. QED  BY <1>1, <1>2, <2>1 DEF DeviceTyped
<1>6. EndpointsApart'
  BY <1>0, <1>1, <1>2, <1>4 DEF EndpointsApart
<1>7. HeardThere'
  <2> SUFFICES ASSUME NEW d \in Clicks, chain'[d] # Done, chain'[d].told = "control"
               PROVE  control'[chain'[d].at] # "checking"
    BY DEF HeardThere
  <2>1. chain[d] # Done /\ chain[d].told = "control" /\ chain'[d].at = chain[d].at
    BY <1>2
  <2>2. chain[d].at \in Browsers /\ control[chain[d].at] # "checking"
    BY <2>1, ClickAt
  <2>. QED  BY <2>1, <2>2
<1>8. ControlSound(b)'
  <2> SUFFICES ASSUME control'[b] # "checking", ~ crossed'[b]  PROVE ControlSound(b)'
    BY DEF ControlSound
  <2>1. control[b] # "checking" /\ ~ crossed[b]
    BY <1>0, <1>2
  <2>2. /\ chain[c].told = "control"
        /\ chain[c].step # "prompt" => chain[c].endpoint = endpoint[b]
        /\ \A d \in Clicks : BusyAt(d, b) => d = c
    BY <1>0, <2>1, ClickAt
  <2>3. \A d \in Clicks : BusyAt(d, b)' => d = c
    BY <1>2, <2>2 DEF BusyAt
  <2>4. CASE q = Done
    <3>1. \A d \in Clicks : ~ BusyAt(d, b)'
      BY <1>2, <2>3, <2>4 DEF BusyAt
    <3>2. control'[b] = "off" /\ ~ error'[b] => endpoint'[b] \notin DOMAIN subs'
      BY <1>0, <1>2, <2>1, <2>4
    <3>. QED  BY <3>1, <3>2 DEF ControlSound
  <2>5. CASE q # Done
    <3>1. BusyAt(c, b)'
      BY <1>0, <1>2, <2>5 DEF BusyAt
    <3>2. /\ chain'[c].told = "control" /\ chain'[c].endpoint = endpoint'[b]
          /\ control'[b] = IF chain'[c].step \in {"prompt", "post"} THEN "off" ELSE "on"
      BY <1>0, <1>2, <2>1, <2>2, <2>5
    <3>. QED  BY <2>3, <3>1, <3>2 DEF ControlSound
  <2>. QED  BY <2>4, <2>5
<1>9. OnlyAt(b)
  <2>1. \A d \in Browsers : d # b => (endpoint[d] \in DOMAIN subs' => endpoint[d] \in DOMAIN subs)
    BY <1>0, <1>4
  <2>2. \A d \in Clicks : \/ chain'[d] = chain[d]
                          \/ chain[d].at = b /\ (chain'[d] = Done \/ chain'[d].at = b)
    BY <1>0, <1>2
  <2>. QED  BY <1>0, <1>2, <2>1, <2>2 DEF OnlyAt
<1>. QED  BY <1>5, <1>6, <1>7, <1>8, <1>9, StepAtOne

-----------------------------------------------------------------------------
\* A click that goes on to another step.
LEMMA StepChanged ==
  ASSUME NEW q \in Steps, NEW step \in {"prompt", "post", "delete", "drop"}
  PROVE  LET x == [q EXCEPT !.step = step]
         IN  /\ x \in Steps /\ x.at = q.at /\ x.told = q.told /\ x.step = step
             /\ x.endpoint = q.endpoint /\ x # Done
  BY DEF Steps, Done

\* What a click tells the control, if that is still there.
LEMMA TellsOne ==
  ASSUME DeviceSound, NEW c \in Clicks, chain[c] # Done, NEW state \in {"off", "on"}
  PROVE  /\ Tells(c, state) =>
              /\ control' \in [Browsers -> {"checking", "off", "on"}]
              /\ \A d \in Browsers : control[d] # "checking" => control'[d] # "checking"
              /\ \A d \in Browsers : d # chain[c].at => control'[d] = control[d]
              /\ chain[c].told = "control" => control'[chain[c].at] = state
              /\ chain[c].told # "control" => control' = control
         /\ TellsError(c) =>
              /\ error' \in [Browsers -> BOOLEAN]
              /\ \A d \in Browsers : d # chain[c].at => error'[d] = error[d]
              /\ chain[c].told = "control" => error'[chain[c].at]
              /\ chain[c].told # "control" => error' = error
<1>1. DeviceTyped /\ chain[c].at \in Browsers
  BY ClickAt DEF DeviceSound
<1>. QED  BY <1>1 DEF Tells, TellsError, Heard, Turns, Errs, DeviceTyped

\* An error is shown by the control that had the click to itself.
LEMMA FailsKeeps ==
  ASSUME DeviceSound, NEW c \in Clicks, Fails(c)
  PROVE  DeviceSound'
<1>1. /\ chain[c] # Done /\ Continues(c, Done) /\ TellsError(c)
      /\ UNCHANGED <<subs, endpoint, endpoints, control>>
  BY DEF Fails, Ends
<1>2. DeviceTyped
  BY DEF DeviceSound
<1>3. /\ control' \in [Browsers -> {"checking", "off", "on"}]
      /\ \A d \in Browsers : control[d] # "checking" => control'[d] # "checking"
      /\ \A d \in Browsers : d # chain[c].at => control'[d] = control[d]
  BY <1>1, <1>2 DEF DeviceTyped
<1>4. /\ error' \in [Browsers -> BOOLEAN]
      /\ \A d \in Browsers : d # chain[c].at => error'[d] = error[d]
      /\ chain[c].told = "control" => error'[chain[c].at]
  BY <1>1, TellsOne
<1>5. control'[chain[c].at] # "checking" /\ ~ crossed[chain[c].at] =>
         control[chain[c].at] # "checking" /\ chain[c].told = "control"
  BY <1>1, ClickAt
<1>. QED  BY <1>1, <1>3, <1>4, <1>5, ClickGoesOn

\* A prompt that is closed leaves a browser without a subscription.
LEMMA DismissedKeeps ==
  ASSUME DeviceSound, NEW c \in Clicks, Dismissed(c)
  PROVE  DeviceSound'
<1>1. /\ chain[c].step = "prompt" /\ endpoint[chain[c].at] = 0
      /\ Continues(c, Done) /\ Tells(c, "off")
      /\ UNCHANGED <<subs, endpoint, endpoints, error>>
  BY DEF Dismissed, Ends
<1>2. DeviceTyped
  BY DEF DeviceSound
<1>3. chain[c] # Done
  BY <1>1, <1>2, ChainKinds
<1>4. /\ control' \in [Browsers -> {"checking", "off", "on"}]
      /\ \A d \in Browsers : control[d] # "checking" => control'[d] # "checking"
      /\ \A d \in Browsers : d # chain[c].at => control'[d] = control[d]
      /\ chain[c].told # "control" => control' = control
  BY <1>1, <1>3, TellsOne
<1>5. 0 \notin DOMAIN subs
  BY <1>2 DEF DeviceTyped
<1>6. control'[chain[c].at] # "checking" => control[chain[c].at] # "checking"
  BY <1>3, <1>4, ClickAt
<1>. QED  BY <1>1, <1>2, <1>3, <1>4, <1>5, <1>6, ClickGoesOn DEF DeviceTyped

\* The subscription a click gets is its browser's, and a new one nobody has.
LEMMA SubscribeKeeps ==
  ASSUME DeviceSound, NEW c \in Clicks, Subscribe(c)
  PROVE  DeviceSound'
<1>0. DeviceTyped /\ EndpointsApart /\ HeardThere
  BY DEF DeviceSound
<1>1. chain[c].step = "prompt" /\ chain[c] # Done /\ chain[c] \in Steps
  BY <1>0, ChainKinds DEF Subscribe
<1>2. PICK b \in Browsers : b = chain[c].at
  BY <1>1, ClickAt
<1>3. PICK e \in Nat : e = IF endpoint[b] = 0 THEN endpoints + 1 ELSE endpoint[b]
  BY <1>0 DEF DeviceTyped
<1>4. PICK q : q = [chain[c] EXCEPT !.step = "post", !.endpoint = e]
  OBVIOUS
<1>5. /\ q \in Steps /\ q.at = b /\ q.told = chain[c].told /\ q.step = "post"
      /\ q.endpoint = e /\ q # Done
  <2>1. /\ q \in Steps /\ q.at = chain[c].at /\ q.told = chain[c].told /\ q.step = "post"
        /\ q.endpoint = e
    BY <1>1, <1>4 DEF Steps
  <2>. QED  BY <1>2, <2>1 DEF Done
<1>6. /\ endpoint' = [endpoint EXCEPT ![b] = e]
      /\ endpoints' = IF endpoint[b] = 0 THEN endpoints + 1 ELSE endpoints
      /\ Continues(c, q) /\ UNCHANGED <<subs, control, error>>
  BY <1>2, <1>3, <1>4 DEF Subscribe
<1>7. /\ chain' \in [Clicks -> {Done} \cup Steps] /\ chain'[c] = q /\ crossed' = crossed
      /\ \A d \in Clicks : d # c => chain'[d] = chain[d]
  BY <1>0, <1>5, <1>6, ContinuesMoves
<1>8. /\ endpoints' \in Nat /\ endpoints <= endpoints' /\ e \in 1 .. endpoints'
      /\ \A d \in Browsers : endpoint[d] = e => d = b
      /\ e = endpoint[b] \/ e > endpoints
      /\ endpoint'[b] = e /\ \A d \in Browsers : d # b => endpoint'[d] = endpoint[d]
  BY <1>0, <1>3, <1>6 DEF DeviceTyped, EndpointsApart
<1>9. DeviceTyped'
  BY <1>0, <1>5, <1>6, <1>7, <1>8 DEF DeviceTyped
<1>10. EndpointsApart'
  <2>1. \A d, x \in Browsers : endpoint'[d] = endpoint'[x] /\ endpoint'[d] # 0 => d = x
    BY <1>0, <1>8 DEF EndpointsApart
  <2>2. ASSUME NEW d \in Clicks, chain'[d] # Done, chain'[d].step # "prompt"
        PROVE  /\ chain'[d].endpoint \in 1 .. endpoints'
               /\ \A x \in Browsers : endpoint'[x] = chain'[d].endpoint => x = chain'[d].at
    <3>1. CASE d = c
      BY <1>5, <1>7, <1>8, <3>1
    <3>2. CASE d # c
      <4>1. /\ chain'[d] = chain[d] /\ chain[d].endpoint \in 1 .. endpoints
            /\ \A x \in Browsers : endpoint[x] = chain[d].endpoint => x = chain[d].at
        BY <1>0, <1>7, <2>2, <3>2 DEF EndpointsApart
      <4>2. endpoints \in Nat
        BY <1>0 DEF DeviceTyped
      <4>. QED  BY <1>8, <4>1, <4>2
    <3>. QED  BY <3>1, <3>2
  <2>. QED  BY <2>1, <2>2 DEF EndpointsApart
<1>11. HeardThere'
  <2>1. ASSUME NEW d \in Clicks, chain'[d] # Done, chain'[d].told = "control"
        PROVE  control'[chain'[d].at] # "checking"
    <3>1. chain[d] # Done /\ chain[d].told = "control" /\ chain'[d].at = chain[d].at
      BY <1>1, <1>2, <1>5, <1>7, <2>1
    <3>2. control[chain[d].at] # "checking"
      BY <3>1, ClickAt
    <3>. QED  BY <1>6, <3>1, <3>2
  <2>. QED  BY <2>1 DEF HeardThere
<1>12. ControlSound(b)'
  <2> SUFFICES ASSUME control'[b] # "checking", ~ crossed'[b]  PROVE ControlSound(b)'
    BY DEF ControlSound
  <2>1. /\ chain[c].told = "control" /\ control[b] = "off"
        /\ \A d \in Clicks : BusyAt(d, b) => d = c
    BY <1>1, <1>2, <1>6, <1>7, ClickAt
  <2>2. BusyAt(c, b)' /\ \A d \in Clicks : BusyAt(d, b)' => d = c
    BY <1>5, <1>7, <2>1 DEF BusyAt
  <2>3. /\ chain'[c].told = "control" /\ chain'[c].step = "post" /\ control'[b] = "off"
        /\ chain'[c].endpoint = endpoint'[b]
    BY <1>5, <1>6, <1>7, <1>8, <2>1
  <2>. QED  BY <2>2, <2>3 DEF ControlSound
<1>13. OnlyAt(b)
  BY <1>2, <1>5, <1>6, <1>7, <1>8 DEF OnlyAt
<1>. QED  BY <1>9, <1>10, <1>11, <1>12, <1>13, StepAtOne

\* The row there is now is for a subscription no other browser has, and the
\* control says so or shows an error.
LEMMA SubscribePushKeeps ==
  ASSUME DeviceSound, NEW c \in Clicks, NEW arrives \in BOOLEAN, SubscribePush(c, arrives)
  PROVE  DeviceSound'
<1>1. /\ chain[c].step = "post" /\ Continues(c, Done)
      /\ UNCHANGED <<endpoint, endpoints>>
      /\ \/ arrives /\ Tells(c, "on") /\ UNCHANGED error
         \/ ~ arrives /\ TellsError(c) /\ UNCHANGED control
  BY DEF SubscribePush, Ends
<1>2. DOMAIN subs' = DOMAIN subs \cup {chain[c].endpoint}
  BY DEF SubscribePush, Upserted
<1>3. DeviceTyped
  BY DEF DeviceSound
<1>4. chain[c] # Done
  BY <1>1, <1>3, ChainKinds
<1>5. /\ control' \in [Browsers -> {"checking", "off", "on"}]
      /\ \A d \in Browsers : control[d] # "checking" => control'[d] # "checking"
      /\ \A d \in Browsers : d # chain[c].at => control'[d] = control[d]
      /\ error' \in [Browsers -> BOOLEAN]
      /\ \A d \in Browsers : d # chain[c].at => error'[d] = error[d]
  BY <1>1, <1>3, <1>4, TellsOne DEF DeviceTyped
<1>6. /\ chain[c].told # "control" => control' = control
      /\ chain[c].told = "control" => control'[chain[c].at] = "on" \/ error'[chain[c].at]
  BY <1>1, <1>4, TellsOne
<1>7. control'[chain[c].at] # "checking" /\ ~ crossed[chain[c].at] =>
         control[chain[c].at] # "checking" /\ chain[c].told = "control"
  BY <1>4, <1>6, ClickAt
<1>. QED  BY <1>1, <1>2, <1>4, <1>5, <1>6, <1>7, ClickGoesOn

\* The control stays on until the browser drops its subscription.
LEMMA UnsubscribePushKeeps ==
  ASSUME DeviceSound, NEW c \in Clicks, UnsubscribePush(c)
  PROVE  DeviceSound'
<1>1. PICK q : q = IF chain[c].told = "nobody" THEN Done ELSE [chain[c] EXCEPT !.step = "drop"]
  OBVIOUS
<1>2. /\ chain[c].step = "delete" /\ Continues(c, q)
      /\ UNCHANGED <<endpoint, endpoints, control, error>> /\ DOMAIN subs' \subseteq DOMAIN subs
  BY <1>1 DEF UnsubscribePush, Restrict
<1>3. DeviceTyped
  BY DEF DeviceSound
<1>4. chain[c] # Done /\ chain[c] \in Steps
  BY <1>2, <1>3, ChainKinds
<1>5. q = Done \/ /\ q \in Steps /\ q.at = chain[c].at /\ q.told = chain[c].told
                  /\ q.step = "drop" /\ q.endpoint = chain[c].endpoint
  BY <1>1, <1>4, StepChanged
<1>6. q \in {Done} \cup Steps
  BY <1>5
<1>7. /\ control' \in [Browsers -> {"checking", "off", "on"}] /\ error' \in [Browsers -> BOOLEAN]
      /\ \A d \in Browsers : control[d] # "checking" => control'[d] # "checking"
      /\ \A d \in Browsers : d # chain[c].at => control'[d] = control[d] /\ error'[d] = error[d]
  BY <1>2, <1>3 DEF DeviceTyped
<1>8. control'[chain[c].at] # "checking" /\ ~ crossed[chain[c].at] =>
         control[chain[c].at] # "checking" /\ control'[chain[c].at] = "on"
  BY <1>2, <1>4, ClickAt
<1>. QED  BY <1>2, <1>4, <1>5, <1>6, <1>7, <1>8, ClickGoesOn

\* The browser drops the subscription its control has been about.
LEMMA DropSubscriptionKeeps ==
  ASSUME DeviceSound, NEW c \in Clicks, DropSubscription(c)
  PROVE  DeviceSound'
<1>0. DeviceTyped /\ EndpointsApart /\ HeardThere
  BY DEF DeviceSound
<1>1. chain[c].step = "drop" /\ chain[c] # Done
  BY <1>0, ChainKinds DEF DropSubscription
<1>2. PICK b \in Browsers : b = chain[c].at
  BY <1>1, ClickAt
<1>3. /\ Continues(c, Done) /\ Tells(c, "off") /\ UNCHANGED <<subs, endpoints, error>>
      /\ endpoint' = [d \in Browsers |-> IF d = b /\ endpoint[d] = chain[c].endpoint
                                         THEN 0 ELSE endpoint[d]]
  BY <1>2 DEF DropSubscription, Ends
<1>4. /\ chain' \in [Clicks -> {Done} \cup Steps] /\ chain'[c] = Done /\ crossed' = crossed
      /\ \A d \in Clicks : d # c => chain'[d] = chain[d]
  BY <1>0, <1>3, ContinuesMoves
<1>5. /\ control' \in [Browsers -> {"checking", "off", "on"}]
      /\ \A d \in Browsers : control[d] # "checking" => control'[d] # "checking"
      /\ \A d \in Browsers : d # b => control'[d] = control[d]
      /\ chain[c].told # "control" => control' = control
  BY <1>1, <1>2, <1>3, TellsOne
<1>6. \A d \in Browsers : endpoint'[d] \in {0, endpoint[d]} /\ (d # b => endpoint'[d] = endpoint[d])
  BY <1>3
<1>7. DeviceTyped'
  BY <1>0, <1>3, <1>4, <1>5, <1>6 DEF DeviceTyped
<1>8. EndpointsApart'
  <2>1. \A d, x \in Browsers : endpoint'[d] = endpoint'[x] /\ endpoint'[d] # 0 => d = x
    BY <1>0, <1>6 DEF EndpointsApart
  <2>2. ASSUME NEW d \in Clicks, chain'[d] # Done, chain'[d].step # "prompt"
        PROVE  /\ chain'[d].endpoint \in 1 .. endpoints'
               /\ \A x \in Browsers : endpoint'[x] = chain'[d].endpoint => x = chain'[d].at
    <3>1. /\ chain'[d] = chain[d] /\ chain[d].endpoint \in 1 .. endpoints
          /\ \A x \in Browsers : endpoint[x] = chain[d].endpoint => x = chain[d].at
      BY <1>0, <1>4, <2>2 DEF EndpointsApart
    <3>. QED  BY <1>3, <1>6, <3>1
  <2>. QED  BY <2>1, <2>2 DEF EndpointsApart
<1>9. HeardThere'
  <2>1. ASSUME NEW d \in Clicks, chain'[d] # Done, chain'[d].told = "control"
        PROVE  control'[chain'[d].at] # "checking"
    <3>1. chain'[d] = chain[d]
      BY <1>4, <2>1
    <3>. QED  BY <1>5, <2>1, <3>1, ClickAt
  <2>. QED  BY <2>1 DEF HeardThere
<1>10. ControlSound(b)'
  <2> SUFFICES ASSUME control'[b] # "checking", ~ crossed'[b]  PROVE ControlSound(b)'
    BY DEF ControlSound
  <2>1. control[b] # "checking"
    BY <1>1, <1>2, <1>5, ClickAt
  <2>2. chain[c].endpoint = endpoint[b] /\ \A d \in Clicks : BusyAt(d, b) => d = c
    BY <1>1, <1>2, <1>4, <2>1, ClickAt
  <2>3. \A d \in Clicks : ~ BusyAt(d, b)'
    BY <1>4, <2>2 DEF BusyAt
  <2>4. endpoint'[b] \notin DOMAIN subs'
    BY <1>0, <1>3, <2>2 DEF DeviceTyped
  <2>. QED  BY <2>3, <2>4 DEF ControlSound
<1>11. OnlyAt(b)
  BY <1>2, <1>3, <1>4, <1>5, <1>6 DEF OnlyAt
<1>. QED  BY <1>7, <1>8, <1>9, <1>10, <1>11, StepAtOne

\* Rows of subscriptions that are gone are deleted.
LEMMA SendPushKeeps ==
  ASSUME DeviceSound, NEW n \in Names, SendPush(n)
  PROVE  DeviceSound'
<1>1. DOMAIN subs' \subseteq DOMAIN subs
      /\ UNCHANGED <<endpoint, endpoints, control, error, chain, crossed>>
  BY DEF SendPush, Restrict
<1>2. DeviceTyped' /\ EndpointsApart' /\ HeardThere'
  BY <1>1 DEF DeviceSound, DeviceTyped, EndpointsApart, HeardThere
<1>3. ASSUME NEW b \in Browsers  PROVE ControlSound(b)'
  <2>1. ControlSound(b)
    BY DEF DeviceSound
  <2>. QED  BY <1>1, <2>1, ControlAlone
<1>. QED  BY <1>2, <1>3 DEF DeviceSound

-----------------------------------------------------------------------------
LEMMA InitDeviceSound == DeviceInit => DeviceSound
<1> SUFFICES ASSUME DeviceInit  PROVE DeviceSound
  OBVIOUS
<1>1. /\ DOMAIN subs = {} /\ endpoints = 0
      /\ endpoint = [b \in Browsers |-> 0] /\ control = [b \in Browsers |-> "checking"]
      /\ error = [b \in Browsers |-> FALSE] /\ chain = [c \in Clicks |-> Done]
      /\ crossed = [b \in Browsers |-> FALSE]
  BY DEF DeviceInit
<1>2. DeviceTyped
  BY <1>1 DEF DeviceTyped
<1>3. EndpointsApart /\ HeardThere
  BY <1>1 DEF EndpointsApart, HeardThere
<1>4. \A b \in Browsers : ControlSound(b)
  BY <1>1 DEF ControlSound
<1>. QED  BY <1>2, <1>3, <1>4 DEF DeviceSound

\* Every step of an account, of a click and of the server keeps the invariant.
LEMMA StepKeepsDevice ==
  ASSUME DeviceSound, [Next]_vars
  PROVE  DeviceSound'
<1>1. CASE UNCHANGED vars
  <2>1. UNCHANGED <<subs, endpoint, endpoints, control, error, chain, crossed>>
    BY <1>1 DEF vars, deviceVars
  <2>2. DeviceTyped' /\ EndpointsApart' /\ HeardThere'
    BY <2>1 DEF DeviceSound, DeviceTyped, EndpointsApart, HeardThere
  <2>3. ASSUME NEW b \in Browsers  PROVE ControlSound(b)'
    <3>1. ControlSound(b)
      BY DEF DeviceSound
    <3>. QED  BY <2>1, <3>1, ControlAlone
  <2>. QED  BY <2>2, <2>3 DEF DeviceSound
<1>2. CASE AccountStep
  BY <1>2, AccountStepKeepsDevice
<1>3. CASE \E b \in Browsers : Mount(b) \/ DisableNothing(b)
  BY <1>3, MountKeeps, DisableNothingKeeps
<1>4. CASE \E b \in Browsers, c \in Clicks : Enable(b, c) \/ Disable(b, c)
  BY <1>4, ClickKeeps DEF Enable, Disable
<1>5. CASE \E c \in Clicks :
             \/ Dismissed(c) \/ Fails(c)
             \/ endpoints < MaxEndpoints /\ Subscribe(c)
             \/ \E arrives \in BOOLEAN : SubscribePush(c, arrives)
             \/ UnsubscribePush(c) \/ DropSubscription(c)
  BY <1>5, DismissedKeeps, FailsKeeps, SubscribeKeeps, SubscribePushKeeps, UnsubscribePushKeeps,
     DropSubscriptionKeeps
<1>6. CASE \E n \in Names : SendPush(n)
  BY <1>6, SendPushKeeps
<1>. QED  BY <1>1, <1>2, <1>3, <1>4, <1>5, <1>6 DEF Next, DeviceStep

\* Devices, clicks and rows are sound in every reachable state.
THEOREM DeviceSoundAlways == Spec => []DeviceSound
<1>1. DeviceInit => DeviceSound
  BY InitDeviceSound
<1>2. DeviceSound /\ [Next]_vars => DeviceSound'
  BY StepKeepsDevice
<1>. QED  BY <1>1, <1>2, PTL DEF Spec

\* A device that says off without an error gets no pushes, whoever used it
\* before and whatever they left under way, unless two clicks have been at
\* work at once since its control came up.
THEOREM QuietWhenOffAlways == Spec => []QuietWhenOff
<1>1. DeviceSound => QuietWhenOff
  <2> SUFFICES ASSUME DeviceSound, NEW b \in Browsers, control[b] = "off", ~ error[b],
                      ~ AtWork(b), ~ crossed[b]
               PROVE  endpoint[b] \notin DOMAIN subs
    BY DEF QuietWhenOff
  <2>1. \A c \in Clicks : ~ BusyAt(c, b)
    BY DEF AtWork, BusyAt
  <2>. QED  BY <2>1 DEF DeviceSound, ControlSound
<1>. QED  BY <1>1, DeviceSoundAlways, PTL

\* With the devices, the accounts are what they are without.
THEOREM DevicesImplementAccount == Spec => AccountSpec
<1>1. DeviceInit => Init
  BY DEF DeviceInit
<1>2. [Next]_vars => [AccountNext]_accountVars
  BY DEF Next, AccountStep, vars
<1>. QED  BY <1>1, <1>2, PTL DEF Spec, AccountSpec
=================================================================================
