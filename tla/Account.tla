------------------------------- MODULE Account -------------------------------
(***************************************************************************)
(* Accounts, sessions and password resets (routes/account.ts, the players, *)
(* sessions and passwordResetTokens repositories) as several browsers use  *)
(* them at once (AuthProvider.tsx and the account pages).                  *)
(*                                                                         *)
(* No handler runs in a transaction: it is a chain of single statements,   *)
(* each of them a step, and the server may stop between two.  Nor does a   *)
(* page wait for an answer before it sends the next request, so a browser  *)
(* may have several under way; it has one page open.  A page that is       *)
(* loaded anew takes no more answers, the server carries on all the same.  *)
(***************************************************************************)
EXTENDS Integers, Sequences, FiniteSets, FiniteSetsExt

CONSTANTS
  Names, Passwords, Browsers,
  Requests,     \* bound: the requests that can be under way at once
  NoPassword,   \* not a password: there is no such account
  NoBrowser,    \* not a browser: nobody hears the answer
  MaxSessions,  \* bound: sessions ever opened
  MaxLinks,     \* bound: reset links ever mailed
  MaxRows       \* bound: both together

ASSUME AccountAssumption ==
  /\ NoPassword \notin Passwords /\ NoBrowser \notin Browsers
  /\ {"loading", "out"} \cap Names = {}
  /\ {MaxSessions, MaxLinks, MaxRows} \subseteq Nat

VARIABLES
  password,  \* of each account
  sessions,  \* every session ever opened: its player, not revoked or expired
  links,     \* every reset link ever mailed: its player, usable, redeemed or too old
  cookie,    \* the session each browser presents, 0 for none
  screen,    \* what each browser shows: a player's pages, the login, or loading
  call,      \* how far each request has come, and the browser that waits for it
  overlapped, \* history: the page has had two requests at once, the last login included
  cutOff     \* history: the players a request for a link has failed half-way

accountVars == <<password, sessions, links, cookie, screen, call, overlapped, cutOff>>

Idle == [op |-> "idle"]

Init ==
  /\ password = [n \in Names |-> NoPassword]
  /\ sessions = <<>> /\ links = <<>> /\ cutOff = {}
  /\ cookie = [b \in Browsers |-> 0]
  /\ screen = [b \in Browsers |-> "loading"]
  /\ call = [r \in Requests |-> Idle]
  /\ overlapped = [b \in Browsers |-> FALSE]

Registered(n) == password[n] # NoPassword

\* requireSession: the cookie's session is neither revoked nor expired.
HasSession(b) == cookie[b] # 0 /\ sessions[cookie[b]].live
PlayerOf(b) == sessions[cookie[b]].player

\* b has a request under way whose answer may change its cookie or its screen.
UnderWay(b) == \E r \in Requests : call[r].op \notin {"idle", "mint"} /\ call[r].from = b

\* A new request of b; the one at r goes on to its next step.
Sends(b, r, request) ==
  /\ call[r] = Idle /\ call' = [call EXCEPT ![r] = request]
  /\ overlapped' =
       [overlapped EXCEPT ![b] = UnderWay(b) \/ (overlapped[b] /\ screen[b] # "out")]
Goes(r, request) == call' = [call EXCEPT ![r] = request] /\ UNCHANGED overlapped
Shows(b, page) == screen' = [screen EXCEPT ![b] = page]

\* The pages for signing in are for those who are not (RequireAnon, and
\* RootLayout while the session is looked up).  Fault: only the latter.
SignedOut_Loaded(b) == screen[b] # "loading"
SignedOut(b) == screen[b] = "out"

SignedIn(b) == screen[b] \in Names

-----------------------------------------------------------------------------
(* The page *)

\* The first thing a page does is to ask who it is for; an error keeps it
\* loading until somebody retries.
Bootstrap(b) ==
  /\ screen[b] = "loading"
  /\ Shows(b, IF HasSession(b) THEN PlayerOf(b) ELSE "out")
  /\ UNCHANGED <<password, sessions, links, cookie, call, overlapped, cutOff>>

\* The page is loaded anew: an answer to it is dropped, and what the server
\* still has in hand is answered to nobody.
Unheard(q) ==
  IF q.op \in {"opened", "me", "left"} THEN Idle ELSE [q EXCEPT !.from = NoBrowser]

Abandons(b, waiting) ==
  /\ Shows(b, "loading") /\ overlapped' = [overlapped EXCEPT ![b] = FALSE]
  /\ call' = [r \in Requests |->
                IF waiting[r].op \notin {"idle", "mint"} /\ waiting[r].from = b
                THEN Unheard(waiting[r]) ELSE waiting[r]]

Reload(b) ==
  /\ screen[b] # "loading" /\ Abandons(b, call)
  /\ UNCHANGED <<password, sessions, links, cookie, cutOff>>

\* An answer does not arrive, or there is nobody to hear it.
Lost(r) ==
  /\ call[r].op \in {"opened", "me", "left"} /\ Goes(r, Idle)
  /\ UNCHANGED <<password, sessions, links, cookie, screen, cutOff>>

-----------------------------------------------------------------------------
(* Signing in and out *)

Opening(b, n) == [op |-> "open", from |-> b, player |-> n, kind |-> "login", before |-> 0]

\* createAccount: one insert, of which the unique index lets one win.
Register(b, r, n, w) ==
  /\ SignedOut(b) /\ ~ Registered(n)
  /\ password' = [password EXCEPT ![n] = w]
  /\ Sends(b, r, Opening(b, n))
  /\ UNCHANGED <<sessions, links, cookie, screen, cutOff>>

\* The password is read and verified; what follows goes by that.
Login(b, r, n, w) ==
  /\ SignedOut(b) /\ password[n] = w
  /\ Sends(b, r, Opening(b, n))
  /\ UNCHANGED <<password, sessions, links, cookie, screen, cutOff>>

\* startSession: a new session, whose cookie goes out with the answer.
OpenSession(r) ==
  /\ call[r].op = "open"
  /\ sessions' = Append(sessions, [player |-> call[r].player, live |-> TRUE])
  /\ Goes(r, [op |-> "opened", from |-> call[r].from, kind |-> call[r].kind,
              session |-> Len(sessions) + 1])
  /\ UNCHANGED <<password, links, cookie, screen, cutOff>>

\* The browser takes the cookie whatever it shows by now.  A login then asks
\* who it is, a reset loads the page anew, a change is done.
Opened(r) ==
  LET b == call[r].from
  IN  /\ call[r].op = "opened" /\ b # NoBrowser
      /\ cookie' = [cookie EXCEPT ![b] = call[r].session]
      /\ CASE call[r].kind = "login" ->
                Goes(r, [op |-> "me", from |-> b, session |-> call[r].session]) /\ UNCHANGED screen
           [] call[r].kind = "reset" -> Abandons(b, [call EXCEPT ![r] = Idle])
           [] call[r].kind = "change" -> Goes(r, Idle) /\ UNCHANGED screen
      /\ UNCHANGED <<password, sessions, links, cutOff>>

\* refreshToReady: an error is shown on the page the browser is on.
Me(r) ==
  LET asked == sessions[call[r].session]
  IN  /\ call[r].op = "me" /\ call[r].from # NoBrowser
      /\ IF asked.live THEN Shows(call[r].from, asked.player) ELSE UNCHANGED screen
      /\ Goes(r, Idle)
      /\ UNCHANGED <<password, sessions, links, cookie, cutOff>>

Logout(b, r) ==
  /\ SignedIn(b) /\ HasSession(b)
  /\ sessions' = [sessions EXCEPT ![cookie[b]].live = FALSE]
  /\ Sends(b, r, [op |-> "left", from |-> b])
  /\ UNCHANGED <<password, links, cookie, screen, cutOff>>

LoggedOut(r) ==
  LET b == call[r].from
  IN  /\ call[r].op = "left" /\ b # NoBrowser
      /\ cookie' = [cookie EXCEPT ![b] = 0] /\ Shows(b, "out") /\ Goes(r, Idle)
      /\ UNCHANGED <<password, sessions, links, cutOff>>

Expire(s) ==
  /\ sessions[s].live /\ sessions' = [sessions EXCEPT ![s].live = FALSE]
  /\ UNCHANGED <<password, links, cookie, screen, call, overlapped, cutOff>>

\* The cookie has the age of its session, and the browser drops it for that.
CookieLapses(b) ==
  /\ cookie[b] # 0 /\ ~ HasSession(b) /\ cookie' = [cookie EXCEPT ![b] = 0]
  /\ UNCHANGED <<password, sessions, links, screen, call, overlapped, cutOff>>

-----------------------------------------------------------------------------
(* A new password: set, sign out everywhere, sign in here *)

Setting(b, n, new, kind) ==
  [op |-> "set", from |-> b, player |-> n, password |-> new, kind |-> kind]

ChangePassword(b, r, old, new) ==
  /\ SignedIn(b) /\ HasSession(b) /\ password[PlayerOf(b)] = old
  /\ Sends(b, r, Setting(b, PlayerOf(b), new, "change"))
  /\ UNCHANGED <<password, sessions, links, cookie, screen, cutOff>>

\* before: the sessions there were when the new password came into force.
SetPassword(r) ==
  /\ call[r].op = "set"
  /\ password' = [password EXCEPT ![call[r].player] = call[r].password]
  /\ Goes(r, [op |-> "revoke", from |-> call[r].from, player |-> call[r].player,
              kind |-> call[r].kind, before |-> Len(sessions)])
  /\ UNCHANGED <<sessions, links, cookie, screen, cutOff>>

RevokedFor(n, ss) ==
  [s \in DOMAIN ss |-> IF ss[s].player = n THEN [ss[s] EXCEPT !.live = FALSE] ELSE ss[s]]

\* Fault: the session the request came with only.
RevokeAll_Own(r) ==
  LET own == IF call[r].from = NoBrowser THEN {} ELSE {cookie[call[r].from]}
  IN  /\ call[r].op = "revoke"
      /\ sessions' = [s \in DOMAIN sessions |->
                        IF s \in own THEN [sessions[s] EXCEPT !.live = FALSE] ELSE sessions[s]]
      /\ Goes(r, [call[r] EXCEPT !.op = "open"])
      /\ UNCHANGED <<password, links, cookie, screen, cutOff>>

\* revokeAllSessionsForPlayer, those opened since the password was set too.
RevokeAll(r) ==
  /\ call[r].op = "revoke"
  /\ sessions' = RevokedFor(call[r].player, sessions)
  /\ Goes(r, [call[r] EXCEPT !.op = "open"])
  /\ UNCHANGED <<password, links, cookie, screen, cutOff>>

-----------------------------------------------------------------------------
(* Reset links *)

Superseded(n) ==
  [k \in DOMAIN links |-> IF links[k].player = n THEN [links[k] EXCEPT !.usable = FALSE]
                                                 ELSE links[k]]
NewLink(n) == [player |-> n, usable |-> TRUE, over |-> FALSE]

\* createResetToken: older links stop working (the update), then there is a
\* new one (the insert) and it is mailed.  The answer says nothing.
Supersede(b, r, n) ==
  /\ SignedOut(b) /\ Registered(n) /\ call[r] = Idle
  /\ links' = Superseded(n)
  /\ Goes(r, [op |-> "mint", player |-> n])
  /\ UNCHANGED <<password, sessions, cookie, screen, cutOff>>

\* Fault: the links are superseded after the new one is there.
MintLink_ThenSupersede(r) ==
  /\ call[r].op = "mint"
  /\ links' = Append(Superseded(call[r].player), [NewLink(call[r].player) EXCEPT !.usable = FALSE])
  /\ cutOff' = cutOff \ {call[r].player} /\ Goes(r, Idle)
  /\ UNCHANGED <<password, sessions, cookie, screen>>

MintLink(r) ==
  /\ call[r].op = "mint"
  /\ links' = Append(links, NewLink(call[r].player))
  /\ cutOff' = cutOff \ {call[r].player} /\ Goes(r, Idle)
  /\ UNCHANGED <<password, sessions, cookie, screen>>

Over(k) == [links EXCEPT ![k].usable = FALSE, ![k].over = TRUE]

ExpireLink(k) ==
  /\ links[k].usable /\ links' = Over(k)
  /\ UNCHANGED <<password, sessions, cookie, screen, call, overlapped, cutOff>>

\* consumeResetToken: one guarded update both checks and marks the link.
ConfirmReset(b, r, k, new) ==
  /\ SignedOut(b) /\ links[k].usable
  /\ links' = Over(k) /\ Sends(b, r, Setting(b, links[k].player, new, "reset"))
  /\ UNCHANGED <<password, sessions, cookie, screen, cutOff>>

-----------------------------------------------------------------------------
Handling == {r \in Requests : call[r].op \in {"open", "set", "revoke", "mint"}}

\* The server stops: handlers break off between two statements.
Stop ==
  /\ Handling # {}
  /\ cutOff' = cutOff \cup {call[r].player : r \in {q \in Requests : call[q].op = "mint"}}
  /\ call' = [r \in Requests |-> IF r \in Handling THEN Idle ELSE call[r]]
  /\ UNCHANGED <<password, sessions, links, cookie, screen, overlapped>>

\* What somebody does at b, in a request of its own.
Asks(b, r) ==
  \/ \E n \in Names, w \in Passwords : Register(b, r, n, w) \/ Login(b, r, n, w)
  \/ Logout(b, r)
  \/ \E old, new \in Passwords : ChangePassword(b, r, old, new)
  \/ \E n \in Names : Supersede(b, r, n)
  \/ \E k \in DOMAIN links, new \in Passwords : ConfirmReset(b, r, k, new)

RoomForARow == Len(sessions) + Len(links) < MaxRows

\* What becomes of a request.
Proceeds(r) ==
  \/ RoomForARow /\ Len(sessions) < MaxSessions /\ OpenSession(r)
  \/ Opened(r) \/ Me(r) \/ LoggedOut(r) \/ Lost(r)
  \/ SetPassword(r) \/ RevokeAll(r)
  \/ RoomForARow /\ Len(links) < MaxLinks /\ MintLink(r)

AccountNext ==
  \/ \E b \in Browsers : Bootstrap(b) \/ Reload(b) \/ CookieLapses(b)
  \/ \E b \in Browsers, r \in Requests : Asks(b, r)
  \/ \E r \in Requests : Proceeds(r)
  \/ \E s \in DOMAIN sessions : Expire(s)
  \/ \E k \in DOMAIN links : ExpireLink(k)
  \/ Stop

AccountSpec == Init /\ [][AccountNext]_accountVars

-----------------------------------------------------------------------------
\* A page that shows a player's games presents a session of that player or
\* none at all, through lost answers, reloads, lapsed cookies and resets
\* (AuthProvider's state against the cookie it cannot read); unless the page
\* has had two requests under way at once: then the cookie of the one may
\* arrive after the other has changed whose page it is.
ScreenIsTheSession ==
  \A b \in Browsers :
    screen[b] \in Names /\ cookie[b] # 0 /\ ~ overlapped[b] => PlayerOf(b) = screen[b]

\* "Sign out anywhere else this account is logged in": when the caller of a
\* change or a reset is signed in again, every session there was when the new
\* password came into force is over, whoever signs in meanwhile (a login counts
\* none).
ChangeSignsOthersOut ==
  \A r \in Requests :
    call[r].op = "open" =>
      \A s \in 1 .. call[r].before :
        sessions[s].player = call[r].player => ~ sessions[s].live

\* Whoever asks for a link gets one that works: the latest link of an account
\* is usable, has been redeemed or is too old, unless a further request is
\* between its two statements or was cut off there.
LatestLinkWorks ==
  \A n \in Names :
    LET own == {k \in DOMAIN links : links[k].player = n}
    IN  own = {}
        \/ links[Max(own)].usable \/ links[Max(own)].over
        \/ n \in cutOff
        \/ \E r \in Requests : call[r].op = "mint" /\ call[r].player = n
===============================================================================
