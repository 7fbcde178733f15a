------------------------------ MODULE PushDevice ------------------------------
(***************************************************************************)
(* Web push beside the accounts: what a browser shows of its subscription  *)
(* (usePushSubscription.ts), which rows the server keeps of it             *)
(* (routes/push.ts, the pushSubscriptions repository) and whom a push      *)
(* reaches (pushSender.ts).  The browser's push service is external: it    *)
(* hands out an endpoint per subscription and answers 410 for one that its *)
(* browser has dropped.                                                    *)
(*                                                                         *)
(* A click on the control sets a chain of awaits going.  It goes on when   *)
(* its player has signed out meanwhile and another one has the control,    *)
(* under that player's cookie and without a control to tell of it.         *)
(***************************************************************************)
EXTENDS Account, Functions

CONSTANTS
  Clicks,        \* bound: the chains that can be under way at once
  MaxEndpoints   \* bound: subscriptions browsers ever make

ASSUME EndpointsAssumption == MaxEndpoints \in Nat

VARIABLES
  subs,      \* the server's rows: a player for each endpoint it knows
  endpoint,  \* the browser's own subscription, 0 for none
  endpoints, \* how many there have been
  control,   \* what the header shows: "checking", "off" or "on"
  error,     \* the control shows an error
  chain,     \* how far each click has come
  crossed    \* history: two chains of the browser at once since the control is there

deviceVars == <<subs, endpoint, endpoints, control, error, chain, crossed>>
vars == <<accountVars, deviceVars>>

Done == [step |-> "done"]

DeviceInit ==
  /\ Init
  /\ subs = <<>> /\ endpoints = 0
  /\ endpoint = [b \in Browsers |-> 0]
  /\ control = [b \in Browsers |-> "checking"]
  /\ error = [b \in Browsers |-> FALSE]
  /\ chain = [c \in Clicks |-> Done]
  /\ crossed = [b \in Browsers |-> FALSE]

AtWork(b) == \E c \in Clicks : chain[c] # Done /\ chain[c].at = b

Turns(b, state) == control' = [control EXCEPT ![b] = state]
Errs(b, yes) == error' = [error EXCEPT ![b] = yes]

\* c goes on with what is left of it, or ends; the control it was clicked on
\* is told so if it is still there.
Continues(c, rest) == chain' = [chain EXCEPT ![c] = rest] /\ UNCHANGED crossed
Ends(c) == Continues(c, Done)
Heard(c) == chain[c].told = "control"
Tells(c, state) == IF Heard(c) THEN Turns(chain[c].at, state) ELSE UNCHANGED control
TellsError(c) == IF Heard(c) THEN Errs(chain[c].at, TRUE) ELSE UNCHANGED error

-----------------------------------------------------------------------------
(* The control *)

\* The control stays as long as some player's pages do (RootLayout).
Stays(b) == screen[b] \in Names /\ screen'[b] \in Names
Reloaded(b) == screen[b] # "loading" /\ screen'[b] = "loading"

\* A page loaded anew leaves nothing of a chain but a request that is on its
\* way to the server.
Remains(q) ==
  CASE q = Done \/ Stays(q.at) -> q
    [] q # Done /\ Reloaded(q.at) ->
         IF q.step \in {"post", "delete"} THEN [q EXCEPT !.told = "nobody"] ELSE Done
    [] OTHER -> IF q.told = "control" THEN [q EXCEPT !.told = "page"] ELSE q

AccountStep ==
  /\ AccountNext
  /\ control' = [b \in Browsers |-> IF Stays(b) THEN control[b] ELSE "checking"]
  /\ error' = [b \in Browsers |-> Stays(b) /\ error[b]]
  /\ chain' = [c \in Clicks |-> Remains(chain[c])]
  /\ UNCHANGED <<subs, endpoint, endpoints, crossed>>

\* getSubscription: the browser alone says whether notifications are on.
Mount(b) ==
  /\ screen[b] \in Names /\ control[b] = "checking"
  /\ Turns(b, IF endpoint[b] = 0 THEN "off" ELSE "on")
  /\ crossed' = [crossed EXCEPT ![b] = AtWork(b)]
  /\ UNCHANGED <<subs, endpoint, endpoints, error, chain>>

Click(b, c, step) ==
  /\ chain[c] = Done /\ Errs(b, FALSE)
  /\ chain' = [chain EXCEPT ![c] = [at |-> b, told |-> "control", step |-> step,
                                    endpoint |-> endpoint[b]]]
  /\ crossed' = [crossed EXCEPT ![b] = crossed[b] \/ AtWork(b)]

\* An error, from the server or on the way, leaves the control as it was.
Fails(c) ==
  /\ chain[c] # Done /\ Ends(c) /\ TellsError(c)
  /\ UNCHANGED <<subs, endpoint, endpoints, control>>

-----------------------------------------------------------------------------
(* Enable: the permission, the browser's subscription, the server's row *)

Enable(b, c) ==
  /\ screen[b] \in Names /\ control[b] = "off" /\ Click(b, c, "prompt")
  /\ UNCHANGED <<subs, endpoint, endpoints, control>>

\* The prompt is closed; a browser with a subscription has the permission and
\* does not ask.
Dismissed(c) ==
  /\ chain[c].step = "prompt" /\ endpoint[chain[c].at] = 0
  /\ Ends(c) /\ Tells(c, "off")
  /\ UNCHANGED <<subs, endpoint, endpoints, error>>

\* pushManager.subscribe hands back the subscription there is, or a new one.
Subscribe(c) ==
  LET b == chain[c].at
      e == IF endpoint[b] = 0 THEN endpoints + 1 ELSE endpoint[b]
  IN  /\ chain[c].step = "prompt"
      /\ endpoint' = [endpoint EXCEPT ![b] = e]
      /\ endpoints' = IF endpoint[b] = 0 THEN endpoints + 1 ELSE endpoints
      /\ Continues(c, [chain[c] EXCEPT !.step = "post", !.endpoint = e])
      /\ UNCHANGED <<subs, control, error>>

\* upsertPushSubscription: a conflict on the endpoint renews its keys and
\* leaves it to the player it was.
Upserted(e, n) ==
  [x \in DOMAIN subs \cup {e} |-> IF x \in DOMAIN subs THEN subs[x] ELSE n]

SubscribePush(c, arrives) ==
  /\ chain[c].step = "post" /\ HasSession(chain[c].at)
  /\ subs' = Upserted(chain[c].endpoint, PlayerOf(chain[c].at))
  /\ Ends(c)
  /\ IF arrives THEN Tells(c, "on") /\ UNCHANGED error
                ELSE TellsError(c) /\ UNCHANGED control
  /\ UNCHANGED <<endpoint, endpoints>>

-----------------------------------------------------------------------------
(* Disable: the server's row, then the browser's subscription *)

Disable(b, c) ==
  /\ screen[b] \in Names /\ control[b] = "on" /\ endpoint[b] # 0 /\ Click(b, c, "delete")
  /\ UNCHANGED <<subs, endpoint, endpoints, control>>

\* There is no subscription any more.
DisableNothing(b) ==
  /\ screen[b] \in Names /\ control[b] = "on" /\ endpoint[b] = 0
  /\ Turns(b, "off") /\ Errs(b, FALSE)
  /\ UNCHANGED <<subs, endpoint, endpoints, chain, crossed>>

\* removePushSubscriptionForPlayer: only the player's own row.
UnsubscribePush(c) ==
  LET q == chain[c]
  IN  /\ q.step = "delete" /\ HasSession(q.at)
      /\ subs' = Restrict(subs, {e \in DOMAIN subs : ~ (e = q.endpoint /\ subs[e] = PlayerOf(q.at))})
      /\ Continues(c, IF q.told = "nobody" THEN Done ELSE [q EXCEPT !.step = "drop"])
      /\ UNCHANGED <<endpoint, endpoints, control, error>>

\* Fault: the server forgets the subscription, the browser keeps it.
DropSubscription_ServerOnly(c) ==
  /\ chain[c].step = "drop" /\ Ends(c) /\ Tells(c, "off")
  /\ UNCHANGED <<subs, endpoint, endpoints, error>>

DropSubscription(c) ==
  /\ chain[c].step = "drop" /\ Ends(c) /\ Tells(c, "off")
  /\ endpoint' = [b \in Browsers |-> IF b = chain[c].at /\ endpoint[b] = chain[c].endpoint
                                     THEN 0 ELSE endpoint[b]]
  /\ UNCHANGED <<subs, endpoints, error>>

-----------------------------------------------------------------------------
\* sendPushToPlayer: the rows whose endpoint is gone (410) are deleted.
SendPush(n) ==
  LET gone == {e \in DOMAIN subs : subs[e] = n /\ e \notin Range(endpoint)}
  IN  gone # {} /\ subs' = Restrict(subs, DOMAIN subs \ gone)
      /\ UNCHANGED <<endpoint, endpoints, control, error, chain, crossed>>

DeviceStep ==
  \/ \E b \in Browsers : Mount(b) \/ DisableNothing(b)
  \/ \E b \in Browsers, c \in Clicks : Enable(b, c) \/ Disable(b, c)
  \/ \E c \in Clicks :
       \/ Dismissed(c) \/ Fails(c)
       \/ endpoints < MaxEndpoints /\ Subscribe(c)
       \/ \E arrives \in BOOLEAN : SubscribePush(c, arrives)
       \/ UnsubscribePush(c) \/ DropSubscription(c)
  \/ \E n \in Names : SendPush(n)

Next == AccountStep \/ (DeviceStep /\ UNCHANGED accountVars)

Spec == DeviceInit /\ [][Next]_vars

-----------------------------------------------------------------------------
\* A device that tells its player notifications are off, and shows no error,
\* gets no pushes: no row of anybody's names its subscription, whoever used it
\* before (upsert and delete keep rows by player, the browser keeps only one)
\* and whatever became of their clicks; unless two of them have been at work at
\* once since the control came up, the second against the first's outcome, or
\* one a player before had left behind.
QuietWhenOff ==
  \A b \in Browsers :
    (screen[b] \in Names /\ control[b] = "off" /\ ~ error[b] /\ ~ AtWork(b) /\ ~ crossed[b])
      => endpoint[b] \notin DOMAIN subs
===============================================================================
