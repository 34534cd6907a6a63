------------------------------- MODULE Session -------------------------------
(***************************************************************************)
(* A tab of the administrators' web app between login and logout           *)
(* (admin-web): the token pair in the persisted store, the single-flight   *)
(* refresh of the axios interceptor (lib/api.ts), the socket of live       *)
(* events (lib/ws.ts) and the bell with its store of notifications, against *)
(* the token rows of the server (backend auth_service.py).                 *)
(*                                                                         *)
(* Token pairs are numbered in the order the server issues them; 0 is no   *)
(* pair.  An answer that travels is a request whose status has changed and *)
(* that the tab has not handled yet, so answers arrive in any order.       *)
(***************************************************************************)
EXTENDS Integers, FiniteSets

CONSTANTS
  Messages,    \* the notifications of this administrator
  None,        \* no request, no part of an answer
  MaxLogins,   \* bound: logins
  MaxCalls,    \* bound: requests of the pages that may meet an expired token
  MaxSockets,  \* bound: sockets opened
  MaxEvents    \* bound: logouts, reloads, lost answers, dropped sockets and
               \* sessions revoked elsewhere

ASSUME SessionAssumption ==
  /\ IsFiniteSet(Messages)
  /\ MaxLogins \in Nat \ {0} /\ MaxCalls \in Nat /\ MaxSockets \in Nat
  /\ MaxEvents \in Nat

ASSUME NoneAssumption ==
  None \notin [token: Nat, pair: Nat, status: {"sent", "ok", "failed"}]

VARIABLES
  page,        \* the login page or a page of the app
  token,       \* the pair in the store (and in localStorage)
  calls,       \* the pages' requests that are not settled
  refreshing,  \* the refresh in flight
  active,      \* the server: refresh tokens that may still be used
  fresh,       \* the server: access tokens that are accepted
  issued,      \* the server: pairs issued so far
  ws,          \* the fields of adminWS
  sockets,     \* the sockets that are not closed yet
  notes,       \* the server: each notification's state
  bell,        \* the notifications store
  fetching,    \* its two requests in flight
  asked,       \* history: calls made, logins, sockets opened
  events

vars == <<page, token, calls, refreshing, active, fresh, issued, ws, sockets,
          notes, bell, fetching, asked, events>>
auth == <<active, fresh, issued>>
live == <<ws, sockets>>
feed == <<notes, bell, fetching>>

MaxPairs == MaxLogins + MaxCalls
Pairs == 0..MaxPairs
Call == [id: 1..MaxCalls, token: Pairs, retried: BOOLEAN,
         status: {"sent", "unauthorized", "waiting"}]
TokenPair == [token: Pairs, pair: Pairs, status: {"sent", "ok", "failed"}]
AdminWS == [current: Pairs, socket: 0..MaxSockets, timer: BOOLEAN,
            explicitlyClosed: BOOLEAN]
Socket == [nth: 1..MaxSockets, open: BOOLEAN]
NotificationsState == [items: [Messages -> {"absent", "unread", "read"}],
                       unread: Nat, loading: BOOLEAN]

TypeOK ==
  /\ page \in {"login", "app"}
  /\ token \in Pairs
  /\ calls \subseteq Call
  /\ refreshing \in TokenPair \cup {None}
  /\ active \subseteq 1..issued /\ fresh \subseteq 1..issued
  /\ issued \in Pairs
  /\ ws \in AdminWS
  /\ sockets \subseteq Socket
  /\ notes \in [Messages -> {"absent", "unread", "read"}]
  /\ bell \in NotificationsState
  /\ events \in 0..MaxEvents

NoItems == [m \in Messages |-> "absent"]
Closed == [current |-> 0, socket |-> 0, timer |-> FALSE, explicitlyClosed |-> FALSE]
Unread(items) == Cardinality({m \in Messages : items[m] = "unread"})

Init ==
  /\ page = "login" /\ token = 0 /\ calls = {} /\ refreshing = None
  /\ active = {} /\ fresh = {} /\ issued = 0
  /\ ws = Closed /\ sockets = {}
  /\ notes = NoItems
  /\ bell = [items |-> NoItems, unread |-> 0, loading |-> FALSE]
  /\ fetching = None
  /\ asked = [calls |-> 0, logins |-> 0, sockets |-> 0]
  /\ events = 0

Disturb == events < MaxEvents /\ events' = events + 1

(***************************************************************************)
(* The pages.  The routes of the app need a token; with one, the login page *)
(* redirects to them.                                                       *)
(***************************************************************************)
ProtectedRoute(pair) == IF pair = 0 THEN "login" ELSE "app"

SetTokens(pair) == token' = pair /\ page' = ProtectedRoute(pair)

LoginForm == IF page = "login" THEN {"submit"} ELSE {}
Topbar == IF page = "app" THEN {"bell", "logout", "navigate"} ELSE {}

IssueTokenPair ==
  /\ issued' = issued + 1
  /\ fresh' = fresh \cup {issued'}

Login ==
  /\ "submit" \in LoginForm
  /\ asked.logins < MaxLogins /\ asked' = [asked EXCEPT !.logins = @ + 1]
  /\ IssueTokenPair
  /\ active' = active \cup {issued'}
  /\ SetTokens(issued')
  /\ UNCHANGED <<calls, refreshing, live, feed, events>>

(* The store is emptied, by the user or by the login page that finds a role *)
(* without rights here; the server keeps the token's row.                   *)
Logout ==
  /\ "logout" \in Topbar
  /\ SetTokens(0)
  /\ Disturb
  /\ UNCHANGED <<calls, refreshing, auth, live, feed, asked>>

(* The tab is reloaded: only the persisted tokens remain.                   *)
Reload ==
  /\ page' = ProtectedRoute(token)
  /\ calls' = {} /\ refreshing' = None
  /\ ws' = Closed /\ sockets' = {}
  /\ bell' = [items |-> NoItems, unread |-> 0, loading |-> FALSE]
  /\ fetching' = None
  /\ Disturb
  /\ UNCHANGED <<token, auth, notes, asked>>

(***************************************************************************)
(* Requests and the interceptor.                                           *)
(***************************************************************************)
Request ==
  /\ "navigate" \in Topbar
  /\ asked.calls < MaxCalls /\ asked' = [asked EXCEPT !.calls = @ + 1]
  /\ calls' = calls \cup {[id |-> asked'.calls, token |-> token, retried |-> FALSE,
                           status |-> "sent"]}
  /\ UNCHANGED <<page, token, refreshing, auth, live, feed, events>>

Becomes(c, new) == calls' = (calls \ {c}) \cup {new}

ServeCall(c) ==
  /\ c.status = "sent"
  /\ IF c.token \in fresh THEN calls' = calls \ {c}
     ELSE Becomes(c, [c EXCEPT !.status = "unauthorized"])
  /\ UNCHANGED <<page, token, refreshing, auth, live, feed, asked, events>>

(* Mutated: every 401 posts a refresh of its own.                           *)
RefreshEach == [token |-> token, pair |-> 0, status |-> "sent"]

AttemptRefresh ==
  IF refreshing = None THEN [token |-> token, pair |-> 0, status |-> "sent"]
  ELSE refreshing

(* The first 401 starts the refresh, the others wait for it; a request that *)
(* has been retried, or that has nothing to refresh with, is rejected.      *)
Unauthorized(c) ==
  /\ c.status = "unauthorized"
  /\ IF c.retried \/ (refreshing = None /\ token = 0)
     THEN calls' = calls \ {c} /\ UNCHANGED refreshing
     ELSE /\ Becomes(c, [c EXCEPT !.retried = TRUE, !.status = "waiting"])
          /\ refreshing' = AttemptRefresh
  /\ UNCHANGED <<page, token, auth, live, feed, asked, events>>

(* A rotated token is used again: the whole device chain is revoked, for    *)
(* the web every token without a device id.                                 *)
RevokeChain == active' = {} /\ UNCHANGED <<fresh, issued>>

ServeRefresh ==
  /\ refreshing # None /\ refreshing.status = "sent"
  /\ IF refreshing.token \in active
     THEN /\ IssueTokenPair
          /\ active' = (active \ {refreshing.token}) \cup {issued'}
          /\ refreshing' = [refreshing EXCEPT !.pair = issued', !.status = "ok"]
     ELSE /\ RevokeChain
          /\ refreshing' = [refreshing EXCEPT !.status = "failed"]
  /\ UNCHANGED <<page, token, calls, live, feed, asked, events>>

LoseRefresh ==
  /\ refreshing # None /\ refreshing.status # "failed"
  /\ refreshing' = [refreshing EXCEPT !.status = "failed"]
  /\ Disturb
  /\ UNCHANGED <<page, token, calls, auth, live, feed, asked>>

(* A refresh that fails logs out and rejects the waiting requests.          *)
RefreshFails ==
  /\ refreshing # None /\ refreshing.status = "failed"
  /\ refreshing' = None
  /\ SetTokens(0)
  /\ calls' = {c \in calls : c.status # "waiting"}
  /\ UNCHANGED <<auth, live, feed, asked, events>>

(* One that succeeds stores the pair, also when the user has logged out      *)
(* meanwhile, and the waiting requests are sent again with it.              *)
RefreshSucceeds ==
  /\ refreshing # None /\ refreshing.status = "ok"
  /\ refreshing' = None
  /\ SetTokens(refreshing.pair)
  /\ calls' = {IF c.status = "waiting"
               THEN [c EXCEPT !.token = refreshing.pair, !.status = "sent"]
               ELSE c : c \in calls}
  /\ UNCHANGED <<auth, live, feed, asked, events>>

Expire(pair) ==
  /\ pair \in fresh
  /\ fresh' = fresh \ {pair}
  /\ UNCHANGED <<page, token, calls, refreshing, active, issued, live, feed, asked, events>>

(* The password is changed or another administrator deactivates the user.   *)
RevokeSessions ==
  /\ active # {}
  /\ active' = {}
  /\ Disturb
  /\ UNCHANGED <<page, token, calls, refreshing, fresh, issued, live, feed, asked>>

(***************************************************************************)
(* The socket of live events.                                              *)
(***************************************************************************)
Closing(n) == {IF s.nth = n THEN [s EXCEPT !.open = FALSE] ELSE s : s \in sockets}

OpenSocket(base, rest) ==
  /\ asked.sockets < MaxSockets /\ asked' = [asked EXCEPT !.sockets = @ + 1]
  /\ sockets' = rest \cup {[nth |-> asked'.sockets, open |-> TRUE]}
  /\ ws' = [base EXCEPT !.socket = asked'.sockets]

(* The bell's effect runs when the token has changed: disconnect, which     *)
(* starts to close the socket and cancels the timer, then open.  When the   *)
(* app is left the bell unmounts and the effect does not run.               *)
Connect ==
  /\ "bell" \in Topbar /\ ws.current # token
  /\ OpenSocket([current |-> token, socket |-> 0, timer |-> FALSE,
                 explicitlyClosed |-> FALSE], Closing(ws.socket))
  /\ UNCHANGED <<page, token, calls, refreshing, auth, feed, events>>

(* The close of a socket that was replaced comes after the new one is       *)
(* open: its handler forgets that one and starts the timer.                 *)
OnClose(s) ==
  /\ ~s.open
  /\ sockets' = sockets \ {s}
  /\ ws' = [ws EXCEPT !.socket = 0, !.timer = @ \/ ~ws.explicitlyClosed]
  /\ UNCHANGED <<page, token, calls, refreshing, auth, feed, asked, events>>

Reconnect ==
  /\ ws.timer
  /\ OpenSocket([ws EXCEPT !.timer = FALSE], sockets)
  /\ UNCHANGED <<page, token, calls, refreshing, auth, feed, events>>

DropSocket(s) ==
  /\ s.open
  /\ sockets' = Closing(s.nth)
  /\ Disturb
  /\ UNCHANGED <<page, token, calls, refreshing, auth, ws, feed, asked>>

(***************************************************************************)
(* The bell and its store.                                                 *)
(***************************************************************************)
Fetch ==
  IF bell.loading THEN UNCHANGED fetching
  ELSE fetching' = [items |-> None, unread |-> None]

(* A notification is stored and sent to every open socket; each delivery    *)
(* counts it, shows it and asks for a fetch.                                *)
Notify(m) ==
  /\ notes[m] = "absent"
  /\ notes' = [notes EXCEPT ![m] = "unread"]
  /\ LET heard == IF page = "app" THEN Cardinality({s \in sockets : s.open}) ELSE 0
     IN IF heard = 0 THEN UNCHANGED <<bell, fetching>>
        ELSE /\ Fetch
             /\ bell' = [items |-> [bell.items EXCEPT ![m] = "unread"],
                         unread |-> bell.unread + heard, loading |-> TRUE]
  /\ UNCHANGED <<page, token, calls, refreshing, auth, live, asked, events>>

(* Every 30 seconds, and when the token changes.                            *)
FetchAll ==
  /\ "bell" \in Topbar /\ ~bell.loading
  /\ bell.items # notes \/ bell.unread # Unread(notes)
  /\ Fetch
  /\ bell' = [bell EXCEPT !.loading = TRUE]
  /\ UNCHANGED <<page, token, calls, refreshing, auth, live, notes, asked, events>>

ListNotifications ==
  /\ fetching # None /\ fetching.items = None
  /\ fetching' = [fetching EXCEPT !.items = notes]
  /\ UNCHANGED <<page, token, calls, refreshing, auth, live, notes, bell, asked, events>>

UnreadCount ==
  /\ fetching # None /\ fetching.unread = None
  /\ fetching' = [fetching EXCEPT !.unread = Unread(notes)]
  /\ UNCHANGED <<page, token, calls, refreshing, auth, live, notes, bell, asked, events>>

Fetched ==
  /\ fetching # None /\ fetching.items # None /\ fetching.unread # None
  /\ bell' = [items |-> fetching.items, unread |-> fetching.unread, loading |-> FALSE]
  /\ fetching' = None
  /\ UNCHANGED <<page, token, calls, refreshing, auth, live, notes, asked, events>>

(* Mutated: the catch leaves the store loading.                             *)
StillLoading == bell

AfterFailure == [bell EXCEPT !.loading = FALSE]

LoseFetch ==
  /\ fetching # None
  /\ fetching' = None
  /\ bell' = AfterFailure
  /\ Disturb
  /\ UNCHANGED <<page, token, calls, refreshing, auth, live, notes, asked>>

(* Mutated: without the floor.                                            *)
OneLess(n) == n - 1

Less(n) == IF n = 0 THEN 0 ELSE n - 1

(* The store is updated when the answer is there, of whatever kind it is.   *)
MarkRead(m) ==
  /\ "bell" \in Topbar /\ bell.items[m] = "unread"
  /\ notes' = [notes EXCEPT ![m] = "read"]
  /\ bell' = [bell EXCEPT !.items[m] = "read", !.unread = Less(@)]
  /\ UNCHANGED <<page, token, calls, refreshing, auth, live, fetching, asked, events>>

MarkReadFails(m) ==
  /\ "bell" \in Topbar /\ bell.items[m] = "unread"
  /\ bell' = [bell EXCEPT !.items[m] = "read", !.unread = Less(@)]
  /\ Disturb
  /\ UNCHANGED <<page, token, calls, refreshing, auth, live, notes, fetching, asked>>

MarkAllRead ==
  /\ "bell" \in Topbar /\ bell.unread > 0
  /\ notes' = [m \in Messages |-> IF notes[m] = "unread" THEN "read" ELSE notes[m]]
  /\ bell' = [bell EXCEPT !.unread = 0,
                !.items = [m \in Messages |-> IF @[m] = "unread" THEN "read" ELSE @[m]]]
  /\ UNCHANGED <<page, token, calls, refreshing, auth, live, fetching, asked, events>>

(* The page of all notifications works on its own list; each of its calls   *)
(* is followed by a fetch of the store, which is dropped while one runs.    *)
NotificationsPage ==
  IF page = "app" THEN {"read", "delete", "clear_read"} ELSE {}

FromThePage(control, items) ==
  /\ control \in NotificationsPage
  /\ notes # items /\ notes' = items
  /\ Fetch /\ bell' = [bell EXCEPT !.loading = TRUE]
  /\ Disturb
  /\ UNCHANGED <<page, token, calls, refreshing, auth, live, asked>>

MarkReadOnPage(m) ==
  notes[m] = "unread" /\ FromThePage("read", [notes EXCEPT ![m] = "read"])

DeleteOne(m) == FromThePage("delete", [notes EXCEPT ![m] = "absent"])

ClearRead ==
  FromThePage("clear_read",
              [m \in Messages |-> IF notes[m] = "read" THEN "absent" ELSE notes[m]])

(***************************************************************************)
(* The next-state relation and its fairness.                               *)
(***************************************************************************)
Next ==
  \/ Login \/ Logout \/ Reload \/ Request
  \/ \E c \in calls : ServeCall(c) \/ Unauthorized(c)
  \/ ServeRefresh \/ LoseRefresh \/ RefreshFails \/ RefreshSucceeds
  \/ \E p \in Pairs : Expire(p)
  \/ RevokeSessions
  \/ Connect \/ Reconnect
  \/ \E s \in sockets : OnClose(s) \/ DropSocket(s)
  \/ \E m \in Messages : Notify(m) \/ MarkRead(m) \/ MarkReadFails(m)
                       \/ MarkReadOnPage(m) \/ DeleteOne(m)
  \/ FetchAll \/ ListNotifications \/ UnreadCount \/ Fetched \/ LoseFetch
  \/ MarkAllRead \/ ClearRead

Spec == Init /\ [][Next]_vars

(* The bell polls, and what is asked is answered.                           *)
FairSpec ==
  /\ Spec
  /\ WF_vars(FetchAll) /\ WF_vars(ListNotifications) /\ WF_vars(UnreadCount)
  /\ WF_vars(Fetched)

(***************************************************************************)
(* Properties.                                                             *)
(***************************************************************************)

(* The interceptor alone never costs the session: however the 401s of the   *)
(* requests and the answers of the refreshes interleave, a tab is thrown    *)
(* out only after a logout, a reload, a lost answer or a revocation.        *)
SessionKept == [][token # 0 /\ token' = 0 => events' > 0]_vars

(* The badge and the list come back to what the server says, whatever was   *)
(* delivered twice, dropped while loading or shown before it was true.      *)
BadgeSettles ==
  <>[](page = "app" => bell.items = notes /\ bell.unread = Unread(notes))

(* "Subscribes once per session" (ws.ts:1): a tab never has two sockets     *)
(* that deliver the same event.                                             *)
OneSocket == Cardinality({s \in sockets : s.open}) <= 1
=============================================================================
