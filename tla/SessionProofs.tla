---------------------------- MODULE SessionProofs ----------------------------
(* What holds of Session for any notifications and any number of requests,  *)
(* logins, sockets and disturbances.                                        *)
EXTENDS Session, FiniteSetTheorems, TLAPS

Refreshes == [token: Nat, pair: Nat, status: {"sent", "ok", "failed"}]

\* The refresh in flight, before the first disturbance, is one that succeeds:
\* the pair it uses up, or the one it was given, is a pair of the server's.
RefreshLives ==
  /\ token # 0
  /\ refreshing.status = "sent" => refreshing.token \in active
  /\ refreshing.status = "ok" => refreshing.pair \in active
  /\ refreshing.status # "failed"

SessionLives ==
  /\ refreshing = None => token \in active \cup {0}
  /\ refreshing # None => RefreshLives

Inv ==
  /\ events \in Nat /\ issued \in Nat /\ token \in Nat /\ active \subseteq 1..issued
  /\ page = IF token = 0 THEN "login" ELSE "app"
  /\ refreshing \in Refreshes \cup {None}
  /\ events = 0 => SessionLives

LEMMA InvInit == Init => Inv
  BY DEF Init, Inv, SessionLives

\* A step that disturbs makes no claim, one that leaves the tokens keeps it.
LEMMA Elsewhere ==
  ASSUME Inv, events' \in {events, events + 1},
         UNCHANGED <<page, token, refreshing, active, issued>>
  PROVE  Inv'
  BY DEF Inv, SessionLives, RefreshLives

LEMMA LoginStep == ASSUME Inv, Login PROVE Inv'
  <1>1. /\ token = 0 /\ issued' = issued + 1 /\ active' = active \cup {issued'}
        /\ token' = issued' /\ page' = ProtectedRoute(issued') /\ page = "login"
        /\ UNCHANGED <<refreshing, events>>
    BY DEF Inv, Login, LoginForm, IssueTokenPair, SetTokens
  <1>2. issued' \in Nat /\ issued' # 0 /\ active' \subseteq 1..issued'
    BY <1>1 DEF Inv
  <1>3. page' = "app"
    BY <1>1, <1>2 DEF ProtectedRoute
  <1>4. events = 0 => refreshing = None
    BY <1>1 DEF Inv, SessionLives, RefreshLives
  <1> QED BY <1>1, <1>2, <1>3, <1>4 DEF Inv, SessionLives

LEMMA UnauthorizedStep == ASSUME Inv, NEW c, Unauthorized(c) PROVE Inv'
  <1>1. UNCHANGED <<page, token, active, issued, events>>
    BY DEF Unauthorized, auth
  <1>2. CASE refreshing' = refreshing
    BY <1>1, <1>2, Elsewhere DEF Inv
  <1>3. CASE refreshing = None /\ token # 0 /\ refreshing' = AttemptRefresh
    <2>1. /\ refreshing' = [token |-> token, pair |-> 0, status |-> "sent"]
          /\ token \in active \/ events # 0
      BY <1>3 DEF AttemptRefresh, Inv, SessionLives
    <2> QED BY <1>1, <1>3, <2>1 DEF Inv, SessionLives, RefreshLives, Refreshes
  <1>4. CASE refreshing # None /\ refreshing' = AttemptRefresh
    BY <1>2, <1>4 DEF AttemptRefresh
  <1> QED BY <1>2, <1>3, <1>4 DEF Unauthorized

LEMMA ServeRefreshStep == ASSUME Inv, ServeRefresh PROVE Inv'
  <1>1. /\ refreshing # None /\ refreshing.status = "sent" /\ refreshing \in Refreshes
        /\ UNCHANGED <<page, token, events>>
    BY DEF ServeRefresh, Inv
  <1>2. CASE refreshing.token \in active
    <2>1. /\ issued' = issued + 1 /\ active' = (active \ {refreshing.token}) \cup {issued'}
          /\ refreshing' = [refreshing EXCEPT !.pair = issued', !.status = "ok"]
      BY <1>2 DEF ServeRefresh, IssueTokenPair
    <2>a. issued' \in Nat
      BY <2>1 DEF Inv
    <2>2. /\ refreshing' \in Refreshes /\ refreshing' # None
          /\ refreshing'.pair = issued' /\ refreshing'.status = "ok"
      BY <1>1, <2>1, <2>a, NoneAssumption DEF Refreshes
    <2>3. issued' \in Nat /\ active' \subseteq 1..issued' /\ refreshing'.pair \in active'
      BY <2>1, <2>2 DEF Inv
    <2> QED BY <1>1, <2>2, <2>3 DEF Inv, SessionLives, RefreshLives
  <1>3. CASE refreshing.token \notin active
    <2>1. events # 0
      BY <1>1, <1>3 DEF Inv, SessionLives, RefreshLives
    <2>2. active' = {} /\ issued' = issued /\ refreshing' = [refreshing EXCEPT !.status = "failed"]
      BY <1>3 DEF ServeRefresh, RevokeChain
    <2>3. refreshing' \in Refreshes /\ refreshing' # None /\ refreshing'.status = "failed"
      BY <1>1, <2>2, NoneAssumption DEF Refreshes
    <2> QED BY <1>1, <2>1, <2>2, <2>3 DEF Inv
  <1> QED BY <1>2, <1>3

LEMMA LoseRefreshStep == ASSUME Inv, LoseRefresh PROVE Inv'
  <1>1. /\ refreshing # None /\ refreshing \in Refreshes
        /\ refreshing' = [refreshing EXCEPT !.status = "failed"]
        /\ UNCHANGED <<page, token, active, issued>> /\ events' = events + 1
    BY DEF LoseRefresh, Disturb, auth, Inv
  <1>2. refreshing' \in Refreshes /\ refreshing' # None /\ refreshing'.status = "failed"
    BY <1>1, NoneAssumption DEF Refreshes
  <1> QED BY <1>1, <1>2 DEF Inv

\* The answer of a refresh is stored: a pair, or nothing.
LEMMA RefreshAnswered ==
  ASSUME Inv, RefreshSucceeds \/ RefreshFails
  PROVE  Inv' /\ (token' = 0 => events # 0 /\ events' = events)
  <1>1. /\ refreshing # None /\ refreshing' = None
        /\ UNCHANGED <<active, issued, events>>
        /\ page \in {"login", "app"}
        /\ refreshing \in Refreshes
    BY DEF RefreshSucceeds, RefreshFails, auth, Inv
  <1>2. page' = IF token' = 0 THEN "login" ELSE "app"
    BY <1>1 DEF RefreshSucceeds, RefreshFails, SetTokens, ProtectedRoute
  <1>3. events = 0 => RefreshLives
    BY <1>1 DEF Inv, SessionLives
  <1>4. events = 0 => token' \in active /\ token' # 0
    <2>1. events = 0 => RefreshSucceeds /\ token' = refreshing.pair /\ token' \in active
      BY <1>3 DEF RefreshLives, RefreshFails, RefreshSucceeds, SetTokens
    <2> QED BY <2>1 DEF Inv
  <1>5. token' \in Nat
    <2>1. refreshing.pair \in Nat
      BY <1>1 DEF Refreshes
    <2>2. token' \in {0, refreshing.pair}
      BY DEF RefreshSucceeds, RefreshFails, SetTokens
    <2> QED BY <2>1, <2>2
  <1> QED BY <1>1, <1>2, <1>4, <1>5 DEF Inv, SessionLives

\* Everything that is neither a step of the session nor a disturbance of it.
LEMMA OtherSteps ==
  ASSUME Inv,
         \/ Request \/ \E c \in calls : ServeCall(c)
         \/ \E p \in Pairs : Expire(p)
         \/ Connect \/ Reconnect \/ \E s \in sockets : OnClose(s) \/ DropSocket(s)
         \/ \E m \in Messages : Notify(m) \/ MarkRead(m) \/ MarkReadFails(m)
                              \/ MarkReadOnPage(m) \/ DeleteOne(m)
         \/ FetchAll \/ ListNotifications \/ UnreadCount \/ Fetched \/ LoseFetch
         \/ MarkAllRead \/ ClearRead \/ UNCHANGED vars
  PROVE  Inv' /\ token' = token
  <1>1. events' \in {events, events + 1} /\ UNCHANGED <<page, token, refreshing, active, issued>>
    BY DEF Request, ServeCall, Expire, Connect, Reconnect, OnClose, DropSocket, Notify, MarkRead,
           MarkReadFails, MarkReadOnPage, DeleteOne, FromThePage, FetchAll, ListNotifications,
           UnreadCount, Fetched, LoseFetch, MarkAllRead, ClearRead, vars, auth, Disturb
  <1> QED BY <1>1, Elsewhere

LEMMA Step ==
  ASSUME Inv, [Next]_vars
  PROVE  Inv' /\ (token # 0 /\ token' = 0 => events' > 0)
  <1>0. events \in Nat /\ page \in {"login", "app"}
    BY DEF Inv
  <1>1. CASE Login
    BY <1>1, LoginStep DEF Login, LoginForm, Inv
  <1>2. CASE Logout
    <2>1. token' = 0 /\ events' = events + 1 /\ page' = "login"
          /\ UNCHANGED <<refreshing, active, issued>>
      BY <1>0, <1>2 DEF Logout, SetTokens, ProtectedRoute, Disturb, auth
    <2> QED BY <1>0, <2>1 DEF Inv
  <1>3. CASE Reload
    <2>1. /\ events' = events + 1 /\ refreshing' = None /\ UNCHANGED <<token, active, issued>>
          /\ page' = IF token = 0 THEN "login" ELSE "app"
      BY <1>3 DEF Reload, ProtectedRoute, Disturb, auth
    <2> QED BY <1>0, <2>1 DEF Inv
  <1>4. CASE \E c \in calls : Unauthorized(c)
    BY <1>4, UnauthorizedStep DEF Unauthorized
  <1>5. CASE ServeRefresh
    BY <1>5, ServeRefreshStep DEF ServeRefresh
  <1>6. CASE LoseRefresh
    BY <1>6, LoseRefreshStep DEF LoseRefresh
  <1>7. CASE RefreshSucceeds \/ RefreshFails
    BY <1>0, <1>7, RefreshAnswered
  <1>8. CASE RevokeSessions
    <2>1. events' = events + 1 /\ active' = {} /\ UNCHANGED <<page, token, refreshing, issued>>
      BY <1>8 DEF RevokeSessions, Disturb
    <2> QED BY <1>0, <2>1 DEF Inv
  <1> QED
    BY <1>1, <1>2, <1>3, <1>4, <1>5, <1>6, <1>7, <1>8, OtherSteps DEF Next

(* Until somebody logs out, reloads, revokes or an answer is lost, no       *)
(* interleaving of expired tokens and refreshes throws the user out.        *)
THEOREM InterceptorKeepsSession == Spec => SessionKept
  <1>1. Init => Inv
    BY InvInit
  <1>2. Inv /\ [Next]_vars => Inv'
    BY Step
  <1>3. Inv /\ [Next]_vars => [token # 0 /\ token' = 0 => events' > 0]_vars
    BY Step
  <1> QED BY <1>1, <1>2, <1>3, PTL DEF Spec, SessionKept
(***************************************************************************)
(* Every state is of the type the model declares.  That the server never    *)
(* issues more pairs than there were logins and requests is the part that   *)
(* needs an argument: a refresh is started by a request that was not        *)
(* retried before and is from then on.                                      *)
(***************************************************************************)
Asked == [calls: 0..MaxCalls, logins: 0..MaxLogins, sockets: 0..MaxSockets]
Items == [Messages -> {"absent", "unread", "read"}]
Answers == [items: Items \cup {None}, unread: Nat \cup {None}]

NotRetried(requests) == {c \in requests : ~c.retried}
Awaited == IF refreshing # None /\ refreshing.status = "sent" THEN 1 ELSE 0

PagesInv ==
  /\ page \in {"login", "app"} /\ token \in Pairs
  /\ asked \in Asked /\ events \in 0..MaxEvents
  /\ IsFiniteSet(calls) /\ calls \subseteq Call
  /\ \A c \in calls : c.status = "waiting" => c.retried
  /\ refreshing \in TokenPair \cup {None}

ServerInv ==
  /\ issued \in Nat /\ active \subseteq 1..issued /\ fresh \subseteq 1..issued
  /\ issued + Awaited + Cardinality(NotRetried(calls)) <= asked.logins + asked.calls

SocketInv ==
  /\ ws \in AdminWS
  /\ IsFiniteSet(sockets) /\ sockets \subseteq Socket

BellInv ==
  /\ notes \in Items /\ bell \in NotificationsState
  /\ fetching \in Answers \cup {None}

TypeInv == PagesInv /\ ServerInv /\ SocketInv /\ BellInv

LEMMA TypesInit == Init => TypeInv
  <1> SUFFICES ASSUME Init PROVE TypeInv
    OBVIOUS
  <1>1. IsFiniteSet({}) /\ Cardinality({}) = 0 /\ NotRetried({}) = {}
    BY FS_EmptySet DEF NotRetried
  <1>2. 0 \in 0..MaxCalls /\ 0 \in 0..MaxLogins /\ 0 \in 0..MaxSockets /\ 0 \in 0..MaxEvents
        /\ 0 \in Pairs /\ 0 + 0 + 0 <= 0 + 0
    BY SessionAssumption DEF Pairs, MaxPairs
  <1>3. PagesInv
    BY <1>1, <1>2 DEF Init, PagesInv, Asked
  <1>4. ServerInv
    BY <1>1 DEF Init, ServerInv, Awaited
  <1>5. SocketInv /\ BellInv
    BY <1>1, <1>2 DEF Init, SocketInv, BellInv, Closed, AdminWS, NoItems, Items, NotificationsState
  <1> QED BY <1>3, <1>4, <1>5 DEF TypeInv

\* The bound on the pairs, and the invariant as the type it implies.
LEMMA PairsBounded ==
  ASSUME TypeInv
  PROVE  TypeOK /\ Pairs \subseteq Nat /\ Cardinality(NotRetried(calls)) \in Nat
  <1>1. IsFiniteSet(NotRetried(calls))
    BY FS_Subset DEF TypeInv, PagesInv, NotRetried
  <1>2. Cardinality(NotRetried(calls)) \in Nat /\ Awaited \in Nat
    BY <1>1, FS_CardinalityType DEF Awaited
  <1>3. /\ asked.logins \in 0..MaxLogins /\ asked.calls \in 0..MaxCalls
        /\ issued \in Nat
        /\ issued + Awaited + Cardinality(NotRetried(calls)) <= asked.logins + asked.calls
    BY DEF TypeInv, PagesInv, ServerInv, Asked
  <1>4. issued \in Pairs /\ Pairs \subseteq Nat
    BY <1>2, <1>3, SessionAssumption DEF Pairs, MaxPairs
  <1> QED BY <1>2, <1>4 DEF TypeOK, TypeInv, PagesInv, ServerInv, SocketInv, BellInv, Items

\* A request more, one fewer.
LEMMA NotRetriedMoves ==
  ASSUME NEW C, IsFiniteSet(C), NEW c, NEW d
  PROVE  /\ IsFiniteSet(C \ {c}) /\ IsFiniteSet((C \ {c}) \cup {d}) /\ IsFiniteSet(C \cup {d})
         /\ Cardinality(NotRetried(C)) \in Nat
         /\ Cardinality(NotRetried(C \cup {d})) \in 0..(Cardinality(NotRetried(C)) + 1)
         /\ Cardinality(NotRetried(C \ {c})) \in 0..Cardinality(NotRetried(C))
         /\ d.retried => NotRetried((C \ {c}) \cup {d}) = NotRetried(C \ {c})
         /\ c \in C /\ ~c.retried =>
              /\ Cardinality(NotRetried(C \ {c})) = Cardinality(NotRetried(C)) - 1
              /\ Cardinality(NotRetried((C \ {c}) \cup {d})) \in 0..Cardinality(NotRetried(C))
         /\ d.retried = c.retried /\ c \in C =>
              Cardinality(NotRetried((C \ {c}) \cup {d})) \in 0..Cardinality(NotRetried(C))
  <1> DEFINE N == NotRetried(C)
             less == NotRetried(C \ {c})
             one == IF d.retried THEN {} ELSE {d}
  <1>1. IsFiniteSet(C \ {c}) /\ IsFiniteSet((C \ {c}) \cup {d}) /\ IsFiniteSet(C \cup {d})
    <2>1. IsFiniteSet(C \ {c})
      BY FS_Subset
    <2> QED BY <2>1, FS_AddElement
  <1>2. IsFiniteSet(N) /\ IsFiniteSet(less)
    BY <1>1, FS_Subset DEF NotRetried
  <1>3. less = N \ {c} /\ NotRetried(C \cup {d}) = N \cup one
        /\ NotRetried((C \ {c}) \cup {d}) = less \cup one
        /\ (c \in C /\ ~c.retried => c \in N)
        /\ (c.retried => less = N)
    BY DEF NotRetried
  <1> HIDE DEF N, less
  <1>4. ASSUME NEW S, IsFiniteSet(S)
        PROVE  Cardinality(S) \in Nat /\ Cardinality(S \cup one) \in 0..(Cardinality(S) + 1)
    <2>1. IsFiniteSet(S \cup {d}) /\ Cardinality(S) \in Nat
          /\ Cardinality(S \cup {d}) \in {Cardinality(S), Cardinality(S) + 1}
      BY <1>4, FS_AddElement, FS_CardinalityType
    <2>2. S \cup one \in {S, S \cup {d}}
      OBVIOUS
    <2> HIDE DEF one
    <2> QED BY <2>1, <2>2
  <1>5. Cardinality(N) \in Nat /\ Cardinality(less) \in Nat
        /\ Cardinality(N \cup one) \in 0..(Cardinality(N) + 1)
        /\ Cardinality(less \cup one) \in 0..(Cardinality(less) + 1)
    BY <1>2, <1>4
  <1>6. c \in N => Cardinality(less) = Cardinality(N) - 1
    BY <1>2, <1>3, FS_RemoveElement
  <1>7. c \notin N => less = N
    BY <1>3
  <1>8. d.retried => less \cup one = less
    OBVIOUS
  <1>9. Cardinality(less) \in 0..Cardinality(N)
    BY <1>5, <1>6, <1>7
  <1>10. ASSUME c \in C, ~c.retried
         PROVE /\ Cardinality(less) = Cardinality(N) - 1
               /\ Cardinality(less \cup one) \in 0..Cardinality(N)
    <2>1. Cardinality(less) = Cardinality(N) - 1
      BY <1>3, <1>6, <1>10
    <2> HIDE DEF one
    <2> QED BY <1>5, <2>1
  <1>11. ASSUME c \in C, d.retried = c.retried
         PROVE  Cardinality(less \cup one) \in 0..Cardinality(N)
    <2>1. CASE c.retried
      BY <1>8, <1>9, <1>11, <2>1
    <2>2. CASE ~c.retried
      BY <1>10, <1>11, <2>2
    <2> QED BY <2>1, <2>2
  <1> HIDE DEF one
  <1> QED BY <1>1, <1>3, <1>5, <1>8, <1>9, <1>10, <1>11 DEF N, less
\* What the sockets and the bell do leaves the pages and the server alone,
\* but for the count of sockets and of disturbances.
LEMMA PagesLeft ==
  ASSUME TypeInv, UNCHANGED <<page, token, calls, refreshing, auth>>,
         events' \in 0..MaxEvents, asked' \in Asked,
         asked'.logins = asked.logins, asked'.calls = asked.calls
  PROVE  PagesInv' /\ ServerInv'
  <1>1. PagesInv'
    BY DEF TypeInv, PagesInv
  <1>2. ServerInv'
    BY DEF TypeInv, ServerInv, auth, Awaited, NotRetried
  <1> QED BY <1>1, <1>2

LEMMA Disturbs == ASSUME TypeInv, Disturb PROVE events' \in 0..MaxEvents
  BY SessionAssumption DEF TypeInv, PagesInv, Disturb

\* The pair of a login is counted with the logins.
LEMMA LoginTypes == ASSUME TypeInv, Login PROVE PagesInv' /\ ServerInv'
  <1> DEFINE n == Cardinality(NotRetried(calls))
             w == Awaited
  <1>1. n \in Nat /\ w \in {0, 1} /\ Pairs \subseteq Nat
    BY PairsBounded DEF Awaited
  <1>2. /\ asked.logins < MaxLogins /\ asked' = [asked EXCEPT !.logins = @ + 1]
        /\ issued' = issued + 1 /\ fresh' = fresh \cup {issued'}
        /\ active' = active \cup {issued'}
        /\ token' = issued' /\ page' = ProtectedRoute(issued')
        /\ UNCHANGED <<calls, refreshing, events>>
    BY DEF Login, IssueTokenPair, SetTokens
  <1>3. asked \in Asked /\ asked' \in Asked /\ asked'.logins = asked.logins + 1
        /\ asked'.calls = asked.calls
    BY <1>2, SessionAssumption DEF TypeInv, PagesInv, Asked
  <1>4. Awaited' = w /\ Cardinality(NotRetried(calls))' = n
    BY <1>2 DEF Awaited, NotRetried
  <1>5. issued + w + n <= asked.logins + asked.calls
        /\ issued \in Nat /\ active \subseteq 1..issued /\ fresh \subseteq 1..issued
    BY DEF TypeInv, ServerInv
  <1>6. asked'.logins \in 0..MaxLogins /\ asked'.calls \in 0..MaxCalls
        /\ asked.logins \in 0..MaxLogins
    BY <1>3 DEF Asked
  <1> HIDE DEF n, w
  <1>7. ServerInv'
    BY <1>1, <1>2, <1>3, <1>4, <1>5, <1>6 DEF ServerInv
  <1>8. issued' \in Pairs
    BY <1>1, <1>2, <1>3, <1>5, <1>6, SessionAssumption DEF Pairs, MaxPairs
  <1>9. PagesInv'
    BY <1>2, <1>3, <1>8 DEF TypeInv, PagesInv, ProtectedRoute
  <1> QED BY <1>7, <1>9

LEMMA RequestTypes == ASSUME TypeInv, Request PROVE PagesInv' /\ ServerInv'
  <1> DEFINE new == [id |-> asked.calls + 1, token |-> token, retried |-> FALSE,
                     status |-> "sent"]
             n == Cardinality(NotRetried(calls))
             n2 == Cardinality(NotRetried(calls \cup {new}))
  <1>1. /\ asked.calls < MaxCalls /\ asked' = [asked EXCEPT !.calls = @ + 1]
        /\ asked'.calls = asked.calls + 1 /\ asked'.logins = asked.logins /\ asked' \in Asked
        /\ asked.calls \in Nat /\ asked.logins \in Nat
        /\ UNCHANGED <<page, token, refreshing, auth, events>>
    BY SessionAssumption DEF Request, TypeInv, PagesInv, Asked
  <1>2. calls' = calls \cup {new}
    BY <1>1 DEF Request
  <1>3. new \in Call /\ new.status # "waiting"
    BY <1>1, SessionAssumption DEF Call, TypeInv, PagesInv
  <1> HIDE DEF new
  <1>4. IsFiniteSet(calls) /\ IsFiniteSet(calls \cup {new}) /\ n \in Nat /\ n2 \in 0..(n + 1)
    BY NotRetriedMoves DEF TypeInv, PagesInv
  <1>5. PagesInv'
    BY <1>1, <1>2, <1>3, <1>4 DEF TypeInv, PagesInv
  <1>6. Awaited' = Awaited /\ Cardinality(NotRetried(calls))' = n2 /\ Awaited \in {0, 1}
    BY <1>1, <1>2 DEF Awaited
  <1>7. issued + Awaited + n <= asked.logins + asked.calls /\ issued \in Nat
    BY DEF TypeInv, ServerInv
  <1> HIDE DEF n, n2
  <1>8. ServerInv'
    BY <1>1, <1>4, <1>6, <1>7 DEF TypeInv, ServerInv, auth
  <1> QED BY <1>5, <1>8

\* A request of the pages is answered, retried or rejected: the call that
\* waits for a refresh it started is one that was not retried before.
LEMMA CallTypes ==
  ASSUME TypeInv, NEW c \in calls, ServeCall(c) \/ Unauthorized(c)
  PROVE  PagesInv' /\ ServerInv'
  <1> DEFINE n == Cardinality(NotRetried(calls))
  <1>1. c \in Call /\ IsFiniteSet(calls) /\ calls \subseteq Call
        /\ (c.status = "waiting" => c.retried)
        /\ UNCHANGED <<page, token, auth, asked, events>>
    BY DEF TypeInv, PagesInv, ServeCall, Unauthorized
  <1>2. /\ issued + Awaited + n <= asked.logins + asked.calls
        /\ issued \in Nat /\ asked.logins \in Nat /\ asked.calls \in Nat /\ Awaited \in {0, 1}
    BY DEF TypeInv, ServerInv, PagesInv, Asked, Awaited
  <1>3. ASSUME NEW d, NEW C, C \in {calls \ {c}, (calls \ {c}) \cup {d}}, calls' = C,
               C # calls \ {c} => d \in Call /\ (d.status = "waiting" => d.retried),
               refreshing' \in TokenPair \cup {None},
               Awaited' \in {0, 1},
               Awaited' + Cardinality(NotRetried(C)) <= Awaited + n,
               Cardinality(NotRetried(C)) \in Nat
        PROVE  PagesInv' /\ ServerInv'
    <2>0. IsFiniteSet(calls \ {c}) /\ IsFiniteSet((calls \ {c}) \cup {d}) /\ n \in Nat
      BY <1>1, NotRetriedMoves
    <2>1. IsFiniteSet(C) /\ n \in Nat
      <3> HIDE DEF n
      <3> QED BY <1>3, <2>0
    <2>2. PagesInv'
      BY <1>1, <1>3, <2>1 DEF TypeInv, PagesInv
    <2>3. Cardinality(NotRetried(calls))' = Cardinality(NotRetried(C))
      BY <1>3
    <2> HIDE DEF n
    <2>4. ServerInv'
      BY <1>1, <1>2, <1>3, <2>1, <2>3 DEF TypeInv, ServerInv, auth
    <2> QED BY <2>2, <2>4
  <1>4. CASE UNCHANGED refreshing /\ calls' = calls \ {c}
    <2>1. Cardinality(NotRetried(calls \ {c})) \in 0..n /\ n \in Nat
      BY <1>1, NotRetriedMoves
    <2>2. Awaited' = Awaited /\ refreshing' \in TokenPair \cup {None}
      BY <1>4 DEF Awaited, TypeInv, PagesInv
    <2> HIDE DEF n
    <2> QED BY <1>2, <1>3, <1>4, <2>1, <2>2
  <1>5. CASE ServeCall(c) /\ c.token \notin fresh
    <2> DEFINE d == [c EXCEPT !.status = "unauthorized"]
    <2>1. calls' = (calls \ {c}) \cup {d} /\ UNCHANGED refreshing
      BY <1>5 DEF ServeCall, Becomes
    <2>2. d \in Call /\ d.status # "waiting" /\ d.retried = c.retried
      BY <1>1 DEF Call
    <2> HIDE DEF d
    <2>3. Cardinality(NotRetried((calls \ {c}) \cup {d})) \in 0..n /\ n \in Nat
      BY <1>1, <2>2, NotRetriedMoves
    <2>4. Awaited' = Awaited /\ refreshing' \in TokenPair \cup {None}
      BY <2>1 DEF Awaited, TypeInv, PagesInv
    <2> HIDE DEF n
    <2> QED BY <1>2, <1>3, <2>1, <2>2, <2>3, <2>4
  <1>6. CASE Unauthorized(c) /\ ~c.retried /\ refreshing' = AttemptRefresh
             /\ Becomes(c, [c EXCEPT !.retried = TRUE, !.status = "waiting"])
    <2> DEFINE d == [c EXCEPT !.retried = TRUE, !.status = "waiting"]
    <2>1. calls' = (calls \ {c}) \cup {d}
      BY <1>6 DEF Becomes
    <2>2. d \in Call /\ d.retried
      BY <1>1 DEF Call
    <2> HIDE DEF d
    <2> DEFINE rest == NotRetried(calls \ {c})
    <2>a. n \in Nat /\ Cardinality(rest) \in 0..n
      BY <1>1, NotRetriedMoves
    <2>b. NotRetried((calls \ {c}) \cup {d}) = rest
      BY <1>1, <2>2, NotRetriedMoves
    <2>c. Cardinality(rest) = n - 1
      BY <1>1, <1>6, NotRetriedMoves
    <2>3. /\ Cardinality(NotRetried((calls \ {c}) \cup {d})) = n - 1
          /\ Cardinality(NotRetried((calls \ {c}) \cup {d})) \in Nat
          /\ n \in Nat
      <3> HIDE DEF rest, n
      <3> QED BY <2>a, <2>b, <2>c
    <2>4. refreshing' \in TokenPair \cup {None} /\ Awaited' \in {0, 1}
      <3>1. 0 \in Pairs
        BY SessionAssumption DEF Pairs, MaxPairs
      <3> QED BY <1>6, <3>1 DEF AttemptRefresh, TypeInv, PagesInv, TokenPair, Awaited
    <2> HIDE DEF n
    <2> QED BY <1>2, <1>3, <2>1, <2>2, <2>3, <2>4
  <1> QED BY <1>4, <1>5, <1>6 DEF ServeCall, Unauthorized

\* The refresh is served, lost, or handled.
LEMMA RefreshTypes ==
  ASSUME TypeInv, ServeRefresh \/ LoseRefresh \/ RefreshFails \/ RefreshSucceeds
  PROVE  PagesInv' /\ ServerInv'
  <1> DEFINE n == Cardinality(NotRetried(calls))
  <1>1. /\ refreshing \in TokenPair /\ refreshing # None
        /\ UNCHANGED asked /\ asked \in Asked
        /\ calls \subseteq Call /\ IsFiniteSet(calls)
        /\ \A c \in calls : c.status = "waiting" => c.retried
        /\ n \in Nat /\ Pairs \subseteq Nat
    BY PairsBounded DEF TypeInv, PagesInv, ServeRefresh, LoseRefresh, RefreshFails, RefreshSucceeds
  <1>2. /\ issued + Awaited + n <= asked.logins + asked.calls
        /\ issued \in Nat /\ asked.logins \in 0..MaxLogins /\ asked.calls \in 0..MaxCalls
        /\ Awaited = IF refreshing.status = "sent" THEN 1 ELSE 0
        /\ active \subseteq 1..issued /\ fresh \subseteq 1..issued
    BY <1>1 DEF TypeInv, ServerInv, Asked, Awaited
  <1>3. CASE ServeRefresh /\ refreshing.token \in active
    <2>1. /\ refreshing.status = "sent" /\ issued' = issued + 1
          /\ fresh' = fresh \cup {issued'}
          /\ active' = (active \ {refreshing.token}) \cup {issued'}
          /\ refreshing' = [refreshing EXCEPT !.pair = issued', !.status = "ok"]
          /\ UNCHANGED <<page, token, calls, events>>
      BY <1>3 DEF ServeRefresh, IssueTokenPair
    <2>2. issued' \in Pairs /\ issued' + n <= asked.logins + asked.calls
      <3> HIDE DEF n
      <3> QED BY <1>1, <1>2, <2>1, SessionAssumption DEF Pairs, MaxPairs
    <2>3. refreshing' \in TokenPair /\ refreshing'.status = "ok"
      BY <1>1, <2>1, <2>2 DEF TokenPair
    <2>4. PagesInv'
      BY <1>1, <2>1, <2>3 DEF TypeInv, PagesInv
    <2>5. Awaited' = 0 /\ Cardinality(NotRetried(calls))' = n
      BY <2>1, <2>3 DEF Awaited
    <2> HIDE DEF n
    <2>6. ServerInv'
      BY <1>1, <1>2, <2>1, <2>2, <2>5 DEF ServerInv
    <2> QED BY <2>4, <2>6
  <1>4. CASE LoseRefresh \/ (ServeRefresh /\ refreshing.token \notin active)
    <2>1. /\ refreshing' = [refreshing EXCEPT !.status = "failed"]
          /\ UNCHANGED <<page, token, calls, issued, fresh>> /\ active' \subseteq active
          /\ events' \in 0..MaxEvents
      BY <1>4, Disturbs DEF ServeRefresh, LoseRefresh, RevokeChain, auth, TypeInv, PagesInv
    <2>2. refreshing' \in TokenPair /\ refreshing'.status = "failed"
      BY <1>1, <2>1 DEF TokenPair
    <2>3. PagesInv'
      BY <1>1, <2>1, <2>2 DEF TypeInv, PagesInv
    <2>4. Awaited' = 0 /\ Cardinality(NotRetried(calls))' = n /\ Awaited \in {0, 1}
      BY <1>2, <2>1, <2>2 DEF Awaited
    <2> HIDE DEF n
    <2>5. ServerInv'
      BY <1>1, <1>2, <2>1, <2>4 DEF ServerInv
    <2> QED BY <2>3, <2>5
  <1>5. CASE RefreshFails \/ RefreshSucceeds
    <2>1. /\ refreshing' = None /\ UNCHANGED <<auth, events>>
          /\ token' \in {0, refreshing.pair} /\ page' = ProtectedRoute(token')
      BY <1>5 DEF RefreshFails, RefreshSucceeds, SetTokens
    <2>2. refreshing.pair \in Pairs /\ 0 \in Pairs
      BY <1>1, SessionAssumption DEF TokenPair, Pairs, MaxPairs
    <2>3. /\ calls' \subseteq Call /\ IsFiniteSet(calls')
          /\ \A c \in calls' : c.status = "waiting" => c.retried
          /\ Cardinality(NotRetried(calls)') \in 0..n
      <3>1. CASE RefreshFails
        <4>1. calls' = {c \in calls : c.status # "waiting"}
          BY <3>1 DEF RefreshFails
        <4>2. IsFiniteSet(calls') /\ IsFiniteSet(NotRetried(calls))
              /\ NotRetried(calls') \subseteq NotRetried(calls)
          BY <1>1, <4>1, FS_Subset DEF NotRetried
        <4>3. Cardinality(NotRetried(calls')) <= n /\ Cardinality(NotRetried(calls')) \in Nat
          BY <4>2, FS_Subset, FS_CardinalityType
        <4> HIDE DEF n
        <4> QED BY <1>1, <4>1, <4>2, <4>3
      <3>2. CASE RefreshSucceeds
        <4> DEFINE f == [c \in calls |-> IF c.status = "waiting"
                           THEN [c EXCEPT !.token = refreshing.pair, !.status = "sent"]
                           ELSE c]
        <4>1. calls' = {f[c] : c \in calls}
          BY <3>2 DEF RefreshSucceeds
        <4>2. ASSUME NEW c \in calls
              PROVE  /\ f[c] \in Call /\ f[c].retried = c.retried
                     /\ f[c].status # "waiting"
                     /\ ~c.retried => f[c] = c
          BY <1>1, <2>2 DEF Call
        <4> HIDE DEF f
        <4>3. f \in Surjection(calls, calls')
          <5>1. f \in [calls -> calls']
            BY <4>1 DEF f
          <5> QED BY <4>1, <5>1 DEF Surjection
        <4>4. IsFiniteSet(calls')
          BY <1>1, <4>3, FS_Surjection
        <4>5. NotRetried(calls') = NotRetried(calls)
          BY <4>1, <4>2 DEF NotRetried
        <4>6. \A d \in calls' : d \in Call /\ d.status # "waiting"
          BY <4>1, <4>2
        <4>7. n \in 0..n
          <5> HIDE DEF n
          <5> QED BY <1>1
        <4> QED BY <4>4, <4>5, <4>6, <4>7
      <3> QED BY <1>5, <3>1, <3>2
    <2>4. PagesInv'
      BY <1>1, <2>1, <2>2, <2>3 DEF TypeInv, PagesInv, ProtectedRoute
    <2>5. Awaited' = 0 /\ Cardinality(NotRetried(calls))' \in 0..n /\ Awaited \in {0, 1}
      BY <1>2, <2>1, <2>3 DEF Awaited
    <2> HIDE DEF n
    <2>6. ServerInv'
      BY <1>1, <1>2, <2>1, <2>5 DEF ServerInv, auth
    <2> QED BY <2>4, <2>6
  <1> QED BY <1>3, <1>4, <1>5

\* Leaving, reloading, and what only the server does.
LEMMA LeaveTypes ==
  ASSUME TypeInv, \/ Logout \/ Reload \/ RevokeSessions \/ \E p \in Pairs : Expire(p)
  PROVE  PagesInv' /\ ServerInv'
  <1> DEFINE n == Cardinality(NotRetried(calls))
  <1>1. n \in Nat /\ Awaited \in {0, 1} /\ 0 \in Pairs
    BY PairsBounded, SessionAssumption DEF Awaited, Pairs, MaxPairs
  <1>2. events' \in 0..MaxEvents /\ UNCHANGED <<issued, asked>>
        /\ active' \subseteq active /\ fresh' \subseteq fresh
    BY Disturbs DEF Logout, Reload, RevokeSessions, Expire, auth, TypeInv, PagesInv
  <1>3. token' \in Pairs /\ page' \in {"login", "app"}
    BY <1>1 DEF Logout, Reload, RevokeSessions, Expire, SetTokens, ProtectedRoute, TypeInv, PagesInv
  <1>4. \/ UNCHANGED <<calls, refreshing>>
        \/ calls' = {} /\ refreshing' = None
    BY DEF Logout, Reload, RevokeSessions, Expire
  <1>5. PagesInv'
    BY <1>2, <1>3, <1>4, FS_EmptySet DEF TypeInv, PagesInv
  <1>6. issued + Awaited + n <= asked.logins + asked.calls /\ issued \in Nat
        /\ asked.logins \in Nat /\ asked.calls \in Nat
    BY DEF TypeInv, PagesInv, ServerInv, Asked
  <1>7. Awaited' + Cardinality(NotRetried(calls))' \in 0..(Awaited + n)
    <2>1. CASE UNCHANGED <<calls, refreshing>>
      <3>1. Awaited' = Awaited /\ Cardinality(NotRetried(calls))' = n
        BY <2>1 DEF Awaited
      <3> HIDE DEF n
      <3> QED BY <1>1, <3>1
    <2>2. CASE calls' = {} /\ refreshing' = None
      <3>1. Awaited' = 0 /\ Cardinality(NotRetried(calls))' = 0
        BY <2>2, FS_EmptySet DEF Awaited, NotRetried
      <3> HIDE DEF n
      <3> QED BY <1>1, <3>1
    <2> QED BY <1>4, <2>1, <2>2
  <1> HIDE DEF n
  <1>8. Awaited' \in {0, 1} /\ Cardinality(NotRetried(calls))' \in Nat
    <2>1. IsFiniteSet(NotRetried(calls)')
      BY <1>5, FS_Subset DEF PagesInv, NotRetried
    <2> QED BY <2>1, FS_CardinalityType DEF Awaited
  <1>9. ServerInv'
    BY <1>1, <1>2, <1>6, <1>7, <1>8 DEF TypeInv, ServerInv
  <1> QED BY <1>5, <1>9

\* The sockets: opened one at a time, each with a number of its own.
LEMMA ClosingTyped ==
  ASSUME TypeInv, NEW n
  PROVE  Closing(n) \subseteq Socket /\ IsFiniteSet(Closing(n))
  <1> DEFINE f == [s \in sockets |-> IF s.nth = n THEN [s EXCEPT !.open = FALSE] ELSE s]
  <1>1. sockets \subseteq Socket /\ IsFiniteSet(sockets)
    BY DEF TypeInv, SocketInv
  <1>2. Closing(n) = {f[s] : s \in sockets}
    BY DEF Closing
  <1>3. \A s \in sockets : f[s] \in Socket
    BY <1>1 DEF Socket
  <1> HIDE DEF f
  <1>4. f \in Surjection(sockets, Closing(n))
    <2>1. f \in [sockets -> Closing(n)]
      BY <1>2 DEF f
    <2> QED BY <1>2, <2>1 DEF Surjection
  <1> QED BY <1>1, <1>2, <1>3, <1>4, FS_Surjection

LEMMA OpenTyped ==
  ASSUME TypeInv, NEW base \in AdminWS, NEW rest, rest \subseteq Socket, IsFiniteSet(rest),
         OpenSocket(base, rest)
  PROVE  /\ SocketInv'
         /\ asked' \in Asked /\ asked'.logins = asked.logins /\ asked'.calls = asked.calls
  <1>1. /\ asked \in Asked /\ asked.sockets < MaxSockets
        /\ asked' = [asked EXCEPT !.sockets = @ + 1]
    BY DEF TypeInv, PagesInv, OpenSocket
  <1>2. /\ asked' \in Asked /\ asked'.logins = asked.logins /\ asked'.calls = asked.calls
        /\ asked'.sockets \in 1..MaxSockets
    BY <1>1, SessionAssumption DEF Asked
  <1> DEFINE new == [nth |-> asked'.sockets, open |-> TRUE]
  <1>3. ws' = [base EXCEPT !.socket = asked'.sockets] /\ sockets' = rest \cup {new}
    BY DEF OpenSocket
  <1>4. new \in Socket /\ ws' \in AdminWS
    BY <1>2, <1>3 DEF Socket, AdminWS
  <1> HIDE DEF new
  <1> QED BY <1>2, <1>3, <1>4, FS_AddElement DEF SocketInv

LEMMA SocketTypes ==
  ASSUME TypeInv, \/ Connect \/ Reconnect \/ \E s \in sockets : OnClose(s) \/ DropSocket(s)
  PROVE  TypeInv'
  <1>1. ws \in AdminWS /\ sockets \subseteq Socket /\ IsFiniteSet(sockets)
        /\ token \in Pairs /\ asked \in Asked
    BY DEF TypeInv, PagesInv, SocketInv
  <1>2. UNCHANGED <<page, token, calls, refreshing, auth, feed>>
    BY DEF Connect, Reconnect, OnClose, DropSocket
  <1>3. events' \in 0..MaxEvents
    BY Disturbs DEF Connect, Reconnect, OnClose, DropSocket, TypeInv, PagesInv
  <1>4. SocketInv' /\ asked' \in Asked /\ asked'.logins = asked.logins
        /\ asked'.calls = asked.calls
    <2>1. CASE Connect
      <3> DEFINE base == [current |-> token, socket |-> 0, timer |-> FALSE,
                          explicitlyClosed |-> FALSE]
                 rest == Closing(ws.socket)
      <3>1. OpenSocket(base, rest)
        BY <2>1 DEF Connect
      <3>2. base \in AdminWS /\ rest \subseteq Socket /\ IsFiniteSet(rest)
        BY <1>1, ClosingTyped, SessionAssumption DEF AdminWS
      <3> HIDE DEF base, rest
      <3> QED BY <3>1, <3>2, OpenTyped
    <2>2. CASE Reconnect
      <3> DEFINE base == [ws EXCEPT !.timer = FALSE]
      <3>1. OpenSocket(base, sockets) /\ base \in AdminWS
        BY <1>1, <2>2 DEF Reconnect, AdminWS
      <3> HIDE DEF base
      <3> QED BY <1>1, <3>1, OpenTyped
    <2>3. CASE \E s \in sockets : OnClose(s)
      <3>1. PICK s \in sockets : OnClose(s)
        BY <2>3
      <3>2. /\ sockets' = sockets \ {s} /\ UNCHANGED asked
            /\ ws' = [ws EXCEPT !.socket = 0, !.timer = @ \/ ~ws.explicitlyClosed]
        BY <3>1 DEF OnClose
      <3>3. ws' \in AdminWS
        <4>1. ws' = [current |-> ws.current, socket |-> 0,
                     timer |-> (ws.timer \/ ~ws.explicitlyClosed),
                     explicitlyClosed |-> ws.explicitlyClosed]
          BY <1>1, <3>2 DEF AdminWS
        <4>2. ws.current \in Pairs /\ 0 \in 0..MaxSockets /\ ws.explicitlyClosed \in BOOLEAN
          BY <1>1, SessionAssumption DEF AdminWS
        <4>3. (ws.timer \/ ~ws.explicitlyClosed) \in BOOLEAN
          OBVIOUS
        <4> QED BY <4>1, <4>2, <4>3 DEF AdminWS
      <3>4. IsFiniteSet(sockets')
        BY <1>1, <3>2, FS_Subset
      <3> QED BY <1>1, <3>2, <3>3, <3>4 DEF SocketInv
    <2>4. CASE \E s \in sockets : DropSocket(s)
      <3>1. PICK s \in sockets : DropSocket(s)
        BY <2>4
      <3>2. sockets' = Closing(s.nth) /\ UNCHANGED <<ws, asked>>
        BY <3>1 DEF DropSocket
      <3> QED BY <1>1, <3>2, ClosingTyped DEF SocketInv
    <2> QED BY <2>1, <2>2, <2>3, <2>4
  <1>5. PagesInv' /\ ServerInv'
    BY <1>2, <1>3, <1>4, PagesLeft
  <1>6. BellInv'
    BY <1>2 DEF TypeInv, BellInv, feed
  <1> QED BY <1>4, <1>5, <1>6 DEF TypeInv

\* The bell: what it counts is a number whatever it missed.
LEMMA UnreadTyped == ASSUME NEW items PROVE Unread(items) \in Nat
  <1>1. IsFiniteSet({m \in Messages : items[m] = "unread"})
    BY SessionAssumption, FS_Subset
  <1> QED BY <1>1, FS_CardinalityType DEF Unread

LEMMA FetchTyped == ASSUME TypeInv, Fetch PROVE fetching' \in Answers \cup {None}
  <1>1. fetching \in Answers \cup {None} /\ [items |-> None, unread |-> None] \in Answers
    BY DEF TypeInv, BellInv, Answers
  <1> QED BY <1>1 DEF Fetch

LEMMA BellTypes ==
  ASSUME TypeInv,
         \/ \E m \in Messages : Notify(m) \/ MarkRead(m) \/ MarkReadFails(m)
                              \/ MarkReadOnPage(m) \/ DeleteOne(m)
         \/ FetchAll \/ ListNotifications \/ UnreadCount \/ Fetched \/ LoseFetch
         \/ MarkAllRead \/ ClearRead
  PROVE  TypeInv'
  <1>1. /\ notes \in Items /\ bell \in NotificationsState
        /\ fetching \in Answers \cup {None}
        /\ bell.items \in Items /\ bell.unread \in Nat /\ bell.loading \in BOOLEAN
        /\ Less(bell.unread) \in Nat
    BY DEF TypeInv, BellInv, NotificationsState, Items, Less
  <1>2. UNCHANGED <<page, token, calls, refreshing, auth, live, asked>>
    BY DEF Notify, MarkRead, MarkReadFails, MarkReadOnPage, DeleteOne, FromThePage, FetchAll,
           ListNotifications, UnreadCount, Fetched, LoseFetch, MarkAllRead, ClearRead
  <1>3. events' \in 0..MaxEvents
    BY Disturbs DEF Notify, MarkRead, MarkReadFails, MarkReadOnPage, DeleteOne, FromThePage,
           FetchAll, ListNotifications, UnreadCount, Fetched, LoseFetch, MarkAllRead, ClearRead,
           TypeInv, PagesInv
  <1>4. PagesInv' /\ ServerInv'
    BY <1>2, <1>3, PagesLeft DEF TypeInv, PagesInv
  <1>5. SocketInv'
    BY <1>2 DEF TypeInv, SocketInv, live
  <1>6. BellInv'
    <2>1. CASE \E m \in Messages : Notify(m)
      <3>1. PICK m \in Messages : Notify(m)
        BY <2>1
      <3> DEFINE heard == IF page = "app" THEN Cardinality({s \in sockets : s.open}) ELSE 0
      <3>2. heard \in Nat
        <4>1. IsFiniteSet({s \in sockets : s.open})
          BY FS_Subset DEF TypeInv, SocketInv
        <4> QED BY <4>1, FS_CardinalityType
      <3>3. notes' \in Items
        BY <1>1, <3>1 DEF Notify, Items
      <3>4. \/ UNCHANGED <<bell, fetching>>
            \/ /\ Fetch
               /\ bell' = [items |-> [bell.items EXCEPT ![m] = "unread"],
                           unread |-> bell.unread + heard, loading |-> TRUE]
        BY <3>1 DEF Notify
      <3> HIDE DEF heard
      <3>5. bell' \in NotificationsState
        <4>1. bell.unread + heard \in Nat /\ [bell.items EXCEPT ![m] = "unread"] \in Items
          BY <1>1, <3>2 DEF Items
        <4>2. NotificationsState = [items: Items, unread: Nat, loading: BOOLEAN]
          BY DEF NotificationsState, Items
        <4>3. [items |-> [bell.items EXCEPT ![m] = "unread"],
               unread |-> bell.unread + heard, loading |-> TRUE] \in NotificationsState
          BY <4>1, <4>2
        <4> QED BY <1>1, <3>4, <4>3
      <3> QED BY <1>1, <3>3, <3>4, <3>5, FetchTyped DEF BellInv
    <2>2. CASE \E m \in Messages : MarkRead(m) \/ MarkReadFails(m)
      <3>1. PICK m \in Messages : MarkRead(m) \/ MarkReadFails(m)
        BY <2>2
      <3>2. /\ notes' \in {notes, [notes EXCEPT ![m] = "read"]} /\ UNCHANGED fetching
            /\ bell' = [bell EXCEPT !.items[m] = "read", !.unread = Less(@)]
        BY <3>1 DEF MarkRead, MarkReadFails
      <3>3. bell' = [items |-> [bell.items EXCEPT ![m] = "read"],
                     unread |-> Less(bell.unread), loading |-> bell.loading]
        BY <1>1, <3>2 DEF NotificationsState
      <3>4. [bell.items EXCEPT ![m] = "read"] \in Items /\ [notes EXCEPT ![m] = "read"] \in Items
        BY <1>1 DEF Items
      <3> QED BY <1>1, <3>2, <3>3, <3>4 DEF BellInv, NotificationsState, Items
    <2>3. CASE ClearRead \/ \E m \in Messages : MarkReadOnPage(m) \/ DeleteOne(m)
      <3>1. Fetch /\ bell' = [bell EXCEPT !.loading = TRUE]
        BY <2>3 DEF ClearRead, MarkReadOnPage, DeleteOne, FromThePage
      <3>2. notes' \in Items
        BY <1>1, <2>3 DEF ClearRead, MarkReadOnPage, DeleteOne, FromThePage, Items
      <3>3. bell' \in NotificationsState
        BY <1>1, <3>1 DEF NotificationsState
      <3> QED BY <3>1, <3>2, <3>3, FetchTyped DEF BellInv
    <2>4. CASE FetchAll
      BY <1>1, <2>4, FetchTyped DEF FetchAll, BellInv, NotificationsState
    <2>5. CASE ListNotifications \/ UnreadCount
      <3>1. fetching \in Answers /\ UNCHANGED <<notes, bell>> /\ Unread(notes) \in Nat
        BY <1>1, <2>5, UnreadTyped DEF ListNotifications, UnreadCount
      <3>2. fetching' \in Answers
        BY <1>1, <2>5, <3>1 DEF ListNotifications, UnreadCount, Answers
      <3> QED BY <1>1, <3>1, <3>2 DEF BellInv
    <2>6. CASE Fetched
      <3>1. fetching \in Answers /\ fetching.items # None /\ fetching.unread # None
        BY <1>1, <2>6 DEF Fetched
      <3>2. fetching.items \in Items /\ fetching.unread \in Nat
        BY <3>1 DEF Answers
      <3> QED BY <1>1, <2>6, <3>2 DEF Fetched, BellInv, NotificationsState, Items
    <2>7. CASE LoseFetch
      BY <1>1, <2>7 DEF LoseFetch, AfterFailure, BellInv, NotificationsState
    <2>8. CASE MarkAllRead
      <3>1. /\ notes' = [m \in Messages |-> IF notes[m] = "unread" THEN "read" ELSE notes[m]]
            /\ bell' = [items |-> [m \in Messages |-> IF bell.items[m] = "unread" THEN "read"
                                                      ELSE bell.items[m]],
                        unread |-> 0, loading |-> bell.loading]
            /\ UNCHANGED fetching
        BY <1>1, <2>8 DEF MarkAllRead, NotificationsState
      <3>2. notes' \in Items /\ bell'.items \in Items
        BY <1>1, <3>1 DEF Items
      <3> QED BY <1>1, <3>1, <3>2 DEF BellInv, NotificationsState, Items
    <2> QED BY <2>1, <2>2, <2>3, <2>4, <2>5, <2>6, <2>7, <2>8
  <1> QED BY <1>4, <1>5, <1>6 DEF TypeInv

LEMMA TypesStep == ASSUME TypeInv, [Next]_vars PROVE TypeInv'
  <1>1. CASE \/ Login \/ Logout \/ Reload \/ Request
             \/ \E c \in calls : ServeCall(c) \/ Unauthorized(c)
             \/ ServeRefresh \/ LoseRefresh \/ RefreshFails \/ RefreshSucceeds
             \/ \E p \in Pairs : Expire(p)
             \/ RevokeSessions
    <2>1. PagesInv' /\ ServerInv'
      BY <1>1, LoginTypes, LeaveTypes, RequestTypes, CallTypes, RefreshTypes
    <2>2. CASE Reload
      <3>1. 0 \in Pairs /\ 0 \in 0..MaxSockets
        BY SessionAssumption DEF Pairs, MaxPairs
      <3>2. SocketInv'
        BY <2>2, <3>1, FS_EmptySet DEF Reload, SocketInv, Closed, AdminWS
      <3>3. BellInv'
        BY <2>2 DEF Reload, TypeInv, BellInv, NotificationsState, NoItems
      <3> QED BY <2>1, <3>2, <3>3 DEF TypeInv
    <2>3. CASE ~Reload
      <3>1. UNCHANGED <<live, feed>>
        BY <1>1, <2>3 DEF Login, Logout, Request, ServeCall, Unauthorized, ServeRefresh,
             LoseRefresh, RefreshFails, RefreshSucceeds, Expire, RevokeSessions
      <3> QED BY <2>1, <3>1 DEF TypeInv, SocketInv, BellInv, live, feed
    <2> QED BY <2>2, <2>3
  <1>2. CASE Connect \/ Reconnect \/ \E s \in sockets : OnClose(s) \/ DropSocket(s)
    BY <1>2, SocketTypes
  <1>3. CASE \/ \E m \in Messages : Notify(m) \/ MarkRead(m) \/ MarkReadFails(m)
                                  \/ MarkReadOnPage(m) \/ DeleteOne(m)
             \/ FetchAll \/ ListNotifications \/ UnreadCount \/ Fetched \/ LoseFetch
             \/ MarkAllRead \/ ClearRead
    BY <1>3, BellTypes
  <1>4. CASE UNCHANGED vars
    BY <1>4 DEF vars, auth, live, feed, TypeInv, PagesInv, ServerInv, SocketInv, BellInv, Awaited,
                NotRetried
  <1> QED BY <1>1, <1>2, <1>3, <1>4 DEF Next

(* The tab, the server and the bell stay of their types; in particular the  *)
(* single-flight refresh of the interceptor never has the server issue more *)
(* pairs than there were logins and requests.                               *)
THEOREM TypeCorrect == Spec => []TypeOK
  <1>1. TypeInv /\ [Next]_vars => TypeInv'
    BY TypesStep
  <1>2. TypeInv => TypeOK
    BY PairsBounded
  <1> QED BY TypesInit, <1>1, <1>2, PTL DEF Spec
=============================================================================
