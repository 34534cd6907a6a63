---------------------------- MODULE CheckinProofs ----------------------------
(* What holds of Checkin for any people, flushes and bounds.                *)
EXTENDS Checkin, TLAPS

\* The account that takes selfies, and room in the history for one.
SignedIn ==
  /\ page \in {"today", "other"} => account # None
  /\ capture # None => page = "today" /\ Len(tapped) < MaxTaps

\* The server records for people.
CheckedForPeople == \A p \in posts : p.server = "checked" => p.account \in People

Typed == TypeOK /\ DOMAIN flushes = Flushes /\ Len(tapped) <= MaxTaps /\ SignedIn /\ CheckedForPeople

LEMMA TypedInit == Init => Typed
  <1> SUFFICES ASSUME Init PROVE Typed
    OBVIOUS
  <1>1. tapped \in Seq([person: People, mode: Modes]) /\ Len(tapped) = 0 /\ MaxTaps \in Nat
    BY CheckinAssumption DEF Init
  <1>2. TypeOK
    <2>1. page \in {"closed", "login", "today", "other"} /\ account \in People \cup {None}
          /\ shown \in TodayStatus \cup {None} /\ online \in BOOLEAN /\ native \in BOOLEAN
          /\ barred \in BOOLEAN
      BY DEF Init
    <2>2. events \in 0..MaxEvents
      BY CheckinAssumption DEF Init
    <2>3. last \in [People -> Modes \cup {None}] /\ \A f \in Flushes : flushes[f] = None
      BY DEF Init
    <2>4. capture = None /\ submits = {} /\ queue = {} /\ posts = {} /\ stashed = {} /\ credited = {}
      BY DEF Init
    <2> QED BY <1>1, <2>1, <2>2, <2>3, <2>4 DEF TypeOK
  <1> QED BY <1>1, <1>2 DEF Init, Typed, SignedIn, CheckedForPeople

TapTypes ==
  /\ page \in {"closed", "login", "today", "other"}
  /\ account \in People \cup {None}
  /\ capture \in [mode: Modes, look: {"live", "photo", "error"}] \cup {None}
  /\ tapped \in Seq([person: People, mode: Modes])
  /\ Len(tapped) <= MaxTaps /\ SignedIn

LEMMA TapTypesStep == Typed /\ [Next]_vars => TapTypes'
  <1> SUFFICES ASSUME Typed, [Next]_vars PROVE TapTypes'
    OBVIOUS
  <1>0. TapTypes /\ Len(tapped) \in Nat /\ MaxTaps \in Nat
    BY CheckinAssumption DEF Typed, TypeOK, TapTypes
  <1> USE DEF TapTypes, SignedIn
  <1>1. CASE UNCHANGED <<page, account, capture, tapped>>
    BY <1>0, <1>1
  <1>2. CASE OpenApp \/ CloseTab \/ LogOut \/ LeavePage \/ Return
    BY <1>0, <1>2 DEF OpenApp, CloseTab, LogOut, LeavePage, Return
  <1>3. CASE \E p \in People : LoginPage(p)
    BY <1>0, <1>3, CheckinAssumption DEF LoginPage
  <1>4. CASE \E mode \in Modes : PressButton(mode)
    BY <1>0, <1>4 DEF PressButton, TodayPage
  <1>5. CASE Snap \/ Retake \/ CameraRefused
    <2>1. /\ capture # None /\ UNCHANGED <<page, account, tapped>>
          /\ \E look \in {"live", "photo", "error"} : capture' = [capture EXCEPT !.look = look]
      BY <1>5 DEF Snap, Retake, CameraRefused, Look, SelfieCapture
    <2> QED BY <1>0, <2>1
  <1>6. CASE CancelCapture
    BY <1>0, <1>6 DEF CancelCapture
  <1>7. CASE HandleCaptured
    <2>1. /\ capture # None /\ capture' = None /\ UNCHANGED <<page, account>>
          /\ tapped' = Append(tapped, [person |-> account, mode |-> capture.mode])
      BY <1>7 DEF HandleCaptured, SelfieCapture
    <2>2. [person |-> account, mode |-> capture.mode] \in [person: People, mode: Modes]
          /\ Len(tapped) < MaxTaps
      BY <1>0, <2>1
    <2> QED BY <1>0, <2>1, <2>2
  <1>8. CASE \/ RefreshToday \/ \E mode \in Modes : NativePress(mode)
             \/ \E s \in submits : Locate(s)
             \/ \E f \in Flushes : StartFlush(f) \/ PostNext(f)
             \/ \E p \in posts : Serve(p) \/ Answer(p) \/ Refuse(p) \/ LosePost(p)
             \/ GoOffline \/ ComeOnline \/ NativeRefresh \/ Bar \/ UNCHANGED vars
    BY <1>1, <1>8 DEF RefreshToday, NativePress, Locate, StartFlush, PostNext, Serve, Check,
         Insert, Answer, Submitted, FlushAnswered, NativeAnswered, Refuse, LosePost, GoOffline,
         ComeOnline, NativeRefresh, Bar, vars, ui
  <1> QED BY <1>2, <1>3, <1>4, <1>5, <1>6, <1>7, <1>8 DEF Next

(***************************************************************************)
(* Requests.                                                               *)
(***************************************************************************)
\* A post that stands for another one: of the same tap and sender, live at most
\* when that one was.
Like(q, p) ==
  /\ q.by = p.by /\ q.tap = p.tap /\ q.account = p.account
  /\ q.live => p.live

LEMMA ExceptServer ==
  ASSUME NEW p \in Post, NEW s \in {"sent", "checked", "recorded", "refused", "never"},
         NEW d, d = [p EXCEPT !.server = s]
  PROVE  d \in Post /\ Like(d, p) /\ d.server = s
  BY DEF Post, Like

LEMMA ExceptLive ==
  ASSUME NEW p \in Post, NEW l \in BOOLEAN, l => p.live, NEW d, d = [p EXCEPT !.live = l]
  PROVE  d \in Post /\ Like(d, p) /\ d.server = p.server
  BY DEF Post, Like

LEMMA ExceptLost ==
  ASSUME NEW p \in Post, NEW d, d = [p EXCEPT !.lost = TRUE]
  PROVE  d \in Post /\ Like(d, p) /\ d.server = p.server
  BY DEF Post, Like

LEMMA PostedOK ==
  ASSUME Typed, NEW by \in Flushes \cup {Submitter}, NEW tap \in Taps, NEW kind \in Modes
  PROVE  LET p == PostCheckin(by, tap, kind)
         IN /\ p \in Post /\ p.by = by /\ p.tap = tap /\ p.live
            /\ p.server \in {"sent", "never"}
  <1>1. tap \in 0..MaxTaps /\ account \in People \cup {None} /\ online \in BOOLEAN
    BY CheckinAssumption DEF Taps, Typed, TypeOK
  <1> QED BY <1>1 DEF PostCheckin, Post


\* What a step may do to the requests: answer them, forget them, move them on
\* at the server, and send new ones.
PostsMove(sent) ==
  \A q \in posts' :
    \/ \E p \in posts : Like(q, p) /\ q.server = p.server /\ q \in Post
    \/ \E p \in posts : /\ Like(q, p) /\ q \in Post
                        /\ q.server = "checked" => q.account \in People
                        /\ q.server = "recorded" =>
                             [tap |-> q.tap, person |-> q.account] \in credited'
    \/ q \in sent

LEMMA PostsTyped ==
  ASSUME Typed, NEW sent \in SUBSET Post, PostsMove(sent),
         \A q \in sent : q.server \in {"sent", "never"}
  PROVE  posts' \subseteq Post /\ CheckedForPeople'
  <1>1. posts' \subseteq Post
    BY DEF PostsMove
  <1>2. ASSUME NEW q \in posts', q.server = "checked"
        PROVE  q.account \in People
    BY <1>2 DEF PostsMove, Typed, CheckedForPeople, Like
  <1> QED BY <1>1, <1>2 DEF CheckedForPeople

LEMMA WithoutMoves ==
  ASSUME Typed, NEW p \in posts, posts' = Without(p)
  PROVE  PostsMove({})
  <1>1. p \in Post /\ posts \subseteq Post
    BY DEF Typed, TypeOK
  <1> DEFINE d == [p EXCEPT !.live = FALSE]
  <1>2. d \in Post /\ Like(d, p) /\ d.server = p.server
    BY <1>1, ExceptLive
  <1>3. \A q \in posts' : q \in posts \/ q = d
    BY DEF Without
  <1>4. \A q \in posts : Like(q, q)
    BY DEF Like
  <1> QED BY <1>1, <1>2, <1>3, <1>4 DEF PostsMove

LEMMA BecomesMoves ==
  ASSUME Typed, NEW p \in posts,
         NEW s \in {"sent", "checked", "recorded", "refused", "never"}, Becomes(p, s),
         s = "checked" => p.account \in People,
         s = "recorded" => [tap |-> p.tap, person |-> p.account] \in credited'
  PROVE  PostsMove({})
  <1>1. p \in Post /\ posts \subseteq Post
    BY DEF Typed, TypeOK
  <1> DEFINE d == [p EXCEPT !.server = s]
  <1>2. d \in Post /\ Like(d, p) /\ d.server = s
    BY <1>1, ExceptServer
  <1>3. d.account = p.account /\ d.tap = p.tap
    BY <1>2 DEF Like
  <1>4. \A q \in posts' : q \in posts \/ q = d
    BY DEF Becomes
  <1>5. \A q \in posts : Like(q, q)
    BY DEF Like
  <1> QED BY <1>1, <1>2, <1>3, <1>4, <1>5 DEF PostsMove

LEMMA KeptMoves ==
  ASSUME Typed, posts' \subseteq posts
  PROVE  PostsMove({})
  <1>1. \A q \in posts : Like(q, q) /\ q \in Post
    BY DEF Like, Typed, TypeOK
  <1> QED BY <1>1 DEF PostsMove

\* Every step moves the requests so; the flushes and the submissions that send
\* are told apart below.
LEMMA NextMoves ==
  ASSUME Typed, [Next]_vars
  PROVE  \/ PostsMove({})
         \/ \E f \in Flushes : PostNext(f)
         \/ \E s \in submits : Locate(s)
         \/ \E mode \in Modes : NativePress(mode)
  <1>0. posts \subseteq Post
    BY DEF Typed, TypeOK
  <1>1. CASE posts' = posts
    BY <1>1, KeptMoves
  <1>2. CASE CloseTab
    <2> DEFINE d(p) == [p EXCEPT !.live = p.live /\ p.by = Native]
    <2>1. \A p \in posts : d(p) \in Post /\ Like(d(p), p) /\ d(p).server = p.server
      <3> TAKE p \in posts
      <3>1. p \in Post
        BY <1>0
      <3>2. (p.live /\ p.by = Native) \in BOOLEAN /\ (p.live /\ p.by = Native => p.live)
        OBVIOUS
      <3> QED BY <3>1, <3>2, ExceptLive
    <2>2. \A q \in posts' : \E p \in posts : q = d(p)
      BY <1>2 DEF CloseTab
    <2> HIDE DEF d
    <2> QED BY <2>1, <2>2 DEF PostsMove
  <1>3. CASE \E p \in posts : Answer(p)
    <2>1. PICK p \in posts : Answer(p)
      BY <1>3
    <2>2. posts' = Without(p)
      BY <2>1 DEF Answer, Submitted, FlushAnswered, NativeAnswered
    <2> QED BY <2>2, WithoutMoves
  <1>4. CASE \E p \in posts : Check(p)
    <2>1. PICK p \in posts : Check(p)
      BY <1>4
    <2>2. PICK s \in {"checked", "refused"} : Becomes(p, s) /\ (s = "checked" => Accepts(p))
      BY <2>1 DEF Check
    <2>3. Accepts(p) => p.account \in People
      BY <1>0 DEF Accepts, Post
    <2> QED BY <2>2, <2>3, BecomesMoves
  <1>5. CASE \E p \in posts : Insert(p)
    <2>1. PICK p \in posts : Insert(p)
      BY <1>5
    <2>2. [tap |-> p.tap, person |-> p.account] \in credited'
      BY <2>1 DEF Insert
    <2>3. CASE p.live
      <3>1. Becomes(p, "recorded")
        BY <2>1, <2>3 DEF Insert
      <3> QED BY <2>2, <3>1, BecomesMoves
    <2>4. CASE ~p.live
      BY <2>1, <2>4, KeptMoves DEF Insert
    <2> QED BY <2>3, <2>4
  <1>6. CASE \E p \in posts : Refuse(p)
    <2>1. PICK p \in posts : Becomes(p, "refused")
      BY <1>6 DEF Refuse
    <2> QED BY <2>1, BecomesMoves
  <1>7. CASE \E p \in posts : LosePost(p)
    <2>1. PICK p \in posts : posts' = (posts \ {p}) \cup {[p EXCEPT !.lost = TRUE]}
      BY <1>7 DEF LosePost
    <2> DEFINE d == [p EXCEPT !.lost = TRUE]
    <2>2. d \in Post /\ Like(d, p) /\ d.server = p.server
      BY <1>0, ExceptLost
    <2>3. \A q \in posts' : q \in posts \/ q = d
      BY <2>1
    <2>4. \A q \in posts : Like(q, q) /\ q \in Post
      BY <1>0 DEF Like
    <2> HIDE DEF d
    <2> QED BY <2>2, <2>3, <2>4 DEF PostsMove
  <1>8. CASE \/ OpenApp \/ LogOut \/ LeavePage \/ Return \/ RefreshToday
             \/ \E p \in People : LoginPage(p)
             \/ \E mode \in Modes : PressButton(mode)
             \/ Snap \/ Retake \/ CameraRefused \/ CancelCapture \/ HandleCaptured
             \/ \E f \in Flushes : StartFlush(f)
             \/ GoOffline \/ ComeOnline \/ NativeRefresh \/ Bar \/ UNCHANGED vars
    BY <1>1, <1>8 DEF OpenApp, LogOut, LeavePage, Return, RefreshToday, LoginPage, PressButton,
         Snap, Retake, Look, CameraRefused, CancelCapture, HandleCaptured, StartFlush, GoOffline,
         ComeOnline, NativeRefresh, Bar, vars
  <1> QED BY <1>2, <1>3, <1>4, <1>5, <1>6, <1>7, <1>8 DEF Next, Serve

\* One request is sent.
Sends(p) == PostsMove({p}) /\ p \in Post /\ p.live /\ p.server \in {"sent", "never"}

LEMMA SendMoves ==
  ASSUME Typed, NEW p \in Post, p.live, p.server \in {"sent", "never"}, posts' = posts \cup {p}
  PROVE  Sends(p)
  <1>1. \A q \in posts : Like(q, q) /\ q \in Post
    BY DEF Like, Typed, TypeOK
  <1> QED BY <1>1 DEF Sends, PostsMove

LEMMA LocateSends ==
  ASSUME Typed, NEW s \in submits, Locate(s)
  PROVE  \E p : Sends(p) /\ p.by = Submitter
  <1>1. s.tap \in Taps /\ s.mode \in Modes
    BY DEF Typed, TypeOK, Submission
  <1> DEFINE p == PostCheckin(Submitter, s.tap, s.mode)
  <1>2. p \in Post /\ p.by = Submitter /\ p.live /\ p.server \in {"sent", "never"}
    BY <1>1, PostedOK
  <1>3. posts' = posts \cup {p}
    BY DEF Locate
  <1> HIDE DEF p
  <1> QED BY <1>2, <1>3, SendMoves

LEMMA PostNextSends ==
  ASSUME Typed, NEW f \in Flushes, PostNext(f)
  PROVE  \E row \in QueuedCheckin : \E p :
           /\ Sends(p) /\ p.by = f /\ p.tap = row.tap
           /\ flushes[f] # None /\ flushes[f].posting = None
           /\ flushes' = [flushes EXCEPT ![f].posting = row]
  <1>1. flushes[f] # None /\ flushes[f].posting = None /\ flushes[f] \in Flush
    BY DEF PostNext, Typed, TypeOK
  <1>2. PICK row \in flushes[f].rows :
          /\ flushes' = [flushes EXCEPT ![f].posting = row]
          /\ posts' = posts \cup {PostCheckin(f, row.tap, row.kind)}
    BY DEF PostNext
  <1>3. row \in QueuedCheckin /\ row.tap \in Taps /\ row.kind \in Modes
    BY <1>1 DEF Flush, QueuedCheckin
  <1> DEFINE p == PostCheckin(f, row.tap, row.kind)
  <1>4. p \in Post /\ p.by = f /\ p.tap = row.tap /\ p.live /\ p.server \in {"sent", "never"}
    BY <1>3, PostedOK
  <1>5. posts' = posts \cup {p}
    BY <1>2
  <1> HIDE DEF p
  <1>6. Sends(p)
    BY <1>4, <1>5, SendMoves
  <1> QED BY <1>1, <1>2, <1>3, <1>4, <1>6

LEMMA NativeSends ==
  ASSUME Typed, NEW mode \in Modes, NativePress(mode)
  PROVE  \E p : Sends(p) /\ p.by = Native
  <1> DEFINE p == [by |-> Native, tap |-> 0, kind |-> mode, account |-> Owner,
                   live |-> TRUE, lost |-> FALSE, server |-> "sent"]
  <1>2. p \in Post /\ p.by = Native /\ p.live /\ p.server \in {"sent", "never"}
    <2>1. Owner \in People /\ 0 \in 0..MaxTaps
      BY CheckinAssumption
    <2> QED BY <2>1 DEF Post
  <1>3. posts' = posts \cup {p}
    BY DEF NativePress
  <1> HIDE DEF p
  <1> QED BY <1>2, <1>3, SendMoves

LEMMA PostTypesStep == Typed /\ [Next]_vars => posts' \subseteq Post /\ CheckedForPeople'
  <1> SUFFICES ASSUME Typed, [Next]_vars PROVE posts' \subseteq Post /\ CheckedForPeople'
    OBVIOUS
  <1>1. CASE PostsMove({})
    BY <1>1, PostsTyped
  <1>2. ASSUME NEW p, Sends(p) PROVE posts' \subseteq Post /\ CheckedForPeople'
    <2>1. {p} \in SUBSET Post /\ \A q \in {p} : q.server \in {"sent", "never"}
      BY <1>2 DEF Sends
    <2> QED BY <1>2, <2>1, PostsTyped DEF Sends
  <1> QED BY <1>1, <1>2, NextMoves, LocateSends, PostNextSends, NativeSends

(***************************************************************************)
(* The rest of the types.                                                  *)
(***************************************************************************)
WorkTypes ==
  /\ submits \subseteq Submission
  /\ queue \subseteq QueuedCheckin
  /\ \A f \in Flushes : flushes[f] = None \/ flushes[f] \in Flush
  /\ DOMAIN flushes = Flushes
  /\ stashed \subseteq Taps

LEMMA BumpTyped ==
  ASSUME queue \subseteq QueuedCheckin, NEW row
  PROVE  /\ BumpAttempt(row) \subseteq QueuedCheckin
         /\ {q.tap : q \in BumpAttempt(row)} = {q.tap : q \in queue}
  <1> DEFINE b(q) == IF q.tap = row.tap THEN [q EXCEPT !.tried = TRUE] ELSE q
  <1>1. ASSUME NEW q \in queue PROVE b(q) \in QueuedCheckin /\ b(q).tap = q.tap
    <2>1. q \in QueuedCheckin
      OBVIOUS
    <2>2. [q EXCEPT !.tried = TRUE] \in QueuedCheckin /\ [q EXCEPT !.tried = TRUE].tap = q.tap
      BY <2>1 DEF QueuedCheckin
    <2> QED BY <2>1, <2>2
  <1>2. BumpAttempt(row) = {b(q) : q \in queue}
    BY DEF BumpAttempt
  <1> HIDE DEF b
  <1> QED BY <1>1, <1>2

LEMMA WorkKept ==
  ASSUME Typed, submits' \subseteq submits, UNCHANGED <<queue, flushes, stashed>>
  PROVE  WorkTypes'
  BY DEF Typed, TypeOK, WorkTypes

LEMMA WorkTypesStep == Typed /\ [Next]_vars => WorkTypes'
  <1> SUFFICES ASSUME Typed, [Next]_vars PROVE WorkTypes'
    OBVIOUS
  <1>0. WorkTypes /\ TapTypes
    BY DEF Typed, TypeOK, WorkTypes, TapTypes
  <1>a. ASSUME NEW f \in Flushes, FlushQueue(f)
        PROVE  /\ \A g \in Flushes : flushes'[g] = None \/ flushes'[g] \in Flush
               /\ DOMAIN flushes' = Flushes
    <2>1. [rows |-> queue, posting |-> None] \in Flush
      BY <1>0 DEF WorkTypes, Flush
    <2>2. flushes' = [flushes EXCEPT ![f] = [rows |-> queue, posting |-> None]]
      BY <1>a DEF FlushQueue
    <2> HIDE DEF Flush
    <2> QED BY <1>0, <2>1, <2>2 DEF WorkTypes
  <1>1. CASE CloseTab
    BY <1>0, <1>1 DEF CloseTab, WorkTypes
  <1>2. CASE LeavePage
    BY <1>0, <1>2 DEF LeavePage, WorkTypes, Submission
  <1>3. CASE HandleCaptured
    <2>1. capture # None /\ Len(tapped) < MaxTaps
      BY <1>0, <1>3 DEF HandleCaptured, SelfieCapture, TapTypes, SignedIn
    <2>2. Len(tapped) + 1 \in Taps /\ capture.mode \in Modes
      BY <1>0, <2>1, CheckinAssumption DEF TapTypes, Taps
    <2>3. submits' = submits \cup
            {[tap |-> Len(tapped) + 1, mode |-> capture.mode, watched |-> TRUE,
              phase |-> IF online THEN "locating" ELSE "paused"]}
          /\ UNCHANGED <<queue, flushes, stashed>>
      BY <1>3 DEF HandleCaptured
    <2>4. PICK s : s \in Submission /\ submits' = submits \cup {s}
      <3>1. \A phase \in {"paused", "locating", "posting"} :
              [tap |-> Len(tapped) + 1, mode |-> capture.mode, watched |-> TRUE, phase |-> phase]
                \in Submission
        BY <2>2 DEF Submission
      <3> QED BY <2>3, <3>1
    <2> QED BY <1>0, <2>3, <2>4 DEF WorkTypes
  <1>4. CASE \E s \in submits : Locate(s)
    <2>1. PICK s \in submits : /\ submits' = (submits \ {s}) \cup {[s EXCEPT !.phase = "posting"]}
                               /\ UNCHANGED <<queue, flushes, stashed>>
      BY <1>4 DEF Locate
    <2>2. [s EXCEPT !.phase = "posting"] \in Submission
      BY <1>0 DEF WorkTypes, Submission
    <2> QED BY <1>0, <2>1, <2>2 DEF WorkTypes
  <1>5. CASE \E s \in submits, p \in posts : Submitted(s, p)
    <2>1. PICK s \in submits, p \in posts : Submitted(s, p)
      BY <1>5
    <2>2. s.tap \in Taps /\ [tap |-> s.tap, kind |-> s.mode, tried |-> FALSE] \in QueuedCheckin
      BY <1>0 DEF WorkTypes, Submission, QueuedCheckin
    <2>3. submits' \subseteq submits /\ flushes' = flushes
          /\ (EnqueueCheckin(s) \/ UNCHANGED <<queue, stashed>>)
      BY <2>1 DEF Submitted
    <2> HIDE DEF QueuedCheckin, Taps
    <2> QED BY <1>0, <2>2, <2>3 DEF WorkTypes, EnqueueCheckin
  <1>6. CASE \E f \in Flushes : StartFlush(f)
    BY <1>0, <1>6, <1>a DEF StartFlush, WorkTypes
  <1>7. CASE \E f \in Flushes : PostNext(f)
    <2>1. PICK f \in Flushes, row \in QueuedCheckin :
            flushes[f] # None /\ flushes' = [flushes EXCEPT ![f].posting = row]
      BY <1>7, PostNextSends
    <2>2. flushes[f] \in Flush
      BY <1>0, <2>1 DEF WorkTypes
    <2>3. [flushes[f] EXCEPT !.posting = row] \in Flush
      BY <2>2 DEF Flush
    <2>4. UNCHANGED <<submits, queue, stashed>>
      BY <1>7 DEF PostNext
    <2>5. /\ DOMAIN flushes' = Flushes
          /\ \A g \in Flushes : flushes'[g] = IF g = f THEN [flushes[f] EXCEPT !.posting = row]
                                             ELSE flushes[g]
      BY <1>0, <2>1 DEF WorkTypes
    <2> QED BY <1>0, <2>3, <2>4, <2>5 DEF WorkTypes
  <1>8. CASE \E f \in Flushes, p \in posts : FlushAnswered(f, p)
    <2>1. PICK f \in Flushes, p \in posts : FlushAnswered(f, p)
      BY <1>8
    <2> DEFINE row == flushes[f].posting
    <2>2. flushes[f] \in Flush /\ UNCHANGED <<submits, stashed>>
      BY <1>0, <2>1 DEF WorkTypes, FlushAnswered
    <2>3. [rows |-> RowsLeft(f, p), posting |-> None] \in Flush
      BY <2>2 DEF Flush, RowsLeft
    <2>4. /\ DOMAIN flushes' = Flushes
          /\ \A g \in Flushes : flushes'[g] = None \/ flushes'[g] \in Flush
      BY <1>0, <2>1, <2>3 DEF WorkTypes, FlushAnswered
    <2>5. queue' \in {Dequeue(row), BumpAttempt(row)}
      BY <2>1 DEF FlushAnswered, AfterPost
    <2>6. queue' \subseteq QueuedCheckin
      BY <1>0, <2>5, BumpTyped DEF WorkTypes, Dequeue
    <2> QED BY <1>0, <2>2, <2>4, <2>6 DEF WorkTypes
  <1>9. CASE ComeOnline
    <2>1. /\ UNCHANGED <<queue, stashed>>
          /\ submits' = {[s EXCEPT !.phase = IF @ = "paused" THEN "locating" ELSE @] : s \in submits}
          /\ (\E f \in Flushes : FlushQueue(f)) \/ UNCHANGED flushes
      BY <1>9 DEF ComeOnline
    <2>2. submits' \subseteq Submission
      BY <1>0, <2>1 DEF WorkTypes, Submission
    <2> QED BY <1>0, <1>a, <2>1, <2>2 DEF WorkTypes
  <1>10. CASE \/ OpenApp \/ LogOut \/ Return \/ RefreshToday
              \/ \E p \in People : LoginPage(p)
              \/ \E mode \in Modes : PressButton(mode) \/ NativePress(mode)
              \/ Snap \/ Retake \/ CameraRefused \/ CancelCapture
              \/ \E p \in posts : Serve(p) \/ NativeAnswered(p) \/ Refuse(p) \/ LosePost(p)
              \/ GoOffline \/ NativeRefresh \/ Bar \/ UNCHANGED vars
    BY <1>10, WorkKept DEF OpenApp, LogOut, Return, RefreshToday, LoginPage, PressButton,
         NativePress, Snap, Retake, Look, CameraRefused, CancelCapture, Serve, Check, Insert,
         NativeAnswered, Refuse, LosePost, GoOffline, NativeRefresh, Bar, vars, work
  <1> QED BY <1>1, <1>2, <1>3, <1>4, <1>5, <1>6, <1>7, <1>8, <1>9, <1>10 DEF Next, Answer

ServerTypes ==
  /\ shown \in TodayStatus \cup {None}
  /\ online \in BOOLEAN /\ native \in BOOLEAN /\ barred \in BOOLEAN
  /\ last \in [People -> Modes \cup {None}]
  /\ credited \subseteq [tap: 0..MaxTaps, person: People]
  /\ events \in 0..MaxEvents

LEMMA ServerTypesStep == Typed /\ [Next]_vars => ServerTypes'
  <1> SUFFICES ASSUME Typed, [Next]_vars PROVE ServerTypes'
    OBVIOUS
  <1>0. ServerTypes /\ account \in People \cup {None} /\ SignedIn /\ posts \subseteq Post
    BY DEF Typed, TypeOK, ServerTypes
  <1>a. Disturb => events' \in 0..MaxEvents
    BY <1>0, CheckinAssumption DEF Disturb, ServerTypes
  <1>1. CASE UNCHANGED <<shown, online, native, barred, last, credited>> /\ (Disturb \/ events' = events)
    BY <1>0, <1>1, <1>a DEF ServerTypes
  <1>2. CASE CloseTab
    BY <1>0, <1>2, <1>a DEF CloseTab, ServerTypes, server
  <1>3. CASE RefreshToday
    <2>1. account \in People
      BY <1>0, <1>3 DEF RefreshToday, SignedIn
    <2>2. Snapshot(account) \in TodayStatus
      BY <1>0, <2>1 DEF Snapshot, TodayStatus, ServerTypes
    <2>3. shown' = Snapshot(account) /\ UNCHANGED <<online, native, barred, last, credited, events>>
      BY <1>3 DEF RefreshToday, server
    <2> QED BY <1>0, <2>2, <2>3 DEF ServerTypes
  <1>4. CASE GoOffline \/ ComeOnline \/ NativeRefresh \/ Bar
    BY <1>0, <1>4, <1>a DEF GoOffline, ComeOnline, NativeRefresh, Bar, ServerTypes, ui, server
  <1>5. CASE \E p \in posts : Insert(p)
    <2>1. PICK p \in posts : Insert(p)
      BY <1>5
    <2>2. p \in Post /\ p.account \in People /\ p.kind \in Modes /\ p.tap \in 0..MaxTaps
      <3>1. p \in Post /\ p.account \in People
        BY <1>0, <2>1 DEF Insert, Typed, CheckedForPeople
      <3> QED BY <3>1 DEF Post
    <2>3. /\ last' = [last EXCEPT ![p.account] = p.kind]
          /\ credited' = credited \cup {[tap |-> p.tap, person |-> p.account]}
          /\ UNCHANGED <<shown, online, native, barred, events>>
      BY <2>1 DEF Insert, ui
    <2> QED BY <1>0, <2>2, <2>3 DEF ServerTypes
  <1>6. CASE \/ OpenApp \/ LogOut \/ LeavePage \/ Return
             \/ \E p \in People : LoginPage(p)
             \/ \E mode \in Modes : PressButton(mode) \/ NativePress(mode)
             \/ Snap \/ Retake \/ CameraRefused \/ CancelCapture \/ HandleCaptured
             \/ \E s \in submits : Locate(s)
             \/ \E f \in Flushes : StartFlush(f) \/ PostNext(f)
             \/ \E p \in posts : Check(p) \/ Answer(p) \/ Refuse(p) \/ LosePost(p)
             \/ UNCHANGED vars
    BY <1>1, <1>6 DEF OpenApp, LogOut, LeavePage, Return, LoginPage, PressButton, NativePress,
         Snap, Retake, Look, CameraRefused, CancelCapture, HandleCaptured, Locate, StartFlush,
         PostNext, Check, Answer, Submitted, FlushAnswered, NativeAnswered, Refuse, LosePost,
         vars, ui, server
  <1> QED BY <1>2, <1>3, <1>4, <1>5, <1>6 DEF Next, Serve

LEMMA TypedStep == Typed /\ [Next]_vars => Typed'
  BY TapTypesStep, PostTypesStep, WorkTypesStep, ServerTypesStep
  DEF Typed, TypeOK, TapTypes, WorkTypes, ServerTypes

(* Every reachable state is well typed: the server records selfies for      *)
(* people only, whoever shares the browser.                                 *)
THEOREM TypeCorrect == Spec => []TypeOK
  <1>1. Typed => TypeOK
    BY DEF Typed
  <1> QED BY <1>1, TypedInit, TypedStep, PTL DEF Spec

(***************************************************************************)
(* The queue.  A row leaves it on the answer of a post of its own tap,      *)
(* because a flush has one post on its way at a time.                       *)
(***************************************************************************)
LivePosts(f) == {p \in posts : p.by = f /\ p.live}

OnePostPerFlush ==
  \A f \in Flushes : \A p \in LivePosts(f) :
    /\ flushes[f] # None /\ flushes[f].posting # None /\ p.tap = flushes[f].posting.tap
    /\ LivePosts(f) = {p}

RecordedIsCredited ==
  \A p \in posts : p.server = "recorded" => \E c \in credited : c.tap = p.tap

\* A selfie is submitted once, and promised when its submission is over.
SubmittedOnce ==
  /\ \A s \in submits : s.tap \in 1..Len(tapped) /\ s.tap \notin stashed
  /\ \A s, r \in submits : s.tap = r.tap => s = r
  /\ stashed \subseteq 1..Len(tapped)

QueueInv == Typed /\ OnePostPerFlush /\ RecordedIsCredited /\ SubmittedOnce /\ NothingForgotten

LEMMA QueueInit == Init => QueueInv
  BY TypedInit DEF Init, QueueInv, LivePosts, OnePostPerFlush, RecordedIsCredited, SubmittedOnce,
     NothingForgotten

LEMMA CreditsGrow == [Next]_vars => credited \subseteq credited'
  BY DEF Next, vars, OpenApp, CloseTab, LogOut, LeavePage, Return, RefreshToday, LoginPage,
     PressButton, NativePress, Snap, Retake, Look, CameraRefused, CancelCapture, HandleCaptured,
     Locate, StartFlush, PostNext, Serve, Check, Insert, Answer, Submitted, FlushAnswered,
     NativeAnswered, Refuse, LosePost, GoOffline, ComeOnline, NativeRefresh, Bar, server

LEMMA RecordedStep ==
  ASSUME QueueInv, [Next]_vars
  PROVE  RecordedIsCredited'
  <1>0. Typed /\ RecordedIsCredited
    BY DEF QueueInv
  <1>a. ASSUME NEW sent, PostsMove(sent), NEW q \in posts', q \notin sent, q.server = "recorded"
        PROVE  \E c \in credited' : c.tap = q.tap
    <2>1. CASE \E p \in posts : Like(q, p) /\ q.server = p.server
      BY <1>0, <1>a, <2>1, CreditsGrow DEF RecordedIsCredited, Like
    <2>2. CASE [tap |-> q.tap, person |-> q.account] \in credited'
      BY <2>2
    <2> QED BY <1>a, <2>1, <2>2 DEF PostsMove
  <1>1. CASE PostsMove({})
    BY <1>1, <1>a DEF RecordedIsCredited
  <1>2. ASSUME NEW p, Sends(p) PROVE RecordedIsCredited'
    BY <1>2, <1>a DEF Sends, RecordedIsCredited
  <1> QED BY <1>0, <1>1, <1>2, NextMoves, LocateSends, PostNextSends, NativeSends

\* At most one request is answered, or moves on.
Replaced ==
  \/ posts' \subseteq posts
  \/ \E p \in posts : \E d : posts' \subseteq (posts \ {p}) \cup {d} /\ Like(d, p)

OnePost(f) ==
  \A p \in LivePosts(f) :
    /\ flushes[f] # None /\ flushes[f].posting # None /\ p.tap = flushes[f].posting.tap
    /\ LivePosts(f) = {p}

\* The flush a post belongs to goes on with it until the post is answered.
LEMMA OnePostKept ==
  ASSUME QueueInv, Replaced, NEW f \in Flushes, flushes'[f] = flushes[f] \/ flushes[f] = None
  PROVE  OnePost(f)'
  <1>0. OnePost(f)
    BY DEF QueueInv, OnePostPerFlush, OnePost
  <1>1. CASE posts' \subseteq posts
    BY <1>0, <1>1 DEF OnePost, LivePosts
  <1>2. CASE \E p \in posts : \E d : posts' \subseteq (posts \ {p}) \cup {d} /\ Like(d, p)
    <2>0. PICK p \in posts : \E d : posts' \subseteq (posts \ {p}) \cup {d} /\ Like(d, p)
      BY <1>2
    <2>1. PICK d : posts' \subseteq (posts \ {p}) \cup {d} /\ Like(d, p)
      BY <2>0
    <2>2. CASE d \in LivePosts(f)'
      <3>1. p \in LivePosts(f) /\ d.tap = p.tap
        BY <2>1, <2>2 DEF LivePosts, Like
      <3>2. LivePosts(f)' = {d}
        BY <1>0, <2>1, <2>2, <3>1 DEF OnePost, LivePosts
      <3> QED BY <1>0, <3>1, <3>2 DEF OnePost
    <2>3. CASE d \notin LivePosts(f)'
      <3>1. LivePosts(f)' \subseteq LivePosts(f)
        BY <2>1, <2>3 DEF LivePosts
      <3> QED BY <1>0, <3>1 DEF OnePost
    <2> QED BY <2>2, <2>3
  <1> QED BY <1>1, <1>2 DEF Replaced

LEMMA AnswerReplaces ==
  ASSUME Typed, NEW p \in posts, posts' = Without(p)
  PROVE  Replaced /\ \A q \in posts' : q.live => q \in posts \ {p}
  <1> DEFINE d == [p EXCEPT !.live = FALSE]
  <1>1. Like(d, p) /\ ~d.live
    <2>1. p \in Post
      BY DEF Typed, TypeOK
    <2> QED BY <2>1 DEF Post, Like
  <1>2. posts' \subseteq (posts \ {p}) \cup {d}
    BY DEF Without
  <1> HIDE DEF d
  <1> QED BY <1>1, <1>2 DEF Replaced

LEMMA OnePostStep ==
  ASSUME QueueInv, [Next]_vars
  PROVE  OnePostPerFlush'
  <1> SUFFICES ASSUME NEW f \in Flushes PROVE OnePost(f)'
    BY DEF OnePostPerFlush, OnePost
  <1>0. Typed /\ posts \subseteq Post /\ OnePost(f) /\ DOMAIN flushes = Flushes
    BY DEF QueueInv, Typed, TypeOK, OnePostPerFlush, OnePost
  <1>1. CASE CloseTab
    <2>1. \A q \in posts' : q.live => q.by = Native
      <3>1. \A p \in posts : [p EXCEPT !.live = p.live /\ p.by = Native].live = (p.live /\ p.by = Native)
                             /\ [p EXCEPT !.live = p.live /\ p.by = Native].by = p.by
        BY <1>0 DEF Post
      <3> QED BY <1>1, <3>1 DEF CloseTab
    <2> QED BY <2>1, CheckinAssumption DEF OnePost, LivePosts
  <1>2. CASE \E g \in Flushes : PostNext(g)
    <2>1. PICK g \in Flushes : PostNext(g)
      BY <1>2
    <2>2. PICK row \in QueuedCheckin : /\ flushes[g] # None /\ flushes[g].posting = None
                                       /\ flushes' = [flushes EXCEPT ![g].posting = row]
                                       /\ posts' = posts \cup {PostCheckin(g, row.tap, row.kind)}
      <3>1. flushes[g] \in Flush
        BY <2>1, <1>0 DEF PostNext, Typed, TypeOK
      <3> QED BY <2>1, <3>1 DEF PostNext, Flush
    <2> DEFINE p == PostCheckin(g, row.tap, row.kind)
    <2>3. p.by = g /\ p.tap = row.tap
      BY DEF PostCheckin
    <2>4. CASE f = g
      <3>1. LivePosts(f) = {}
        BY <1>0, <2>2, <2>4 DEF OnePost
      <3>2. LivePosts(f)' \subseteq {p}
        BY <2>2, <3>1 DEF LivePosts
      <3>3. /\ flushes'[f] = [flushes[f] EXCEPT !.posting = row]
            /\ flushes[f] \in Flush
        BY <1>0, <2>2, <2>4 DEF Typed, TypeOK
      <3>4. flushes'[f] \in Flush /\ flushes'[f].posting = row
        BY <3>3 DEF Flush
      <3>5. flushes'[f] # None /\ row # None
        BY <3>4, NoneAssumption
      <3> QED BY <2>3, <3>2, <3>4, <3>5 DEF OnePost
    <2>5. CASE f # g
      <3>1. LivePosts(f)' = LivePosts(f)
        BY <2>2, <2>3, <2>5 DEF LivePosts
      <3>2. flushes'[f] = flushes[f]
        BY <1>0, <2>2, <2>5
      <3> QED BY <1>0, <3>1, <3>2 DEF OnePost
    <2> QED BY <2>4, <2>5
  <1>3. CASE \E g \in Flushes, p \in posts : FlushAnswered(g, p)
    <2>1. PICK g \in Flushes, p \in posts : FlushAnswered(g, p)
      BY <1>3
    <2>2. p.by = g /\ p.live /\ posts' = Without(p)
      BY <2>1 DEF FlushAnswered, Answered
    <2>3. CASE f = g
      <3>1. LivePosts(f) = {p}
        BY <1>0, <2>2, <2>3 DEF OnePost, LivePosts
      <3>2. LivePosts(f)' = {}
        BY <1>0, <2>2, <3>1, AnswerReplaces DEF LivePosts
      <3> QED BY <3>2 DEF OnePost
    <2>4. CASE f # g
      <3>1. flushes'[f] = flushes[f]
        BY <1>0, <2>1, <2>4 DEF FlushAnswered
      <3> QED BY <1>0, <2>2, <3>1, AnswerReplaces, OnePostKept
    <2> QED BY <2>3, <2>4
  <1>4. CASE \/ \E s \in submits : Locate(s)
             \/ \E mode \in Modes : NativePress(mode)
    <2>1. \E p : posts' = posts \cup {p} /\ p.by \notin Flushes /\ flushes' = flushes
      <3>1. CASE \E s \in submits : Locate(s)
        <4>1. PICK s \in submits : /\ posts' = posts \cup {PostCheckin(Submitter, s.tap, s.mode)}
                                  /\ flushes' = flushes
          BY <3>1 DEF Locate
        <4>2. PostCheckin(Submitter, s.tap, s.mode).by = Submitter
          BY DEF PostCheckin
        <4> QED BY <4>1, <4>2, CheckinAssumption
      <3>2. CASE \E mode \in Modes : NativePress(mode)
        <4>1. PICK mode \in Modes : NativePress(mode)
          BY <3>2
        <4> DEFINE p == [by |-> Native, tap |-> 0, kind |-> mode, account |-> Owner,
                         live |-> TRUE, lost |-> FALSE, server |-> "sent"]
        <4>2. posts' = posts \cup {p} /\ flushes' = flushes
          BY <4>1 DEF NativePress, work
        <4>3. p.by = Native
          OBVIOUS
        <4> QED BY <4>2, <4>3, CheckinAssumption
      <3> QED BY <1>4, <3>1, <3>2
    <2>2. LivePosts(f)' = LivePosts(f)
      BY <2>1 DEF LivePosts
    <2> QED BY <1>0, <2>1, <2>2 DEF OnePost
  <1>5. CASE \E p \in posts : (\E s \in submits : Submitted(s, p)) \/ NativeAnswered(p)
    <2>1. PICK p \in posts : posts' = Without(p) /\ flushes' = flushes
      BY <1>5 DEF Submitted, NativeAnswered, work
    <2> QED BY <1>0, <2>1, AnswerReplaces, OnePostKept
  <1>6. CASE \E p \in posts : Serve(p) \/ Refuse(p)
    <2>1. PICK p \in posts, s \in {"checked", "refused", "recorded"} :
            /\ posts' \subseteq (posts \ {p}) \cup {[p EXCEPT !.server = s]} /\ flushes' = flushes
      <3>1. PICK p \in posts : Check(p) \/ Insert(p) \/ Refuse(p)
        BY <1>6 DEF Serve
      <3>2. flushes' = flushes
        BY <3>1 DEF Check, Insert, Refuse, work
      <3>3. \E s \in {"checked", "refused", "recorded"} : Becomes(p, s) \/ posts' = posts \ {p}
        BY <3>1 DEF Check, Insert, Refuse
      <3> QED BY <3>2, <3>3 DEF Becomes
    <2>2. Like([p EXCEPT !.server = s], p)
      BY <1>0, ExceptServer
    <2> QED BY <2>1, <2>2, OnePostKept DEF Replaced
  <1>7. CASE \E p \in posts : LosePost(p)
    <2>1. PICK p \in posts : /\ posts' = (posts \ {p}) \cup {[p EXCEPT !.lost = TRUE]}
                             /\ flushes' = flushes
      BY <1>7 DEF LosePost, work
    <2>2. Like([p EXCEPT !.lost = TRUE], p)
      BY <1>0, ExceptLost
    <2> QED BY <2>1, <2>2, OnePostKept DEF Replaced
  <1>8. CASE posts' = posts /\ (flushes' = flushes \/ \E g \in Flushes : FlushQueue(g))
    <2>1. flushes'[f] = flushes[f] \/ flushes[f] = None
      BY <1>0, <1>8 DEF FlushQueue
    <2> QED BY <1>8, <2>1, OnePostKept DEF Replaced
  <1>9. CASE \/ OpenApp \/ LogOut \/ LeavePage \/ Return \/ RefreshToday
             \/ \E p \in People : LoginPage(p)
             \/ \E mode \in Modes : PressButton(mode)
             \/ Snap \/ Retake \/ CameraRefused \/ CancelCapture \/ HandleCaptured
             \/ \E g \in Flushes : StartFlush(g)
             \/ GoOffline \/ ComeOnline \/ NativeRefresh \/ Bar \/ UNCHANGED vars
    BY <1>8, <1>9 DEF OpenApp, LogOut, LeavePage, Return, RefreshToday, LoginPage, PressButton,
         Snap, Retake, Look, CameraRefused, CancelCapture, HandleCaptured, StartFlush, GoOffline,
         ComeOnline, NativeRefresh, Bar, vars, work
  <1> QED BY <1>1, <1>2, <1>3, <1>4, <1>5, <1>6, <1>7, <1>9 DEF Next, Answer

(***************************************************************************)
(* What was promised.                                                      *)
(***************************************************************************)
LEMMA SubmittedStep ==
  ASSUME QueueInv, [Next]_vars
  PROVE  SubmittedOnce'
  <1>0. Typed /\ Typed' /\ SubmittedOnce /\ submits \subseteq Submission /\ Len(tapped) \in Nat
    BY TypedStep DEF QueueInv, Typed, TypeOK
  <1>1. CASE HandleCaptured
    <2> DEFINE s == [tap |-> Len(tapped) + 1, mode |-> capture.mode, watched |-> TRUE,
                     phase |-> IF online THEN "locating" ELSE "paused"]
    <2>1. /\ submits' = submits \cup {s} /\ stashed' = stashed /\ s.tap = Len(tapped) + 1
          /\ tapped' = Append(tapped, [person |-> account, mode |-> capture.mode])
      BY <1>1 DEF HandleCaptured
    <2> HIDE DEF s
    <2>2. Len(tapped') = Len(tapped) + 1
      BY <1>0, <2>1 DEF Typed, TypeOK
    <2> QED BY <1>0, <2>1, <2>2 DEF SubmittedOnce
  <1>2. CASE \E s \in submits : Locate(s)
    <2>1. PICK s \in submits : /\ submits' = (submits \ {s}) \cup {[s EXCEPT !.phase = "posting"]}
                               /\ UNCHANGED <<stashed, tapped>>
      BY <1>2 DEF Locate
    <2>2. [s EXCEPT !.phase = "posting"].tap = s.tap
      BY <1>0 DEF Submission
    <2> DEFINE d == [s EXCEPT !.phase = "posting"]
    <2> HIDE DEF d
    <2>3. submits' = (submits \ {s}) \cup {d} /\ d.tap = s.tap
      BY <2>1, <2>2 DEF d
    <2> QED BY <1>0, <2>1, <2>3 DEF SubmittedOnce
  <1>3. CASE \E s \in submits, p \in posts : Submitted(s, p)
    <2>1. PICK s \in submits : /\ submits' = submits \ {s} /\ tapped' = tapped
                               /\ stashed' \subseteq stashed \cup {s.tap}
      BY <1>3 DEF Submitted, EnqueueCheckin
    <2> QED BY <1>0, <2>1 DEF SubmittedOnce
  <1>4. ASSUME NEW m, submits' = {m[s] : s \in submits}, UNCHANGED <<stashed, tapped>>,
               \A s \in submits : m[s].tap = s.tap
        PROVE  SubmittedOnce'
    <2>1. ASSUME NEW d \in submits', NEW e \in submits', d.tap = e.tap
          PROVE  d = e
      <3>1. PICK s \in submits, r \in submits : d = m[s] /\ e = m[r]
        BY <1>4
      <3>2. s.tap = r.tap
        BY <1>4, <2>1, <3>1
      <3>3. s = r
        BY <1>0, <3>2 DEF SubmittedOnce
      <3> QED BY <3>1, <3>3
    <2>2. ASSUME NEW d \in submits'
          PROVE  d.tap \in 1..Len(tapped) /\ d.tap \notin stashed
      <3>1. PICK s \in submits : d = m[s]
        BY <1>4
      <3> QED BY <1>0, <1>4, <3>1 DEF SubmittedOnce
    <2> QED BY <1>0, <1>4, <2>1, <2>2 DEF SubmittedOnce
  <1>8. CASE LeavePage
    <2> DEFINE m == [s \in submits |-> [s EXCEPT !.watched = FALSE]]
    <2>1. \A s \in submits : m[s].tap = s.tap
      BY <1>0 DEF Submission
    <2>2. submits' = {m[s] : s \in submits} /\ UNCHANGED <<stashed, tapped>>
      BY <1>8 DEF LeavePage
    <2> HIDE DEF m
    <2> QED BY <1>4, <2>1, <2>2
  <1>9. CASE ComeOnline
    <2> DEFINE m == [s \in submits |-> [s EXCEPT !.phase = IF @ = "paused" THEN "locating" ELSE @]]
    <2>1. \A s \in submits : m[s].tap = s.tap
      BY <1>0 DEF Submission
    <2>2. submits' = {m[s] : s \in submits} /\ UNCHANGED <<stashed, tapped>>
      BY <1>9 DEF ComeOnline
    <2> HIDE DEF m
    <2> QED BY <1>4, <2>1, <2>2
  <1>5. CASE CloseTab
    BY <1>0, <1>5 DEF CloseTab, SubmittedOnce
  <1>6. CASE UNCHANGED <<submits, stashed, tapped>>
    BY <1>0, <1>6 DEF SubmittedOnce
  <1>7. CASE \/ OpenApp \/ LogOut \/ Return \/ RefreshToday
             \/ \E p \in People : LoginPage(p)
             \/ \E mode \in Modes : PressButton(mode) \/ NativePress(mode)
             \/ Snap \/ Retake \/ CameraRefused \/ CancelCapture
             \/ \E f \in Flushes : StartFlush(f) \/ PostNext(f)
             \/ \E p \in posts : \/ Serve(p) \/ NativeAnswered(p) \/ Refuse(p) \/ LosePost(p)
                                 \/ \E f \in Flushes : FlushAnswered(f, p)
             \/ GoOffline \/ NativeRefresh \/ Bar \/ UNCHANGED vars
    BY <1>6, <1>7 DEF OpenApp, LogOut, Return, RefreshToday, LoginPage, PressButton, NativePress,
         Snap, Retake, Look, CameraRefused, CancelCapture, StartFlush, PostNext, Serve, Check, Insert,
         NativeAnswered, Refuse, LosePost, FlushAnswered, GoOffline, NativeRefresh, Bar, vars, work
  <1> QED BY <1>1, <1>2, <1>3, <1>5, <1>7, <1>8, <1>9 DEF Next, Answer

\* The queue only gains the selfie of a submission, and only loses one that
\* the server has a row for.
LEMMA QueueStep ==
  ASSUME QueueInv, [Next]_vars
  PROVE  \/ UNCHANGED <<queue, stashed>>
         \/ \E s \in submits : EnqueueCheckin(s)
         \/ /\ stashed' = stashed
            /\ \A q \in queue' : \E r \in queue : q.tap = r.tap
            /\ \A r \in queue : (\E q \in queue' : q.tap = r.tap) \/ (\E c \in credited' : c.tap = r.tap)
  <1>0. Typed /\ queue \subseteq QueuedCheckin
    BY DEF QueueInv, Typed, TypeOK
  <1>1. CASE \E s \in submits, p \in posts : Submitted(s, p)
    BY <1>1 DEF Submitted
  <1>2. CASE \E f \in Flushes, p \in posts : FlushAnswered(f, p)
    <2>1. PICK f \in Flushes, p \in posts : FlushAnswered(f, p)
      BY <1>2
    <2> DEFINE row == flushes[f].posting
    <2>2. stashed' = stashed /\ queue' = AfterPost(row, p)
      BY <2>1 DEF FlushAnswered
    <2>3. p.tap = row.tap
      BY <2>1 DEF FlushAnswered, Answered, QueueInv, OnePostPerFlush, LivePosts
    <2>4. CASE p.server = "recorded" /\ ~p.lost
      <3>1. queue' = Dequeue(row) /\ \E c \in credited' : c.tap = row.tap
        BY <2>2, <2>3, <2>4, CreditsGrow DEF AfterPost, QueueInv, RecordedIsCredited
      <3> QED BY <2>2, <3>1 DEF Dequeue
    <2>5. CASE ~(p.server = "recorded" /\ ~p.lost)
      <3>1. {q.tap : q \in queue'} = {q.tap : q \in queue}
        BY <1>0, <2>2, <2>5, BumpTyped DEF AfterPost
      <3> QED BY <2>2, <3>1
    <2> QED BY <2>4, <2>5
  <1>3. CASE \/ OpenApp \/ CloseTab \/ LogOut \/ LeavePage \/ Return \/ RefreshToday
             \/ \E p \in People : LoginPage(p)
             \/ \E mode \in Modes : PressButton(mode) \/ NativePress(mode)
             \/ Snap \/ Retake \/ CameraRefused \/ CancelCapture \/ HandleCaptured
             \/ \E s \in submits : Locate(s)
             \/ \E f \in Flushes : StartFlush(f) \/ PostNext(f)
             \/ \E p \in posts : Serve(p) \/ NativeAnswered(p) \/ Refuse(p) \/ LosePost(p)
             \/ GoOffline \/ ComeOnline \/ NativeRefresh \/ Bar \/ UNCHANGED vars
    BY <1>3 DEF OpenApp, CloseTab, LogOut, LeavePage, Return, RefreshToday, LoginPage, PressButton,
         NativePress, Snap, Retake, Look, CameraRefused, CancelCapture, HandleCaptured, Locate,
         StartFlush, PostNext, Serve, Check, Insert, NativeAnswered, Refuse, LosePost, GoOffline,
         ComeOnline, NativeRefresh, Bar, vars, work
  <1> QED BY <1>1, <1>2, <1>3 DEF Next, Answer

LEMMA KeptStep ==
  ASSUME QueueInv, [Next]_vars
  PROVE  /\ NothingForgotten'
         /\ \A q \in queue' : q.tap \in {r.tap : r \in queue} \/ q.tap \notin stashed
  <1>0. NothingForgotten /\ SubmittedOnce /\ credited \subseteq credited'
    BY CreditsGrow DEF QueueInv
  <1>1. CASE UNCHANGED <<queue, stashed>>
    BY <1>0, <1>1 DEF NothingForgotten
  <1>2. CASE \E s \in submits : EnqueueCheckin(s)
    <2>1. PICK s \in submits : EnqueueCheckin(s)
      BY <1>2
    <2>2. s.tap \notin stashed
      BY <1>0 DEF SubmittedOnce
    <2>3. PICK q : q.tap = s.tap /\ queue' = queue \cup {q} /\ stashed' = stashed \cup {s.tap}
      BY <2>1 DEF EnqueueCheckin
    <2> QED BY <1>0, <2>2, <2>3 DEF NothingForgotten
  <1>3. CASE /\ stashed' = stashed
             /\ \A q \in queue' : \E r \in queue : q.tap = r.tap
             /\ \A r \in queue : (\E q \in queue' : q.tap = r.tap) \/ (\E c \in credited' : c.tap = r.tap)
    BY <1>0, <1>3 DEF NothingForgotten
  <1> QED BY <1>1, <1>2, <1>3, QueueStep

LEMMA QueueInvStep == QueueInv /\ [Next]_vars => QueueInv'
  BY TypedStep, OnePostStep, RecordedStep, SubmittedStep, KeptStep DEF QueueInv

(* A check-in the page has promised to send later stays in the queue until  *)
(* the server has a row for it.                                             *)
THEOREM PromisesKept == Spec => []NothingForgotten
  <1>1. QueueInv => NothingForgotten
    BY DEF QueueInv
  <1> QED BY <1>1, QueueInit, QueueInvStep, PTL DEF Spec

(* Once out of the queue, a promised check-in is never put back.            *)
THEOREM SentOnce == Spec => NothingResurrected
  <1>1. QueueInv /\ [Next]_vars =>
          [\A q \in queue' : q.tap \in {r.tap : r \in queue} \/ q.tap \notin stashed]_vars
    BY KeptStep
  <1> QED BY <1>1, QueueInit, QueueInvStep, PTL DEF Spec, NothingResurrected
=============================================================================
