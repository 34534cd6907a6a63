------------------------------- MODULE Checkin -------------------------------
(***************************************************************************)
(* Checking in from a phone: the employee's web app (client-web: the page  *)
(* Today, the selfie, the offline queue in IndexedDB and the loops that    *)
(* flush it), the native app's home screen (mobile), and the endpoints     *)
(* both post to (backend attendance_service.py).                           *)
(*                                                                         *)
(* A submission is a react-query mutation with the default network mode:   *)
(* while the library has seen the browser go offline it is paused in       *)
(* memory, and only a request that was tried and failed reaches the queue. *)
(* The queue outlives the tab and the session; mutations, flushes and the  *)
(* answers of requests die with the tab, the requests themselves do not.   *)
(* The server reads the last row of the day and inserts in two steps.      *)
(***************************************************************************)
EXTENDS Integers, Sequences, FiniteSets

CONSTANTS
  People,      \* who shares the browser
  Owner,       \* whose native app is there too
  None,        \* no account, nothing shown, no capture, no request
  Submitter,   \* the sender of a submission's request
  Native,      \* the native app
  Flushes,     \* slots for flushes that overlap (a bound)
  MaxTaps,     \* bound: selfies submitted
  MaxEvents    \* bound: disturbances (lost or refused requests, the link, the
               \* tab closed, the native app, the administrator's switch)

ASSUME CheckinAssumption ==
  /\ Owner \in People /\ None \notin People
  /\ Submitter \notin Flushes /\ Native \notin Flushes /\ Submitter # Native
  /\ MaxTaps \in Nat /\ MaxEvents \in Nat

VARIABLES
  page,       \* what the tab shows
  account,    \* whose tokens the store holds
  shown,      \* the snapshot of /attendance/today in the query cache
  capture,    \* the open SelfieCapture
  submits,    \* the submissions in the mutation cache
  queue,      \* the IndexedDB store
  flushes,    \* the runs of flushQueue
  posts,      \* the requests of check-ins and check-outs
  online,     \* navigator.onLine
  native,     \* the home screen: the snapshot it shows
  last,       \* the server: the last row of the day of each person
  barred,     \* on leave, or the PWA method is switched off
  tapped,     \* history: who took which selfie, in which mode
  stashed,    \* history: the taps the page promised to send later
  credited,   \* history: which tap became a row of whom
  events

vars == <<page, account, shown, capture, submits, queue, flushes, posts, online,
          native, last, barred, tapped, stashed, credited, events>>
ui == <<page, account, shown, capture>>
work == <<submits, queue, flushes>>
server == <<last, barred, credited>>

Modes == {"in", "out"}
Taps == 1..MaxTaps
TodayStatus == [working: BOOLEAN, barred: BOOLEAN]
QueuedCheckin == [tap: Taps, kind: Modes, tried: BOOLEAN]
Submission == [tap: Taps, mode: Modes, watched: BOOLEAN,
               phase: {"paused", "locating", "posting"}]
Flush == [rows: SUBSET QueuedCheckin, posting: QueuedCheckin \cup {None}]
Post == [by: Flushes \cup {Submitter, Native}, tap: 0..MaxTaps, kind: Modes,
         account: People \cup {None}, live: BOOLEAN, lost: BOOLEAN,
         server: {"sent", "checked", "recorded", "refused", "never"}]

ASSUME NoneAssumption == None \notin QueuedCheckin \cup Flush

TypeOK ==
  /\ page \in {"closed", "login", "today", "other"}
  /\ account \in People \cup {None}
  /\ shown \in TodayStatus \cup {None}
  /\ capture \in [mode: Modes, look: {"live", "photo", "error"}] \cup {None}
  /\ submits \subseteq Submission
  /\ queue \subseteq QueuedCheckin
  /\ \A f \in Flushes : flushes[f] = None \/ flushes[f] \in Flush
  /\ posts \subseteq Post
  /\ online \in BOOLEAN
  /\ native \in BOOLEAN
  /\ last \in [People -> Modes \cup {None}]
  /\ barred \in BOOLEAN
  /\ tapped \in Seq([person: People, mode: Modes])
  /\ stashed \subseteq Taps
  /\ credited \subseteq [tap: 0..MaxTaps, person: People]
  /\ events \in 0..MaxEvents

Init ==
  /\ page = "closed" /\ account = None /\ shown = None /\ capture = None
  /\ submits = {} /\ queue = {} /\ flushes = [f \in Flushes |-> None]
  /\ posts = {} /\ online = TRUE
  /\ native = FALSE
  /\ last = [p \in People |-> None] /\ barred = FALSE
  /\ tapped = <<>> /\ stashed = {} /\ credited = {}
  /\ events = 0

Disturb == events < MaxEvents /\ events' = events + 1

(***************************************************************************)
(* What can be pressed.  One button, "in" or "out" by the snapshot; a       *)
(* submission this mount of the page watches disables it; the selfie covers *)
(* the page.                                                                *)
(***************************************************************************)
Busy == \E s \in submits : s.watched

TodayPage ==
  IF page # "today" \/ capture # None \/ Busy THEN {}
  ELSE IF shown = None THEN {"in"}
  ELSE IF shown.barred THEN {}
  ELSE IF shown.working THEN {"out"} ELSE {"in"}

SelfieCapture ==
  IF capture = None THEN {}
  ELSE {"cancel"} \cup
       (CASE capture.look = "live" -> {"snap"}
          [] capture.look = "photo" -> {"retake", "accept"}
          [] capture.look = "error" -> {})

(***************************************************************************)
(* The tab and the session.                                                *)
(***************************************************************************)
OpenApp ==
  /\ page = "closed"
  /\ page' = IF account = None THEN "login" ELSE "today"
  /\ UNCHANGED <<account, shown, capture, work, posts, online, native, server,
                 tapped, stashed, events>>

(* The tab dies: what it kept in memory is gone, the store and the queue    *)
(* are not, and neither are the requests on their way.                      *)
CloseTab ==
  /\ page # "closed"
  /\ page' = "closed" /\ shown' = None /\ capture' = None
  /\ submits' = {} /\ flushes' = [f \in Flushes |-> None]
  /\ posts' = {[p EXCEPT !.live = @ /\ p.by = Native] : p \in posts}
  /\ Disturb
  /\ UNCHANGED <<account, queue, online, native, server, tapped, stashed>>

(* The query cache, the mutations and the queue are those of the browser,   *)
(* whoever signs in.                                                        *)
LoginPage(p) ==
  /\ page = "login" /\ online
  /\ account' = p /\ page' = "today"
  /\ UNCHANGED <<shown, capture, work, posts, online, native, server, tapped,
                 stashed, events>>

LogOut ==
  /\ page = "other"
  /\ account' = None /\ page' = "login"
  /\ UNCHANGED <<shown, capture, work, posts, online, native, server, tapped,
                 stashed, events>>

(* Another tab of the bottom bar: the page unmounts, its mutation goes on   *)
(* and nobody watches it.                                                   *)
LeavePage ==
  /\ page = "today" /\ capture = None
  /\ page' = "other"
  /\ submits' = {[s EXCEPT !.watched = FALSE] : s \in submits}
  /\ UNCHANGED <<account, shown, capture, queue, flushes, posts, online, native,
                 server, tapped, stashed, events>>

Return ==
  /\ page = "other"
  /\ page' = "today"
  /\ UNCHANGED <<account, shown, capture, work, posts, online, native, server,
                 tapped, stashed, events>>

Snapshot(p) == [working |-> last[p] = "in", barred |-> barred]

(* todayQ: on mount, every minute and after every submission and flush.     *)
RefreshToday ==
  /\ page = "today" /\ online
  /\ shown # Snapshot(account)
  /\ shown' = Snapshot(account)
  /\ UNCHANGED <<page, account, capture, work, posts, online, native, server,
                 tapped, stashed, events>>

(***************************************************************************)
(* The selfie and the submission.                                          *)
(***************************************************************************)
PressButton(mode) ==
  /\ mode \in TodayPage
  /\ Len(tapped) < MaxTaps
  /\ capture' = [mode |-> mode, look |-> "live"]
  /\ UNCHANGED <<page, account, shown, work, posts, online, native, server,
                 tapped, stashed, events>>

Look(control, look) ==
  /\ control \in SelfieCapture
  /\ capture' = [capture EXCEPT !.look = look]
  /\ UNCHANGED <<page, account, shown, work, posts, online, native, server,
                 tapped, stashed, events>>

Snap == Look("snap", "photo")
Retake == Look("retake", "live")

CameraRefused ==
  /\ "snap" \in SelfieCapture
  /\ capture' = [capture EXCEPT !.look = "error"]
  /\ Disturb
  /\ UNCHANGED <<page, account, shown, work, posts, online, native, server,
                 tapped, stashed>>

CancelCapture ==
  /\ "cancel" \in SelfieCapture
  /\ capture' = None
  /\ UNCHANGED <<page, account, shown, work, posts, online, native, server,
                 tapped, stashed, events>>

(* The mutation starts, or is paused while the browser is offline.          *)
HandleCaptured ==
  /\ "accept" \in SelfieCapture
  /\ capture' = None
  /\ tapped' = Append(tapped, [person |-> account, mode |-> capture.mode])
  /\ submits' = submits \cup
       {[tap |-> Len(tapped) + 1, mode |-> capture.mode, watched |-> TRUE,
         phase |-> IF online THEN "locating" ELSE "paused"]}
  /\ UNCHANGED <<page, account, shown, queue, flushes, posts, online, native,
                 server, stashed, events>>

(* A request carries the token the store holds when it is sent.             *)
PostCheckin(by, tap, kind) ==
  [by |-> by, tap |-> tap, kind |-> kind, account |-> account, live |-> TRUE,
   lost |-> ~online, server |-> IF online THEN "sent" ELSE "never"]

(* getCurrentPosition has answered, with a position or without one.         *)
Locate(s) ==
  /\ s.phase = "locating"
  /\ submits' = (submits \ {s}) \cup {[s EXCEPT !.phase = "posting"]}
  /\ posts' = posts \cup {PostCheckin(Submitter, s.tap, s.mode)}
  /\ UNCHANGED <<ui, queue, flushes, online, native, server, tapped, stashed, events>>

Answered(p) == p.live /\ (p.lost \/ p.server \in {"recorded", "refused"})

(* The client is done with the request; the server may still be at it.      *)
Without(p) ==
  (posts \ {p}) \cup
  (IF p.server \in {"sent", "checked"} THEN {[p EXCEPT !.live = FALSE]} ELSE {})

EnqueueCheckin(s) ==
  /\ queue' = queue \cup {[tap |-> s.tap, kind |-> s.mode, tried |-> FALSE]}
  /\ stashed' = stashed \cup {s.tap}

(* Kept for later when no answer came, and also when one came but the       *)
(* browser has gone offline since.                                          *)
Submitted(s, p) ==
  /\ s.phase = "posting" /\ p.by = Submitter /\ p.tap = s.tap /\ Answered(p)
  /\ submits' = submits \ {s}
  /\ posts' = Without(p)
  /\ IF p.lost \/ (p.server = "refused" /\ ~online)
     THEN EnqueueCheckin(s) ELSE UNCHANGED <<queue, stashed>>
  /\ UNCHANGED <<ui, flushes, online, native, server, tapped, events>>

(***************************************************************************)
(* The queue.  Any number of flushes may run: the event online, the message *)
(* of the service worker and the interval of a minute each start one.       *)
(***************************************************************************)
(* A snapshot of the store; its order, that of random ids, can be any.      *)
FlushQueue(f) ==
  /\ flushes[f] = None /\ queue # {}
  /\ flushes' = [flushes EXCEPT ![f] = [rows |-> queue, posting |-> None]]

StartFlush(f) ==
  /\ page = "today" /\ online
  /\ FlushQueue(f)
  /\ UNCHANGED <<ui, submits, queue, posts, online, native, server, tapped, stashed, events>>

PostNext(f) ==
  /\ flushes[f] # None /\ flushes[f].posting = None
  /\ \E row \in flushes[f].rows :
       /\ flushes' = [flushes EXCEPT ![f].posting = row]
       /\ posts' = posts \cup {PostCheckin(f, row.tap, row.kind)}
  /\ UNCHANGED <<ui, submits, queue, online, native, server, tapped, stashed, events>>

(* Mutated: the row is written back whether or not it is still there.       *)
PutBack(row) ==
  {q \in queue : q.tap # row.tap} \cup {[row EXCEPT !.tried = TRUE]}

(* Nothing happens when another flush has taken the row out meanwhile.      *)
BumpAttempt(row) ==
  {IF q.tap = row.tap THEN [q EXCEPT !.tried = TRUE] ELSE q : q \in queue}

Dequeue(row) == {q \in queue : q.tap # row.tap}

(* Mutated: a row leaves the queue whatever the answer.                     *)
DequeueAnyway(row, p) == Dequeue(row)

AfterPost(row, p) ==
  IF p.server = "recorded" /\ ~p.lost THEN Dequeue(row) ELSE BumpAttempt(row)

(* Mutated: the loop posts a row again until it succeeds.                   *)
UntilItSucceeds(f, p) ==
  IF p.server = "recorded" /\ ~p.lost THEN flushes[f].rows \ {flushes[f].posting} ELSE flushes[f].rows

RowsLeft(f, p) == flushes[f].rows \ {flushes[f].posting}

FlushAnswered(f, p) ==
  /\ flushes[f] # None /\ flushes[f].posting # None /\ p.by = f /\ Answered(p)
  /\ queue' = AfterPost(flushes[f].posting, p)
  /\ posts' = Without(p)
  /\ flushes' = [flushes EXCEPT ![f] =
       IF RowsLeft(f, p) = {} THEN None
       ELSE [rows |-> RowsLeft(f, p), posting |-> None]]
  /\ UNCHANGED <<ui, submits, online, native, server, tapped, stashed, events>>

(***************************************************************************)
(* The link.                                                               *)
(***************************************************************************)
GoOffline ==
  /\ online /\ online' = FALSE
  /\ Disturb
  /\ UNCHANGED <<ui, work, posts, native, server, tapped, stashed>>

(* onOnline flushes, and the library resumes the paused mutations.          *)
ComeOnline ==
  /\ ~online /\ online' = TRUE
  /\ submits' = {[s EXCEPT !.phase = IF @ = "paused" THEN "locating" ELSE @] : s \in submits}
  /\ \/ page = "today" /\ \E f \in Flushes : FlushQueue(f)
     \/ /\ page # "today" \/ queue = {} \/ \A f \in Flushes : flushes[f] # None
        /\ UNCHANGED flushes
  /\ UNCHANGED <<ui, queue, posts, native, server, tapped, stashed, events>>

(* The browser says online and the answer never comes (a captive portal, a  *)
(* dead spot): the server may or may not have had the request.              *)
LosePost(p) ==
  /\ p.live /\ ~p.lost
  /\ posts' = (posts \ {p}) \cup {[p EXCEPT !.lost = TRUE]}
  /\ Disturb
  /\ UNCHANGED <<ui, work, online, native, server, tapped, stashed>>

(***************************************************************************)
(* The native app: the button's mode is that of its own snapshot, nothing   *)
(* is kept when the request fails.                                          *)
(***************************************************************************)
NativeBusy == \E p \in posts : p.by = Native /\ p.live

HomeScreen == IF NativeBusy THEN {} ELSE IF native THEN {"out"} ELSE {"in"}

NativePress(mode) ==
  /\ mode \in HomeScreen
  /\ posts' = posts \cup {[by |-> Native, tap |-> 0, kind |-> mode, account |-> Owner,
                           live |-> TRUE, lost |-> FALSE, server |-> "sent"]}
  /\ Disturb
  /\ UNCHANGED <<ui, work, online, native, server, tapped, stashed>>

NativeAnswered(p) ==
  /\ p.by = Native /\ Answered(p)
  /\ posts' = Without(p)
  /\ UNCHANGED <<ui, work, online, native, server, tapped, stashed, events>>

NativeRefresh ==
  /\ native # (last[Owner] = "in")
  /\ native' = (last[Owner] = "in")
  /\ UNCHANGED <<ui, work, posts, online, server, tapped, stashed, events>>

(***************************************************************************)
(* The server: the guards are read, then the row is inserted.               *)
(***************************************************************************)
Becomes(p, status) == posts' = (posts \ {p}) \cup {[p EXCEPT !.server = status]}

Accepts(p) ==
  /\ p.account # None /\ ~barred
  /\ IF p.kind = "in" THEN last[p.account] # "in" ELSE last[p.account] = "in"

Check(p) ==
  /\ p.server = "sent"
  /\ Becomes(p, IF Accepts(p) THEN "checked" ELSE "refused")
  /\ UNCHANGED <<ui, work, online, native, server, tapped, stashed, events>>

Insert(p) ==
  /\ p.server = "checked"
  /\ last' = [last EXCEPT ![p.account] = p.kind]
  /\ credited' = credited \cup {[tap |-> p.tap, person |-> p.account]}
  /\ IF p.live THEN Becomes(p, "recorded") ELSE posts' = posts \ {p}
  /\ UNCHANGED <<ui, work, online, native, barred, tapped, stashed, events>>

(* Outside the geofence, or the face is not the employee's.                 *)
Refuse(p) ==
  /\ p.server = "sent"
  /\ Becomes(p, "refused")
  /\ Disturb
  /\ UNCHANGED <<ui, work, online, native, server, tapped, stashed>>

(* An administrator approves a leave or switches the method off, or on.     *)
Bar ==
  /\ barred' = ~barred
  /\ Disturb
  /\ UNCHANGED <<ui, work, posts, online, native, last, credited, tapped, stashed>>

(***************************************************************************)
(* The next-state relation and its fairness.                               *)
(***************************************************************************)
Serve(p) == Check(p) \/ Insert(p)
Answer(p) ==
  \/ \E s \in submits : Submitted(s, p)
  \/ \E f \in Flushes : FlushAnswered(f, p)
  \/ NativeAnswered(p)

Next ==
  \/ OpenApp \/ CloseTab \/ LogOut \/ LeavePage \/ Return \/ RefreshToday
  \/ \E p \in People : LoginPage(p)
  \/ \E mode \in Modes : PressButton(mode) \/ NativePress(mode)
  \/ Snap \/ Retake \/ CameraRefused \/ CancelCapture \/ HandleCaptured
  \/ \E s \in submits : Locate(s)
  \/ \E f \in Flushes : StartFlush(f) \/ PostNext(f)
  \/ \E p \in posts : Serve(p) \/ Answer(p) \/ Refuse(p) \/ LosePost(p)
  \/ GoOffline \/ ComeOnline \/ NativeRefresh \/ Bar

Spec == Init /\ [][Next]_vars

(* While the page is open the interval starts flushes, and the server and   *)
(* the network answer what they are asked.                                  *)
FairSpec ==
  /\ Spec
  /\ \A f \in Flushes : WF_vars(StartFlush(f)) /\ WF_vars(PostNext(f))
  /\ WF_vars(\E p \in posts : p.live /\ Serve(p))
  /\ WF_vars(\E p \in posts : Answer(p))

(***************************************************************************)
(* Properties.                                                             *)
(***************************************************************************)

(* A check the page has promised to send later is never forgotten: it is in *)
(* the queue until the server has a row for it, through closed tabs, other  *)
(* accounts, overlapping flushes and lost answers.                          *)
NothingForgotten ==
  \A t \in stashed : (\E q \in queue : q.tap = t) \/ (\E c \in credited : c.tap = t)

(* A check that a flush has taken out of the queue is never put back by     *)
(* another flush whose own post of it was refused.                          *)
NothingResurrected ==
  [][\A q \in queue' : q.tap \in {r.tap : r \in queue} \/ q.tap \notin stashed]_vars

(* Every check in the queue is posted before long: rows that are refused    *)
(* again and again do not hold up the ones behind them.                     *)
QueueServed ==
  \A t \in Taps :
    LET Waits == \E q \in queue : q.tap = t /\ ~q.tried
        Open == page = "today" /\ online
    IN (Waits /\ Open) ~> (~Waits \/ ~Open)

(* "Clear the entire queue - used when the user explicitly logs out"        *)
(* (offline-queue.ts:152): what a flush sends is recorded for the one who    *)
(* took the selfie.                                                         *)
QueueOfTapper ==
  \A p \in posts :
    p.by \in Flushes /\ p.server = "recorded" => p.account = tapped[p.tap].person
=============================================================================
