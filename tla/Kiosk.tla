-------------------------------- MODULE Kiosk --------------------------------
(***************************************************************************)
(* The tablet at the door (kiosk-web/src) and the endpoints it calls       *)
(* (backend/app/api/v1/kiosk_runtime.py).  The operator taps IN or OUT, a  *)
(* loop sends frames of the camera for recognition, and a match posts the  *)
(* check at once; a sheet lets the operator pick the person by hand.       *)
(*                                                                         *)
(* The loop lives in a React effect one of whose dependencies, checkMut,   *)
(* is a new object on every render: each render that changes anything runs *)
(* the effect's cleanup, which marks the answer in flight as cancelled.    *)
(* That includes the render that the loop itself causes by setting         *)
(* scanning.  Render below is that rule.                                   *)
(*                                                                         *)
(* Timers are actions that may happen whenever their timer runs.           *)
(***************************************************************************)
EXTENDS Integers, FiniteSets

CONSTANTS
  Employees,    \* the active people of the kiosk's branch
  Enrolled,     \* those with a stored face embedding
  None,         \* no employee, no overlay, no request
  Nobody,       \* a frame without a face
  Stranger,     \* a frame with a face that is nobody's
  MaxFailures,  \* REJECT_AFTER_FAILURES
  MaxTaps,      \* bound: tiles tapped
  MaxEvents     \* bound: disturbances (lost or refused calls, heartbeats, checks
                \* made elsewhere, nights, a camera that fails, the session's end)

ASSUME KioskAssumption ==
  /\ Enrolled \subseteq Employees /\ IsFiniteSet(Employees)
  /\ {None, Nobody, Stranger} \cap Employees = {}
  /\ None # Nobody /\ None # Stranger /\ Nobody # Stranger
  /\ MaxFailures \in Nat \ {0} /\ MaxTaps \in Nat /\ MaxEvents \in Nat

VARIABLES
  signed,       \* does the tablet hold an access token?
  ui,           \* the state of MainPage that its renders depend on
  camera,       \* the preview of ScanView and the streams that are open
  tick,         \* the recognition request in flight (recognizingRef)
  streak,       \* lowConfidenceStreakRef
  cooling,      \* the employees in cooldownRef, less than 30 s ago
  checks,       \* the check-in and check-out requests in flight
  face,         \* who stands before the lens
  day,          \* the server's rows of today, for each employee
  inside,       \* is the employee's last row ever a CHECK_IN?
  taps, events  \* what the bounds count

vars == <<signed, ui, camera, tick, streak, cooling, checks, face, day, inside,
          taps, events>>
server == <<day, inside>>

Directions == {"IN", "OUT"}
Modes == {"idle", "in", "out"}
Faces == Employees \cup {Nobody, Stranger}
Rosters == [Employees -> BOOLEAN]
Shown == [employee: Employees, direction: Directions]
Picked == [employee: Employees, isCurrentlyIn: BOOLEAN]

ASSUME NoneAssumption == None \notin Shown \cup Picked \cup Rosters

MainPage == [mode: Modes, roster: Rosters \cup {None}, manual: BOOLEAN,
             confirm: Picked \cup {None}, optimistic: Shown \cup {None},
             result: Shown \cup {None}, reject: BOOLEAN, scanning: BOOLEAN,
             lastMatch: Shown \cup {None}, error: BOOLEAN]

Mounted == [mode |-> "idle", roster |-> None, manual |-> FALSE, confirm |-> None,
            optimistic |-> None, result |-> None, reject |-> FALSE,
            scanning |-> FALSE, lastMatch |-> None, error |-> FALSE]

CameraPreview == [state: {"off", "starting", "ready", "failed"},
                  prompts: 0..MaxTaps, streams: 0..MaxTaps]

Tick == [frame: Faces, direction: Directions, cancelled: BOOLEAN]

Check == [employee: Employees, direction: Directions, auto: BOOLEAN,
          orphan: BOOLEAN, status: {"sent", "recorded", "refused"}]

TypeOK ==
  /\ signed \in BOOLEAN
  /\ ui \in MainPage
  /\ camera \in CameraPreview
  /\ tick \in Tick \cup {None}
  /\ streak \in 0..MaxFailures
  /\ cooling \subseteq Employees
  /\ checks \subseteq Check
  /\ face \in Faces
  /\ day \in [Employees -> Directions \cup {None}]
  /\ inside \in [Employees -> BOOLEAN]
  /\ taps \in 0..MaxTaps /\ events \in 0..MaxEvents

(* The night before, anyone may have left without checking out.            *)
Init ==
  /\ signed = FALSE
  /\ ui = Mounted
  /\ camera = [state |-> "off", prompts |-> 0, streams |-> 0]
  /\ tick = None /\ streak = 0 /\ cooling = {} /\ checks = {}
  /\ face = Nobody
  /\ day = [e \in Employees |-> None]
  /\ inside \in [Employees -> BOOLEAN]
  /\ taps = 0 /\ events = 0

Disturb == events < MaxEvents /\ events' = events + 1

(***************************************************************************)
(* Rendering: the effect's cleanup cancels the tick in flight, and ScanView,*)
(* with its camera, is mounted exactly while the mode is not idle.          *)
(***************************************************************************)
(* Mutated: the effect has no cleanup.                                      *)
StillLive == tick

Cancelled == IF tick = None THEN None ELSE [tick EXCEPT !.cancelled = TRUE]

(* The preview asks for a stream when it mounts.  Its cleanup stops the     *)
(* stream it has; a prompt that is still open resolves to an inactive       *)
(* preview.                                                                 *)
Preview(mode) ==
  CASE mode # "idle" /\ camera.state = "off" -> [camera EXCEPT !.state = "starting"]
    [] mode = "idle" /\ camera.state # "off" ->
         [state |-> "off", streams |-> 0,
          prompts |-> camera.prompts + (IF camera.state = "starting" THEN 1 ELSE 0)]
    [] OTHER -> camera

Paint(new) ==
  /\ ui' = new
  /\ camera' = Preview(new.mode)

Render(new) ==
  /\ Paint(new)
  /\ tick' = IF new = ui THEN tick ELSE Cancelled

(* A 401 or a tap on the door icon: MainPage unmounts, its state is gone and*)
(* what its requests answer goes nowhere.  The query cache keeps the roster.*)
Logout ==
  /\ signed' = FALSE
  /\ Paint([Mounted EXCEPT !.roster = ui.roster])
  /\ tick' = None
  /\ streak' = 0 /\ cooling' = {}
  /\ checks' = {[c EXCEPT !.orphan = TRUE] : c \in checks}

(***************************************************************************)
(* What a finger can reach.  The overlays and the dialog cover the screen,  *)
(* later ones over earlier ones; the sheet covers all but them.             *)
(***************************************************************************)
Submitting == \E c \in checks : ~c.orphan

(* The routes lead to LoginPage until the store holds a token and a kiosk.  *)
Route == IF signed THEN "main" ELSE "login"

Layer ==
  IF Route = "login" THEN "login"
  ELSE IF ui.reject THEN "reject"
  ELSE IF ui.result # None THEN "result"
  ELSE IF ui.optimistic # None THEN "saving"
  ELSE IF ui.confirm # None THEN "confirm"
  ELSE IF ui.manual THEN "sheet"
  ELSE IF ui.mode = "idle" THEN "idle" ELSE "scan"

HeaderOffers == {"logout"}
IdleSplit == {"in", "out"}
ScanView == {"cancel", "manual"}
ManualSheet == {"close"} \cup (IF ui.roster = None THEN {} ELSE {"pick"})
(* Mutated: the buttons of the dialog ignore the request in flight.         *)
NeverDisabled == {"cancel", "confirm"}

ConfirmModal == IF Submitting THEN {} ELSE {"cancel", "confirm"}
ResultOverlay == IF ui.result = None THEN {} ELSE {"continue"}
RejectOverlay == {"close"}
LoginForm == {"submit"}

Offers ==
  CASE Layer = "login" -> LoginForm
    [] Layer = "idle" -> IdleSplit \cup HeaderOffers
    [] Layer = "scan" -> ScanView \cup HeaderOffers
    [] Layer = "sheet" -> ManualSheet
    [] Layer = "confirm" -> ConfirmModal
    [] Layer \in {"saving", "result"} -> ResultOverlay
    [] Layer = "reject" -> RejectOverlay

Offered(layer, control) == Layer = layer /\ control \in Offers

(***************************************************************************)
(* The session.                                                            *)
(***************************************************************************)
Login ==
  /\ Offered("login", "submit")
  /\ signed' = TRUE
  /\ UNCHANGED <<ui, camera, tick, streak, cooling, checks, face, server, taps, events>>

SignOut ==
  /\ Layer \in {"idle", "scan"} /\ "logout" \in Offers
  /\ Logout
  /\ Disturb
  /\ UNCHANGED <<face, server, taps>>

(* The token expires or the kiosk is deactivated: the next call says 401.   *)
SessionEnds ==
  /\ signed
  /\ Logout
  /\ Disturb
  /\ UNCHANGED <<face, server, taps>>

(* meQ, every minute: last_seen_at has moved, so its data is new and        *)
(* MainPage renders.                                                        *)
Heartbeat ==
  /\ signed /\ tick # None
  /\ tick' = Cancelled
  /\ Disturb
  /\ UNCHANGED <<signed, ui, camera, streak, cooling, checks, face, server, taps>>

(* employeesQ: when it mounts, every 30 s and after a check.                *)
FetchRoster ==
  /\ signed
  /\ ui.roster # inside
  /\ Render([ui EXCEPT !.roster = inside])
  /\ UNCHANGED <<signed, streak, cooling, checks, face, server, taps, events>>

(***************************************************************************)
(* Tiles, timers and the camera.                                           *)
(***************************************************************************)
TapTile(mode) ==
  /\ Offered("idle", mode)
  /\ taps < MaxTaps /\ taps' = taps + 1
  /\ Render([ui EXCEPT !.mode = mode])
  /\ UNCHANGED <<signed, streak, cooling, checks, face, server, events>>

Cancel ==
  /\ Offered("scan", "cancel")
  /\ Render([ui EXCEPT !.mode = "idle"])
  /\ UNCHANGED <<signed, streak, cooling, checks, face, server, taps, events>>

(* SCAN_TIMEOUT_MS runs from the tap, whatever has opened since.            *)
ScanTimeout ==
  /\ signed /\ ui.mode # "idle"
  /\ Render([ui EXCEPT !.mode = "idle"])
  /\ UNCHANGED <<signed, streak, cooling, checks, face, server, taps, events>>

CameraStarts ==
  /\ camera.state = "starting"
  /\ camera' = [camera EXCEPT !.state = "ready", !.streams = @ + 1]
  /\ UNCHANGED <<signed, ui, tick, streak, cooling, checks, face, server, taps, events>>

CameraFails ==
  /\ camera.state = "starting"
  /\ camera' = [camera EXCEPT !.state = "failed"]
  /\ Disturb
  /\ UNCHANGED <<signed, ui, tick, streak, cooling, checks, face, server, taps>>

(* Mutated: the preview does not ask whether it is still active.            *)
LateStream ==
  /\ camera.prompts > 0
  /\ camera' = [camera EXCEPT !.prompts = @ - 1, !.streams = @ + 1]
  /\ UNCHANGED <<signed, ui, tick, streak, cooling, checks, face, server, taps, events>>

(* A stream granted to a preview that is gone is stopped at once.           *)
LatePrompt ==
  /\ camera.prompts > 0
  /\ camera' = [camera EXCEPT !.prompts = @ - 1]
  /\ UNCHANGED <<signed, ui, tick, streak, cooling, checks, face, server, taps, events>>

CloseReject ==
  /\ Offered("reject", "close")
  /\ Render([ui EXCEPT !.reject = FALSE])
  /\ UNCHANGED <<signed, streak, cooling, checks, face, server, taps, events>>

RejectTimeout ==
  /\ signed /\ ui.reject
  /\ Render([ui EXCEPT !.reject = FALSE, !.mode = "idle"])
  /\ UNCHANGED <<signed, streak, cooling, checks, face, server, taps, events>>

Continue ==
  /\ Offered("result", "continue")
  /\ Render([ui EXCEPT !.result = None, !.mode = "idle"])
  /\ UNCHANGED <<signed, streak, cooling, checks, face, server, taps, events>>

ErrorFades ==
  /\ signed /\ ui.error
  /\ Render([ui EXCEPT !.error = FALSE])
  /\ UNCHANGED <<signed, streak, cooling, checks, face, server, taps, events>>

HintFades ==
  /\ signed /\ ui.lastMatch # None
  /\ Render([ui EXCEPT !.lastMatch = None])
  /\ UNCHANGED <<signed, streak, cooling, checks, face, server, taps, events>>

(***************************************************************************)
(* The recognition loop.                                                    *)
(***************************************************************************)
Unblocked ==
  /\ ui.confirm = None /\ ui.result = None /\ ui.optimistic = None
  /\ ~ui.reject /\ ~ui.manual

LoopRuns ==
  /\ signed /\ ui.mode # "idle" /\ Unblocked
  /\ ui.roster # None /\ Employees # {}

ModeDirection(mode) == IF mode = "in" THEN "IN" ELSE "OUT"

(* setScanning(TRUE) renders, and cancels this very tick, unless scanning   *)
(* was left TRUE by a tick that was cancelled.                              *)
StartTick ==
  /\ LoopRuns /\ tick = None /\ camera.state = "ready"
  /\ tick' = [frame |-> face, direction |-> ModeDirection(ui.mode),
              cancelled |-> ~ui.scanning]
  /\ Paint([ui EXCEPT !.scanning = TRUE])
  /\ UNCHANGED <<signed, streak, cooling, checks, face, server, taps, events>>

Sent(e, direction, auto) ==
  [employee |-> e, direction |-> direction, auto |-> auto, orphan |-> FALSE,
   status |-> "sent"]

Scanned == [ui EXCEPT !.scanning = FALSE]
ThisShown == [employee |-> tick.frame, direction |-> tick.direction]

Matched ==
  /\ tick.frame \in Enrolled
  /\ streak' = 0
  /\ cooling' = cooling \cup {tick.frame}
  /\ IF tick.frame \in cooling
     THEN Paint([Scanned EXCEPT !.lastMatch = ThisShown]) /\ UNCHANGED checks
     ELSE /\ Paint([Scanned EXCEPT !.optimistic = ThisShown])
          /\ checks' = checks \cup {Sent(tick.frame, tick.direction, TRUE)}

LowConfidence ==
  /\ tick.frame \notin Enrolled \cup {Nobody} /\ Enrolled # {}
  /\ streak' = (streak + 1) % MaxFailures
  /\ Paint([Scanned EXCEPT !.reject = (streak + 1 = MaxFailures)])
  /\ UNCHANGED <<cooling, checks>>

NoFace ==
  /\ tick.frame = Nobody \/ Enrolled = {}
  /\ streak' = 0
  /\ Paint(Scanned)
  /\ UNCHANGED <<cooling, checks>>

AnswerTick ==
  /\ tick # None /\ ~tick.cancelled
  /\ Matched \/ LowConfidence \/ NoFace
  /\ tick' = None
  /\ UNCHANGED <<signed, face, server, taps, events>>

(* Mutated: a cancelled tick, too, ends with setScanning(false).            *)
DropAndRest ==
  /\ tick # None /\ tick.cancelled
  /\ tick' = None
  /\ Paint(Scanned)
  /\ UNCHANGED <<signed, streak, cooling, checks, face, server, taps, events>>

(* The answer of a cancelled tick is dropped, and scanning stays as it is.  *)
DropTick ==
  /\ tick # None /\ tick.cancelled
  /\ tick' = None
  /\ UNCHANGED <<signed, ui, camera, streak, cooling, checks, face, server, taps, events>>

LoseTick ==
  /\ tick # None /\ ~tick.cancelled
  /\ Paint(Scanned)
  /\ tick' = None
  /\ Disturb
  /\ UNCHANGED <<signed, streak, cooling, checks, face, server, taps>>

CooldownEnds(e) ==
  /\ e \in cooling
  /\ cooling' = cooling \ {e}
  /\ UNCHANGED <<signed, ui, camera, tick, streak, checks, face, server, taps, events>>

(***************************************************************************)
(* By hand.                                                                *)
(***************************************************************************)
OpenManual ==
  /\ Offered("scan", "manual")
  /\ Render([ui EXCEPT !.manual = TRUE])
  /\ UNCHANGED <<signed, streak, cooling, checks, face, server, taps, events>>

CloseManual ==
  /\ Offered("sheet", "close")
  /\ Render([ui EXCEPT !.manual = FALSE])
  /\ UNCHANGED <<signed, streak, cooling, checks, face, server, taps, events>>

PickManual(e) ==
  /\ Offered("sheet", "pick")
  /\ Render([ui EXCEPT !.confirm = [employee |-> e, isCurrentlyIn |-> ui.roster[e]]])
  /\ UNCHANGED <<signed, streak, cooling, checks, face, server, taps, events>>

CancelConfirm ==
  /\ Offered("confirm", "cancel")
  /\ Render([ui EXCEPT !.confirm = None])
  /\ UNCHANGED <<signed, streak, cooling, checks, face, server, taps, events>>

(* The direction of the tile, or, once the mode is idle again, the opposite *)
(* of what the roster said when the employee was picked.                    *)
ManualDirection ==
  IF ui.mode # "idle" THEN ModeDirection(ui.mode)
  ELSE IF ui.confirm.isCurrentlyIn THEN "OUT" ELSE "IN"

Confirm ==
  /\ Offered("confirm", "confirm")
  /\ checks' = checks \cup {Sent(ui.confirm.employee, ManualDirection, FALSE)}
  /\ tick' = Cancelled
  /\ UNCHANGED <<signed, ui, camera, streak, cooling, face, server, taps, events>>

(***************************************************************************)
(* The server and the answers of the checks.                                *)
(***************************************************************************)
Becomes(c, status) == (checks \ {c}) \cup {[c EXCEPT !.status = status]}

Accepts(c) == IF c.direction = "IN" THEN day[c.employee] # "IN"
                                    ELSE day[c.employee] = "IN"

Insert(e, direction) ==
  /\ day' = [day EXCEPT ![e] = direction]
  /\ inside' = [inside EXCEPT ![e] = (direction = "IN")]

Record(c) ==
  /\ c.status = "sent"
  /\ IF Accepts(c)
     THEN Insert(c.employee, c.direction) /\ checks' = Becomes(c, "recorded")
     ELSE UNCHANGED server /\ checks' = Becomes(c, "refused")
  /\ UNCHANGED <<signed, ui, camera, tick, streak, cooling, face, taps, events>>

(* The request or its answer is lost, or the server refuses for another     *)
(* reason (a leave, the kiosk method switched off, another branch).         *)
FailCheck(c) ==
  /\ c.status # "refused"
  /\ checks' = Becomes(c, "refused")
  /\ Disturb
  /\ UNCHANGED <<signed, ui, camera, tick, streak, cooling, face, server, taps>>

Settle(c) ==
  /\ c.status # "sent"
  /\ checks' = checks \ {c}
  /\ IF c.orphan THEN UNCHANGED <<ui, camera, tick>>
     ELSE IF c.status = "recorded"
     THEN Render([ui EXCEPT !.confirm = None, !.manual = FALSE, !.optimistic = None,
                            !.result = [employee |-> c.employee,
                                        direction |-> c.direction]])
     ELSE Render([ui EXCEPT !.optimistic = None, !.error = TRUE])
  /\ UNCHANGED <<signed, streak, cooling, face, server, taps, events>>

(***************************************************************************)
(* Around the kiosk.                                                       *)
(***************************************************************************)
Approach(f) ==
  /\ face # f /\ face' = f
  /\ UNCHANGED <<signed, ui, camera, tick, streak, cooling, checks, server, taps, events>>

(* The phone or a terminal records the employee.                            *)
Elsewhere(e, direction) ==
  /\ Insert(e, direction)
  /\ day[e] # direction /\ (direction = "OUT" => day[e] = "IN")
  /\ Disturb
  /\ UNCHANGED <<signed, ui, camera, tick, streak, cooling, checks, face, taps>>

Midnight ==
  /\ \E e \in Employees : day[e] # None
  /\ day' = [e \in Employees |-> None]
  /\ Disturb
  /\ UNCHANGED <<signed, ui, camera, tick, streak, cooling, checks, face, inside, taps>>

(***************************************************************************)
(* The next-state relation and its fairness.                               *)
(***************************************************************************)
Touch ==
  \/ Login \/ SignOut
  \/ \E mode \in {"in", "out"} : TapTile(mode)
  \/ Cancel \/ OpenManual \/ CloseManual \/ CancelConfirm \/ Confirm
  \/ \E e \in Employees : PickManual(e)
  \/ CloseReject \/ Continue

Timers == ScanTimeout \/ RejectTimeout \/ ErrorFades \/ HintFades

Answers ==
  \/ AnswerTick \/ DropTick \/ FetchRoster
  \/ CameraStarts \/ LatePrompt
  \/ \E c \in checks : Record(c) \/ Settle(c)

Around ==
  \/ Heartbeat \/ SessionEnds \/ CameraFails \/ LoseTick \/ Midnight
  \/ \E c \in checks : FailCheck(c)
  \/ \E e \in Employees : CooldownEnds(e)
  \/ \E e \in Employees, direction \in Directions : Elsewhere(e, direction)
  \/ \E f \in Faces : Approach(f)

Next == Touch \/ Timers \/ StartTick \/ Answers \/ Around

Spec == Init /\ [][Next]_vars

(* The interval of the loop fires again and again while the loop runs, and  *)
(* what is asked is answered or fails.  Nobody has to touch the screen.     *)
FairSpec ==
  /\ Spec
  /\ WF_vars(StartTick) /\ WF_vars(AnswerTick) /\ WF_vars(DropTick)
  /\ WF_vars(CameraStarts)

(***************************************************************************)
(* Properties.                                                             *)
(***************************************************************************)

(* At most one check of the page is in flight: the loop, the sheet, the     *)
(* dialog and the overlays never let a second one start before the first is *)
(* answered.                                                                *)
OneCheckAtATime == \A c, d \in checks : ~c.orphan /\ ~d.orphan => c = d

(* A check that the loop sends goes in the direction of the tile that is    *)
(* active at that moment, and none goes after the operator has cancelled or *)
(* the scan has timed out, whenever the recognition answers.                *)
CheckFollowsTile ==
  [][\A c \in checks' \ checks :
        (c.auto /\ c.status = "sent" /\ ~c.orphan) =>
           ui.mode # "idle" /\ c.direction = ModeDirection(ui.mode)]_vars

(* "The camera is only alive while we're scanning" (MainPage): no stream is *)
(* open on the idle screen, also when the browser grants it late.           *)
CameraOnlyWhileScanning == camera.streams > 0 => signed /\ ui.mode # "idle"

(* Although its own render cancels every other tick, the loop never starves *)
(* an enrolled employee who stays before the lens: she is greeted, or the   *)
(* loop is stopped or she leaves.                                           *)
LoopServes ==
  \A e \in Enrolled :
    (LoopRuns /\ camera.state = "ready" /\ face = e)
      ~> \/ ~(LoopRuns /\ camera.state = "ready" /\ face = e)
         \/ ui.lastMatch # None /\ ui.lastMatch.employee = e

(* "Cooldown - recognised again while standing at the kiosk.  Re-greet but   *)
(* DON'T fire another DB write: for IN we keep the first record" (MainPage   *)
(* 235-242): whoever is greeted again has a row in the direction of the tile.*)
GreetedIsRecorded ==
  [][\A e \in Employees :
        ui'.lastMatch # ui.lastMatch /\ ui'.lastMatch # None /\ ui'.lastMatch.employee = e
          => day[e] = ui'.lastMatch.direction]_vars
=============================================================================
