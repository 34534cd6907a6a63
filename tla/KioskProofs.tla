----------------------------- MODULE KioskProofs -----------------------------
(* What holds of Kiosk for any employees and bounds.                        *)
EXTENDS Kiosk, TLAPS

UIFields == {"mode", "roster", "manual", "confirm", "optimistic", "result",
             "reject", "scanning", "lastMatch", "error"}
TickFields == {"frame", "direction", "cancelled"}
CheckFields == {"employee", "direction", "auto", "orphan", "status"}

Shaped(r, fields) == DOMAIN r = fields /\ r = [f \in fields |-> r[f]]

\* The answer of a tick that is not cancelled finds the loop as it left it.
TickMeetsLoop ==
  tick # None /\ ~tick.cancelled =>
    Unblocked /\ ui.mode # "idle" /\ tick.direction = ModeDirection(ui.mode)

\* While a check of this page is in flight an overlay or the dialog says so.
Covered == ui.optimistic # None \/ ui.confirm # None

Inv ==
  /\ Shaped(ui, UIFields)
  /\ tick # None => Shaped(tick, TickFields)
  /\ \A c \in checks : Shaped(c, CheckFields)
  /\ TickMeetsLoop
  /\ Submitting => Covered
  /\ OneCheckAtATime

LEMMA InvInit == Init => Inv
  BY DEF Init, Inv, Mounted, Shaped, UIFields, TickMeetsLoop, Submitting, OneCheckAtATime

\* A cancelled tick says nothing any more.
LEMMA CancelledOK ==
  ASSUME Inv, tick' = Cancelled \/ tick' = None
  PROVE  /\ tick' # None => Shaped(tick', TickFields)
         /\ TickMeetsLoop'
  <1>1. CASE tick' = None
    BY <1>1 DEF TickMeetsLoop
  <1>2. CASE tick' = Cancelled /\ tick' # None
    <2>1. tick # None /\ tick' = [tick EXCEPT !.cancelled = TRUE]
      BY <1>2 DEF Cancelled
    <2>2. Shaped(tick, TickFields)
      BY <2>1 DEF Inv
    <2>3. tick'.cancelled = TRUE /\ Shaped(tick', TickFields)
      BY <2>1, <2>2 DEF Shaped, TickFields
    <2> QED BY <2>3 DEF TickMeetsLoop
  <1> QED BY <1>1, <1>2

\* A step that starts no check and ends none.
LEMMA Kept ==
  ASSUME Inv, checks' = checks, Shaped(ui', UIFields),
         (ui' = ui /\ tick' = tick) \/ tick' = Cancelled \/ tick' = None,
         Covered' \/ ~Submitting
  PROVE  Inv'
  <1>1. (tick' # None => Shaped(tick', TickFields)) /\ TickMeetsLoop'
    <2>1. CASE ui' = ui /\ tick' = tick
      BY <2>1 DEF Inv, TickMeetsLoop, Unblocked
    <2> QED BY <2>1, CancelledOK
  <1>2. (\A c \in checks : Shaped(c, CheckFields))' /\ OneCheckAtATime'
    BY DEF Inv, OneCheckAtATime
  <1>3. (Submitting => Covered)'
    BY DEF Submitting
  <1> QED BY <1>1, <1>2, <1>3 DEF Inv

\* A render that leaves alone what covers the screen.
LEMMA RenderKeeps ==
  ASSUME Inv, checks' = checks, NEW new, Render(new), Shaped(new, UIFields),
         (new.optimistic = ui.optimistic /\ new.confirm = ui.confirm)
           \/ new.confirm # None \/ ~Submitting
  PROVE  Inv'
  <1>1. ui' = new /\ ((tick' = tick /\ new = ui) \/ tick' = Cancelled)
    BY DEF Render, Paint
  <1>2. Covered' \/ ~Submitting
    BY <1>1 DEF Inv, Covered
  <1> QED BY <1>1, <1>2, Kept

\* A step that leaves the page and its requests alone.
LEMMA Stutters ==
  ASSUME Inv, UNCHANGED <<ui, tick, checks>>
  PROVE  Inv'
  BY DEF Inv, TickMeetsLoop, Unblocked, Submitting, Covered, OneCheckAtATime

LEMMA LogoutKeeps ==
  ASSUME Inv, Logout
  PROVE  Inv' /\ ~Submitting'
  <1>1. /\ ui' = [Mounted EXCEPT !.roster = ui.roster] /\ tick' = None
        /\ checks' = {[c EXCEPT !.orphan = TRUE] : c \in checks}
    BY DEF Logout, Paint
  <1>2. \A c \in checks' : Shaped(c, CheckFields) /\ c.orphan = TRUE
    BY <1>1 DEF Inv, Shaped, CheckFields
  <1>3. Shaped(ui', UIFields)
    BY <1>1 DEF Shaped, UIFields, Mounted
  <1>4. ~Submitting' /\ OneCheckAtATime'
    BY <1>2 DEF Submitting, OneCheckAtATime
  <1>5. TickMeetsLoop'
    BY <1>1 DEF TickMeetsLoop
  <1> QED BY <1>1, <1>2, <1>3, <1>4, <1>5 DEF Inv

\* What is reached through an overlay is reached when nothing is submitted.
LEMMA LayerCovers ==
  /\ Layer \in {"sheet", "scan", "idle"} => ui.optimistic = None /\ ui.confirm = None
  /\ Layer = "confirm" => ui.optimistic = None /\ ui.confirm # None
  BY DEF Layer, Route

LEMMA TouchKeeps ==
  ASSUME Inv, Touch
  PROVE  Inv'
  <1> USE DEF Inv
  <1>1. CASE Login
    BY <1>1, Stutters DEF Login
  <1>2. CASE SignOut
    BY <1>2, LogoutKeeps DEF SignOut
  <1>3. ASSUME NEW mode \in {"in", "out"}, TapTile(mode) PROVE Inv'
    BY <1>3, RenderKeeps DEF TapTile, Shaped, UIFields
  <1>4. CASE Cancel
    BY <1>4, RenderKeeps DEF Cancel, Shaped, UIFields
  <1>5. CASE OpenManual
    BY <1>5, RenderKeeps DEF OpenManual, Shaped, UIFields
  <1>6. CASE CloseManual
    BY <1>6, RenderKeeps DEF CloseManual, Shaped, UIFields
  <1>7. CASE CancelConfirm
    <2>1. ~Submitting
      BY <1>7 DEF CancelConfirm, Offered, Offers, ConfirmModal
    <2> QED BY <1>7, <2>1, RenderKeeps DEF CancelConfirm, Shaped, UIFields
  <1>8. CASE Confirm
    <2>1. ~Submitting /\ ui.confirm # None
      BY <1>8, LayerCovers DEF Confirm, Offered, Offers, ConfirmModal
    <2> DEFINE new == Sent(ui.confirm.employee, ManualDirection, FALSE)
    <2>2. checks' = checks \cup {new} /\ ui' = ui /\ tick' = Cancelled
      BY <1>8 DEF Confirm
    <2>3. Shaped(new, CheckFields)
      BY DEF Sent, Shaped, CheckFields
    <2>4. OneCheckAtATime' /\ \A c \in checks' : Shaped(c, CheckFields)
      BY <2>1, <2>2, <2>3 DEF OneCheckAtATime, Submitting
    <2>5. Covered'
      BY <2>1, <2>2 DEF Covered
    <2> QED BY <2>2, <2>4, <2>5, CancelledOK
  <1>9. ASSUME NEW e \in Employees, PickManual(e) PROVE Inv'
    <2>1. ~Submitting
      BY <1>9, LayerCovers DEF PickManual, Offered, Covered
    <2> QED BY <1>9, <2>1, RenderKeeps DEF PickManual, Shaped, UIFields
  <1>10. CASE CloseReject
    BY <1>10, RenderKeeps DEF CloseReject, Shaped, UIFields
  <1>11. CASE Continue
    BY <1>11, RenderKeeps DEF Continue, Shaped, UIFields
  <1> QED BY <1>1, <1>2, <1>3, <1>4, <1>5, <1>6, <1>7, <1>8, <1>9, <1>10, <1>11 DEF Touch

LEMMA TimersKeep ==
  ASSUME Inv, Timers
  PROVE  Inv'
  <1>1. CASE ScanTimeout
    BY <1>1, RenderKeeps DEF ScanTimeout, Inv, Shaped, UIFields
  <1>2. CASE RejectTimeout
    BY <1>2, RenderKeeps DEF RejectTimeout, Inv, Shaped, UIFields
  <1>3. CASE ErrorFades
    BY <1>3, RenderKeeps DEF ErrorFades, Inv, Shaped, UIFields
  <1>4. CASE HintFades
    BY <1>4, RenderKeeps DEF HintFades, Inv, Shaped, UIFields
  <1> QED BY <1>1, <1>2, <1>3, <1>4 DEF Timers

LEMMA StartTickKeeps ==
  ASSUME Inv, StartTick
  PROVE  Inv'
  <1>1. /\ ui' = [ui EXCEPT !.scanning = TRUE] /\ checks' = checks
        /\ tick' = [frame |-> face, direction |-> ModeDirection(ui.mode),
                    cancelled |-> ~ui.scanning]
        /\ Unblocked /\ ui.mode # "idle"
    BY DEF StartTick, LoopRuns, Paint
  <1>2. Shaped(ui', UIFields) /\ Shaped(tick', TickFields)
    BY <1>1 DEF Inv, Shaped, UIFields, TickFields
  <1>3. \A f \in UIFields : f # "scanning" => ui'[f] = ui[f]
    BY <1>1 DEF Inv, Shaped, UIFields
  <1>4. TickMeetsLoop'
    BY <1>1, <1>3 DEF TickMeetsLoop, Unblocked, UIFields
  <1>5. (Submitting => Covered)' /\ OneCheckAtATime'
    BY <1>1, <1>3 DEF Inv, Submitting, Covered, OneCheckAtATime, UIFields
  <1> QED BY <1>1, <1>2, <1>4, <1>5 DEF Inv

\* The loop is unblocked when it hears of a match, so no check is in flight.
LEMMA AnswerTickKeeps ==
  ASSUME Inv, AnswerTick
  PROVE  Inv'
  <1>1. tick # None /\ ~tick.cancelled /\ tick' = None
    BY DEF AnswerTick
  <1>2. ~Submitting
    BY <1>1 DEF Inv, TickMeetsLoop, Unblocked, Covered
  <1>3. Shaped(ui', UIFields)
    BY DEF AnswerTick, Matched, LowConfidence, NoFace, Paint, Scanned, Inv, Shaped, UIFields
  <1>4. CASE checks' = checks
    BY <1>1, <1>2, <1>3, <1>4, Kept
  <1>5. CASE checks' # checks
    <2> DEFINE new == Sent(tick.frame, tick.direction, TRUE)
    <2>1. /\ checks' = checks \cup {new}
          /\ ui' = [Scanned EXCEPT !.optimistic = ThisShown]
      BY <1>5 DEF AnswerTick, Matched, LowConfidence, NoFace, Paint
    <2>2. Shaped(new, CheckFields)
      BY DEF Sent, Shaped, CheckFields
    <2>3. OneCheckAtATime' /\ \A c \in checks' : Shaped(c, CheckFields)
      BY <1>2, <2>1, <2>2 DEF Inv, OneCheckAtATime, Submitting
    <2>4. ui'.optimistic = ThisShown
      BY <2>1 DEF Scanned, Inv, Shaped, UIFields
    <2>5. tick.frame \in Employees /\ tick.direction \in Directions
      BY <1>1, <1>5, KioskAssumption
      DEF AnswerTick, Matched, LowConfidence, NoFace, Inv, TickMeetsLoop, ModeDirection, Directions
    <2>6. Covered'
      BY <2>4, <2>5, NoneAssumption DEF Covered, ThisShown, Shown
    <2> QED BY <1>1, <1>3, <2>3, <2>6, CancelledOK DEF Inv
  <1> QED BY <1>4, <1>5

\* The server's word on a check changes its status only.
LEMMA BecomesKeeps ==
  ASSUME Inv, NEW c \in checks, NEW status, checks' = Becomes(c, status),
         UNCHANGED <<ui, tick>>
  PROVE  Inv'
  <1> DEFINE d == [c EXCEPT !.status = status]
  <1>1. Shaped(d, CheckFields) /\ d.orphan = c.orphan
    BY DEF Inv, Shaped, CheckFields
  <1>2. checks' = (checks \ {c}) \cup {d}
    BY DEF Becomes
  <1>3. \A b \in checks' : Shaped(b, CheckFields)
    BY <1>1, <1>2 DEF Inv
  <1>4. OneCheckAtATime'
    BY <1>1, <1>2 DEF Inv, OneCheckAtATime
  <1>5. Submitting' => Submitting
    BY <1>1, <1>2 DEF Submitting
  <1>6. TickMeetsLoop' /\ (Covered' <=> Covered)
    BY DEF Inv, TickMeetsLoop, Unblocked, Covered
  <1> QED BY <1>3, <1>4, <1>5, <1>6 DEF Inv

\* An answer of this page is the answer of its only check.
LEMMA SettleKeeps ==
  ASSUME Inv, NEW c \in checks, Settle(c)
  PROVE  Inv'
  <1>1. checks' = checks \ {c}
    BY DEF Settle
  <1>2. OneCheckAtATime' /\ \A b \in checks' : Shaped(b, CheckFields)
    BY <1>1 DEF Inv, OneCheckAtATime
  <1>3. CASE c.orphan
    <2>1. UNCHANGED <<ui, camera, tick>>
      BY <1>3 DEF Settle
    <2>2. Submitting' => Submitting
      BY <1>1 DEF Submitting
    <2>3. TickMeetsLoop' /\ (Covered' <=> Covered)
      BY <2>1 DEF Inv, TickMeetsLoop, Unblocked, Covered
    <2> QED BY <1>2, <2>1, <2>2, <2>3 DEF Inv
  <1>4. CASE ~c.orphan
    <2>1. ~Submitting'
      BY <1>1, <1>4 DEF Inv, OneCheckAtATime, Submitting
    <2>2. /\ Shaped(ui', UIFields)
          /\ (ui' = ui /\ tick' = tick) \/ tick' = Cancelled
      BY <1>4 DEF Settle, Render, Paint, Inv, Shaped, UIFields
    <2>3. (tick' # None => Shaped(tick', TickFields)) /\ TickMeetsLoop'
      <3>1. CASE ui' = ui /\ tick' = tick
        BY <3>1 DEF Inv, TickMeetsLoop, Unblocked
      <3> QED BY <2>2, <3>1, CancelledOK
    <2> QED BY <1>2, <2>1, <2>2, <2>3 DEF Inv
  <1> QED BY <1>3, <1>4

LEMMA AnswersKeep ==
  ASSUME Inv, Answers
  PROVE  Inv'
  <1>1. CASE AnswerTick
    BY <1>1, AnswerTickKeeps
  <1>2. CASE DropTick
    <2>1. Shaped(ui', UIFields) /\ (Covered' <=> Covered)
      BY <1>2 DEF DropTick, Inv, Covered
    <2> QED BY <1>2, <2>1, Kept DEF DropTick, Inv
  <1>3. CASE FetchRoster
    BY <1>3, RenderKeeps DEF FetchRoster, Inv, Shaped, UIFields
  <1>4. CASE CameraStarts \/ LatePrompt
    BY <1>4, Stutters DEF CameraStarts, LatePrompt
  <1>5. ASSUME NEW c \in checks, Record(c) PROVE Inv'
    BY <1>5, BecomesKeeps DEF Record
  <1>6. ASSUME NEW c \in checks, Settle(c) PROVE Inv'
    BY <1>6, SettleKeeps
  <1> QED BY <1>1, <1>2, <1>3, <1>4, <1>5, <1>6 DEF Answers

LEMMA AroundKeeps ==
  ASSUME Inv, Around
  PROVE  Inv'
  <1>1. CASE Heartbeat
    <2>1. Shaped(ui', UIFields) /\ (Covered' <=> Covered)
      BY <1>1 DEF Heartbeat, Inv, Covered
    <2> QED BY <1>1, <2>1, Kept DEF Heartbeat, Inv
  <1>2. CASE SessionEnds
    BY <1>2, LogoutKeeps DEF SessionEnds
  <1>3. CASE LoseTick
    <2>1. ~Submitting
      BY <1>3 DEF LoseTick, Inv, TickMeetsLoop, Unblocked, Covered
    <2>2. Shaped(ui', UIFields) /\ tick' = None /\ checks' = checks
      BY <1>3 DEF LoseTick, Paint, Scanned, Inv, Shaped, UIFields
    <2> QED BY <2>1, <2>2, Kept
  <1>4. CASE CameraFails \/ Midnight
    BY <1>4, Stutters DEF CameraFails, Midnight
  <1>5. ASSUME NEW c \in checks, FailCheck(c) PROVE Inv'
    BY <1>5, BecomesKeeps DEF FailCheck
  <1>6. ASSUME NEW e \in Employees, CooldownEnds(e) PROVE Inv'
    BY <1>6, Stutters DEF CooldownEnds
  <1>7. ASSUME NEW e \in Employees, NEW direction \in Directions, Elsewhere(e, direction)
        PROVE  Inv'
    BY <1>7, Stutters DEF Elsewhere
  <1>8. ASSUME NEW f \in Faces, Approach(f) PROVE Inv'
    BY <1>8, Stutters DEF Approach
  <1> QED BY <1>1, <1>2, <1>3, <1>4, <1>5, <1>6, <1>7, <1>8 DEF Around

LEMMA InvStep == Inv /\ [Next]_vars => Inv'
  <1> SUFFICES ASSUME Inv, [Next]_vars PROVE Inv'
    OBVIOUS
  <1>1. CASE UNCHANGED vars
    BY <1>1, Stutters DEF vars
  <1> QED BY <1>1, TouchKeeps, TimersKeep, StartTickKeeps, AnswersKeep, AroundKeeps DEF Next

\* At most one check of the page is in flight.
THEOREM OneCheck == Spec => []OneCheckAtATime
  <1>1. Inv => OneCheckAtATime
    BY DEF Inv
  <1> QED BY InvInit, InvStep, <1>1, PTL DEF Spec

\* The checks that a step adds.
NewCheck(c) == c \in checks' \ checks /\ c.auto /\ c.status = "sent" /\ ~c.orphan

LEMMA OnlyTheLoop ==
  ASSUME Inv, Next, NEW c, NewCheck(c)
  PROVE  AnswerTick
  <1>1. checks' # checks
    BY DEF NewCheck
  <1>2. ~Logout
    <2> SUFFICES ASSUME Logout PROVE FALSE
      OBVIOUS
    <2>1. \A b \in checks' : b.orphan = TRUE
      BY DEF Logout, Inv, Shaped, CheckFields
    <2> QED BY <2>1 DEF NewCheck
  <1>3. ~Confirm
    BY DEF NewCheck, Confirm, Sent
  <1>4. \A b \in checks : ~Record(b) /\ ~FailCheck(b)
    <2> SUFFICES ASSUME NEW b \in checks, Record(b) \/ FailCheck(b) PROVE FALSE
      OBVIOUS
    <2>1. PICK status \in {"recorded", "refused"} : checks' = Becomes(b, status)
      BY DEF Record, FailCheck
    <2>2. [b EXCEPT !.status = status].status = status
      BY DEF Inv, Shaped, CheckFields
    <2> QED BY <2>1, <2>2 DEF NewCheck, Becomes
  <1>5. \A b \in checks : ~Settle(b)
    BY DEF NewCheck, Settle
  <1>6. ~Touch
    BY <1>1, <1>2, <1>3 DEF Touch, Login, SignOut, TapTile, Cancel, OpenManual, CloseManual,
       CancelConfirm, PickManual, CloseReject, Continue
  <1>7. ~Timers /\ ~StartTick
    BY <1>1 DEF Timers, ScanTimeout, RejectTimeout, ErrorFades, HintFades, StartTick
  <1>8. ~Around
    BY <1>1, <1>2, <1>4 DEF Around, Heartbeat, SessionEnds, CameraFails, LoseTick, Midnight,
       CooldownEnds, Elsewhere, Approach
  <1>9. Answers => AnswerTick
    BY <1>1, <1>4, <1>5 DEF Answers, DropTick, FetchRoster, CameraStarts, LatePrompt
  <1> QED BY <1>6, <1>7, <1>8, <1>9 DEF Next

\* The loop sends a check in the direction of the tile that is active, never
\* after the scan has ended.
THEOREM LoopFollowsTile == Spec => CheckFollowsTile
  <1> DEFINE Follows(c) == NewCheck(c) => ui.mode # "idle" /\ c.direction = ModeDirection(ui.mode)
  <1>1. Inv /\ Next => \A c \in checks' \ checks : Follows(c)
    <2> SUFFICES ASSUME Inv, Next, NEW c \in checks' \ checks, NewCheck(c)
                 PROVE  ui.mode # "idle" /\ c.direction = ModeDirection(ui.mode)
      OBVIOUS
    <2>1. AnswerTick
      BY OnlyTheLoop
    <2>2. ui.mode # "idle" /\ tick.direction = ModeDirection(ui.mode)
      BY <2>1 DEF AnswerTick, Inv, TickMeetsLoop
    <2>3. c = Sent(tick.frame, tick.direction, TRUE)
      BY <2>1 DEF AnswerTick, Matched, LowConfidence, NoFace
    <2> QED BY <2>2, <2>3 DEF Sent
  <1>2. Inv /\ [Next]_vars =>
          [\A c \in checks' \ checks :
             (c.auto /\ c.status = "sent" /\ ~c.orphan) =>
                ui.mode # "idle" /\ c.direction = ModeDirection(ui.mode)]_vars
    BY <1>1 DEF NewCheck
  <1> QED BY InvInit, InvStep, <1>2, PTL DEF Spec, CheckFollowsTile

(***************************************************************************)
(* The camera.                                                             *)
(***************************************************************************)
CameraFields == {"state", "prompts", "streams"}

CameraInv ==
  /\ Shaped(camera, CameraFields)
  /\ ui.mode # "idle" => signed
  /\ camera.state # "off" => ui.mode # "idle"
  /\ camera.state = "off" => camera.streams = 0

LEMMA CameraInit == Init => CameraInv
  BY DEF Init, CameraInv, Mounted, Shaped, CameraFields

\* The preview follows the mode that is painted.
LEMMA PaintKeeps ==
  ASSUME CameraInv, NEW new, Paint(new), new.mode # "idle" => signed'
  PROVE  CameraInv'
  <1>1. ui' = new /\ camera' = Preview(new.mode)
    BY DEF Paint
  <1>2. CASE new.mode # "idle" /\ camera.state = "off"
    <2>1. camera' = [camera EXCEPT !.state = "starting"]
      BY <1>1, <1>2 DEF Preview
    <2>2. Shaped(camera', CameraFields) /\ camera'.state = "starting"
      BY <2>1 DEF CameraInv, Shaped, CameraFields
    <2> QED BY <1>1, <1>2, <2>2 DEF CameraInv
  <1>3. CASE new.mode = "idle" /\ camera.state # "off"
    <2>1. \E n : camera' = [state |-> "off", streams |-> 0, prompts |-> n]
      BY <1>1, <1>3 DEF Preview
    <2>2. Shaped(camera', CameraFields) /\ camera'.state = "off" /\ camera'.streams = 0
      BY <2>1 DEF Shaped, CameraFields
    <2> QED BY <1>1, <1>3, <2>2 DEF CameraInv
  <1>4. CASE (new.mode = "idle") <=> (camera.state = "off")
    <2>1. camera' = camera
      BY <1>1, <1>4 DEF Preview
    <2> QED BY <1>1, <1>4, <2>1 DEF CameraInv
  <1> QED BY <1>2, <1>3, <1>4

LEMMA CameraUntouched ==
  ASSUME CameraInv, UNCHANGED <<signed, ui, camera>>
  PROVE  CameraInv'
  BY DEF CameraInv

LEMMA ScannedShape == ASSUME Inv PROVE Shaped(Scanned, UIFields) /\ Scanned.mode = ui.mode
  BY DEF Inv, Scanned, Shaped, UIFields

LEMMA CameraTouch ==
  ASSUME Inv, CameraInv, Touch
  PROVE  CameraInv'
  <1> USE DEF Shaped, UIFields
  <1>0. Shaped(ui, UIFields) /\ (ui.mode # "idle" => signed)
    BY DEF Inv, CameraInv
  <1>1. CASE Login
    BY <1>1 DEF Login, CameraInv
  <1>2. CASE SignOut
    <2>1. Paint([Mounted EXCEPT !.roster = ui.roster])
      BY <1>2 DEF SignOut, Logout
    <2>2. [Mounted EXCEPT !.roster = ui.roster].mode = "idle"
      BY DEF Mounted
    <2> QED BY <2>1, <2>2, PaintKeeps
  <1>3. ASSUME NEW mode \in {"in", "out"}, TapTile(mode) PROVE CameraInv'
    <2>1. signed
      BY <1>3 DEF TapTile, Offered, Layer, Route
    <2> QED BY <1>3, <2>1, PaintKeeps DEF TapTile, Render
  <1>4. CASE Cancel
    BY <1>0, <1>4, PaintKeeps DEF Cancel, Render
  <1>5. CASE OpenManual
    BY <1>0, <1>5, PaintKeeps DEF OpenManual, Render
  <1>6. CASE CloseManual
    BY <1>0, <1>6, PaintKeeps DEF CloseManual, Render
  <1>7. CASE CancelConfirm
    BY <1>0, <1>7, PaintKeeps DEF CancelConfirm, Render
  <1>8. ASSUME NEW e \in Employees, PickManual(e) PROVE CameraInv'
    BY <1>0, <1>8, PaintKeeps DEF PickManual, Render
  <1>9. CASE CloseReject
    BY <1>0, <1>9, PaintKeeps DEF CloseReject, Render
  <1>10. CASE Continue
    <2> DEFINE new == [ui EXCEPT !.result = None, !.mode = "idle"]
    <2>1. Paint(new) /\ new.mode = "idle"
      BY <1>0, <1>10 DEF Continue, Render
    <2> QED BY <2>1, PaintKeeps
  <1>11. CASE Confirm
    BY <1>11, CameraUntouched DEF Confirm
  <1> QED BY <1>1, <1>2, <1>3, <1>4, <1>5, <1>6, <1>7, <1>8, <1>9, <1>10, <1>11 DEF Touch

LEMMA CameraLoop ==
  ASSUME Inv, CameraInv, Timers \/ StartTick \/ AnswerTick \/ LoseTick
  PROVE  CameraInv'
  <1> USE DEF Shaped, UIFields
  <1>0. Shaped(ui, UIFields) /\ (ui.mode # "idle" => signed)
    BY DEF Inv, CameraInv
  <1>a. Shaped(Scanned, UIFields) /\ Scanned.mode = ui.mode
    BY ScannedShape
  <1>1. CASE ScanTimeout
    BY <1>0, <1>1, PaintKeeps DEF ScanTimeout, Render
  <1>2. CASE RejectTimeout
    <2> DEFINE new == [ui EXCEPT !.reject = FALSE, !.mode = "idle"]
    <2>1. Paint(new) /\ new.mode = "idle"
      BY <1>0, <1>2 DEF RejectTimeout, Render
    <2> QED BY <2>1, PaintKeeps
  <1>3. CASE ErrorFades
    BY <1>0, <1>3, PaintKeeps DEF ErrorFades, Render
  <1>4. CASE HintFades
    BY <1>0, <1>4, PaintKeeps DEF HintFades, Render
  <1>5. CASE StartTick
    BY <1>0, <1>5, PaintKeeps DEF StartTick
  <1>6. CASE AnswerTick
    <2>1. signed' = signed /\ (Matched \/ LowConfidence \/ NoFace)
      BY <1>6 DEF AnswerTick
    <2>2. \A x : /\ [Scanned EXCEPT !.lastMatch = x].mode = ui.mode
                 /\ [Scanned EXCEPT !.optimistic = x].mode = ui.mode
                 /\ [Scanned EXCEPT !.reject = x].mode = ui.mode
      BY <1>a
    <2>3. \E new : Paint(new) /\ new.mode = ui.mode
      BY <1>a, <2>1, <2>2 DEF Matched, LowConfidence, NoFace
    <2> QED BY <1>0, <2>1, <2>3, PaintKeeps
  <1>7. CASE LoseTick
    BY <1>0, <1>7, <1>a, PaintKeeps DEF LoseTick
  <1> QED BY <1>1, <1>2, <1>3, <1>4, <1>5, <1>6, <1>7 DEF Timers

LEMMA CameraRest ==
  ASSUME Inv, CameraInv, (Answers /\ ~AnswerTick) \/ (Around /\ ~LoseTick)
  PROVE  CameraInv'
  <1> USE DEF Shaped, UIFields
  <1>0. Shaped(ui, UIFields) /\ (ui.mode # "idle" => signed)
    BY DEF Inv, CameraInv
  <1>1. CASE FetchRoster
    BY <1>0, <1>1, PaintKeeps DEF FetchRoster, Render
  <1>2. CASE CameraStarts \/ CameraFails \/ LatePrompt
    <2>1. UNCHANGED <<signed, ui>> /\ Shaped(camera, CameraFields)
      BY <1>2 DEF CameraStarts, CameraFails, LatePrompt, CameraInv
    <2>2. CASE CameraStarts
      <3>1. camera.state = "starting" /\ Shaped(camera', CameraFields) /\ camera'.state = "ready"
        BY <2>1, <2>2 DEF CameraStarts, CameraFields
      <3> QED BY <2>1, <3>1 DEF CameraInv
    <2>3. CASE CameraFails
      <3>1. camera.state = "starting" /\ Shaped(camera', CameraFields) /\ camera'.state = "failed"
        BY <2>1, <2>3 DEF CameraFails, CameraFields
      <3> QED BY <2>1, <3>1 DEF CameraInv
    <2>4. CASE LatePrompt
      <3>1. /\ Shaped(camera', CameraFields)
            /\ camera'.state = camera.state /\ camera'.streams = camera.streams
        BY <2>1, <2>4 DEF LatePrompt, CameraFields
      <3> QED BY <2>1, <3>1 DEF CameraInv
    <2> QED BY <1>2, <2>2, <2>3, <2>4
  <1>3. ASSUME NEW c \in checks, Settle(c) PROVE CameraInv'
    <2>1. signed' = signed
      BY <1>3 DEF Settle
    <2>2. CASE c.orphan
      BY <1>3, <2>1, <2>2, CameraUntouched DEF Settle
    <2>3. CASE ~c.orphan
      <3>1. \A x : /\ [ui EXCEPT !.confirm = None, !.manual = FALSE, !.optimistic = None,
                                 !.result = x].mode = ui.mode
                   /\ [ui EXCEPT !.optimistic = None, !.error = TRUE].mode = ui.mode
        BY <1>0
      <3>2. \E new : Paint(new) /\ new.mode = ui.mode
        BY <1>3, <2>3, <3>1 DEF Settle, Render
      <3> QED BY <1>0, <2>1, <3>2, PaintKeeps
    <2> QED BY <2>2, <2>3
  <1>4. CASE SessionEnds
    <2>1. Paint([Mounted EXCEPT !.roster = ui.roster])
      BY <1>4 DEF SessionEnds, Logout
    <2>2. [Mounted EXCEPT !.roster = ui.roster].mode = "idle"
      BY DEF Mounted
    <2> QED BY <2>1, <2>2, PaintKeeps
  <1>5. CASE \/ DropTick \/ Heartbeat \/ Midnight
             \/ \E c \in checks : Record(c) \/ FailCheck(c)
             \/ \E e \in Employees : CooldownEnds(e)
             \/ \E e \in Employees, direction \in Directions : Elsewhere(e, direction)
             \/ \E f \in Faces : Approach(f)
    BY <1>5, CameraUntouched DEF DropTick, Heartbeat, Midnight, Record, FailCheck, CooldownEnds,
       Elsewhere, Approach
  <1> QED BY <1>1, <1>2, <1>3, <1>4, <1>5 DEF Answers, Around

LEMMA CameraStep == Inv /\ CameraInv /\ [Next]_vars => CameraInv'
  <1> SUFFICES ASSUME Inv, CameraInv, [Next]_vars PROVE CameraInv'
    OBVIOUS
  <1>1. CASE UNCHANGED vars
    BY <1>1, CameraUntouched DEF vars
  <1> QED BY <1>1, CameraTouch, CameraLoop, CameraRest DEF Next, Answers, Around

(* No stream is open on the idle screen or after the kiosk has signed out,  *)
(* however late the browser grants it.                                      *)
THEOREM CameraCloses == Spec => []CameraOnlyWhileScanning
  <1>1. CameraInv => CameraOnlyWhileScanning
    BY DEF CameraInv, CameraOnlyWhileScanning
  <1> QED BY InvInit, InvStep, CameraInit, CameraStep, <1>1, PTL DEF Spec
=============================================================================
