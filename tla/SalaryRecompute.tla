--------------------------- MODULE SalaryRecompute ---------------------------
(***************************************************************************)
(* The recomputation of one employee's month                               *)
(* (backend/app/services/salary_service.py, recompute_for_day and what it  *)
(* calls): daily accruals, the LATE and ABSENCE penalties it generates,    *)
(* and the total of the salary period.                                     *)
(*                                                                         *)
(* A recompute is one database transaction under READ COMMITTED.  Its      *)
(* statements are the steps below: each sees the rows committed when it    *)
(* starts and the session's own, waits for the row locks it needs, and     *)
(* what it writes is seen by others at COMMIT.  Recomputes run in          *)
(*   "task"     salary.recompute_for_day, queued by most edits;            *)
(*   "request"  admin_recompute, in the session of an API request;         *)
(*   "summary"  salary.daily_summary, which recomputes today;              *)
(*   "close"    salary.month_end_close, every day of the month in order.   *)
(* Sessions of tasks autoflush, those of requests do not (database.py).    *)
(*                                                                         *)
(* Time is a day and an hour, which a recompute reads: a check-in without  *)
(* check-out is worth the hours until now, or until the end of the shift   *)
(* when the day is another one.                                            *)
(*                                                                         *)
(* Amounts are integers.  Bonuses and manual deductions of a day are one   *)
(* number, extra, so that "deductions" below holds the generated penalties *)
(* alone.                                                                  *)
(***************************************************************************)
EXTENDS Integers, FiniteSets, FiniteSetsExt

CONSTANTS
  LastDay,      \* the days of the month are 1..LastDay
  CloseDays,    \* the days of the month on which beat fires the close
  Sessions,     \* database sessions
  Kinds,        \* which kinds of recompute run
  Facts,        \* what the tables can say about the employee on one day
  LastHour,     \* the hours of a day are 0..LastHour
  ShiftEnd,     \* the hour at which the shift ends, or the day without template
  SalaryType, HourPay, OvertimePay, LateFine,
  FullDay,      \* the hours of a full day's pay
  MaxQueue      \* bound: tasks queued for one day

Days == 1..LastDay

ASSUME DaysAssumption == LastDay \in Nat \ {0} /\ CloseDays \subseteq Days
ASSUME KindsAssumption == Kinds \subseteq {"task", "request", "summary", "close"}
ASSUME FactsAssumption ==
  Facts \subseteq [attendance: {"none", "on_time", "late"},
                   hours: Nat, open: BOOLEAN, since: Nat, overtime: Nat,
                   leave: {"none", "paid", "unpaid"},
                   rest: BOOLEAN, working: BOOLEAN, extra: Int]
ASSUME ClockAssumption == LastHour \in Nat /\ ShiftEnd \in Nat
ASSUME PayAssumption ==
  /\ SalaryType \in {"HOURLY", "DAILY", "MONTHLY", "KPI_BASED"}
  /\ HourPay \in Nat /\ OvertimePay \in Nat /\ LateFine \in Nat /\ FullDay \in Nat
ASSUME QueueAssumption == MaxQueue \in Nat \ {0}

VARIABLES
  facts,     \* attendance, leave, schedule, bonuses of each day, committed
  today,     \* the current date; past LastDay, the month is over
  hour,      \* the current hour
  autos,     \* committed rows of deductions with auto_generated
  accrual,   \* committed salary_daily_accruals, by day
  period,    \* the committed salary_periods row
  queue,     \* queued salary.recompute_for_day tasks, by day
  sess,      \* the transaction each session is in
  \* Kept for the properties only:
  missed,    \* days whose last edit no recompute has taken up, nor will
  worth      \* what each day has been worth since its facts were last edited

vars == <<facts, today, hour, autos, accrual, period, queue, sess, missed, worth>>

\* A working day without check-in, leave, bonus or manual deduction.  hours: those
\* between a check-in and its check-out; open, since: a check-in without
\* check-out, and its hour; overtime: as the check-outs recorded it.
Blank == [attendance |-> "none", hours |-> 0, open |-> FALSE, since |-> 0,
          overtime |-> 0, leave |-> "none", rest |-> FALSE, working |-> TRUE,
          extra |-> 0]
NoAccrual == [exists |-> FALSE, earned |-> 0, deductions |-> 0]
NoPeriod == [exists |-> FALSE, total |-> 0]

Types == {"LATE", "ABSENCE"}

\* phase: the statement the transaction executes next, a penalty type while it
\* sweeps the penalties of that type; gone, made: penalties it has deleted and
\* added; doomed: those its DELETE has found and waits for; seen: the day's
\* facts when it began; priced: the accrual it is about to write; ups: the
\* accruals it has written; old, new: the period's total as it selected and as
\* it assigned it; created, locked: it has inserted or updated the period;
\* owes (for the properties): the days it has taken over from the queue or from
\* those that were missed.
Idle == [kind |-> "idle", phase |-> "idle", day |-> 1, last |-> 1,
         seen |-> Blank, doomed |-> {}, gone |-> {}, made |-> {},
         priced |-> NoAccrual, ups |-> [d \in Days |-> NoAccrual],
         old |-> 0, new |-> 0, created |-> FALSE, locked |-> FALSE,
         owes |-> {}]

Phases == {"idle", "price", "upsert", "create", "flush"} \cup Types
Penalty == [id: Nat, day: Days, type: Types, amount: Nat \ {0}]
Accrual == [exists: BOOLEAN, earned: Int, deductions: Nat]

TypeOK ==
  /\ facts \in [Days -> Facts \cup {Blank}]
  /\ today \in 1..LastDay + 1 /\ hour \in 0..LastHour
  /\ autos \subseteq Penalty
  /\ accrual \in [Days -> Accrual]
  /\ period \in [exists: BOOLEAN, total: Int]
  /\ queue \in [Days -> 0..MaxQueue]
  /\ DOMAIN sess = Sessions
  /\ \A s \in Sessions :
       /\ sess[s].kind \in Kinds \cup {"idle"} /\ sess[s].phase \in Phases
       /\ sess[s].day \in Days /\ sess[s].last \in Days
       /\ sess[s].gone \cup sess[s].made \cup sess[s].doomed \subseteq Penalty
       /\ sess[s].ups \in [Days -> Accrual]
       /\ sess[s].priced \in Accrual /\ sess[s].owes \subseteq Days
  /\ missed \subseteq Days
  /\ worth \in [Days -> SUBSET Int]

Init ==
  /\ facts = [d \in Days |-> Blank]
  /\ today = 1 /\ hour = 0
  /\ autos = {}
  /\ accrual = [d \in Days |-> NoAccrual]
  /\ period = NoPeriod
  /\ queue = [d \in Days |-> 0]
  /\ sess = [s \in Sessions |-> Idle]
  /\ missed = {}
  /\ worth = [d \in Days |-> {0}]

(***************************************************************************)
(* What a day is worth at this hour.                                       *)
(***************************************************************************)

Attended(f) == f.attendance # "none"
Excused(f) == f.rest \/ f.leave # "none"

\* A check-in that is still open counts until now, or until the end of the shift.
Worked(f, d) ==
  LET close == IF d = today THEN hour ELSE ShiftEnd
  IN  f.hours + (IF f.open /\ close > f.since THEN close - f.since ELSE 0)

\* _per_day_base.
DayPay == IF SalaryType = "KPI_BASED" THEN 0 ELSE HourPay * FullDay

\* _base_earned_for_day: a daily rate is paid for any hours at all, a monthly
\* salary up to a full day's.
HoursPay(h) ==
  CASE SalaryType = "HOURLY"    -> HourPay * h
    [] SalaryType = "DAILY"     -> IF h > 0 THEN DayPay ELSE 0
    [] SalaryType = "MONTHLY"   -> HourPay * (IF h < FullDay THEN h ELSE FullDay)
    [] SalaryType = "KPI_BASED" -> 0

Base(f, d) ==
  CASE f.leave = "paid"   -> DayPay
    [] f.leave = "unpaid" -> 0
    [] f.leave = "none"   -> HoursPay(IF f.rest THEN 0 ELSE Worked(f, d))

\* What is worked on a rest day is overtime.
Overtime(f, d) == OvertimePay * (f.overtime + (IF f.rest THEN Worked(f, d) ELSE 0))

Earned(f, d) == Base(f, d) + Overtime(f, d) + f.extra

LateDue(f) == IF f.attendance = "late" THEN LateFine ELSE 0

\* working: hired, on a working day of the template or the company, not
\* cancelled in the schedule, and the company charges absences.
AbsenceDue(f, d) ==
  IF d < today /\ f.working /\ ~Attended(f) THEN DayPay ELSE 0

Owed(rows) == MapThenSumSet(LAMBDA x : x.amount, rows)

On(rows, d) == {x \in rows : x.day = d}

\* An id that no other penalty of the day and type has, the deleted ones that a
\* waiting DELETE found included.
FreshId(d, type) ==
  LET used == {x.id : x \in {y \in autos \cup UNION {sess[s].made \cup sess[s].doomed : s \in Sessions}
                              : y.day = d /\ y.type = type}}
  IN  Min((1..Cardinality(used) + 1) \ used)

Due(f, d, type) == IF type = "LATE" THEN LateDue(f) ELSE AbsenceDue(f, d)

GeneratedWhateverTheAmount(f, d, type) ==
  {[id |-> FreshId(d, type), day |-> d, type |-> type, amount |-> Due(f, d, type)]}

Generated(f, d, type) ==
  {x \in {[id |-> FreshId(d, type), day |-> d, type |-> type, amount |-> Due(f, d, type)]}
     : x.amount > 0}

NeverAutoflushes(s) == FALSE

Autoflushes(s) == sess[s].kind # "request"

\* The penalties of day d that a SELECT of session s sees: those it has added
\* are among them once they are flushed.
Visible(s, d) == On((autos \ sess[s].gone)
                      \cup (IF Autoflushes(s) THEN sess[s].made ELSE {}), d)

Total(a) == MapThenSumSet(LAMBDA d : a[d].earned - a[d].deductions, Days)

(***************************************************************************)
(* Locks: what session s waits for before its next step.                   *)
(***************************************************************************)

Waits(s) ==
  {r \in Sessions \ {s} :
     \/ sess[r].gone \cap sess[s].doomed # {}
     \/ sess[s].phase = "upsert" /\ sess[r].ups[sess[s].day].exists
     \/ sess[s].phase = "create" /\ sess[r].created
     \/ /\ sess[s].phase = "flush" /\ sess[s].new # sess[s].old
        /\ sess[r].locked}

Ready(s, phase) == sess[s].phase = phase /\ Waits(s) = {}

(***************************************************************************)
(* The steps of a recompute.                                               *)
(***************************************************************************)

Begun(kind, first, last) ==
  [Idle EXCEPT !.kind = kind, !.phase = "LATE", !.day = first, !.last = last,
               !.owes = (first..last) \cap (IF kind = "task" THEN Days ELSE missed)]

Begin(s, kind, first, last) ==
  /\ kind \in Kinds /\ sess[s] = Idle
  /\ sess' = [sess EXCEPT ![s] = Begun(kind, first, last)]
  /\ missed' = missed \ (first..last)
  /\ UNCHANGED <<facts, today, hour, autos, accrual, period, worth>>

\* Not the code's: no second task for a day that is being recomputed.
EnqueueUnlessRunning(d) ==
  queue' = [queue EXCEPT ![d] = IF \/ @ = MaxQueue
                                      \/ \E s \in Sessions :
                                           sess[s].kind # "idle" /\ sess[s].day = d
                                   THEN @ ELSE @ + 1]

\* Bound: of the tasks that wait for one day, MaxQueue are kept.
Enqueue(d) ==
  queue' = [queue EXCEPT ![d] = IF @ < MaxQueue THEN @ + 1 ELSE @]

StartTask(s, d) ==
  /\ queue[d] > 0
  /\ Begin(s, "task", d, d)
  /\ queue' = [queue EXCEPT ![d] = @ - 1]

StartRequest(s, d) == Begin(s, "request", d, d) /\ UNCHANGED queue

StartSummary(s) ==
  today \in Days /\ Begin(s, "summary", today, today) /\ UNCHANGED queue

StartClose(s) ==
  today \in CloseDays /\ Begin(s, "close", 1, LastDay) /\ UNCHANGED queue

Step(s, changed) ==
  /\ sess' = [sess EXCEPT ![s] = changed]
  /\ UNCHANGED <<facts, today, hour, autos, accrual, period, queue, missed, worth>>

\* A rest day or a leave skips both sweeps.
Excuse(s) ==
  LET f == facts[sess[s].day]
  IN  /\ Ready(s, "LATE") /\ sess[s].doomed = {} /\ Excused(f)
      /\ Step(s, [sess[s] EXCEPT !.seen = f, !.phase = "price"])

\* On an ordinary day the generated penalties of each type are deleted and
\* generated anew.
SweptButNotWiped(s, doomed) ==
  LET type == sess[s].phase
  IN  [sess[s] EXCEPT !.doomed = {},
                      !.made = @ \cup Generated(facts[sess[s].day], sess[s].day, type),
                      !.seen = IF type = "LATE" THEN facts[sess[s].day] ELSE @,
                      !.phase = IF type = "LATE" THEN "ABSENCE" ELSE "price"]

WipedIfDue(s, doomed) ==
  LET type == sess[s].phase
      new == Generated(facts[sess[s].day], sess[s].day, type)
  IN  [sess[s] EXCEPT !.gone = IF new = {} THEN @ ELSE @ \cup (doomed \cap autos),
                      !.doomed = {}, !.made = @ \cup new,
                      !.seen = IF type = "LATE" THEN facts[sess[s].day] ELSE @,
                      !.phase = IF type = "LATE" THEN "ABSENCE" ELSE "price"]

Swept(s, doomed) ==
  LET type == sess[s].phase
  IN  [sess[s] EXCEPT !.gone = @ \cup (doomed \cap autos), !.doomed = {},
                      !.made = @ \cup Generated(facts[sess[s].day], sess[s].day, type),
                      !.seen = IF type = "LATE" THEN facts[sess[s].day] ELSE @,
                      !.phase = IF type = "LATE" THEN "ABSENCE" ELSE "price"]

\* The DELETE waits for a row that another session has deleted.
Sweep(s) ==
  LET doomed == {x \in Visible(s, sess[s].day) : x.type = sess[s].phase}
      held == \E r \in Sessions \ {s} : sess[r].gone \cap doomed # {}
  IN  /\ sess[s].phase \in Types /\ sess[s].doomed = {}
      /\ sess[s].phase = "LATE" => ~Excused(facts[sess[s].day])
      /\ Step(s, IF held THEN [sess[s] EXCEPT !.doomed = doomed]
                         ELSE Swept(s, doomed))

\* After the wait it skips the rows that are gone, and does not see those that
\* were added since it began.
Delete(s) ==
  /\ sess[s].phase \in Types /\ sess[s].doomed # {} /\ Waits(s) = {}
  /\ Step(s, Swept(s, sess[s].doomed))

\* _hours_for_day, which reads the clock, _bonuses_for_day and
\* _deductions_for_day; rest day and leave are as read before.
Price(s) ==
  LET f == [facts[sess[s].day] EXCEPT !.rest = sess[s].seen.rest,
                                      !.leave = sess[s].seen.leave]
  IN  /\ Ready(s, "price")
      /\ Step(s, [sess[s] EXCEPT
                    !.priced = [exists |-> TRUE,
                                earned |-> Earned(f, sess[s].day),
                                deductions |-> Owed(Visible(s, sess[s].day))],
                    !.seen = Blank, !.phase = "upsert"])

\* INSERT ... ON CONFLICT DO UPDATE of the day's accrual, then
\* _refresh_period_totals.  The session drops the period object of the day
\* before, so it selects the row again: its own once it has written it.
Upserted(s) == [sess[s] EXCEPT !.ups[sess[s].day] = sess[s].priced,
                               !.priced = NoAccrual]

\* The month's accruals as the transaction sees them.
Written(t) == [d \in Days |-> IF t.ups[d].exists THEN t.ups[d] ELSE accrual[d]]

SummedBeforeUpsert(s, t) ==
  [t EXCEPT !.old = IF t.created \/ t.locked THEN t.new ELSE period.total,
            !.new = Total(accrual), !.phase = "flush"]

Refreshed(s, t) ==
  [t EXCEPT !.old = IF t.created \/ t.locked THEN t.new ELSE period.total,
            !.new = Total(Written(t)), !.phase = "flush"]

Upsert(s) ==
  /\ Ready(s, "upsert")
  /\ Step(s, IF sess[s].created \/ period.exists
               THEN Refreshed(s, Upserted(s))
               ELSE [Upserted(s) EXCEPT !.phase = "create"])

\* _ensure_period found no row and inserts it; should the row exist by now, the
\* INSERT fails and the session with it (Abort).
Create(s) ==
  /\ Ready(s, "create") /\ ~period.exists
  /\ Step(s, [Refreshed(s, sess[s]) EXCEPT !.created = TRUE])

\* A month goes on with its next day, whose first SELECT flushes the UPDATE of
\* the period; none if nothing changed.
NextDay(s) ==
  /\ Ready(s, "flush") /\ sess[s].day < sess[s].last
  /\ Step(s, [sess[s] EXCEPT !.locked = @ \/ sess[s].new # sess[s].old,
                             !.day = @ + 1, !.phase = "LATE"])

\* A task whose worker dies after the COMMIT, before it acknowledges the
\* message, is delivered again (task_acks_late).
Requeue(s) == sess[s].kind = "task" /\ Enqueue(sess[s].day)

Commit(s) ==
  /\ Ready(s, "flush") /\ sess[s].day = sess[s].last
  /\ autos' = (autos \ sess[s].gone) \cup sess[s].made
  /\ accrual' = Written(sess[s])
  /\ period' = IF sess[s].locked \/ sess[s].created \/ sess[s].new # sess[s].old
                 THEN [exists |-> TRUE, total |-> sess[s].new] ELSE period
  /\ sess' = [sess EXCEPT ![s] = Idle]
  /\ UNCHANGED queue \/ Requeue(s)
  /\ UNCHANGED <<facts, today, hour, missed, worth>>

\* The session rolls back: the period has been created meanwhile (a unique
\* violation), PostgreSQL breaks a deadlock, the connection is lost.  A task is
\* retried until its three retries are used up, which may be at any of them;
\* nothing retries the others.
Abort(s) ==
  /\ sess[s] # Idle
  /\ sess' = [sess EXCEPT ![s] = Idle]
  /\ \/ Requeue(s) /\ UNCHANGED missed
     \/ UNCHANGED queue /\ missed' = missed \cup sess[s].owes
  /\ UNCHANGED <<facts, today, hour, autos, accrual, period, worth>>

(***************************************************************************)
(* The rest of the system.                                                 *)
(***************************************************************************)

Change(d, f) ==
  /\ facts' = [facts EXCEPT ![d] = f]
  /\ worth' = [worth EXCEPT ![d] = {Earned(f, d)}]
  /\ UNCHANGED <<today, hour, autos, accrual, period, sess>>

\* An edit of attendance, leaves, bonuses or deductions is committed and then
\* queues a recompute of the day.
Edit(d, f) == Change(d, f) /\ Enqueue(d) /\ UNCHANGED missed

\* The edits that queue none: manual_record, update_record and reject_record,
\* schedule changes, and any edit while the broker is down.
EditSilently(d, f) ==
  Change(d, f) /\ missed' = missed \cup {d} /\ UNCHANGED queue

Pass ==
  /\ UNCHANGED <<facts, autos, accrual, period, queue, sess, missed>>
  /\ worth' = [d \in Days |-> worth[d] \cup {Earned(facts[d], d)'}]

Tick ==
  /\ today <= LastDay /\ hour < LastHour
  /\ hour' = hour + 1 /\ today' = today
  /\ Pass

Midnight ==
  /\ today <= LastDay
  /\ today' = today + 1 /\ hour' = 0
  /\ Pass

Next ==
  \/ \E s \in Sessions :
       \/ \E d \in Days : StartTask(s, d) \/ StartRequest(s, d)
       \/ StartSummary(s) \/ StartClose(s)
       \/ Excuse(s) \/ Sweep(s) \/ Delete(s) \/ Price(s) \/ Upsert(s)
       \/ Create(s) \/ NextDay(s) \/ Commit(s) \/ Abort(s)
  \/ \E d \in Days, f \in Facts : Edit(d, f) \/ EditSilently(d, f)
  \/ Tick \/ Midnight

Spec == Init /\ [][Next]_vars

(***************************************************************************)
(* Properties.                                                             *)
(***************************************************************************)

\* Once it exists, the period's total is the sum of its accruals
\* (models/salary.py: "Aggregates the month's accruals").
PeriodIsSum == period.exists => period.total = Total(accrual)

\* A day has at most one generated penalty of a type: a recompute replaces the
\* one of the recompute before ("running twice on the same day produces the same
\* numbers").
OnePenaltyPerDay ==
  \A x, y \in autos : x.day = y.day /\ x.type = y.type => x = y

\* What an accrual deducts is what the day's penalty rows add up to.
PenaltiesCounted ==
  \A d \in Days : accrual[d].exists => accrual[d].deductions = Owed(On(autos, d))

\* When the work queued for a day is done and no edit of it was missed, its
\* accrual shows what the day was worth at some moment since its facts were last
\* edited: what it is worth, if no check-in is open.
Settled(d) == queue[d] = 0 /\ d \notin missed /\ \A s \in Sessions : sess[s] = Idle
EarnedFresh ==
  \A d \in Days : Settled(d) => accrual[d].earned \in worth[d]

\* ... and its LATE penalty the lateness: a wipe precedes every early return of
\* _autogenerate_late_deduction ("actually cleans up the old row").
LateFresh ==
  \A d \in Days : Settled(d) /\ ~Excused(facts[d]) =>
    Owed({x \in On(autos, d) : x.type = "LATE"}) = LateDue(facts[d])

\* Not so (no run checks it): a forgotten check-out counts until the end of the
\* shift ("for past days, close at the assigned shift template's end_time").
\* Nothing recomputes a day that is past until the month's close, so that its
\* accrual keeps the hour of the last recompute of the day itself.
PastDaysCloseAtShiftEnd ==
  \A d \in Days : Settled(d) /\ d < today =>
    accrual[d].earned = Earned(facts[d], d)
=============================================================================
