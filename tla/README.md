# HR Profi: a TLA+ verification project

HR Profi is a multi-tenant HR, attendance and payroll service. `src/backend/app` is
a FastAPI application with Celery workers and a beat schedule, which share one
PostgreSQL database (READ COMMITTED, the default) and a Redis broker. Employees
check in and out on a tablet at the door (`src/kiosk-web`), on their phones
(`src/client-web`, `src/mobile`) or at a wall terminal; the backend turns attendance,
leaves, bonuses, penalties and KPI results into daily accruals, those into a monthly
salary period, and administrators approve and pay the period in a console
(`src/admin-web`).

No handler of the backend locks a row it reads, no table carries a version column,
and almost every write is "SELECT, compute in Python, UPDATE". The front ends keep a
copy of the server's rows in a query cache, in forms and in dialogs, name by hand
what a write makes stale, and run timers, sockets, a recognition loop and an offline
queue beside the user. What is hard about this program is therefore what two
sessions do to each other, what a job that runs twice, late or half does, in which
order answers come in, and which of the many copies of a number or a row is stale
when it is used.

## 1. Inventory

| Component | State | Operations | Interacts with | Hard behaviour |
|---|---|---|---|---|
| Salary periods (`services/salary_service.py` 622-892, `api/v1/salary.py`, `tasks/salary_tasks.py`) | `salary_periods` (status, total_earned, paid_amount, paid_at), `salary_transactions` | recompute, finalize, approve, mark paid, reopen, create transaction, bulk approve, bulk mark paid, monthly finalize, month-end close | accruals (its totals), audit trail | read-modify-write of `paid_amount`, status checks on rows read earlier, close at month end |
| Daily accruals (`services/salary_service.py` 1-651) | `salary_daily_accruals`, auto-generated LATE and ABSENCE rows of `deductions` | recompute_for_day, recompute_period, daily summary | attendance, leaves, shifts, bonuses, periods | concurrent recomputes of one day or of two days, autoflush on in tasks and off in requests, row locks held over a long task |
| Face sync (`services/face_sync_service.py`, `tasks/device_tasks.py`, `services/face_adapters`) | `face_sync_jobs` (action, status, attempts, next_retry_at), templates on terminals | enqueue, run due jobs, retry | devices on the network | two workers, retries with backoff, crash between device and commit, order of enroll and delete |
| Kiosk app (`kiosk-web/src`, `api/v1/kiosk_runtime.py`) | mode, overlays, camera stream, recognition tick, cooldown, roster | tap a tile, recognise, confirm, pick by hand, cancel | attendance, face recognition | answers after a cancel, a loop whose own renders cancel it, late permission prompt |
| Phone check-in (`client-web/lib/offline-queue.ts`, `app/(app)/today/page.tsx`, `mobile/app/(tabs)/home.tsx`) | selfie, mutation, IndexedDB queue, flushes | check in or out, queue, flush | attendance | offline, lost answers, overlapping flushes, a closed tab, a second account |
| Console: session and bell (`admin-web/src/lib`, `stores`, `NotificationBell.tsx`) | token pair, refresh in flight, waiting requests, socket, unread badge | log in and out, refresh, reconnect, fetch, mark read | sessions and tokens, notifications | shared refresh of a rotating token, duplicated pushes, dropped fetches |
| Console: pages (`admin-web/src/pages/app`) | query cache, forms, dialogs, mutations in flight | visit, type, press, fetch, poll, invalidate | every endpoint below | answers out of order, keys invalidated by hand, forms hydrated again, double clicks, rows held by dialogs |
| Attendance (`services/attendance_service.py`, `api/v1/attendance.py`) | `attendance_records` | check in, check out, manual record, update, reject | recompute task, notifications | check-then-insert, stale accruals after edits |
| Leaves (`api/v1/leaves.py`) | `leaves` and balances | request, decide, cancel, adjust | recompute task per day | overlap check then insert, decide against cancel |
| Bonuses and penalties (`api/v1/bonuses.py`) | `bonuses`, `deductions` | create, edit, delete | recompute task | best-effort dispatch |
| KPI (`services/kpi_service.py`, `api/v1/kpi.py`, `tasks/kpi_tasks.py`) | definitions, assignments (status, value, payout), the bonus row of a payout | compute, approve, reject, cancel, mark paid, finalize | bonuses | two approvals, recompute after approval, cancel after payout |
| Shifts (`services/shift_service.py`, `api/v1/shifts.py`) | schedules, templates, days off | assign, apply template, cancel | attendance, recompute | regeneration over existing days |
| Devices and webhook (`services/device_service.py`, `api/v1/devices.py`, `tasks/device_tasks.py`) | `devices` (status, last seen), event ids on attendance rows | register, event webhook, offline sweep | attendance, recompute task | duplicated events, sweep against heartbeat |
| Sessions and tokens (`services/auth_service.py`) | `refresh_tokens` | login, refresh (rotation), logout, change password | users | reuse of a rotated token, device limit |
| Users, branches, departments, employees | tenant data | create, update, deactivate | all | forms over stale rows, foreign departments |
| Companies, plans, owner | tenant data | create, update, deactivate | none of the modelled parts | none |
| Tenant filter (`core/tenant.py`, `core/deps.py`) | a ContextVar per request | set, filter | every SELECT | unset in Celery |
| Audit trail (`services/audit_service.py`) | `audit_logs` | record | every admin action | second commit after the effect |
| Notifications (`services/notification_service.py`, `ws_publisher.py`, `api/v1/notifications.py`) | notification rows, sockets | notify, list, mark read | the bell | best effort |
| Telegram, web push | subscriptions | send | events of the others | best effort |
| Reports, dashboards, face recognition, uploads, storage | read-only views, files, external calls | render, call | all | none that a step semantics would show |
| Owner console, other phone pages, deployment | none of the server's state | | API | |

`PROJECT.json` lists the same parts with their sources and how far each is modelled,
and the hazards, each at its line and with the properties that are about it.

## 2. Correctness, by component

*Salary periods.* Money handed out is what was owed, once; `paid_amount` agrees
with the transactions; a paid period is not approved or reopened; what the close
approves is what was computed.
*Accruals.* Recomputing is idempotent; the period is the sum of its days; an
accrual deducts the penalties that are stored; queued work catches up with every
edit.
*Face sync.* A terminal ends with the photo on file; one outstanding row per target;
the queue comes to an end.
*Kiosk app.* One check at a time, in the direction of the tile that is active when it
is sent; the camera is open only while scanning; whoever stands there is recognised.
*Phone check-in.* What was promised is neither forgotten nor sent back to the queue
once it is out, and it is tried before long.
*Console session.* The tab does not log itself out; the badge comes back to what the
server says.
*Console pages.* The user sees her own writes; what a page offers is what the server
accepts; a decision is not written over; a double click does once what it says; what
is typed is kept and what is saved is all that was typed.
*KPI, leaves, attendance, shifts, devices.* As far as a request is atomic, what the
console's pages say of them; their races are listed as hazards (section 7).

## 3. Modules and how they correspond to the code

| Module | Contents |
|---|---|
| `SalaryPeriod` | `salary_periods` and `salary_transactions`: approval, payment, reopening, bulk and scheduled jobs |
| `PayAccount` | what a month's pay promises, without sessions and cached columns; `SalaryPeriod` is shown to implement it |
| `SalaryRecompute` | `recompute_for_day` statement by statement: accruals, generated penalties, the period's total |
| `FaceSync` | the queue of face templates, its workers, the terminals |
| `Kiosk` | the tablet's page, its camera and loop, and the endpoints it calls |
| `Checkin` | the phone's Today page, its offline queue and flushes, the native app, the server's check-in |
| `Session` | a console tab: tokens, single-flight refresh, socket, bell |
| `ScreenTables` | the form of the tables an area of the console is described by, and what is supposed of them |
| `Console` | the machine that runs those tables: query cache, forms, buttons, calls, the record at the server |
| `ConsoleLeaves`, `ConsoleKpi`, `ConsolePayroll`, `ConsoleAttendance`, `ConsoleShifts`, `ConsolePeople` | the tables of twenty-two screens, read off the pages and their endpoints |
| `EmployeeForm` | the two effects of the employee form that hydrate the branch and clear a foreign department |
| `SalaryPeriodProofs`, `SalaryRecomputeProofs`, `FaceSyncProofs`, `KioskProofs`, `CheckinProofs`, `SessionProofs`, `ConsoleProofs` | theorems |
| `Induction` | induction over data, stated for sets, and what it gives of sums over finite sets |
| `MCSalaryPeriod`, `MCSalaryRecompute`, `MCFaceSync`, `MCKiosk`, `MCCheckin`, `MCSession`, `MCConsole`, `MCEmployeeForm` | instances for TLC; each `.cfg` is one run |

`SalaryPeriod` and `SalaryRecompute` meet in one place. What the accruals of a
month add up to is an arbitrary member of `Totals` in the first (`fresh`, which
the environment changes at any moment) and is computed in the second. Composing
them would multiply their states and let no property be said that one of them
cannot say. `Console` and its areas are composed in `MCConsole`: an initial state
chooses an area, and the areas share no record. Definitions whose comment begins with
"Mutated" are the deviations the runs are tried against; nothing else uses them.

### SalaryPeriod

State: `period` (the committed rows), `ledger` (the sum of a period's
transactions by type; what was really handed out), `fresh` (what a recompute
would find), `tx` (per database session, the rows as they were loaded, the values
assigned since, the transactions to insert and the rows whose lock it holds).

Every handler is an action that SELECTs and computes, followed by `Commit` or
`Rollback`. `Commit` writes the columns that differ from their loaded value, as
SQLAlchemy's unit of work does, so a column another session has changed is
overwritten only if this one assigned it. `CreateTransaction`, `MarkPeriodPaid`,
`ApprovePeriod`, `FinalizePeriod`, `ReopenPeriod`, `Recompute` are the endpoints
of `api/v1/salary.py`; `BulkApprove`, `BulkMarkPaid` and `BulkRecompute` the bulk
ones; `MonthlyFinalize`, `DailySummary`, `CloseRecompute` and `CloseApprove` the
tasks. Long jobs that recompute one employee after another keep the row locks of
what they have flushed (`locked`).

Merged: consecutive reads of one handler; the descriptive columns, which no guard
reads. A company and a month are fixed. `SerialSpec` is the same system where a
session begins only when no other is open.

### SalaryRecompute

State: `facts` (attendance, leave, schedule and manual amounts of each day),
`today` and `hour` (the clock), `autos` (the LATE and ABSENCE rows with
`auto_generated`), `accrual`, `period`, `queue` (Celery messages), `sess` (the
transaction of each session and the statement it is at). Ghosts: `worth`, what each
day has been worth since its last edit, and `missed`, the days whose last edit no
recompute has taken up and none is queued for.

What a day is worth depends on the hour at which it is priced: a check-in without
check-out counts until now on the day itself and until the end of the shift afterwards
(`Worked`, `_hours_for_day`), so `Tick` and `Midnight` change it without any edit.
`HoursPay` is the base pay of those hours for the four kinds of salary, `Overtime` what
a rest day's hours and the recorded overtime add.

One transaction is: DELETE of the day's LATE rows and INSERT of the new one (`Sweep`, or
`Delete` if it had to wait for a row that another session was deleting), the same
for ABSENCE, the SELECTs that price the day (`Price`), the upsert of the accrual
(`Upsert`) with the SUM of the month, the INSERT of the period if there is none
(`Create`), the UPDATE of the period (`NextDay`, `Commit`). `Waits` are
PostgreSQL's row locks. `Autoflushes` separates the sessions of tasks, which see
penalties they have just added, from those of requests, which do not
(`database.py` sets `autoflush=False`). `Abort` is any rollback: a task is retried or,
after its three retries, given up, which adds its days to `missed`; `Commit` may be
followed by the redelivery of its message (`task_acks_late`). A recompute that the
queue did not ask for (the summary, the close, a request) takes over the missed days it
covers (`owes`).

Abstracted: times of day to hours, small integers, and the rates to numbers per hour;
the late rules to `LateFine`; a leave's own amount to `DayPay`; bonuses minus manual
deductions to one number a day; ids to a number unique within a day and type; a company-wide job to its share of one employee. A DELETE
takes its row locks when it ends. An edit of a day is one step, its dispatch
included (`Edit`), or queues nothing (`EditSilently`).

### FaceSync

State: `employee` (one), `device` (status), `template` (the photo that a terminal
really holds), `jobs` (the committed rows), `due` (rows whose `next_retry_at` has
come, in that order), `worker` (a run of `process_pending`), `request` (an edit
whose fan-out is still to come).

An edit commits and begins a fan-out (`CreateEmployee`, `UpdateEmployee`,
`TerminateEmployee`, `CreateDevice`, `Command`), which then looks its rows up
(`Lookup`) and writes them (`Enqueue`), or is lost (`LoseFanout`: every caller
logs and drops an exception). A worker selects its batch (`Start`), and for each
row flushes IN_PROGRESS and reads the terminal and the employee (`Take`), then
calls the terminal (`Push`); `CommitBatch` is the only commit. A call to an
unreliable terminal may time out before or after it took effect (`Answers`).
`Overlap` says whether batches and edits overlap. `Waits` and `Clashes` are the row lock of a flush and the partial unique index
`uq_face_sync_active`; `Abort` is a unique violation or a deadlock; `Crash` a
worker that dies. IN_PROGRESS is never committed, so no session sees it.

Abstracted: time to the order in which rows become due; a photo to the number of
its upload; reading and writing an edit's own row, and a manual retry, to one
step. Not modelled: hard deletion of a terminal (rows cascade), a terminal that
moves to another branch (`update_device` enqueues nothing), dry-run mode, more
than one employee (rows of two employees share nothing but the batch).

### Kiosk

State: `ui` (what `MainPage` renders from), `camera` (the preview, the permission
prompts that are open, the streams), `tick` (the recognition request in flight),
`streak`, `cooling`, `checks` (the posts in flight), `face` (who stands there), `day`
and `inside` (the server's rows).

The recognition loop is a React effect one of whose dependencies is a new object on
every render, so each render that changes anything runs its cleanup and cancels the
tick in flight, the render that sets `scanning` included. `Render` is that rule, and
every action that changes `ui` goes through it. `StartTick`, `AnswerTick`,
`DropTick` and `LoseTick` are one round of the loop; `Record`, `Settle` and
`FailCheck` one check. Timers are actions that may happen whenever their timer runs.
A camera grant that comes after the preview has gone (`LatePrompt`) is a step of its
own. Abstracted: a frame to the face on it, a timer's length, sounds and wording.

### Checkin

State: `page`, `account`, `shown` and `capture` (the tab), `submits` (react-query's
mutations), `queue` (IndexedDB), `flushes` (runs of `flushQueue`), `posts` (requests,
which the server goes on with after the client is gone), `native`, and the server's
`last`.

A submission is a mutation with the default network mode: it is paused in memory while
the library has seen the browser go offline, so only a request that was tried and
failed reaches the queue (`Submitted`). `StartFlush` snapshots the queue, `PostNext`
and `FlushAnswered` go row by row; any number run, because the event `online`, the
service worker's message and the interval each start one. `CloseTab` takes what is in
memory. The server reads in `Check` and inserts in `Insert`. Ghosts: `tapped`,
`stashed` (what the page promised), `credited` (which tap became whose row).
Abstracted: the selfie's bytes, positions, times of day.

### Session

State: `token` (the persisted pair, numbered as issued), `calls`, `refreshing`, the
server's `active` and `fresh` tokens, `ws` and `sockets`, `notes` at the server and
`bell` in the store, `fetching` (its two requests).

`Unauthorized` starts the shared refresh or joins it, `ServeRefresh` rotates or, for a
token used before, revokes every session of the user (`auth_service.py` 173-190).
`OnClose` and `Reconnect` are the socket's back-off; `Notify` pushes to every open
socket. A fetch asked for while one runs is dropped (`FetchAll`), and `MarkReadFails`
leaves the optimistic change in place. One tab: a second one would share the
persisted token but not the refresh (section 6).

### Console and its areas

An area is a table: for each page the queries it keeps mounted, the one the record is
shown from, how its form is filled (followed, once, empty, over a grid), which fields
can be typed into and what it offers for each state of the record; for each mutation
what its endpoint accepts and leaves, the query prefixes `onSuccess` names, the fields
its body carries, whether its button is disabled meanwhile, and behind which other
calls. `ScreenTables` documents the columns. Where the code is irregular a column says so: `forgets` are queries a
mutation does not invalidate (branch and user lists, the grid's bulk assignment),
`vain` a control that is offered although the endpoint refuses it (reopening an
approved period that money was paid on), `overrides` endpoints that look at no state
(KPI cancel and reject), `ignored` fields that can be edited and are not sent, `again`
a control that is never disabled and does the same thing once more at every press (the
copy of a KPI template). The page
of a record that is not there offers only its way back (`Existing`), the dialog of a row
its controls only in the states in which the page opens it (`OfRow`). So the tables can
be asked, apart from those irregularities, to offer only what the endpoint accepts, to
send whatever can be typed, and to leave decided records alone; `TablesAssumption` does.

`Console` gives the tables their meaning: `Visit` mounts queries, `ServeFetch` reads
at the server and `AnswerFetch` arrives in any order, `Type`, `Press` with the pending
state, `ServeCall`, and `Succeeded`, which marks, refetches, and may change the page
even when the user has left it. `AskedAgain` is react-query's rule of which fetches an
invalidation cancels and repeats: those of mounted queries that have data already. A
first load goes on, although the server may have read before the write, and its answer
clears the mark; so does the fetch of a page that was left. `MustShow` claims nothing of
a query that such a fetch, already answered by the server, is still to reach. A call
that answered an error after its commit stays in `calls` as "failed", so that pressing
once more is compared with it. `Other` is anybody else's write. Versions of the
record are numbered, so a cached answer, the base of a form and an acknowledged write
are numbers.

Abstracted: one record per screen; the network is reliable; the cache evicts nothing;
refetches that would bring nothing new; lookups do not change; endpoints are atomic,
and those that queue recomputes answer before the tasks run; notes typed in dialogs;
totals of dashboards.

### EmployeeForm

The edit page mounts the form when the employee is there, and only then asks for the
departments; until they come `allDepts` is a new empty list at every render, so the
effect on the department runs and finds nothing. `due` is an effect that still has to
run after a render; it runs before anything else happens.

## 4. Runs

| Run | System | Checked |
|---|---|---|
| `period_serial` | two employees, one inactive, one session | `TypeOK`, `PaidMatchesLedger`, `NeverPaidTwice`, `ReopenOnlyUnpaid`, `ApprovalKeepsPaid`, `CloseCapturesInputs`, refinement of `PayAccount` |
| `period_races` | one period, two sessions | `PaidNeverOverstated`, `SettledInFull` |
| `race_paid_twice` | one period, two sessions | finding |
| `recompute_serial` | two days of three hours, one of them edited, one session; an open check-in, tasks retried, delivered again and given up, nightly summary, month-end close | `TypeOK`, `PeriodIsSum`, `OnePenaltyPerDay`, `PenaltiesCounted`, `EarnedFresh`, `LateFresh` |
| `recompute_same_day` | one day, two sessions, tasks and requests | `PeriodIsSum` |
| `facesync_serial` | one unreliable terminal, an employee who may move to a branch without terminals and back, one batch or edit at a time, crashes, manual retries, commands | `TypeOK`, `GivenUpLast`, `PhotoCurrent`, `NeverOlder` |
| `facesync_overlap` | one terminal, the beat worker, a manual run and a request | `OneOutstanding`, `QueueDrains` |
| `kiosk_loop` | an enrolled employee and strangers, two tiles tapped, one disturbance | `OneCheckAtATime`, `CameraOnlyWhileScanning`, `CheckFollowsTile`, `LoopServes` |
| `checkin_queue` | two selfies, two flushes, one disturbance | `NothingForgotten`, `NothingResurrected`, `QueueServed` |
| `session_tab` | one login, two requests, three sockets, one message, one disturbance | `TypeOK`, `SessionKept`, `BadgeSettles` |
| `console_areas` | twenty-two screens, each with one write of somebody else | `TypeOK`, `Coherent`, `FormCurrent`, `RefusedOnlyWhenMoved`, `NoDoubleEffect`, `DecidedOnce`, `EditsStick`, `TypedKept` |
| `employee_department` | two branches, three departments | finding |

Bounds, and why they are enough:

- `MaxLedger` stops a payment from beginning once that much has been paid.
  With `Totals = {0, 2}` and `Amounts = {1}` a period can be partly paid, fully
  paid and overpaid by a race. Two sessions suffice for a lost update; a third
  only repeats one. Two periods are for the bulk operations, which skip the
  inactive employee.
- `LastDay = 2` gives a day that a month goes on to and a sum of two; the close
  fires on day 2 (`CloseDays`). `MaxQueue = 1`: further messages for one day do
  what the first one does again. `AnyDay` has a late check-in left open, a corrected
  one with check-out, overtime and bonus, and a paid leave; a day that nobody has edited
  is blank and becomes an absence. Edits go to one day, either of the two
  (`OneDayEdited`, a CONSTRAINT), while summary, close and absences concern both: that is
  enough for a penalty to come, go and be swept while the other day's accrual is
  summed with it. A rest day that was worked is in the run with overlaps. `LastHour = 2` and
  `ShiftEnd = 3` let an open check-in be worth four different amounts, `FullDay = 2`
  lets hours exceed a full day. The rates are chosen so that no two sums coincide; the
  kinds of salary differ between the runs (MONTHLY, DAILY) and are any in the proofs.
- `BatchSize = 2` is the smallest batch that commits after a second call, and
  that can deadlock. `MaxAttempts = 2` has a first failure that backs off and one
  that gives up. `MaxJobs` (2 or 3) bounds the rows ever inserted, `MaxPhoto` the
  uploads. Overlap is checked with two rows, because its hazards are about one
  target and two workers; the order of three rows is checked without overlap. One
  terminal, because rows of two terminals share nothing but the batch; a second
  branch gives the DELETE and ENROLL of a move.
- `Kiosk`: `MaxTaps = 2` allows a second scan, in the other direction, while
  requests of the first are still on their way; `MaxFailures = 2` is the first value
  for which a streak begins and ends. One employee: the rows of two share nothing, and
  the overlays hold one at a time (the proofs are for any number).
- `Checkin`: two taps are the smallest queue in which a row that is refused again and
  again could hold up another, two flushes the smallest overlap. One person, who may
  log out and in; several people are in the proofs.
- `Session`: two requests are the smallest number that shares a refresh. Three sockets
  are the first, the one that replaces it when the token changes, and the one the close
  of the first opens beside that: from then on an event is delivered twice.
- `Console`: three pages and one button open a form again after its save; one page and
  two buttons are a double click, or a save and another action. One foreign write is
  what makes a dialog stale. `TablesAssumption` is evaluated over all twenty-two tables,
  and the mutations of the machine are what a wrong table would do: a button offered in
  any state, a decision taken in the state that the page saw, a body without a field.
- `CHECK_DEADLOCK FALSE` where a bounded history ends with nothing left to do:
  `facesync_overlap` and the runs of the front ends.

Fairness is assumed where a property says that something happens, of the program and
never of its users:

- `FaceSync`: beat starts a worker again and again (`celery_app.py`, every 30 seconds);
  the time of `next_retry_at` comes; a worker that can go on does, and PostgreSQL
  grants a lock in the order of the requests for it, so a worker that waits while the
  lock is released again and again gets it (strong fairness of `Drain`). `QueueDrains`
  supposes that edits, manual retries and crashes stop; aborts may go on.
- `Kiosk`: the interval of the loop fires, recognition answers or fails, the browser
  decides about the camera. Nobody has to touch the screen. `LoopServes` does not
  follow from fairness alone: the loop's own render cancels a tick, and the property
  is that the next one gets through.
- `Checkin`: the interval of an open page flushes, a flush goes on, the server and the
  network answer or fail.
- `Session`: the bell polls (every 30 seconds) and its two requests are answered or fail.

## 5. Proofs

`tlapm` checks every proof to its leaves. Assumptions are the ASSUMEs on constants
that the modules declare; TLC evaluates them in the runs.

`SalaryPeriodProofs`, for any sets of periods, sessions, totals and amounts:

- `TypeCorrect`, `NeverOverstated` and `MarkPaidSettles` hold of `Spec`, with any
  number of overlapping sessions. `PaidNeverOverstated` is not inductive: a
  session may have loaded a `paid_amount` and a COMMIT adds the difference to
  what it assigned. `RaceInv` adds that no loaded `paid_amount` exceeds what had
  been handed out, and that every session's assignment is `Legal`, that is, moves
  `paid_amount` by exactly the transactions it inserts.
- `ApartLedger`, `ApartReopen`, `ApartApproval`, `ApartPaysOnce` and `ApartImplements`
  hold of `Spec` as long as no two open sessions have loaded the same period (`Apart`),
  however many overlap otherwise: the races of this workflow are all between two
  sessions on one row, and a lock on the rows that a handler reads would close them.
  `ApartInv` says that what a session has loaded is still the committed row; then a
  COMMIT is one `Legal` move of each period, which is what each property, and each move
  of `PayAccount`, follows from.
- `SerialLedger`, `SerialReopen`, `SerialApproval`, `SerialPaysOnce` and
  `SerialImplements` are the same of `SerialSpec`, whose sessions keep apart.
  `SerialCapture` (`CloseCapturesInputs`) needs more than that, because an edit of the
  inputs overlaps with no row: `SerialInv` adds that a close in flight has computed what
  a recompute would still find.

`SalaryRecomputeProofs`: `PeriodSum` states `PeriodIsSum` for any facts, rates and
kinds of recompute, when sessions do not overlap or the month has one day. `SumInv`
says that at most one session is between its upsert and its COMMIT (with one day, the
lock on the accrual's row sees to that) and that the sum it has taken is the one its
COMMIT makes true. Without that condition the property is false (section 6). For one
session at a time, which is how `recompute_serial` runs, it goes on to

- `OnePenalty` (`OnePenaltyPerDay`). `PenaltyInv` says that what a transaction adds
  replaces what it has deleted: of a day and a type one row, and all the others are
  gone; the sweeps behind and ahead of it do not mix.
- `PenaltiesAddUp` (`PenaltiesCounted`), without recomputes in requests, whose session
  does not autoflush. `CountedInv`: a transaction has touched the penalties of the days
  it has repriced and of the one it is at, and no other.
- `EarnedCurrent` (`EarnedFresh`). `FreshInv`: a day whose accrual is none of what the
  day has been worth since its last edit (`worth`) has a task that waits, is owed by the
  transaction that runs, or is missed; and what a transaction has priced is one of those
  values unless a task waits or the day is missed. The clock only adds values to
  `worth`, so it disturbs none of that; an edit empties it and queues or misses the day.
- `LateCurrent` (`LateFresh`). `LateInv`: the rows as they will be after a transaction
  show the LATE penalty of every day that it has swept, and a day whose committed rows
  do not show it has a task that waits, is owed by the transaction, or is missed.

`TypeCorrect` holds with any finite number of overlapping sessions. What a transaction
deducts is a sum over the penalties it sees; that it is a natural number, and the
month's total an integer, is `SumTyped` of `Induction`.

`FaceSyncProofs`, for any terminals, workers, requests, batches and bounds; the first
three whatever overlaps.

- `TypeCorrect`: the batches, the fan-outs and the list of due rows name rows that
  exist, and no row is committed IN_PROGRESS.
- `OneOutstandingAlways` (`OneOutstanding`). `LiveInv` adds that a due row is
  outstanding, and that two batches never hold flushed rows of one target, nor one batch
  a second row beside it. The unique index alone does not give this, because a row that
  a batch has flushed to SUCCESS and may still roll back has left it: what does is that
  its lock, and the entry of the index it would go back to, keep others waiting.
- `GivenUpAtTheLast` (`GivenUpLast`). `CountInv`: the status that a batch is about to commit
  follows from the attempts it loaded and one more, and there was one left.
- `PhotoStaysCurrent` (`PhotoCurrent`), when one batch or edit runs at a time
  (`Overlap = FALSE`), no terminal is deactivated, no employee rehired and no fan-out
  lost (`Undisturbed`); TLC finds an outdated photo without any of them. `CurrentInv`:
  a terminal with a stale photo is `Wanted` by a fan-out that is still to come, or has
  a row that it was not yet called for with success (`Queued`).
- `PhotosMoveForward` (`NeverOlder`) for one worker, although requests may overlap with
  the batch. `PhotoInv` relates three photos: the one on file is the newest upload or
  none; no terminal is ahead of the uploads; and what a worker has read and not yet
  pushed is not older than any terminal. Only the last makes the property inductive, and
  only one worker keeps it: a second one that has read a newer photo may push first.

`KioskProofs`, for any employees and bounds: `OneCheck` (`OneCheckAtATime`),
`LoopFollowsTile` (`CheckFollowsTile`) and `CameraCloses` (`CameraOnlyWhileScanning`:
by `CameraInv` a camera that is off holds no stream, and one that is not is there only
in a mode of a signed-in page). The invariant of the first two joins them: a tick that
is not cancelled finds the loop as it left it, unblocked and in the same mode
(`TickMeetsLoop`, which the cleanup of the effect keeps up), and a check in flight is
covered by the greeting or the dialog, so neither the loop nor the sheet starts another.

`CheckinProofs`, for any people, flushes and bounds: `PromisesKept`
(`NothingForgotten`) and `SentOnce` (`NothingResurrected`). `QueueInv` adds that a
flush has at most one live post, that of the row it is posting, so an answer it takes
for its row is about that tap; that a recorded post is credited; and that a tap is
submitted once, and not any more when it has been stashed. `TypeCorrect` is the type
invariant they rest on.

`SessionProofs`, for any bounds: `InterceptorKeepsSession` (`SessionKept`). As long as
nothing disturbed the session, the stored token is the active one, unless the refresh
in flight is just replacing it; so no refresh presents a rotated token. `TypeCorrect`
needs a count: the pairs issued, the refresh that waits for one and the requests that
were never retried are together at most the logins and requests so far (`ServerInv`),
since whoever starts a refresh is retried from then on.

`ConsoleProofs`, for any tables that satisfy `TablesAssumption` and any number of pages,
presses and foreign writes:

- `OwnWritesShown` (`Coherent`). `CacheInv` adds that a fetch in flight never holds an
  older version than the cache is known to need, and that a key that does not yet show
  an acknowledged write is marked or being fetched. Needed of a key is what `MustShow`
  says when the write is acknowledged: everything the mutation changes, but for a fetch
  that react-query leaves in flight and the server has answered already. Of those the
  statement is false (`NoOldAnswerInFlight`, section 6).
- `FormsCurrent` (`FormCurrent`), from the same and the fact that a followed form that
  nobody typed into shows what the cache does (`FormInv`).
- `TypingKept` (`TypedKept`): the saves that settle are those of the page that is open.
- `PressedOnce` (`NoDoubleEffect`): of the calls of a guarded button on one page one is
  in flight, and every call's answer records the version it wrote (`CallInv`). A failed
  call no longer disables its button: what it did is repeated harmlessly (`ErrorsKnown`:
  only the calls that the tables list with `errs` are ever kept as failed).
- `RefusalsAreNews` (`RefusedOnlyWhenMoved`), `DecisionsStand` (`DecidedOnce`) and
  `EditsAreStored` (`EditsStick`), from `Sound`: every version of the record is in one of
  its states (`RowsInv`); the page's form, or the row its dialog was handed, is a version
  of the record that exists (`HeldInv`); and each call was pressed on a version in which
  its endpoint accepts it, is refused only if some version since then does not, and, if
  it was accepted, names the version that holds what its form had (`CallsTrue`).
- `TypeCorrect` (`TypeOK`): pages opened and versions written are bounded by the presses.
  `CountInv` counts the calls in flight: each has cost a press, and may still write a
  version and open a page, once.

`TablesAssumption` is what those theorems ask of the code: every mutation names a
prefix of every query it changes, apart from those it is listed to forget; a form that
follows a query follows one that shows the record; a button without a pending state, or whose
call may fail after its commit, asks for something that is done once, unless it is listed
in `again`; what is offered is accepted, what is typed is sent
and what was decided stays, apart from `vain`, `ignored` and `overrides`. TLC evaluates
it over the tables of all areas.

`Induction` makes induction over data possible although no prover instantiates the
library's rules, which take an operator: its rules take the set of the numbers for which
something holds. `NatSetInduction` follows from the well-foundedness of < on the
naturals; `SumExists` shows that the recursive function inside `MapThenSumSet` is there,
and `SumTyped` that its values are numbers.

Only model-checked:

- `QueueDrains`, `LoopServes`, `QueueServed`, `BadgeSettles`: liveness under fairness,
  which needs ENABLED.
- The two properties that TLC finds violated (section 6). `NeverPaidTwice` is proved
  of sessions that keep apart, where it holds.

Every other property of the runs is stated by a theorem. What a theorem supposes beyond
its run (one session, one worker, `Undisturbed`) is how that run is configured,
and where it is not supposed the run of the overlapping system or section 6 shows why it
is needed.

## 6. Where the code departs from what it says

With a run that TLC ends with a counterexample:

- Two overlapping mark-paid requests pay the rest twice (`race_paid_twice`).
- Opening the edit page of an employee clears the department, and saving stores it:
  the effect that clears a foreign one runs before the departments are there
  (`employee_department`; `EmployeeForm.tsx:337` against the comment at 332).

Stated as a definition of a module that no run checks, because TLC finds it violated.
Adding it to the run's `.cfg` shows the counterexample:

| Definition | Add to | What happens |
|---|---|---|
| `LockedAfterApproval` | `period_serial` | a recompute changes the total of an approved period (`salary_service.py:650` against `models/salary.py:82`) |
| `OnePenaltyPerDay` | `recompute_same_day` | two recomputes of a day store its penalty twice (`salary_service.py:466` against line 13) |
| `PeriodIsSum` | `recompute_same_day` with `LastDay = 2` and `LastHour = 0` | recomputes of two days at once lose one of them from the period (`salary_service.py:650` against `models/salary.py:52`) |
| `TerminatedForgotten` | `facesync_serial` | a failed ENROLL that is retried after the DELETE of a termination puts the template back (`face_sync_service.py:254`); `cancel_for_employee` (178), which would prevent it, has no caller |
| `PhotoCurrent` | `facesync_overlap` with `MaxPhoto = 2` | a photo uploaded while a worker runs the row of the one before is never pushed (`face_sync_service.py:119` against line 95) |
| `GreetedIsRecorded` | `kiosk_loop` | the cooldown is stamped before the check is posted and stays when it fails, so an employee is greeted without a row (`MainPage.tsx:249` against 235) |
| `QueueOfTapper` | `checkin_queue` with `TwoPeople` | a queued selfie is posted with the token of whoever logs in next; `clearQueue`, "used when the user explicitly logs out" (`offline-queue.ts:152`), has no caller |
| `OneSocket` | `session_tab` | the close of a replaced socket clears the reference to the new one and reconnects: two live sockets (`ws.ts:40` against line 1) |
| `SavedBeforeDropped` | `console_areas` | the grids of the schedule drop the cells typed while a save was on its way (`SchedulePanel.tsx:224`, `MonthlyScheduleEditor.tsx:129`) |
| `PastDaysCloseAtShiftEnd` | `recompute_serial` | "for past days, close at the assigned shift template's end_time" (`salary_service.py:68`) holds only when a past day is recomputed: the nightly summary prices a forgotten check-out until its own hour, and nothing looks again before the month's close |
| `NoOldAnswerInFlight` | `console_areas` | a write acknowledged while the first load of a query is on its way: the answer that was read before the write arrives after it, clears the mark and is taken for fresh for 30 seconds (`main.tsx:21`), by an edit page's form too (`LeaveEditPage.tsx:27`) |
| `HydratedOnce` | `console_areas` | edit pages that follow their query lose what was typed when it is refetched (`LeaveEditPage.tsx:27` against the comment at 25, and the pages of branches, departments, employees, templates and leave types) |

Met while modelling, payroll:

- `create_transaction` makes a period PAID for a FULL_PAYMENT of any amount
  (`api/v1/salary.py:341`), while `models/salary.py:42` says "pending == 0". It
  does not set `paid_at` either, and no code sets PARTIALLY_PAID. A BONUS lowers
  what is pending like any other transaction.
- `approve_period_endpoint` approves the total of the last recompute, while its
  docstring says "Refreshes totals first" (`api/v1/salary.py:220`).
- An approval and a mark-paid, or a reopen and a payment, that overlap: the status
  written last wins.
- `admin_recompute` does not see the penalty it has just added, because its
  session does not autoflush, so the accrual does not deduct it.
- A leave approved after a day was charged does not take the penalty back: the
  wipe is skipped together with the sweep (`salary_service.py:549`).
- A recompute that began before an edit may upsert after the one that the edit
  queued (only with overlap: `EarnedFresh` holds without).
- A task that has failed four times is given up and its day stays as it was. "daily_summary
  will catch up", says `attendance_service.py:526` of a message that could not be queued;
  the summary recomputes today alone, so an edit of a past day waits for the month's close.
- `month_end_close` can deadlock with a task, and nothing retries it. The nightly
  summary recomputes today alone, so the absence of the month's last day is
  charged only if something else recomputes it.
- Bulk approve and bulk mark-paid commit and then call `audit_service.record` with an
  argument it does not take, so the console shows an error for what was done (`errs` in
  `ConsolePayroll`).

Face sync:

- `retry_face_sync_job` says it "Doesn't touch the unique constraint"
  (`api/v1/devices.py:706`); a retry of a SUCCESS row beside an outstanding one of
  the same target violates it (`RetryJob`'s guard stands for the error).
- A photo change while a terminal is deactivated is not pushed when it comes back;
  rehiring with the same photo enqueues nothing. `_run_one` flushes IN_PROGRESS "so
  ops queries see live state" (`face_sync_service.py:229`), which nobody sees before
  the COMMIT.

Front ends:

- A check-in made offline is paused in memory and dies with the tab: only a request
  that was tried and failed is stashed, while the header of `offline-queue.ts` (4-14)
  says that the selfie is. A row that is refused is tried again forever; `captured_at`
  is not sent, so a late flush is recorded at the time of the flush.
- Two tabs of the console share the persisted token but not the refresh in flight, and
  the second use of a rotated token revokes every web session of the user
  (`auth_service.py` 173-190). A logout that races a refresh is undone by it
  (`admin-web/src/lib/api.ts:39`).
- KPI cancel and reject look at no state: a stale drawer cancels an assignment that
  was paid (`api/v1/kpi.py` 580-603, 680-704; `models/kpi.py:87` says "voided early").
- Reopening is offered for an approved period that money was paid on, and refused.
- A drawer or edit page that restates the status it was opened with takes back a
  rejection (`RecordDetailsDrawer`) or a deactivation (`UserEditPage`).
- The button that duplicates a KPI template is never disabled (`TemplatesTab.tsx:177`) and
  every press makes a template: a double click leaves two copies (`again` in `ConsoleKpi`).
- Mutations that do not reach lists which show what they changed: branches under two
  roots (`["branches", ...]`, `["app", "branches"]`), the list of users after a login is
  created, the grid after a bulk assignment.
- The leave edit page sends a leave type that its endpoint ignores; clearing cells of
  the monthly schedule, or the expected hours of a template, is not carried.

## 7. What is not modelled, and why

- Queries and predicates without steps of their own: the tenant filter, permissions,
  reports, dashboards, the audit trail (nothing reads it back).
- External: face recognition, object storage, the vendors' protocols of the terminals,
  Telegram and web push, whose outcome nothing reads.
- Single-row create, read, update and deactivate by one owner: companies, plans, the
  owner's console.
- Pages of the console over devices, kiosks, Telegram, company settings: the same cache
  machine over records without a workflow. Pages of the phone app other than Today.

Partly modelled, with the part that is missing:

- KPI: the workflow is that of `ConsoleKpi`, where an endpoint is one step. The formulas
  and the bonus or deduction that settles an approval are left out, and with them the
  race of two approvals that each insert one (`kpi_service.py:673`).
- Leaves: likewise `ConsoleLeaves`. The overlap check of two requests that run at once
  is not modelled.
- Attendance: the check-in with its read and its insert is in `Checkin`, manual records
  and reviews in `ConsoleAttendance`, their effect on pay in `SalaryRecompute`. That the
  rows of a day alternate is not claimed: two requests may both pass the read.
- Devices: registration, heartbeat, sweep and deactivation are in `FaceSync`; the
  webhook's deduplication of events is not.
- Shifts: templates and the month's entries are tables of `ConsoleShifts`; how a
  regeneration treats manual exceptions is not modelled.
- Sessions and tokens: rotation, reuse, logout and revocation as one web session meets
  them; the device limit of the mobile app is not modelled.
- Two tabs of one browser: their shared storage is left out of `Session` and of `Checkin`.
