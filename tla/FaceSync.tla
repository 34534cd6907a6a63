------------------------------ MODULE FaceSync ------------------------------
(***************************************************************************)
(* The queue that keeps the face templates of one employee on the          *)
(* terminals of the branches (backend/app/services/face_sync_service.py,   *)
(* api/v1/employees.py, api/v1/devices.py, tasks/device_tasks.py).         *)
(*                                                                         *)
(* An edit of the employee or of a terminal commits and then, in a second  *)
(* transaction, fans out face_sync_jobs: ENROLL, UPDATE or DELETE, one row *)
(* per terminal.  Beat starts a worker every 30 seconds and an admin can   *)
(* start one at any moment.  A worker SELECTs the due rows without a lock, *)
(* flushes each as IN_PROGRESS (which locks it until COMMIT), calls the    *)
(* terminal, and commits once, after the last row of the batch: another    *)
(* session never sees IN_PROGRESS, and a crash takes back what the rows    *)
(* say, not what the terminals did.                                        *)
(*                                                                         *)
(* A photo is the number of its upload, 0 for none.  Time is the order in  *)
(* which rows become due (next_retry_at): a row that is due stands in due, *)
(* one that backs off does not.                                            *)
(***************************************************************************)
EXTENDS Integers, Sequences, FiniteSets, SequencesExt

CONSTANTS
  Devices,      \* terminals
  Branches,
  Site,         \* the branch of each terminal
  Installed,    \* the terminals that are registered from the start
  Flaky,        \* terminals that may not answer, or answer too late
  May,          \* what may happen besides: "deactivate" a terminal, "rehire"
                \* the employee, "clear" the photo, "command" a terminal, "retry"
                \* a row by hand, "lose" a fan-out
  Workers,      \* runs of process_pending that can overlap
  Beat,         \* the worker that beat starts
  Requests,     \* API requests that edit and fan out
  Overlap,      \* may they overlap, or is there one batch or one edit with its
                \* fan-out at a time?
  BatchSize,    \* rows that one run takes
  MaxAttempts,
  MaxPhoto,     \* bound: photos uploaded
  MaxJobs       \* bound: rows ever inserted

ASSUME SiteAssumption ==
  /\ IsFiniteSet(Devices) /\ Site \in [Devices -> Branches]
  /\ Flaky \cup Installed \subseteq Devices
ASSUME WorkersAssumption == Beat \in Workers /\ Overlap \in BOOLEAN
ASSUME BoundsAssumption ==
  /\ BatchSize \in Nat \ {0} /\ MaxAttempts \in Nat \ {0}
  /\ MaxPhoto \in Nat /\ MaxJobs \in Nat
  /\ May \subseteq {"deactivate", "rehire", "clear", "command", "retry", "lose"}

VARIABLES
  employee,     \* the committed employees row
  uploads,      \* photos uploaded so far
  device,       \* the committed status of each terminal
  template,     \* the photo each terminal really holds
  jobs,         \* the committed face_sync_jobs, in order of insertion
  due,          \* the rows whose next_retry_at has come, earliest first
  worker,       \* the batch each worker is in
  request       \* the fan-out each request is in

vars == <<employee, uploads, device, template, jobs, due, worker, request>>
queue == <<jobs, due>>

Actions == {"ENROLL", "UPDATE", "DELETE"}
Outstanding == {"PENDING", "RETRY"}
Statuses == Outstanding \cup {"SUCCESS", "FAILED"}
Targets == Devices \X Actions

NoBranch == "none"
Newcomer == [hired |-> FALSE, active |-> FALSE, photo |-> 0, branch |-> NoBranch]

\* rest: the rows still to run; loaded: attempts of each row as selected; done:
\* what became of the others; photo, reachable: what the worker read of the
\* employee and the terminal before it calls it.
Resting == [phase |-> "idle", rest |-> <<>>, loaded |-> <<>>, done |-> {},
            photo |-> 0, reachable |-> FALSE]

\* by: whose fan-out it is; wants: its targets; found: the outstanding rows that
\* it has seen for them.
Served == [phase |-> "idle", by |-> "employee", wants |-> {}, found |-> {}]

Job == [device: Devices, action: Actions, status: Statuses, attempts: Nat,
        photo: Nat]

TypeOK ==
  /\ employee \in [hired: BOOLEAN, active: BOOLEAN, photo: Nat,
                   branch: Branches \cup {NoBranch}]
  /\ uploads \in Nat
  /\ device \in [Devices -> {"absent", "inactive", "offline", "online"}]
  /\ template \in [Devices -> Nat]
  /\ jobs \in Seq(Job)
  /\ due \in Seq(DOMAIN jobs)
  /\ \A w \in Workers :
       /\ worker[w].phase \in {"idle", "take", "push"}
       /\ worker[w].rest \in Seq(DOMAIN jobs)
       /\ \A x \in worker[w].done : x.job \in DOMAIN jobs /\ x.status \in Statuses
       /\ worker[w].photo \in Nat /\ worker[w].reachable \in BOOLEAN
  /\ \A r \in Requests :
       /\ request[r].phase \in {"idle", "enqueue", "commit"}
       /\ request[r].wants \subseteq Targets
       /\ request[r].found \subseteq DOMAIN jobs

Init ==
  /\ employee = Newcomer
  /\ uploads = 0
  /\ device = [d \in Devices |-> IF d \in Installed THEN "online" ELSE "absent"]
  /\ template = [d \in Devices |-> 0]
  /\ jobs = <<>>
  /\ due = <<>>
  /\ worker = [w \in Workers |-> Resting]
  /\ request = [r \in Requests |-> Served]

Quiet == /\ \A w \in Workers : worker[w] = Resting
         /\ \A r \in Requests : request[r] = Served

MayBegin == Overlap \/ Quiet

(***************************************************************************)
(* Rows.                                                                   *)
(***************************************************************************)

Target(j) == <<jobs[j].device, jobs[j].action>>
Live(j) == jobs[j].status \in Outstanding

\* The outstanding row of a target: at most one, by uq_face_sync_active.
LiveFor(targets) == {j \in DOMAIN jobs : Live(j) /\ Target(j) \in targets}

\* The rows that worker w has flushed and not committed.
Held(w) == {x.job : x \in worker[w].done}
             \cup (IF worker[w].phase = "push" THEN {Head(worker[w].rest)} ELSE {})

HeldRows == UNION {Held(w) : w \in Workers}

WithoutRows(s, gone) ==
  LET kept[n \in 0..Len(s)] ==
        IF n = 0 THEN <<>>
        ELSE IF s[n] \in gone THEN kept[n - 1] ELSE Append(kept[n - 1], s[n])
  IN  kept[Len(s)]

(***************************************************************************)
(* Edits.  Each commits, and leaves the fan-out to a second transaction.   *)
(***************************************************************************)

At(branch, action) == {t \in Targets : Site[t[1]] = branch /\ t[2] = action}

OnlyFirstPhotoPushed(old, new) ==
  IF ~new.active
    THEN IF old.active THEN At(new.branch, "DELETE") ELSE {}
  ELSE IF old.photo = 0 /\ new.photo # 0
    THEN At(new.branch, "UPDATE") ELSE {}

\* What update_employee decides to enqueue.
Fanout(old, new) ==
  IF ~new.active
    THEN IF old.active THEN At(new.branch, "DELETE") ELSE {}
  ELSE IF old.branch # new.branch
    THEN At(old.branch, "DELETE")
           \cup (IF new.photo # 0 THEN At(new.branch, "ENROLL") ELSE {})
  ELSE IF old.photo # new.photo /\ new.photo # 0
    THEN At(new.branch, "UPDATE") ELSE {}

\* Bound: no fan-out that could insert more than MaxJobs rows.
Room(wants) == Len(jobs) + Cardinality(wants) <= MaxJobs

Begin(r, by, wants) ==
  /\ MayBegin /\ request[r] = Served /\ Room(wants)
  /\ request' = [request EXCEPT ![r] =
                   IF wants = {} THEN Served
                   ELSE [Served EXCEPT !.phase = "enqueue", !.by = by, !.wants = wants]]

\* A photo: none, the one on file, or a new upload.
Photo(p) ==
  \/ p = employee.photo
  \/ p = uploads + 1 /\ p <= MaxPhoto
  \/ p = 0 /\ "clear" \in May

SaveEmployee(new) ==
  /\ employee' = new
  /\ uploads' = IF new.photo > uploads THEN new.photo ELSE uploads
  /\ UNCHANGED <<device, template, queue, worker>>

CreateEmployee(r) ==
  \E branch \in Branches, p \in 0..1 :
    LET new == [hired |-> TRUE, active |-> TRUE, photo |-> p, branch |-> branch]
    IN  /\ ~employee.hired /\ p <= MaxPhoto
        /\ Begin(r, "employee", IF p # 0 THEN At(branch, "ENROLL") ELSE {})
        /\ SaveEmployee(new)

UpdateEmployee(r) ==
  \E active \in BOOLEAN, p \in 0..MaxPhoto, branch \in Branches :
    LET new == [employee EXCEPT !.active = active, !.photo = p, !.branch = branch]
    IN  /\ employee.hired /\ Photo(p) /\ new # employee
        /\ active => employee.active \/ "rehire" \in May
        /\ Begin(r, "employee", Fanout(employee, new))
        /\ SaveEmployee(new)

TerminateEmployee(r) ==
  /\ employee.hired
  /\ Begin(r, "employee", At(employee.branch, "DELETE"))
  /\ SaveEmployee([employee EXCEPT !.active = FALSE])

CreateDevice(r, d) ==
  /\ device[d] = "absent"
  /\ device' = [device EXCEPT ![d] = "offline"]
  /\ Begin(r, "device", {<<d, "ENROLL">>})
  /\ UNCHANGED <<employee, uploads, template, queue, worker>>

\* RESYNC and CLEAR of send_device_command.
Command(r, d, action) ==
  /\ "command" \in May /\ device[d] # "absent" /\ action \in {"ENROLL", "DELETE"}
  /\ Begin(r, "device", {<<d, action>>})
  /\ UNCHANGED <<employee, uploads, device, template, queue, worker>>

(***************************************************************************)
(* Fan-out: _upsert_active_job for each target, then COMMIT.               *)
(***************************************************************************)

\* enqueue_for_employee leaves out inactive terminals; enqueue_for_device takes
\* the employees that are active in the branch at that moment.
Eligible(by, t) ==
  IF by = "employee" THEN device[t[1]] \in {"offline", "online"}
  ELSE employee.active /\ employee.branch = Site[t[1]]

Lookup(r) ==
  LET wants == {t \in request[r].wants : Eligible(request[r].by, t)}
  IN  /\ request[r].phase = "enqueue"
      /\ request' = [request EXCEPT ![r] =
                       IF wants = {} THEN Served
                       ELSE [@ EXCEPT !.phase = "commit", !.wants = wants,
                                      !.found = LiveFor(wants)]]
      /\ UNCHANGED <<employee, uploads, device, template, queue, worker>>

\* The targets without a row when they were looked up.
Missing(r) == request[r].wants \ {Target(j) : j \in request[r].found}

Inserted(targets) ==
  [i \in 1..Cardinality(targets) |->
     LET t == SetToSeq(targets)[i]
     IN  [device |-> t[1], action |-> t[2], status |-> "PENDING", attempts |-> 0,
          photo |-> employee.photo]]

\* An UPDATE of a row that a worker holds waits for its COMMIT, as an INSERT waits
\* for an index entry; it then bumps next_retry_at and nothing else, on a row that
\* may be done by now.
Bumped(found) ==
  [j \in DOMAIN jobs |->
     IF j \in found THEN [jobs[j] EXCEPT !.photo = employee.photo] ELSE jobs[j]]

Requeued(found) == WithoutRows(due, found) \o SetToSeq({j \in found : Live(j)})

Enqueue(r) ==
  LET found == request[r].found
      new == Inserted(Missing(r))
  IN  /\ request[r].phase = "commit"
      /\ {Target(j) : j \in HeldRows} \cap request[r].wants = {}
      /\ IF LiveFor(Missing(r)) # {}
           THEN UNCHANGED queue    \* a unique violation takes back the fan-out
           ELSE /\ jobs' = Bumped(found) \o new
                /\ due' = Requeued(found) \o [i \in DOMAIN new |-> Len(jobs) + i]
      /\ request' = [request EXCEPT ![r] = Served]
      /\ UNCHANGED <<employee, uploads, device, template, worker>>

LoseFanout(r) ==
  /\ "lose" \in May /\ request[r].phase # "idle"
  /\ request' = [request EXCEPT ![r] = Served]
  /\ UNCHANGED <<employee, uploads, device, template, queue, worker>>

\* retry_face_sync_job: whatever the row's status.
RetryJob(j) ==
  /\ "retry" \in May /\ MayBegin /\ \A i \in HeldRows : Target(i) # Target(j)
  /\ LiveFor({Target(j)}) \subseteq {j}
  /\ jobs' = [jobs EXCEPT ![j].status = "PENDING", ![j].attempts = 0]
  /\ due' = WithoutRows(due, {j}) \o <<j>>
  /\ UNCHANGED <<employee, uploads, device, template, worker, request>>

(***************************************************************************)
(* Workers: process_pending.                                               *)
(***************************************************************************)

Earliest(s, n) == SubSeq(s, 1, IF Len(s) < n THEN Len(s) ELSE n)

Start(w) ==
  LET batch == Earliest(due, BatchSize)
  IN  /\ MayBegin /\ worker[w] = Resting /\ due # <<>>
      /\ worker' = [worker EXCEPT ![w] =
                      [Resting EXCEPT !.phase = "take", !.rest = batch,
                                      !.loaded = [j \in DOMAIN jobs |->
                                        IF j \in Range(batch) THEN jobs[j].attempts ELSE 0]]]
      /\ UNCHANGED <<employee, uploads, device, template, queue, request>>

\* Whom w waits for: the flush to IN_PROGRESS needs the row, and the index
\* entry of its target.
Waits(w) ==
  {v \in Workers \ {w} : \E i \in Held(v) : Target(i) = Target(Head(worker[w].rest))}

Unindexed(w) == FALSE

\* Another outstanding row of the same target: the row was done when a new one
\* was inserted, and IN_PROGRESS would make two.
Clashes(w) == ~(LiveFor({Target(Head(worker[w].rest))}) \subseteq {Head(worker[w].rest)})

Taking(w) == worker[w].phase = "take" /\ worker[w].rest # <<>>

\* The first part of _run_one: flush, then read the terminal and the employee.
Take(w) ==
  LET d == jobs[Head(worker[w].rest)].device
  IN  /\ Taking(w) /\ Waits(w) = {} /\ ~Clashes(w)
      /\ worker' = [worker EXCEPT ![w].phase = "push",
                                  ![w].photo = employee.photo,
                                  ![w].reachable = device[d] = "online"]
      /\ UNCHANGED <<employee, uploads, device, template, queue, request>>

\* What a call does to the terminal, and whether the worker learns of it.
Answers(d, possible) ==
  IF ~possible THEN {[done |-> FALSE, ok |-> FALSE]}
  ELSE {[done |-> TRUE, ok |-> TRUE]}
         \cup (IF d \in Flaky THEN [done: BOOLEAN, ok: {FALSE}] ELSE {})

LeftInProgress(ok, attempts) ==
  IF ok THEN "SUCCESS" ELSE IF attempts >= MaxAttempts THEN "FAILED" ELSE "IN_PROGRESS"

OneTooMany(ok, attempts) ==
  IF ok THEN "SUCCESS" ELSE IF attempts > MaxAttempts THEN "FAILED" ELSE "RETRY"

Outcome(ok, attempts) ==
  IF ok THEN "SUCCESS" ELSE IF attempts >= MaxAttempts THEN "FAILED" ELSE "RETRY"

PhotoOfTheRow(w, j) == IF jobs[j].action = "DELETE" THEN 0 ELSE jobs[j].photo

\* The photo that a call for row j leaves on the terminal.
Pushed(w, j) == IF jobs[j].action = "DELETE" THEN 0 ELSE worker[w].photo

Possible(w, j) == worker[w].reachable /\ (jobs[j].action = "DELETE" \/ worker[w].photo # 0)

\* The rest of _run_one.
Push(w) ==
  LET j == Head(worker[w].rest)
      d == jobs[j].device
  IN  /\ worker[w].phase = "push"
      /\ \E answer \in Answers(d, Possible(w, j)) :
           /\ template' = [template EXCEPT ![d] = IF answer.done THEN Pushed(w, j) ELSE @]
           /\ worker' = [worker EXCEPT ![w].phase = "take",
                           ![w].rest = Tail(@), ![w].photo = 0, ![w].reachable = FALSE,
                           ![w].done = @ \cup {[job |-> j, status |->
                             Outcome(answer.ok, worker[w].loaded[j] + 1)]}]
      /\ UNCHANGED <<employee, uploads, device, queue, request>>

AttemptUncounted(w, j) ==
  LET ran == {x \in worker[w].done : x.job = j}
  IN  IF ran = {} THEN jobs[j]
      ELSE [jobs[j] EXCEPT !.status = (CHOOSE x \in ran : TRUE).status]

\* The row as its worker leaves it.
Recorded(w, j) ==
  LET ran == {x \in worker[w].done : x.job = j}
  IN  IF ran = {} THEN jobs[j]
      ELSE [jobs[j] EXCEPT !.status = (CHOOSE x \in ran : TRUE).status,
                           !.attempts = worker[w].loaded[j] + 1]

CommitBatch(w) ==
  /\ worker[w].phase = "take" /\ worker[w].rest = <<>>
  /\ jobs' = [j \in DOMAIN jobs |-> Recorded(w, j)]
  /\ due' = WithoutRows(due, Held(w))
  /\ worker' = [worker EXCEPT ![w] = Resting]
  /\ UNCHANGED <<employee, uploads, device, template, request>>

Rollback(w) ==
  /\ worker[w] # Resting
  /\ worker' = [worker EXCEPT ![w] = Resting]
  /\ UNCHANGED <<employee, uploads, device, template, queue, request>>

\* What PostgreSQL aborts: a unique violation, one of two that wait for each
\* other.
Abort(w) ==
  /\ Taking(w)
  /\ \/ Waits(w) = {} /\ Clashes(w)
     \/ \E v \in Waits(w) : Taking(v) /\ w \in Waits(v)
  /\ Rollback(w)

\* A worker that dies, a lost connection.
Crash(w) == Rollback(w)

\* next_retry_at of a row that backs off comes.
Elapse(j) ==
  /\ Live(j) /\ j \notin Range(due)
  /\ due' = Append(due, j)
  /\ UNCHANGED <<employee, uploads, device, template, jobs, worker, request>>

(***************************************************************************)
(* Terminals: heartbeats, the offline sweep, deactivation.                 *)
(***************************************************************************)

SetDevice(d, from, to) ==
  /\ device[d] \in from
  /\ device' = [device EXCEPT ![d] = to]
  /\ UNCHANGED <<employee, uploads, template, queue, worker, request>>

MarkSeen(d) == SetDevice(d, {"offline"}, "online")
SweepOffline(d) == d \in Flaky /\ SetDevice(d, {"online"}, "offline")
DeactivateDevice(d) ==
  "deactivate" \in May /\ SetDevice(d, {"offline", "online"}, "inactive")

\* reactivate makes it OFFLINE; is_active of a PATCH leaves the status as it was,
\* or MAINTENANCE, which a worker takes for reachable.
ReactivateDevice(d) == \E to \in {"offline", "online"} : SetDevice(d, {"inactive"}, to)

(***************************************************************************)
(* The next-state relation.                                                *)
(***************************************************************************)

Edits(r) ==
  \/ CreateEmployee(r) \/ UpdateEmployee(r) \/ TerminateEmployee(r)
  \/ \E d \in Devices :
       \/ CreateDevice(r, d)
       \/ \E action \in Actions : Command(r, d, action)

Request(r) == Edits(r) \/ Lookup(r) \/ Enqueue(r) \/ LoseFanout(r)

Drain(w) == Take(w) \/ Push(w) \/ CommitBatch(w) \/ Abort(w)

Terminal(d) ==
  MarkSeen(d) \/ SweepOffline(d) \/ DeactivateDevice(d) \/ ReactivateDevice(d)

Retries == \E j \in DOMAIN jobs : RetryJob(j)
Elapses == \E j \in DOMAIN jobs : Elapse(j)

Next ==
  \/ \E r \in Requests : Request(r)
  \/ \E w \in Workers : Start(w) \/ Drain(w) \/ Crash(w)
  \/ \E d \in Devices : Terminal(d)
  \/ Retries \/ Elapses

\* Beat never stops, time passes, and PostgreSQL grants a lock in the order of
\* the requests for it, so that one who waits gets it when it is released again
\* and again (SF).  An admin need not start a worker, edit or retry anything,
\* and terminals need not answer.
Fairness ==
  /\ WF_worker(Start(Beat))
  /\ \A w \in Workers : SF_worker(Drain(w))
  /\ \A j \in 1..MaxJobs : WF_due(j \in DOMAIN jobs /\ Elapse(j))

Spec == Init /\ [][Next]_vars
FairSpec == Spec /\ Fairness

(***************************************************************************)
(* Properties.                                                             *)
(***************************************************************************)

\* With one worker, a terminal never goes back to an older photo: whatever row
\* it retries, the worker pushes the photo on file ("the worker uses *the
\* latest* Employee.photo_url", models/face_sync.py).
NeverOlder ==
  [][\A d \in Devices : template'[d] # 0 => template'[d] >= template[d]]_vars

\* Nothing is left to do, and no row waits for an admin.
AtRest == Quiet /\ \A j \in DOMAIN jobs : jobs[j].status = "SUCCESS"

\* At rest, a terminal of the employee's branch that holds a photo holds the one
\* on file.
PhotoCurrent ==
  \A d \in Devices :
    AtRest /\ employee.active /\ employee.photo # 0 /\ Site[d] = employee.branch
      => template[d] \in {0, employee.photo}

\* At rest, no terminal knows an employee who was terminated ("wipe templates
\* everywhere the employee currently lives", update_employee).
TerminatedForgotten ==
  AtRest /\ ~employee.active => \A d \in Devices : template[d] = 0

\* However workers and requests overlap, a target has one outstanding row ("one
\* active job per (device, employee, action) at a time", models/face_sync.py).
OneOutstanding ==
  \A i, j \in DOMAIN jobs : Live(i) /\ Live(j) /\ Target(i) = Target(j) => i = j

\* No row is tried more often than the retry policy allows ("up to 5 attempts").
\* A row is given up only when its attempts are used up.
GivenUpLast ==
  \A j \in DOMAIN jobs :
    /\ jobs[j].attempts <= MaxAttempts
    /\ jobs[j].status \in {"PENDING", "RETRY"} => jobs[j].attempts < MaxAttempts
    /\ jobs[j].status = "FAILED" => jobs[j].attempts = MaxAttempts

\* Once no one edits and nothing crashes, the queue drains: every row succeeds
\* or is given up, however the terminals behave and the workers overlap.
Disturbs == \/ <<employee, request>>' # <<employee, request>>    \* a request
            \/ \E w \in Workers : Crash(w) /\ ~Abort(w)
            \/ Retries
QueueDrains ==
  (<>[][~Disturbs]_vars) => <>[](\A j \in DOMAIN jobs : ~Live(j))
=============================================================================
