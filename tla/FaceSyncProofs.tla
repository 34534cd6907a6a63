--------------------------- MODULE FaceSyncProofs ---------------------------
(***************************************************************************)
(* What holds of FaceSync for any terminals, branches, rows and bounds.    *)
(*                                                                         *)
(* Every invariant here builds on TypeInv, the types strengthened by what  *)
(* a batch and a fan-out know of the rows: LiveInv (one outstanding row of *)
(* a target) and CountInv (rows within their retries) hold however workers *)
(* and requests overlap, CurrentInv (no outdated photo) and PhotoInv (none *)
(* older) where they do not.                                               *)
(***************************************************************************)
EXTENDS FaceSync, Induction, SequenceTheorems

(***************************************************************************)
(* Rows of a sequence.                                                     *)
(***************************************************************************)

\* The rows of a sequence without some of them: WithoutRows is defined by recursion
\* over the sequence, so the function that it builds is first shown to exist.
LEMMA RowsRemoved ==
  ASSUME NEW J, NEW s \in Seq(J), NEW gone
  PROVE  /\ WithoutRows(s, gone) \in Seq(J)
         /\ Range(WithoutRows(s, gone)) = Range(s) \ gone
  <1> DEFINE L == Len(s)
             Eq(f, m) == f[m] = IF m = 0 THEN <<>>
                                ELSE IF s[m] \in gone THEN f[m - 1] ELSE Append(f[m - 1], s[m])
             Builds(n) == \E f \in [0..n -> Seq(J)] : \A m \in 0..n : Eq(f, m)
             kept == CHOOSE f : f = [n \in 0..L |-> IF n = 0 THEN <<>>
                       ELSE IF s[n] \in gone THEN f[n - 1] ELSE Append(f[n - 1], s[n])]
  <1>1. L \in Nat /\ \A i \in 1..L : s[i] \in J
    OBVIOUS
  <1> HIDE DEF L
  <1>2. Builds(0)
    <2> DEFINE f == [m \in 0..0 |-> <<>>]
    <2>1. f \in [0..0 -> Seq(J)]
      OBVIOUS
    <2>2. ASSUME NEW m \in 0..0 PROVE Eq(f, m)
      OBVIOUS
    <2> HIDE DEF f
    <2> QED BY <2>1, <2>2
  <1>3. ASSUME NEW n \in Nat, n + 1 <= L, Builds(n) PROVE Builds(n + 1)
    <2>1. PICK f \in [0..n -> Seq(J)] : \A m \in 0..n : Eq(f, m)
      BY <1>3
    <2> DEFINE last == IF s[n + 1] \in gone THEN f[n] ELSE Append(f[n], s[n + 1])
               g == [m \in 0..n + 1 |-> IF m = n + 1 THEN last ELSE f[m]]
    <2>2. s[n + 1] \in J
      BY <1>1, <1>3
    <2>3. last \in Seq(J)
      BY <2>2
    <2> HIDE DEF last
    <2>4. g \in [0..n + 1 -> Seq(J)]
      BY <2>3
    <2>5. ASSUME NEW m \in 0..n + 1 PROVE Eq(g, m)
      <3>1. CASE m = n + 1
        BY <3>1 DEF last
      <3>2. CASE m # n + 1
        <4>1. m \in 0..n /\ (m # 0 => m - 1 \in 0..n) /\ g[m] = f[m]
          BY <3>2
        <4>2. m # 0 => g[m - 1] = f[m - 1]
          BY <4>1
        <4> HIDE DEF g
        <4> QED BY <2>1, <4>1, <4>2
      <3> QED BY <3>1, <3>2
    <2> HIDE DEF g
    <2> QED BY <2>4, <2>5
  <1>4. Builds(L)
    <2> HIDE DEF Builds
    <2> DEFINE Built == {n \in Nat : n <= L => Builds(n)}
    <2>1. 0 \in Built
      BY <1>2
    <2>2. ASSUME NEW n \in Nat, n \in Built PROVE n + 1 \in Built
      <3>1. n + 1 <= L => n <= L
        BY <1>1
      <3> QED BY <1>3, <2>2, <3>1
    <2> HIDE DEF Built
    <2>3. L \in Built
      BY <1>1, <2>1, <2>2, NatSetInduction
    <2> QED BY <1>1, <2>3 DEF Built
  <1>5. \A n \in 0..L : Eq(kept, n)
    <2>1. PICK f \in [0..L -> Seq(J)] : \A m \in 0..L : Eq(f, m)
      BY <1>4
    <2>2. f = [n \in 0..L |-> IF n = 0 THEN <<>>
                ELSE IF s[n] \in gone THEN f[n - 1] ELSE Append(f[n - 1], s[n])]
      BY <2>1
    <2>3. kept = [n \in 0..L |-> IF n = 0 THEN <<>>
                   ELSE IF s[n] \in gone THEN kept[n - 1] ELSE Append(kept[n - 1], s[n])]
      BY <2>2
    <2> HIDE DEF kept
    <2> QED BY <2>3
  <1>6. WithoutRows(s, gone) = kept[L]
    BY DEF WithoutRows, L
  <1> HIDE DEF kept
  <1> DEFINE Keeps(n) == kept[n] \in Seq(J) /\ Range(kept[n]) = {s[i] : i \in 1..n} \ gone
  <1>7. Keeps(0)
    <2>1. kept[0] = <<>>
      BY <1>1, <1>5
    <2>2. <<>> \in Seq(J) /\ Range(<<>>) = {}
      BY DEF Range
    <2> QED BY <2>1, <2>2
  <1>8. ASSUME NEW n \in Nat, n + 1 <= L, Keeps(n) PROVE Keeps(n + 1)
    <2> DEFINE e == s[n + 1]
    <2>1. {s[i] : i \in 1..n + 1} = {s[i] : i \in 1..n} \cup {e}
      OBVIOUS
    <2>2. kept[n + 1] = IF e \in gone THEN kept[n] ELSE Append(kept[n], e)
      BY <1>1, <1>5, <1>8
    <2>3. e \in J
      BY <1>1, <1>8
    <2>4. CASE e \in gone
      BY <1>8, <2>1, <2>2, <2>4
    <2>5. CASE e \notin gone
      <3> HIDE DEF e
      <3>1. kept[n + 1] = kept[n] \o <<e>>
        BY <1>8, <2>2, <2>3, <2>5, AppendIsConcat
      <3>2. <<e>> \in Seq(J) /\ Range(<<e>>) = {e}
        BY <2>3 DEF Range
      <3>3. Range(kept[n + 1]) = Range(kept[n]) \cup {e}
        <4> DEFINE t == <<e>>
                   k == kept[n]
        <4>1. t \in Seq(J) /\ Range(t) = {e} /\ k \in Seq(J) /\ kept[n + 1] = k \o t
          BY <1>8, <3>1, <3>2
        <4> HIDE DEF t, k
        <4>2. Range(k \o t) = Range(k) \cup Range(t)
          BY <4>1, RangeConcatenation
        <4> QED BY <4>1, <4>2 DEF k
      <3>4. kept[n + 1] \in Seq(J)
        BY <1>8, <3>1, <3>2
      <3> QED BY <1>8, <2>1, <2>5, <3>3, <3>4
    <2> QED BY <2>4, <2>5
  <1>9. Keeps(L)
    <2> HIDE DEF Keeps
    <2> DEFINE Kept == {n \in Nat : n <= L => Keeps(n)}
    <2>1. 0 \in Kept
      BY <1>7
    <2>2. ASSUME NEW n \in Nat, n \in Kept PROVE n + 1 \in Kept
      <3>1. n + 1 <= L => n <= L
        BY <1>1
      <3> QED BY <1>8, <2>2, <3>1
    <2> HIDE DEF Kept
    <2>3. L \in Kept
      BY <1>1, <2>1, <2>2, NatSetInduction
    <2> QED BY <1>1, <2>3 DEF Kept
  <1>10. Range(s) = {s[i] : i \in 1..L}
    BY RangeEquality DEF L
  <1> QED BY <1>6, <1>9, <1>10

\* SetToSeq lists each member of a finite set once.
LEMMA SetInSequence ==
  ASSUME NEW S, IsFiniteSet(S)
  PROVE  /\ Cardinality(S) \in Nat
         /\ SetToSeq(S) \in Seq(S) /\ Len(SetToSeq(S)) = Cardinality(S)
         /\ Range(SetToSeq(S)) = S
         /\ \A i, j \in 1..Cardinality(S) : SetToSeq(S)[i] = SetToSeq(S)[j] => i = j
  <1> DEFINE n == Cardinality(S)
  <1>1. n \in Nat /\ ExistsBijection(1..n, S)
    BY FS_CardinalityType
  <1>2. PICK g \in Bijection(1..n, S) : TRUE
    BY <1>1 DEF ExistsBijection
  <1>3. g \in [1..n -> S] /\ IsInjective(g)
    BY <1>2 DEF Bijection, Injection, IsInjective
  <1> DEFINE f == SetToSeq(S)
  <1>4. f \in [1..n -> S] /\ IsInjective(f)
    BY <1>3 DEF SetToSeq
  <1> HIDE DEF f
  <1>5. f \in Injection(1..n, S)
    BY <1>4 DEF Injection, IsInjective
  <1>5a. IsFiniteSet(1..n) /\ Cardinality(1..n) = n
    BY <1>1, FS_Interval
  <1>6. f \in Surjection(1..n, S)
    BY <1>5, <1>5a, FS_Injection
  <1>7. Range(f) = S
    BY <1>4, <1>6 DEF Surjection, Range
  <1>8. f \in Seq(S) /\ Len(f) = n
    BY <1>1, <1>4
  <1>9. \A i, j \in 1..n : f[i] = f[j] => i = j
    BY <1>4 DEF IsInjective
  <1> QED BY <1>1, <1>7, <1>8, <1>9 DEF f

(***************************************************************************)
(* Types.                                                                  *)
(***************************************************************************)

\* A batch and a fan-out over n rows.
Run == [phase: {"idle", "take", "push"}, rest: Seq(Nat), loaded: Seq(Nat),
        done: SUBSET [job: Nat, status: Statuses], photo: Nat, reachable: BOOLEAN]

RunOver(t, n) ==
  /\ t \in Run
  /\ Len(t.loaded) <= n
  /\ t.rest \in Seq(1..Len(t.loaded))
  /\ \A x \in t.done : x.job \in 1..Len(t.loaded)
  /\ t.phase = "push" => t.rest # <<>>

Fan == [phase: {"idle", "enqueue", "commit"}, by: {"employee", "device"},
        wants: SUBSET Targets, found: SUBSET Nat]

FanOver(f, n) == f \in Fan /\ f.found \subseteq 1..n

Employee == [hired: BOOLEAN, active: BOOLEAN, photo: Nat, branch: Branches \cup {NoBranch}]

TypeInv ==
  /\ employee \in Employee /\ uploads \in Nat
  /\ device \in [Devices -> {"absent", "inactive", "offline", "online"}]
  /\ template \in [Devices -> Nat]
  /\ jobs \in Seq(Job)
  /\ due \in Seq(1..Len(jobs))
  /\ DOMAIN worker = Workers /\ worker = [w \in Workers |-> worker[w]]
  /\ \A w \in Workers : RunOver(worker[w], Len(jobs))
  /\ DOMAIN request = Requests /\ request = [r \in Requests |-> request[r]]
  /\ \A r \in Requests : FanOver(request[r], Len(jobs))

LEMMA TypeInvOK == TypeInv => TypeOK
  <1> SUFFICES ASSUME TypeInv PROVE TypeOK
    OBVIOUS
  <1>1. DOMAIN jobs = 1..Len(jobs) /\ Len(jobs) \in Nat
    BY DEF TypeInv
  <1>2. ASSUME NEW w \in Workers
        PROVE  /\ worker[w].phase \in {"idle", "take", "push"}
               /\ worker[w].rest \in Seq(DOMAIN jobs)
               /\ \A x \in worker[w].done : x.job \in DOMAIN jobs /\ x.status \in Statuses
               /\ worker[w].photo \in Nat /\ worker[w].reachable \in BOOLEAN
    <2>1. worker[w] \in Run /\ Len(worker[w].loaded) <= Len(jobs) /\ Len(worker[w].loaded) \in Nat
      BY DEF TypeInv, RunOver, Run
    <2>2. 1..Len(worker[w].loaded) \subseteq DOMAIN jobs
      BY <1>1, <2>1
    <2>3. worker[w].rest \in Seq(1..Len(worker[w].loaded))
      BY DEF TypeInv, RunOver
    <2>4. worker[w].rest \in Seq(DOMAIN jobs)
      BY <2>2, <2>3, SeqMonotonic
    <2> QED BY <2>1, <2>2, <2>4 DEF TypeInv, RunOver, Run
  <1>3. \A r \in Requests :
          /\ request[r].phase \in {"idle", "enqueue", "commit"}
          /\ request[r].wants \subseteq Targets
          /\ request[r].found \subseteq DOMAIN jobs
    BY <1>1 DEF TypeInv, FanOver, Fan
  <1> QED BY <1>1, <1>2, <1>3 DEF TypeInv, TypeOK, Employee

LEMMA RestingTyped == ASSUME NEW n \in Nat PROVE RunOver(Resting, n)
  BY DEF RunOver, Resting, Run

LEMMA ServedTyped == ASSUME NEW n \in Nat PROVE FanOver(Served, n)
  BY DEF FanOver, Served, Fan

LEMMA RunGrows ==
  ASSUME NEW m \in Nat, NEW n \in Nat, m <= n, NEW t, RunOver(t, m)
  PROVE  RunOver(t, n)
  <1>1. Len(t.loaded) \in Nat
    BY DEF RunOver, Run
  <1> QED BY <1>1 DEF RunOver

LEMMA FanGrows ==
  ASSUME NEW m \in Nat, NEW n \in Nat, m <= n, NEW f, FanOver(f, m)
  PROVE  FanOver(f, n)
  BY DEF FanOver

LEMMA TypeInvInit == Init => TypeInv
  <1> SUFFICES ASSUME Init PROVE TypeInv
    OBVIOUS
  <1>1. employee \in Employee /\ uploads \in Nat
    BY DEF Init, Newcomer, Employee
  <1>2. /\ device \in [Devices -> {"absent", "inactive", "offline", "online"}]
        /\ template \in [Devices -> Nat]
    BY DEF Init
  <1>3. jobs \in Seq(Job) /\ Len(jobs) = 0 /\ due \in Seq(1..Len(jobs))
    BY DEF Init
  <1>4. /\ DOMAIN worker = Workers /\ worker = [w \in Workers |-> worker[w]]
        /\ \A w \in Workers : worker[w] = Resting
    BY DEF Init
  <1>5. /\ DOMAIN request = Requests /\ request = [r \in Requests |-> request[r]]
        /\ \A r \in Requests : request[r] = Served
    BY DEF Init
  <1> QED BY <1>1, <1>2, <1>3, <1>4, <1>5, RestingTyped, ServedTyped DEF TypeInv

\* A step of a worker that leaves the rows alone.
LEMMA WorkerTyped ==
  ASSUME TypeInv, NEW w \in Workers, NEW t, RunOver(t, Len(jobs)),
         worker' = [worker EXCEPT ![w] = t], template' \in [Devices -> Nat],
         UNCHANGED <<employee, uploads, device, queue, request>>
  PROVE  TypeInv'
  BY DEF TypeInv, queue

\* A step of a request that leaves the rows alone.
LEMMA RequestTyped ==
  ASSUME TypeInv, NEW r \in Requests, NEW f, FanOver(f, Len(jobs)),
         request' = [request EXCEPT ![r] = f],
         employee' \in Employee, uploads' \in Nat,
         device' \in [Devices -> {"absent", "inactive", "offline", "online"}],
         UNCHANGED <<template, queue, worker>>
  PROVE  TypeInv'
  BY DEF TypeInv, queue

\* A step that changes rows.
LEMMA RowsTyped ==
  ASSUME TypeInv, jobs' \in Seq(Job), Len(jobs') >= Len(jobs), due' \in Seq(1..Len(jobs')),
         UNCHANGED <<employee, uploads, device, template>>,
         \/ UNCHANGED worker
         \/ \E w \in Workers : worker' = [worker EXCEPT ![w] = Resting],
         \/ UNCHANGED request
         \/ \E r \in Requests : request' = [request EXCEPT ![r] = Served]
  PROVE  TypeInv'
  <1>1. Len(jobs) \in Nat /\ Len(jobs') \in Nat
    BY DEF TypeInv
  <1>2. /\ DOMAIN worker' = Workers /\ worker' = [w \in Workers |-> worker'[w]]
        /\ \A w \in Workers : worker'[w] \in {worker[w], Resting}
    BY DEF TypeInv
  <1>3. \A w \in Workers : RunOver(worker'[w], Len(jobs'))
    BY <1>1, <1>2, RestingTyped, RunGrows DEF TypeInv
  <1>4. /\ DOMAIN request' = Requests /\ request' = [r \in Requests |-> request'[r]]
        /\ \A r \in Requests : request'[r] \in {request[r], Served}
    BY DEF TypeInv
  <1>5. \A r \in Requests : FanOver(request'[r], Len(jobs'))
    BY <1>1, <1>4, ServedTyped, FanGrows DEF TypeInv
  <1> QED BY <1>2, <1>3, <1>4, <1>5 DEF TypeInv

\* What a request starts with.
LEMMA BeginTyped ==
  ASSUME TypeInv, NEW r \in Requests, NEW by \in {"employee", "device"},
         NEW wants \in SUBSET Targets, Begin(r, by, wants),
         employee' \in Employee, uploads' \in Nat,
         device' \in [Devices -> {"absent", "inactive", "offline", "online"}],
         UNCHANGED <<template, queue, worker>>
  PROVE  TypeInv'
  <1> DEFINE f == IF wants = {} THEN Served
                  ELSE [Served EXCEPT !.phase = "enqueue", !.by = by, !.wants = wants]
  <1>1. request' = [request EXCEPT ![r] = f]
    BY DEF Begin
  <1>2. FanOver(f, Len(jobs))
    BY DEF FanOver, Fan, Served, TypeInv
  <1> HIDE DEF f
  <1> QED BY <1>1, <1>2, RequestTyped

LEMMA TargetsAt == \A branch, action : action \in Actions => At(branch, action) \in SUBSET Targets
  BY DEF At

LEMMA EditsTyped ==
  ASSUME TypeInv, NEW r \in Requests, Edits(r)
  PROVE  TypeInv'
  <1>0. \A new : SaveEmployee(new) /\ new \in Employee
                   => /\ employee' \in Employee /\ uploads' \in Nat
                      /\ device' \in [Devices -> {"absent", "inactive", "offline", "online"}]
                      /\ UNCHANGED <<template, queue, worker>>
    BY DEF SaveEmployee, TypeInv, Employee
  <1>1. CASE CreateEmployee(r)
    <2>1. PICK branch \in Branches, p \in 0..1 :
            LET new == [hired |-> TRUE, active |-> TRUE, photo |-> p, branch |-> branch]
            IN  /\ Begin(r, "employee", IF p # 0 THEN At(branch, "ENROLL") ELSE {})
                /\ SaveEmployee(new)
      BY <1>1 DEF CreateEmployee
    <2>2. [hired |-> TRUE, active |-> TRUE, photo |-> p, branch |-> branch] \in Employee
      BY DEF Employee
    <2>3. (IF p # 0 THEN At(branch, "ENROLL") ELSE {}) \in SUBSET Targets
      BY DEF At
    <2> QED BY <1>0, <2>1, <2>2, <2>3, BeginTyped
  <1>2. CASE UpdateEmployee(r)
    <2>1. PICK active \in BOOLEAN, p \in 0..MaxPhoto, branch \in Branches :
            LET new == [employee EXCEPT !.active = active, !.photo = p, !.branch = branch]
            IN  Begin(r, "employee", Fanout(employee, new)) /\ SaveEmployee(new)
      BY <1>2 DEF UpdateEmployee
    <2> DEFINE new == [employee EXCEPT !.active = active, !.photo = p, !.branch = branch]
    <2>2. new \in Employee
      <3>1. p \in Nat /\ branch \in Branches \cup {NoBranch}
        BY BoundsAssumption
      <3>2. employee \in [hired: BOOLEAN, active: BOOLEAN, photo: Nat, branch: Branches \cup {NoBranch}]
        BY DEF TypeInv, Employee
      <3> QED BY <3>1, <3>2 DEF Employee
    <2> HIDE DEF new
    <2>3. Fanout(employee, new) \in SUBSET Targets
      BY DEF Fanout, At
    <2> QED BY <1>0, <2>1, <2>2, <2>3, BeginTyped DEF new
  <1>3. CASE TerminateEmployee(r)
    <2>1. [employee EXCEPT !.active = FALSE] \in Employee
      BY DEF Employee, TypeInv
    <2>2. At(employee.branch, "DELETE") \in SUBSET Targets
      BY DEF At
    <2> QED BY <1>0, <1>3, <2>1, <2>2, BeginTyped DEF TerminateEmployee
  <1>4. CASE \E d \in Devices : CreateDevice(r, d)
    <2>1. PICK d \in Devices : CreateDevice(r, d)
      BY <1>4
    <2>2. {<<d, "ENROLL">>} \in SUBSET Targets
      BY DEF Targets, Actions
    <2>3. device' \in [Devices -> {"absent", "inactive", "offline", "online"}]
      BY <2>1 DEF CreateDevice, TypeInv
    <2> QED BY <2>1, <2>2, <2>3, BeginTyped DEF CreateDevice, TypeInv
  <1>5. CASE \E d \in Devices, action \in Actions : Command(r, d, action)
    <2>1. PICK d \in Devices, action \in Actions : Command(r, d, action)
      BY <1>5
    <2>2. {<<d, action>>} \in SUBSET Targets
      BY DEF Targets, Actions
    <2> QED BY <2>1, <2>2, BeginTyped DEF Command, TypeInv
  <1> QED BY <1>1, <1>2, <1>3, <1>4, <1>5 DEF Edits

\* The targets of a fan-out, and the rows that it found, are finitely many.
LEMMA Finite ==
  /\ IsFiniteSet(Targets)
  /\ \A s \in SUBSET Targets : IsFiniteSet(s)
  /\ TypeInv => \A s \in SUBSET (1..Len(jobs)) : IsFiniteSet(s)
  <1>1. IsFiniteSet(Actions)
    <2>1. Actions = ({"ENROLL"} \cup {"UPDATE"}) \cup {"DELETE"}
      BY DEF Actions
    <2>2. \A x : IsFiniteSet({x})
      BY FS_Singleton
    <2> QED BY <2>1, <2>2, FS_Union
  <1>2. IsFiniteSet(Targets)
    BY <1>1, SiteAssumption, FS_Product DEF Targets
  <1>3. ASSUME TypeInv PROVE IsFiniteSet(1..Len(jobs))
    <2>1. 1 \in Int /\ Len(jobs) \in Int
      BY <1>3 DEF TypeInv
    <2> QED BY <2>1, FS_Interval
  <1> QED BY <1>2, <1>3, FS_Subset

\* What an Enqueue that finds its targets free does to the rows.
LEMMA Enqueued ==
  ASSUME TypeInv, NEW r \in Requests, request[r].phase = "commit",
         NEW found, NEW new, found = request[r].found, new = Inserted(Missing(r))
  PROVE  /\ new \in Seq(Job)
         /\ \A i \in 1..Len(new) :
              /\ new[i].status = "PENDING" /\ new[i].attempts = 0
              /\ <<new[i].device, new[i].action>> \in Missing(r)
         /\ \A i, k \in 1..Len(new) :
              new[i].device = new[k].device /\ new[i].action = new[k].action => i = k
         /\ \A t \in Missing(r) : \E i \in 1..Len(new) : <<new[i].device, new[i].action>> = t
         /\ Bumped(found) \in Seq(Job) /\ Len(Bumped(found)) = Len(jobs)
         /\ Requeued(found) \in Seq(1..Len(jobs))
         /\ Range(Requeued(found)) = (Range(due) \ found) \cup {j \in found : Live(j)}
         /\ [i \in DOMAIN new |-> Len(jobs) + i] \in Seq(1..Len(jobs) + Len(new))
         /\ Range([i \in DOMAIN new |-> Len(jobs) + i]) = Len(jobs) + 1..Len(jobs) + Len(new)
  <1> DEFINE m == Missing(r)
             s == SetToSeq(m)
             n == Cardinality(m)
  <1>1. found \in SUBSET (1..Len(jobs)) /\ Len(jobs) \in Nat /\ employee.photo \in Nat
    BY DEF TypeInv, FanOver, Employee
  <1>2. m \in SUBSET Targets /\ IsFiniteSet(m)
    BY Finite DEF Missing, TypeInv, FanOver, Fan
  <1> HIDE DEF m
  <1>3. /\ n \in Nat /\ s \in Seq(m) /\ Len(s) = n
        /\ \A i, k \in 1..n : s[i] = s[k] => i = k
        /\ Range(s) = m
    BY <1>2, SetInSequence
  <1> HIDE DEF s, n
  <1>4. new = [i \in 1..n |->
          [device |-> s[i][1], action |-> s[i][2], status |-> "PENDING", attempts |-> 0,
           photo |-> employee.photo]]
    BY DEF Inserted, m, s, n
  <1>5. \A i \in 1..n : s[i] \in m /\ s[i] \in Devices \X Actions
    BY <1>2, <1>3 DEF Targets
  <1>6. \A i \in 1..n : s[i] = <<s[i][1], s[i][2]>> /\ s[i][1] \in Devices /\ s[i][2] \in Actions
    BY <1>5
  <1>7. /\ new \in Seq(Job) /\ Len(new) = n /\ DOMAIN new = 1..n
        /\ \A i \in 1..n : /\ new[i].device = s[i][1] /\ new[i].action = s[i][2]
                           /\ new[i].status = "PENDING" /\ new[i].attempts = 0
    BY <1>1, <1>3, <1>4, <1>6 DEF Job, Statuses, Outstanding
  <1>8. Bumped(found) \in Seq(Job) /\ Len(Bumped(found)) = Len(jobs)
    <2> DEFINE row(j) == IF j \in found THEN [jobs[j] EXCEPT !.photo = employee.photo] ELSE jobs[j]
    <2>1. ASSUME NEW j \in 1..Len(jobs) PROVE row(j) \in Job
      <3>1. jobs[j] \in Job
        BY DEF TypeInv
      <3>2. [jobs[j] EXCEPT !.photo = employee.photo] \in Job
        BY <1>1, <3>1 DEF Job
      <3> QED BY <3>1, <3>2
    <2>2. Bumped(found) = [j \in 1..Len(jobs) |-> row(j)]
      BY DEF Bumped, TypeInv
    <2> HIDE DEF row
    <2>3. [j \in 1..Len(jobs) |-> row(j)] \in Seq(Job)
      BY <1>1, <2>1, IsASeq
    <2> QED BY <1>1, <2>2, <2>3
  <1> DEFINE live == {j \in found : Live(j)}
  <1>9. /\ SetToSeq(live) \in Seq(1..Len(jobs)) /\ Range(SetToSeq(live)) = live
    <2>1. live \in SUBSET (1..Len(jobs)) /\ IsFiniteSet(live)
      BY <1>1, Finite
    <2> HIDE DEF live
    <2>2. SetToSeq(live) \in Seq(live) /\ Range(SetToSeq(live)) = live
      BY <2>1, SetInSequence
    <2> QED BY <2>1, <2>2, SeqMonotonic
  <1>10. /\ WithoutRows(due, found) \in Seq(1..Len(jobs))
         /\ Range(WithoutRows(due, found)) = Range(due) \ found
    BY RowsRemoved DEF TypeInv
  <1>11. /\ Requeued(found) \in Seq(1..Len(jobs))
         /\ Range(Requeued(found)) = (Range(due) \ found) \cup live
    <2> HIDE DEF live
    <2>1. Requeued(found) = WithoutRows(due, found) \o SetToSeq(live)
      BY DEF Requeued, live
    <2> QED BY <1>9, <1>10, <2>1, ConcatProperties, RangeConcatenation
  <1> DEFINE nums == [i \in DOMAIN new |-> Len(jobs) + i]
  <1>12. nums \in Seq(1..Len(jobs) + n) /\ Range(nums) = Len(jobs) + 1..Len(jobs) + n
    <2>1. nums = [i \in 1..n |-> Len(jobs) + i]
      BY <1>7
    <2>2. nums \in Seq(1..Len(jobs) + n)
      BY <1>1, <1>3, <2>1
    <2>3. \A k \in Len(jobs) + 1..Len(jobs) + n : k - Len(jobs) \in 1..n /\ nums[k - Len(jobs)] = k
      BY <1>1, <1>3, <2>1
    <2>4. Range(nums) = {nums[i] : i \in 1..n}
      BY <2>1 DEF Range
    <2> HIDE DEF nums
    <2>5. \A i \in 1..n : nums[i] \in Len(jobs) + 1..Len(jobs) + n
      BY <1>1, <1>3, <2>1
    <2> QED BY <2>2, <2>3, <2>4, <2>5
  <1>13. \A i, k \in 1..n :
              new[i].device = new[k].device /\ new[i].action = new[k].action => i = k
    <2> TAKE i, k \in 1..n
    <2>1. s[i] = <<new[i].device, new[i].action>> /\ s[k] = <<new[k].device, new[k].action>>
      BY <1>6, <1>7
    <2> QED BY <1>3, <2>1
  <1>14. \A i \in 1..Len(new) : <<new[i].device, new[i].action>> \in Missing(r)
    BY <1>5, <1>6, <1>7 DEF m
  <1>15. \A t \in Missing(r) : \E i \in 1..Len(new) : <<new[i].device, new[i].action>> = t
    <2>1. Range(s) = {s[i] : i \in 1..n}
      BY <1>3, RangeEquality
    <2> SUFFICES ASSUME NEW t \in m PROVE \E i \in 1..n : <<new[i].device, new[i].action>> = t
      BY <1>7 DEF m
    <2>2. PICK i \in 1..n : s[i] = t
      BY <1>3, <2>1
    <2> QED BY <1>6, <1>7, <2>2
  <1> QED BY <1>7, <1>8, <1>11, <1>12, <1>13, <1>14, <1>15

LEMMA FanoutsTyped ==
  ASSUME TypeInv, NEW r \in Requests, Lookup(r) \/ Enqueue(r) \/ LoseFanout(r)
  PROVE  TypeInv'
  <1>0. Len(jobs) \in Nat
    BY DEF TypeInv
  <1>1. CASE Lookup(r)
    <2> DEFINE wants == {t \in request[r].wants : Eligible(request[r].by, t)}
               f == IF wants = {} THEN Served
                    ELSE [request[r] EXCEPT !.phase = "commit", !.wants = wants,
                                            !.found = LiveFor(wants)]
    <2>1. request' = [request EXCEPT ![r] = f]
      BY <1>1 DEF Lookup, TypeInv
    <2>2. request[r] \in Fan
      BY DEF TypeInv, FanOver
    <2>3. wants \in SUBSET Targets /\ LiveFor(wants) \in SUBSET (1..Len(jobs))
      BY <2>2 DEF Fan, LiveFor, TypeInv
    <2>4. FanOver(f, Len(jobs))
      <3> HIDE DEF wants
      <3>1. LiveFor(wants) \in SUBSET Nat
        BY <2>3, <1>0
      <3> QED BY <1>0, <2>2, <2>3, <3>1, ServedTyped DEF FanOver, Fan
    <2> HIDE DEF f
    <2> QED BY <1>1, <2>1, <2>4, RequestTyped DEF Lookup, TypeInv
  <1>2. CASE Enqueue(r)
    <2> DEFINE found == request[r].found
               new == Inserted(Missing(r))
    <2>1. /\ \/ UNCHANGED queue
             \/ /\ jobs' = Bumped(found) \o new
                /\ due' = Requeued(found) \o [i \in DOMAIN new |-> Len(jobs) + i]
          /\ request[r].phase = "commit"
          /\ request' = [request EXCEPT ![r] = Served]
          /\ UNCHANGED <<employee, uploads, device, template, worker>>
      BY <1>2 DEF Enqueue
    <2>2. CASE UNCHANGED queue
      <3>1. jobs' \in Seq(Job) /\ Len(jobs') >= Len(jobs) /\ due' \in Seq(1..Len(jobs'))
        BY <1>0, <2>2 DEF TypeInv, queue
      <3> QED BY <2>1, <3>1, RowsTyped
    <2>3. CASE /\ jobs' = Bumped(found) \o new
               /\ due' = Requeued(found) \o [i \in DOMAIN new |-> Len(jobs) + i]
      <3> DEFINE nums == [i \in DOMAIN new |-> Len(jobs) + i]
                 n == Len(jobs) + Len(new)
      <3>1. /\ new \in Seq(Job) /\ Bumped(found) \in Seq(Job) /\ Len(Bumped(found)) = Len(jobs)
            /\ Requeued(found) \in Seq(1..Len(jobs)) /\ nums \in Seq(1..n)
        BY <2>1, Enqueued
      <3> DEFINE old == Bumped(found)
      <3> HIDE DEF nums, new, found, old
      <3>2. jobs' \in Seq(Job) /\ Len(jobs') = n /\ Len(new) \in Nat
        <4>1. old \in Seq(Job) /\ new \in Seq(Job) /\ Len(old) = Len(jobs)
          BY <3>1 DEF old
        <4>2. old \o new \in Seq(Job) /\ Len(old \o new) = Len(old) + Len(new)
          BY <4>1, ConcatProperties
        <4>3. jobs' = old \o new
          BY <2>3 DEF old
        <4> QED BY <4>1, <4>2, <4>3
      <3>3. Requeued(found) \in Seq(1..n)
        BY <1>0, <3>1, <3>2, SeqMonotonic
      <3>4. due' \in Seq(1..Len(jobs'))
        BY <2>3, <3>1, <3>2, <3>3, ConcatProperties DEF nums
      <3>5. Len(jobs') >= Len(jobs)
        BY <1>0, <3>2
      <3> QED BY <2>1, <3>2, <3>4, <3>5, RowsTyped
    <2> QED BY <2>1, <2>2, <2>3
  <1>3. CASE LoseFanout(r)
    BY <1>0, <1>3, ServedTyped, RequestTyped DEF LoseFanout, TypeInv
  <1> QED BY <1>1, <1>2, <1>3

\* What a manual retry does to the rows.
LEMMA Retried ==
  ASSUME TypeInv, NEW j \in DOMAIN jobs, RetryJob(j)
  PROVE  /\ jobs' \in Seq(Job) /\ Len(jobs') = Len(jobs)
         /\ due' \in Seq(1..Len(jobs)) /\ Range(due') = Range(due) \cup {j}
         /\ \A i \in 1..Len(jobs) : i # j => jobs'[i] = jobs[i]
         /\ /\ jobs'[j].device = jobs[j].device /\ jobs'[j].action = jobs[j].action
            /\ jobs'[j].photo = jobs[j].photo
            /\ jobs'[j].status = "PENDING" /\ jobs'[j].attempts = 0
  <1>1. j \in 1..Len(jobs) /\ jobs[j] \in Job /\ Len(jobs) \in Nat
    BY DEF TypeInv
  <1>2. jobs' = [jobs EXCEPT ![j] = [jobs[j] EXCEPT !.status = "PENDING", !.attempts = 0]]
    BY <1>1 DEF RetryJob, TypeInv
  <1> DEFINE row == [jobs[j] EXCEPT !.status = "PENDING", !.attempts = 0]
  <1>3. /\ row \in Job /\ row.device = jobs[j].device /\ row.action = jobs[j].action
        /\ row.photo = jobs[j].photo /\ row.status = "PENDING" /\ row.attempts = 0
    BY <1>1 DEF Job, Statuses, Outstanding
  <1> HIDE DEF row
  <1>4. /\ jobs' \in Seq(Job) /\ Len(jobs') = Len(jobs)
        /\ \A i \in 1..Len(jobs) : jobs'[i] = IF i = j THEN row ELSE jobs[i]
    BY <1>1, <1>2, <1>3, ExceptSeq DEF TypeInv, row
  <1>5. /\ WithoutRows(due, {j}) \in Seq(1..Len(jobs))
        /\ Range(WithoutRows(due, {j})) = Range(due) \ {j}
    BY RowsRemoved DEF TypeInv
  <1>6. <<j>> \in Seq(1..Len(jobs)) /\ Range(<<j>>) = {j}
    BY <1>1 DEF Range
  <1>7. due' = WithoutRows(due, {j}) \o <<j>>
    BY DEF RetryJob
  <1>8. due' \in Seq(1..Len(jobs)) /\ Range(due') = (Range(due) \ {j}) \cup {j}
    <2> DEFINE kept == WithoutRows(due, {j})
               last == <<j>>
    <2>1. /\ kept \in Seq(1..Len(jobs)) /\ last \in Seq(1..Len(jobs)) /\ due' = kept \o last
          /\ Range(kept) = Range(due) \ {j} /\ Range(last) = {j}
      BY <1>5, <1>6, <1>7
    <2> HIDE DEF kept, last
    <2>2. kept \o last \in Seq(1..Len(jobs)) /\ Range(kept \o last) = Range(kept) \cup Range(last)
      BY <2>1, ConcatProperties, RangeConcatenation
    <2> QED BY <2>1, <2>2
  <1> QED BY <1>1, <1>3, <1>4, <1>8

\* What a run starts with: rows that are due, as they are.
LEMMA Started ==
  ASSUME TypeInv, NEW w \in Workers, Start(w)
  PROVE  /\ worker' = [worker EXCEPT ![w] = worker'[w]]
         /\ RunOver(worker'[w], Len(jobs))
         /\ worker'[w].phase = "take" /\ worker'[w].done = {}
         /\ Range(worker'[w].rest) \subseteq Range(due)
         /\ \A j \in Range(worker'[w].rest) : worker'[w].loaded[j] = jobs[j].attempts
  <1> DEFINE batch == Earliest(due, BatchSize)
             loaded == [j \in DOMAIN jobs |-> IF j \in Range(batch) THEN jobs[j].attempts ELSE 0]
             t == [Resting EXCEPT !.phase = "take", !.rest = batch, !.loaded = loaded]
  <1>1. worker' = [worker EXCEPT ![w] = t]
    BY DEF Start
  <1>2. worker'[w] = t
    BY <1>1 DEF TypeInv
  <1> DEFINE n == Len(jobs)
             k == IF Len(due) < BatchSize THEN Len(due) ELSE BatchSize
  <1>3. n \in Nat /\ DOMAIN jobs = 1..n /\ k \in 0..Len(due) /\ Len(due) \in Nat
    BY BoundsAssumption DEF TypeInv
  <1>4. \A i \in 1..Len(due) : due[i] \in 1..n
    BY DEF TypeInv
  <1>5. batch = SubSeq(due, 1, k)
    BY DEF Earliest
  <1> HIDE DEF batch, k
  <1>6. batch \in Seq(1..n) /\ \A i \in 1..Len(batch) : i \in 1..Len(due) /\ batch[i] = due[i]
    <2>1. \A i \in 1..k : due[i] \in 1..n
      BY <1>3, <1>4
    <2> QED BY <1>3, <1>5, <2>1, SubSeqProperties
  <1>7. Range(batch) \subseteq Range(due) /\ Range(batch) \subseteq 1..n
    <2>1. Range(batch) = {batch[i] : i \in 1..Len(batch)} /\ Range(due) = {due[i] : i \in 1..Len(due)}
      BY <1>6, RangeEquality DEF TypeInv
    <2> QED BY <1>4, <1>6, <2>1
  <1>8. \A j \in 1..n : jobs[j].attempts \in Nat
    <2> TAKE j \in 1..n
    <2>1. jobs[j] \in Job
      BY DEF TypeInv
    <2> QED BY <2>1 DEF Job
  <1>9. loaded \in Seq(Nat) /\ Len(loaded) = n /\ \A j \in Range(batch) : loaded[j] = jobs[j].attempts
    BY <1>3, <1>7, <1>8
  <1> HIDE DEF loaded
  <1>10. batch \in Seq(Nat)
    BY <1>3, <1>6, SeqMonotonic
  <1>11. Resting \in Run /\ Resting.done = {}
    BY DEF Run, Resting
  <1>12. t \in Run /\ t.phase = "take" /\ t.done = {} /\ t.rest = batch /\ t.loaded = loaded
    BY <1>9, <1>10, <1>11 DEF Run
  <1> HIDE DEF t, n
  <1>13. RunOver(t, n)
    BY <1>3, <1>6, <1>9, <1>12 DEF RunOver
  <1> QED BY <1>1, <1>2, <1>7, <1>9, <1>12, <1>13 DEF n

\* What a worker that has taken a row holds.
LEMMA Took ==
  ASSUME TypeInv, NEW w \in Workers, Take(w)
  PROVE  /\ worker' = [worker EXCEPT ![w] = worker'[w]]
         /\ RunOver(worker'[w], Len(jobs))
         /\ worker'[w].phase = "push" /\ worker'[w].photo = employee.photo
         /\ worker'[w].rest = worker[w].rest /\ worker'[w].loaded = worker[w].loaded
         /\ worker'[w].done = worker[w].done
  <1> DEFINE r == device[jobs[Head(worker[w].rest)].device] = "online"
             t == [worker[w] EXCEPT !.phase = "push", !.photo = employee.photo, !.reachable = r]
  <1>1. r \in BOOLEAN /\ employee.photo \in Nat
    BY DEF TypeInv, Employee
  <1>2. worker' = [worker EXCEPT ![w] = t]
    BY DEF Take, TypeInv
  <1> HIDE DEF r
  <1>3. RunOver(worker[w], Len(jobs)) /\ worker[w] \in Run /\ worker[w].rest # <<>>
    BY DEF TypeInv, RunOver, Take, Taking
  <1>4. /\ t \in Run /\ t.phase = "push" /\ t.photo = employee.photo
        /\ t.rest = worker[w].rest /\ t.loaded = worker[w].loaded /\ t.done = worker[w].done
    BY <1>1, <1>3 DEF Run
  <1>5. worker'[w] = t
    BY <1>2 DEF TypeInv
  <1> HIDE DEF t
  <1>6. RunOver(t, Len(jobs))
    BY <1>3, <1>4 DEF RunOver
  <1> QED BY <1>2, <1>4, <1>5, <1>6

LEMMA OutcomeTyped ==
  ASSUME NEW ok \in BOOLEAN, NEW n \in Int
  PROVE  Outcome(ok, n) \in Statuses
  BY DEF Outcome, Statuses, Outstanding

LEMMA AnswerKnown ==
  ASSUME NEW d, NEW possible, NEW answer \in Answers(d, possible)
  PROVE  answer.done \in BOOLEAN /\ answer.ok \in BOOLEAN
  <1> DEFINE yes == [done |-> TRUE, ok |-> TRUE]
             no == [done |-> FALSE, ok |-> FALSE]
  <1>1. answer = no \/ answer = yes \/ answer \in [done: BOOLEAN, ok: {FALSE}]
    BY DEF Answers
  <1>2. yes.ok \in BOOLEAN /\ no.ok \in BOOLEAN /\ yes.done \in BOOLEAN /\ no.done \in BOOLEAN
    OBVIOUS
  <1> HIDE DEF yes, no
  <1> QED BY <1>1, <1>2

\* What a call of a terminal records.
LEMMA Ran ==
  ASSUME TypeInv, NEW w \in Workers, Push(w)
  PROVE  LET j == Head(worker[w].rest)
         IN  /\ j \in 1..Len(worker[w].loaded) /\ j \in 1..Len(jobs)
             /\ worker[w].loaded[j] \in Nat
             /\ worker' = [worker EXCEPT ![w] = worker'[w]]
             /\ RunOver(worker'[w], Len(jobs))
             /\ worker'[w].phase = "take" /\ worker'[w].loaded = worker[w].loaded
             /\ Range(worker[w].rest) = {j} \cup Range(worker'[w].rest)
             /\ \E answer \in Answers(jobs[j].device, Possible(w, j)) :
                  /\ template' = [template EXCEPT ![jobs[j].device] =
                                    IF answer.done THEN Pushed(w, j) ELSE @]
                  /\ worker'[w].done = worker[w].done \cup {[job |-> j, status |->
                       Outcome(answer.ok, worker[w].loaded[j] + 1)]}
             /\ template' \in [Devices -> Nat]
  <1> DEFINE j == Head(worker[w].rest)
             n == Len(worker[w].loaded)
             rest == worker[w].rest
             last == Tail(rest)
  <1>1. /\ worker[w] \in Run /\ RunOver(worker[w], Len(jobs)) /\ rest # <<>>
        /\ rest \in Seq(1..n) /\ n \in Nat /\ n <= Len(jobs) /\ worker[w].loaded \in Seq(Nat)
        /\ Len(jobs) \in Nat
    BY DEF TypeInv, RunOver, Run, Push
  <1> HIDE DEF rest
  <1>2. /\ Head(rest) \in 1..n /\ last \in Seq(1..n)
        /\ \A i \in 1..Len(last) : last[i] = rest[i + 1]
        /\ Len(last) = Len(rest) - 1 /\ Len(rest) \in Nat /\ Len(rest) # 0
    BY <1>1, HeadTailProperties, EmptySeq
  <1>3. j \in 1..n /\ j \in 1..Len(jobs) /\ worker[w].loaded[j] \in Nat
    <2>1. j \in 1..n
      BY <1>2 DEF rest
    <2> HIDE DEF j
    <2> QED BY <1>1, <2>1
  <1>4. Range(rest) = {j} \cup Range(last)
    <2>1. Range(rest) = {rest[i] : i \in 1..Len(rest)} /\ Range(last) = {last[i] : i \in 1..Len(last)}
      BY <1>1, <1>2, RangeEquality
    <2>2. rest[1] = j
      BY <1>1, <1>2 DEF rest
    <2>3. \A i \in 1..Len(rest) : i = 1 \/ (i - 1 \in 1..Len(last) /\ last[i - 1] = rest[i])
      BY <1>2
    <2>4. \A i \in 1..Len(last) : i + 1 \in 1..Len(rest)
      BY <1>2
    <2>5. 1 \in 1..Len(rest)
      BY <1>2
    <2> HIDE DEF last, j
    <2>6. {j} \cup Range(last) \subseteq Range(rest)
      BY <1>2, <2>1, <2>2, <2>4, <2>5
    <2>7. Range(rest) \subseteq {j} \cup Range(last)
      BY <2>1, <2>2, <2>3
    <2> QED BY <2>6, <2>7
  <1>5. PICK answer \in Answers(jobs[j].device, Possible(w, j)) :
          /\ template' = [template EXCEPT ![jobs[j].device] =
                            IF answer.done THEN Pushed(w, j) ELSE @]
          /\ worker' = [worker EXCEPT ![w].phase = "take",
                       ![w].rest = Tail(@), ![w].photo = 0, ![w].reachable = FALSE,
                       ![w].done = @ \cup {[job |-> j, status |->
                         Outcome(answer.ok, worker[w].loaded[j] + 1)]}]
    BY Zenon DEF Push
  <1> DEFINE rec == [job |-> j, status |-> Outcome(answer.ok, worker[w].loaded[j] + 1)]
             t == [worker[w] EXCEPT !.phase = "take", !.rest = last, !.photo = 0,
                     !.reachable = FALSE, !.done = worker[w].done \cup {rec}]
  <1>6. answer.ok \in BOOLEAN
    BY <1>5, AnswerKnown
  <1>7. rec \in [job: Nat, status: Statuses] /\ rec.job = j
    <2>1. worker[w].loaded[j] + 1 \in Int /\ j \in Nat
      <3> HIDE DEF j
      <3> QED BY <1>1, <1>3
    <2> QED BY <1>6, <2>1, OutcomeTyped
  <1>8. worker' = [worker EXCEPT ![w] = t]
    BY <1>5 DEF rest, TypeInv
  <1> HIDE DEF rec, last
  <1>9. last \in Seq(Nat)
    BY <1>1, <1>2, SeqMonotonic
  <1>10. /\ t \in Run /\ t.phase = "take" /\ t.rest = last /\ t.loaded = worker[w].loaded
         /\ t.done = worker[w].done \cup {rec}
    BY <1>1, <1>7, <1>9 DEF Run
  <1>11. worker'[w] = t
    BY <1>8 DEF TypeInv
  <1> HIDE DEF t
  <1>12. RunOver(t, Len(jobs))
    BY <1>1, <1>2, <1>3, <1>7, <1>10 DEF RunOver
  <1>13. template' \in [Devices -> Nat]
    <2>1. Pushed(w, j) \in Nat
      BY <1>1 DEF Pushed, Run
    <2> HIDE DEF j
    <2> QED BY <1>5, <2>1 DEF TypeInv
  <1>14. worker'[w].done = worker[w].done \cup {[job |-> j, status |->
                       Outcome(answer.ok, worker[w].loaded[j] + 1)]}
    BY <1>10, <1>11 DEF rec
  <1>15. Range(worker[w].rest) = {j} \cup Range(worker'[w].rest)
    BY <1>4, <1>10, <1>11 DEF rest
  <1> HIDE DEF j
  <1>16. j \in 1..Len(worker[w].loaded)
    BY <1>3
  <1> QED BY <1>3, <1>5, <1>8, <1>10, <1>11, <1>12, <1>13, <1>14, <1>15, <1>16 DEF j

\* What a COMMIT writes.
LEMMA Written ==
  ASSUME TypeInv, NEW w \in Workers, CommitBatch(w)
  PROVE  /\ Held(w) = {x.job : x \in worker[w].done}
         /\ jobs' \in Seq(Job) /\ Len(jobs') = Len(jobs)
         /\ due' \in Seq(1..Len(jobs)) /\ Range(due') = Range(due) \ Held(w)
         /\ \A j \in 1..Len(jobs) :
              /\ jobs'[j].device = jobs[j].device /\ jobs'[j].action = jobs[j].action
              /\ jobs'[j].photo = jobs[j].photo
              /\ j \notin Held(w) => jobs'[j] = jobs[j]
              /\ j \in Held(w) =>
                   /\ \E x \in worker[w].done : x.job = j /\ jobs'[j].status = x.status
                   /\ jobs'[j].attempts = worker[w].loaded[j] + 1
  <1> DEFINE n == Len(jobs)
             ran(j) == {x \in worker[w].done : x.job = j}
  <1>1. n \in Nat /\ DOMAIN jobs = 1..n
    BY DEF TypeInv
  <1>2. worker[w] \in Run /\ RunOver(worker[w], n)
    BY DEF TypeInv, RunOver
  <1>3. Held(w) = {x.job : x \in worker[w].done}
    BY DEF Held, CommitBatch
  <1>4. jobs' = [j \in 1..n |-> Recorded(w, j)]
    BY <1>1 DEF CommitBatch
  <1>5. ASSUME NEW j \in 1..n, ran(j) = {}
        PROVE  Recorded(w, j) = jobs[j]
    BY <1>5 DEF Recorded
  <1>6. ASSUME NEW j \in 1..n, ran(j) # {}
        PROVE  /\ Recorded(w, j) \in Job
               /\ Recorded(w, j).device = jobs[j].device /\ Recorded(w, j).action = jobs[j].action
               /\ Recorded(w, j).photo = jobs[j].photo
               /\ \E x \in worker[w].done : x.job = j /\ Recorded(w, j).status = x.status
               /\ Recorded(w, j).attempts = worker[w].loaded[j] + 1
    <2>1. PICK x \in ran(j) : x = CHOOSE y \in ran(j) : TRUE
      BY <1>6
    <2>2. x \in worker[w].done /\ x.job = j /\ x.status \in Statuses
      BY <1>2, <2>1 DEF Run
    <2>3. j \in 1..Len(worker[w].loaded)
      BY <1>2, <2>2 DEF RunOver
    <2>4. worker[w].loaded[j] + 1 \in Nat
      BY <1>2, <2>3 DEF Run
    <2>5. jobs[j] \in Job
      BY DEF TypeInv
    <2> DEFINE s == x.status
               a == worker[w].loaded[j] + 1
    <2>6. Recorded(w, j) = [jobs[j] EXCEPT !.status = s, !.attempts = a]
      BY <1>6, <2>1 DEF Recorded
    <2>7. s \in Statuses /\ a \in Nat
      BY <2>2, <2>4
    <2> HIDE DEF s, a
    <2>8. /\ Recorded(w, j) \in Job
          /\ Recorded(w, j).device = jobs[j].device /\ Recorded(w, j).action = jobs[j].action
          /\ Recorded(w, j).photo = jobs[j].photo
          /\ Recorded(w, j).status = s /\ Recorded(w, j).attempts = a
      BY <2>5, <2>6, <2>7 DEF Job
    <2> QED BY <2>2, <2>8 DEF s, a
  <1>7. \A j \in 1..n : j \in Held(w) <=> ran(j) # {}
    BY <1>3
  <1>8. \A j \in 1..n : jobs[j] \in Job
    BY DEF TypeInv
  <1>9. jobs' \in Seq(Job) /\ Len(jobs') = n
    <2>1. \A j \in 1..n : Recorded(w, j) \in Job
      BY <1>5, <1>6, <1>8
    <2> QED BY <1>1, <1>4, <2>1, IsASeq
  <1>10. \A j \in 1..n : jobs'[j] = Recorded(w, j)
    BY <1>4
  <1>11. due' \in Seq(1..n) /\ Range(due') = Range(due) \ Held(w)
    BY RowsRemoved DEF TypeInv, CommitBatch
  <1> HIDE DEF ran, n
  <1> QED BY <1>3, <1>5, <1>6, <1>7, <1>9, <1>10, <1>11 DEF n

LEMMA WorkersTyped ==
  ASSUME TypeInv, NEW w \in Workers, Start(w) \/ Drain(w) \/ Crash(w)
  PROVE  TypeInv'
  <1>0. Len(jobs) \in Nat
    BY DEF TypeInv
  <1>1. CASE Start(w)
    BY <1>1, Started, WorkerTyped DEF Start, TypeInv
  <1>2. CASE Take(w)
    BY <1>2, Took, WorkerTyped DEF Take, TypeInv
  <1>3. CASE Push(w)
    <2>1. UNCHANGED <<employee, uploads, device, queue, request>>
      BY <1>3 DEF Push
    <2>2. /\ worker' = [worker EXCEPT ![w] = worker'[w]] /\ RunOver(worker'[w], Len(jobs))
          /\ template' \in [Devices -> Nat]
      BY <1>3, Ran
    <2> QED BY <2>1, <2>2, WorkerTyped
  <1>4. CASE CommitBatch(w)
    <2>1. jobs' \in Seq(Job) /\ Len(jobs') >= Len(jobs) /\ due' \in Seq(1..Len(jobs'))
      BY <1>0, <1>4, Written
    <2>2. /\ worker' = [worker EXCEPT ![w] = Resting]
          /\ UNCHANGED <<employee, uploads, device, template, request>>
      BY <1>4 DEF CommitBatch
    <2> QED BY <2>1, <2>2, RowsTyped
  <1>5. CASE Rollback(w)
    BY <1>0, <1>5, RestingTyped, WorkerTyped DEF Rollback, TypeInv
  <1> QED BY <1>1, <1>2, <1>3, <1>4, <1>5 DEF Drain, Abort, Crash

LEMMA TerminalsTyped ==
  ASSUME TypeInv, NEW d \in Devices, Terminal(d)
  PROVE  TypeInv'
  <1>1. \A from, to : SetDevice(d, from, to) /\ to \in {"inactive", "offline", "online"} => TypeInv'
    <2> TAKE from, to
    <2> SUFFICES ASSUME SetDevice(d, from, to), to \in {"inactive", "offline", "online"}
                 PROVE  TypeInv'
      OBVIOUS
    <2>1. device' \in [Devices -> {"absent", "inactive", "offline", "online"}]
      BY DEF SetDevice, TypeInv
    <2>2. UNCHANGED <<employee, uploads, template, jobs, due, worker, request>>
      BY DEF SetDevice, queue
    <2> QED BY <2>1, <2>2 DEF TypeInv
  <1> QED BY <1>1 DEF Terminal, MarkSeen, SweepOffline, DeactivateDevice, ReactivateDevice

LEMMA TypeInvStep == TypeInv /\ [Next]_vars => TypeInv'
  <1> SUFFICES ASSUME TypeInv, [Next]_vars PROVE TypeInv'
    OBVIOUS
  <1>0. Len(jobs) \in Nat /\ DOMAIN jobs = 1..Len(jobs)
    BY DEF TypeInv
  <1>1. ASSUME NEW r \in Requests, Request(r) PROVE TypeInv'
    BY <1>1, EditsTyped, FanoutsTyped DEF Request
  <1>2. ASSUME NEW w \in Workers, Start(w) \/ Drain(w) \/ Crash(w) PROVE TypeInv'
    BY <1>2, WorkersTyped
  <1>3. ASSUME NEW d \in Devices, Terminal(d) PROVE TypeInv'
    BY <1>3, TerminalsTyped
  <1>4. ASSUME NEW j \in DOMAIN jobs, RetryJob(j) PROVE TypeInv'
    <2>1. jobs' \in Seq(Job) /\ Len(jobs') >= Len(jobs) /\ due' \in Seq(1..Len(jobs'))
      BY <1>0, <1>4, Retried
    <2> QED BY <1>4, <2>1, RowsTyped DEF RetryJob
  <1>5. ASSUME NEW j \in DOMAIN jobs, Elapse(j) PROVE TypeInv'
    <2>1. j \in 1..Len(jobs) /\ due \in Seq(1..Len(jobs)) /\ due' = Append(due, j)
      BY <1>0, <1>5 DEF TypeInv, Elapse
    <2>2. due' \in Seq(1..Len(jobs))
      BY <2>1, AppendProperties
    <2> QED BY <1>0, <1>5, <2>2, RowsTyped DEF Elapse, TypeInv
  <1>6. CASE UNCHANGED vars
    BY <1>6 DEF vars, TypeInv
  <1> QED BY <1>1, <1>2, <1>3, <1>4, <1>5, <1>6 DEF Next, Retries, Elapses

\* The types, whatever workers, requests and retries overlap: in particular no row
\* is left IN_PROGRESS by a COMMIT, and due, the batches and the fan-outs only ever
\* name rows that exist.
THEOREM TypeCorrect == Spec => []TypeOK
  <1>1. Init => TypeInv
    BY TypeInvInit
  <1>2. TypeInv /\ [Next]_vars => TypeInv'
    BY TypeInvStep
  <1>3. TypeInv => TypeOK
    BY TypeInvOK
  <1> QED BY <1>1, <1>2, <1>3, PTL DEF Spec

(***************************************************************************)
(* One outstanding row of a target.                                        *)
(***************************************************************************)

\* The rows that a batch is about, and those that it has flushed.
BatchOf(t) == Range(t.rest) \cup {x.job : x \in t.done}
HeldOf(t) == {x.job : x \in t.done} \cup (IF t.phase = "push" THEN {Head(t.rest)} ELSE {})

SameTarget(i, k) == jobs[i].device = jobs[k].device /\ jobs[i].action = jobs[k].action

\* Two rows of a batch have different targets, and no other outstanding row has
\* the target of one that it has flushed.
OnePerTarget(t) == \A i, k \in BatchOf(t) : SameTarget(i, k) => i = k
NoRival(t) == \A i \in HeldOf(t), k \in 1..Len(jobs) : Live(k) /\ SameTarget(i, k) => k = i

LiveInv ==
  /\ TypeInv
  /\ \A i, k \in 1..Len(jobs) : Live(i) /\ Live(k) /\ SameTarget(i, k) => i = k
  /\ \A j \in Range(due) : Live(j)
  /\ \A w \in Workers : OnePerTarget(worker[w]) /\ NoRival(worker[w])
  /\ \A v, w \in Workers : v # w =>
       \A i \in HeldOf(worker[v]), k \in HeldOf(worker[w]) : ~SameTarget(i, k)

LEMMA BatchRows ==
  ASSUME NEW t, NEW n \in Nat, RunOver(t, n)
  PROVE  HeldOf(t) \subseteq BatchOf(t) /\ BatchOf(t) \subseteq 1..n
  <1>1. /\ t.rest \in Seq(1..Len(t.loaded)) /\ Len(t.loaded) \in Nat /\ Len(t.loaded) <= n
        /\ \A x \in t.done : x.job \in 1..Len(t.loaded)
        /\ t.phase = "push" => t.rest # <<>>
    BY DEF RunOver, Run
  <1>2. Range(t.rest) \subseteq 1..Len(t.loaded)
    BY <1>1, RangeOfSeq
  <1>3. t.rest # <<>> => Head(t.rest) \in Range(t.rest)
    <2>1. Range(t.rest) = {t.rest[i] : i \in 1..Len(t.rest)}
      BY <1>1, RangeEquality
    <2>2. t.rest # <<>> => 1 \in 1..Len(t.rest) /\ Head(t.rest) = t.rest[1]
      BY <1>1
    <2> QED BY <2>1, <2>2
  <1> QED BY <1>1, <1>2, <1>3 DEF BatchOf, HeldOf

LEMMA RestingHolds == HeldOf(Resting) = {} /\ BatchOf(Resting) = {}
  BY DEF HeldOf, BatchOf, Resting, Range

LEMMA HeldIs ==
  /\ \A w : Held(w) = HeldOf(worker[w])
  /\ \A i, k : Target(i) = Target(k) <=> SameTarget(i, k)
  BY DEF Held, HeldOf, Target, SameTarget

LEMMA LiveInvInit == Init => LiveInv
  <1> SUFFICES ASSUME Init PROVE LiveInv
    OBVIOUS
  <1>1. Len(jobs) = 0 /\ Range(due) = {} /\ \A w \in Workers : worker[w] = Resting
    BY DEF Init, Range
  <1> QED BY <1>1, TypeInvInit, RestingHolds DEF LiveInv, OnePerTarget, NoRival

\* A step that leaves the rows and the workers alone.
LEMMA LiveElsewhere ==
  ASSUME LiveInv, TypeInv', UNCHANGED <<jobs, due, worker>>
  PROVE  LiveInv'
  BY DEF LiveInv, OnePerTarget, NoRival, SameTarget, Live

\* A step of one worker.
LEMMA LiveWorker ==
  ASSUME LiveInv, TypeInv', NEW w \in Workers, NEW t,
         UNCHANGED queue, worker' = [worker EXCEPT ![w] = t],
         OnePerTarget(t), NoRival(t),
         \A v \in Workers : v # w =>
           \A i \in HeldOf(worker[v]), k \in HeldOf(t) : ~SameTarget(i, k)
  PROVE  LiveInv'
  <1>1. UNCHANGED <<jobs, due>>
    BY DEF queue
  <1>2. /\ \A v \in Workers : worker'[v] = IF v = w THEN t ELSE worker[v]
    BY DEF LiveInv, TypeInv
  <1>3. \A v \in Workers : OnePerTarget(worker'[v]) /\ NoRival(worker'[v])
    BY <1>2 DEF LiveInv
  <1>4. \A u, v \in Workers : u # v =>
          \A i \in HeldOf(worker'[u]), k \in HeldOf(worker'[v]) : ~SameTarget(i, k)
    <2>1. \A i, k : SameTarget(i, k) => SameTarget(k, i)
      BY DEF SameTarget
    <2> QED BY <1>2, <2>1 DEF LiveInv
  <1> QED BY <1>1, <1>3, <1>4 DEF LiveInv, OnePerTarget, NoRival, SameTarget, Live

\* A step that changes what rows say, or adds some.
LEMMA LiveRows ==
  ASSUME LiveInv, TypeInv', Len(jobs') >= Len(jobs),
         \A j \in 1..Len(jobs) :
           jobs'[j].device = jobs[j].device /\ jobs'[j].action = jobs[j].action,
         \A w \in Workers : worker'[w] = worker[w] \/ worker'[w] = Resting,
         (\A i, k \in 1..Len(jobs) : Live(i) /\ Live(k) /\ SameTarget(i, k) => i = k)',
         (\A j \in Range(due) : Live(j))',
         \A w \in Workers : worker'[w] = worker[w] => NoRival(worker[w])'
  PROVE  LiveInv'
  <1>0. Len(jobs) \in Nat /\ Len(jobs') \in Nat
    BY DEF LiveInv, TypeInv
  <1>1. \A w \in Workers : HeldOf(worker[w]) \subseteq BatchOf(worker[w])
                           /\ BatchOf(worker[w]) \subseteq 1..Len(jobs)
    BY <1>0, BatchRows DEF LiveInv, TypeInv
  <1>2. \A i, k \in 1..Len(jobs) : SameTarget(i, k)' <=> SameTarget(i, k)
    BY DEF SameTarget
  <1>3. ASSUME NEW w \in Workers PROVE OnePerTarget(worker[w])'
    <2>1. CASE worker'[w] = worker[w]
      BY <1>1, <1>2, <2>1 DEF LiveInv, OnePerTarget
    <2>2. CASE worker'[w] = Resting
      BY <2>2, RestingHolds DEF OnePerTarget
    <2> QED BY <2>1, <2>2
  <1>4. ASSUME NEW w \in Workers PROVE NoRival(worker[w])'
    <2>1. CASE worker'[w] = worker[w]
      BY <2>1 DEF NoRival
    <2>2. CASE worker'[w] = Resting
      BY <2>2, RestingHolds DEF NoRival
    <2> QED BY <2>1, <2>2
  <1>5. ASSUME NEW v \in Workers, NEW w \in Workers, v # w,
               NEW i \in HeldOf(worker'[v]), NEW k \in HeldOf(worker'[w])
        PROVE  ~SameTarget(i, k)'
    <2>1. worker'[v] = worker[v] /\ worker'[w] = worker[w]
      BY <1>5, RestingHolds
    <2>2. i \in HeldOf(worker[v]) /\ k \in HeldOf(worker[w])
      BY <1>5, <2>1
    <2>3. ~SameTarget(i, k)
      BY <1>5, <2>2 DEF LiveInv
    <2> QED BY <1>1, <1>2, <2>2, <2>3
  <1> QED BY <1>3, <1>4, <1>5 DEF LiveInv

LEMMA LiveStart ==
  ASSUME LiveInv, TypeInv', NEW w \in Workers, Start(w)
  PROVE  LiveInv'
  <1> DEFINE t == worker'[w]
  <1>1. /\ worker' = [worker EXCEPT ![w] = t] /\ t.phase = "take" /\ t.done = {}
        /\ Range(t.rest) \subseteq Range(due)
    BY Started DEF LiveInv
  <1>2. HeldOf(t) = {} /\ BatchOf(t) \subseteq Range(due)
    BY <1>1 DEF HeldOf, BatchOf
  <1>3. Range(due) \subseteq 1..Len(jobs)
    BY RangeOfSeq DEF LiveInv, TypeInv
  <1> HIDE DEF t
  <1>4. OnePerTarget(t) /\ NoRival(t)
    BY <1>2, <1>3 DEF LiveInv, OnePerTarget, NoRival
  <1>5. UNCHANGED queue
    BY DEF Start
  <1> QED BY <1>1, <1>2, <1>4, <1>5, LiveWorker

LEMMA LiveTake ==
  ASSUME LiveInv, TypeInv', NEW w \in Workers, Take(w)
  PROVE  LiveInv'
  <1> DEFINE t == worker'[w]
             j == Head(worker[w].rest)
  <1>1. /\ worker' = [worker EXCEPT ![w] = t] /\ t.phase = "push"
        /\ t.rest = worker[w].rest /\ t.done = worker[w].done
    BY Took DEF LiveInv
  <1>2. worker[w].phase = "take"
    BY DEF Take, Taking
  <1>3. BatchOf(t) = BatchOf(worker[w]) /\ HeldOf(t) = HeldOf(worker[w]) \cup {j}
    BY <1>1, <1>2 DEF HeldOf, BatchOf
  <1>4. \A k \in 1..Len(jobs) : Live(k) /\ SameTarget(j, k) => k = j
    <2>1. LiveFor({Target(j)}) \subseteq {j}
      BY DEF Take, Clashes
    <2>2. DOMAIN jobs = 1..Len(jobs)
      BY DEF LiveInv, TypeInv
    <2>3. \A k : SameTarget(j, k) => Target(k) = Target(j)
      BY DEF SameTarget, Target
    <2> QED BY <2>1, <2>2, <2>3 DEF LiveFor
  <1>5. \A v \in Workers : v # w => \A i \in HeldOf(worker[v]) : ~SameTarget(i, j)
    <2>1. Waits(w) = {}
      BY DEF Take
    <2> QED BY <2>1, HeldIs DEF Waits
  <1> HIDE DEF t, j
  <1>6. OnePerTarget(t) /\ NoRival(t)
    BY <1>3, <1>4 DEF LiveInv, OnePerTarget, NoRival
  <1>7. \A v \in Workers : v # w =>
           \A i \in HeldOf(worker[v]), k \in HeldOf(t) : ~SameTarget(i, k)
    BY <1>3, <1>5 DEF LiveInv
  <1>8. UNCHANGED queue
    BY DEF Take
  <1> QED BY <1>1, <1>6, <1>7, <1>8, LiveWorker

LEMMA LivePush ==
  ASSUME LiveInv, TypeInv', NEW w \in Workers, Push(w)
  PROVE  LiveInv'
  <1> DEFINE t == worker'[w]
             j == Head(worker[w].rest)
  <1>1. /\ worker' = [worker EXCEPT ![w] = t] /\ t.phase = "take"
        /\ Range(worker[w].rest) = {j} \cup Range(t.rest)
        /\ \E s : t.done = worker[w].done \cup {[job |-> j, status |-> s]}
    BY Ran DEF LiveInv
  <1>2. worker[w].phase = "push" /\ UNCHANGED queue
    BY DEF Push
  <1>3. {x.job : x \in t.done} = {x.job : x \in worker[w].done} \cup {j}
    <2>1. PICK s : t.done = worker[w].done \cup {[job |-> j, status |-> s]}
      BY <1>1
    <2> DEFINE rec == [job |-> j, status |-> s]
    <2>2. rec.job = j /\ t.done = worker[w].done \cup {rec}
      BY <2>1
    <2> HIDE DEF rec, t, j
    <2> QED BY <2>2
  <1>4. BatchOf(t) = BatchOf(worker[w]) /\ HeldOf(t) = HeldOf(worker[w])
    BY <1>1, <1>2, <1>3 DEF HeldOf, BatchOf
  <1> HIDE DEF t, j
  <1>5. OnePerTarget(t) /\ NoRival(t)
    BY <1>4 DEF LiveInv, OnePerTarget, NoRival
  <1>6. \A v \in Workers : v # w =>
           \A i \in HeldOf(worker[v]), k \in HeldOf(t) : ~SameTarget(i, k)
    BY <1>4 DEF LiveInv
  <1> QED BY <1>1, <1>2, <1>5, <1>6, LiveWorker

LEMMA LiveRollback ==
  ASSUME LiveInv, TypeInv', NEW w \in Workers, Rollback(w)
  PROVE  LiveInv'
  <1>1. OnePerTarget(Resting) /\ NoRival(Resting)
    BY RestingHolds DEF OnePerTarget, NoRival
  <1> QED BY <1>1, RestingHolds, LiveWorker DEF Rollback

LEMMA LiveCommit ==
  ASSUME LiveInv, TypeInv', NEW w \in Workers, CommitBatch(w)
  PROVE  LiveInv'
  <1>0. Len(jobs) \in Nat
    BY DEF LiveInv, TypeInv
  <1>1. /\ Len(jobs') = Len(jobs) /\ Range(due') = Range(due) \ HeldOf(worker[w])
        /\ \A j \in 1..Len(jobs) :
             /\ jobs'[j].device = jobs[j].device /\ jobs'[j].action = jobs[j].action
             /\ j \notin HeldOf(worker[w]) => jobs'[j] = jobs[j]
    BY Written, HeldIs DEF LiveInv
  <1>2. worker' = [worker EXCEPT ![w] = Resting]
    BY DEF CommitBatch
  <1>3. \A v \in Workers : worker'[v] = IF v = w THEN Resting ELSE worker[v]
    BY <1>2 DEF LiveInv, TypeInv
  <1>4. \A i, k \in 1..Len(jobs) : SameTarget(i, k)' <=> SameTarget(i, k)
    BY <1>1 DEF SameTarget
  <1>5. \A j \in 1..Len(jobs) : Live(j)' => Live(j) \/ j \in HeldOf(worker[w])
    BY <1>1 DEF Live
  <1>6. \A v \in Workers : HeldOf(worker[v]) \subseteq BatchOf(worker[v])
                           /\ BatchOf(worker[v]) \subseteq 1..Len(jobs)
    BY <1>0, BatchRows DEF LiveInv, TypeInv
  <1>7. ASSUME NEW i \in 1..Len(jobs), NEW k \in 1..Len(jobs), Live(i)', Live(k)', SameTarget(i, k)
        PROVE  i = k
    <2>1. SameTarget(k, i)
      BY <1>7 DEF SameTarget
    <2>2. CASE i \in HeldOf(worker[w]) /\ k \in HeldOf(worker[w])
      BY <1>6, <1>7, <2>2 DEF LiveInv, OnePerTarget
    <2>3. CASE i \in HeldOf(worker[w]) /\ k \notin HeldOf(worker[w])
      BY <1>5, <1>7, <2>3 DEF LiveInv, NoRival
    <2>4. CASE i \notin HeldOf(worker[w]) /\ k \in HeldOf(worker[w])
      BY <1>5, <1>7, <2>1, <2>4 DEF LiveInv, NoRival
    <2>5. CASE i \notin HeldOf(worker[w]) /\ k \notin HeldOf(worker[w])
      BY <1>5, <1>7, <2>5 DEF LiveInv
    <2> QED BY <2>2, <2>3, <2>4, <2>5
  <1>8. (\A i, k \in 1..Len(jobs) : Live(i) /\ Live(k) /\ SameTarget(i, k) => i = k)'
    BY <1>1, <1>4, <1>7
  <1>9. (\A j \in Range(due) : Live(j))'
    <2>1. Range(due) \subseteq 1..Len(jobs)
      BY RangeOfSeq DEF LiveInv, TypeInv
    <2> QED BY <1>1, <2>1 DEF LiveInv, Live
  <1>10. ASSUME NEW v \in Workers, worker'[v] = worker[v] PROVE NoRival(worker[v])'
    <2>1. CASE v = w
      BY <1>3, <2>1, RestingHolds DEF NoRival
    <2>2. CASE v # w
      <3> SUFFICES ASSUME NEW i \in HeldOf(worker[v]), NEW k \in 1..Len(jobs),
                          Live(k)', SameTarget(i, k)
                   PROVE  k = i
        BY <1>1, <1>4, <1>6, <1>10 DEF NoRival
      <3>1. k \notin HeldOf(worker[w])
        BY <2>2 DEF LiveInv
      <3>2. Live(k)
        BY <1>5, <3>1
      <3> QED BY <3>2 DEF LiveInv, NoRival
    <2> QED BY <2>1, <2>2
  <1> QED BY <1>0, <1>1, <1>3, <1>8, <1>9, <1>10, LiveRows

LEMMA LiveRetry ==
  ASSUME LiveInv, TypeInv', NEW j \in DOMAIN jobs, RetryJob(j)
  PROVE  LiveInv'
  <1>0. Len(jobs) \in Nat /\ j \in 1..Len(jobs) /\ DOMAIN jobs = 1..Len(jobs)
    BY DEF LiveInv, TypeInv
  <1>1. /\ Len(jobs') = Len(jobs) /\ Range(due') = Range(due) \cup {j}
        /\ \A i \in 1..Len(jobs) :
             /\ jobs'[i].device = jobs[i].device /\ jobs'[i].action = jobs[i].action
             /\ i # j => jobs'[i] = jobs[i]
        /\ jobs'[j].status = "PENDING"
    BY <1>0, Retried DEF LiveInv
  <1>2. UNCHANGED worker
    BY DEF RetryJob
  <1>3. \A i, k \in 1..Len(jobs) : SameTarget(i, k)' <=> SameTarget(i, k)
    BY <1>1 DEF SameTarget
  <1>4. \A i \in 1..Len(jobs) : i # j => (Live(i)' <=> Live(i))
    BY <1>1 DEF Live
  <1>5. \A i \in 1..Len(jobs) : Live(i) /\ SameTarget(i, j) => i = j
    BY <1>0 DEF RetryJob, LiveFor, SameTarget, Target
  <1>6. \A w \in Workers : \A i \in HeldOf(worker[w]) : ~SameTarget(i, j)
    BY HeldIs DEF RetryJob, HeldRows
  <1>7. \A w \in Workers : HeldOf(worker[w]) \subseteq 1..Len(jobs)
    BY <1>0, BatchRows DEF LiveInv, TypeInv
  <1>8. (\A i, k \in 1..Len(jobs) : Live(i) /\ Live(k) /\ SameTarget(i, k) => i = k)'
    <2> SUFFICES ASSUME NEW i \in 1..Len(jobs), NEW k \in 1..Len(jobs),
                        Live(i)', Live(k)', SameTarget(i, k)
                 PROVE  i = k
      BY <1>1, <1>3
    <2>1. SameTarget(k, i)
      BY DEF SameTarget
    <2> QED BY <1>4, <1>5, <2>1 DEF LiveInv
  <1>9. (\A i \in Range(due) : Live(i))'
    <2>1. Range(due) \subseteq 1..Len(jobs)
      BY RangeOfSeq DEF LiveInv, TypeInv
    <2>2. Live(j)'
      BY <1>1 DEF Live, Outstanding
    <2> QED BY <1>1, <1>4, <2>1, <2>2 DEF LiveInv
  <1>10. ASSUME NEW w \in Workers PROVE NoRival(worker[w])'
    <2> SUFFICES ASSUME NEW i \in HeldOf(worker[w]), NEW k \in 1..Len(jobs),
                        Live(k)', SameTarget(i, k)
                 PROVE  k = i
      BY <1>1, <1>2, <1>3, <1>7 DEF NoRival
    <2>1. k # j
      BY <1>6
    <2> QED BY <1>4, <2>1 DEF LiveInv, NoRival
  <1> QED BY <1>0, <1>1, <1>2, <1>8, <1>9, <1>10, LiveRows

\* What an Enqueue does to the rows: nothing, or the rows it found take the photo on
\* file, those that are outstanding become due, and each other target gets a row.
LEMMA Upserted ==
  ASSUME TypeInv, NEW r \in Requests, Enqueue(r)
  PROVE  \/ LiveFor(Missing(r)) # {} /\ UNCHANGED queue
         \/ /\ LiveFor(Missing(r)) = {}
            /\ jobs' \in Seq(Job) /\ Len(jobs') >= Len(jobs)
            /\ \A j \in 1..Len(jobs) :
                 /\ jobs'[j].device = jobs[j].device /\ jobs'[j].action = jobs[j].action
                 /\ jobs'[j].status = jobs[j].status /\ jobs'[j].attempts = jobs[j].attempts
                 /\ jobs'[j].photo \in {jobs[j].photo, employee.photo}
            /\ \A j \in Len(jobs) + 1..Len(jobs') :
                 /\ jobs'[j].status = "PENDING" /\ jobs'[j].attempts = 0
                 /\ <<jobs'[j].device, jobs'[j].action>> \in Missing(r)
            /\ \A i, k \in Len(jobs) + 1..Len(jobs') :
                 jobs'[i].device = jobs'[k].device /\ jobs'[i].action = jobs'[k].action => i = k
            /\ \A t \in Missing(r) : \E j \in Len(jobs) + 1..Len(jobs') :
                 <<jobs'[j].device, jobs'[j].action>> = t
            /\ Range(due') = (Range(due) \ request[r].found)
                               \cup {j \in request[r].found : Live(j)}
                               \cup Len(jobs) + 1..Len(jobs')
  <1> DEFINE found == request[r].found
             new == Inserted(Missing(r))
             old == Bumped(found)
             nums == [i \in DOMAIN new |-> Len(jobs) + i]
             first == Requeued(found)
             N == Len(jobs) + Len(new)
  <1>1. \/ LiveFor(Missing(r)) # {} /\ UNCHANGED queue
        \/ LiveFor(Missing(r)) = {} /\ jobs' = old \o new /\ due' = first \o nums
    BY DEF Enqueue
  <1>2. Len(jobs) \in Nat /\ request[r].phase = "commit"
    BY DEF TypeInv, Enqueue
  <1> SUFFICES ASSUME LiveFor(Missing(r)) = {} /\ jobs' = old \o new /\ due' = first \o nums
               PROVE  /\ LiveFor(Missing(r)) = {}
                      /\ jobs' \in Seq(Job) /\ Len(jobs') >= Len(jobs)
                      /\ \A j \in 1..Len(jobs) :
                           /\ jobs'[j].device = jobs[j].device /\ jobs'[j].action = jobs[j].action
                           /\ jobs'[j].status = jobs[j].status
                           /\ jobs'[j].attempts = jobs[j].attempts
                           /\ jobs'[j].photo \in {jobs[j].photo, employee.photo}
                      /\ \A j \in Len(jobs) + 1..Len(jobs') :
                           /\ jobs'[j].status = "PENDING" /\ jobs'[j].attempts = 0
                           /\ <<jobs'[j].device, jobs'[j].action>> \in Missing(r)
                      /\ \A i, k \in Len(jobs) + 1..Len(jobs') :
                           jobs'[i].device = jobs'[k].device /\ jobs'[i].action = jobs'[k].action
                             => i = k
                      /\ \A t \in Missing(r) : \E j \in Len(jobs) + 1..Len(jobs') :
                           <<jobs'[j].device, jobs'[j].action>> = t
                      /\ Range(due') = (Range(due) \ found) \cup {j \in found : Live(j)}
                                         \cup Len(jobs) + 1..Len(jobs')
    BY <1>1
  <1>3. /\ new \in Seq(Job) /\ old \in Seq(Job) /\ Len(old) = Len(jobs)
        /\ \A i \in 1..Len(new) :
             /\ new[i].status = "PENDING" /\ new[i].attempts = 0
             /\ <<new[i].device, new[i].action>> \in Missing(r)
        /\ \A i, k \in 1..Len(new) :
             new[i].device = new[k].device /\ new[i].action = new[k].action => i = k
        /\ \A t \in Missing(r) : \E i \in 1..Len(new) : <<new[i].device, new[i].action>> = t
        /\ first \in Seq(1..Len(jobs))
        /\ Range(first) = (Range(due) \ found) \cup {j \in found : Live(j)}
        /\ nums \in Seq(1..N) /\ Range(nums) = Len(jobs) + 1..N
    BY <1>2, Enqueued
  <1>4. \A j \in 1..Len(jobs) :
             /\ old[j].device = jobs[j].device /\ old[j].action = jobs[j].action
             /\ old[j].status = jobs[j].status /\ old[j].attempts = jobs[j].attempts
             /\ old[j].photo \in {jobs[j].photo, employee.photo}
    <2> TAKE j \in 1..Len(jobs)
    <2>1. jobs[j] \in Job /\ DOMAIN jobs = 1..Len(jobs)
      BY DEF TypeInv
    <2>2. old[j] = IF j \in found THEN [jobs[j] EXCEPT !.photo = employee.photo] ELSE jobs[j]
      BY <2>1 DEF Bumped
    <2> HIDE DEF old
    <2> QED BY <2>1, <2>2 DEF Job
  <1> HIDE DEF new, old, nums, first, N
  <1>5. Len(new) \in Nat
    BY <1>3
  <1>6. /\ jobs' \in Seq(Job) /\ Len(jobs') = N
        /\ \A i \in 1..N : jobs'[i] = IF i <= Len(jobs) THEN old[i] ELSE new[i - Len(jobs)]
    <2>1. /\ old \o new \in Seq(Job) /\ Len(old \o new) = Len(old) + Len(new)
          /\ \A i \in 1..Len(old) + Len(new) :
               (old \o new)[i] = IF i <= Len(old) THEN old[i] ELSE new[i - Len(old)]
      <3>1. old \in Seq(Job) /\ new \in Seq(Job)
        BY <1>3
      <3> QED BY <3>1, ConcatProperties
    <2> QED BY <1>3, <2>1 DEF N
  <1>7. Range(due') = Range(first) \cup Range(nums)
    <2>1. 1..Len(jobs) \subseteq 1..N
      BY <1>2, <1>5 DEF N
    <2>2. first \in Seq(1..N)
      BY <1>3, <2>1, SeqMonotonic
    <2>3. Range(first \o nums) = Range(first) \cup Range(nums)
      <3>1. nums \in Seq(1..N)
        BY <1>3
      <3> QED BY <2>2, <3>1, RangeConcatenation
    <2> QED BY <2>3
  <1>8. N \in Nat /\ N >= Len(jobs)
    BY <1>2, <1>5 DEF N
  <1>9. \A j \in 1..Len(jobs) : jobs'[j] = old[j]
    BY <1>2, <1>6, <1>8
  <1>10. \A j \in Len(jobs) + 1..N :
           j - Len(jobs) \in 1..Len(new) /\ jobs'[j] = new[j - Len(jobs)]
    <2> TAKE j \in Len(jobs) + 1..N
    <2>1. j - Len(jobs) \in 1..Len(new) /\ j \in 1..N /\ ~(j <= Len(jobs))
      BY <1>2, <1>5 DEF N
    <2> QED BY <1>6, <2>1
  <1>11. \A i, k \in Len(jobs) + 1..N :
           jobs'[i].device = jobs'[k].device /\ jobs'[i].action = jobs'[k].action => i = k
    <2> TAKE i, k \in Len(jobs) + 1..N
    <2> HAVE jobs'[i].device = jobs'[k].device /\ jobs'[i].action = jobs'[k].action
    <2> DEFINE a == i - Len(jobs)
               b == k - Len(jobs)
    <2>1. a \in 1..Len(new) /\ b \in 1..Len(new) /\ jobs'[i] = new[a] /\ jobs'[k] = new[b]
      BY <1>10
    <2> HIDE DEF a, b
    <2>2. a = b
      BY <1>3, <2>1
    <2> QED BY <1>2, <1>8, <2>2 DEF a, b
  <1>12. \A t \in Missing(r) : \E j \in Len(jobs) + 1..N :
           <<jobs'[j].device, jobs'[j].action>> = t
    <2> TAKE t \in Missing(r)
    <2>1. PICK i \in 1..Len(new) : <<new[i].device, new[i].action>> = t
      BY <1>3
    <2>2. Len(jobs) + i \in Len(jobs) + 1..N /\ (Len(jobs) + i) - Len(jobs) = i
      BY <1>2, <1>5 DEF N
    <2> QED BY <1>10, <2>1, <2>2
  <1>13. \A j \in Len(jobs) + 1..N :
           /\ jobs'[j].status = "PENDING" /\ jobs'[j].attempts = 0
           /\ <<jobs'[j].device, jobs'[j].action>> \in Missing(r)
    BY <1>3, <1>10
  <1>14. \A j \in 1..Len(jobs) :
           /\ jobs'[j].device = jobs[j].device /\ jobs'[j].action = jobs[j].action
           /\ jobs'[j].status = jobs[j].status
           /\ jobs'[j].attempts = jobs[j].attempts
           /\ jobs'[j].photo \in {jobs[j].photo, employee.photo}
    BY <1>4, <1>9
  <1>15. Range(due') = (Range(due) \ found) \cup {j \in found : Live(j)} \cup Len(jobs) + 1..N
    BY <1>3, <1>7
  <1>16. jobs' \in Seq(Job) /\ N = Len(jobs')
    BY <1>6
  <1> QED BY <1>8, <1>11, <1>12, <1>13, <1>14, <1>15, <1>16

LEMMA LiveEnqueue ==
  ASSUME LiveInv, TypeInv', NEW r \in Requests, Enqueue(r)
  PROVE  LiveInv'
  <1> DEFINE n == Len(jobs)
             found == request[r].found
  <1>0. n \in Nat /\ DOMAIN jobs = 1..n
    BY DEF LiveInv, TypeInv
  <1>1. UNCHANGED worker
    BY DEF Enqueue
  <1>2. CASE UNCHANGED queue
    BY <1>1, <1>2, LiveElsewhere DEF queue
  <1>3. CASE ~UNCHANGED queue
    <2>1. /\ LiveFor(Missing(r)) = {} /\ Len(jobs') >= n
          /\ \A j \in 1..n :
               /\ jobs'[j].device = jobs[j].device /\ jobs'[j].action = jobs[j].action
               /\ jobs'[j].status = jobs[j].status
          /\ \A j \in n + 1..Len(jobs') :
               /\ jobs'[j].status = "PENDING"
               /\ <<jobs'[j].device, jobs'[j].action>> \in Missing(r)
          /\ \A i, k \in n + 1..Len(jobs') :
               jobs'[i].device = jobs'[k].device /\ jobs'[i].action = jobs'[k].action => i = k
          /\ Range(due') = (Range(due) \ found) \cup {j \in found : Live(j)}
                             \cup n + 1..Len(jobs')
      BY <1>3, Upserted DEF LiveInv
    <2>2. Len(jobs') \in Nat
      BY DEF TypeInv
    <2>3. \A i, k \in 1..n : SameTarget(i, k)' <=> SameTarget(i, k)
      BY <2>1 DEF SameTarget
    <2>4. \A i \in 1..n : Live(i)' <=> Live(i)
      BY <2>1 DEF Live
    <2>5. ASSUME NEW i \in 1..n, NEW k \in n + 1..Len(jobs'), SameTarget(i, k)' \/ SameTarget(k, i)'
          PROVE  ~Live(i) /\ Target(i) \in request[r].wants
      <3>1. Target(i) = <<jobs'[k].device, jobs'[k].action>>
        BY <2>1, <2>5 DEF SameTarget, Target
      <3>2. Target(i) \in Missing(r)
        BY <2>1, <3>1
      <3> QED BY <1>0, <2>1, <3>2 DEF LiveFor, Missing
    <2>6. (\A i, k \in 1..Len(jobs) : Live(i) /\ Live(k) /\ SameTarget(i, k) => i = k)'
      <3> SUFFICES ASSUME NEW i \in 1..Len(jobs'), NEW k \in 1..Len(jobs'),
                          Live(i)', Live(k)', SameTarget(i, k)'
                   PROVE  i = k
        OBVIOUS
      <3>1. CASE i \in 1..n /\ k \in 1..n
        BY <2>3, <2>4, <3>1 DEF LiveInv
      <3>2. CASE i \in n + 1..Len(jobs') /\ k \in n + 1..Len(jobs')
        BY <2>1, <3>2 DEF SameTarget
      <3>3. CASE i \in 1..n /\ k \in n + 1..Len(jobs')
        BY <2>4, <2>5, <3>3
      <3>4. CASE i \in n + 1..Len(jobs') /\ k \in 1..n
        BY <2>4, <2>5, <3>4
      <3> QED BY <1>0, <2>2, <3>1, <3>2, <3>3, <3>4
    <2>7. (\A j \in Range(due) : Live(j))'
      <3>1. Range(due) \subseteq 1..n /\ found \subseteq 1..n
        BY RangeOfSeq DEF LiveInv, TypeInv, FanOver
      <3>2. \A j \in n + 1..Len(jobs') : Live(j)'
        BY <2>1 DEF Live, Outstanding
      <3> QED BY <2>1, <2>4, <3>1, <3>2 DEF LiveInv
    <2>8. ASSUME NEW w \in Workers PROVE NoRival(worker[w])'
      <3>1. HeldOf(worker[w]) \subseteq 1..n
        BY <1>0, BatchRows DEF LiveInv, TypeInv
      <3>2. \A i \in HeldOf(worker[w]) : Target(i) \notin request[r].wants
        BY HeldIs DEF Enqueue, HeldRows
      <3> SUFFICES ASSUME NEW i \in HeldOf(worker[w]), NEW k \in 1..Len(jobs'),
                          Live(k)', SameTarget(i, k)'
                   PROVE  k = i
        BY <1>1 DEF NoRival
      <3>3. CASE k \in 1..n
        BY <2>3, <2>4, <3>1, <3>3 DEF LiveInv, NoRival
      <3>4. CASE k \in n + 1..Len(jobs')
        BY <2>5, <3>1, <3>2, <3>4
      <3> QED BY <1>0, <2>2, <3>3, <3>4
    <2> QED BY <1>1, <2>1, <2>6, <2>7, <2>8, LiveRows
  <1> QED BY <1>2, <1>3

LEMMA LiveInvStep == LiveInv /\ [Next]_vars => LiveInv'
  <1> SUFFICES ASSUME LiveInv, [Next]_vars PROVE LiveInv'
    OBVIOUS
  <1>0. TypeInv'
    BY TypeInvStep DEF LiveInv
  <1>1. ASSUME NEW r \in Requests, Request(r) PROVE LiveInv'
    <2>1. CASE Enqueue(r)
      BY <1>0, <2>1, LiveEnqueue
    <2>2. CASE ~Enqueue(r)
      <3>1. UNCHANGED <<jobs, due, worker>>
        BY <1>1, <2>2 DEF Request, Edits, CreateEmployee, UpdateEmployee, TerminateEmployee,
             SaveEmployee, CreateDevice, Command, Lookup, LoseFanout, queue
      <3> QED BY <1>0, <3>1, LiveElsewhere
    <2> QED BY <2>1, <2>2
  <1>2. ASSUME NEW w \in Workers, Start(w) \/ Drain(w) \/ Crash(w) PROVE LiveInv'
    BY <1>0, <1>2, LiveStart, LiveTake, LivePush, LiveCommit, LiveRollback
       DEF Drain, Abort, Crash
  <1>3. ASSUME NEW d \in Devices, Terminal(d) PROVE LiveInv'
    <2>1. UNCHANGED <<jobs, due, worker>>
      BY <1>3 DEF Terminal, MarkSeen, SweepOffline, DeactivateDevice, ReactivateDevice,
           SetDevice, queue
    <2> QED BY <1>0, <2>1, LiveElsewhere
  <1>4. ASSUME NEW j \in DOMAIN jobs, RetryJob(j) PROVE LiveInv'
    BY <1>0, <1>4, LiveRetry
  <1>5. ASSUME NEW j \in DOMAIN jobs, Elapse(j) PROVE LiveInv'
    <2>1. j \in 1..Len(jobs) /\ due \in Seq(1..Len(jobs)) /\ Live(j)
          /\ due' = Append(due, j) /\ UNCHANGED <<jobs, worker>>
      BY <1>5 DEF LiveInv, TypeInv, Elapse
    <2>2. Range(due') = Range(due) \cup {j}
      <3>1. due' = due \o <<j>>
        BY <2>1, AppendIsConcat
      <3>2. <<j>> \in Seq(1..Len(jobs)) /\ Range(<<j>>) = {j}
        BY <2>1 DEF Range
      <3> DEFINE last == <<j>>
      <3>3. last \in Seq(1..Len(jobs)) /\ Range(last) = {j} /\ due' = due \o last
        BY <3>1, <3>2
      <3> HIDE DEF last
      <3>4. Range(due \o last) = Range(due) \cup Range(last)
        BY <2>1, <3>3, RangeConcatenation
      <3> QED BY <3>3, <3>4
    <2> QED BY <1>0, <2>1, <2>2 DEF LiveInv, OnePerTarget, NoRival, SameTarget, Live
  <1>6. CASE UNCHANGED vars
    BY <1>0, <1>6, LiveElsewhere DEF vars
  <1> QED BY <1>1, <1>2, <1>3, <1>4, <1>5, <1>6 DEF Next, Retries, Elapses

\* A target never has two outstanding rows, however workers, manual runs, fan-outs
\* and manual retries interleave: _upsert_active_job finds the row or is taken back,
\* and a worker that has flushed a row keeps others from its target until COMMIT.
THEOREM OneOutstandingAlways == Spec => []OneOutstanding
  <1>1. Init => LiveInv
    BY LiveInvInit
  <1>2. LiveInv /\ [Next]_vars => LiveInv'
    BY LiveInvStep
  <1>3. LiveInv => OneOutstanding
    <2> SUFFICES ASSUME LiveInv, NEW i \in DOMAIN jobs, NEW k \in DOMAIN jobs,
                        Live(i), Live(k), Target(i) = Target(k)
                 PROVE  i = k
      BY DEF OneOutstanding
    <2>1. SameTarget(i, k)
      BY HeldIs
    <2>2. DOMAIN jobs = 1..Len(jobs)
      BY DEF LiveInv, TypeInv
    <2> QED BY <2>1, <2>2 DEF LiveInv
  <1> QED BY <1>1, <1>2, <1>3, PTL DEF Spec

(***************************************************************************)
(* Rows are tried as often as the policy says.                             *)
(***************************************************************************)

\* A batch has room for one more attempt of each of its rows, and what it records
\* follows from the attempts that it read.
Counted(t) ==
  /\ \A j \in BatchOf(t) : t.loaded[j] \in Nat /\ t.loaded[j] < MaxAttempts
  /\ \A x \in t.done : \E ok \in BOOLEAN : x.status = Outcome(ok, t.loaded[x.job] + 1)

WithinRetries(row) ==
  /\ row.attempts <= MaxAttempts
  /\ row.status \in {"PENDING", "RETRY"} => row.attempts < MaxAttempts
  /\ row.status = "FAILED" => row.attempts = MaxAttempts

CountInv ==
  /\ LiveInv
  /\ \A w \in Workers : Counted(worker[w])
  /\ \A j \in 1..Len(jobs) : WithinRetries(jobs[j])

LEMMA RestingCounted == Counted(Resting)
  BY RestingHolds DEF Counted, Resting

LEMMA CountInvInit == Init => CountInv
  <1> SUFFICES ASSUME Init PROVE CountInv
    OBVIOUS
  <1>1. Len(jobs) = 0 /\ \A w \in Workers : worker[w] = Resting
    BY DEF Init
  <1> QED BY <1>1, LiveInvInit, RestingCounted DEF CountInv

\* A step of one worker that writes no row, and one that writes rows.
LEMMA CountWorker ==
  ASSUME CountInv, LiveInv', NEW w \in Workers, NEW t, Counted(t),
         UNCHANGED jobs, worker' = [worker EXCEPT ![w] = t]
  PROVE  CountInv'
  <1>1. \A v \in Workers : Counted(worker'[v])
    BY DEF CountInv, LiveInv, TypeInv
  <1> QED BY <1>1 DEF CountInv, Counted

LEMMA CountRows ==
  ASSUME CountInv, LiveInv', \A w \in Workers : worker'[w] \in {worker[w], Resting},
         \A j \in 1..Len(jobs') : WithinRetries(jobs'[j])
  PROVE  CountInv'
  <1>1. \A w \in Workers : Counted(worker'[w])
    BY RestingCounted DEF CountInv
  <1> QED BY <1>1 DEF CountInv, Counted

LEMMA CountWorkers ==
  ASSUME CountInv, LiveInv', NEW w \in Workers, Start(w) \/ Drain(w) \/ Crash(w)
  PROVE  CountInv'
  <1>0. Len(jobs) \in Nat
    BY DEF CountInv, LiveInv, TypeInv
  <1>1. CASE Start(w)
    <2> DEFINE t == worker'[w]
    <2>1. /\ worker' = [worker EXCEPT ![w] = t] /\ t.done = {}
          /\ Range(t.rest) \subseteq Range(due)
          /\ \A j \in Range(t.rest) : t.loaded[j] = jobs[j].attempts
      BY <1>1, Started DEF CountInv, LiveInv
    <2> HIDE DEF t
    <2>2. ASSUME NEW j \in Range(t.rest) PROVE t.loaded[j] \in Nat /\ t.loaded[j] < MaxAttempts
      <3>1. j \in 1..Len(jobs) /\ Live(j)
        BY <2>1, <2>2, RangeOfSeq DEF CountInv, LiveInv, TypeInv
      <3>2. jobs[j] \in Job
        BY <3>1 DEF CountInv, LiveInv, TypeInv
      <3>3. jobs[j].attempts \in Nat
        BY <3>2 DEF Job
      <3>4. jobs[j].attempts < MaxAttempts
        BY <3>1 DEF CountInv, WithinRetries, Live, Outstanding
      <3> QED BY <2>1, <2>2, <3>3, <3>4
    <2>3. Counted(t)
      BY <2>1, <2>2 DEF Counted, BatchOf
    <2>4. UNCHANGED jobs
      BY <1>1 DEF Start, queue
    <2> QED BY <2>1, <2>3, <2>4, CountWorker
  <1>2. CASE Take(w)
    <2> DEFINE t == worker'[w]
    <2>1. /\ worker' = [worker EXCEPT ![w] = t] /\ t.done = worker[w].done
          /\ t.rest = worker[w].rest /\ t.loaded = worker[w].loaded
      BY <1>2, Took DEF CountInv, LiveInv
    <2> HIDE DEF t
    <2>2. Counted(t)
      BY <2>1 DEF Counted, BatchOf, CountInv
    <2>3. UNCHANGED jobs
      BY <1>2 DEF Take, queue
    <2> QED BY <2>1, <2>2, <2>3, CountWorker
  <1>3. CASE Push(w)
    <2> DEFINE t == worker'[w]
               j == Head(worker[w].rest)
    <2>1. /\ worker' = [worker EXCEPT ![w] = t] /\ t.loaded = worker[w].loaded
          /\ Range(worker[w].rest) = {j} \cup Range(t.rest)
          /\ \E answer \in Answers(jobs[j].device, Possible(w, j)) :
               t.done = worker[w].done \cup {[job |-> j, status |->
                          Outcome(answer.ok, worker[w].loaded[j] + 1)]}
      BY <1>3, Ran DEF CountInv, LiveInv
    <2>2. PICK answer \in Answers(jobs[j].device, Possible(w, j)) :
            t.done = worker[w].done \cup {[job |-> j, status |->
                       Outcome(answer.ok, worker[w].loaded[j] + 1)]}
      BY <2>1
    <2> DEFINE ok == answer.ok
               rec == [job |-> j, status |-> Outcome(ok, worker[w].loaded[j] + 1)]
    <2>3. ok \in BOOLEAN
      BY <2>2, AnswerKnown
    <2>4. rec.job = j /\ rec.status = Outcome(ok, worker[w].loaded[j] + 1)
          /\ t.done = worker[w].done \cup {rec}
      BY <2>2
    <2> HIDE DEF t, j, rec, ok
    <2>5. BatchOf(t) = BatchOf(worker[w])
      BY <2>1, <2>4 DEF BatchOf
    <2>6. Counted(t)
      BY <2>1, <2>3, <2>4, <2>5 DEF Counted, CountInv
    <2>7. UNCHANGED jobs
      BY <1>3 DEF Push, queue
    <2> QED BY <2>1, <2>6, <2>7, CountWorker
  <1>4. CASE CommitBatch(w)
    <2>1. /\ Len(jobs') = Len(jobs)
          /\ \A j \in 1..Len(jobs) :
               /\ j \notin HeldOf(worker[w]) => jobs'[j] = jobs[j]
               /\ j \in HeldOf(worker[w]) =>
                    /\ \E x \in worker[w].done : x.job = j /\ jobs'[j].status = x.status
                    /\ jobs'[j].attempts = worker[w].loaded[j] + 1
      BY <1>4, Written, HeldIs DEF CountInv, LiveInv
    <2>2. \A v \in Workers : worker'[v] \in {worker[v], Resting}
      BY <1>4 DEF CommitBatch, CountInv, LiveInv, TypeInv
    <2>3. HeldOf(worker[w]) \subseteq BatchOf(worker[w])
      BY <1>0, BatchRows DEF CountInv, LiveInv, TypeInv
    <2>4. ASSUME NEW j \in 1..Len(jobs), j \in HeldOf(worker[w]) PROVE WithinRetries(jobs'[j])
      <3>1. PICK x \in worker[w].done : x.job = j /\ jobs'[j].status = x.status
        BY <2>1, <2>4
      <3> DEFINE n == worker[w].loaded[j]
      <3>2. n \in Nat /\ n < MaxAttempts
        BY <2>3, <2>4 DEF CountInv, Counted
      <3>3. PICK ok \in BOOLEAN : x.status = Outcome(ok, n + 1)
        BY <3>1 DEF CountInv, Counted
      <3>4. jobs'[j].attempts = n + 1
        BY <2>1, <2>4
      <3> HIDE DEF n
      <3> QED BY <3>1, <3>2, <3>3, <3>4, BoundsAssumption DEF WithinRetries, Outcome
    <2>5. \A j \in 1..Len(jobs') : WithinRetries(jobs'[j])
      BY <2>1, <2>4 DEF CountInv
    <2> QED BY <2>2, <2>5, CountRows
  <1>5. CASE Rollback(w)
    BY <1>5, RestingCounted, CountWorker DEF Rollback, queue
  <1> QED BY <1>1, <1>2, <1>3, <1>4, <1>5 DEF Drain, Abort, Crash

LEMMA CountInvStep == CountInv /\ [Next]_vars => CountInv'
  <1> SUFFICES ASSUME CountInv, [Next]_vars PROVE CountInv'
    OBVIOUS
  <1>0. LiveInv'
    BY LiveInvStep DEF CountInv
  <1>1. ASSUME NEW r \in Requests, Enqueue(r) PROVE CountInv'
    <2>1. UNCHANGED worker
      BY <1>1 DEF Enqueue
    <2>2. CASE UNCHANGED queue
      BY <1>0, <2>1, <2>2, CountRows DEF CountInv, queue
    <2>3. CASE ~UNCHANGED queue
      <3>1. /\ Len(jobs') >= Len(jobs)
            /\ \A j \in 1..Len(jobs) :
                 jobs'[j].status = jobs[j].status /\ jobs'[j].attempts = jobs[j].attempts
            /\ \A j \in Len(jobs) + 1..Len(jobs') :
                 jobs'[j].status = "PENDING" /\ jobs'[j].attempts = 0
        BY <1>1, <2>3, Upserted DEF CountInv, LiveInv
      <3>2. Len(jobs) \in Nat /\ Len(jobs') \in Nat
        BY <1>0 DEF CountInv, LiveInv, TypeInv
      <3>3. \A j \in 1..Len(jobs') : WithinRetries(jobs'[j])
        BY <3>1, <3>2, BoundsAssumption DEF CountInv, WithinRetries
      <3> QED BY <1>0, <2>1, <3>3, CountRows
    <2> QED BY <2>2, <2>3
  <1>2. ASSUME NEW j \in DOMAIN jobs, RetryJob(j) PROVE CountInv'
    <2>1. /\ Len(jobs') = Len(jobs)
          /\ \A i \in 1..Len(jobs) : i # j => jobs'[i] = jobs[i]
          /\ jobs'[j].status = "PENDING" /\ jobs'[j].attempts = 0
      BY <1>2, Retried DEF CountInv, LiveInv
    <2>2. UNCHANGED worker
      BY <1>2 DEF RetryJob
    <2>3. \A i \in 1..Len(jobs') : WithinRetries(jobs'[i])
      BY <2>1, BoundsAssumption DEF CountInv, WithinRetries
    <2> QED BY <1>0, <2>2, <2>3, CountRows
  <1>3. ASSUME NEW w \in Workers, Start(w) \/ Drain(w) \/ Crash(w) PROVE CountInv'
    BY <1>0, <1>3, CountWorkers
  <1>4. CASE \/ \E r \in Requests : Edits(r) \/ Lookup(r) \/ LoseFanout(r)
             \/ (\E d \in Devices : Terminal(d)) \/ Elapses \/ UNCHANGED vars
    <2>1. UNCHANGED <<jobs, worker>>
      BY <1>4 DEF Edits, CreateEmployee, UpdateEmployee, TerminateEmployee,
           SaveEmployee, CreateDevice, Command, Lookup, LoseFanout, queue,
           Terminal, MarkSeen, SweepOffline, DeactivateDevice, ReactivateDevice,
           SetDevice, Elapses, Elapse, vars
    <2> QED BY <1>0, <2>1, CountRows DEF CountInv
  <1> QED BY <1>1, <1>2, <1>3, <1>4 DEF Next, Request, Retries

\* A row is given up exactly when its attempts are used up, however workers, manual
\* runs, requests and manual retries overlap: _run_one writes the status that
\* follows from the attempts it writes, and a batch only ever loads rows that have
\* one left (models/face_sync.py, "up to 5 attempts").
THEOREM GivenUpAtTheLast == Spec => []GivenUpLast
  <1>1. Init => CountInv
    BY CountInvInit
  <1>2. CountInv /\ [Next]_vars => CountInv'
    BY CountInvStep
  <1>3. CountInv => GivenUpLast
    <2> SUFFICES ASSUME CountInv PROVE GivenUpLast
      OBVIOUS
    <2>1. DOMAIN jobs = 1..Len(jobs)
      BY DEF CountInv, LiveInv, TypeInv
    <2> QED BY <2>1 DEF CountInv, GivenUpLast, WithinRetries
  <1> QED BY <1>1, <1>2, <1>3, PTL DEF Spec

(***************************************************************************)
(* The photo on file, when nothing overlaps.                               *)
(***************************************************************************)

\* One batch or one fan-out at a time.
Alone ==
  /\ \A v, w \in Workers : worker[v] # Resting /\ worker[w] # Resting => v = w
  /\ \A q, r \in Requests : request[q] # Served /\ request[r] # Served => q = r
  /\ \A w \in Workers, r \in Requests : worker[w] = Resting \/ request[r] = Served

LEMMA AloneInit == Init => Alone
  BY DEF Init, Alone

LEMMA AloneStep ==
  ASSUME ~Overlap, TypeInv, Alone, [Next]_vars
  PROVE  Alone'
  <1>0. /\ Resting.phase = "idle" /\ Served.phase = "idle"
        /\ DOMAIN worker = Workers /\ DOMAIN request = Requests
    BY DEF Resting, Served, TypeInv
  <1>1. ASSUME UNCHANGED <<worker, request>> PROVE Alone'
    BY <1>1 DEF Alone
  <1>2. ASSUME NEW w \in Workers, Quiet \/ worker[w] # Resting, UNCHANGED request,
               NEW t, worker' = [worker EXCEPT ![w] = t]
        PROVE  Alone'
    <2>1. \A v \in Workers : v # w => worker[v] = Resting
      BY <1>2 DEF Quiet, Alone
    <2>2. \A r \in Requests : request[r] = Served
      BY <1>2 DEF Quiet, Alone
    <2>3. \A v \in Workers : v # w => worker'[v] = Resting
      BY <1>0, <1>2, <2>1
    <2> QED BY <1>2, <2>2, <2>3 DEF Alone
  <1>3. ASSUME NEW r \in Requests, Quiet \/ request[r] # Served, UNCHANGED worker,
               NEW f, request' = [request EXCEPT ![r] = f]
        PROVE  Alone'
    <2>1. \A q \in Requests : q # r => request[q] = Served
      BY <1>3 DEF Quiet, Alone
    <2>2. \A w \in Workers : worker[w] = Resting
      BY <1>3 DEF Quiet, Alone
    <2>3. \A q \in Requests : q # r => request'[q] = Served
      BY <1>0, <1>3, <2>1
    <2> QED BY <1>3, <2>2, <2>3 DEF Alone
  <1>4. ASSUME NEW r \in Requests, Edits(r) PROVE Alone'
    <2>1. UNCHANGED worker
      BY <1>4 DEF Edits, CreateEmployee, UpdateEmployee, TerminateEmployee,
             SaveEmployee, CreateDevice, Command
    <2>2. \E by, wants : Begin(r, by, wants)
      BY <1>4 DEF Edits, CreateEmployee, UpdateEmployee, TerminateEmployee, CreateDevice, Command
    <2>3. PICK f : Quiet /\ request' = [request EXCEPT ![r] = f]
      BY <2>2 DEF Begin, MayBegin
    <2> QED BY <1>3, <2>1, <2>3
  <1>5. ASSUME NEW r \in Requests, Lookup(r) \/ Enqueue(r) \/ LoseFanout(r) PROVE Alone'
    <2>1. UNCHANGED worker /\ request[r] # Served
      BY <1>0, <1>5 DEF Lookup, Enqueue, LoseFanout
    <2>2. \E f : request' = [request EXCEPT ![r] = f]
      BY <1>5 DEF Lookup, Enqueue, LoseFanout
    <2> QED BY <1>3, <2>1, <2>2
  <1>6. ASSUME NEW w \in Workers, Start(w) \/ Drain(w) \/ Crash(w) PROVE Alone'
    <2>1. UNCHANGED request
      BY <1>6 DEF Start, Drain, Crash, Take, Push, CommitBatch, Abort, Rollback
    <2>2. Quiet \/ worker[w] # Resting
      BY <1>0, <1>6 DEF Start, MayBegin, Drain, Crash, Take, Taking, Push, CommitBatch, Abort, Rollback
    <2>3. \E t : worker' = [worker EXCEPT ![w] = t]
      <3>1. CASE Start(w)
        BY <3>1, Started
      <3>2. CASE Take(w)
        BY <3>2, Took
      <3>3. CASE Push(w)
        BY <3>3, Ran
      <3>4. CASE CommitBatch(w) \/ Rollback(w)
        BY <3>4 DEF CommitBatch, Rollback
      <3> QED BY <1>6, <3>1, <3>2, <3>3, <3>4 DEF Drain, Abort, Crash
    <2> QED BY <1>2, <2>1, <2>2, <2>3
  <1>7. CASE \/ \E d \in Devices : Terminal(d)
             \/ Retries \/ Elapses \/ UNCHANGED vars
    <2>1. UNCHANGED <<worker, request>>
      BY <1>7 DEF Terminal, MarkSeen, SweepOffline, DeactivateDevice, ReactivateDevice,
           SetDevice, Retries, RetryJob, Elapses, Elapse, vars
    <2> QED BY <1>1, <2>1
  <1> QED BY <1>4, <1>5, <1>6, <1>7 DEF Next, Request

\* No terminal is deactivated, no employee comes back, no fan-out is lost.
Undisturbed == ~Overlap /\ {"deactivate", "rehire", "lose"} \cap May = {}

\* A terminal of the branch shows a photo that is not the one on file.
Stale(d) ==
  /\ employee.active /\ employee.photo # 0 /\ Site[d] = employee.branch
  /\ template[d] \notin {0, employee.photo}

\* A row that its terminal has not been called for with success.
Unserved(j) ==
  /\ jobs[j].status # "SUCCESS"
  /\ \A w \in Workers : \A x \in worker[w].done : x.job = j => x.status # "SUCCESS"

Wanted(d) == \E r \in Requests, a \in Actions : <<d, a>> \in request[r].wants
Queued(d) == \E j \in 1..Len(jobs) : jobs[j].device = d /\ Unserved(j)

\* Between reading the employee and calling the terminal nothing changes what a
\* worker has read.
ReadsNow(t) ==
  t.phase = "push" => /\ t.photo = employee.photo
                      /\ t.reachable => device[jobs[Head(t.rest)].device] # "absent"

CurrentInv ==
  /\ LiveInv /\ Alone
  /\ \A d \in Devices : device[d] # "inactive" /\ (template[d] # 0 => device[d] # "absent")
  /\ \A w \in Workers : ReadsNow(worker[w])
  /\ \A r \in Requests :
       request[r].phase = "commit" => request[r].found = LiveFor(request[r].wants)
  /\ \A d \in Devices : Stale(d) => Wanted(d) \/ Queued(d)

LEMMA CurrentInvInit == Init => CurrentInv
  <1> SUFFICES ASSUME Init PROVE CurrentInv
    OBVIOUS
  <1>1. /\ \A w \in Workers : worker[w] = Resting /\ Resting.phase = "idle"
        /\ \A r \in Requests : request[r] = Served /\ Served.phase = "idle"
        /\ \A d \in Devices : template[d] = 0 /\ device[d] # "inactive"
    BY DEF Init, Resting, Served
  <1> QED BY <1>1, LiveInvInit, AloneInit DEF CurrentInv, ReadsNow, Stale

\* An edit, or a command: what becomes stale by it is wanted by its fan-out.
LEMMA CurrentEdits ==
  ASSUME Undisturbed, CurrentInv, LiveInv', Alone', NEW r \in Requests, Edits(r)
  PROVE  CurrentInv'
  <1>1. UNCHANGED <<jobs, due, worker, template>> /\ Quiet
    BY DEF Edits, CreateEmployee, UpdateEmployee, TerminateEmployee, SaveEmployee,
       CreateDevice, Command, queue, Begin, MayBegin, Undisturbed
  <1>2. \A d \in Devices : device'[d] = device[d] \/ device'[d] = "offline"
    BY DEF Edits, CreateEmployee, UpdateEmployee, TerminateEmployee, SaveEmployee,
       CreateDevice, Command, CurrentInv, LiveInv, TypeInv
  <1>3. PICK by, wants : Begin(r, by, wants)
    BY DEF Edits, CreateEmployee, UpdateEmployee, TerminateEmployee, CreateDevice, Command
  <1>4. /\ Resting.phase = "idle" /\ Served.phase = "idle" /\ Served.wants = {}
        /\ Resting.done = {}
    BY DEF Resting, Served
  <1>5. \A q \in Requests : request'[q].phase # "commit"
    BY <1>1, <1>3, <1>4 DEF Begin, Quiet, CurrentInv, LiveInv, TypeInv, Served
  <1>6. \A w \in Workers : worker'[w].phase # "push"
    BY <1>1, <1>4 DEF Quiet
  <1>7. \A d \in Devices : device'[d] # "inactive" /\ (template'[d] # 0 => device'[d] # "absent")
    BY <1>1, <1>2 DEF CurrentInv
  <1>8. \A d \in Devices : Stale(d) => Queued(d)'
    <2>1. \A d \in Devices : ~Wanted(d)
      BY <1>1, <1>4 DEF Wanted, Quiet
    <2> QED BY <1>1, <2>1 DEF CurrentInv, Queued, Unserved
  <1>9. ASSUME NEW b, NEW ws, Begin(r, b, ws) PROVE request'[r].wants = ws
    BY <1>9 DEF Begin, Served, CurrentInv, LiveInv, TypeInv
  <1>10. ASSUME NEW d \in Devices, Stale(d)', ~Stale(d) PROVE Wanted(d)'
    <2>1. ASSUME NEW b, NEW ws, Begin(r, b, ws), NEW a \in Actions, <<d, a>> \in ws
          PROVE  Wanted(d)'
      BY <1>9, <2>1 DEF Wanted
    <2>2. CASE CreateEmployee(r)
      <3>1. PICK branch \in Branches, p \in 0..1 :
              LET new == [hired |-> TRUE, active |-> TRUE, photo |-> p, branch |-> branch]
              IN  /\ Begin(r, "employee", IF p # 0 THEN At(branch, "ENROLL") ELSE {})
                  /\ employee' = new
        BY <2>2 DEF CreateEmployee, SaveEmployee
      <3>2. p # 0 /\ Site[d] = branch
        BY <1>10, <3>1 DEF Stale
      <3>3. <<d, "ENROLL">> \in At(branch, "ENROLL")
        BY <3>2 DEF At, Targets, Actions
      <3>4. Begin(r, "employee", At(branch, "ENROLL"))
        BY <3>1, <3>2
      <3> QED BY <2>1, <3>3, <3>4 DEF Actions
    <2>3. CASE UpdateEmployee(r)
      <3>1. PICK active \in BOOLEAN, p \in 0..MaxPhoto, branch \in Branches :
              LET new == [employee EXCEPT !.active = active, !.photo = p, !.branch = branch]
              IN  /\ active => employee.active \/ "rehire" \in May
                  /\ Begin(r, "employee", Fanout(employee, new))
                  /\ employee' = new
        BY <2>3 DEF UpdateEmployee, SaveEmployee
      <3> DEFINE new == [employee EXCEPT !.active = active, !.photo = p, !.branch = branch]
      <3>2. employee' = new /\ new.active = active /\ new.photo = p /\ new.branch = branch
        BY <3>1 DEF CurrentInv, LiveInv, TypeInv, Employee
      <3>3. Begin(r, "employee", Fanout(employee, new)) /\ (active => employee.active)
        BY <3>1 DEF Undisturbed
      <3> HIDE DEF new
      <3>4. /\ employee.active /\ new.active /\ new.photo # 0 /\ Site[d] = new.branch
            /\ template[d] \notin {0, new.photo}
        BY <1>1, <1>10, <3>2, <3>3 DEF Stale
      <3>5. CASE employee.branch # new.branch
        <4>1. <<d, "ENROLL">> \in At(new.branch, "ENROLL")
          BY <3>4 DEF At, Targets, Actions
        <4>2. <<d, "ENROLL">> \in Fanout(employee, new)
          BY <3>4, <3>5, <4>1 DEF Fanout
        <4> QED BY <2>1, <3>3, <4>2 DEF Actions
      <3>6. CASE employee.branch = new.branch
        <4>1. employee.photo # new.photo
          BY <1>10, <3>4, <3>6 DEF Stale
        <4>2. <<d, "UPDATE">> \in At(new.branch, "UPDATE")
          BY <3>4 DEF At, Targets, Actions
        <4>3. <<d, "UPDATE">> \in Fanout(employee, new)
          BY <3>4, <3>6, <4>1, <4>2 DEF Fanout
        <4> QED BY <2>1, <3>3, <4>3 DEF Actions
      <3> QED BY <3>5, <3>6
    <2>4. CASE TerminateEmployee(r)
      <3>1. employee' = [employee EXCEPT !.active = FALSE]
        BY <2>4 DEF TerminateEmployee, SaveEmployee
      <3> QED BY <1>10, <3>1 DEF Stale, CurrentInv, LiveInv, TypeInv, Employee
    <2>5. CASE \E e \in Devices : CreateDevice(r, e) \/ \E action \in Actions : Command(r, e, action)
      <3>1. UNCHANGED employee
        BY <2>5 DEF CreateDevice, Command
      <3> QED BY <1>1, <1>10, <3>1 DEF Stale
    <2> QED BY <2>2, <2>3, <2>4, <2>5 DEF Edits
  <1> QED BY <1>5, <1>6, <1>7, <1>8, <1>10 DEF CurrentInv, ReadsNow

\* A stale terminal is registered, so that no fan-out leaves it out.
LEMMA CurrentLookup ==
  ASSUME CurrentInv, LiveInv', Alone', NEW r \in Requests, Lookup(r)
  PROVE  CurrentInv'
  <1> DEFINE wants == {t \in request[r].wants : Eligible(request[r].by, t)}
  <1>1. UNCHANGED <<employee, device, template, jobs, worker>> /\ request[r].phase = "enqueue"
    BY DEF Lookup, queue
  <1>2. /\ request[r] \in Fan /\ \A q \in Requests : q # r => request'[q] = request[q]
        /\ request'[r] = IF wants = {} THEN Served
                         ELSE [request[r] EXCEPT !.phase = "commit", !.wants = wants,
                                                 !.found = LiveFor(wants)]
    BY DEF Lookup, CurrentInv, LiveInv, TypeInv, FanOver
  <1>3. /\ request'[r].wants = wants
        /\ request'[r].phase = "commit" => request'[r].found = LiveFor(wants)
    <2> HIDE DEF wants
    <2> QED BY <1>2 DEF Fan, Served
  <1>4. \A targets : LiveFor(targets)' = LiveFor(targets)
    BY <1>1 DEF LiveFor, Live, Target
  <1>5. \A q \in Requests :
          (request[q].phase = "commit" => request[q].found = LiveFor(request[q].wants))'
    <2> TAKE q \in Requests
    <2> HIDE DEF wants
    <2>1. CASE q = r
      BY <1>3, <1>4, <2>1
    <2>2. CASE q # r
      BY <1>2, <1>4, <2>2 DEF CurrentInv
    <2> QED BY <2>1, <2>2
  <1>6. ASSUME NEW d \in Devices, Stale(d), Wanted(d) PROVE Wanted(d)'
    <2>1. PICK q \in Requests, a \in Actions : <<d, a>> \in request[q].wants
      BY <1>6 DEF Wanted
    <2>2. device[d] \in {"offline", "online"}
      BY <1>6 DEF Stale, CurrentInv, LiveInv, TypeInv
    <2>3. \A b : Eligible(b, <<d, a>>)
      BY <1>6, <2>2 DEF Eligible, Stale
    <2>4. CASE q = r
      BY <1>3, <2>1, <2>3, <2>4 DEF Wanted
    <2>5. CASE q # r
      BY <1>2, <2>1, <2>5 DEF Wanted
    <2> QED BY <2>4, <2>5
  <1>7. \A d \in Devices : Stale(d)' => Wanted(d)' \/ Queued(d)'
    BY <1>1, <1>6 DEF CurrentInv, Stale, Queued, Unserved
  <1> QED BY <1>1, <1>5, <1>7 DEF CurrentInv, ReadsNow

\* The row that was found, or inserted, for a target is still to be served.
LEMMA CurrentEnqueue ==
  ASSUME CurrentInv, LiveInv', Alone', NEW r \in Requests, Enqueue(r)
  PROVE  CurrentInv'
  <1>1. /\ UNCHANGED <<employee, device, template, worker>> /\ request[r].phase = "commit"
        /\ request' = [request EXCEPT ![r] = Served]
    BY DEF Enqueue
  <1>2. /\ Served.phase = "idle" /\ Served.wants = {} /\ request[r] # Served
        /\ Resting.phase = "idle" /\ Resting.done = {}
    BY <1>1 DEF Served, Resting
  <1>3. /\ \A q \in Requests : request'[q] = Served
        /\ \A w \in Workers : worker'[w] = Resting
        /\ \A q \in Requests : q # r => request[q] = Served
    BY <1>1, <1>2 DEF CurrentInv, LiveInv, TypeInv, Alone
  <1>4. request[r].found = LiveFor(request[r].wants)
    BY <1>1 DEF CurrentInv
  <1>5. LiveFor(Missing(r)) = {}
    BY <1>4 DEF LiveFor, Missing
  <1>6. /\ Len(jobs') >= Len(jobs) /\ Len(jobs') \in Nat /\ Len(jobs) \in Nat
        /\ \A j \in 1..Len(jobs) :
             /\ jobs'[j].device = jobs[j].device
             /\ jobs'[j].status = jobs[j].status
        /\ \A j \in Len(jobs) + 1..Len(jobs') : jobs'[j].status = "PENDING"
        /\ \A t \in Missing(r) : \E j \in Len(jobs) + 1..Len(jobs') :
             <<jobs'[j].device, jobs'[j].action>> = t
    <2>1. Len(jobs') \in Nat /\ Len(jobs) \in Nat
      BY DEF LiveInv, TypeInv, CurrentInv
    <2> QED BY <1>5, <2>1, Upserted DEF CurrentInv, LiveInv
  <1>7. \A j : Unserved(j)' <=> jobs'[j].status # "SUCCESS"
    BY <1>2, <1>3 DEF Unserved
  <1>8. ASSUME NEW d \in Devices, Queued(d) PROVE Queued(d)'
    <2>1. PICK j \in 1..Len(jobs) : jobs[j].device = d /\ Unserved(j)
      BY <1>8 DEF Queued
    <2>2. jobs'[j].device = d /\ Unserved(j)' /\ j \in 1..Len(jobs')
      BY <1>6, <1>7, <2>1 DEF Unserved
    <2> QED BY <2>2 DEF Queued
  <1>9. ASSUME NEW d \in Devices, Wanted(d) PROVE Queued(d)'
    <2>1. PICK a \in Actions : <<d, a>> \in request[r].wants
      BY <1>2, <1>3, <1>9 DEF Wanted
    <2>2. CASE <<d, a>> \in Missing(r)
      <3>1. PICK j \in Len(jobs) + 1..Len(jobs') : <<jobs'[j].device, jobs'[j].action>> = <<d, a>>
        BY <1>6, <2>2
      <3>2. j \in 1..Len(jobs') /\ jobs'[j].device = d /\ Unserved(j)'
        BY <1>6, <1>7, <3>1
      <3> QED BY <3>2 DEF Queued
    <2>3. CASE <<d, a>> \notin Missing(r)
      <3>1. PICK j \in request[r].found : Target(j) = <<d, a>>
        BY <2>1, <2>3 DEF Missing
      <3>2. j \in 1..Len(jobs) /\ jobs[j].device = d /\ jobs[j].status # "SUCCESS"
        <4>1. j \in DOMAIN jobs /\ Live(j)
          BY <1>4 DEF LiveFor
        <4>2. DOMAIN jobs = 1..Len(jobs)
          BY DEF CurrentInv, LiveInv, TypeInv
        <4>3. jobs[j].device = d
          BY <3>1 DEF Target
        <4> QED BY <4>1, <4>2, <4>3 DEF Live, Outstanding
      <3>3. j \in 1..Len(jobs') /\ jobs'[j].device = d /\ Unserved(j)'
        BY <1>6, <1>7, <3>2
      <3> QED BY <3>3 DEF Queued
    <2> QED BY <2>2, <2>3
  <1>10. \A d \in Devices : Stale(d)' => Queued(d)'
    BY <1>1, <1>8, <1>9 DEF CurrentInv, Stale
  <1> QED BY <1>1, <1>2, <1>3, <1>10 DEF CurrentInv, ReadsNow

\* A step of a worker that calls no terminal and writes no row.
LEMMA CurrentWorker ==
  ASSUME CurrentInv, LiveInv', Alone', NEW w \in Workers, NEW t, ReadsNow(t),
         t.done \subseteq worker[w].done,
         UNCHANGED <<employee, device, template, jobs, request>>,
         worker' = [worker EXCEPT ![w] = t]
  PROVE  CurrentInv'
  <1>1. \A v \in Workers : worker'[v] = IF v = w THEN t ELSE worker[v]
    BY DEF CurrentInv, LiveInv, TypeInv
  <1>2. \A v \in Workers : ReadsNow(worker[v])'
    BY <1>1 DEF CurrentInv, ReadsNow
  <1>3. \A targets : LiveFor(targets)' = LiveFor(targets)
    BY DEF LiveFor, Live, Target
  <1>4. \A d \in Devices : Queued(d) => Queued(d)'
    BY <1>1 DEF Queued, Unserved
  <1> QED BY <1>2, <1>3, <1>4 DEF CurrentInv, Stale, Wanted

LEMMA CurrentTake ==
  ASSUME CurrentInv, LiveInv', Alone', NEW w \in Workers, Take(w)
  PROVE  CurrentInv'
  <1> DEFINE t == worker'[w]
  <1>1. /\ worker' = [worker EXCEPT ![w] = t] /\ t.photo = employee.photo
        /\ t.rest = worker[w].rest /\ t.done = worker[w].done
    BY Took DEF CurrentInv, LiveInv
  <1>2. t.reachable <=> device[jobs[Head(worker[w].rest)].device] = "online"
    BY DEF Take, CurrentInv, LiveInv, TypeInv, RunOver, Run
  <1> HIDE DEF t
  <1>3. ReadsNow(t)
    BY <1>1, <1>2 DEF ReadsNow
  <1>4. UNCHANGED <<employee, device, template, jobs, request>>
    BY DEF Take, queue
  <1> QED BY <1>1, <1>3, <1>4, CurrentWorker

\* A call that succeeds leaves the photo on file or none; one that does not leaves
\* the row to be served.
LEMMA CurrentPush ==
  ASSUME CurrentInv, LiveInv', Alone', NEW w \in Workers, Push(w)
  PROVE  CurrentInv'
  <1> DEFINE t == worker'[w]
             j == Head(worker[w].rest)
             dev == jobs[j].device
  <1>1. UNCHANGED <<employee, device, jobs, request>> /\ worker[w].phase = "push"
    BY DEF Push, queue
  <1>2. /\ worker' = [worker EXCEPT ![w] = t] /\ t.phase = "take" /\ j \in 1..Len(jobs)
        /\ \E answer \in Answers(dev, Possible(w, j)) :
             /\ template' = [template EXCEPT ![dev] = IF answer.done THEN Pushed(w, j) ELSE @]
             /\ t.done = worker[w].done \cup {[job |-> j, status |->
                       Outcome(answer.ok, worker[w].loaded[j] + 1)]}
    BY Ran DEF CurrentInv, LiveInv
  <1>3. PICK answer \in Answers(dev, Possible(w, j)) :
             /\ template' = [template EXCEPT ![dev] = IF answer.done THEN Pushed(w, j) ELSE @]
             /\ t.done = worker[w].done \cup {[job |-> j, status |->
                       Outcome(answer.ok, worker[w].loaded[j] + 1)]}
    BY <1>2
  <1> DEFINE rec == [job |-> j, status |-> Outcome(answer.ok, worker[w].loaded[j] + 1)]
  <1>4. /\ rec.job = j /\ t.done = worker[w].done \cup {rec}
        /\ ~answer.ok => rec.status # "SUCCESS"
    BY <1>3 DEF Outcome
  <1>5. /\ answer.done \in BOOLEAN /\ answer.ok \in BOOLEAN /\ (answer.ok => answer.done)
        /\ answer.done => Possible(w, j)
    <2> DEFINE yes == [done |-> TRUE, ok |-> TRUE]
               no == [done |-> FALSE, ok |-> FALSE]
    <2>1. answer = no \/ (Possible(w, j) /\ (answer = yes \/ answer \in [done: BOOLEAN, ok: {FALSE}]))
      BY <1>3 DEF Answers
    <2>2. yes.ok /\ yes.done /\ ~no.ok /\ ~no.done
      OBVIOUS
    <2> HIDE DEF yes, no
    <2> QED BY <2>1, <2>2, AnswerKnown, <1>3
  <1>6. Pushed(w, j) \in {0, employee.photo} /\ (Possible(w, j) => device[dev] # "absent")
    BY <1>1 DEF CurrentInv, ReadsNow, Pushed, Possible
  <1>7. jobs[j] \in Job
    BY <1>2 DEF CurrentInv, LiveInv, TypeInv
  <1>8. dev \in Devices
    BY <1>7 DEF Job
  <1>9. \A v \in Workers : worker'[v] = IF v = w THEN t ELSE worker[v]
    BY <1>2 DEF CurrentInv, LiveInv, TypeInv
  <1> HIDE DEF t, j, dev, rec
  <1>10. \A d \in Devices :
           template'[d] = IF d = dev /\ answer.done THEN Pushed(w, j) ELSE template[d]
    BY <1>3, <1>5, <1>8 DEF CurrentInv, LiveInv, TypeInv
  <1>11. \A v \in Workers : ReadsNow(worker[v])'
    <2>1. \A v \in Workers : v # w => worker[v].phase # "push"
      BY <1>1 DEF CurrentInv, Alone, Resting
    <2> QED BY <1>2, <1>9, <2>1 DEF ReadsNow
  <1>12. \A targets : LiveFor(targets)' = LiveFor(targets)
    BY <1>1 DEF LiveFor, Live, Target
  <1>13. \A d \in Devices : template'[d] # 0 => device'[d] # "absent"
    BY <1>1, <1>5, <1>6, <1>10 DEF CurrentInv
  <1>14. ASSUME NEW d \in Devices, Stale(d)' PROVE Wanted(d)' \/ Queued(d)'
    <2>1. ~(d = dev /\ answer.done) /\ Stale(d)
      BY <1>1, <1>6, <1>10, <1>14 DEF Stale
    <2>2. CASE Wanted(d)
      BY <1>1, <2>2 DEF Wanted
    <2>3. CASE Queued(d)
      <3>1. PICK i \in 1..Len(jobs) : jobs[i].device = d /\ Unserved(i)
        BY <2>3 DEF Queued
      <3>2. i = j => ~answer.ok
        BY <1>5, <2>1, <3>1 DEF dev
      <3>3. Unserved(i)'
        BY <1>1, <1>4, <1>9, <3>1, <3>2 DEF Unserved
      <3> QED BY <1>1, <3>1, <3>3 DEF Queued
    <2> QED BY <2>1, <2>2, <2>3 DEF CurrentInv
  <1> QED BY <1>1, <1>11, <1>12, <1>13, <1>14 DEF CurrentInv

LEMMA CurrentCommit ==
  ASSUME CurrentInv, LiveInv', Alone', NEW w \in Workers, CommitBatch(w)
  PROVE  CurrentInv'
  <1>1. /\ UNCHANGED <<employee, device, template, request>>
        /\ worker' = [worker EXCEPT ![w] = Resting] /\ worker[w] # Resting
    BY DEF CommitBatch, Resting
  <1>2. /\ Held(w) = {x.job : x \in worker[w].done} /\ Len(jobs') = Len(jobs)
        /\ \A j \in 1..Len(jobs) :
              /\ jobs'[j].device = jobs[j].device
              /\ j \notin Held(w) => jobs'[j] = jobs[j]
              /\ j \in Held(w) =>
                   \E x \in worker[w].done : x.job = j /\ jobs'[j].status = x.status
    BY Written DEF CurrentInv, LiveInv
  <1>3. /\ \A v \in Workers : worker'[v] = Resting
        /\ \A r \in Requests : request[r] = Served
        /\ Resting.phase = "idle" /\ Resting.done = {} /\ Served.phase = "idle"
    BY <1>1 DEF CurrentInv, Alone, LiveInv, TypeInv, Resting, Served
  <1>4. ASSUME NEW d \in Devices, Queued(d) PROVE Queued(d)'
    <2>1. PICK j \in 1..Len(jobs) : jobs[j].device = d /\ Unserved(j)
      BY <1>4 DEF Queued
    <2>2. jobs'[j].status # "SUCCESS"
      BY <1>2, <2>1 DEF Unserved
    <2>3. Unserved(j)'
      BY <1>3, <2>2 DEF Unserved
    <2> QED BY <1>2, <2>1, <2>3 DEF Queued
  <1> QED BY <1>1, <1>3, <1>4 DEF CurrentInv, ReadsNow, Stale, Wanted

LEMMA CurrentWorkers ==
  ASSUME CurrentInv, LiveInv', Alone', NEW w \in Workers, Start(w) \/ Drain(w) \/ Crash(w)
  PROVE  CurrentInv'
  <1>1. CASE Start(w)
    <2> DEFINE t == worker'[w]
    <2>1. worker' = [worker EXCEPT ![w] = t] /\ t.phase = "take" /\ t.done = {}
      BY <1>1, Started DEF CurrentInv, LiveInv
    <2> HIDE DEF t
    <2>2. UNCHANGED <<employee, device, template, jobs, request>>
      BY <1>1 DEF Start, queue
    <2> QED BY <2>1, <2>2, CurrentWorker DEF ReadsNow
  <1>2. CASE Rollback(w)
    <2>1. UNCHANGED <<employee, device, template, jobs, request>>
          /\ worker' = [worker EXCEPT ![w] = Resting]
      BY <1>2 DEF Rollback, queue
    <2>2. Resting.phase = "idle" /\ Resting.done = {}
      BY DEF Resting
    <2> QED BY <2>1, <2>2, CurrentWorker DEF ReadsNow
  <1> QED BY <1>1, <1>2, CurrentTake, CurrentPush, CurrentCommit DEF Drain, Abort, Crash

LEMMA CurrentInvStep ==
  ASSUME Undisturbed, CurrentInv, [Next]_vars
  PROVE  CurrentInv'
  <1>0. LiveInv' /\ Alone'
    BY LiveInvStep, AloneStep DEF CurrentInv, LiveInv, Undisturbed
  <1>1. ASSUME NEW r \in Requests, Request(r) PROVE CurrentInv'
    <2>1. ~LoseFanout(r)
      BY DEF LoseFanout, Undisturbed
    <2> QED BY <1>0, <1>1, <2>1, CurrentEdits, CurrentLookup, CurrentEnqueue DEF Request
  <1>2. ASSUME NEW w \in Workers, Start(w) \/ Drain(w) \/ Crash(w) PROVE CurrentInv'
    BY <1>0, <1>2, CurrentWorkers
  <1>3. ASSUME NEW e \in Devices, Terminal(e) PROVE CurrentInv'
    <2>1. UNCHANGED <<employee, template, jobs, worker, request>>
      BY <1>3 DEF Terminal, MarkSeen, SweepOffline, DeactivateDevice, ReactivateDevice,
           SetDevice, queue
    <2>2. \A d \in Devices :
            device'[d] # "inactive" /\ (device[d] # "absent" => device'[d] # "absent")
      BY <1>3 DEF Terminal, MarkSeen, SweepOffline, DeactivateDevice, ReactivateDevice,
           SetDevice, Undisturbed, CurrentInv, LiveInv, TypeInv
    <2>3. \A w \in Workers : ReadsNow(worker[w])'
      <3> SUFFICES ASSUME NEW w \in Workers, worker[w].phase = "push", worker[w].reachable
                   PROVE  device'[jobs[Head(worker[w].rest)].device] # "absent"
        BY <2>1 DEF ReadsNow, CurrentInv
      <3>1. jobs[Head(worker[w].rest)] \in Job
        <4>1. RunOver(worker[w], Len(jobs)) /\ worker[w] \in Run /\ Len(jobs) \in Nat
          BY DEF CurrentInv, LiveInv, TypeInv, RunOver
        <4>2. Head(worker[w].rest) \in 1..Len(jobs)
          BY <4>1, BatchRows DEF HeldOf
        <4> QED BY <4>2 DEF CurrentInv, LiveInv, TypeInv
      <3>2. jobs[Head(worker[w].rest)].device \in Devices
        BY <3>1 DEF Job
      <3> QED BY <2>2, <3>2 DEF CurrentInv, ReadsNow
    <2>4. \A targets : LiveFor(targets)' = LiveFor(targets)
      BY <2>1 DEF LiveFor, Live, Target
    <2> QED BY <1>0, <2>1, <2>2, <2>3, <2>4 DEF CurrentInv, Stale, Wanted, Queued, Unserved
  <1>4. ASSUME NEW j \in DOMAIN jobs, RetryJob(j) PROVE CurrentInv'
    <2>1. /\ Len(jobs') = Len(jobs) /\ UNCHANGED <<employee, device, template, worker, request>>
          /\ \A i \in 1..Len(jobs) : i # j => jobs'[i] = jobs[i]
          /\ jobs'[j].status = "PENDING" /\ jobs'[j].device = jobs[j].device
      BY <1>4, Retried DEF CurrentInv, LiveInv, RetryJob
    <2>2. /\ \A w \in Workers : worker[w] = Resting
          /\ \A r \in Requests : request[r] = Served
          /\ Resting.phase = "idle" /\ Resting.done = {} /\ Served.phase = "idle"
      BY <1>4 DEF RetryJob, MayBegin, Quiet, Undisturbed, Resting, Served
    <2>3. \A d \in Devices : Queued(d) => Queued(d)'
      BY <2>1, <2>2 DEF Queued, Unserved
    <2> QED BY <1>0, <2>1, <2>2, <2>3 DEF CurrentInv, ReadsNow, Stale, Wanted
  <1>5. CASE Elapses \/ UNCHANGED vars
    <2>1. UNCHANGED <<employee, device, template, jobs, worker, request>>
      BY <1>5 DEF Elapses, Elapse, vars
    <2>2. \A targets : LiveFor(targets)' = LiveFor(targets)
      BY <2>1 DEF LiveFor, Live, Target
    <2> QED BY <1>0, <2>1, <2>2 DEF CurrentInv, ReadsNow, Stale, Wanted, Queued, Unserved
  <1> QED BY <1>1, <1>2, <1>3, <1>4, <1>5 DEF Next, Retries

\* At rest no terminal of the employee's branch shows an outdated photo, for any
\* terminals, edits, device commands, manual retries, crashes and unreliable
\* terminals, when one batch or one edit runs at a time.  Each hypothesis is needed:
\* TLC finds a terminal with the old photo for a deactivated terminal, an employee
\* who comes back, a lost fan-out and an edit that overlaps with a batch.
THEOREM PhotoStaysCurrent == ASSUME Undisturbed PROVE Spec => []PhotoCurrent
  <1>1. Init => CurrentInv
    BY CurrentInvInit
  <1>2. CurrentInv /\ [Next]_vars => CurrentInv'
    BY CurrentInvStep
  <1>3. CurrentInv => PhotoCurrent
    <2> SUFFICES ASSUME CurrentInv, NEW d \in Devices, AtRest, Stale(d) PROVE FALSE
      BY DEF PhotoCurrent, Stale
    <2>1. ~Wanted(d)
      <3>1. Served.wants = {}
        BY DEF Served
      <3> QED BY <3>1 DEF Wanted, AtRest, Quiet
    <2>2. ~Queued(d)
      BY DEF Queued, Unserved, AtRest, CurrentInv, LiveInv, TypeInv
    <2> QED BY <2>1, <2>2 DEF CurrentInv
  <1> QED BY <1>1, <1>2, <1>3, PTL DEF Spec

(***************************************************************************)
(* No terminal goes back to an older photo.                                *)
(***************************************************************************)

\* One run of process_pending at a time: no manual run meets that of beat.
OneWorker == \A v, w \in Workers : v = w

WorkerFields == {"phase", "rest", "loaded", "done", "photo", "reachable"}
EmployeeFields == {"hired", "active", "photo", "branch"}

\* The photo on file is the newest upload or none, and before the employee
\* exists there is no upload.
NewestOnFile ==
  /\ uploads \in Nat
  /\ employee.photo \in {0, uploads}
  /\ ~employee.hired => uploads = 0

\* A photo that a worker is about to push is at least as new as what any
\* terminal holds.
NotOlder(photo) == photo = 0 \/ \A d \in Devices : template[d] <= photo

\* A worker that is well formed and will not push an older photo.
WorkerOK(t) ==
  /\ DOMAIN t = WorkerFields /\ t = [f \in WorkerFields |-> t[f]]
  /\ t.phase = "push" => t.photo \in 0..uploads /\ NotOlder(t.photo)

PhotoInv ==
  /\ DOMAIN employee = EmployeeFields /\ employee = [f \in EmployeeFields |-> employee[f]]
  /\ NewestOnFile
  /\ template \in [Devices -> Nat]
  /\ \A d \in Devices : template[d] <= uploads
  /\ DOMAIN worker = Workers /\ worker = [w \in Workers |-> worker[w]]
  /\ \A w \in Workers : WorkerOK(worker[w])

LEMMA RestingOK == WorkerOK(Resting)
  BY DEF Resting, WorkerOK, WorkerFields

LEMMA PhotoInvInit == Init => PhotoInv
  <1> SUFFICES ASSUME Init PROVE PhotoInv
    OBVIOUS
  <1>1. DOMAIN employee = EmployeeFields /\ employee = [f \in EmployeeFields |-> employee[f]]
    BY DEF Init, Newcomer, EmployeeFields
  <1>2. NewestOnFile
    BY DEF Init, Newcomer, NewestOnFile
  <1>3. template \in [Devices -> Nat] /\ \A d \in Devices : template[d] <= uploads
    BY DEF Init
  <1>4. DOMAIN worker = Workers /\ worker = [w \in Workers |-> worker[w]]
    BY DEF Init
  <1>5. \A w \in Workers : WorkerOK(worker[w])
    BY RestingOK DEF Init
  <1> QED BY <1>1, <1>2, <1>3, <1>4, <1>5 DEF PhotoInv

\* A step that changes neither the photo on file, nor what a terminal holds, nor
\* a worker.
LEMMA Elsewhere ==
  ASSUME PhotoInv, UNCHANGED <<employee, uploads, template, worker>>
  PROVE  PhotoInv'
  BY DEF PhotoInv, NewestOnFile, WorkerOK, NotOlder

\* An edit of the employee that keeps the photo, clears it or uploads a new one.
LEMMA Saved ==
  ASSUME PhotoInv, NEW new, SaveEmployee(new),
         DOMAIN new = EmployeeFields, new = [f \in EmployeeFields |-> new[f]],
         new.hired, new.photo \in {0, employee.photo, uploads + 1}
  PROVE  PhotoInv'
  <1>1. uploads \in Nat /\ employee.photo \in {0, uploads}
    BY DEF PhotoInv, NewestOnFile
  <1>2. uploads' \in Nat /\ uploads' >= uploads /\ new.photo \in {0, uploads'}
    BY <1>1 DEF SaveEmployee
  <1>3. NewestOnFile'
    BY <1>2 DEF SaveEmployee, NewestOnFile
  <1>4. \A d \in Devices : template'[d] <= uploads'
    BY <1>1, <1>2 DEF SaveEmployee, PhotoInv
  <1>5. \A w \in Workers : WorkerOK(worker[w])'
    BY <1>1, <1>2 DEF SaveEmployee, PhotoInv, WorkerOK, NotOlder
  <1> QED BY <1>3, <1>4, <1>5 DEF SaveEmployee, PhotoInv

\* A step of one worker that calls no terminal.
LEMMA Advanced ==
  ASSUME PhotoInv, NEW w \in Workers, NEW t, WorkerOK(t),
         worker' = [worker EXCEPT ![w] = t],
         UNCHANGED <<employee, uploads, template>>
  PROVE  PhotoInv'
  <1>1. \A v \in Workers : WorkerOK(worker'[v])
    BY DEF PhotoInv
  <1>2. \A v \in Workers : WorkerOK(worker[v])'
    BY <1>1 DEF WorkerOK, NotOlder
  <1> QED BY <1>2 DEF PhotoInv, NewestOnFile

LEMMA EditsKeep ==
  ASSUME PhotoInv, NEW r \in Requests, Edits(r)
  PROVE  PhotoInv'
  <1>1. CASE CreateEmployee(r)
    <2>1. PICK branch \in Branches, p \in 0..1 :
            /\ ~employee.hired
            /\ SaveEmployee([hired |-> TRUE, active |-> TRUE, photo |-> p, branch |-> branch])
      BY <1>1 DEF CreateEmployee
    <2>2. uploads = 0
      BY <2>1 DEF PhotoInv, NewestOnFile
    <2> QED BY <2>1, <2>2, Saved DEF EmployeeFields
  <1>2. CASE UpdateEmployee(r)
    <2>1. PICK active \in BOOLEAN, p \in 0..MaxPhoto, branch \in Branches :
            /\ employee.hired /\ Photo(p)
            /\ SaveEmployee([employee EXCEPT !.active = active, !.photo = p, !.branch = branch])
      BY <1>2 DEF UpdateEmployee
    <2> DEFINE new == [employee EXCEPT !.active = active, !.photo = p, !.branch = branch]
    <2>2. DOMAIN new = EmployeeFields /\ new = [f \in EmployeeFields |-> new[f]]
      BY DEF PhotoInv
    <2>3. new.hired /\ new.photo = p
      BY <2>1 DEF PhotoInv, EmployeeFields
    <2>4. p \in {0, employee.photo, uploads + 1}
      BY <2>1 DEF Photo
    <2>5. SaveEmployee(new)
      BY <2>1
    <2> HIDE DEF new
    <2> QED BY <2>2, <2>3, <2>4, <2>5, Saved
  <1>3. CASE TerminateEmployee(r)
    <2> DEFINE new == [employee EXCEPT !.active = FALSE]
    <2>1. DOMAIN new = EmployeeFields /\ new = [f \in EmployeeFields |-> new[f]]
      BY DEF PhotoInv
    <2>2. new.hired /\ new.photo = employee.photo
      BY <1>3 DEF TerminateEmployee, PhotoInv, EmployeeFields
    <2>3. SaveEmployee(new)
      BY <1>3 DEF TerminateEmployee
    <2> HIDE DEF new
    <2> QED BY <2>1, <2>2, <2>3, Saved
  <1>4. CASE \E d \in Devices : CreateDevice(r, d) \/ \E action \in Actions : Command(r, d, action)
    <2>1. UNCHANGED <<employee, uploads, template, worker>>
      BY <1>4 DEF CreateDevice, Command
    <2> QED BY <2>1, Elsewhere
  <1> QED BY <1>1, <1>2, <1>3, <1>4 DEF Edits

\* A worker that reads the photo on file pushes nothing older.
LEMMA TakeKeeps ==
  ASSUME PhotoInv, NEW w \in Workers, Take(w)
  PROVE  PhotoInv'
  <1> DEFINE t == worker'[w]
  <1>1. worker' = [worker EXCEPT ![w] = t]
    BY DEF Take, PhotoInv
  <1>2. WorkerOK(worker[w])
    BY DEF PhotoInv
  <1>3. DOMAIN t = WorkerFields /\ t = [f \in WorkerFields |-> t[f]]
    BY <1>2 DEF Take, PhotoInv, WorkerOK
  <1>4. t.photo = employee.photo
    BY <1>2 DEF Take, PhotoInv, WorkerOK, WorkerFields
  <1>5. employee.photo \in 0..uploads /\ NotOlder(employee.photo)
    BY DEF PhotoInv, NewestOnFile, NotOlder
  <1>6. WorkerOK(t)
    BY <1>3, <1>4, <1>5 DEF WorkerOK
  <1>7. UNCHANGED <<employee, uploads, template>>
    BY DEF Take
  <1> HIDE DEF t
  <1> QED BY <1>1, <1>6, <1>7, Advanced

\* What a call leaves on the terminals: nothing changes, except that one may hold
\* no photo or the one that the worker read.
LEMMA Called ==
  ASSUME PhotoInv, NEW w \in Workers, Push(w)
  PROVE  \A d \in Devices : \/ template'[d] = template[d]
                            \/ template'[d] = 0
                            \/ template'[d] = worker[w].photo /\ worker[w].photo # 0
  <1> DEFINE j == Head(worker[w].rest)
             dev == jobs[j].device
  <1>1. PICK answer \in Answers(dev, Possible(w, j)) :
          template' = [template EXCEPT ![dev] = IF answer.done THEN Pushed(w, j) ELSE @]
    BY DEF Push
  <1>2. ~Possible(w, j) => ~answer.done
    BY DEF Answers
  <1>3. answer.done => Pushed(w, j) = 0 \/ (Pushed(w, j) = worker[w].photo /\ worker[w].photo # 0)
    BY <1>2 DEF Possible, Pushed
  <1> HIDE DEF j, dev
  <1> QED BY <1>1, <1>3 DEF PhotoInv

\* With one worker, the photo that it read is not older than any terminal's.
LEMMA PushNotOlder ==
  ASSUME PhotoInv, NEW w \in Workers, Push(w)
  PROVE  \A d \in Devices : template'[d] # 0 => template'[d] >= template[d]
  <1>1. worker[w].photo \in Nat /\ NotOlder(worker[w].photo)
    BY DEF Push, PhotoInv, NewestOnFile, WorkerOK
  <1>2. \A d \in Devices : template[d] \in Nat
    BY DEF PhotoInv
  <1> QED BY <1>1, <1>2, Called DEF NotOlder

LEMMA PushKeeps ==
  ASSUME PhotoInv, OneWorker, NEW w \in Workers, Push(w)
  PROVE  PhotoInv'
  <1> DEFINE t == worker'[w]
  <1>1. UNCHANGED <<employee, uploads>>
    BY DEF Push
  <1>2. worker[w].photo \in 0..uploads /\ uploads \in Nat
    BY DEF Push, PhotoInv, NewestOnFile, WorkerOK
  <1>3. DOMAIN template' = Devices /\ template' = [d \in Devices |-> template'[d]]
    BY DEF Push, PhotoInv
  <1>4. \A d \in Devices : template'[d] \in Nat /\ template'[d] <= uploads
    BY <1>2, Called DEF PhotoInv
  <1>5. template' \in [Devices -> Nat]
    BY <1>3, <1>4
  <1> DEFINE j == Head(worker[w].rest)
  <1>6. PICK answer \in Answers(jobs[j].device, Possible(w, j)) :
          worker' = [worker EXCEPT ![w].phase = "take",
                       ![w].rest = Tail(@), ![w].photo = 0, ![w].reachable = FALSE,
                       ![w].done = @ \cup {[job |-> j, status |->
                         Outcome(answer.ok, worker[w].loaded[j] + 1)]}]
    BY Zenon DEF Push
  <1> DEFINE rest == Tail(worker[w].rest)
             done == worker[w].done \cup {[job |-> j, status |->
                       Outcome(answer.ok, worker[w].loaded[j] + 1)]}
  <1>7. worker' = [worker EXCEPT ![w].phase = "take", ![w].rest = rest, ![w].photo = 0,
                      ![w].reachable = FALSE, ![w].done = done]
    BY <1>6
  <1> HIDE DEF rest, done
  <1>8. DOMAIN worker' = Workers /\ worker' = [v \in Workers |-> worker'[v]]
    BY <1>7 DEF PhotoInv
  <1>9. WorkerOK(worker[w])
    BY DEF PhotoInv
  <1>10. t = [worker[w] EXCEPT !.phase = "take", !.rest = rest, !.photo = 0,
                              !.reachable = FALSE, !.done = done]
    BY <1>7 DEF PhotoInv
  <1>11. DOMAIN t = WorkerFields /\ t = [f \in WorkerFields |-> t[f]]
    BY <1>9, <1>10 DEF WorkerOK
  <1>12. t.phase = "take"
    BY <1>9, <1>10 DEF WorkerOK, WorkerFields
  <1>13. \A v \in Workers : WorkerOK(worker[v])'
    BY <1>11, <1>12 DEF OneWorker, WorkerOK
  <1> HIDE DEF t, j
  <1> QED BY <1>1, <1>4, <1>5, <1>8, <1>13 DEF PhotoInv, NewestOnFile

LEMMA WorkersKeep ==
  ASSUME PhotoInv, OneWorker, NEW w \in Workers, Start(w) \/ Drain(w) \/ Crash(w)
  PROVE  PhotoInv'
  <1>1. CASE Start(w)
    <2> DEFINE t == worker'[w]
    <2>1. worker' = [worker EXCEPT ![w] = t]
      BY <1>1 DEF Start, PhotoInv
    <2>2. WorkerOK(t)
      BY <1>1 DEF Start, PhotoInv, WorkerOK, WorkerFields, Resting
    <2>3. UNCHANGED <<employee, uploads, template>>
      BY <1>1 DEF Start
    <2> HIDE DEF t
    <2> QED BY <2>1, <2>2, <2>3, Advanced
  <1>2. CASE Take(w)
    BY <1>2, TakeKeeps
  <1>3. CASE Push(w)
    BY <1>3, PushKeeps
  <1>4. CASE CommitBatch(w) \/ Rollback(w)
    <2>1. worker' = [worker EXCEPT ![w] = Resting] /\ UNCHANGED <<employee, uploads, template>>
      BY <1>4 DEF CommitBatch, Rollback
    <2> QED BY <2>1, RestingOK, Advanced
  <1> QED BY <1>1, <1>2, <1>3, <1>4 DEF Drain, Abort, Crash

LEMMA PhotoInvStep ==
  ASSUME PhotoInv, OneWorker, [Next]_vars
  PROVE  PhotoInv'
  <1>1. CASE \E r \in Requests : Edits(r)
    BY <1>1, EditsKeep
  <1>2. CASE \E r \in Requests : Lookup(r) \/ Enqueue(r) \/ LoseFanout(r)
    <2>1. UNCHANGED <<employee, uploads, template, worker>>
      BY <1>2 DEF Lookup, Enqueue, LoseFanout
    <2> QED BY <2>1, Elsewhere
  <1>3. CASE \E w \in Workers : Start(w) \/ Drain(w) \/ Crash(w)
    BY <1>3, WorkersKeep
  <1>4. CASE \E d \in Devices : Terminal(d)
    <2>1. UNCHANGED <<employee, uploads, template, worker>>
      BY <1>4 DEF Terminal, MarkSeen, SweepOffline, DeactivateDevice, ReactivateDevice, SetDevice
    <2> QED BY <2>1, Elsewhere
  <1>5. CASE Retries \/ Elapses
    <2>1. UNCHANGED <<employee, uploads, template, worker>>
      BY <1>5 DEF Retries, Elapses, RetryJob, Elapse
    <2> QED BY <2>1, Elsewhere
  <1>6. CASE UNCHANGED vars
    BY <1>6, Elsewhere DEF vars
  <1> QED BY <1>1, <1>2, <1>3, <1>4, <1>5, <1>6 DEF Next, Request

LEMMA OlderStep ==
  ASSUME PhotoInv, [Next]_vars
  PROVE  \A d \in Devices : template'[d] # 0 => template'[d] >= template[d]
  <1>1. CASE UNCHANGED template
    BY <1>1 DEF PhotoInv
  <1>2. CASE \E w \in Workers : Push(w)
    BY <1>2, PushNotOlder
  <1> QED BY <1>1, <1>2
    DEF Next, vars, Request, Edits, CreateEmployee, UpdateEmployee, TerminateEmployee,
        SaveEmployee, CreateDevice, Command, Lookup, Enqueue, LoseFanout, Start, Drain,
        Take, CommitBatch, Abort, Rollback, Crash, Terminal, MarkSeen, SweepOffline,
        DeactivateDevice, ReactivateDevice, SetDevice, Retries, RetryJob, Elapses, Elapse

\* With one worker a terminal never goes back to an older photo, however many
\* terminals, rows, uploads and retries there are and whatever overlaps with
\* the worker: process_pending reads Employee.photo_url after it has taken the
\* row.
THEOREM PhotosMoveForward == ASSUME OneWorker PROVE Spec => NeverOlder
  <1>1. Init => PhotoInv
    BY PhotoInvInit
  <1>2. PhotoInv /\ [Next]_vars => PhotoInv'
    BY PhotoInvStep
  <1>3. PhotoInv /\ [Next]_vars
          => [\A d \in Devices : template'[d] # 0 => template'[d] >= template[d]]_vars
    BY OlderStep
  <1> QED BY <1>1, <1>2, <1>3, PTL DEF Spec, NeverOlder
=============================================================================
