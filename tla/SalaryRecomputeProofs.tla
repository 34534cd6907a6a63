----------------------- MODULE SalaryRecomputeProofs -----------------------
(***************************************************************************)
(* Theorems about SalaryRecompute, for any facts, rates, kinds of          *)
(* recompute and number of sessions.                                       *)
(***************************************************************************)
EXTENDS SalaryRecompute, Induction

\* When the period's total can be trusted: a month of one day, on whose accrual
\* the sessions wait for one another, or one session at a time.
OneAtATime == LastDay = 1 \/ \A s, r \in Sessions : s = r

Fields == {"kind", "phase", "day", "last", "seen", "doomed", "gone", "made",
           "priced", "ups", "old", "new", "created", "locked", "owes"}

\* The transaction has written the day's accrual and has not committed it.
Writing(t) == t.phase \in {"create", "flush"}

\* What a transaction has in flight: once it has taken the sum, the sum is the
\* one that its COMMIT makes true, and a period it will not write is right.
Sound(t) ==
  /\ DOMAIN t = Fields /\ t = [f \in Fields |-> t[f]]
  /\ t.day \in Days /\ t.last \in Days
  /\ t.created \in BOOLEAN /\ t.locked \in BOOLEAN
  /\ DOMAIN t.ups = Days
  /\ t.phase = "upsert" => t.priced.exists = TRUE
  /\ Writing(t) => t.ups[t.day].exists = TRUE
  /\ t.phase = "flush" => t.new = Total(Written(t))
  /\ t.phase = "flush" /\ ~t.created /\ ~t.locked =>
       period.exists = TRUE /\ t.old = period.total

\* At most one session writes, so nothing changes under its sum.
SumInv ==
  /\ sess = [s \in Sessions |-> sess[s]]
  /\ \A s \in Sessions : Sound(sess[s])
  /\ \A s, r \in Sessions : Writing(sess[s]) /\ Writing(sess[r]) => s = r
  /\ PeriodIsSum

LEMMA IdleSound == Sound(Idle) /\ ~Writing(Idle)
  <1>1. 1 \in Days
    BY DaysAssumption DEF Days
  <1> QED BY <1>1 DEF Idle, Sound, Fields, Writing

LEMMA SumInvInit == Init => SumInv
  <1> SUFFICES ASSUME Init PROVE SumInv
    OBVIOUS
  <1>1. \A s \in Sessions : sess[s] = Idle
    BY DEF Init
  <1>2. sess = [s \in Sessions |-> sess[s]]
    BY DEF Init
  <1>3. PeriodIsSum
    BY DEF Init, NoPeriod, PeriodIsSum
  <1> QED BY <1>1, <1>2, <1>3, IdleSound DEF SumInv

\* A step that puts t in flight in session s and commits nothing.
LEMMA Advance ==
  ASSUME SumInv, NEW s \in Sessions, NEW t, Sound(t),
         Writing(t) => \A r \in Sessions \ {s} : ~Writing(sess[r]),
         sess' = [sess EXCEPT ![s] = t],
         UNCHANGED <<accrual, period>>
  PROVE  SumInv'
  <1>1. \A r \in Sessions : sess'[r] = IF r = s THEN t ELSE sess[r]
    BY DEF SumInv
  <1>2. sess' = [r \in Sessions |-> sess'[r]]
    BY DEF SumInv
  <1>3. \A u : Sound(u) => Sound(u)'
    BY DEF Sound, Written
  <1>4. \A u : Writing(u)' <=> Writing(u)
    BY DEF Writing
  <1>5. (\A r \in Sessions : Sound(sess[r]))'
    <2> SUFFICES ASSUME NEW r \in Sessions PROVE Sound(sess[r])'
      OBVIOUS
    <2>1. CASE r = s
      BY <2>1, <1>1, <1>3 DEF Sound, Written
    <2>2. CASE r # s
      BY <2>2, <1>1, <1>3 DEF Sound, Written, SumInv
    <2> QED BY <2>1, <2>2
  <1>6. (\A q, r \in Sessions : Writing(sess[q]) /\ Writing(sess[r]) => q = r)'
    BY <1>1 DEF Writing, SumInv
  <1>7. PeriodIsSum'
    BY DEF PeriodIsSum, SumInv
  <1> QED BY <1>2, <1>5, <1>6, <1>7 DEF SumInv

\* A transaction that begins is idle but for its kind, its days and its phase.
LEMMA BeginSound ==
  ASSUME NEW kind, NEW first \in Days, NEW last \in Days
  PROVE  Sound(Begun(kind, first, last)) /\ ~Writing(Begun(kind, first, last))
  BY IdleSound DEF Sound, Writing, Idle, Fields, Begun

LEMMA BeginStep ==
  ASSUME SumInv, NEW s \in Sessions, NEW kind, NEW first \in Days, NEW last \in Days,
         Begin(s, kind, first, last)
  PROVE  SumInv'
  BY BeginSound, Advance DEF Begin

\* The steps before the upsert write no accrual and no period.
LEMMA SweepSteps ==
  ASSUME SumInv, NEW s \in Sessions,
         Excuse(s) \/ Sweep(s) \/ Delete(s) \/ Price(s)
  PROVE  SumInv'
  <1>0. Sound(sess[s])
    BY DEF SumInv
  <1>1. ASSUME NEW doomed, sess[s].phase \in Types
        PROVE  Sound(Swept(s, doomed)) /\ ~Writing(Swept(s, doomed))
    BY <1>0, <1>1 DEF Sound, Writing, Fields, Swept, Types
  <1>2. CASE Excuse(s)
    <2>1. Sound(sess[s]) /\ sess[s].phase = "LATE"
      BY <1>0, <1>2 DEF Excuse, Ready
    <2> DEFINE t == [sess[s] EXCEPT !.seen = facts[sess[s].day], !.phase = "price"]
    <2>2. Sound(t) /\ ~Writing(t)
      BY <2>1 DEF Sound, Writing, Fields
    <2>3. sess' = [sess EXCEPT ![s] = t] /\ UNCHANGED <<accrual, period>>
      BY <1>2 DEF Excuse, Step
    <2> HIDE DEF t
    <2> QED BY <2>2, <2>3, Advance
  <1>3. CASE Sweep(s)
    <2>1. PICK doomed :
            /\ sess[s].phase \in Types
            /\ UNCHANGED <<accrual, period>>
            /\ \/ sess' = [sess EXCEPT ![s] = [sess[s] EXCEPT !.doomed = doomed]]
               \/ sess' = [sess EXCEPT ![s] = Swept(s, doomed)]
      BY <1>3 DEF Sweep, Step
    <2> DEFINE t == [sess[s] EXCEPT !.doomed = doomed]
    <2>2. Sound(t) /\ ~Writing(t)
      BY <1>0, <2>1 DEF Sound, Writing, Fields, Types, Written
    <2>3. Sound(Swept(s, doomed)) /\ ~Writing(Swept(s, doomed))
      BY <1>1, <2>1
    <2> HIDE DEF t
    <2>4. CASE sess' = [sess EXCEPT ![s] = t]
      BY <2>1, <2>2, <2>4, Advance
    <2>5. CASE sess' = [sess EXCEPT ![s] = Swept(s, doomed)]
      BY <2>1, <2>3, <2>5, Advance
    <2> QED BY <2>1, <2>4, <2>5 DEF t
  <1>4. CASE Delete(s)
    <2>1. sess[s].phase \in Types
      BY <1>4 DEF Delete
    <2> QED BY <1>1, <1>4, <2>1, Advance DEF Delete, Step
  <1>5. CASE Price(s)
    <2>1. PICK earned, deductions :
            /\ sess' = [sess EXCEPT ![s] =
                 [sess[s] EXCEPT
                    !.priced = [exists |-> TRUE, earned |-> earned, deductions |-> deductions],
                    !.seen = Blank, !.phase = "upsert"]]
            /\ UNCHANGED <<accrual, period>>
      BY <1>5 DEF Price, Step
    <2> DEFINE t == [sess[s] EXCEPT
                    !.priced = [exists |-> TRUE, earned |-> earned, deductions |-> deductions],
                    !.seen = Blank, !.phase = "upsert"]
    <2>2. Sound(t) /\ ~Writing(t)
      BY <1>0 DEF Sound, Writing, Fields
    <2> HIDE DEF t
    <2> QED BY <2>1, <2>2, Advance DEF t
  <1> QED BY <1>2, <1>3, <1>4, <1>5

\* A session that writes keeps the others from writing: it is alone, or they
\* wait for the row of the only day.
LEMMA Alone ==
  ASSUME OneAtATime, SumInv, NEW s \in Sessions, sess[s].phase = "upsert", Waits(s) = {}
  PROVE  \A r \in Sessions \ {s} : ~Writing(sess[r])
  <1> SUFFICES ASSUME NEW r \in Sessions \ {s}, Writing(sess[r])
               PROVE  FALSE
    OBVIOUS
  <1>1. LastDay = 1
    BY DEF OneAtATime
  <1>2. sess[s].day = 1 /\ sess[r].day = 1
    BY <1>1 DEF SumInv, Sound, Days
  <1>3. sess[r].ups[1].exists
    BY <1>2 DEF SumInv, Sound
  <1> QED BY <1>2, <1>3 DEF Waits

\* What the session has in flight once it has taken the sum.
LEMMA RefreshedSound ==
  ASSUME NEW s \in Sessions, NEW t,
         DOMAIN t = Fields, t = [f \in Fields |-> t[f]],
         t.day \in Days, t.last \in Days, t.created \in BOOLEAN, t.locked \in BOOLEAN,
         DOMAIN t.ups = Days, t.ups[t.day].exists = TRUE,
         ~t.created => period.exists = TRUE
  PROVE  Sound(Refreshed(s, t))
  BY DEF Refreshed, Sound, Fields, Written

LEMMA UpsertStep ==
  ASSUME OneAtATime, SumInv, NEW s \in Sessions, Upsert(s)
  PROVE  SumInv'
  <1> DEFINE u == Upserted(s)
             c == [u EXCEPT !.phase = "create"]
  <1>1. Sound(sess[s]) /\ sess[s].phase = "upsert" /\ Waits(s) = {}
    BY DEF SumInv, Upsert, Ready
  <1>2. /\ DOMAIN u = Fields /\ u = [f \in Fields |-> u[f]]
        /\ u.day \in Days /\ u.last \in Days
        /\ u.created = sess[s].created /\ u.created \in BOOLEAN /\ u.locked \in BOOLEAN
        /\ DOMAIN u.ups = Days /\ u.ups[u.day].exists = TRUE
    BY <1>1 DEF Sound, Fields, Upserted
  <1>3. \A r \in Sessions \ {s} : ~Writing(sess[r])
    BY <1>1, Alone
  <1>4. UNCHANGED <<accrual, period>>
    BY DEF Upsert, Step
  <1>5. CASE sess[s].created \/ period.exists
    <2>1. Sound(Refreshed(s, u))
      <3>1. ~u.created => period.exists = TRUE
        BY <1>2, <1>5
      <3> HIDE DEF u
      <3> QED BY <1>2, <3>1, RefreshedSound
    <2>2. sess' = [sess EXCEPT ![s] = Refreshed(s, u)]
      BY <1>5 DEF Upsert, Step
    <2> QED BY <1>3, <1>4, <2>1, <2>2, Advance
  <1>6. CASE ~(sess[s].created \/ period.exists)
    <2>1. Sound(c)
      <3> HIDE DEF u
      <3> QED BY <1>2 DEF Sound, Fields
    <2>2. sess' = [sess EXCEPT ![s] = c]
      BY <1>6 DEF Upsert, Step
    <2> QED BY <1>3, <1>4, <2>1, <2>2, Advance
  <1> QED BY <1>5, <1>6

LEMMA CreateStep ==
  ASSUME SumInv, NEW s \in Sessions, Create(s)
  PROVE  SumInv'
  <1> DEFINE u == sess[s]
             c == [Refreshed(s, u) EXCEPT !.created = TRUE]
  <1>1. Sound(u) /\ u.phase = "create" /\ Writing(u)
    BY DEF SumInv, Create, Ready, Writing
  <1>2. Sound(c)
    BY <1>1 DEF Sound, Fields, Refreshed, Written, Writing
  <1>3. \A r \in Sessions \ {s} : ~Writing(sess[r])
    BY <1>1 DEF SumInv
  <1>4. sess' = [sess EXCEPT ![s] = c] /\ UNCHANGED <<accrual, period>>
    BY DEF Create, Step
  <1> HIDE DEF c, u
  <1> QED BY <1>2, <1>3, <1>4, Advance

LEMMA NextDayStep ==
  ASSUME SumInv, NEW s \in Sessions, NextDay(s)
  PROVE  SumInv'
  <1> DEFINE u == sess[s]
             t == [u EXCEPT !.locked = @ \/ u.new # u.old, !.day = @ + 1,
                            !.phase = "LATE"]
  <1>1. Sound(u) /\ u.day < u.last
    BY DEF SumInv, NextDay
  <1>2. u.day + 1 \in Days
    BY <1>1, DaysAssumption DEF Sound, Days
  <1>3. Sound(t) /\ ~Writing(t)
    BY <1>1, <1>2 DEF Sound, Fields, Writing
  <1>4. sess' = [sess EXCEPT ![s] = t] /\ UNCHANGED <<accrual, period>>
    BY DEF NextDay, Step
  <1> HIDE DEF t, u
  <1> QED BY <1>3, <1>4, Advance

\* The COMMIT of the only session that writes makes its sum true.
LEMMA CommitStep ==
  ASSUME SumInv, NEW s \in Sessions, Commit(s)
  PROVE  SumInv'
  <1> DEFINE u == sess[s]
  <1>1. Sound(u) /\ u.phase = "flush" /\ Writing(u)
    BY DEF SumInv, Commit, Ready, Writing
  <1>2. sess' = [sess EXCEPT ![s] = Idle] /\ accrual' = Written(u)
    BY DEF Commit
  <1>3. period' = IF u.locked \/ u.created \/ u.new # u.old
                    THEN [exists |-> TRUE, total |-> u.new] ELSE period
    BY DEF Commit
  <1>4. PeriodIsSum'
    <2>1. u.new = Total(accrual')
      BY <1>1, <1>2 DEF Sound
    <2>2. period'.total = u.new
      BY <1>1, <1>3 DEF Sound
    <2>3. Total(accrual)' = Total(accrual')
      OBVIOUS
    <2> QED BY <2>1, <2>2, <2>3 DEF PeriodIsSum
  <1>5. \A r \in Sessions : sess'[r] = IF r = s THEN Idle ELSE sess[r]
    BY <1>2 DEF SumInv
  <1>6. sess' = [r \in Sessions |-> sess'[r]]
    BY <1>2 DEF SumInv
  <1>7. \A r \in Sessions : ~Writing(sess'[r])
    BY <1>1, <1>5, IdleSound DEF SumInv
  <1>8. ASSUME NEW r \in Sessions
        PROVE  Sound(sess[r])'
    <2>1. Sound(sess'[r]) /\ ~Writing(sess'[r])
      BY <1>5, <1>7, IdleSound DEF SumInv
    <2> QED BY <2>1 DEF Sound, Writing
  <1>9. (\A q, r \in Sessions : Writing(sess[q]) /\ Writing(sess[r]) => q = r)'
    BY <1>7 DEF Writing
  <1> QED BY <1>4, <1>6, <1>8, <1>9 DEF SumInv

LEMMA SumInvStep ==
  ASSUME OneAtATime, SumInv, [Next]_vars
  PROVE  SumInv'
  <1>1. 1 \in Days /\ LastDay \in Days
    BY DaysAssumption DEF Days
  <1>2. ASSUME NEW s \in Sessions, NEW d \in Days, StartTask(s, d) \/ StartRequest(s, d)
        PROVE  SumInv'
    BY <1>2, BeginStep DEF StartTask, StartRequest
  <1>3. ASSUME NEW s \in Sessions, StartSummary(s) \/ StartClose(s)
        PROVE  SumInv'
    BY <1>1, <1>3, BeginStep DEF StartSummary, StartClose
  <1>4. ASSUME NEW s \in Sessions, Excuse(s) \/ Sweep(s) \/ Delete(s) \/ Price(s)
        PROVE  SumInv'
    BY <1>4, SweepSteps
  <1>5. ASSUME NEW s \in Sessions, Upsert(s) \/ Create(s) \/ NextDay(s) \/ Commit(s)
        PROVE  SumInv'
    BY <1>5, UpsertStep, CreateStep, NextDayStep, CommitStep
  <1>6. ASSUME NEW s \in Sessions, Abort(s)
        PROVE  SumInv'
    BY <1>6, IdleSound, Advance DEF Abort
  <1>7. CASE UNCHANGED <<sess, accrual, period>>
    BY <1>7 DEF SumInv, Sound, Writing, Written, PeriodIsSum
  <1>8. ASSUME NEW d \in Days, NEW f \in Facts, Edit(d, f) \/ EditSilently(d, f)
        PROVE  UNCHANGED <<sess, accrual, period>>
    BY <1>8 DEF Edit, EditSilently, Change
  <1>9. Tick \/ Midnight \/ UNCHANGED vars => UNCHANGED <<sess, accrual, period>>
    BY DEF Tick, Midnight, Pass, vars
  <1> QED BY <1>2, <1>3, <1>4, <1>5, <1>6, <1>7, <1>8, <1>9 DEF Next

\* With one session, or in a month of one day, whatever the number of tasks,
\* requests and closes that overlap, the period's total is the sum of its
\* accruals: _refresh_period_totals sums under the row lock of the upsert.
THEOREM PeriodSum ==
  ASSUME OneAtATime
  PROVE  Spec => []PeriodIsSum
  <1>1. SumInv => PeriodIsSum
    BY DEF SumInv
  <1>2. SumInv /\ [Next]_vars => SumInv'
    BY SumInvStep
  <1> QED BY <1>1, <1>2, SumInvInit, PTL DEF Spec

(***************************************************************************)
(* One session at a time.                                                  *)
(***************************************************************************)

OneSession == \A s, r \in Sessions : s = r

SameKind(x, y) == x.day = y.day /\ x.type = y.type

\* What a transaction adds replaces what it has deleted: of a day and a type it
\* adds one penalty, when it sweeps them, and has deleted all there were.
Replaces(t) ==
  /\ t.doomed = {}
  /\ \A x \in t.made : x.day \in Days /\ x.day <= t.day
  /\ \A x \in t.made : x.day = t.day =>
       t.phase # "LATE" /\ (t.phase = "ABSENCE" => x.type = "LATE")
  /\ \A x, y \in t.made : SameKind(x, y) => x = y
  /\ \A x \in t.made, y \in autos : SameKind(x, y) => y \in t.gone

PenaltyInv ==
  /\ SumInv
  /\ \A s \in Sessions : Replaces(sess[s])
  /\ OnePenaltyPerDay

LEMMA IdleReplaces == Replaces(Idle)
  BY DEF Idle, Replaces

LEMMA PenaltyInit == Init => PenaltyInv
  BY SumInvInit, IdleReplaces DEF Init, PenaltyInv, OnePenaltyPerDay

\* A step of the only session that commits nothing.
LEMMA PenaltyAdvance ==
  ASSUME OneSession, PenaltyInv, SumInv', NEW s \in Sessions, NEW t, Replaces(t),
         sess' = [sess EXCEPT ![s] = t], autos' = autos
  PROVE  PenaltyInv'
  <1>1. ASSUME NEW r \in Sessions PROVE Replaces(sess[r])'
    <2>1. sess'[r] = t
      BY DEF OneSession, PenaltyInv, SumInv
    <2> QED BY <2>1 DEF Replaces
  <1>2. OnePenaltyPerDay'
    BY DEF PenaltyInv, OnePenaltyPerDay
  <1> QED BY <1>1, <1>2 DEF PenaltyInv

\* Past the sweeps of its day a transaction adds nothing until the next day.
LEMMA ReplacesOn ==
  ASSUME NEW t, Replaces(t), NEW u, u.doomed = t.doomed, u.made = t.made, u.gone = t.gone,
         u.day = t.day, u.phase \notin {"LATE", "ABSENCE"}
  PROVE  Replaces(u)
  BY DEF Replaces

\* The penalties of the type that a sweep finds.
LEMMA SweptReplaces ==
  ASSUME NEW s \in Sessions, Sound(sess[s]), Replaces(sess[s]), sess[s].phase \in Types,
         NEW doomed, doomed = {x \in Visible(s, sess[s].day) : x.type = sess[s].phase}
  PROVE  Replaces(Swept(s, doomed))
  <1> DEFINE t == sess[s]
             new == Generated(facts[t.day], t.day, t.phase)
             u == Swept(s, doomed)
  <1>1. /\ u.gone = t.gone \cup (doomed \cap autos) /\ u.doomed = {}
        /\ u.made = t.made \cup new /\ u.day = t.day
        /\ u.phase = IF t.phase = "LATE" THEN "ABSENCE" ELSE "price"
    BY DEF Sound, Fields, Swept
  <1>2. /\ \A x \in new : x.day = t.day /\ x.type = t.phase
        /\ \A x, y \in new : x = y
    BY DEF Generated
  <1>3. \A y \in autos : y.day = t.day /\ y.type = t.phase => y \in u.gone
    BY <1>1 DEF Visible, On
  <1>4. t.day \in Days /\ t.day <= t.day /\ t.phase \in {"LATE", "ABSENCE"}
    BY DaysAssumption DEF Sound, Days, Types
  <1> HIDE DEF u, new
  <1>5. \A x \in t.made : ~(x.day = t.day /\ x.type = t.phase)
    BY <1>4 DEF Replaces
  <1>6. /\ \A x, y \in u.made : SameKind(x, y) => x = y
        /\ \A x \in u.made, y \in autos : SameKind(x, y) => y \in u.gone
    BY <1>1, <1>2, <1>3, <1>5 DEF Replaces, SameKind
  <1>7. /\ \A x \in u.made : x.day \in Days /\ x.day <= u.day
        /\ \A x \in u.made : x.day = u.day =>
             u.phase # "LATE" /\ (u.phase = "ABSENCE" => x.type = "LATE")
    BY <1>1, <1>2, <1>4 DEF Replaces
  <1> QED BY <1>1, <1>6, <1>7 DEF Replaces, u

\* The sweeps.  A DELETE never waits: no other session has deleted anything.
LEMMA PenaltySweeps ==
  ASSUME OneSession, PenaltyInv, SumInv', NEW s \in Sessions,
         Excuse(s) \/ Sweep(s) \/ Delete(s) \/ Price(s)
  PROVE  PenaltyInv'
  <1>1. Sound(sess[s]) /\ Replaces(sess[s])
    BY DEF PenaltyInv, SumInv
  <1>2. CASE Excuse(s)
    <2> DEFINE t == [sess[s] EXCEPT !.seen = facts[sess[s].day], !.phase = "price"]
    <2>1. sess' = [sess EXCEPT ![s] = t] /\ autos' = autos
      BY <1>2 DEF Excuse, Step
    <2>2. /\ t.doomed = sess[s].doomed /\ t.made = sess[s].made /\ t.gone = sess[s].gone
          /\ t.day = sess[s].day /\ t.phase = "price"
      BY <1>1 DEF Sound, Fields
    <2> HIDE DEF t
    <2>3. Replaces(t)
      BY <1>1, <2>2, ReplacesOn
    <2> QED BY <2>1, <2>3, PenaltyAdvance
  <1>3. CASE Sweep(s)
    <2> DEFINE doomed == {x \in Visible(s, sess[s].day) : x.type = sess[s].phase}
               t == Swept(s, doomed)
    <2>1. ~ \E r \in Sessions \ {s} : sess[r].gone \cap doomed # {}
      BY DEF OneSession
    <2>2. sess' = [sess EXCEPT ![s] = t] /\ autos' = autos /\ sess[s].phase \in Types
      BY <1>3, <2>1 DEF Sweep, Step
    <2>3. Replaces(t)
      BY <1>1, <2>2, SweptReplaces
    <2> HIDE DEF t
    <2> QED BY <2>2, <2>3, PenaltyAdvance
  <1>4. CASE Delete(s)
    BY <1>1, <1>4 DEF Delete, Replaces
  <1>5. CASE Price(s)
    <2>1. PICK priced :
            /\ sess' = [sess EXCEPT ![s] =
                 [sess[s] EXCEPT !.priced = priced, !.seen = Blank, !.phase = "upsert"]]
            /\ autos' = autos
      BY <1>5 DEF Price, Step
    <2> DEFINE t == [sess[s] EXCEPT !.priced = priced, !.seen = Blank, !.phase = "upsert"]
    <2>2. /\ t.doomed = sess[s].doomed /\ t.made = sess[s].made /\ t.gone = sess[s].gone
          /\ t.day = sess[s].day /\ t.phase = "upsert"
      BY <1>1 DEF Sound, Fields
    <2>3. sess' = [sess EXCEPT ![s] = t] /\ autos' = autos
      BY <2>1
    <2> HIDE DEF t
    <2>4. Replaces(t)
      BY <1>1, <2>2, ReplacesOn
    <2> QED BY <2>3, <2>4, PenaltyAdvance
  <1> QED BY <1>2, <1>3, <1>4, <1>5

\* The statements after the sweeps, up to the next day.
LEMMA PenaltyWrites ==
  ASSUME OneSession, PenaltyInv, SumInv', NEW s \in Sessions,
         Upsert(s) \/ Create(s) \/ NextDay(s)
  PROVE  PenaltyInv'
  <1>1. Sound(sess[s]) /\ Replaces(sess[s])
    BY DEF PenaltyInv, SumInv
  <1>2. autos' = autos
    BY DEF Upsert, Create, NextDay, Step
  <1>3. CASE Upsert(s)
    <2>1. PICK t :
            /\ sess' = [sess EXCEPT ![s] = t]
            /\ t \in {Refreshed(s, Upserted(s)), [Upserted(s) EXCEPT !.phase = "create"]}
      BY <1>3 DEF Upsert, Step
    <2>2. /\ t.doomed = sess[s].doomed /\ t.made = sess[s].made /\ t.gone = sess[s].gone
          /\ t.day = sess[s].day /\ t.phase \in {"create", "flush"}
      BY <1>1, <2>1 DEF Sound, Fields, Refreshed, Upserted
    <2>3. Replaces(t)
      BY <1>1, <2>2, ReplacesOn
    <2> QED BY <1>2, <2>1, <2>3, PenaltyAdvance
  <1>4. CASE Create(s)
    <2> DEFINE t == [Refreshed(s, sess[s]) EXCEPT !.created = TRUE]
    <2>1. sess' = [sess EXCEPT ![s] = t]
      BY <1>4 DEF Create, Step
    <2>2. /\ t.doomed = sess[s].doomed /\ t.made = sess[s].made /\ t.gone = sess[s].gone
          /\ t.day = sess[s].day /\ t.phase = "flush"
      BY <1>1 DEF Sound, Fields, Refreshed
    <2> HIDE DEF t
    <2>3. Replaces(t)
      BY <1>1, <2>2, ReplacesOn
    <2> QED BY <1>2, <2>1, <2>3, PenaltyAdvance
  <1>5. CASE NextDay(s)
    <2> DEFINE u == sess[s]
               t == [u EXCEPT !.locked = @ \/ u.new # u.old, !.day = @ + 1,
                              !.phase = "LATE"]
    <2>1. sess' = [sess EXCEPT ![s] = t]
      BY <1>5 DEF NextDay, Step
    <2>2. /\ t.doomed = u.doomed /\ t.made = u.made /\ t.gone = u.gone
          /\ t.day = u.day + 1 /\ u.day \in Int
      BY <1>1, DaysAssumption DEF Sound, Fields, Days
    <2> HIDE DEF t
    <2>3. \A x \in u.made : x.day \in Int /\ x.day <= u.day
      BY <1>1, DaysAssumption DEF Replaces, Days
    <2>4. \A x \in u.made : x.day \in Days /\ x.day < t.day
      BY <1>1, <2>2, <2>3 DEF Replaces
    <2>5. \A x \in u.made : x.day <= t.day /\ x.day # t.day
      BY <2>2, <2>3, <2>4
    <2> HIDE DEF u
    <2>6. Replaces(t)
      BY <1>1, <2>2, <2>4, <2>5 DEF Replaces, u
    <2> QED BY <1>2, <2>1, <2>6, PenaltyAdvance
  <1> QED BY <1>3, <1>4, <1>5

\* A COMMIT puts what was added in the place of what was deleted.
LEMMA PenaltyCommit ==
  ASSUME OneSession, PenaltyInv, SumInv', NEW s \in Sessions, Commit(s)
  PROVE  PenaltyInv'
  <1>1. Replaces(sess[s])
    BY DEF PenaltyInv
  <1>2. autos' = (autos \ sess[s].gone) \cup sess[s].made
    BY DEF Commit
  <1>3. OnePenaltyPerDay'
    BY <1>1, <1>2 DEF PenaltyInv, OnePenaltyPerDay, Replaces, SameKind
  <1>4. \A r \in Sessions : sess'[r] = Idle
    BY DEF Commit, OneSession, PenaltyInv, SumInv
  <1>5. \A r \in Sessions : Replaces(sess[r])'
    BY <1>4 DEF Idle, Replaces
  <1> QED BY <1>3, <1>5 DEF PenaltyInv

LEMMA PenaltyStep ==
  ASSUME OneSession, PenaltyInv, [Next]_vars
  PROVE  PenaltyInv'
  <1>1. SumInv'
    BY SumInvStep DEF PenaltyInv, OneSession, OneAtATime
  <1>2. ASSUME NEW s \in Sessions, NEW kind, NEW first \in Days, NEW last \in Days,
               Begin(s, kind, first, last)
        PROVE  PenaltyInv'
    <2> DEFINE t == Begun(kind, first, last)
    <2>1. sess' = [sess EXCEPT ![s] = t] /\ autos' = autos
      BY <1>2 DEF Begin
    <2>2. Replaces(t)
      BY DEF Replaces, Idle, Begun
    <2> HIDE DEF t
    <2> QED BY <1>1, <2>1, <2>2, PenaltyAdvance
  <1>3. 1 \in Days /\ LastDay \in Days
    BY DaysAssumption DEF Days
  <1>4. ASSUME NEW s \in Sessions, NEW d \in Days, StartTask(s, d) \/ StartRequest(s, d)
        PROVE  PenaltyInv'
    BY <1>2, <1>4 DEF StartTask, StartRequest
  <1>5. ASSUME NEW s \in Sessions, StartSummary(s) \/ StartClose(s)
        PROVE  PenaltyInv'
    BY <1>2, <1>3, <1>5 DEF StartSummary, StartClose
  <1>6. ASSUME NEW s \in Sessions, Excuse(s) \/ Sweep(s) \/ Delete(s) \/ Price(s)
        PROVE  PenaltyInv'
    BY <1>1, <1>6, PenaltySweeps
  <1>7. ASSUME NEW s \in Sessions, Upsert(s) \/ Create(s) \/ NextDay(s) \/ Commit(s)
        PROVE  PenaltyInv'
    BY <1>1, <1>7, PenaltyWrites, PenaltyCommit
  <1>8. ASSUME NEW s \in Sessions, Abort(s)
        PROVE  PenaltyInv'
    BY <1>1, <1>8, IdleReplaces, PenaltyAdvance DEF Abort
  <1>9. CASE UNCHANGED <<sess, autos>>
    BY <1>1, <1>9 DEF PenaltyInv, Replaces, OnePenaltyPerDay
  <1>10. ASSUME NEW d \in Days, NEW f \in Facts, Edit(d, f) \/ EditSilently(d, f)
         PROVE  UNCHANGED <<sess, autos>>
    BY <1>10 DEF Edit, EditSilently, Change
  <1>11. Tick \/ Midnight \/ UNCHANGED vars => UNCHANGED <<sess, autos>>
    BY DEF Tick, Midnight, Pass, vars
  <1> QED BY <1>4, <1>5, <1>6, <1>7, <1>8, <1>9, <1>10, <1>11 DEF Next

\* With one session at a time a recompute leaves a day with one LATE and one
\* ABSENCE penalty at most, however often it runs, whatever edits, aborts and
\* midnights come between: each _autogenerate_*_deduction replaces the row of
\* the run before.
THEOREM OnePenalty ==
  ASSUME OneSession
  PROVE  Spec => []OnePenaltyPerDay
  <1>1. PenaltyInv => OnePenaltyPerDay
    BY DEF PenaltyInv
  <1>2. PenaltyInv /\ [Next]_vars => PenaltyInv'
    BY PenaltyStep
  <1> QED BY <1>1, <1>2, PenaltyInit, PTL DEF Spec

(***************************************************************************)
(* What the accruals deduct.                                               *)
(***************************************************************************)

\* The penalties there will be if the transaction commits now.
After(t) == (autos \ t.gone) \cup t.made

\* The days it has repriced deduct what it leaves of their penalties, and it
\* has touched no other day but the one it is at.
Counted(t) ==
  /\ t.kind # "request"
  /\ \A x \in t.gone \cup t.made : x.day = t.day \/ t.ups[x.day].exists = TRUE
  /\ \A d \in Days : t.ups[d].exists = TRUE =>
       /\ t.ups[d].deductions = Owed(On(After(t), d))
       /\ d <= t.day /\ (d = t.day => Writing(t))
  /\ t.phase = "upsert" => t.priced.deductions = Owed(On(After(t), t.day))
  /\ \A d \in Days : t.ups[d].exists \in BOOLEAN

CountedInv ==
  /\ PenaltyInv
  /\ \A s \in Sessions : Counted(sess[s])
  /\ PenaltiesCounted

LEMMA IdleCounted == Counted(Idle)
  BY DEF Idle, Counted, NoAccrual

LEMMA CountedInit == Init => CountedInv
  BY PenaltyInit, IdleCounted DEF Init, CountedInv, PenaltiesCounted, NoAccrual

\* A step of the only session that commits nothing.
LEMMA CountedAdvance ==
  ASSUME OneSession, CountedInv, PenaltyInv', NEW s \in Sessions, NEW t, Counted(t),
         sess' = [sess EXCEPT ![s] = t], autos' = autos, accrual' = accrual
  PROVE  CountedInv'
  <1>1. \A r \in Sessions : sess'[r] = t
    BY DEF OneSession, CountedInv, PenaltyInv, SumInv
  <1>2. \A r \in Sessions : Counted(sess[r])'
    BY <1>1 DEF Counted, After, Writing
  <1>3. PenaltiesCounted'
    BY DEF CountedInv, PenaltiesCounted
  <1> QED BY <1>2, <1>3 DEF CountedInv

\* A statement that leaves the penalties and the accruals written so far.
LEMMA CountedOn ==
  ASSUME NEW t, Counted(t), NEW u, u.kind = t.kind, u.made = t.made, u.gone = t.gone,
         u.day = t.day, u.ups = t.ups, Writing(t) => Writing(u),
         u.phase = "upsert" => u.priced.deductions = Owed(On(After(t), t.day))
  PROVE  Counted(u)
  <1>1. After(u) = After(t)
    BY DEF After
  <1> QED BY <1>1 DEF Counted

\* A sweep changes the penalties of its own day alone.
LEMMA SweptCounted ==
  ASSUME NEW s \in Sessions, Sound(sess[s]), Counted(sess[s]), sess[s].phase \in Types,
         NEW doomed, doomed = {x \in Visible(s, sess[s].day) : x.type = sess[s].phase}
  PROVE  Counted(Swept(s, doomed))
  <1> DEFINE t == sess[s]
             new == Generated(facts[t.day], t.day, t.phase)
             u == Swept(s, doomed)
  <1>1. /\ u.gone = t.gone \cup (doomed \cap autos) /\ u.kind = t.kind
        /\ u.made = t.made \cup new /\ u.day = t.day /\ u.ups = t.ups
        /\ u.phase \in {"ABSENCE", "price"}
    BY DEF Sound, Fields, Swept
  <1>2. (\A x \in new : x.day = t.day) /\ (\A x \in doomed : x.day = t.day)
    BY DEF Generated, Visible, On
  <1>3. ~Writing(t)
    BY DEF Writing, Types
  <1> HIDE DEF u, new
  <1>4. ASSUME NEW d \in Days, d # t.day
        PROVE  On(After(u), d) = On(After(t), d)
    BY <1>1, <1>2, <1>4 DEF On, After
  <1>5. \A d \in Days : t.ups[d].exists = TRUE => d # t.day
    BY <1>3 DEF Counted
  <1>6. \A x \in u.gone \cup u.made : x.day = u.day \/ u.ups[x.day].exists = TRUE
    BY <1>1, <1>2 DEF Counted
  <1>7. \A d \in Days : u.ups[d].exists = TRUE =>
          u.ups[d].deductions = Owed(On(After(u), d)) /\ d <= u.day /\ d # u.day
    BY <1>1, <1>4, <1>5 DEF Counted
  <1> QED BY <1>1, <1>6, <1>7 DEF Counted, u

LEMMA CountedSweeps ==
  ASSUME OneSession, CountedInv, PenaltyInv', NEW s \in Sessions,
         Excuse(s) \/ Sweep(s) \/ Delete(s) \/ Price(s)
  PROVE  CountedInv'
  <1>1. Sound(sess[s]) /\ Replaces(sess[s]) /\ Counted(sess[s])
    BY DEF CountedInv, PenaltyInv, SumInv
  <1>2. CASE Excuse(s)
    <2> DEFINE t == [sess[s] EXCEPT !.seen = facts[sess[s].day], !.phase = "price"]
    <2>1. sess' = [sess EXCEPT ![s] = t] /\ autos' = autos /\ accrual' = accrual
      BY <1>2 DEF Excuse, Step
    <2>2. /\ t.kind = sess[s].kind /\ t.made = sess[s].made /\ t.gone = sess[s].gone
          /\ t.day = sess[s].day /\ t.ups = sess[s].ups /\ t.phase = "price"
      BY <1>1 DEF Sound, Fields
    <2>3. ~Writing(sess[s])
      BY <1>2 DEF Excuse, Ready, Writing
    <2> HIDE DEF t
    <2>4. Counted(t)
      BY <1>1, <2>2, <2>3, CountedOn
    <2> QED BY <2>1, <2>4, CountedAdvance
  <1>3. CASE Sweep(s)
    <2> DEFINE doomed == {x \in Visible(s, sess[s].day) : x.type = sess[s].phase}
               t == Swept(s, doomed)
    <2>1. ~ \E r \in Sessions \ {s} : sess[r].gone \cap doomed # {}
      BY DEF OneSession
    <2>2. /\ sess' = [sess EXCEPT ![s] = t] /\ autos' = autos /\ accrual' = accrual
          /\ sess[s].phase \in Types
      BY <1>3, <2>1 DEF Sweep, Step
    <2>3. Counted(t)
      BY <1>1, <2>2, SweptCounted
    <2> HIDE DEF t
    <2> QED BY <2>2, <2>3, CountedAdvance
  <1>4. CASE Delete(s)
    BY <1>1, <1>4 DEF Delete, Replaces
  <1>5. CASE Price(s)
    <2> DEFINE f == [facts[sess[s].day] EXCEPT !.rest = sess[s].seen.rest,
                                               !.leave = sess[s].seen.leave]
               priced == [exists |-> TRUE, earned |-> Earned(f, sess[s].day),
                          deductions |-> Owed(Visible(s, sess[s].day))]
               t == [sess[s] EXCEPT !.priced = priced, !.seen = Blank, !.phase = "upsert"]
    <2>1. sess' = [sess EXCEPT ![s] = t] /\ autos' = autos /\ accrual' = accrual
      BY <1>5 DEF Price, Step
    <2>2. priced.deductions = Owed(On(After(sess[s]), sess[s].day))
      BY <1>1 DEF Counted, Visible, Autoflushes, After
    <2> HIDE DEF priced
    <2>3. /\ t.kind = sess[s].kind /\ t.made = sess[s].made /\ t.gone = sess[s].gone
          /\ t.day = sess[s].day /\ t.ups = sess[s].ups /\ t.priced = priced
      BY <1>1 DEF Sound, Fields
    <2>4. ~Writing(sess[s])
      BY <1>5 DEF Price, Ready, Writing
    <2> HIDE DEF t
    <2>5. Counted(t)
      BY <1>1, <2>2, <2>3, <2>4, CountedOn
    <2> QED BY <2>1, <2>5, CountedAdvance
  <1> QED BY <1>2, <1>3, <1>4, <1>5

\* The upsert writes the accrual as it was priced, the next day's sweeps leave it.
LEMMA CountedWrites ==
  ASSUME OneSession, CountedInv, PenaltyInv', NEW s \in Sessions,
         Upsert(s) \/ Create(s) \/ NextDay(s)
  PROVE  CountedInv'
  <1>1. Sound(sess[s]) /\ Counted(sess[s])
    BY DEF CountedInv, PenaltyInv, SumInv
  <1>2. autos' = autos /\ accrual' = accrual
    BY DEF Upsert, Create, NextDay, Step
  <1>3. CASE Upsert(s)
    <2>1. PICK t :
            /\ sess' = [sess EXCEPT ![s] = t]
            /\ t \in {Refreshed(s, Upserted(s)), [Upserted(s) EXCEPT !.phase = "create"]}
      BY <1>3 DEF Upsert, Step
    <2>2. /\ t.kind = sess[s].kind /\ t.made = sess[s].made /\ t.gone = sess[s].gone
          /\ t.day = sess[s].day /\ t.phase \in {"create", "flush"}
          /\ t.ups = [sess[s].ups EXCEPT ![sess[s].day] = sess[s].priced]
      BY <1>1, <2>1 DEF Sound, Fields, Refreshed, Upserted
    <2>3. sess[s].phase = "upsert"
      BY <1>3 DEF Upsert, Ready
    <2>4. After(t) = After(sess[s])
      BY <2>2 DEF After
    <2>5. \A d \in Days : t.ups[d] = IF d = sess[s].day THEN sess[s].priced ELSE sess[s].ups[d]
      BY <1>1, <2>2 DEF Sound
    <2>6. sess[s].day \in Days /\ sess[s].priced.exists = TRUE /\ sess[s].day <= sess[s].day
      BY <1>1, <2>3, DaysAssumption DEF Sound, Days
    <2>7. \A x \in t.gone \cup t.made : x.day = t.day \/ t.ups[x.day].exists = TRUE
      BY <1>1, <2>2 DEF Counted
    <2>8. ASSUME NEW d \in Days, t.ups[d].exists = TRUE
          PROVE  /\ t.ups[d].deductions = Owed(On(After(t), d))
                 /\ d <= t.day /\ (d = t.day => Writing(t))
      <3>1. CASE d = sess[s].day
        <4>1. sess[s].priced.deductions = Owed(On(After(sess[s]), sess[s].day))
          BY <1>1, <2>3 DEF Counted
        <4>2. t.ups[d] = sess[s].priced /\ Writing(t)
          BY <2>2, <2>5, <3>1 DEF Writing
        <4> QED BY <2>2, <2>4, <2>6, <3>1, <4>1, <4>2
      <3>2. CASE d # sess[s].day
        <4>1. t.ups[d] = sess[s].ups[d]
          BY <2>5, <3>2
        <4>2. d <= sess[s].day /\ sess[s].ups[d].deductions = Owed(On(After(sess[s]), d))
          BY <1>1, <2>8, <4>1 DEF Counted
        <4> QED BY <2>2, <2>4, <3>2, <4>1, <4>2
      <3> QED BY <3>1, <3>2
    <2>9. \A d \in Days : t.ups[d].exists \in BOOLEAN
      BY <1>1, <2>5, <2>6 DEF Counted
    <2>10. t.kind # "request" /\ t.phase # "upsert"
      BY <1>1, <2>2 DEF Counted
    <2>11. Counted(t)
      BY <2>7, <2>8, <2>9, <2>10 DEF Counted
    <2> QED BY <1>2, <2>1, <2>11, CountedAdvance
  <1>4. CASE Create(s)
    <2> DEFINE t == [Refreshed(s, sess[s]) EXCEPT !.created = TRUE]
    <2>1. sess' = [sess EXCEPT ![s] = t]
      BY <1>4 DEF Create, Step
    <2>2. /\ t.kind = sess[s].kind /\ t.made = sess[s].made /\ t.gone = sess[s].gone
          /\ t.day = sess[s].day /\ t.ups = sess[s].ups /\ t.phase = "flush"
      BY <1>1 DEF Sound, Fields, Refreshed
    <2> HIDE DEF t
    <2>3. Counted(t)
      BY <1>1, <2>2, CountedOn DEF Writing
    <2> QED BY <1>2, <2>1, <2>3, CountedAdvance
  <1>5. CASE NextDay(s)
    <2> DEFINE u == sess[s]
               t == [u EXCEPT !.locked = @ \/ u.new # u.old, !.day = @ + 1,
                              !.phase = "LATE"]
    <2>1. sess' = [sess EXCEPT ![s] = t] /\ u.phase = "flush"
      BY <1>5 DEF NextDay, Step, Ready
    <2>2. /\ t.kind = u.kind /\ t.made = u.made /\ t.gone = u.gone
          /\ t.day = u.day + 1 /\ t.ups = u.ups /\ t.phase = "LATE"
      BY <1>1 DEF Sound, Fields
    <2>3. u.ups[u.day].exists = TRUE /\ u.day \in Days
      BY <1>1, <2>1 DEF Sound, Writing
    <2>4. \A d \in Days : d <= u.day => d <= u.day + 1 /\ d # u.day + 1
      BY <2>3, DaysAssumption DEF Days
    <2>5. After(t) = After(u)
      BY <2>2 DEF After
    <2> HIDE DEF t
    <2>6. Counted(t)
      BY <1>1, <2>2, <2>3, <2>4, <2>5 DEF Counted
    <2> QED BY <1>2, <2>1, <2>6, CountedAdvance
  <1> QED BY <1>3, <1>4, <1>5

\* A COMMIT leaves the days that the transaction did not reprice alone.
LEMMA CountedCommit ==
  ASSUME OneSession, CountedInv, PenaltyInv', NEW s \in Sessions, Commit(s)
  PROVE  CountedInv'
  <1> DEFINE t == sess[s]
  <1>1. Sound(t) /\ Counted(t) /\ t.phase = "flush"
    BY DEF CountedInv, PenaltyInv, SumInv, Commit, Ready
  <1>2. autos' = After(t) /\ accrual' = Written(t)
    BY DEF Commit, After
  <1>3. ASSUME NEW d \in Days, accrual'[d].exists
        PROVE  accrual'[d].deductions = Owed(On(After(t), d))
    <2>1. CASE t.ups[d].exists = TRUE
      BY <1>1, <1>2, <2>1 DEF Counted, Written
    <2>2. CASE t.ups[d].exists = FALSE
      <3>1. accrual'[d] = accrual[d]
        BY <1>2, <2>2 DEF Written
      <3>2. t.ups[t.day].exists = TRUE
        BY <1>1 DEF Sound, Writing
      <3>3. \A x \in t.gone \cup t.made : x.day # d
        BY <1>1, <2>2, <3>2 DEF Counted
      <3>4. On(After(t), d) = On(autos, d)
        BY <3>3 DEF On, After
      <3> QED BY <1>3, <3>1, <3>4 DEF CountedInv, PenaltiesCounted
    <2> QED BY <1>1, <2>1, <2>2 DEF Counted
  <1>4. PenaltiesCounted'
    <2> SUFFICES ASSUME NEW d \in Days, accrual'[d].exists
                 PROVE  accrual'[d].deductions = Owed(On(autos', d))
      BY DEF PenaltiesCounted
    <2> QED BY <1>2, <1>3
  <1>5. \A r \in Sessions : sess'[r] = Idle
    BY DEF Commit, OneSession, CountedInv, PenaltyInv, SumInv
  <1>6. ASSUME NEW r \in Sessions PROVE Counted(sess[r])'
    <2>1. Idle.kind = "idle" /\ Idle.phase = "idle" /\ Idle.gone = {} /\ Idle.made = {}
      BY DEF Idle
    <2>2. \A d \in Days : Idle.ups[d].exists = FALSE
      BY DEF Idle, NoAccrual
    <2>3. sess'[r] = Idle
      BY <1>5
    <2> QED BY <2>1, <2>2, <2>3 DEF Counted
  <1> QED BY <1>4, <1>6 DEF CountedInv

LEMMA CountedStep ==
  ASSUME OneSession, "request" \notin Kinds, CountedInv, [Next]_vars
  PROVE  CountedInv'
  <1>1. PenaltyInv'
    BY PenaltyStep DEF CountedInv
  <1>2. ASSUME NEW s \in Sessions, NEW kind, NEW first \in Days, NEW last \in Days,
               Begin(s, kind, first, last)
        PROVE  CountedInv'
    <2> DEFINE t == Begun(kind, first, last)
    <2>1. /\ sess' = [sess EXCEPT ![s] = t] /\ autos' = autos /\ accrual' = accrual
          /\ kind # "request"
      BY <1>2 DEF Begin
    <2>2. Counted(t)
      BY <2>1 DEF Counted, Idle, NoAccrual, Begun
    <2> HIDE DEF t
    <2> QED BY <1>1, <2>1, <2>2, CountedAdvance
  <1>3. 1 \in Days /\ LastDay \in Days
    BY DaysAssumption DEF Days
  <1>4. ASSUME NEW s \in Sessions, NEW d \in Days, StartTask(s, d) \/ StartRequest(s, d)
        PROVE  CountedInv'
    BY <1>2, <1>4 DEF StartTask, StartRequest
  <1>5. ASSUME NEW s \in Sessions, StartSummary(s) \/ StartClose(s)
        PROVE  CountedInv'
    BY <1>2, <1>3, <1>5 DEF StartSummary, StartClose
  <1>6. ASSUME NEW s \in Sessions, Excuse(s) \/ Sweep(s) \/ Delete(s) \/ Price(s)
        PROVE  CountedInv'
    BY <1>1, <1>6, CountedSweeps
  <1>7. ASSUME NEW s \in Sessions, Upsert(s) \/ Create(s) \/ NextDay(s) \/ Commit(s)
        PROVE  CountedInv'
    BY <1>1, <1>7, CountedWrites, CountedCommit
  <1>8. ASSUME NEW s \in Sessions, Abort(s)
        PROVE  CountedInv'
    BY <1>1, <1>8, IdleCounted, CountedAdvance DEF Abort
  <1>9. CASE UNCHANGED <<sess, autos, accrual>>
    BY <1>1, <1>9 DEF CountedInv, Counted, After, Writing, PenaltiesCounted
  <1>10. ASSUME NEW d \in Days, NEW f \in Facts, Edit(d, f) \/ EditSilently(d, f)
         PROVE  UNCHANGED <<sess, autos, accrual>>
    BY <1>10 DEF Edit, EditSilently, Change
  <1>11. Tick \/ Midnight \/ UNCHANGED vars => UNCHANGED <<sess, autos, accrual>>
    BY DEF Tick, Midnight, Pass, vars
  <1> QED BY <1>4, <1>5, <1>6, <1>7, <1>8, <1>9, <1>10, <1>11 DEF Next

\* With one session at a time, and no recompute in a session that does not
\* autoflush, each accrual deducts what the penalty rows of its day add up to:
\* _deductions_for_day reads the rows that the sweeps have just generated, and
\* no later step changes them without the accrual.
THEOREM PenaltiesAddUp ==
  ASSUME OneSession, "request" \notin Kinds
  PROVE  Spec => []PenaltiesCounted
  <1>1. CountedInv => PenaltiesCounted
    BY DEF CountedInv
  <1>2. CountedInv /\ [Next]_vars => CountedInv'
    BY CountedStep
  <1> QED BY <1>1, <1>2, CountedInit, PTL DEF Spec

(***************************************************************************)
(* What the accruals earn.                                                 *)
(***************************************************************************)

Fact == [attendance: {"none", "on_time", "late"},
         hours: Nat, open: BOOLEAN, since: Nat, overtime: Nat,
         leave: {"none", "paid", "unpaid"}, rest: BOOLEAN, working: BOOLEAN, extra: Int]

\* A recompute of the day is queued, or its last edit was missed.
Waiting(d) == queue[d] > 0 \/ d \in missed

\* What the transaction has read and written is still so, or the day waits for
\* another recompute; it comes to the days it owes, or has written them.
Current(t) ==
  /\ t.kind = "task" => t.day = t.last /\ t.owes \subseteq {t.day}
  /\ t.phase \in {"ABSENCE", "price"} =>
       \/ Waiting(t.day)
       \/ t.seen.rest = facts[t.day].rest /\ t.seen.leave = facts[t.day].leave
  /\ t.phase = "upsert" => Waiting(t.day) \/ t.priced.earned \in worth[t.day]
  /\ \A d \in Days : t.ups[d].exists = TRUE =>
       Waiting(d) \/ t.ups[d].earned \in worth[d]
  /\ \A d \in Days : t.ups[d].exists \in BOOLEAN
  /\ t.owes \subseteq Days
  /\ \A d \in t.owes : d <= t.last /\ (d < t.day => t.ups[d].exists = TRUE)

\* A day whose accrual is behind waits for a recompute, or one runs that owes it.
Behind(d) == ~Waiting(d) /\ accrual[d].earned \notin worth[d]

FreshInv ==
  /\ PenaltyInv
  /\ facts \in [Days -> Fact]
  /\ queue \in [Days -> Nat]
  /\ worth = [d \in Days |-> worth[d]]
  /\ \A d \in Days : Earned(facts[d], d) \in worth[d]
  /\ \A s \in Sessions : Current(sess[s])
  /\ \A d \in Days : Behind(d) => \E s \in Sessions : d \in sess[s].owes

LEMMA IdleCurrent == Current(Idle)
  BY DEF Idle, Current, NoAccrual

\* A day without check-in, leave and bonus is worth nothing at any hour.
LEMMA BlankEarnsNothing ==
  ASSUME NEW d \in Days
  PROVE  Earned(Blank, d) = 0
  <1>1. Worked(Blank, d) = 0
    BY DEF Worked, Blank
  <1>2. HoursPay(0) = 0
    BY PayAssumption DEF HoursPay
  <1>3. Base(Blank, d) = 0
    BY <1>1, <1>2 DEF Base, Blank
  <1>4. Overtime(Blank, d) = 0
    BY PayAssumption DEF Overtime, Blank
  <1> QED BY <1>3, <1>4 DEF Earned, Blank

LEMMA FreshInit == Init => FreshInv
  <1> SUFFICES ASSUME Init PROVE FreshInv
    OBVIOUS
  <1>1. Blank \in Fact
    BY DEF Blank, Fact
  <1>2. /\ facts \in [Days -> Fact] /\ queue \in [Days -> Nat]
        /\ worth = [d \in Days |-> worth[d]]
    BY <1>1 DEF Init
  <1>3. \A d \in Days : ~Behind(d) /\ Earned(facts[d], d) \in worth[d]
    BY BlankEarnsNothing DEF Init, Behind, NoAccrual
  <1>4. \A s \in Sessions : Current(sess[s])
    BY IdleCurrent DEF Init
  <1> QED BY <1>2, <1>3, <1>4, PenaltyInit DEF FreshInv

\* A step of the only session that commits nothing and goes on with what it owes.
LEMMA FreshAdvance ==
  ASSUME OneSession, FreshInv, PenaltyInv', NEW s \in Sessions, NEW t, Current(t),
         t.owes = sess[s].owes, sess' = [sess EXCEPT ![s] = t],
         UNCHANGED <<facts, today, hour, queue, accrual, missed, worth>>
  PROVE  FreshInv'
  <1>1. sess'[s] = t /\ \A r \in Sessions : r = s
    BY DEF OneSession, FreshInv, PenaltyInv, SumInv
  <1>2. \A r \in Sessions : Current(sess[r])'
    BY <1>1 DEF Current, Waiting
  <1>3. ASSUME NEW d \in Days, Behind(d)'
        PROVE  d \in sess'[s].owes
    <2>1. Behind(d)
      BY <1>3 DEF Behind, Waiting
    <2> QED BY <1>1, <2>1 DEF FreshInv
  <1>4. (\A d \in Days : Behind(d) => \E r \in Sessions : d \in sess[r].owes)'
    BY <1>3
  <1>5. (\A d \in Days : Earned(facts[d], d) \in worth[d])'
    BY DEF FreshInv, Earned, Base, Overtime, Worked
  <1> QED BY <1>2, <1>4, <1>5 DEF FreshInv

\* A statement that leaves what the transaction has written so far.
LEMMA CurrentOn ==
  ASSUME NEW t, Current(t), NEW u, u.kind = t.kind, u.day = t.day, u.last = t.last,
         u.ups = t.ups, u.owes = t.owes,
         u.phase \in {"ABSENCE", "price", "upsert", "flush"},
         u.phase \in {"ABSENCE", "price"} =>
           \/ Waiting(t.day)
           \/ u.seen.rest = facts[t.day].rest /\ u.seen.leave = facts[t.day].leave,
         u.phase = "upsert" => Waiting(t.day) \/ u.priced.earned \in worth[t.day]
  PROVE  Current(u)
  BY DEF Current

\* Rest day and leave are as read when the day was swept: the accrual is priced
\* by the facts as they are, or an edit has queued another recompute.
LEMMA FreshSweeps ==
  ASSUME OneSession, FreshInv, PenaltyInv', NEW s \in Sessions,
         Excuse(s) \/ Sweep(s) \/ Delete(s) \/ Price(s)
  PROVE  FreshInv'
  <1>1. Sound(sess[s]) /\ Replaces(sess[s]) /\ Current(sess[s])
    BY DEF FreshInv, PenaltyInv, SumInv
  <1>2. CASE Excuse(s)
    <2> DEFINE t == [sess[s] EXCEPT !.seen = facts[sess[s].day], !.phase = "price"]
    <2>1. sess' = [sess EXCEPT ![s] = t] /\ UNCHANGED <<facts, today, hour, queue, accrual, missed, worth>>
      BY <1>2 DEF Excuse, Step
    <2>2. /\ t.kind = sess[s].kind /\ t.day = sess[s].day /\ t.last = sess[s].last
          /\ t.ups = sess[s].ups /\ t.owes = sess[s].owes /\ t.phase = "price" /\ t.seen = facts[sess[s].day]
      BY <1>1 DEF Sound, Fields
    <2> HIDE DEF t
    <2>3. Current(t)
      BY <1>1, <2>2, CurrentOn
    <2> QED BY <2>1, <2>2, <2>3, FreshAdvance
  <1>3. CASE Sweep(s)
    <2> DEFINE doomed == {x \in Visible(s, sess[s].day) : x.type = sess[s].phase}
               t == Swept(s, doomed)
    <2>1. ~ \E r \in Sessions \ {s} : sess[r].gone \cap doomed # {}
      BY DEF OneSession
    <2>2. /\ sess' = [sess EXCEPT ![s] = t] /\ UNCHANGED <<facts, today, hour, queue, accrual, missed, worth>>
          /\ sess[s].phase \in {"LATE", "ABSENCE"}
      BY <1>3, <2>1 DEF Sweep, Step, Types
    <2> HIDE DEF doomed
    <2>3. /\ t.kind = sess[s].kind /\ t.day = sess[s].day /\ t.last = sess[s].last
          /\ t.ups = sess[s].ups /\ t.owes = sess[s].owes
          /\ t.phase = IF sess[s].phase = "LATE" THEN "ABSENCE" ELSE "price"
          /\ t.seen = IF sess[s].phase = "LATE" THEN facts[sess[s].day] ELSE sess[s].seen
      BY <1>1 DEF Sound, Fields, Swept
    <2> HIDE DEF t
    <2>4. \/ Waiting(sess[s].day)
          \/ /\ t.seen.rest = facts[sess[s].day].rest
             /\ t.seen.leave = facts[sess[s].day].leave
      BY <1>1, <2>2, <2>3 DEF Current
    <2>5. Current(t)
      BY <1>1, <2>2, <2>3, <2>4, CurrentOn
    <2> QED BY <2>2, <2>3, <2>5, FreshAdvance
  <1>4. CASE Delete(s)
    BY <1>1, <1>4 DEF Delete, Replaces
  <1>5. CASE Price(s)
    <2> DEFINE g == facts[sess[s].day]
               f == [g EXCEPT !.rest = sess[s].seen.rest, !.leave = sess[s].seen.leave]
               priced == [exists |-> TRUE, earned |-> Earned(f, sess[s].day),
                          deductions |-> Owed(Visible(s, sess[s].day))]
               t == [sess[s] EXCEPT !.priced = priced, !.seen = Blank, !.phase = "upsert"]
    <2>1. sess' = [sess EXCEPT ![s] = t] /\ UNCHANGED <<facts, today, hour, queue, accrual, missed, worth>>
      BY <1>5 DEF Price, Step
    <2>2. g \in Fact
      BY <1>1 DEF FreshInv, Sound
    <2>3. sess[s].seen.rest = g.rest /\ sess[s].seen.leave = g.leave => f = g
      <3> HIDE DEF g
      <3> QED BY <2>2 DEF Fact
    <2>4. priced.earned = Earned(f, sess[s].day)
      OBVIOUS
    <2>5. Waiting(sess[s].day) \/ priced.earned \in worth[sess[s].day]
      <3>1. sess[s].phase = "price"
        BY <1>5 DEF Price, Ready
      <3>2. Earned(g, sess[s].day) \in worth[sess[s].day]
        BY <1>1 DEF FreshInv, Sound
      <3> HIDE DEF f, g, priced
      <3>3. Waiting(sess[s].day) \/ f = g
        BY <1>1, <2>3, <3>1 DEF Current, g
      <3> QED BY <2>4, <3>2, <3>3
    <2> HIDE DEF priced
    <2>6. /\ t.kind = sess[s].kind /\ t.day = sess[s].day /\ t.last = sess[s].last
          /\ t.ups = sess[s].ups /\ t.owes = sess[s].owes /\ t.phase = "upsert" /\ t.priced = priced
      BY <1>1 DEF Sound, Fields
    <2> HIDE DEF t
    <2>7. Current(t)
      BY <1>1, <2>5, <2>6, CurrentOn
    <2> QED BY <2>1, <2>6, <2>7, FreshAdvance
  <1> QED BY <1>2, <1>3, <1>4, <1>5

LEMMA FreshWrites ==
  ASSUME OneSession, FreshInv, PenaltyInv', NEW s \in Sessions,
         Upsert(s) \/ Create(s) \/ NextDay(s)
  PROVE  FreshInv'
  <1>1. Sound(sess[s]) /\ Current(sess[s])
    BY DEF FreshInv, PenaltyInv, SumInv
  <1>2. UNCHANGED <<facts, today, hour, queue, accrual, missed, worth>>
    BY DEF Upsert, Create, NextDay, Step
  <1>3. CASE Upsert(s)
    <2>1. PICK t :
            /\ sess' = [sess EXCEPT ![s] = t]
            /\ t \in {Refreshed(s, Upserted(s)), [Upserted(s) EXCEPT !.phase = "create"]}
      BY <1>3 DEF Upsert, Step
    <2>2. /\ t.kind = sess[s].kind /\ t.day = sess[s].day /\ t.last = sess[s].last
          /\ t.phase \in {"create", "flush"}
          /\ t.ups = [sess[s].ups EXCEPT ![sess[s].day] = sess[s].priced]
          /\ t.owes = sess[s].owes
      BY <1>1, <2>1 DEF Sound, Fields, Refreshed, Upserted
    <2>3. sess[s].phase = "upsert"
      BY <1>3 DEF Upsert, Ready
    <2>4. \A d \in Days : t.ups[d] = IF d = sess[s].day THEN sess[s].priced ELSE sess[s].ups[d]
      BY <1>1, <2>2 DEF Sound
    <2>5. sess[s].priced.exists = TRUE
      BY <1>1, <2>3 DEF Sound
    <2>6. Current(t)
      BY <1>1, <2>2, <2>3, <2>4, <2>5 DEF Current
    <2> QED BY <1>2, <2>1, <2>2, <2>6, FreshAdvance
  <1>4. CASE Create(s)
    <2> DEFINE t == [Refreshed(s, sess[s]) EXCEPT !.created = TRUE]
    <2>1. sess' = [sess EXCEPT ![s] = t]
      BY <1>4 DEF Create, Step
    <2>2. /\ t.kind = sess[s].kind /\ t.day = sess[s].day /\ t.last = sess[s].last
          /\ t.ups = sess[s].ups /\ t.owes = sess[s].owes /\ t.phase = "flush"
      BY <1>1 DEF Sound, Fields, Refreshed
    <2> HIDE DEF t
    <2>3. Current(t)
      BY <1>1, <2>2, CurrentOn
    <2> QED BY <1>2, <2>1, <2>2, <2>3, FreshAdvance
  <1>5. CASE NextDay(s)
    <2> DEFINE u == sess[s]
               t == [u EXCEPT !.locked = @ \/ u.new # u.old, !.day = @ + 1,
                              !.phase = "LATE"]
    <2>1. sess' = [sess EXCEPT ![s] = t] /\ u.day < u.last
      BY <1>5 DEF NextDay, Step
    <2>2. t.kind = u.kind /\ t.ups = u.ups /\ t.owes = u.owes /\ t.phase = "LATE"
      BY <1>1 DEF Sound, Fields
    <2>3. u.kind # "task" /\ u.phase = "flush" /\ Days \subseteq Int
      <3>1. Days \subseteq Int /\ u.day \in Days
        BY <1>1, DaysAssumption DEF Sound, Days
      <3> QED BY <1>1, <1>5, <2>1, <3>1 DEF Current, NextDay, Ready
    <2>4. t.day = u.day + 1 /\ t.last = u.last /\ u.day \in Days
      BY <1>1 DEF Sound, Fields
    <2> HIDE DEF t
    <2>5. u.ups[u.day].exists = TRUE
      BY <1>1, <2>3 DEF Sound, Writing
    <2>6. ASSUME NEW d \in t.owes
          PROVE  d <= t.last /\ (d < t.day => t.ups[d].exists = TRUE)
      <3>1. d \in Int /\ d <= u.last /\ (d < u.day => u.ups[d].exists = TRUE)
        BY <1>1, <2>2, <2>3 DEF Current
      <3>2. u.day \in Int
        BY <2>3, <2>4
      <3>3. CASE d < u.day
        BY <2>2, <2>4, <3>1, <3>3
      <3>4. CASE d = u.day
        BY <2>2, <2>4, <2>5, <3>1, <3>4
      <3>5. CASE d > u.day
        BY <2>4, <3>1, <3>2, <3>5
      <3>6. d < u.day \/ d = u.day \/ d > u.day
        BY <3>1, <3>2
      <3> QED BY <3>3, <3>4, <3>5, <3>6
    <2>7. Current(t)
      BY <1>1, <2>2, <2>3, <2>6 DEF Current
    <2> QED BY <1>2, <2>1, <2>2, <2>7, FreshAdvance
  <1> QED BY <1>3, <1>4, <1>5

\* A session that ends leaves no day behind but those that wait.
LEMMA FreshEnd ==
  ASSUME OneSession, FreshInv, PenaltyInv', NEW s \in Sessions,
         sess' = [sess EXCEPT ![s] = Idle], UNCHANGED <<facts, today, hour, worth>>,
         queue' \in [Days -> Nat], \A d \in Days : ~Behind(d)'
  PROVE  FreshInv'
  <1>1. \A r \in Sessions : sess'[r] = Idle
    BY DEF OneSession, FreshInv, PenaltyInv, SumInv
  <1>2. /\ Idle.kind = "idle" /\ Idle.phase = "idle" /\ Idle.owes = {}
        /\ \A d \in Days : Idle.ups[d].exists = FALSE
    BY DEF Idle, NoAccrual
  <1>3. ASSUME NEW r \in Sessions PROVE Current(sess[r])'
    <2>1. sess'[r] = Idle
      BY <1>1
    <2> QED BY <1>2, <2>1 DEF Current
  <1>4. (\A d \in Days : Earned(facts[d], d) \in worth[d])'
    BY DEF FreshInv, Earned, Base, Overtime, Worked
  <1> QED BY <1>3, <1>4 DEF FreshInv

\* Enqueue leaves a task of the day queued.
LEMMA Enqueued ==
  ASSUME queue \in [Days -> Nat], NEW d \in Days, Enqueue(d)
  PROVE  /\ queue' \in [Days -> Nat] /\ queue'[d] > 0
         /\ \A e \in Days : queue'[e] >= queue[e]
  BY QueueAssumption DEF Enqueue

\* Days do not stop waiting while a session ends: a task that is retried is in
\* the queue again, and what was owed by a session that is given up is missed.
LEMMA StillWaiting ==
  ASSUME FreshInv, NEW s \in Sessions, Commit(s) \/ Abort(s)
  PROVE  /\ queue' \in [Days -> Nat]
         /\ \A d \in Days : Waiting(d) => Waiting(d)'
         /\ Abort(s) => \A d \in sess[s].owes : Waiting(d)'
  <1>1. Sound(sess[s]) /\ Current(sess[s]) /\ queue \in [Days -> Nat]
    BY DEF FreshInv, PenaltyInv, SumInv
  <1>2. \/ queue' = queue
        \/ Enqueue(sess[s].day)
    BY DEF Commit, Abort, Requeue
  <1>3. queue' \in [Days -> Nat] /\ \A d \in Days : queue'[d] >= queue[d]
    BY <1>1, <1>2, Enqueued DEF Sound
  <1>4. missed \subseteq missed'
    BY DEF Commit, Abort
  <1>5. \A d \in Days : Waiting(d) => Waiting(d)'
    BY <1>1, <1>3, <1>4 DEF Waiting
  <1>6. ASSUME Abort(s), NEW d \in sess[s].owes PROVE Waiting(d)'
    <2>1. CASE Requeue(s)
      <3>1. d = sess[s].day /\ d \in Days
        BY <1>1, <1>6, <2>1 DEF Requeue, Current
      <3>2. queue'[d] > 0
        BY <1>1, <2>1, <3>1, Enqueued DEF Requeue
      <3> QED BY <3>2 DEF Waiting
    <2>2. CASE missed' = missed \cup sess[s].owes
      BY <1>6, <2>2 DEF Waiting
    <2> QED BY <1>6, <2>1, <2>2 DEF Abort
  <1> QED BY <1>3, <1>5, <1>6

LEMMA FreshCommit ==
  ASSUME OneSession, FreshInv, PenaltyInv', NEW s \in Sessions, Commit(s)
  PROVE  FreshInv'
  <1> DEFINE t == sess[s]
  <1>1. Sound(t) /\ Current(t) /\ t.phase = "flush" /\ t.day = t.last
    BY DEF FreshInv, PenaltyInv, SumInv, Commit, Ready
  <1>2. /\ sess' = [sess EXCEPT ![s] = Idle] /\ accrual' = Written(t)
        /\ UNCHANGED <<facts, today, hour, worth>>
    BY DEF Commit
  <1>3. ASSUME NEW d \in Days PROVE ~Behind(d)'
    <2>1. CASE t.ups[d].exists = TRUE
      BY <1>1, <1>2, <2>1, StillWaiting DEF Current, Behind, Written
    <2>2. CASE t.ups[d].exists = FALSE
      <3>1. accrual'[d] = accrual[d]
        BY <1>2, <2>2 DEF Written
      <3>2. d # t.day /\ t.day \in Int /\ d \in Int
        BY <1>1, <2>2, DaysAssumption DEF Sound, Writing, Days
      <3>3. d \notin t.owes
        BY <1>1, <2>2, <3>2 DEF Current
      <3>4. ~Behind(d)
        BY <3>3 DEF FreshInv, OneSession
      <3> QED BY <1>2, <3>1, <3>4, StillWaiting DEF Behind
    <2> QED BY <1>1, <2>1, <2>2 DEF Current
  <1> QED BY <1>2, <1>3, StillWaiting, FreshEnd

LEMMA FreshAbort ==
  ASSUME OneSession, FreshInv, PenaltyInv', NEW s \in Sessions, Abort(s)
  PROVE  FreshInv'
  <1>1. /\ sess' = [sess EXCEPT ![s] = Idle]
        /\ UNCHANGED <<facts, today, hour, accrual, worth>>
    BY DEF Abort
  <1>2. ASSUME NEW d \in Days PROVE ~Behind(d)'
    <2>1. CASE d \in sess[s].owes
      BY <2>1, StillWaiting DEF Behind
    <2>2. CASE d \notin sess[s].owes
      <3>1. ~Behind(d)
        BY <2>2 DEF FreshInv, OneSession
      <3> QED BY <1>1, <3>1, StillWaiting DEF Behind
    <2> QED BY <2>1, <2>2
  <1> QED BY <1>1, <1>2, StillWaiting, FreshEnd

\* An edit leaves its day waiting, by the task it queues or because it is missed.
LEMMA EditWaits ==
  ASSUME FreshInv, NEW d \in Days, NEW f \in Facts, Edit(d, f) \/ EditSilently(d, f)
  PROVE  /\ facts' = [facts EXCEPT ![d] = f] /\ f \in Fact
         /\ facts' \in [Days -> Fact] /\ queue' \in [Days -> Nat]
         /\ Waiting(d)' /\ \A e \in Days : Waiting(e) => Waiting(e)'
  <1>1. /\ queue \in [Days -> Nat] /\ facts \in [Days -> Fact] /\ f \in Fact
    BY FactsAssumption DEF FreshInv, Fact
  <1>2. facts' = [facts EXCEPT ![d] = f]
    BY DEF Edit, EditSilently, Change
  <1>3. ASSUME Edit(d, f)
        PROVE  /\ queue' \in [Days -> Nat] /\ Waiting(d)'
               /\ \A e \in Days : Waiting(e) => Waiting(e)'
    <2>1. /\ queue' \in [Days -> Nat] /\ queue'[d] > 0 /\ missed' = missed
          /\ \A e \in Days : queue'[e] >= queue[e]
      BY <1>1, <1>3, Enqueued DEF Edit
    <2>2. \A e \in Days : queue[e] > 0 => queue'[e] > 0
      BY <1>1, <2>1
    <2> QED BY <2>1, <2>2 DEF Waiting
  <1>4. ASSUME EditSilently(d, f)
        PROVE  /\ queue' \in [Days -> Nat] /\ Waiting(d)'
               /\ \A e \in Days : Waiting(e) => Waiting(e)'
    <2>1. queue' = queue /\ missed' = missed \cup {d}
      BY <1>4 DEF EditSilently
    <2> QED BY <1>1, <1>2, <2>1 DEF Waiting
  <1>5. facts' \in [Days -> Fact]
    BY <1>1, <1>2
  <1> QED BY <1>1, <1>2, <1>3, <1>4, <1>5

LEMMA FreshEdit ==
  ASSUME OneSession, FreshInv, PenaltyInv', NEW d \in Days, NEW f \in Facts,
         Edit(d, f) \/ EditSilently(d, f)
  PROVE  FreshInv'
  <1>1. /\ facts' = [facts EXCEPT ![d] = f] /\ facts \in [Days -> Fact]
        /\ worth = [e \in Days |-> worth[e]]
        /\ worth' = [worth EXCEPT ![d] = {Earned(f, d)}]
        /\ UNCHANGED <<sess, accrual, today, hour>>
    BY DEF Edit, EditSilently, Change, FreshInv
  <1>2. /\ facts'[d] = f /\ worth'[d] = {Earned(f, d)}
        /\ worth' = [e \in Days |-> worth'[e]]
        /\ \A e \in Days : e # d => facts'[e] = facts[e] /\ worth'[e] = worth[e]
    BY <1>1
  <1>3. ASSUME NEW s \in Sessions PROVE Current(sess[s])'
    <2>1. Current(sess[s]) /\ sess[s].day \in Days /\ sess'[s] = sess[s]
      BY <1>1 DEF FreshInv, PenaltyInv, SumInv, Sound
    <2> QED BY <1>2, <2>1, EditWaits DEF Current
  <1>4. ASSUME NEW e \in Days, Behind(e)' PROVE Behind(e)
    <2>1. e # d
      BY <1>4, EditWaits DEF Behind
    <2> QED BY <1>1, <1>2, <1>4, <2>1, EditWaits DEF Behind
  <1>5. (\A e \in Days : Behind(e) => \E s \in Sessions : e \in sess[s].owes)'
    BY <1>1, <1>4 DEF FreshInv
  <1>6. ASSUME NEW e \in Days PROVE (Earned(facts[e], e) \in worth[e])'
    <2>1. \A g : Earned(g, e)' = Earned(g', e)
      BY <1>1 DEF Earned, Base, Overtime, Worked
    <2>2. Earned(facts[e], e) \in worth[e]
      BY DEF FreshInv
    <2> QED BY <1>2, <2>1, <2>2
  <1> QED BY <1>2, <1>3, <1>5, <1>6, EditWaits DEF FreshInv

\* The clock adds what the day is worth now to what it has been worth.
LEMMA FreshPass ==
  ASSUME FreshInv, PenaltyInv', Tick \/ Midnight
  PROVE  FreshInv'
  <1>1. /\ UNCHANGED <<facts, accrual, queue, sess, missed>>
        /\ worth' = [d \in Days |-> worth[d] \cup {Earned(facts[d], d)'}]
    BY DEF Tick, Midnight, Pass
  <1>2. worth' = [d \in Days |-> worth'[d]]
    BY <1>1
  <1>3. \A d \in Days : worth[d] \subseteq worth'[d] /\ Earned(facts[d], d)' \in worth'[d]
    BY <1>1
  <1>4. ASSUME NEW s \in Sessions PROVE Current(sess[s])'
    <2>1. Current(sess[s]) /\ sess[s].day \in Days /\ sess'[s] = sess[s]
      BY <1>1 DEF FreshInv, PenaltyInv, SumInv, Sound
    <2> QED BY <1>1, <1>3, <2>1 DEF Current, Waiting
  <1>5. ASSUME NEW d \in Days, Behind(d)' PROVE Behind(d)
    BY <1>1, <1>3, <1>5 DEF Behind, Waiting
  <1>6. (\A d \in Days : Behind(d) => \E s \in Sessions : d \in sess[s].owes)'
    BY <1>1, <1>5 DEF FreshInv
  <1> QED BY <1>1, <1>2, <1>3, <1>4, <1>6 DEF FreshInv

\* A recompute that begins owes the days it has taken from the queue or from
\* those that were missed.
LEMMA BeginOwes ==
  ASSUME NEW s \in Sessions, sess = [r \in Sessions |-> sess[r]], queue \in [Days -> Nat],
         NEW kind, NEW first \in Days, NEW last \in Days, Begin(s, kind, first, last),
         kind = "task" => first = last,
         \/ queue' = queue
         \/ kind = "task" /\ queue[first] > 0 /\ queue' = [queue EXCEPT ![first] = @ - 1]
  PROVE  /\ sess'[s] = Begun(kind, first, last) /\ queue' \in [Days -> Nat]
         /\ \A d \in Days : Waiting(d) => Waiting(d)' \/ d \in sess'[s].owes
  <1>1. sess'[s] = Begun(kind, first, last) /\ missed' = missed \ (first..last)
    BY DEF Begin
  <1>2. sess'[s].owes = (first..last) \cap (IF kind = "task" THEN Days ELSE missed)
    BY <1>1 DEF Begun, Idle
  <1>3. queue' \in [Days -> Nat] /\ \A d \in Days : (kind = "task" /\ d = first) \/ queue'[d] = queue[d]
    OBVIOUS
  <1>4. first \in first..first
    BY DaysAssumption DEF Days
  <1>5. ASSUME NEW d \in Days, Waiting(d) PROVE Waiting(d)' \/ d \in sess'[s].owes
    <2>1. CASE kind = "task" /\ d = first
      BY <1>2, <1>4, <2>1
    <2>2. CASE ~(kind = "task" /\ d = first)
      <3>1. kind = "task" => d \notin first..last
        BY <2>2, DaysAssumption DEF Days
      <3> QED BY <1>1, <1>2, <1>3, <1>5, <2>2, <3>1 DEF Waiting
    <2> QED BY <2>1, <2>2
  <1> QED BY <1>1, <1>3, <1>5

LEMMA FreshBegin ==
  ASSUME OneSession, FreshInv, PenaltyInv', NEW s \in Sessions,
         NEW kind, NEW first \in Days, NEW last \in Days, Begin(s, kind, first, last),
         kind = "task" => first = last,
         \/ queue' = queue
         \/ kind = "task" /\ queue[first] > 0 /\ queue' = [queue EXCEPT ![first] = @ - 1]
  PROVE  FreshInv'
  <1> DEFINE t == Begun(kind, first, last)
  <1>1. /\ sess = [r \in Sessions |-> sess[r]] /\ queue \in [Days -> Nat]
        /\ sess[s] = Idle /\ UNCHANGED <<facts, today, hour, accrual, worth>>
    BY DEF Begin, FreshInv, PenaltyInv, SumInv
  <1>2. /\ sess'[s] = t /\ queue' \in [Days -> Nat]
        /\ \A d \in Days : Waiting(d) => Waiting(d)' \/ d \in sess'[s].owes
    BY <1>1, BeginOwes
  <1>3. /\ t.kind = kind /\ t.phase = "LATE" /\ t.day = first /\ t.last = last
        /\ \A d \in Days : t.ups[d].exists = FALSE
        /\ t.owes = (first..last) \cap (IF kind = "task" THEN Days ELSE missed)
    BY DEF Begun, Idle, NoAccrual
  <1> HIDE DEF t
  <1>4. first \in Int /\ last \in Int /\ first..last \subseteq Days
    BY DaysAssumption DEF Days
  <1>5. ASSUME NEW r \in Sessions PROVE Current(sess[r])'
    <2>1. sess'[r] = t
      BY <1>2 DEF OneSession
    <2>2. /\ t.owes \subseteq Days /\ \A d \in t.owes : d <= t.last /\ ~(d < t.day)
          /\ t.kind = "task" => t.owes \subseteq {t.day}
      BY <1>3, <1>4
    <2> QED BY <1>3, <2>1, <2>2 DEF Current
  <1>6. \A d \in Days : ~Behind(d)
    BY <1>1 DEF FreshInv, OneSession, Idle
  <1>7. \A d \in Days : Behind(d)' => d \in sess'[s].owes
    BY <1>1, <1>2, <1>6 DEF Behind
  <1>8. (\A d \in Days : Behind(d) => \E r \in Sessions : d \in sess[r].owes)'
    BY <1>7
  <1>9. (\A d \in Days : Earned(facts[d], d) \in worth[d])'
    BY <1>1 DEF FreshInv, Earned, Base, Overtime, Worked
  <1> QED BY <1>1, <1>2, <1>5, <1>8, <1>9 DEF FreshInv

LEMMA FreshStep ==
  ASSUME OneSession, FreshInv, [Next]_vars
  PROVE  FreshInv'
  <1>1. PenaltyInv'
    BY PenaltyStep DEF FreshInv
  <1>2. 1 \in Days /\ LastDay \in Days
    BY DaysAssumption DEF Days
  <1>3. ASSUME NEW s \in Sessions, NEW d \in Days, StartTask(s, d) \/ StartRequest(s, d)
        PROVE  FreshInv'
    BY <1>1, <1>3, FreshBegin DEF StartTask, StartRequest
  <1>4. ASSUME NEW s \in Sessions, StartSummary(s) \/ StartClose(s)
        PROVE  FreshInv'
    BY <1>1, <1>2, <1>4, FreshBegin DEF StartSummary, StartClose
  <1>5. ASSUME NEW s \in Sessions, Excuse(s) \/ Sweep(s) \/ Delete(s) \/ Price(s)
        PROVE  FreshInv'
    BY <1>1, <1>5, FreshSweeps
  <1>6. ASSUME NEW s \in Sessions, Upsert(s) \/ Create(s) \/ NextDay(s)
        PROVE  FreshInv'
    BY <1>1, <1>6, FreshWrites
  <1>7. ASSUME NEW s \in Sessions, Commit(s) \/ Abort(s)
        PROVE  FreshInv'
    BY <1>1, <1>7, FreshCommit, FreshAbort
  <1>8. ASSUME NEW d \in Days, NEW f \in Facts, Edit(d, f) \/ EditSilently(d, f)
        PROVE  FreshInv'
    BY <1>1, <1>8, FreshEdit
  <1>9. CASE Tick \/ Midnight
    BY <1>1, <1>9, FreshPass
  <1>10. CASE UNCHANGED vars
    <2>1. UNCHANGED <<facts, today, hour, accrual, queue, sess, missed, worth>>
      BY <1>10 DEF vars
    <2> QED BY <1>1, <2>1 DEF FreshInv, Current, Behind, Waiting, Earned, Base,
                              Overtime, Worked
  <1> QED BY <1>3, <1>4, <1>5, <1>6, <1>7, <1>8, <1>9, <1>10 DEF Next

\* With one session at a time, a day of which no edit was missed and no recompute
\* is queued or running has an accrual of what it was worth at some moment since
\* it was last edited, whatever was edited while a task ran, redelivered, retried,
\* given up and taken over by a later one, or dropped as one too many.
THEOREM EarnedCurrent ==
  ASSUME OneSession
  PROVE  Spec => []EarnedFresh
  <1>1. FreshInv => EarnedFresh
    <2> SUFFICES ASSUME FreshInv, NEW d \in Days, Settled(d)
                 PROVE  accrual[d].earned \in worth[d]
      BY DEF EarnedFresh
    <2>1. (\A s \in Sessions : sess[s].owes = {}) /\ queue[d] \in Nat
      BY DEF Settled, Idle, FreshInv
    <2>2. ~Behind(d)
      BY <2>1 DEF FreshInv
    <2> QED BY <2>1, <2>2 DEF Behind, Settled, Waiting
  <1>2. FreshInv /\ [Next]_vars => FreshInv'
    BY FreshStep
  <1> QED BY <1>1, <1>2, FreshInit, PTL DEF Spec

(***************************************************************************)
(* The sums of the code.                                                   *)
(***************************************************************************)

\* A sum of naturals is one.
LEMMA OwedNat ==
  ASSUME NEW rows, IsFiniteSet(rows), \A x \in rows : x.amount \in Nat
  PROVE  Owed(rows) \in Nat
  <1> DEFINE w == [x \in rows |-> x.amount]
             g == CHOOSE g : Sums(g, w, rows)
             f == CHOOSE f : f = [s \in SUBSET rows |->
                     IF s = {} THEN 0 ELSE Pick(s).amount + f[s \ {Pick(s)}]]
  <1>1. w \in [rows -> Nat] /\ w \in [rows -> Int] /\ Nat \in {Int, Nat}
    OBVIOUS
  <1>2. \A h : Sums(h, w, rows) <=>
           h = [s \in SUBSET rows |->
                  IF s = {} THEN 0 ELSE Pick(s).amount + h[s \ {Pick(s)}]]
    <2> SUFFICES ASSUME NEW h
          PROVE [s \in SUBSET rows |-> IF s = {} THEN 0 ELSE w[Pick(s)] + h[s \ {Pick(s)}]]
                = [s \in SUBSET rows |-> IF s = {} THEN 0 ELSE Pick(s).amount + h[s \ {Pick(s)}]]
      BY DEF Sums
    <2>1. \A s \in SUBSET rows : s # {} => w[Pick(s)] = Pick(s).amount
      BY DEF Pick
    <2> HIDE DEF w
    <2> QED BY <2>1
  <1>3. \E h : Sums(h, w, rows)
    BY <1>1, SumExists
  <1>4. Sums(f, w, rows)
    <2> HIDE DEF w
    <2> QED BY <1>2, <1>3
  <1>5. f[rows] \in Nat
    <2> HIDE DEF f, w
    <2> QED BY <1>1, <1>4, SumTyped
  <1>6. Owed(rows) = f[rows]
    BY DEF Owed, MapThenSumSet, MapThenFoldSet, Pick
  <1> QED BY <1>5, <1>6

\* What is owed for one penalty, and for none.
LEMMA OwedOne ==
  ASSUME NEW x, x.amount \in Int
  PROVE  Owed({x}) = x.amount
  <1> DEFINE Is(h) == h = [s \in SUBSET {x} |->
                     IF s = {} THEN 0 ELSE Pick(s).amount + h[s \ {Pick(s)}]]
             f == CHOOSE f : Is(f)
             g == [s \in SUBSET {x} |-> IF s = {} THEN 0 ELSE x.amount]
  <1>1. /\ \A s \in SUBSET {x} : s # {} => Pick(s) = x /\ s \ {Pick(s)} = {}
        /\ {} \in SUBSET {x} /\ {x} \in SUBSET {x}
    BY DEF Pick
  <1>2. Is(g)
    BY <1>1
  <1>3. Is(f)
    <2> HIDE DEF Is, g
    <2> QED BY <1>2
  <1>4. f[{x}] = x.amount
    <2> HIDE DEF f
    <2>1. f[{}] = 0 /\ f[{x}] = Pick({x}).amount + f[{x} \ {Pick({x})}]
      BY <1>1, <1>3
    <2>2. Pick({x}) = x /\ {x} \ {Pick({x})} = {}
      BY <1>1
    <2>3. f[{x}] = x.amount + f[{}]
      BY <2>1, <2>2, Zenon
    <2>4. x.amount + 0 = x.amount
      OBVIOUS
    <2> QED BY <2>1, <2>3, <2>4
  <1>5. Owed({x}) = f[{x}]
    BY DEF Owed, MapThenSumSet, MapThenFoldSet, Pick
  <1> QED BY <1>4, <1>5

LEMMA OwedNone == Owed({}) = 0
  <1> DEFINE g == [s \in SUBSET {} |-> 0]
  <1>1. \A s \in SUBSET {} : s = {}
    OBVIOUS
  <1> QED BY <1>1 DEF Owed, MapThenSumSet, MapThenFoldSet

(***************************************************************************)
(* The LATE penalty.                                                       *)
(***************************************************************************)

LateRows(rows, d) == {x \in rows : x.day = d /\ x.type = "LATE"}

\* The rows show the lateness of the day, or none is looked for: it is excused,
\* or it waits for a recompute.
Shows(rows, d) ==
  \/ Waiting(d) \/ Excused(facts[d])
  \/ /\ \A x \in LateRows(rows, d) : x.amount = LateDue(facts[d])
     /\ LateDue(facts[d]) > 0 => LateRows(rows, d) # {}

\* The transaction has passed the LATE sweep of the day.
SweptDay(t, d) ==
  t.ups[d].exists = TRUE \/ (d = t.day /\ t.phase \notin {"idle", "LATE"})

\* It leaves the days it has swept as they should be and the others as they are.
LateKept(t) ==
  /\ \A x \in t.gone \cup t.made : x.day \in Days /\ SweptDay(t, x.day)
  /\ \A d \in Days : SweptDay(t, d) => Shows(After(t), d)

LateInv ==
  /\ FreshInv
  /\ \A s \in Sessions : LateKept(sess[s])
  /\ \A d \in Days :
       \/ Shows(autos, d)
       \/ \E s \in Sessions : d \in sess[s].owes

LEMMA IdleLateKept == LateKept(Idle)
  <1>1. Idle.phase = "idle" /\ Idle.gone = {} /\ Idle.made = {}
        /\ \A d \in Days : Idle.ups[d].exists = FALSE
    BY DEF Idle, NoAccrual
  <1> QED BY <1>1 DEF LateKept, SweptDay

LEMMA LateInit == Init => LateInv
  <1> SUFFICES ASSUME Init PROVE LateInv
    OBVIOUS
  <1>1. ASSUME NEW d \in Days PROVE Shows(autos, d)
    <2>1. autos = {} /\ LateDue(facts[d]) = 0
      BY DEF Init, Blank, LateDue
    <2> QED BY <2>1 DEF Shows, LateRows
  <1>2. \A s \in Sessions : LateKept(sess[s])
    BY IdleLateKept DEF Init
  <1> QED BY <1>1, <1>2, FreshInit DEF LateInv

\* What is shown depends on the LATE rows of the day alone.
LEMMA ShowsSame ==
  ASSUME NEW d, NEW rows, Shows(rows, d), NEW more, LateRows(more, d) = LateRows(rows, d)
  PROVE  Shows(more, d)
  BY DEF Shows

\* A step of the only session that commits nothing and goes on with what it owes.
LEMMA LateAdvance ==
  ASSUME OneSession, LateInv, FreshInv', NEW s \in Sessions, NEW t, LateKept(t),
         t.owes = sess[s].owes,
         sess' = [sess EXCEPT ![s] = t], UNCHANGED <<facts, queue, missed, autos>>
  PROVE  LateInv'
  <1>1. sess'[s] = t /\ \A r \in Sessions : r = s
    BY DEF OneSession, LateInv, FreshInv, PenaltyInv, SumInv
  <1>2. \A r \in Sessions : LateKept(sess[r])'
    BY <1>1 DEF LateKept, Shows, After, SweptDay, Waiting
  <1>3. ASSUME NEW d \in Days
        PROVE  (\/ Shows(autos, d)
                \/ \E r \in Sessions : d \in sess[r].owes)'
    <2>1. Shows(autos, d) => Shows(autos, d)'
      BY DEF Shows, Waiting
    <2> QED BY <1>1, <2>1 DEF LateInv
  <1> QED BY <1>2, <1>3 DEF LateInv

\* A statement past the sweep that leaves the penalties.
LEMMA LateKeptOn ==
  ASSUME NEW t, LateKept(t), NEW u, u.made = t.made, u.gone = t.gone,
         \A d \in Days : SweptDay(u, d) <=> SweptDay(t, d)
  PROVE  LateKept(u)
  <1>1. After(u) = After(t)
    BY DEF After
  <1> QED BY <1>1 DEF LateKept

\* A LATE penalty is generated when there is a fine, for its amount.
LEMMA GeneratedLate ==
  ASSUME NEW f, NEW d
  PROVE  /\ \A x \in Generated(f, d, "LATE") : x.amount = LateDue(f)
         /\ LateDue(f) > 0 => Generated(f, d, "LATE") # {}
  <1> DEFINE row == [id |-> FreshId(d, "LATE"), day |-> d, type |-> "LATE",
                     amount |-> Due(f, d, "LATE")]
  <1>1. row.amount = LateDue(f)
    BY DEF Due
  <1>2. Generated(f, d, "LATE") = {x \in {row} : x.amount > 0}
    BY DEF Generated
  <1> HIDE DEF row
  <1> QED BY <1>1, <1>2

\* A sweep of the LATE penalties leaves the one that is due, a sweep of the
\* others leaves it alone.
LEMMA SweptLateKept ==
  ASSUME NEW s \in Sessions, Sound(sess[s]), Replaces(sess[s]), LateKept(sess[s]),
         sess[s].phase \in Types, facts[sess[s].day] \in Fact,
         NEW doomed, doomed = {x \in Visible(s, sess[s].day) : x.type = sess[s].phase}
  PROVE  LateKept(Swept(s, doomed))
  <1> DEFINE t == sess[s]
             f == facts[t.day]
             new == Generated(f, t.day, t.phase)
             u == Swept(s, doomed)
  <1>1. /\ u.gone = t.gone \cup (doomed \cap autos)
        /\ u.made = t.made \cup new /\ u.day = t.day /\ u.ups = t.ups
        /\ u.phase = IF t.phase = "LATE" THEN "ABSENCE" ELSE "price"
    BY DEF Sound, Fields, Swept
  <1>2. /\ \A x \in new : x.day = t.day /\ x.type = t.phase
        /\ \A x \in doomed : x.day = t.day /\ x.type = t.phase
    BY DEF Generated, Visible, On
  <1>3. t.day \in Days /\ t.phase \in {"LATE", "ABSENCE"}
    BY DEF Sound, Types
  <1>4. ASSUME t.phase = "LATE"
        PROVE  (\A x \in new : x.amount = LateDue(f)) /\ (LateDue(f) > 0 => new # {})
    BY <1>4, GeneratedLate
  <1>5. \A y \in autos : y.day = t.day /\ y.type = t.phase => y \in u.gone
    BY <1>1 DEF Visible, On
  <1>6. \A d \in Days : SweptDay(u, d) <=> SweptDay(t, d) \/ d = t.day
    BY <1>1, <1>3 DEF SweptDay
  <1> HIDE DEF u, new
  <1>7. \A x \in u.gone \cup u.made : x.day \in Days /\ SweptDay(u, x.day)
    BY <1>1, <1>2, <1>3, <1>6 DEF LateKept
  <1>8. ASSUME NEW d \in Days, SweptDay(u, d)
        PROVE  Shows(After(u), d)
    <2>1. CASE d = t.day /\ t.phase = "LATE"
      <3>1. \A x \in t.made : ~(x.day = t.day /\ x.type = "LATE")
        BY <1>3, <2>1 DEF Replaces
      <3>2. LateRows(After(u), t.day) = new
        BY <1>1, <1>2, <1>5, <2>1, <3>1 DEF LateRows, After
      <3> QED BY <1>4, <2>1, <3>2 DEF Shows
    <2>2. CASE ~(d = t.day /\ t.phase = "LATE")
      <3>1. LateRows(After(u), d) = LateRows(After(t), d)
        BY <1>1, <1>2, <1>3, <2>2 DEF LateRows, After
      <3>2. SweptDay(t, d)
        BY <1>3, <1>6, <1>8, <2>2 DEF SweptDay
      <3> QED BY <3>1, <3>2, ShowsSame DEF LateKept
    <2> QED BY <2>1, <2>2
  <1> QED BY <1>7, <1>8 DEF LateKept, u

LEMMA LateSweeps ==
  ASSUME OneSession, LateInv, FreshInv', NEW s \in Sessions,
         Excuse(s) \/ Sweep(s) \/ Delete(s) \/ Price(s)
  PROVE  LateInv'
  <1>1. /\ Sound(sess[s]) /\ Replaces(sess[s]) /\ LateKept(sess[s])
        /\ facts \in [Days -> Fact]
    BY DEF LateInv, FreshInv, PenaltyInv, SumInv
  <1>2. CASE Excuse(s)
    <2> DEFINE t == [sess[s] EXCEPT !.seen = facts[sess[s].day], !.phase = "price"]
    <2>1. /\ sess' = [sess EXCEPT ![s] = t] /\ UNCHANGED <<facts, queue, missed, autos>>
          /\ sess[s].phase = "LATE" /\ Excused(facts[sess[s].day])
      BY <1>2 DEF Excuse, Step, Ready
    <2>2. /\ t.made = sess[s].made /\ t.gone = sess[s].gone /\ t.owes = sess[s].owes
          /\ t.day = sess[s].day /\ t.ups = sess[s].ups /\ t.phase = "price"
      BY <1>1 DEF Sound, Fields
    <2> HIDE DEF t
    <2>3. After(t) = After(sess[s])
      BY <2>2 DEF After
    <2>4. \A d \in Days : SweptDay(t, d) <=> SweptDay(sess[s], d) \/ d = sess[s].day
      BY <1>1, <2>2 DEF SweptDay
    <2>5. \A rows : Shows(rows, sess[s].day)
      BY <2>1 DEF Shows
    <2>6. LateKept(t)
      BY <1>1, <2>2, <2>3, <2>4, <2>5 DEF LateKept
    <2> QED BY <2>1, <2>2, <2>6, LateAdvance
  <1>3. CASE Sweep(s)
    <2> DEFINE doomed == {x \in Visible(s, sess[s].day) : x.type = sess[s].phase}
               t == Swept(s, doomed)
    <2>1. ~ \E r \in Sessions \ {s} : sess[r].gone \cap doomed # {}
      BY DEF OneSession
    <2>2. /\ sess' = [sess EXCEPT ![s] = t] /\ UNCHANGED <<facts, queue, missed, autos>>
          /\ sess[s].phase \in Types
      BY <1>3, <2>1 DEF Sweep, Step
    <2>3. facts[sess[s].day] \in Fact
      BY <1>1 DEF Sound
    <2>4. LateKept(t)
      BY <1>1, <2>2, <2>3, SweptLateKept
    <2>5. t.owes = sess[s].owes
      BY <1>1 DEF Sound, Fields, Swept
    <2> HIDE DEF t
    <2> QED BY <2>2, <2>4, <2>5, LateAdvance
  <1>4. CASE Delete(s)
    BY <1>1, <1>4 DEF Delete, Replaces
  <1>5. CASE Price(s)
    <2>1. PICK priced :
            /\ sess' = [sess EXCEPT ![s] =
                 [sess[s] EXCEPT !.priced = priced, !.seen = Blank, !.phase = "upsert"]]
            /\ UNCHANGED <<facts, queue, missed, autos>>
      BY <1>5 DEF Price, Step
    <2> DEFINE t == [sess[s] EXCEPT !.priced = priced, !.seen = Blank, !.phase = "upsert"]
    <2>2. /\ t.made = sess[s].made /\ t.gone = sess[s].gone /\ t.owes = sess[s].owes
          /\ t.day = sess[s].day /\ t.ups = sess[s].ups /\ t.phase = "upsert"
      BY <1>1 DEF Sound, Fields
    <2>3. sess' = [sess EXCEPT ![s] = t]
      BY <2>1
    <2>4. sess[s].phase = "price"
      BY <1>5 DEF Price, Ready
    <2> HIDE DEF t
    <2>5. \A d \in Days : SweptDay(t, d) <=> SweptDay(sess[s], d)
      BY <2>2, <2>4 DEF SweptDay
    <2>6. LateKept(t)
      BY <1>1, <2>2, <2>5, LateKeptOn
    <2> QED BY <2>1, <2>2, <2>3, <2>6, LateAdvance
  <1> QED BY <1>2, <1>3, <1>4, <1>5

\* The writes of the accruals leave the penalties.
LEMMA LateWrites ==
  ASSUME OneSession, LateInv, FreshInv', NEW s \in Sessions,
         Upsert(s) \/ Create(s) \/ NextDay(s)
  PROVE  LateInv'
  <1>1. Sound(sess[s]) /\ Current(sess[s]) /\ LateKept(sess[s])
    BY DEF LateInv, FreshInv, PenaltyInv, SumInv
  <1>2. UNCHANGED <<facts, queue, missed, autos>>
    BY DEF Upsert, Create, NextDay, Step
  <1>3. CASE Upsert(s)
    <2>1. PICK t :
            /\ sess' = [sess EXCEPT ![s] = t]
            /\ t \in {Refreshed(s, Upserted(s)), [Upserted(s) EXCEPT !.phase = "create"]}
      BY <1>3 DEF Upsert, Step
    <2>2. /\ t.made = sess[s].made /\ t.gone = sess[s].gone
          /\ t.day = sess[s].day /\ t.owes = sess[s].owes
          /\ t.phase \in {"create", "flush"}
          /\ t.ups = [sess[s].ups EXCEPT ![sess[s].day] = sess[s].priced]
      BY <1>1, <2>1 DEF Sound, Fields, Refreshed, Upserted
    <2>3. sess[s].phase = "upsert" /\ sess[s].day \in Days
      BY <1>1, <1>3 DEF Upsert, Ready, Sound
    <2>4. \A d \in Days : t.ups[d] = IF d = sess[s].day THEN sess[s].priced ELSE sess[s].ups[d]
      BY <1>1, <2>2 DEF Sound
    <2>5. \A d \in Days : SweptDay(t, d) <=> SweptDay(sess[s], d)
      BY <2>2, <2>3, <2>4 DEF SweptDay
    <2>6. LateKept(t)
      BY <1>1, <2>2, <2>5, LateKeptOn
    <2> QED BY <1>2, <2>1, <2>2, <2>6, LateAdvance
  <1>4. CASE Create(s)
    <2> DEFINE t == [Refreshed(s, sess[s]) EXCEPT !.created = TRUE]
    <2>1. sess' = [sess EXCEPT ![s] = t] /\ sess[s].phase = "create"
      BY <1>4 DEF Create, Step, Ready
    <2>2. /\ t.made = sess[s].made /\ t.gone = sess[s].gone /\ t.owes = sess[s].owes
          /\ t.day = sess[s].day /\ t.ups = sess[s].ups /\ t.phase = "flush"
      BY <1>1 DEF Sound, Fields, Refreshed
    <2> HIDE DEF t
    <2>3. \A d \in Days : SweptDay(t, d) <=> SweptDay(sess[s], d)
      BY <2>1, <2>2 DEF SweptDay
    <2>4. LateKept(t)
      BY <1>1, <2>2, <2>3, LateKeptOn
    <2> QED BY <1>2, <2>1, <2>2, <2>4, LateAdvance
  <1>5. CASE NextDay(s)
    <2> DEFINE u == sess[s]
               t == [u EXCEPT !.locked = @ \/ u.new # u.old, !.day = @ + 1,
                              !.phase = "LATE"]
    <2>1. sess' = [sess EXCEPT ![s] = t] /\ u.phase = "flush" /\ u.day < u.last
      BY <1>5 DEF NextDay, Step, Ready
    <2>2. /\ t.made = u.made /\ t.gone = u.gone /\ t.ups = u.ups /\ t.owes = u.owes
          /\ t.phase = "LATE"
      BY <1>1 DEF Sound, Fields
    <2>3. u.ups[u.day].exists = TRUE /\ u.day \in Days
      BY <1>1, <2>1 DEF Sound, Writing
    <2> HIDE DEF t
    <2>5. \A d \in Days : SweptDay(t, d) <=> SweptDay(u, d)
      BY <2>1, <2>2, <2>3 DEF SweptDay
    <2>6. LateKept(t)
      BY <1>1, <2>2, <2>5, LateKeptOn
    <2> QED BY <1>2, <2>1, <2>2, <2>6, LateAdvance
  <1> QED BY <1>3, <1>4, <1>5

\* A session that ends leaves every day with its LATE penalty, or waiting.
LEMMA LateEnd ==
  ASSUME OneSession, LateInv, FreshInv', NEW s \in Sessions,
         sess' = [sess EXCEPT ![s] = Idle],
         \A d \in Days : Shows(autos, d)'
  PROVE  LateInv'
  <1>1. \A r \in Sessions : sess'[r] = Idle
    BY DEF OneSession, LateInv, FreshInv, PenaltyInv, SumInv
  <1>2. Idle.phase = "idle" /\ Idle.gone = {} /\ Idle.made = {}
        /\ \A d \in Days : Idle.ups[d].exists = FALSE
    BY DEF Idle, NoAccrual
  <1>3. ASSUME NEW r \in Sessions PROVE LateKept(sess[r])'
    <2>1. sess'[r] = Idle
      BY <1>1
    <2> QED BY <1>2, <2>1 DEF LateKept, SweptDay
  <1> QED BY <1>3 DEF LateInv

\* What is committed is right for the days that were swept, all it owed among them.
LEMMA LateCommit ==
  ASSUME OneSession, LateInv, FreshInv', NEW s \in Sessions, Commit(s)
  PROVE  LateInv'
  <1> DEFINE t == sess[s]
  <1>1. /\ Sound(t) /\ LateKept(t) /\ Current(t) /\ t.phase = "flush"
        /\ t.day = t.last
    BY DEF LateInv, FreshInv, PenaltyInv, SumInv, Commit, Ready
  <1>2. /\ sess' = [sess EXCEPT ![s] = Idle] /\ facts' = facts /\ autos' = After(t)
    BY DEF Commit, After
  <1>3. \A d \in Days : Waiting(d) => Waiting(d)'
    BY StillWaiting DEF LateInv
  <1>4. ASSUME NEW d \in Days PROVE Shows(autos, d)'
    <2>1. Shows(After(t), d)
      <3>1. CASE SweptDay(t, d)
        BY <1>1, <3>1 DEF LateKept
      <3>2. CASE ~SweptDay(t, d)
        <4>1. LateRows(After(t), d) = LateRows(autos, d)
          BY <1>1, <3>2 DEF LateKept, LateRows, After
        <4>2. d # t.day /\ t.ups[d].exists # TRUE /\ t.day \in Int /\ d \in Int
          <5>1. t.day \in Days /\ Days \subseteq Int
            BY <1>1, DaysAssumption DEF Sound, Days
          <5> QED BY <1>1, <1>4, <3>2, <5>1 DEF SweptDay
        <4>3. d \notin t.owes
          <5>1. ASSUME d \in t.owes PROVE FALSE
            <6>1. d <= t.day /\ ~(d < t.day)
              BY <1>1, <4>2, <5>1 DEF Current
            <6> QED BY <4>2, <6>1
          <5> QED BY <5>1
        <4>4. Shows(autos, d)
          BY <4>3 DEF LateInv, OneSession
        <4> QED BY <4>1, <4>4, ShowsSame
      <3> QED BY <3>1, <3>2
    <2> QED BY <1>2, <1>3, <2>1 DEF Shows
  <1> QED BY <1>2, <1>4, LateEnd

\* What an aborted session owed waits again.
LEMMA LateAbort ==
  ASSUME OneSession, LateInv, FreshInv', NEW s \in Sessions, Abort(s)
  PROVE  LateInv'
  <1>1. /\ sess' = [sess EXCEPT ![s] = Idle] /\ UNCHANGED <<facts, autos>>
    BY DEF Abort
  <1>2. /\ \A d \in Days : Waiting(d) => Waiting(d)'
        /\ \A d \in sess[s].owes : Waiting(d)'
    BY StillWaiting DEF LateInv
  <1>3. ASSUME NEW d \in Days PROVE Shows(autos, d)'
    <2>1. CASE d \in sess[s].owes
      BY <1>2, <2>1 DEF Shows
    <2>2. CASE d \notin sess[s].owes
      <3>1. Shows(autos, d)
        BY <2>2 DEF LateInv, OneSession
      <3> QED BY <1>1, <1>2, <3>1 DEF Shows
    <2> QED BY <2>1, <2>2
  <1> QED BY <1>1, <1>3, LateEnd

\* An edit leaves its day waiting.
LEMMA LateEdit ==
  ASSUME OneSession, LateInv, FreshInv', NEW d \in Days, NEW f \in Facts,
         Edit(d, f) \/ EditSilently(d, f)
  PROVE  LateInv'
  <1>1. /\ Waiting(d)' /\ \A e \in Days : Waiting(e) => Waiting(e)'
        /\ facts' = [facts EXCEPT ![d] = f]
    BY EditWaits DEF LateInv
  <1>2. UNCHANGED <<sess, autos>>
    BY DEF Edit, EditSilently, Change
  <1>3. \A e \in Days : e # d => facts'[e] = facts[e]
    BY <1>1 DEF LateInv, FreshInv
  <1>4. ASSUME NEW rows, NEW e \in Days, Shows(rows, e)
        PROVE  \/ Waiting(e)' \/ Excused(facts'[e])
               \/ /\ \A x \in LateRows(rows, e) : x.amount = LateDue(facts'[e])
                  /\ LateDue(facts'[e]) > 0 => LateRows(rows, e) # {}
    BY <1>1, <1>3, <1>4 DEF Shows
  <1>5. ASSUME NEW s \in Sessions PROVE LateKept(sess[s])'
    <2>1. sess'[s] = sess[s] /\ autos' = autos /\ LateKept(sess[s])
      BY <1>2 DEF LateInv
    <2>2. ASSUME NEW e \in Days, SweptDay(sess[s], e)
          PROVE  Shows(After(sess[s]), e)'
      <3>1. Shows(After(sess[s]), e)
        BY <2>1, <2>2 DEF LateKept
      <3> DEFINE rows == After(sess[s])
      <3> HIDE DEF rows
      <3>2. Shows(rows, e)
        BY <3>1 DEF rows
      <3>3. \/ Waiting(e)' \/ Excused(facts'[e])
            \/ /\ \A x \in LateRows(rows, e) : x.amount = LateDue(facts'[e])
               /\ LateDue(facts'[e]) > 0 => LateRows(rows, e) # {}
        BY <1>4, <3>2
      <3>4. After(sess[s])' = rows
        BY <2>1 DEF After, rows
      <3> QED BY <3>3, <3>4 DEF Shows, LateRows
    <2> QED BY <1>2, <2>1, <2>2 DEF LateKept, SweptDay
  <1>6. ASSUME NEW e \in Days
        PROVE  (\/ Shows(autos, e)
                \/ \E r \in Sessions : e \in sess[r].owes)'
    BY <1>2, <1>4 DEF LateInv, Shows
  <1> QED BY <1>5, <1>6 DEF LateInv

\* A transaction that begins has swept no day.
LEMMA LateBegin ==
  ASSUME OneSession, LateInv, FreshInv', NEW s \in Sessions,
         NEW kind, NEW first \in Days, NEW last \in Days, Begin(s, kind, first, last),
         kind = "task" => first = last,
         \/ queue' = queue
         \/ kind = "task" /\ queue[first] > 0 /\ queue' = [queue EXCEPT ![first] = @ - 1]
  PROVE  LateInv'
  <1> DEFINE t == Begun(kind, first, last)
  <1>1. /\ sess = [r \in Sessions |-> sess[r]] /\ queue \in [Days -> Nat]
        /\ sess[s] = Idle /\ UNCHANGED <<facts, autos>>
    BY DEF Begin, LateInv, FreshInv, PenaltyInv, SumInv
  <1>2. /\ sess'[s] = t
        /\ \A d \in Days : Waiting(d) => Waiting(d)' \/ d \in sess'[s].owes
    BY <1>1, BeginOwes
  <1>3. /\ t.phase = "LATE" /\ t.gone = {} /\ t.made = {}
        /\ \A d \in Days : t.ups[d].exists = FALSE
    BY DEF Begun, Idle, NoAccrual
  <1> HIDE DEF t
  <1>4. ASSUME NEW r \in Sessions PROVE LateKept(sess[r])'
    <2>1. sess'[r] = t
      BY <1>2 DEF OneSession
    <2> QED BY <1>3, <2>1 DEF LateKept, SweptDay
  <1>5. \A d \in Days : Shows(autos, d)
    BY <1>1 DEF LateInv, OneSession, Idle
  <1>6. ASSUME NEW d \in Days
        PROVE  (\/ Shows(autos, d)
                \/ \E r \in Sessions : d \in sess[r].owes)'
    BY <1>1, <1>2, <1>5 DEF Shows
  <1> QED BY <1>4, <1>6 DEF LateInv

LEMMA LateStep ==
  ASSUME OneSession, LateInv, [Next]_vars
  PROVE  LateInv'
  <1>1. FreshInv'
    BY FreshStep DEF LateInv
  <1>2. 1 \in Days /\ LastDay \in Days
    BY DaysAssumption DEF Days
  <1>3. ASSUME NEW s \in Sessions, NEW d \in Days, StartTask(s, d) \/ StartRequest(s, d)
        PROVE  LateInv'
    BY <1>1, <1>3, LateBegin DEF StartTask, StartRequest
  <1>4. ASSUME NEW s \in Sessions, StartSummary(s) \/ StartClose(s)
        PROVE  LateInv'
    BY <1>1, <1>2, <1>4, LateBegin DEF StartSummary, StartClose
  <1>5. ASSUME NEW s \in Sessions, Excuse(s) \/ Sweep(s) \/ Delete(s) \/ Price(s)
        PROVE  LateInv'
    BY <1>1, <1>5, LateSweeps
  <1>6. ASSUME NEW s \in Sessions, Upsert(s) \/ Create(s) \/ NextDay(s)
        PROVE  LateInv'
    BY <1>1, <1>6, LateWrites
  <1>7. ASSUME NEW s \in Sessions, Commit(s) \/ Abort(s)
        PROVE  LateInv'
    BY <1>1, <1>7, LateCommit, LateAbort
  <1>8. ASSUME NEW d \in Days, NEW f \in Facts, Edit(d, f) \/ EditSilently(d, f)
        PROVE  LateInv'
    BY <1>1, <1>8, LateEdit
  <1>9. CASE UNCHANGED <<facts, autos, queue, missed, sess>>
    BY <1>1, <1>9 DEF LateInv, LateKept, SweptDay, After, Shows, Waiting
  <1>10. Tick \/ Midnight \/ UNCHANGED vars => UNCHANGED <<facts, autos, queue, missed, sess>>
    BY DEF Tick, Midnight, Pass, vars
  <1> QED BY <1>3, <1>4, <1>5, <1>6, <1>7, <1>8, <1>9, <1>10 DEF Next

\* With one session at a time, a day without missed edit and queued or running
\* work that is no rest day or leave has the LATE penalty of its check-in, and none
\* once the check-in is corrected: the sweep deletes the old row before
\* _autogenerate_late_deduction looks whether there is a new one.
THEOREM LateCurrent ==
  ASSUME OneSession
  PROVE  Spec => []LateFresh
  <1>1. LateInv => LateFresh
    <2> SUFFICES ASSUME LateInv, NEW d \in Days, Settled(d), ~Excused(facts[d])
                 PROVE  Owed({x \in On(autos, d) : x.type = "LATE"}) = LateDue(facts[d])
      BY DEF LateFresh
    <2> DEFINE rows == {x \in On(autos, d) : x.type = "LATE"}
    <2>1. (\A s \in Sessions : sess[s].owes = {}) /\ queue[d] \in Nat
      BY DEF Settled, Idle, LateInv, FreshInv
    <2>2. rows = LateRows(autos, d)
      BY DEF On, LateRows
    <2>3. /\ \A x \in rows : x.amount = LateDue(facts[d])
          /\ LateDue(facts[d]) > 0 => rows # {}
      BY <2>1, <2>2 DEF LateInv, Shows, Settled, Waiting
    <2>4. \A x, y \in rows : x = y
      BY DEF LateInv, FreshInv, PenaltyInv, OnePenaltyPerDay, On
    <2>5. LateDue(facts[d]) \in Nat
      BY PayAssumption DEF LateDue
    <2> HIDE DEF rows
    <2>6. ASSUME rows = {} PROVE Owed(rows) = LateDue(facts[d])
      <3>1. LateDue(facts[d]) = 0
        BY <2>3, <2>5, <2>6
      <3> QED BY <2>6, <3>1, OwedNone
    <2>7. ASSUME NEW x \in rows PROVE Owed(rows) = LateDue(facts[d])
      <3>1. rows = {x}
        BY <2>4
      <3> QED BY <2>3, <2>5, <3>1, OwedOne
    <2>8. Owed(rows) = LateDue(facts[d])
      BY <2>6, <2>7
    <2> QED BY <2>8 DEF rows
  <1>2. LateInv /\ [Next]_vars => LateInv'
    BY LateStep
  <1> QED BY <1>1, <1>2, LateInit, PTL DEF Spec

(***************************************************************************)
(* Types.                                                                  *)
(***************************************************************************)

\* A total of integers is one.
LEMMA TotalInt ==
  ASSUME NEW a, \A d \in Days : a[d].earned \in Int /\ a[d].deductions \in Int
  PROVE  Total(a) \in Int
  <1> DEFINE w == [d \in Days |-> a[d].earned - a[d].deductions]
             f == CHOOSE f : f = [s \in SUBSET Days |->
                     IF s = {} THEN 0
                     ELSE a[Pick(s)].earned - a[Pick(s)].deductions + f[s \ {Pick(s)}]]
  <1>1. w \in [Days -> Int] /\ Int \in {Int, Nat} /\ IsFiniteSet(Days)
    <2>1. IsFiniteSet(Days)
      BY DaysAssumption, FS_Interval DEF Days
    <2> QED BY <2>1
  <1>2. \A h : Sums(h, w, Days) <=>
           h = [s \in SUBSET Days |->
                  IF s = {} THEN 0
                  ELSE a[Pick(s)].earned - a[Pick(s)].deductions + h[s \ {Pick(s)}]]
    <2> SUFFICES ASSUME NEW h
          PROVE [s \in SUBSET Days |-> IF s = {} THEN 0 ELSE w[Pick(s)] + h[s \ {Pick(s)}]]
                = [s \in SUBSET Days |-> IF s = {} THEN 0
                     ELSE a[Pick(s)].earned - a[Pick(s)].deductions + h[s \ {Pick(s)}]]
      BY DEF Sums
    <2>1. \A s \in SUBSET Days : s # {} =>
            w[Pick(s)] = a[Pick(s)].earned - a[Pick(s)].deductions
      BY DEF Pick
    <2> HIDE DEF w
    <2> QED BY <2>1
  <1>3. \E h : Sums(h, w, Days)
    BY <1>1, SumExists
  <1>4. Sums(f, w, Days)
    <2> HIDE DEF w
    <2> QED BY <1>2, <1>3
  <1>5. f[Days] \in Int
    <2> HIDE DEF f, w
    <2> QED BY <1>1, <1>4, SumTyped
  <1>6. Total(a) = f[Days]
    BY DEF Total, MapThenSumSet, MapThenFoldSet, Pick
  <1> QED BY <1>5, <1>6

Penalties == {rows \in SUBSET Penalty : IsFiniteSet(rows)}

Transaction ==
  [kind: Kinds \cup {"idle"}, phase: Phases, day: Days, last: Days,
   seen: Facts \cup {Blank}, doomed: Penalties, gone: Penalties, made: Penalties,
   priced: Accrual, ups: [Days -> Accrual], old: Int, new: Int,
   created: BOOLEAN, locked: BOOLEAN, owes: SUBSET Days]

TypeInv ==
  /\ facts \in [Days -> Facts \cup {Blank}]
  /\ today \in 1..LastDay + 1 /\ hour \in 0..LastHour
  /\ autos \in Penalties
  /\ accrual \in [Days -> Accrual]
  /\ period \in [exists: BOOLEAN, total: Int]
  /\ queue \in [Days -> 0..MaxQueue]
  /\ sess \in [Sessions -> Transaction]
  /\ missed \in SUBSET Days
  /\ worth \in [Days -> SUBSET Int]

LEMMA IdleType == Idle \in Transaction
  <1>1. {} \in Penalties
    BY FS_EmptySet DEF Penalties
  <1>2. NoAccrual \in Accrual /\ 1 \in Days
    BY DaysAssumption DEF NoAccrual, Accrual, Days
  <1> QED BY <1>1, <1>2 DEF Idle, Transaction, Phases

LEMMA TypeInit == Init => TypeInv
  <1>1. {} \in Penalties
    BY FS_EmptySet DEF Penalties
  <1>2. /\ NoAccrual \in Accrual /\ 1 \in 1..LastDay + 1 /\ 0 \in 0..MaxQueue
        /\ 0 \in 0..LastHour
    BY DaysAssumption, QueueAssumption, ClockAssumption DEF NoAccrual, Accrual
  <1> QED BY <1>1, <1>2, IdleType DEF Init, TypeInv, NoPeriod

\* The new penalty has an id: of one more number than there are ids in use, one
\* is in use by none.
LEMMA FreshIdNat ==
  ASSUME IsFiniteSet(Sessions), TypeInv, NEW d, NEW type
  PROVE  FreshId(d, type) \in Nat
  <1> DEFINE adds == {sess[s].made \cup sess[s].doomed : s \in Sessions}
             rows == {y \in autos \cup UNION adds : y.day = d /\ y.type = type}
             used == {x.id : x \in rows}
             n == Cardinality(used)
             free == (1..n + 1) \ used
  <1>1. IsFiniteSet(adds)
    <2> DEFINE f == [s \in Sessions |-> sess[s].made \cup sess[s].doomed]
    <2>1. adds = {f[s] : s \in Sessions}
      OBVIOUS
    <2> HIDE DEF f, adds
    <2>2. DOMAIN f = Sessions
      BY DEF f
    <2> QED BY <2>1, <2>2, FiniteImage
  <1>2. \A a \in adds : IsFiniteSet(a)
    <2> SUFFICES ASSUME NEW s \in Sessions PROVE IsFiniteSet(sess[s].made \cup sess[s].doomed)
      OBVIOUS
    <2>1. sess[s].made \in Penalties /\ sess[s].doomed \in Penalties
      BY DEF TypeInv, Transaction
    <2> QED BY <2>1, FS_Union DEF Penalties
  <1>3. IsFiniteSet(UNION adds)
    <2> HIDE DEF adds
    <2> QED BY <1>1, <1>2, FS_UNION
  <1>4. IsFiniteSet(rows)
    <2> HIDE DEF adds
    <2>1. IsFiniteSet(autos \cup UNION adds)
      BY <1>3, FS_Union DEF TypeInv, Penalties
    <2> QED BY <2>1, FS_Subset
  <1>5. IsFiniteSet(used) /\ n \in Nat
    <2> HIDE DEF rows
    <2> DEFINE f == [x \in rows |-> x.id]
    <2>1. used = {f[x] : x \in rows}
      OBVIOUS
    <2> HIDE DEF f, used
    <2>2. DOMAIN f = rows
      BY DEF f
    <2> QED BY <1>4, <2>1, <2>2, FiniteImage, FS_CardinalityType
  <1> HIDE DEF used
  <1>6. free # {}
    <2>1. Cardinality(1..n + 1) = n + 1
      BY <1>5, FS_Interval
    <2>2. ~(1..n + 1 \subseteq used)
      BY <1>5, <2>1, FS_Subset
    <2> QED BY <2>2
  <1>7. free \in SUBSET Nat
    BY <1>5
  <1>8. PICK m \in free : \A k \in free : m <= k
    <2> HIDE DEF free
    <2> QED BY <1>6, <1>7, LeastNatural
  <1>9. Min(free) \in free
    <2> HIDE DEF free
    <2> QED BY <1>8 DEF Min
  <1> QED BY <1>7, <1>9 DEF FreshId, used

LEMMA DayPayNat == DayPay \in Nat
  <1>1. \A m, n \in Nat : m * n \in Nat
    OBVIOUS
  <1> QED BY <1>1, PayAssumption DEF DayPay

\* A generated penalty has an id and an amount.
LEMMA GeneratedType ==
  ASSUME IsFiniteSet(Sessions), TypeInv, NEW d \in Days, NEW type \in Types
  PROVE  Generated(facts[d], d, type) \in Penalties
  <1> DEFINE row == [id |-> FreshId(d, type), day |-> d, type |-> type,
                     amount |-> Due(facts[d], d, type)]
             new == {x \in {row} : x.amount > 0}
  <1>1. row.amount \in Nat
    BY PayAssumption, DayPayNat DEF Due, LateDue, AbsenceDue
  <1>2. ASSUME row.amount > 0 PROVE row \in Penalty
    BY <1>1, <1>2, FreshIdNat DEF Penalty
  <1> HIDE DEF row
  <1>3. IsFiniteSet({row})
    BY FS_Singleton
  <1>4. IsFiniteSet(new)
    BY <1>3, FS_Subset
  <1>5. new \in Penalties
    BY <1>2, <1>4 DEF Penalties
  <1> QED BY <1>5 DEF Generated, row

LEMMA PenaltiesClosed ==
  ASSUME NEW a \in Penalties, NEW b \in Penalties
  PROVE  /\ a \cup b \in Penalties /\ a \ b \in Penalties /\ a \cap b \in Penalties
         /\ \A c \in SUBSET a : c \in Penalties
  BY FS_Union, FS_Subset DEF Penalties

LEMMA FactsTyped == Facts \cup {Blank} \subseteq Fact
  <1>1. Blank \in Fact
    BY DEF Fact, Blank
  <1>2. Facts \subseteq Fact
    BY FactsAssumption DEF Fact
  <1> QED BY <1>1, <1>2

LEMMA EarnedInt ==
  ASSUME NEW f \in Fact, NEW d \in Days, hour \in 0..LastHour
  PROVE  Earned(f, d) \in Int
  <1>1. /\ f.hours \in Int /\ f.open \in BOOLEAN /\ f.since \in Int
        /\ f.overtime \in Int /\ f.extra \in Int /\ f.rest \in BOOLEAN
        /\ f.leave \in {"none", "paid", "unpaid"}
    BY DEF Fact
  <1>2. Worked(f, d) \in Int
    BY <1>1, ClockAssumption DEF Worked
  <1>3. \A m, n \in Int : m * n \in Int
    OBVIOUS
  <1>4. ASSUME NEW h \in Int PROVE HoursPay(h) \in Int
    BY <1>3, DayPayNat, PayAssumption DEF HoursPay
  <1>5. Base(f, d) \in Int
    BY <1>1, <1>2, <1>4, DayPayNat DEF Base
  <1>6. Overtime(f, d) \in Int
    <2> DEFINE n == f.overtime + (IF f.rest THEN Worked(f, d) ELSE 0)
    <2>1. n \in Int
      BY <1>1, <1>2
    <2> HIDE DEF n
    <2>2. OvertimePay * n \in Int
      BY <1>3, <2>1, PayAssumption
    <2> QED BY <2>2 DEF Overtime, n
  <1> QED BY <1>1, <1>5, <1>6 DEF Earned

EarnedTyped ==
  hour \in 0..LastHour => \A f \in Fact, d \in Days : Earned(f, d) \in Int

LEMMA EarnedAlways == EarnedTyped
  BY EarnedInt DEF EarnedTyped

LEMMA WrittenType ==
  ASSUME TypeInv, NEW t \in Transaction
  PROVE  Written(t) \in [Days -> Accrual] /\ Total(Written(t)) \in Int
  <1>1. Written(t) \in [Days -> Accrual]
    BY DEF TypeInv, Transaction, Written
  <1>2. \A d \in Days : Written(t)[d].earned \in Int /\ Written(t)[d].deductions \in Int
    BY <1>1 DEF Accrual
  <1> QED BY <1>1, <1>2, TotalInt

LEMMA TypeAdvance ==
  ASSUME TypeInv, NEW s, NEW t \in Transaction, sess' = [sess EXCEPT ![s] = t],
         UNCHANGED <<facts, today, hour, autos, accrual, period, worth>>,
         queue' \in [Days -> 0..MaxQueue], missed' \in SUBSET Days
  PROVE  TypeInv'
  BY DEF TypeInv

LEMMA SweptType ==
  ASSUME IsFiniteSet(Sessions), TypeInv, NEW s \in Sessions, sess[s].phase \in Types,
         NEW doomed \in Penalties
  PROVE  Swept(s, doomed) \in Transaction
  <1> DEFINE new == Generated(facts[sess[s].day], sess[s].day, sess[s].phase)
  <1>1. sess[s] \in Transaction
    BY DEF TypeInv
  <1>2. sess[s].day \in Days /\ facts[sess[s].day] \in Facts \cup {Blank}
    BY <1>1 DEF TypeInv, Transaction
  <1>3. new \in Penalties
    BY <1>2, GeneratedType
  <1> HIDE DEF new
  <1>4. sess[s].gone \in Penalties /\ sess[s].made \in Penalties /\ autos \in Penalties
    BY <1>1 DEF Transaction, TypeInv
  <1>5. /\ sess[s].gone \cup (doomed \cap autos) \in Penalties
        /\ sess[s].made \cup new \in Penalties /\ {} \in Penalties
    BY <1>3, <1>4, PenaltiesClosed
  <1> DEFINE gone == sess[s].gone \cup (doomed \cap autos)
             made == sess[s].made \cup new
             seen == IF sess[s].phase = "LATE" THEN facts[sess[s].day] ELSE sess[s].seen
             phase == IF sess[s].phase = "LATE" THEN "ABSENCE" ELSE "price"
  <1>6. seen \in Facts \cup {Blank} /\ phase \in Phases
    BY <1>1, <1>2 DEF Transaction, Phases, Types
  <1>7. Swept(s, doomed) = [sess[s] EXCEPT !.gone = gone, !.doomed = {}, !.made = made,
                                           !.seen = seen, !.phase = phase]
    BY DEF Swept, new
  <1> HIDE DEF gone, made, seen, phase
  <1>8. gone \in Penalties /\ made \in Penalties
    BY <1>5 DEF gone, made
  <1> QED BY <1>1, <1>5, <1>6, <1>7, <1>8 DEF Transaction

LEMMA TypeSweeps ==
  ASSUME IsFiniteSet(Sessions), TypeInv, NEW s \in Sessions,
         Excuse(s) \/ Sweep(s) \/ Delete(s) \/ Price(s)
  PROVE  TypeInv'
  <1>1. sess[s] \in Transaction /\ queue \in [Days -> 0..MaxQueue] /\ missed \in SUBSET Days
    BY DEF TypeInv
  <1>2. /\ sess[s].day \in Days /\ facts[sess[s].day] \in Facts \cup {Blank}
        /\ sess[s].gone \in Penalties /\ sess[s].made \in Penalties
        /\ sess[s].doomed \in Penalties /\ autos \in Penalties /\ {} \in Penalties
    BY <1>1, FS_EmptySet DEF TypeInv, Transaction, Penalties
  <1>3. Visible(s, sess[s].day) \in Penalties
    <2>1. (autos \ sess[s].gone) \cup sess[s].made \in Penalties
      BY <1>2, PenaltiesClosed
    <2>2. Visible(s, sess[s].day) \subseteq (autos \ sess[s].gone) \cup sess[s].made
      BY DEF Visible, On
    <2> DEFINE rows == (autos \ sess[s].gone) \cup sess[s].made
    <2> HIDE DEF rows
    <2>3. rows \in Penalties /\ Visible(s, sess[s].day) \in SUBSET rows
      BY <2>1, <2>2 DEF rows
    <2> QED BY <2>3, PenaltiesClosed
  <1>4. CASE Excuse(s)
    <2> DEFINE f == facts[sess[s].day]
               t == [sess[s] EXCEPT !.seen = f, !.phase = "price"]
    <2>1. sess' = [sess EXCEPT ![s] = t]
          /\ UNCHANGED <<facts, today, hour, autos, accrual, period, queue, missed, worth>>
      BY <1>4 DEF Excuse, Step
    <2>2. t \in Transaction
      <3> HIDE DEF f
      <3> QED BY <1>1, <1>2 DEF Transaction, Phases, f
    <2> HIDE DEF t
    <2> QED BY <1>1, <2>1, <2>2, TypeAdvance
  <1>5. CASE Sweep(s)
    <2> DEFINE doomed == {x \in Visible(s, sess[s].day) : x.type = sess[s].phase}
               t == [sess[s] EXCEPT !.doomed = doomed]
    <2>1. doomed \in Penalties
      BY <1>3, PenaltiesClosed
    <2> HIDE DEF doomed
    <2>2. t \in Transaction
      BY <1>1, <2>1 DEF Transaction
    <2>3. /\ UNCHANGED <<facts, today, hour, autos, accrual, period, queue, missed, worth>>
          /\ sess[s].phase \in Types
          /\ \/ sess' = [sess EXCEPT ![s] = t]
             \/ sess' = [sess EXCEPT ![s] = Swept(s, doomed)]
      BY <1>5 DEF Sweep, Step, doomed
    <2>4. Swept(s, doomed) \in Transaction
      BY <2>1, <2>3, SweptType
    <2> HIDE DEF t
    <2> QED BY <1>1, <2>2, <2>3, <2>4, TypeAdvance
  <1>6. CASE Delete(s)
    <2>1. Swept(s, sess[s].doomed) \in Transaction
      BY <1>2, <1>6, SweptType DEF Delete
    <2> QED BY <1>1, <1>6, <2>1, TypeAdvance DEF Delete, Step
  <1>7. CASE Price(s)
    <2> DEFINE f == [facts[sess[s].day] EXCEPT !.rest = sess[s].seen.rest,
                                               !.leave = sess[s].seen.leave]
               priced == [exists |-> TRUE, earned |-> Earned(f, sess[s].day),
                          deductions |-> Owed(Visible(s, sess[s].day))]
               t == [sess[s] EXCEPT !.priced = priced, !.seen = Blank, !.phase = "upsert"]
    <2>1. sess' = [sess EXCEPT ![s] = t]
          /\ UNCHANGED <<facts, today, hour, autos, accrual, period, queue, missed, worth>>
      BY <1>7 DEF Price, Step
    <2>2. Earned(f, sess[s].day) \in Int
      <3>1. facts[sess[s].day] \in Fact /\ sess[s].seen \in Fact
        BY <1>1, <1>2, FactsTyped DEF Transaction
      <3>2. f \in Fact
        BY <3>1 DEF Fact
      <3> HIDE DEF f
      <3> QED BY <1>2, <3>2, EarnedInt DEF TypeInv
    <2>3. Owed(Visible(s, sess[s].day)) \in Nat
      BY <1>3, OwedNat DEF Penalties, Penalty
    <2>4. priced \in Accrual
      BY <2>2, <2>3 DEF Accrual
    <2> HIDE DEF priced
    <2>5. t \in Transaction
      BY <1>1, <2>4 DEF Transaction, Phases
    <2> HIDE DEF t
    <2> QED BY <1>1, <2>1, <2>5, TypeAdvance
  <1> QED BY <1>4, <1>5, <1>6, <1>7

LEMMA RefreshedType ==
  ASSUME TypeInv, NEW s, NEW t \in Transaction
  PROVE  Refreshed(s, t) \in Transaction
  <1>1. Total(Written(t)) \in Int
    BY WrittenType
  <1>2. period.total \in Int
    BY DEF TypeInv
  <1> DEFINE old == IF t.created \/ t.locked THEN t.new ELSE period.total
             new == Total(Written(t))
  <1>3. old \in Int
    BY <1>2 DEF Transaction
  <1> HIDE DEF old, new
  <1>4. new \in Int
    BY <1>1 DEF new
  <1>5. [t EXCEPT !.old = old, !.new = new, !.phase = "flush"] \in Transaction
    BY <1>3, <1>4 DEF Transaction, Phases
  <1> QED BY <1>5 DEF Refreshed, old, new

LEMMA TypeWrites ==
  ASSUME TypeInv, NEW s \in Sessions, Upsert(s) \/ Create(s) \/ NextDay(s)
  PROVE  TypeInv'
  <1>1. sess[s] \in Transaction /\ queue \in [Days -> 0..MaxQueue] /\ missed \in SUBSET Days
    BY DEF TypeInv
  <1>2. UNCHANGED <<facts, today, hour, autos, accrual, period, queue, missed, worth>>
    BY DEF Upsert, Create, NextDay, Step
  <1>3. CASE Upsert(s)
    <2> DEFINE u == Upserted(s)
               c == [u EXCEPT !.phase = "create"]
    <2>1. u \in Transaction
      <3>1. NoAccrual \in Accrual
        BY DEF NoAccrual, Accrual
      <3>2. [sess[s].ups EXCEPT ![sess[s].day] = sess[s].priced] \in [Days -> Accrual]
        BY <1>1 DEF Transaction
      <3> DEFINE ups == [sess[s].ups EXCEPT ![sess[s].day] = sess[s].priced]
      <3>3. u = [sess[s] EXCEPT !.ups = ups, !.priced = NoAccrual]
        BY DEF Upserted
      <3> HIDE DEF u, ups
      <3>4. ups \in [Days -> Accrual]
        BY <3>2 DEF ups
      <3> QED BY <1>1, <3>1, <3>3, <3>4 DEF Transaction
    <2>2. sess' = [sess EXCEPT ![s] = Refreshed(s, u)] \/ sess' = [sess EXCEPT ![s] = c]
      BY <1>3 DEF Upsert, Step
    <2> HIDE DEF u
    <2>3. c \in Transaction
      BY <2>1 DEF Transaction, Phases
    <2> HIDE DEF c
    <2>4. Refreshed(s, u) \in Transaction
      BY <2>1, RefreshedType
    <2> QED BY <1>1, <1>2, <2>2, <2>3, <2>4, TypeAdvance
  <1>4. CASE Create(s)
    <2> DEFINE t == Refreshed(s, sess[s])
               c == [t EXCEPT !.created = TRUE]
    <2>1. sess' = [sess EXCEPT ![s] = c]
      BY <1>4 DEF Create, Step
    <2>2. t \in Transaction
      BY <1>1, RefreshedType
    <2> HIDE DEF t
    <2>3. c \in Transaction
      BY <2>2 DEF Transaction
    <2> HIDE DEF c
    <2> QED BY <1>1, <1>2, <2>1, <2>3, TypeAdvance
  <1>5. CASE NextDay(s)
    <2> DEFINE u == sess[s]
               t == [u EXCEPT !.locked = @ \/ u.new # u.old, !.day = @ + 1,
                              !.phase = "LATE"]
    <2>1. sess' = [sess EXCEPT ![s] = t] /\ u.day < u.last
      BY <1>5 DEF NextDay, Step
    <2>2. u.day + 1 \in Days /\ u.locked \in BOOLEAN
      BY <1>1, <2>1, DaysAssumption DEF Transaction, Days
    <2> HIDE DEF u
    <2>3. t \in Transaction
      BY <1>1, <2>2 DEF Transaction, Phases, Types, u
    <2> HIDE DEF t
    <2> QED BY <1>1, <1>2, <2>1, <2>3, TypeAdvance
  <1> QED BY <1>3, <1>4, <1>5

LEMMA EnqueueType ==
  ASSUME queue \in [Days -> 0..MaxQueue], NEW d \in Days, Enqueue(d)
  PROVE  queue' \in [Days -> 0..MaxQueue]
  <1> DEFINE n == IF queue[d] < MaxQueue THEN queue[d] + 1 ELSE queue[d]
  <1>1. n \in 0..MaxQueue
    BY QueueAssumption
  <1>2. queue' = [queue EXCEPT ![d] = n]
    BY DEF Enqueue
  <1> HIDE DEF n
  <1> QED BY <1>1, <1>2

LEMMA TypeEnds ==
  ASSUME TypeInv, NEW s \in Sessions, Commit(s) \/ Abort(s)
  PROVE  TypeInv'
  <1>1. sess[s] \in Transaction /\ queue \in [Days -> 0..MaxQueue] /\ missed \in SUBSET Days
    BY DEF TypeInv
  <1>2. queue' \in [Days -> 0..MaxQueue]
    <2>1. queue' = queue \/ Enqueue(sess[s].day)
      BY DEF Commit, Abort, Requeue
    <2>2. sess[s].day \in Days
      BY <1>1 DEF Transaction
    <2> QED BY <1>1, <2>1, <2>2, EnqueueType
  <1>3. CASE Commit(s)
    <2>1. /\ sess' \in [Sessions -> Transaction]
          /\ UNCHANGED <<facts, today, hour, missed, worth>>
      BY <1>3, IdleType DEF Commit, TypeInv
    <2>2. autos' \in Penalties
      <3>1. autos \in Penalties /\ sess[s].gone \in Penalties /\ sess[s].made \in Penalties
        BY <1>1 DEF TypeInv, Transaction
      <3> QED BY <1>3, <3>1, PenaltiesClosed DEF Commit
    <2>3. accrual' \in [Days -> Accrual]
      BY <1>1, <1>3, WrittenType DEF Commit
    <2>4. period' \in [exists: BOOLEAN, total: Int]
      <3>1. sess[s].new \in Int
        BY <1>1 DEF Transaction
      <3> QED BY <1>3, <3>1 DEF Commit, TypeInv
    <2> QED BY <1>2, <2>1, <2>2, <2>3, <2>4 DEF TypeInv
  <1>4. CASE Abort(s)
    <2>1. missed' \in SUBSET Days
      BY <1>1, <1>4 DEF Abort, Transaction
    <2> QED BY <1>2, <1>4, <2>1, IdleType, TypeAdvance DEF Abort
  <1> QED BY <1>3, <1>4

LEMMA TypeBegins ==
  ASSUME TypeInv, NEW s \in Sessions,
         \/ \E d \in Days : StartTask(s, d) \/ StartRequest(s, d)
         \/ StartSummary(s) \/ StartClose(s)
  PROVE  TypeInv'
  <1>1. 1 \in Days /\ LastDay \in Days
    BY DaysAssumption DEF Days
  <1>2. PICK kind \in Kinds, first \in Days, last \in Days : Begin(s, kind, first, last)
    BY <1>1 DEF StartTask, StartRequest, StartSummary, StartClose, Begin
  <1> DEFINE t == Begun(kind, first, last)
  <1>3. t \in Transaction
    <2> DEFINE owes == (first..last) \cap (IF kind = "task" THEN Days ELSE missed)
    <2>1. owes \in SUBSET Days
      BY DEF TypeInv
    <2>2. t = [Idle EXCEPT !.kind = kind, !.phase = "LATE", !.day = first,
                           !.last = last, !.owes = owes]
      BY DEF Begun
    <2> HIDE DEF t, owes
    <2> QED BY <2>1, <2>2, IdleType DEF Transaction, Phases, Types
  <1>4. queue' \in [Days -> 0..MaxQueue]
    BY QueueAssumption DEF StartTask, StartRequest, StartSummary, StartClose, TypeInv
  <1>5. /\ sess' = [sess EXCEPT ![s] = t]
        /\ UNCHANGED <<facts, today, hour, autos, accrual, period, worth>>
        /\ missed' \in SUBSET Days
    BY <1>2 DEF Begin, TypeInv
  <1> HIDE DEF t
  <1> QED BY <1>3, <1>4, <1>5, TypeAdvance

LEMMA TypeStep ==
  ASSUME IsFiniteSet(Sessions), TypeInv, [Next]_vars
  PROVE  TypeInv'
  <1>1. ASSUME NEW s \in Sessions,
               \/ \E d \in Days : StartTask(s, d) \/ StartRequest(s, d)
               \/ StartSummary(s) \/ StartClose(s)
        PROVE  TypeInv'
    BY <1>1, TypeBegins
  <1>2. ASSUME NEW s \in Sessions, Excuse(s) \/ Sweep(s) \/ Delete(s) \/ Price(s)
        PROVE  TypeInv'
    BY <1>2, TypeSweeps
  <1>3. ASSUME NEW s \in Sessions, Upsert(s) \/ Create(s) \/ NextDay(s)
        PROVE  TypeInv'
    BY <1>3, TypeWrites
  <1>4. ASSUME NEW s \in Sessions, Commit(s) \/ Abort(s)
        PROVE  TypeInv'
    BY <1>4, TypeEnds
  <1>5. ASSUME NEW d \in Days, NEW f \in Facts, Edit(d, f) \/ EditSilently(d, f)
        PROVE  TypeInv'
    <2>1. /\ facts' \in [Days -> Facts \cup {Blank}] /\ missed' \in SUBSET Days
          /\ UNCHANGED <<today, hour, autos, accrual, period, sess>>
      BY <1>5 DEF Edit, EditSilently, Change, TypeInv
    <2>2. queue' \in [Days -> 0..MaxQueue]
      BY <1>5, EnqueueType DEF Edit, EditSilently, TypeInv
    <2>3. worth' \in [Days -> SUBSET Int]
      <3>1. Earned(f, d) \in Int
        BY FactsTyped, EarnedInt DEF TypeInv
      <3> QED BY <1>5, <3>1 DEF Edit, EditSilently, Change, TypeInv
    <2> QED BY <2>1, <2>2, <2>3 DEF TypeInv
  <1>6. CASE Tick \/ Midnight
    <2>1. /\ today' \in 1..LastDay + 1 /\ hour' \in 0..LastHour
          /\ UNCHANGED <<facts, autos, accrual, period, queue, sess, missed>>
      BY <1>6, DaysAssumption, ClockAssumption DEF Tick, Midnight, Pass, TypeInv
    <2>2. ASSUME NEW d \in Days PROVE Earned(facts[d], d)' \in Int
      <3>1. facts'[d] \in Fact
        BY <2>1, FactsTyped DEF TypeInv
      <3>2. EarnedTyped'
        BY EarnedAlways, PTL
      <3> QED BY <2>1, <3>1, <3>2 DEF EarnedTyped
    <2>3. worth' \in [Days -> SUBSET Int]
      BY <1>6, <2>2 DEF Tick, Midnight, Pass, TypeInv
    <2> QED BY <2>1, <2>3 DEF TypeInv
  <1>7. CASE UNCHANGED vars
    BY <1>7 DEF vars, TypeInv
  <1> QED BY <1>1, <1>2, <1>3, <1>4, <1>5, <1>6, <1>7 DEF Next

\* The types, for finitely many sessions: what the sums of the code add up are
\* amounts (a deduction never negative, an earning with its bonuses any), each
\* day of a month is one of its days, and a penalty that is added finds an id.
THEOREM TypeCorrect ==
  ASSUME IsFiniteSet(Sessions)
  PROVE  Spec => []TypeOK
  <1>1. TypeInv => TypeOK
    BY DEF TypeInv, TypeOK, Transaction, Penalties
  <1>2. TypeInv /\ [Next]_vars => TypeInv'
    BY TypeStep
  <1> QED BY <1>1, <1>2, TypeInit, PTL DEF Spec
=============================================================================
