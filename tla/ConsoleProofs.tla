---------------------------- MODULE ConsoleProofs ----------------------------
(* What holds of Console for any tables that are as they are supposed to be *)
(* (TablesAssumption), any number of pages opened, of buttons pressed and   *)
(* of writes of other people.                                               *)
EXTENDS Console, FiniteSetTheorems, TLAPS

CallFields == {"control", "nth", "visit", "base", "form", "status", "at"}

Shaped(c) ==
  /\ DOMAIN c = CallFields
  /\ c = [f \in CallFields |-> c[f]]

\* What the arguments below need of the types.
CallShape(c) ==
  /\ Shaped(c)
  /\ c.control \in DOMAIN screen.calls
  /\ c.nth \in Nat /\ c.visit \in 0..visits /\ c.at \in 0..Now

RowShape == rows \in Seq({rows[v] : v \in 1..Len(rows)}) /\ Now >= 1

QueryShape ==
  /\ cache \in [Keys -> 0..Now]
  /\ DOMAIN fetching = Keys
  /\ \A k \in Keys : fetching[k] = None \/ fetching[k] \in 0..Now
  /\ acked \in [Keys -> 1..Now]

Shape ==
  /\ area \in DOMAIN Screens
  /\ page \in DOMAIN screen.pages
  /\ visits \in Nat /\ presses \in Nat
  /\ RowShape
  /\ QueryShape
  /\ \A c \in calls : CallShape(c)

LEMMA ShapeInit == Init => Shape
  <1> SUFFICES ASSUME Init PROVE Shape
    OBVIOUS
  <1>1. area \in DOMAIN Screens /\ page \in DOMAIN screen.pages
    BY TablesAssumption DEF Init, LeadsToPages, screen
  <1>2. PICK s : rows = <<[status |-> s, value |-> 0]>>
    BY DEF Init
  <1>3. RowShape /\ Now = 1
    <2>1. Len(rows) = 1 /\ rows[1] = [status |-> s, value |-> 0]
      BY <1>2
    <2>2. rows[1] \in {rows[v] : v \in 1..Len(rows)}
      BY <2>1
    <2>3. rows \in Seq({rows[v] : v \in 1..Len(rows)})
      BY <1>2, <2>1, <2>2
    <2> QED BY <2>1, <2>3 DEF RowShape, Now
  <1>4. QueryShape
    BY <1>3 DEF Init, QueryShape
  <1> QED BY <1>1, <1>3, <1>4 DEF Init, Shape

(***************************************************************************)
(* The versions: a step keeps those there are and adds at most one.          *)
(***************************************************************************)
LEMMA Numbered == RowShape => Now \in Nat \ {0}
  BY DEF RowShape, Now

Appended == \E r : rows' = Append(rows, r)

LEMMA RowsGrow ==
  ASSUME RowShape, rows' = rows \/ Appended
  PROVE  /\ RowShape' /\ Now \in Nat /\ Now' \in Nat
         /\ Now' \in {Now, Now + 1}
         /\ \A v \in 1..Now : rows'[v] = rows[v]
  <1>0. Now \in Nat /\ Now = Len(rows) /\ Now >= 1
    BY DEF RowShape, Now
  <1>1. CASE rows' = rows
    BY <1>0, <1>1 DEF RowShape, Now
  <1>2. CASE Appended
    <2>1. PICK r : rows' = Append(rows, r)
      BY <1>2 DEF Appended
    <2> DEFINE S == {rows[v] : v \in 1..Len(rows)} \cup {r}
               T == {rows'[v] : v \in 1..Len(rows')}
    <2>2. rows \in Seq(S)
      <3>1. \A v \in 1..Len(rows) : rows[v] \in S
        OBVIOUS
      <3>2. rows \in Seq({rows[v] : v \in 1..Len(rows)})
        BY DEF RowShape
      <3> HIDE DEF S
      <3> QED BY <3>1, <3>2
    <2>3. rows' \in Seq(S) /\ Len(rows') = Len(rows) + 1
          /\ \A v \in 1..Len(rows) : rows'[v] = rows[v]
      <3> HIDE DEF S
      <3>1. r \in S
        BY DEF S
      <3> QED BY <2>1, <2>2, <3>1
    <2>4. rows' \in Seq(T)
      <3>1. \A v \in 1..Len(rows') : rows'[v] \in T
        OBVIOUS
      <3> HIDE DEF S, T
      <3> QED BY <2>3, <3>1
    <2> QED BY <1>0, <2>3, <2>4 DEF RowShape, Now
  <1> QED BY <1>1, <1>2

LEMMA RowsAppended ==
  ASSUME RowShape, NEW r, rows' = Append(rows, r)
  PROVE  Now' = Now + 1 /\ rows'[Now + 1] = r
  <1> DEFINE S == {rows[v] : v \in 1..Len(rows)} \cup {r}
  <1>1. rows \in Seq(S) /\ r \in S
    <2>1. \A v \in 1..Len(rows) : rows[v] \in S
      OBVIOUS
    <2>2. rows \in Seq({rows[v] : v \in 1..Len(rows)})
      BY DEF RowShape
    <2>3. r \in S
      OBVIOUS
    <2> HIDE DEF S
    <2> QED BY <2>1, <2>2, <2>3
  <1> HIDE DEF S
  <1> QED BY <1>1 DEF Now

LEMMA StepRows == [Next]_vars => (rows' = rows \/ Appended) /\ fixed' = fixed
  <1> SUFFICES ASSUME [Next]_vars PROVE (rows' = rows \/ Appended) /\ fixed' = fixed
    OBVIOUS
  <1> USE DEF fixed
  <1>1. CASE \E p \in Reachable : Visit(p)
    BY <1>1 DEF Visit, Opens
  <1>2. CASE \E k \in Polled : Poll(k)
    BY <1>2 DEF Poll
  <1>3. CASE \E k \in Keys : ServeFetch(k)
    BY <1>3 DEF ServeFetch
  <1>4. CASE \E k \in Keys : AnswerFetch(k)
    BY <1>4 DEF AnswerFetch
  <1>5. CASE \E fate \in {Fate(f) : f \in Here.fields} : Type(fate)
    BY <1>5 DEF Type
  <1>6. CASE \E c \in Offered \cap DOMAIN screen.calls : Press(c)
    BY <1>6 DEF Press
  <1>7. CASE \E c \in calls : ServeCall(c)
    BY <1>7 DEF ServeCall, Write, Appended
  <1>8. CASE \E c \in DOMAIN screen.calls : Other(c)
    BY <1>8 DEF Other, Write, Appended
  <1>9. CASE \E c \in calls : Succeeded(c)
    BY <1>9 DEF Succeeded
  <1>10. CASE \E c \in calls : Settled(c)
    BY <1>10 DEF Settled
  <1>11. CASE \E c \in calls : Failed(c)
    BY <1>11 DEF Failed
  <1>12. CASE UNCHANGED vars
    BY <1>12 DEF vars
  <1> QED
    BY <1>1, <1>2, <1>3, <1>4, <1>5, <1>6, <1>7, <1>8, <1>9, <1>10, <1>11, <1>12 DEF Next

\* The tables are looked up under a name that does not change.
LEMMA SameScreen ==
  ASSUME fixed' = fixed
  PROVE  /\ screen' = screen /\ Keys' = Keys
         /\ \A p : Follows(p)' = Follows(p)
  BY DEF fixed, screen, Keys, Follows

(***************************************************************************)
(* The shape of the state, part by part.                                    *)
(***************************************************************************)
LEMMA MountShape ==
  ASSUME NEW p, NEW inFlight, NEW marked, Mount(p, inFlight, marked), Now \in Nat,
         \A k \in Keys : inFlight[k] = None \/ inFlight[k] \in 0..Now
  PROVE  /\ DOMAIN fetching' = Keys
         /\ \A k \in Keys : fetching'[k] = None \/ fetching'[k] \in 0..Now
  BY DEF Mount

LEMMA SucceededQueries ==
  ASSUME Shape, NEW c \in calls, Succeeded(c)
  PROVE  /\ acked' \in [Keys -> 1..Now]
         /\ DOMAIN fetching' = Keys
         /\ \A k \in Keys : fetching'[k] = None \/ fetching'[k] \in 0..Now
  <1>1. Now \in Nat /\ c.at \in 0..Now
    BY Numbered DEF Shape, CallShape
  <1>2. \A k \in Keys : MustShow(k, c) => c.at \in 1..Now
    BY <1>1 DEF MustShow, Shape, QueryShape
  <1>3. acked' \in [Keys -> 1..Now]
    BY <1>2 DEF Succeeded, Shape, QueryShape
  <1>4. \A k \in Keys : AskedAgain(c.control)[k] = None \/ AskedAgain(c.control)[k] \in 0..Now
    BY <1>1 DEF AskedAgain, Shape, QueryShape
  <1>5. CASE fetching' = AskedAgain(c.control)
    BY <1>3, <1>4, <1>5 DEF AskedAgain
  <1>6. CASE Mount(screen.calls[c.control].goes, AskedAgain(c.control), Invalidated(c.control))
    BY <1>1, <1>3, <1>4, <1>6, MountShape
  <1> QED BY <1>5, <1>6 DEF Succeeded

LEMMA QueryShapeStep == Shape /\ [Next]_vars => QueryShape'
  <1> SUFFICES ASSUME Shape, [Next]_vars PROVE QueryShape'
    OBVIOUS
  <1>0. /\ Now \in Nat /\ Now' \in Nat /\ Now <= Now' /\ Keys' = Keys
        /\ QueryShape
    BY RowsGrow, StepRows, SameScreen DEF Shape
  <1> DEFINE Kept(f) == DOMAIN f = Keys /\ \A k \in Keys : f[k] = None \/ f[k] \in 0..Now
  <1>a. ASSUME cache' \in [Keys -> 0..Now], Kept(fetching'), acked' \in [Keys -> 1..Now]
        PROVE  QueryShape'
    BY <1>0, <1>a DEF QueryShape
  <1>1. CASE \E p \in Reachable : Visit(p)
    BY <1>0, <1>1, <1>a, MountShape DEF Visit, QueryShape
  <1>2. CASE \E k \in Polled : Poll(k)
    BY <1>0, <1>2, <1>a DEF Poll, QueryShape
  <1>3. CASE \E k \in Keys : ServeFetch(k)
    BY <1>0, <1>3, <1>a DEF ServeFetch, QueryShape
  <1>4. CASE \E k \in Keys : AnswerFetch(k)
    BY <1>0, <1>4, <1>a DEF AnswerFetch, QueryShape
  <1>5. CASE \E c \in calls : Succeeded(c)
    BY <1>0, <1>5, <1>a, SucceededQueries DEF Succeeded, QueryShape
  <1>6. CASE UNCHANGED <<cache, fetching, acked>>
    BY <1>0, <1>6, <1>a DEF QueryShape
  <1>7. CASE \E fate \in {Fate(f) : f \in Here.fields} : Type(fate)
    BY <1>6, <1>7 DEF Type, queries
  <1>8. CASE \E c \in Offered \cap DOMAIN screen.calls : Press(c)
    BY <1>6, <1>8 DEF Press, queries
  <1>9. CASE \E c \in calls : ServeCall(c) \/ Settled(c) \/ Failed(c)
    BY <1>6, <1>9 DEF ServeCall, Settled, Failed, queries
  <1>10. CASE \E c \in DOMAIN screen.calls : Other(c)
    BY <1>6, <1>10 DEF Other, queries
  <1>11. CASE UNCHANGED vars
    BY <1>6, <1>11 DEF vars
  <1> QED
    BY <1>1, <1>2, <1>3, <1>4, <1>5, <1>7, <1>8, <1>9, <1>10, <1>11 DEF Next

\* A call in flight keeps its shape in a step that only answers it.
LEMMA AnsweredShape ==
  ASSUME NEW c \in calls, CallShape(c), NEW s, NEW d, d = [c EXCEPT !.status = s]
  PROVE  CallShape(d) /\ d.status = s /\ \A f \in CallFields \ {"status"} : d[f] = c[f]
  BY DEF CallShape, Shaped, CallFields

\* A call that failed is dropped, or kept with what it has done.
KeptAs(c, d) ==
  /\ CallShape(d) /\ d.status = "failed"
  /\ d.control = c.control /\ d.nth = c.nth /\ d.visit = c.visit
  /\ d.base = c.base /\ d.form = c.form /\ d.at = c.at

LEMMA FailedCall ==
  ASSUME Shape, NEW c \in calls, Failed(c)
  PROVE  \E d : /\ KeptAs(c, d)
               /\ calls' \subseteq (calls \ {c}) \cup {d}
               /\ (calls' \subseteq calls \/ c.status = "error")
  <1> DEFINE d == [c EXCEPT !.status = "failed"]
  <1>1. CallShape(c)
    BY DEF Shape
  <1>2. CallShape(d) /\ d.status = "failed" /\ \A f \in CallFields \ {"status"} : d[f] = c[f]
    BY <1>1, AnsweredShape
  <1>3. calls' \subseteq (calls \ {c}) \cup {d} /\ (calls' \subseteq calls \/ c.status = "error")
    BY DEF Failed
  <1> HIDE DEF d
  <1>4. KeptAs(c, d)
    BY <1>2 DEF KeptAs, CallFields
  <1> QED BY <1>3, <1>4

\* What is at least as far on is of the shape still.
LEMMA CallShapeKept ==
  ASSUME Shape, fixed' = fixed, rows' = rows \/ Appended, visits' \in Nat, visits <= visits',
         NEW c, CallShape(c)
  PROVE  CallShape(c)'
  <1>1. Now' \in Nat /\ Now \in Nat /\ Now <= Now'
    BY RowsGrow DEF Shape
  <1>2. visits \in Nat
    BY DEF Shape
  <1>3. Shaped(c)' /\ c.control \in DOMAIN screen'.calls
    BY SameScreen DEF CallShape, Shaped
  <1>4. c.visit \in 0..visits' /\ c.at \in 0..Now'
    BY <1>1, <1>2 DEF CallShape
  <1> QED BY <1>3, <1>4 DEF CallShape

LEMMA CallsShapeStep ==
  Shape /\ [Next]_vars => /\ page' \in DOMAIN screen'.pages
                          /\ visits' \in Nat /\ presses' \in Nat /\ visits <= visits'
                          /\ \A c \in calls' : CallShape(c)'
  <1> SUFFICES ASSUME Shape, [Next]_vars
               PROVE  /\ page' \in DOMAIN screen'.pages
                      /\ visits' \in Nat /\ presses' \in Nat /\ visits <= visits'
                      /\ \A c \in calls' : CallShape(c)'
    OBVIOUS
  <1>0. /\ fixed' = fixed /\ (rows' = rows \/ Appended) /\ screen' = screen
        /\ visits \in Nat /\ presses \in Nat /\ Now \in Nat
        /\ page \in DOMAIN screen.pages /\ area \in DOMAIN Screens
        /\ \A c \in calls : CallShape(c)
    BY StepRows, SameScreen, Numbered DEF Shape
  <1>a. visits' \in Nat /\ visits <= visits' => \A c : CallShape(c) => CallShape(c)'
    BY <1>0, CallShapeKept
  <1>b. LeadsToPages(screen)
    BY <1>0, TablesAssumption DEF screen
  <1>1. CASE UNCHANGED <<page, calls, visits, presses>>
    BY <1>0, <1>1, <1>a
  <1>2. CASE \E p \in Reachable : Visit(p)
    <2>1. PICK p \in Reachable : Visit(p)
      BY <1>2
    <2>2. p \in DOMAIN screen.pages
      BY <1>b DEF Reachable, LeadsToPages
    <2> QED BY <1>0, <1>a, <2>1, <2>2 DEF Visit, Opens
  <1>3. CASE \E c \in Offered \cap DOMAIN screen.calls : Press(c)
    <2>1. PICK c \in Offered \cap DOMAIN screen.calls : Press(c)
      BY <1>3
    <2>2. UNCHANGED <<page, visits>> /\ presses' = presses + 1
      BY <2>1 DEF Press
    <2>3. PICK d : /\ calls' = calls \cup {d}
                   /\ d = [control |-> c, nth |-> presses', visit |-> visits, base |-> Seen,
                           form |-> IF Submits(c) THEN form ELSE None, status |-> "sent", at |-> 0]
      BY <2>1 DEF Press
    <2>4. Shaped(d) /\ d.control = c /\ d.nth = presses' /\ d.visit = visits /\ d.at = 0
      BY <2>3 DEF Shaped, CallFields
    <2>5. CallShape(d)
      BY <1>0, <2>2, <2>4 DEF CallShape
    <2> QED BY <1>0, <1>a, <2>2, <2>3, <2>5
  <1>4. CASE \E c \in calls : ServeCall(c)
    <2>1. PICK c \in calls : ServeCall(c)
      BY <1>4
    <2>2. UNCHANGED <<page, visits, presses>>
      BY <2>1 DEF ServeCall, counters
    <2>3. CASE Accepts(c.control) /\ Write(c.control, IF c.form = None THEN c.base ELSE c.form.base, Sent(c))
               /\ \E s : calls' = (calls \ {c}) \cup {[c EXCEPT !.status = s, !.at = Now + 1]}
      <3>1. PICK s, d : /\ calls' = (calls \ {c}) \cup {d}
                        /\ d = [c EXCEPT !.status = s, !.at = Now + 1]
        BY <2>3
      <3>2. Shaped(d) /\ d.control = c.control /\ d.nth = c.nth /\ d.visit = c.visit /\ d.at = Now + 1
        <4>1. Now + 1 \in Nat /\ CallShape(c)
          BY <1>0
        <4> QED BY <3>1, <4>1 DEF CallShape, Shaped, CallFields
      <3>3. Now' = Now + 1
        BY <1>0, <2>3, RowsAppended DEF Write, Appended, Shape
      <3>4. CallShape(d)'
        BY <1>0, <2>2, <3>2, <3>3 DEF CallShape, Shaped
      <3> QED BY <1>0, <1>a, <2>2, <3>1, <3>4
    <2>4. CASE \E s : calls' = (calls \ {c}) \cup {[c EXCEPT !.status = s]}
      BY <1>0, <1>a, <2>2, <2>4, AnsweredShape
    <2> QED BY <2>1, <2>3, <2>4 DEF ServeCall
  <1>5. CASE \E c \in calls : Succeeded(c)
    <2>1. PICK c \in calls : Succeeded(c)
      BY <1>5
    <2>2. calls' \subseteq calls \cup {[c EXCEPT !.status = "settling"]} /\ presses' = presses
      BY <2>1 DEF Succeeded
    <2>3. visits' \in {visits, visits + 1} /\ page' \in DOMAIN screen.pages
      <3>1. screen.calls[c.control].goes \in {"stay"} \cup DOMAIN screen.pages
        BY <1>0, <1>b DEF LeadsToPages, CallShape
      <3> QED BY <1>0, <2>1, <3>1 DEF Succeeded, Opens
    <2>4. visits' \in Nat /\ visits <= visits'
      BY <1>0, <2>3
    <2> QED BY <1>0, <1>a, <2>2, <2>3, <2>4, AnsweredShape
  <1>6. CASE \E c \in calls : Settled(c) \/ Failed(c)
    <2>1. PICK c \in calls : Settled(c) \/ Failed(c)
      BY <1>6
    <2>2. UNCHANGED <<page, visits, presses>>
      BY <2>1 DEF Settled, Failed, counters
    <2>3. \A d \in calls' : CallShape(d)
      BY <1>0, <2>1, FailedCall DEF Settled, KeptAs
    <2> QED BY <1>0, <1>a, <2>2, <2>3
  <1>7. CASE \/ \E k \in Keys : ServeFetch(k) \/ AnswerFetch(k)
             \/ \E k \in Polled : Poll(k)
    BY <1>1, <1>7 DEF Poll, ServeFetch, AnswerFetch, counters
  <1>8. CASE \/ \E fate \in {Fate(f) : f \in Here.fields} : Type(fate)
             \/ \E c \in DOMAIN screen.calls : Other(c)
             \/ UNCHANGED vars
    BY <1>1, <1>8 DEF Type, Other, counters, vars
  <1> QED
    BY <1>2, <1>3, <1>4, <1>5, <1>6, <1>7, <1>8 DEF Next

LEMMA ShapeStep == Shape /\ [Next]_vars => Shape'
  <1> SUFFICES ASSUME Shape, [Next]_vars PROVE Shape'
    OBVIOUS
  <1>1. area' \in DOMAIN Screens
    BY StepRows DEF Shape, fixed
  <1>2. RowShape'
    BY StepRows, RowsGrow DEF Shape
  <1> QED BY <1>1, <1>2, QueryShapeStep, CallsShapeStep DEF Shape

(***************************************************************************)
(* Coherent.  It is not inductive: a page that is opened shows the cache as *)
(* it is, and an answer replaces it by what the server said earlier.        *)
(***************************************************************************)
\* An answer under way is as new as the last write acknowledged.
AnswersAreNew ==
  \A k \in Keys : fetching[k] # None /\ fetching[k] # 0 => fetching[k] >= acked[k]

\* Data older than that is marked, on whatever page.
OldIsMarked ==
  \A k \in Keys : (fetching[k] = None /\ cache[k] < acked[k]) => cache[k] = 0 \/ k \in invalid

CacheInv == AnswersAreNew /\ OldIsMarked /\ Coherent

LEMMA CacheInit == Init => CacheInv
  BY NoneAssumption DEF Init, CacheInv, AnswersAreNew, OldIsMarked, Coherent, Here, screen

\* What a mutation has to show is invalidated.
LEMMA ShownIsInvalidated ==
  ASSUME Shape, NEW c \in calls, NEW k \in Keys, MustShow(k, c)
  PROVE  k \in Invalidated(c.control)
  <1>1. NamesItsQueries(screen)
    BY TablesAssumption DEF Shape, screen
  <1>2. c.control \in DOMAIN screen.calls
    BY DEF Shape, CallShape
  <1>3. k \in screen.calls[c.control].shown \ screen.calls[c.control].forgets
    BY DEF MustShow
  <1> QED BY <1>1, <1>2, <1>3 DEF NamesItsQueries, Invalidated

\* A page that is opened asks for what is old.
LEMMA MountFresh ==
  ASSUME NEW p, NEW inFlight, NEW marked, Mount(p, inFlight, marked),
         NEW k \in Keys, k \in screen.pages[p].keys, fetching'[k] = None
  PROVE  inFlight[k] = None /\ k \notin marked /\ cache[k] # 0 /\ k \notin invalid
  BY NoneAssumption DEF Mount, Asks

LEMMA MountKeeps ==
  ASSUME NEW p, NEW inFlight, NEW marked, Mount(p, inFlight, marked), NEW k \in Keys
  PROVE  fetching'[k] = inFlight[k] \/ fetching'[k] = 0
  BY DEF Mount

LEMMA SucceededCache ==
  ASSUME Shape, CacheInv, [Next]_vars, NEW c \in calls, Succeeded(c)
  PROVE  CacheInv'
  <1>0. /\ screen' = screen /\ Keys' = Keys /\ cache' = cache /\ Shape'
        /\ 0 # None
    BY StepRows, SameScreen, ShapeStep, NoneAssumption DEF Succeeded
  <1> DEFINE Asked == AskedAgain(c.control)
             Goes == screen.calls[c.control].goes
  <1>a. \A k \in Keys : /\ fetching'[k] = Asked[k] \/ fetching'[k] = 0
                        /\ fetching'[k] = None => Asked[k] = None
    <2>1. CASE fetching' = Asked
      BY <2>1
    <2>2. CASE Mount(Goes, Asked, Invalidated(c.control))
      BY <1>0, <2>2, MountKeeps
    <2> QED BY <2>1, <2>2 DEF Succeeded
  <1>b. \A k \in Keys : /\ Asked[k] = fetching[k] \/ Asked[k] = 0
                        /\ Asked[k] = None => fetching[k] = None
    BY <1>0 DEF AskedAgain
  <1>c. \A k \in Keys : acked'[k] = acked[k]
                        \/ (MustShow(k, c) /\ k \in Invalidated(c.control) /\ k \in invalid')
    BY ShownIsInvalidated DEF Succeeded
  <1>1. AnswersAreNew'
    <2> SUFFICES ASSUME NEW k \in Keys, fetching'[k] # None, fetching'[k] # 0
                 PROVE  fetching'[k] >= acked'[k]
      BY <1>0 DEF AnswersAreNew
    <2>1. fetching'[k] = fetching[k] /\ fetching[k] = Asked[k]
      BY <1>a, <1>b
    <2>2. CASE acked'[k] = acked[k]
      BY <2>1, <2>2 DEF CacheInv, AnswersAreNew
    <2>3. CASE MustShow(k, c) /\ k \in Invalidated(c.control)
      BY <2>1, <2>3 DEF MustShow, AskedAgain
    <2> QED BY <1>c, <2>2, <2>3
  <1>2. OldIsMarked'
    <2> SUFFICES ASSUME NEW k \in Keys, fetching'[k] = None, cache'[k] < acked'[k]
                 PROVE  cache'[k] = 0 \/ k \in invalid'
      BY <1>0 DEF OldIsMarked
    <2>1. invalid \subseteq invalid' /\ fetching[k] = None
      BY <1>a, <1>b DEF Succeeded
    <2> QED BY <1>0, <1>c, <2>1 DEF CacheInv, OldIsMarked
  <1>3. Coherent'
    <2>1. CASE fetching' = Asked /\ page' = page
      <3> SUFFICES ASSUME NEW k \in Keys, k \in Here.keys, fetching'[k] = None
                   PROVE  cache'[k] >= acked'[k]
        BY <1>0, <2>1 DEF Coherent, Here
      <3>1. fetching[k] = None /\ k \notin Invalidated(c.control)
        BY <1>0, <2>1, <1>b DEF AskedAgain
      <3> QED BY <1>0, <1>c, <3>1 DEF CacheInv, Coherent
    <2>2. CASE page' = Goes /\ Mount(Goes, Asked, Invalidated(c.control))
      <3> SUFFICES ASSUME NEW k \in Keys, k \in screen.pages[Goes].keys, fetching'[k] = None
                   PROVE  cache'[k] >= acked'[k]
        BY <1>0, <2>2 DEF Coherent, Here
      <3>1. Asked[k] = None /\ k \notin Invalidated(c.control) /\ cache[k] # 0 /\ k \notin invalid
        BY <2>2, MountFresh
      <3>2. fetching[k] = None /\ acked'[k] = acked[k]
        BY <1>b, <1>c, <3>1
      <3>3. cache[k] \in Nat /\ acked[k] \in Nat
        BY Numbered DEF Shape, QueryShape
      <3> QED BY <1>0, <3>1, <3>2, <3>3 DEF CacheInv, OldIsMarked
    <2> QED BY <2>1, <2>2 DEF Succeeded, Opens
  <1> QED BY <1>1, <1>2, <1>3 DEF CacheInv

LEMMA CacheStep == Shape /\ CacheInv /\ [Next]_vars => CacheInv'
  <1> SUFFICES ASSUME Shape, CacheInv, [Next]_vars PROVE CacheInv'
    OBVIOUS
  <1>0. /\ screen' = screen /\ Keys' = Keys /\ 0 # None /\ Now # None /\ Now \in Nat
        /\ \A k \in Keys : /\ cache[k] \in Nat /\ acked[k] \in Nat /\ acked[k] <= Now
                           /\ fetching[k] # None => fetching[k] \in Nat
        /\ DOMAIN fetching = Keys /\ DOMAIN cache = Keys
    <2>1. RowShape /\ QueryShape /\ Now \in Nat \ {0}
      BY Numbered DEF Shape
    <2> QED BY <2>1, StepRows, SameScreen, NoneAssumption DEF QueryShape
  <1>1. CASE UNCHANGED <<page, cache, invalid, fetching, acked>>
    BY <1>0, <1>1 DEF CacheInv, AnswersAreNew, OldIsMarked, Coherent, Here
  <1>2. CASE \E p \in Reachable : Visit(p)
    <2>1. PICK p \in Reachable : Visit(p)
      BY <1>2
    <2>2. /\ page' = p /\ UNCHANGED <<cache, invalid, acked>> /\ Mount(p, fetching, {})
      BY <2>1 DEF Visit, Opens
    <2>3. AnswersAreNew'
      BY <1>0, <2>2, MountKeeps DEF CacheInv, AnswersAreNew
    <2>4. OldIsMarked'
      BY <1>0, <2>2, MountKeeps DEF CacheInv, OldIsMarked
    <2>5. Coherent'
      <3> SUFFICES ASSUME NEW k \in Keys, k \in screen.pages[p].keys, fetching'[k] = None
                   PROVE  cache'[k] >= acked'[k]
        BY <1>0, <2>2 DEF Coherent, Here
      <3>1. fetching[k] = None /\ cache[k] # 0 /\ k \notin invalid
        BY <2>2, MountFresh
      <3> QED BY <1>0, <2>2, <3>1 DEF CacheInv, OldIsMarked
    <2> QED BY <2>3, <2>4, <2>5 DEF CacheInv
  <1>3. CASE \E k \in Polled : Poll(k)
    <2>1. PICK k \in Polled : Poll(k)
      BY <1>3
    <2>2. /\ fetching' = [fetching EXCEPT ![k] = 0]
          /\ UNCHANGED <<page, cache, invalid, acked>>
      BY <2>1 DEF Poll
    <2> QED BY <1>0, <2>2 DEF CacheInv, AnswersAreNew, OldIsMarked, Coherent, Here
  <1>4. CASE \E k \in Keys : ServeFetch(k)
    <2>1. PICK k \in Keys : ServeFetch(k)
      BY <1>4
    <2>2. /\ fetching' = [fetching EXCEPT ![k] = Now] /\ fetching[k] = 0
          /\ UNCHANGED <<page, cache, invalid, acked>>
      BY <2>1 DEF ServeFetch
    <2> QED BY <1>0, <2>2 DEF CacheInv, AnswersAreNew, OldIsMarked, Coherent, Here
  <1>5. CASE \E k \in Keys : AnswerFetch(k)
    <2>1. PICK k \in Keys : AnswerFetch(k)
      BY <1>5
    <2>2. /\ fetching[k] # None /\ fetching[k] # 0
          /\ cache' = [cache EXCEPT ![k] = fetching[k]]
          /\ invalid' = invalid \ {k}
          /\ fetching' = [fetching EXCEPT ![k] = None]
          /\ UNCHANGED <<page, acked>>
      BY <2>1 DEF AnswerFetch
    <2>3. fetching[k] >= acked[k]
      BY <2>2 DEF CacheInv, AnswersAreNew
    <2> QED BY <1>0, <2>2, <2>3 DEF CacheInv, AnswersAreNew, OldIsMarked, Coherent, Here
  <1>6. CASE \E c \in calls : Succeeded(c)
    BY <1>6, SucceededCache
  <1>7. CASE \/ \E fate \in {Fate(f) : f \in Here.fields} : Type(fate)
             \/ \E c \in Offered \cap DOMAIN screen.calls : Press(c)
    BY <1>1, <1>7 DEF Type, Press, queries
  <1>8. CASE \/ \E c \in calls : ServeCall(c) \/ Settled(c) \/ Failed(c)
             \/ \E c \in DOMAIN screen.calls : Other(c)
    BY <1>1, <1>8 DEF ServeCall, Settled, Failed, Other, queries
  <1>9. CASE UNCHANGED vars
    BY <1>1, <1>9 DEF vars
  <1> QED BY <1>2, <1>3, <1>4, <1>5, <1>6, <1>7, <1>8, <1>9 DEF Next

(* Whatever a page is opened on and whatever order the answers come in, a   *)
(* query that has settled shows the user's own acknowledged writes, but the *)
(* ones that found a first load of it, or the fetch of a page closed since, *)
(* already answered by the server.                                          *)
THEOREM OwnWritesShown == Spec => []Coherent
  <1>1. Init => Shape /\ CacheInv
    BY ShapeInit, CacheInit
  <1>2. Shape /\ CacheInv /\ [Next]_vars => Shape' /\ CacheInv'
    BY ShapeStep, CacheStep
  <1>3. CacheInv => Coherent
    BY DEF CacheInv
  <1> QED BY <1>1, <1>2, <1>3, PTL DEF Spec

(***************************************************************************)
(* FormCurrent follows from Coherent: an untyped form that follows its      *)
(* query shows what the query shows.                                        *)
(***************************************************************************)
FormFields == {"base", "value", "typed", "field"}

FollowShows ==
  (Here.form = "follow" /\ form # None /\ ~form.typed) =>
    /\ cache[Here.reads] \in 1..Now /\ form.base \in 1..Now
    /\ rows[form.base] = rows[cache[Here.reads]]

\* Only the save of an overlay goes on after its answer.
SettlingHere ==
  \A c \in calls : (c.status = "settling" /\ c.visit = visits) => Here.form = "overlay"

FormInv ==
  /\ form # None => DOMAIN form = FormFields
  /\ FollowShows
  /\ SettlingHere

LEMMA FormInit == Init => FormInv
  BY DEF Init, FormInv, FollowShows, SettlingHere

LEMMA HydratedShape ==
  ASSUME NEW v
  PROVE  /\ DOMAIN Hydrated(v) = FormFields
         /\ Hydrated(v).base = v /\ Hydrated(v).typed = FALSE
  BY DEF Hydrated, FormFields

LEMMA FollowersHere ==
  ASSUME Shape
  PROVE  \A p \in DOMAIN screen.pages : screen.pages[p].form = "follow" =>
           ~screen.pages[p].holds /\ screen.pages[p].reads \in Keys \cap screen.pages[p].keys
  BY TablesAssumption DEF Shape, FollowersRead, screen, Keys

\* A page that opens is filled from its query, or later.
LEMMA OpensForm ==
  ASSUME Shape, NEW p \in DOMAIN screen.pages, Opens(p), UNCHANGED <<fixed, rows, cache>>,
         \A c \in calls' : c.visit \in 0..visits
  PROVE  FormInv'
  <1>1. screen' = screen /\ visits' = visits + 1 /\ visits \in Nat /\ Here' = screen.pages[p]
        /\ Now' = Now
    BY SameScreen DEF Opens, Here, Shape, Now
  <1>2. SettlingHere'
    BY <1>1 DEF SettlingHere
  <1>3. (form # None => DOMAIN form = FormFields)'
    BY HydratedShape DEF Opens, Filled
  <1>4. FollowShows'
    <2> SUFFICES ASSUME screen.pages[p].form = "follow", form' # None
                 PROVE  /\ cache[screen.pages[p].reads] \in 1..Now /\ form'.base \in 1..Now
                        /\ rows[form'.base] = rows[cache[screen.pages[p].reads]]
      BY <1>1 DEF FollowShows
    <2>1. ~screen.pages[p].holds /\ screen.pages[p].reads \in Keys
      BY FollowersHere
    <2>2. cache[screen.pages[p].reads] \in 0..Now /\ Now \in Nat
      BY <2>1, Numbered DEF Shape, QueryShape
    <2>3. /\ cache[screen.pages[p].reads] # 0
          /\ form' = Hydrated(cache[screen.pages[p].reads])
      BY <2>1 DEF Opens, Filled
    <2>4. form'.base = cache[screen.pages[p].reads]
      BY <2>3, HydratedShape
    <2>5. cache[screen.pages[p].reads] \in 1..Now
      BY <2>2, <2>3
    <2> QED BY <2>4, <2>5
  <1> QED BY <1>2, <1>3, <1>4 DEF FormInv

\* A step that leaves the page and its form where they are.
LEMMA FormKept ==
  ASSUME Shape, FormInv, fixed' = fixed, rows' = rows \/ Appended,
         UNCHANGED <<page, cache, form, visits>>,
         \A d \in calls' : (d.status = "settling" /\ d.visit = visits) => Here.form = "overlay"
  PROVE  FormInv'
  <1>1. /\ screen' = screen /\ Here' = Here /\ Now \in Nat /\ Now' \in {Now, Now + 1}
        /\ \A v \in 1..Now : rows'[v] = rows[v]
    BY SameScreen, RowsGrow DEF Here, Shape
  <1>2. FollowShows'
    BY <1>1 DEF FormInv, FollowShows
  <1> QED BY <1>1, <1>2 DEF FormInv, SettlingHere

LEMMA AnswerForm ==
  ASSUME Shape, FormInv, UNCHANGED fixed, NEW k \in Keys, AnswerFetch(k)
  PROVE  FormInv'
  <1>1. /\ screen' = screen /\ Here' = Here /\ Now' = Now /\ rows' = rows
        /\ page \in DOMAIN screen.pages
        /\ UNCHANGED <<calls, visits>>
    BY SameScreen DEF AnswerFetch, Here, Now, Shape, counters
  <1>2. /\ fetching[k] \in 1..Now
        /\ cache' = [cache EXCEPT ![k] = fetching[k]] /\ cache \in [Keys -> 0..Now]
    BY Numbered DEF AnswerFetch, Shape, QueryShape
  <1>3. SettlingHere'
    BY <1>1 DEF FormInv, SettlingHere
  <1>4. CASE form' = form /\ k # Here.reads
    <2>1. cache'[Here.reads] = cache[Here.reads] \/ Here.reads \notin Keys
      BY <1>2, <1>4
    <2>2. Here.form = "follow" => Here.reads \in Keys
      BY <1>1, FollowersHere DEF Here
    <2> QED BY <1>1, <1>3, <1>4, <2>1, <2>2 DEF FormInv, FollowShows
  <1>5. CASE form' = Hydrated(fetching[k]) /\ k = Here.reads
    <2>1. cache'[Here.reads] = fetching[k]
      BY <1>2, <1>5
    <2>2. form'.base = fetching[k] /\ DOMAIN form' = FormFields
      BY <1>5, HydratedShape
    <2>3. FollowShows'
      BY <1>1, <1>2, <2>1, <2>2 DEF FollowShows
    <2> QED BY <1>3, <2>2, <2>3 DEF FormInv
  <1>6. CASE Here.form # "follow" /\ \/ form' = form \/ form' = Hydrated(fetching[k])
                                     \/ form # None /\ form' = Rebased(fetching[k])
    <2>1. form' # None => DOMAIN form' = FormFields
      <3>1. CASE form' = [form EXCEPT !.base = fetching[k]] /\ form # None
        BY <3>1 DEF FormInv
      <3> QED BY <1>6, <3>1, HydratedShape DEF Rebased, FormInv
    <2> QED BY <1>1, <1>3, <1>6, <2>1 DEF FormInv, FollowShows
  <1>7. CASE /\ Here.form = "follow" /\ k = Here.reads /\ form' = form
             /\ form # None /\ rows[cache[k]] = rows[fetching[k]]
    <2>1. cache'[Here.reads] = fetching[k]
      BY <1>2, <1>7
    <2> QED BY <1>1, <1>2, <1>3, <1>7, <2>1 DEF FormInv, FollowShows
  <1>8. Here.form = "follow" => ~Here.holds
    BY <1>1, FollowersHere DEF Here
  <1> QED BY <1>4, <1>5, <1>6, <1>7, <1>8 DEF AnswerFetch, Follows, Here

LEMMA FormStep == Shape /\ FormInv /\ [Next]_vars => FormInv'
  <1> SUFFICES ASSUME Shape, FormInv, [Next]_vars PROVE FormInv'
    OBVIOUS
  <1>0. /\ fixed' = fixed /\ (rows' = rows \/ Appended) /\ screen' = screen /\ Keys' = Keys
        /\ page \in DOMAIN screen.pages /\ visits \in Nat
        /\ \A c \in calls : CallShape(c)
        /\ \A c \in calls : c.visit \in 0..visits
        /\ LeadsToPages(screen)
    BY StepRows, SameScreen, TablesAssumption DEF Shape, CallShape, screen
  <1>a. SettlingHere
    BY DEF FormInv
  <1>1. CASE \E p \in Reachable : Visit(p)
    <2>1. PICK p \in Reachable : Visit(p)
      BY <1>1
    <2>2. p \in DOMAIN screen.pages
      BY <1>0 DEF Reachable, LeadsToPages
    <2>3. Opens(p) /\ UNCHANGED <<fixed, rows, cache, calls>>
      BY <2>1 DEF Visit
    <2> QED BY <1>0, <2>2, <2>3, OpensForm
  <1>2. CASE \/ \E k \in Keys : ServeFetch(k)
             \/ \E k \in Polled : Poll(k)
             \/ \E c \in DOMAIN screen.calls : Other(c)
    <2>1. UNCHANGED <<page, cache, form, visits, calls>>
      BY <1>2 DEF ServeFetch, Poll, Other, counters, queries
    <2> QED BY <1>0, <1>a, <2>1, FormKept DEF SettlingHere
  <1>3. CASE \E k \in Keys : AnswerFetch(k)
    BY <1>0, <1>3, AnswerForm
  <1>4. CASE \E fate \in {Fate(f) : f \in Here.fields} : Type(fate)
    <2>1. PICK fate : Type(fate)
      BY <1>4
    <2>2. /\ form # None /\ UNCHANGED <<page, rows, calls, visits>>
          /\ form' = [form EXCEPT !.value = -(10 * presses + visits), !.typed = TRUE, !.field = fate]
      BY <2>1 DEF Type, counters
    <2>3. DOMAIN form' = FormFields /\ form'.typed = TRUE
      BY <2>2 DEF FormInv, FormFields
    <2>4. Here' = Here
      BY <1>0, <2>2 DEF Here
    <2> QED BY <1>a, <2>2, <2>3, <2>4 DEF FormInv, FollowShows, SettlingHere
  <1>5. CASE \E c \in Offered \cap DOMAIN screen.calls : Press(c)
    <2>1. PICK c : Press(c)
      BY <1>5
    <2>2. UNCHANGED <<page, cache, form, visits>>
      BY <2>1 DEF Press, queries
    <2>3. \A d \in calls' : d \in calls \/ d.status = "sent"
      BY <2>1 DEF Press
    <2> QED BY <1>0, <1>a, <2>2, <2>3, FormKept DEF SettlingHere
  <1>6. CASE \E c \in calls : ServeCall(c)
    <2>1. PICK c \in calls : ServeCall(c)
      BY <1>6
    <2>2. UNCHANGED <<page, cache, form, visits>>
      BY <2>1 DEF ServeCall, queries, counters
    <2>3. \A d \in calls' : d \in calls \/ d.status \in {"ok", "error", "refused"}
      <3> DEFINE d1 == [c EXCEPT !.status = IF screen.calls[c.control].errs THEN "error" ELSE "ok", !.at = Now + 1]
                 d2 == [c EXCEPT !.status = "refused"]
      <3>1. d1.status \in {"ok", "error"} /\ d2.status = "refused"
        BY <1>0 DEF CallShape, Shaped, CallFields
      <3>2. calls' \subseteq calls \cup {d1, d2}
        <4> HIDE DEF d1, d2
        <4> QED BY <2>1 DEF ServeCall, d1, d2
      <3> HIDE DEF d1, d2
      <3> QED BY <3>1, <3>2
    <2> QED BY <1>0, <1>a, <2>2, <2>3, FormKept DEF SettlingHere
  <1>7. CASE \E c \in calls : Succeeded(c)
    <2>1. PICK c \in calls : Succeeded(c)
      BY <1>7
    <2>2. \A d \in calls' : d \in calls \/ (d.visit = c.visit /\ Settles(c))
      <3> DEFINE d1 == [c EXCEPT !.status = "settling"]
      <3>1. d1.visit = c.visit
        BY <1>0 DEF CallShape, Shaped, CallFields
      <3>2. calls' \subseteq calls \cup IF Settles(c) THEN {d1} ELSE {}
        BY <2>1 DEF Succeeded
      <3> HIDE DEF d1
      <3> QED BY <3>1, <3>2
    <2>3. screen.calls[c.control].goes \in {"stay"} \cup DOMAIN screen.pages
      BY <1>0 DEF LeadsToPages, CallShape
    <2>4. CASE UNCHANGED <<page, form, visits>>
      <3>1. \A d \in calls' : (d.status = "settling" /\ d.visit = visits) => Here.form = "overlay"
        BY <1>a, <2>2 DEF SettlingHere, Settles
      <3> QED BY <1>0, <2>1, <2>4, <3>1, FormKept DEF Succeeded
    <2>5. CASE Opens(screen.calls[c.control].goes) /\ screen.calls[c.control].goes # "stay"
      <3>1. \A d \in calls' : d.visit \in 0..visits
        BY <1>0, <2>2
      <3>2. UNCHANGED <<fixed, rows, cache>>
        BY <2>1 DEF Succeeded
      <3> QED BY <2>3, <2>5, <3>1, <3>2, OpensForm
    <2> QED BY <2>1, <2>4, <2>5 DEF Succeeded
  <1>8. CASE \E c \in calls : Settled(c)
    <2>1. PICK c \in calls : Settled(c)
      BY <1>8
    <2>2. /\ c.status = "settling" /\ calls' = calls \ {c}
          /\ UNCHANGED <<page, rows, cache, visits>>
          /\ form' = IF c.visit = visits THEN Hydrated(cache[Here.reads]) ELSE form
      BY <2>1 DEF Settled, queries, counters
    <2>3. \A d \in calls' : (d.status = "settling" /\ d.visit = visits) => Here.form = "overlay"
      BY <1>a, <2>2 DEF SettlingHere
    <2>4. CASE c.visit # visits
      BY <1>0, <2>2, <2>3, <2>4, FormKept
    <2>5. CASE c.visit = visits
      <3>1. Here.form = "overlay" /\ Here' = Here
        BY <1>0, <1>a, <2>2, <2>5 DEF SettlingHere, Here
      <3> QED BY <2>2, <2>3, <2>5, <3>1, HydratedShape DEF FormInv, FollowShows, SettlingHere
    <2> QED BY <2>4, <2>5
  <1>9. CASE \E c \in calls : Failed(c)
    <2>1. PICK c \in calls : Failed(c)
      BY <1>9
    <2>2. UNCHANGED <<page, cache, form, visits>>
      BY <2>1 DEF Failed, queries, counters
    <2>3. \A d \in calls' : d \in calls \/ d.status = "failed"
      BY <2>1, FailedCall DEF KeptAs
    <2> QED BY <1>0, <1>a, <2>2, <2>3, FormKept DEF SettlingHere
  <1>10. CASE UNCHANGED vars
    <2>1. UNCHANGED <<page, cache, form, visits, calls>>
      BY <1>10 DEF vars
    <2> QED BY <1>0, <1>a, <2>1, FormKept DEF SettlingHere
  <1> QED BY <1>1, <1>2, <1>3, <1>4, <1>5, <1>6, <1>7, <1>8, <1>9, <1>10 DEF Next

LEMMA CurrentFromInv == Shape /\ CacheInv /\ FormInv => FormCurrent
  <1> SUFFICES ASSUME Shape, CacheInv, FormInv, Here.form = "follow", form # None,
                      ~form.typed, fetching[Here.reads] = None
               PROVE  \E v \in acked[Here.reads]..Now : rows[v] = rows[form.base]
    BY DEF FormCurrent
  <1>1. cache[Here.reads] \in 1..Now /\ rows[form.base] = rows[cache[Here.reads]]
    BY DEF FormInv, FollowShows
  <1>2. Here.reads \in Keys \cap Here.keys
    BY FollowersHere DEF Here, Shape
  <1>3. cache[Here.reads] >= acked[Here.reads] /\ acked[Here.reads] \in 1..Now
    BY <1>2 DEF CacheInv, Coherent, Shape, QueryShape
  <1>4. cache[Here.reads] \in acked[Here.reads]..Now
    BY <1>1, <1>3, Numbered DEF Shape
  <1> QED BY <1>1, <1>4

(* An edit page that nobody typed into never shows what its record was      *)
(* before the user's own save, once the query has settled, but for a save   *)
(* that found the first load of the page already answered by the server.    *)
THEOREM FormsCurrent == Spec => []FormCurrent
  <1>1. Init => Shape /\ CacheInv /\ FormInv
    BY ShapeInit, CacheInit, FormInit
  <1>2. Shape /\ CacheInv /\ FormInv /\ [Next]_vars => Shape' /\ CacheInv' /\ FormInv'
    BY ShapeStep, CacheStep, FormStep
  <1> QED BY <1>1, <1>2, CurrentFromInv, PTL DEF Spec

(***************************************************************************)
(* TypedKept: the shape of the form is all it needs.                        *)
(***************************************************************************)
SettlesHere == \E c \in calls \ calls' : c.status = "settling" /\ c.visit = visits

LEMMA TypedStep ==
  ASSUME Shape, FormInv, [Next]_vars, form # None, form.typed,
         Here.form \in {"once", "overlay"}, visits' = visits
  PROVE  form'.typed \/ SettlesHere
  <1>0. DOMAIN form = FormFields /\ visits \in Nat /\ visits + 1 # visits
    BY DEF FormInv, Shape
  <1>1. CASE form' = form
    BY <1>1
  <1>2. CASE \E k \in Keys : AnswerFetch(k)
    <2>1. PICK k \in Keys : AnswerFetch(k)
      BY <1>2
    <2>2. form' = form \/ form' = [form EXCEPT !.base = fetching[k]]
      BY <2>1 DEF AnswerFetch, Follows, Rebased, Here
    <2> QED BY <1>0, <2>2 DEF FormFields
  <1>3. CASE \E fate \in {Fate(f) : f \in Here.fields} : Type(fate)
    <2>1. PICK fate : form' = [form EXCEPT !.value = -(10 * presses + visits), !.typed = TRUE, !.field = fate]
      BY <1>3 DEF Type
    <2> QED BY <1>0, <2>1 DEF FormFields
  <1>4. CASE \E c \in calls : Settled(c)
    <2>1. PICK c \in calls : Settled(c)
      BY <1>4
    <2>2. c.status = "settling" /\ calls' = calls \ {c} /\ (c.visit # visits => form' = form)
      BY <2>1 DEF Settled
    <2> QED BY <2>2 DEF SettlesHere
  <1>5. CASE \/ \E p \in Reachable : Visit(p)
             \/ \E c \in calls : Succeeded(c)
    BY <1>0, <1>1, <1>5 DEF Visit, Succeeded, Opens
  <1>6. CASE \/ \E k \in Keys : ServeFetch(k)
             \/ \E k \in Polled : Poll(k)
             \/ \E c \in DOMAIN screen.calls : Other(c)
             \/ \E c \in Offered \cap DOMAIN screen.calls : Press(c)
             \/ \E c \in calls : ServeCall(c) \/ Failed(c)
             \/ UNCHANGED vars
    BY <1>1, <1>6 DEF ServeFetch, Poll, Other, Press, ServeCall, Failed, vars
  <1> QED BY <1>2, <1>3, <1>4, <1>5, <1>6 DEF Next

(* Typing is not lost on the page it was typed on, unless a save of that    *)
(* page ends: no answer and no other call takes it away.                    *)
THEOREM TypingKept == Spec => TypedKept
  <1>1. Init => Shape /\ FormInv
    BY ShapeInit, FormInit
  <1>2. Shape /\ FormInv /\ [Next]_vars => Shape' /\ FormInv'
    BY ShapeStep, FormStep
  <1>3. Shape /\ FormInv /\ [Next]_vars =>
          [(form # None /\ form.typed /\ Here.form \in {"once", "overlay"} /\ visits' = visits)
             => \/ form'.typed
                \/ \E c \in calls \ calls' : c.status = "settling" /\ c.visit = visits]_vars
    BY TypedStep DEF SettlesHere
  <1> QED BY <1>1, <1>2, <1>3, PTL DEF Spec, TypedKept

(***************************************************************************)
(* NoDoubleEffect: a guarded button whose call answers what it did has one  *)
(* call in flight, and the call of any other leaves a version that the same *)
(* call would leave again.                                                  *)
(***************************************************************************)
PressedAgain(c) == ~screen.calls[c].guarded \/ screen.calls[c].errs

OnePending ==
  \A c, d \in calls :
    (c.control = d.control /\ c.visit = d.visit /\ ~PressedAgain(c.control)) => c = d

\* An error that hides a commit comes from where it is known to come from.
Answers(c) == c.status \in {"error", "failed"} => screen.calls[c.control].errs

ErrorsKnown == \A c \in calls : Answers(c)

\* What a call with this form leaves of a value.
Stored(f, value) == IF f # None /\ f.field \in {"none", "sent"} THEN f.value ELSE value

Left(c) ==
  LET becomes == screen.calls[c.control].becomes
  IN /\ c.at \in 2..Now
     /\ rows[c.at - 1].status \in DOMAIN becomes
     /\ rows[c.at] = [status |-> becomes[rows[c.at - 1].status],
                      value |-> Stored(c.form, rows[c.at - 1].value)]

Recorded ==
  \A c \in calls : (c.at > 0 /\ ~screen.calls[c.control].restates) => Left(c)

CallInv == OnePending /\ Recorded /\ ErrorsKnown

LEMMA CallInit == Init => CallInv
  BY DEF Init, CallInv, OnePending, Recorded, ErrorsKnown

\* Calls that were answered only are the calls they were.
SameCall(c, d) ==
  c.control = d.control /\ c.visit = d.visit /\ c.at = d.at /\ c.form = d.form

LEMMA LeftKept ==
  ASSUME Shape, fixed' = fixed, rows' = rows \/ Appended, NEW c, NEW d, Left(c), SameCall(c, d)
  PROVE  Left(d)'
  <1>1. /\ screen' = screen /\ Now \in Nat /\ Now' \in {Now, Now + 1}
        /\ \A v \in 1..Now : rows'[v] = rows[v]
    BY SameScreen, RowsGrow DEF Shape
  <1>2. c.at \in 2..Now /\ c.at - 1 \in 1..Now /\ c.at \in 1..Now /\ c.at \in 2..Now'
    BY <1>1 DEF Left
  <1>3. rows'[c.at] = rows[c.at] /\ rows'[c.at - 1] = rows[c.at - 1]
    BY <1>1, <1>2
  <1> QED BY <1>1, <1>2, <1>3 DEF Left, SameCall, Stored

\* A step that drops calls, or answers one of them without a new version.
LEMMA CallsKept ==
  ASSUME Shape, CallInv, fixed' = fixed, rows' = rows \/ Appended,
         NEW c \in calls, NEW d, SameCall(c, d), Answers(d),
         calls' \subseteq calls \/ calls' \subseteq (calls \ {c}) \cup {d}
  PROVE  CallInv'
  <1>1. screen' = screen
    BY SameScreen
  <1>2. OnePending'
    <2> SUFFICES ASSUME NEW e \in calls', NEW f \in calls', e.control = f.control, e.visit = f.visit,
                        ~PressedAgain(e.control)
                 PROVE  e = f
      BY <1>1 DEF OnePending, PressedAgain
    <2>1. OnePending
      BY DEF CallInv
    <2>2. CASE e \in calls /\ f \in calls
      BY <2>1, <2>2 DEF OnePending
    <2>3. CASE e = d /\ f \in calls \ {c}
      BY <2>1, <2>3 DEF OnePending, SameCall
    <2>4. CASE f = d /\ e \in calls \ {c}
      BY <2>1, <2>4 DEF OnePending, SameCall
    <2> QED BY <2>2, <2>3, <2>4
  <1>3. Recorded'
    <2> SUFFICES ASSUME NEW e \in calls', e.at > 0, ~screen.calls[e.control].restates
                 PROVE  Left(e)'
      BY <1>1 DEF Recorded
    <2>1. \E b \in calls : SameCall(b, e)
      BY DEF SameCall
    <2>2. PICK b \in calls : SameCall(b, e)
      BY <2>1
    <2>3. Left(b)
      BY <2>2 DEF CallInv, Recorded, SameCall
    <2> QED BY <2>2, <2>3, LeftKept
  <1>4. ErrorsKnown'
    BY <1>1 DEF CallInv, ErrorsKnown, Answers
  <1> QED BY <1>2, <1>3, <1>4 DEF CallInv

LEMMA CallsSame ==
  ASSUME Shape, CallInv, fixed' = fixed, rows' = rows \/ Appended, calls' \subseteq calls
  PROVE  CallInv'
  <1>1. CASE calls = {}
    BY <1>1 DEF CallInv, OnePending, Recorded, ErrorsKnown
  <1>2. CASE calls # {}
    <2>1. PICK c \in calls : SameCall(c, c) /\ Answers(c)
      BY <1>2 DEF SameCall, CallInv, ErrorsKnown
    <2> QED BY <2>1, CallsKept
  <1> QED BY <1>1, <1>2

LEMMA AnsweredSame ==
  ASSUME Shape, NEW c \in calls, NEW s
  PROVE  /\ SameCall(c, [c EXCEPT !.status = s])
         /\ s \notin {"error", "failed"} => Answers([c EXCEPT !.status = s])
  BY DEF Shape, CallShape, Shaped, CallFields, SameCall, Answers

LEMMA PressedCall ==
  ASSUME Shape, CallInv, fixed' = fixed, NEW c, Press(c)
  PROVE  CallInv'
  <1>1. PICK d : /\ calls' = calls \cup {d}
                 /\ d = [control |-> c, nth |-> presses', visit |-> visits, base |-> Seen,
                         form |-> IF Submits(c) THEN form ELSE None, status |-> "sent", at |-> 0]
    BY DEF Press
  <1>2. d.control = c /\ d.visit = visits /\ d.at = 0 /\ d.status = "sent"
    BY <1>1
  <1>3. screen' = screen /\ rows' = rows /\ Now' = Now
    BY SameScreen DEF Press, Now
  <1>4. ~PressedAgain(c) => \A e \in calls : ~(e.control = c /\ e.visit = visits)
    BY DEF Press, Pending, PressedAgain, CallInv, ErrorsKnown, Answers
  <1>5. OnePending'
    <2> SUFFICES ASSUME NEW e \in calls', NEW f \in calls', e.control = f.control, e.visit = f.visit,
                        ~PressedAgain(e.control)
                 PROVE  e = f
      BY <1>3 DEF OnePending, PressedAgain
    <2>1. CASE e \in calls /\ f \in calls
      BY <2>1 DEF CallInv, OnePending
    <2>2. CASE e = d \/ f = d
      BY <1>1, <1>2, <1>4, <2>2
    <2> QED BY <1>1, <2>1, <2>2
  <1>6. Recorded'
    <2>1. \A e \in calls : Left(e) => Left(e)'
      BY <1>3 DEF Left
    <2> QED BY <1>1, <1>2, <1>3, <2>1 DEF CallInv, Recorded
  <1>7. ErrorsKnown'
    BY <1>1, <1>2, <1>3 DEF CallInv, ErrorsKnown, Answers
  <1> QED BY <1>5, <1>6, <1>7 DEF CallInv

LEMMA ServedCall ==
  ASSUME Shape, CallInv, fixed' = fixed, rows' = rows \/ Appended, NEW c \in calls, ServeCall(c)
  PROVE  CallInv'
  <1> DEFINE status == IF screen.calls[c.control].errs THEN "error" ELSE "ok"
             base == IF c.form = None THEN c.base ELSE c.form.base
  <1>1. CASE rows' = rows /\ calls' = (calls \ {c}) \cup {[c EXCEPT !.status = "refused"]}
    BY <1>1, AnsweredSame, CallsKept
  <1>2. CASE /\ Accepts(c.control) /\ Write(c.control, base, Sent(c))
             /\ calls' = (calls \ {c}) \cup {[c EXCEPT !.status = status, !.at = Now + 1]}
    <2>1. PICK d : /\ d.control = c.control /\ d.visit = c.visit /\ d.form = c.form /\ d.at = Now + 1
                   /\ Answers(d)
                   /\ calls' = (calls \ {c}) \cup {d}
      <3>1. Shaped(c) /\ Now + 1 \in Nat
        BY Numbered DEF Shape, CallShape
      <3> DEFINE d == [c EXCEPT !.status = status, !.at = Now + 1]
      <3>2. d.control = c.control /\ d.visit = c.visit /\ d.form = c.form /\ d.at = Now + 1
        <4> HIDE DEF status
        <4> QED BY <3>1 DEF Shaped, CallFields
      <3>3. d.status = status
        <4> HIDE DEF status
        <4> QED BY <3>1 DEF Shaped, CallFields
      <3>4. Answers(d)
        BY <3>2, <3>3 DEF Answers
      <3> QED BY <1>2, <3>2, <3>4
    <2> DEFINE call == screen.calls[c.control]
    <2>2. /\ Now' = Now + 1 /\ Now \in Nat \ {0} /\ screen' = screen
          /\ \A v \in 1..Now : rows'[v] = rows[v]
          /\ rows'[Now + 1] = [status |-> Becomes(c.control, base), value |-> Sent(c)]
      BY <1>2, RowsAppended, RowsGrow, Numbered, SameScreen DEF Write, Shape
    <2>3. ~call.restates => Left(d)'
      <3> SUFFICES ASSUME ~call.restates PROVE Left(d)'
        OBVIOUS
      <3>1. /\ d.at \in 2..Now' /\ d.at - 1 = Now /\ rows'[d.at - 1] = rows[Now]
        BY <2>1, <2>2
      <3>2. rows[Now].status \in DOMAIN call.becomes
        BY <1>2 DEF Accepts
      <3>3. Becomes(c.control, base) = call.becomes[rows[Now].status]
        BY DEF Becomes
      <3>4. Sent(c) = Stored(d.form, rows[Now].value)
        BY <2>1 DEF Sent, Stored
      <3>5. rows'[d.at] = [status |-> call.becomes[rows[Now].status],
                           value |-> Stored(d.form, rows[Now].value)]
        BY <2>1, <2>2, <3>3, <3>4
      <3> QED BY <2>1, <2>2, <3>1, <3>2, <3>5 DEF Left, Stored
    <2>4. Recorded'
      <3> SUFFICES ASSUME NEW e \in calls', e.at > 0, ~screen.calls[e.control].restates
                   PROVE  Left(e)'
        BY <2>2 DEF Recorded
      <3>1. CASE e \in calls
        <4>1. Left(e) /\ SameCall(e, e)
          BY <3>1 DEF CallInv, Recorded, SameCall
        <4> QED BY <4>1, LeftKept
      <3> QED BY <2>1, <2>3, <3>1
    <2>5. OnePending'
      <3> SUFFICES ASSUME NEW e \in calls', NEW f \in calls', e.control = f.control, e.visit = f.visit,
                          ~PressedAgain(e.control)
                   PROVE  e = f
        BY <2>2 DEF OnePending, PressedAgain
      <3>1. OnePending
        BY DEF CallInv
      <3>2. CASE e \in calls /\ f \in calls
        BY <3>1, <3>2 DEF OnePending
      <3>3. CASE e = d /\ f \in calls \ {c}
        BY <2>1, <3>1, <3>3 DEF OnePending
      <3>4. CASE f = d /\ e \in calls \ {c}
        BY <2>1, <3>1, <3>4 DEF OnePending
      <3> QED BY <2>1, <3>2, <3>3, <3>4
    <2>6. ErrorsKnown'
      BY <2>1, <2>2 DEF CallInv, ErrorsKnown, Answers
    <2> QED BY <2>4, <2>5, <2>6 DEF CallInv
  <1> QED BY <1>1, <1>2 DEF ServeCall

LEMMA CallStep == Shape /\ CallInv /\ [Next]_vars => CallInv'
  <1> SUFFICES ASSUME Shape, CallInv, [Next]_vars PROVE CallInv'
    OBVIOUS
  <1>0. fixed' = fixed /\ (rows' = rows \/ Appended)
    BY StepRows
  <1>1. CASE calls' \subseteq calls
    BY <1>0, <1>1, CallsSame
  <1>2. CASE \E c \in Offered \cap DOMAIN screen.calls : Press(c)
    BY <1>0, <1>2, PressedCall
  <1>3. CASE \E c \in calls : ServeCall(c)
    BY <1>0, <1>3, ServedCall
  <1>4. CASE \E c \in calls : Succeeded(c)
    <2>1. PICK c \in calls : Succeeded(c)
      BY <1>4
    <2>2. calls' \subseteq (calls \ {c}) \cup {[c EXCEPT !.status = "settling"]}
      BY <2>1 DEF Succeeded
    <2>3. SameCall(c, [c EXCEPT !.status = "settling"]) /\ Answers([c EXCEPT !.status = "settling"])
      BY AnsweredSame
    <2> QED BY <1>0, <2>2, <2>3, CallsKept
  <1>5. CASE \/ \E p \in Reachable : Visit(p)
             \/ \E k \in Polled : Poll(k)
             \/ \E k \in Keys : ServeFetch(k) \/ AnswerFetch(k)
             \/ \E fate \in {Fate(f) : f \in Here.fields} : Type(fate)
             \/ \E c \in DOMAIN screen.calls : Other(c)
             \/ \E c \in calls : Settled(c)
             \/ UNCHANGED vars
    BY <1>1, <1>5 DEF Visit, Poll, ServeFetch, AnswerFetch, Type, Other, Settled, vars
  <1>6. CASE \E c \in calls : Failed(c)
    <2>1. PICK c \in calls : Failed(c)
      BY <1>6
    <2>2. CASE calls' \subseteq calls
      BY <1>1, <2>2
    <2>3. CASE c.status = "error"
      <3>1. screen.calls[c.control].errs
        BY <2>3 DEF CallInv, ErrorsKnown, Answers
      <3>2. PICK d : SameCall(c, d) /\ d.control = c.control /\ calls' \subseteq (calls \ {c}) \cup {d}
        BY <2>1, FailedCall DEF KeptAs, SameCall
      <3> QED BY <1>0, <3>1, <3>2, CallsKept DEF Answers
    <2> QED BY <2>1, <2>2, <2>3, FailedCall
  <1> QED BY <1>2, <1>3, <1>4, <1>5, <1>6 DEF Next

LEMMA OnceFromInv == Shape /\ CallInv => NoDoubleEffect
  <1> SUFFICES ASSUME Shape, CallInv, NEW c \in calls, NEW d \in calls,
                      c.control = d.control, c.visit = d.visit, c.form = d.form,
                      c.control \notin screen.again, c.nth < d.nth, 0 < c.at, d.at = c.at + 1
               PROVE  rows[d.at] = rows[d.at - 1]
    BY DEF NoDoubleEffect
  <1> DEFINE call == screen.calls[c.control]
  <1>1. /\ CallShape(c) /\ CallShape(d) /\ c # d
    BY DEF Shape, CallShape
  <1>2. PressedAgain(c.control)
    BY <1>1 DEF CallInv, OnePending
  <1>3. /\ ~call.restates
        /\ \A s \in DOMAIN call.becomes :
             call.becomes[s] \in DOMAIN call.becomes => call.becomes[call.becomes[s]] = call.becomes[s]
    BY <1>1, <1>2, TablesAssumption DEF Shape, CallShape, RepeatsHarmlessly, PressedAgain, screen
  <1>4. d.at > 0 /\ c.at > 0 /\ d.at - 1 = c.at /\ Left(c) /\ Left(d)
    BY <1>1, <1>3, Numbered DEF CallInv, Recorded, CallShape, Shape
  <1> DEFINE was == rows[c.at - 1]
  <1>5. /\ was.status \in DOMAIN call.becomes
        /\ rows[c.at] = [status |-> call.becomes[was.status], value |-> Stored(c.form, was.value)]
    BY <1>4 DEF Left
  <1>6. /\ rows[c.at].status \in DOMAIN call.becomes
        /\ rows[d.at] = [status |-> call.becomes[rows[c.at].status],
                         value |-> Stored(c.form, rows[c.at].value)]
    <2>1. /\ rows[d.at - 1].status \in DOMAIN call.becomes
          /\ rows[d.at] = [status |-> call.becomes[rows[d.at - 1].status],
                           value |-> Stored(d.form, rows[d.at - 1].value)]
      BY <1>4 DEF Left
    <2>2. rows[d.at - 1] = rows[c.at]
      BY <1>4
    <2> HIDE DEF call
    <2> QED BY <2>1, <2>2
  <1>7. /\ call.becomes[rows[c.at].status] = rows[c.at].status
        /\ rows[c.at].status = call.becomes[was.status]
    <2>1. rows[c.at].status = call.becomes[was.status]
      BY <1>5
    <2>2. was.status \in DOMAIN call.becomes /\ rows[c.at].status \in DOMAIN call.becomes
      BY <1>5, <1>6
    <2> HIDE DEF call, was
    <2> QED BY <1>3, <2>1, <2>2
  <1>8. Stored(c.form, rows[c.at].value) = Stored(c.form, was.value)
    BY <1>5 DEF Stored
  <1> QED BY <1>4, <1>5, <1>6, <1>7, <1>8

(* Pressing a button twice does once, however late the two calls arrive and *)
(* also when the first answered an error after its commit; but not the ones *)
(* that the tables say do it again.                                         *)
THEOREM PressedOnce == Spec => []NoDoubleEffect
  <1>1. Init => Shape /\ CallInv
    BY ShapeInit, CallInit
  <1>2. Shape /\ CallInv /\ [Next]_vars => Shape' /\ CallInv'
    BY ShapeStep, CallStep
  <1> QED BY <1>1, <1>2, OnceFromInv, PTL DEF Spec

(***************************************************************************)
(* What a page shows is a version of the record, and what it offers there   *)
(* the endpoint accepts there: the tables of the areas say so.              *)
(***************************************************************************)
FormOK(f, n) ==
  /\ DOMAIN f = FormFields /\ f = [x \in FormFields |-> f[x]]
  /\ f.base \in 1..n /\ f.value \in Int /\ f.typed \in BOOLEAN
  /\ f.field \in {"none", "sent", "ignored", "lost"}
  /\ f.typed => f.field \in {"sent", "ignored"}

RowsInv ==
  /\ rows[1].status \in screen.start
  /\ \A v \in 1..Now : rows[v].status \in screen.statuses /\ rows[v].value \in Int

\* A page over an overlay, and the saves of it, have data to lie on.
OverlayInv ==
  (/\ Here.form = "overlay"
   /\ form # None \/ \E c \in calls : c.visit = visits /\ Submits(c.control))
    => cache[Here.reads] # 0

HeldInv ==
  /\ form # None => FormOK(form, Now)
  /\ (Here.holds \/ Here.form = "new") => form # None
  /\ Here.form = "new" => form.base = 1
  /\ OverlayInv

Accepted(c, v) == rows[v].status \in DOMAIN screen.calls[c].becomes

CallTrue(c) ==
  /\ c.base \in 1..Now
  /\ c.form # None => FormOK(c.form, Now)
  /\ c.control \in screen.vain \/ Accepted(c.control, c.base)
  /\ c.status = "refused" => \E v \in c.base..Now : ~Accepted(c.control, v)
  /\ c.status = "ok" => c.at # 0
  /\ c.status = "settling" => Submits(c.control)
  /\ (c.at # 0 /\ c.form # None /\ c.form.field \in {"none", "sent"})
       => rows[c.at].value = c.form.value

CallsTrue == \A c \in calls : CallTrue(c)

Sound == RowsInv /\ HeldInv /\ CallsTrue

\* The tables of the area that is open.
LEMMA TablesHere ==
  ASSUME Shape
  PROVE  /\ LeadsToPages(screen) /\ StaysAState(screen) /\ ShowsTheRecord(screen)
         /\ OffersWhatIsAccepted(screen) /\ SendsWhatIsTyped(screen)
         /\ RespectsDecisions(screen)
  BY TablesAssumption DEF Shape, screen

LEMMA StepLater ==
  ASSUME Shape, fixed' = fixed, rows' = rows \/ Appended
  PROVE  /\ screen' = screen /\ Keys' = Keys
         /\ Now \in Nat \ {0} /\ Now' \in {Now, Now + 1}
         /\ \A v \in 1..Now : rows'[v] = rows[v]
  BY SameScreen, RowsGrow, Numbered DEF Shape

LEMMA FormOKLater ==
  ASSUME NEW f, NEW m \in Nat, NEW n \in Nat, m <= n, FormOK(f, m)
  PROVE  FormOK(f, n)
  BY DEF FormOK

LEMMA FormIsNotNone ==
  ASSUME NEW f, NEW n \in Nat, FormOK(f, n)
  PROVE  f # None
  <1>1. f \in [base: Nat, value: Int, typed: BOOLEAN, field: {"none", "sent", "ignored", "lost"}]
    <2>1. f.base \in Nat /\ f.value \in Int /\ f.typed \in BOOLEAN
          /\ f.field \in {"none", "sent", "ignored", "lost"}
      BY DEF FormOK
    <2>2. f = [base |-> f.base, value |-> f.value, typed |-> f.typed, field |-> f.field]
      BY DEF FormOK, FormFields
    <2> QED BY <2>1, <2>2
  <1> QED BY <1>1, NoneAssumption

LEMMA HydratedOK ==
  ASSUME Shape, RowsInv, NEW v \in 1..Now
  PROVE  FormOK(Hydrated(v), Now) /\ Hydrated(v) # None /\ Hydrated(v).base = v
  <1>1. Now \in Nat /\ rows[v].value \in Int
    BY Numbered DEF Shape, RowsInv
  <1>2. FormOK(Hydrated(v), Now)
    BY <1>1 DEF FormOK, Hydrated, FormFields
  <1> QED BY <1>1, <1>2, FormIsNotNone, HydratedShape

\* What a page looks at.
LEMMA HereReads ==
  ASSUME Shape
  PROVE  /\ Here.form # "new" => Here.reads \in Keys
         /\ Here.form = "overlay" => ~Here.holds
         /\ Here = screen.pages[page] /\ page \in DOMAIN screen.pages
  BY TablesHere DEF ShowsTheRecord, Here, Keys, Shape

LEMMA SeenIsAVersion ==
  ASSUME Shape, HeldInv
  PROVE  Seen \in 0..Now /\ (Here.form = "new" => Seen = 1)
  <1>1. Now \in Nat \ {0}
    BY Numbered DEF Shape
  <1>2. CASE Here.holds \/ Here.form = "new"
    BY <1>1, <1>2 DEF HeldInv, Seen, FormOK
  <1>3. CASE ~(Here.holds \/ Here.form = "new")
    BY <1>3, HereReads DEF Seen, Shape, QueryShape
  <1> QED BY <1>2, <1>3

\* What is offered is offered for a version, which the endpoint accepts.
LEMMA OfferedIsAccepted ==
  ASSUME Shape, RowsInv, HeldInv, NEW c \in Offered
  PROVE  /\ Seen \in 1..Now
         /\ c \in DOMAIN screen.calls => (c \in screen.vain \/ Accepted(c, Seen))
  <1>1. Seen \in 1..Now /\ c \in Here.offers[rows[Seen].status]
    BY SeenIsAVersion, Numbered DEF Offered, Shape
  <1>2. ASSUME c \in DOMAIN screen.calls, c \notin screen.vain PROVE Accepted(c, Seen)
    <2>1. rows[Seen].status \in IF Here.form = "new" THEN screen.start ELSE screen.statuses
      BY <1>1, SeenIsAVersion DEF RowsInv
    <2>2. c \in (screen.pages[page].offers[rows[Seen].status] \cap DOMAIN screen.calls) \ screen.vain
      BY <1>1, <1>2 DEF Here
    <2> QED BY <2>1, <2>2, TablesHere, HereReads DEF OffersWhatIsAccepted, Accepted
  <1> QED BY <1>1, <1>2
LEMMA SoundInit == Init => Sound
  <1> SUFFICES ASSUME Init PROVE Sound
    OBVIOUS
  <1>0. Shape
    BY ShapeInit
  <1>1. PICK s \in screen.start : rows = <<[status |-> s, value |-> 0]>>
    BY DEF Init
  <1>2. Now = 1 /\ rows[1].status = s /\ rows[1].value = 0
    BY <1>1 DEF Now
  <1>3. s \in screen.statuses
    BY <1>0, TablesHere DEF StaysAState
  <1>4. RowsInv
    BY <1>1, <1>2, <1>3 DEF RowsInv
  <1>5. ~Here.holds /\ Here.form # "new" /\ page = screen.home
    BY <1>0, TablesHere DEF Init, ShowsTheRecord, Here
  <1>6. HeldInv
    BY <1>5 DEF Init, HeldInv, OverlayInv
  <1>7. CallsTrue
    BY DEF Init, CallsTrue
  <1> QED BY <1>4, <1>6, <1>7 DEF Sound

\* A call in flight was made on a version, with a form that is whole.
LEMMA CallVersions ==
  ASSUME Shape, Sound, NEW c \in calls
  PROVE  /\ c.control \in DOMAIN screen.calls
         /\ c.base \in 1..Now
         /\ c.form # None => c.form.base \in 1..Now /\ c.form.value \in Int
  BY DEF Shape, CallShape, Sound, CallsTrue, CallTrue, FormOK

\* What is written is a state of the record.
LEMMA WritesAState ==
  ASSUME Shape, RowsInv, NEW c \in DOMAIN screen.calls, Accepts(c), NEW base \in 1..Now
  PROVE  Becomes(c, base) \in screen.statuses
  BY TablesHere DEF RowsInv, Accepts, Becomes, StaysAState

LEMMA RowsAdded ==
  ASSUME Shape, RowsInv, fixed' = fixed, NEW r, rows' = Append(rows, r),
         r.status \in screen.statuses, r.value \in Int
  PROVE  RowsInv'
  <1>1. /\ screen' = screen /\ Now \in Nat \ {0} /\ Now' = Now + 1
        /\ rows'[Now + 1] = r
        /\ \A v \in 1..Now : rows'[v] = rows[v]
    BY StepLater, RowsAppended DEF Appended, Shape
  <1>2. rows'[1].status \in screen'.start
    BY <1>1 DEF RowsInv
  <1>3. ASSUME NEW v \in 1..Now'
        PROVE  rows'[v].status \in screen'.statuses /\ rows'[v].value \in Int
    <2>1. CASE v = Now + 1
      BY <1>1, <2>1
    <2>2. CASE v \in 1..Now
      BY <1>1, <2>2 DEF RowsInv
    <2>3. v = Now + 1 \/ v \in 1..Now
      BY <1>1
    <2> QED BY <2>1, <2>2, <2>3
  <1> QED BY <1>2, <1>3 DEF RowsInv

LEMMA RowsStep == Shape /\ Sound /\ [Next]_vars => RowsInv'
  <1> SUFFICES ASSUME Shape, Sound, [Next]_vars PROVE RowsInv'
    OBVIOUS
  <1>0. RowsInv /\ fixed' = fixed /\ Now \in Nat \ {0}
    BY StepRows, Numbered DEF Sound, Shape
  <1>1. CASE rows' = rows
    BY <1>0, <1>1, SameScreen DEF RowsInv, Now
  <1>2. CASE \E c \in calls : ServeCall(c)
    <2>1. PICK c \in calls : ServeCall(c)
      BY <1>2
    <2> DEFINE base == IF c.form = None THEN c.base ELSE c.form.base
    <2>2. CASE Accepts(c.control) /\ Write(c.control, base, Sent(c))
      <3> DEFINE r == [status |-> Becomes(c.control, base), value |-> Sent(c)]
      <3>1. base \in 1..Now /\ c.control \in DOMAIN screen.calls
        BY CallVersions
      <3>2. rows[Now].value \in Int
        BY <1>0 DEF RowsInv
      <3>3. Sent(c) \in Int
        BY <3>2, CallVersions DEF Sent
      <3>4. Becomes(c.control, base) \in screen.statuses
        <4> HIDE DEF base
        <4> QED BY <1>0, <2>2, <3>1, WritesAState
      <3>5. r.status \in screen.statuses /\ r.value \in Int
        BY <3>3, <3>4
      <3>6. rows' = Append(rows, r)
        BY <2>2 DEF Write
      <3> HIDE DEF r
      <3> QED BY <1>0, <3>5, <3>6, RowsAdded
    <2> QED BY <1>1, <2>1, <2>2 DEF ServeCall
  <1>3. CASE \E c \in DOMAIN screen.calls : Other(c)
    <2>1. PICK c \in DOMAIN screen.calls : Other(c)
      BY <1>3
    <2> DEFINE value == IF screen.calls[c].sends = {} THEN rows[Now].value ELSE Now + 1
               r == [status |-> Becomes(c, Now), value |-> value]
    <2>2. Accepts(c) /\ rows' = Append(rows, r)
      BY <2>1 DEF Other, Write
    <2>3. Becomes(c, Now) \in screen.statuses /\ value \in Int
      BY <1>0, <2>2, WritesAState DEF RowsInv
    <2>4. r.status \in screen.statuses /\ r.value \in Int
      BY <2>3
    <2> HIDE DEF r
    <2> QED BY <1>0, <2>2, <2>4, RowsAdded
  <1>4. CASE \/ \E p \in Reachable : Visit(p)
             \/ \E k \in Polled : Poll(k)
             \/ \E k \in Keys : ServeFetch(k) \/ AnswerFetch(k)
             \/ \E fate \in {Fate(f) : f \in Here.fields} : Type(fate)
             \/ \E c \in Offered \cap DOMAIN screen.calls : Press(c)
             \/ \E c \in calls : Succeeded(c) \/ Settled(c) \/ Failed(c)
             \/ UNCHANGED vars
    BY <1>1, <1>4
       DEF Visit, Poll, ServeFetch, AnswerFetch, Type, Press, Succeeded, Settled, Failed, vars
  <1> QED BY <1>2, <1>3, <1>4 DEF Next

(***************************************************************************)
(* The form of the page.                                                    *)
(***************************************************************************)
\* A page that opens is filled from a version of the record.
LEMMA OpensHeld ==
  ASSUME Shape, Sound, NEW p \in DOMAIN screen.pages, Opens(p), UNCHANGED <<fixed, rows, cache>>,
         \A c \in calls' : c.visit \in 0..visits,
         p \in Offered \/ screen.pages[p].form = "new" \/ ~screen.pages[p].holds
  PROVE  HeldInv'
  <1> DEFINE q == screen.pages[p]
             held == IF q.form = "new" THEN 1 ELSE IF q.holds THEN Seen ELSE cache[q.reads]
  <1>1. /\ screen' = screen /\ visits' = visits + 1 /\ visits \in Nat /\ Here' = q
        /\ Now' = Now /\ Now \in Nat \ {0} /\ RowsInv /\ HeldInv
        /\ \A c : Submits(c)' = Submits(c)
    BY SameScreen, Numbered DEF Opens, Here, Shape, Now, Sound, Submits
  <1>2. form' = IF (q.form = "none" /\ ~q.holds) \/ held = 0 THEN None ELSE Hydrated(held)
    BY DEF Opens, Filled
  <1>3. held \in 0..Now
    BY <1>1, SeenIsAVersion, TablesHere DEF ShowsTheRecord, Keys, Shape, QueryShape
  <1>4. q.holds \/ q.form = "new" => held \in 1..Now
    <2>1. CASE q.form = "new"
      BY <1>1, <2>1
    <2>2. CASE q.form # "new" /\ q.holds
      BY <1>1, <2>2, OfferedIsAccepted
    <2> QED BY <2>1, <2>2
  <1>5. q.form = "new" => held = 1
    OBVIOUS
  <1>6. q.form = "overlay" => held = cache[q.reads]
    BY TablesHere DEF ShowsTheRecord
  <1> HIDE DEF held, q
  <1>7. form' # None => held \in 1..Now /\ form' = Hydrated(held)
    BY <1>2, <1>3
  <1>8. form' # None => FormOK(form', Now)
    BY <1>1, <1>7, HydratedOK
  <1>9. q.holds \/ q.form = "new" => form' = Hydrated(held) /\ held \in 1..Now
    BY <1>1, <1>2, <1>4
  <1>10. /\ q.holds \/ q.form = "new" => form' # None
         /\ q.form = "new" => form'.base = 1
    BY <1>1, <1>5, <1>9, HydratedOK
  <1>11. q.form = "overlay" /\ form' # None => cache'[q.reads] # 0
    BY <1>6, <1>7
  <1>12. \A c \in calls' : c.visit # visits'
    BY <1>1
  <1>13. OverlayInv'
    BY <1>1, <1>11, <1>12 DEF OverlayInv
  <1> QED BY <1>1, <1>8, <1>10, <1>13 DEF HeldInv
\* Of the calls of this page, one carries its form.
SubmitHere == \E c \in calls : c.visit = visits /\ Submits(c.control)

LEMMA SameSubmits ==
  ASSUME fixed' = fixed, visits' = visits,
         \A d \in calls' : \E c \in calls : d.visit = c.visit /\ d.control = c.control
  PROVE  SubmitHere' => SubmitHere
  BY SameScreen DEF SubmitHere, Submits

\* A step that leaves the page and its form where they are.
LEMMA HeldKept ==
  ASSUME Shape, Sound, fixed' = fixed, rows' = rows \/ Appended,
         UNCHANGED <<page, cache, form, visits>>, SubmitHere' => SubmitHere \/ form # None
  PROVE  HeldInv'
  <1>1. /\ screen' = screen /\ Here' = Here /\ Now \in Nat /\ Now' \in Nat /\ Now <= Now'
        /\ HeldInv
    BY StepLater DEF Here, Sound
  <1>2. form # None => FormOK(form, Now')
    BY <1>1, FormOKLater DEF HeldInv
  <1>3. OverlayInv'
    BY <1>1 DEF HeldInv, OverlayInv, SubmitHere
  <1> QED BY <1>1, <1>2, <1>3 DEF HeldInv

\* A page whose form has become another, of a version, and stays whole.
LEMMA HeldRefilled ==
  ASSUME Shape, Sound, UNCHANGED <<fixed, page, rows, calls, visits>>,
         form' = form \/ FormOK(form', Now),
         Here.form = "new" => form'.base = 1,
         \A k \in Keys : cache'[k] = cache[k] \/ cache'[k] # 0,
         form = None /\ form' # None /\ Here.form = "overlay" => cache'[Here.reads] # 0
  PROVE  HeldInv'
  <1>1. /\ screen' = screen /\ Here' = Here /\ Now' = Now /\ Now \in Nat /\ HeldInv
        /\ (SubmitHere <=> SubmitHere')
    BY StepLater DEF Here, Sound, Now, SubmitHere, Submits
  <1>2. form' # None => FormOK(form', Now')
    BY <1>1 DEF HeldInv
  <1>3. form # None => form' # None
    BY <1>1, FormIsNotNone
  <1>4. Here.form = "overlay" => Here.reads \in Keys
    BY HereReads
  <1>5. OverlayInv'
    <2> SUFFICES ASSUME Here.form = "overlay", form' # None \/ SubmitHere
                 PROVE  cache'[Here.reads] # 0
      BY <1>1 DEF OverlayInv, SubmitHere
    <2>1. CASE form # None \/ SubmitHere
      BY <1>1, <1>4, <2>1 DEF HeldInv, OverlayInv, SubmitHere
    <2> QED BY <2>1
  <1> QED BY <1>1, <1>2, <1>3, <1>5 DEF HeldInv

LEMMA AnswerHeld ==
  ASSUME Shape, Sound, UNCHANGED fixed, NEW k \in Keys, AnswerFetch(k)
  PROVE  HeldInv'
  <1>1. /\ UNCHANGED <<page, rows, calls, visits>> /\ HeldInv /\ RowsInv
        /\ Now \in Nat
    BY Numbered DEF AnswerFetch, counters, Sound, Shape
  <1>2. /\ fetching[k] \in 1..Now
        /\ cache' = [cache EXCEPT ![k] = fetching[k]] /\ cache \in [Keys -> 0..Now]
    BY Numbered DEF AnswerFetch, Shape, QueryShape
  <1>3. \A j \in Keys : cache'[j] = cache[j] \/ cache'[j] # 0
    BY <1>2
  <1>4. FormOK(Hydrated(fetching[k]), Now)
    BY <1>1, <1>2, HydratedOK
  <1>5. form # None => FormOK(Rebased(fetching[k]), Now)
    <2>1. CASE form # None /\ form.typed
      <3>1. FormOK(form, Now)
        BY <1>1, <2>1 DEF HeldInv
      <3>2. Rebased(fetching[k]) = [form EXCEPT !.base = fetching[k]]
        BY <2>1 DEF Rebased
      <3> QED BY <1>2, <2>1, <3>1, <3>2 DEF FormOK, FormFields
    <2>2. CASE form # None /\ ~form.typed
      BY <1>4, <2>2 DEF Rebased
    <2> QED BY <2>1, <2>2
  <1>6. \/ form' = form
        \/ k = Here.reads /\ ~Here.holds /\ Here.form # "new"
           /\ \/ form' = Hydrated(fetching[k])
              \/ form # None /\ form' = Rebased(fetching[k])
    BY <1>1 DEF AnswerFetch, Follows, Here, HeldInv
  <1>7. k = Here.reads => cache'[Here.reads] # 0
    BY <1>2
  <1>8. form' = form \/ FormOK(form', Now)
    BY <1>4, <1>5, <1>6
  <1>9. Here.form = "new" => form'.base = 1
    BY <1>1, <1>6 DEF HeldInv
  <1> QED BY <1>1, <1>3, <1>6, <1>7, <1>8, <1>9, HeldRefilled

LEMMA TypeHeld ==
  ASSUME Shape, Sound, UNCHANGED fixed, NEW f \in Here.fields, Type(Fate(f))
  PROVE  HeldInv'
  <1>1. /\ UNCHANGED <<page, rows, calls, visits, cache>> /\ HeldInv /\ Now \in Nat
        /\ form # None /\ FormOK(form, Now)
    BY Numbered DEF Type, counters, queries, Sound, Shape, HeldInv
  <1>2. form' = [form EXCEPT !.value = -(10 * presses + visits), !.typed = TRUE, !.field = Fate(f)]
    BY DEF Type
  <1>3. Fate(f) \in {"sent", "ignored"}
    BY TablesHere, HereReads DEF SendsWhatIsTyped, Fate
  <1>4. -(10 * presses + visits) \in Int
    BY DEF Shape
  <1>5. FormOK(form', Now) /\ form'.base = form.base
    BY <1>1, <1>2, <1>3, <1>4 DEF FormOK, FormFields
  <1>6. Here.form = "new" => form'.base = 1
    BY <1>1, <1>5 DEF HeldInv
  <1> QED BY <1>1, <1>5, <1>6, HeldRefilled

LEMMA SettledHeld ==
  ASSUME Shape, Sound, FormInv, UNCHANGED fixed, NEW c \in calls, Settled(c)
  PROVE  HeldInv'
  <1>1. /\ c.status = "settling" /\ calls' = calls \ {c}
        /\ UNCHANGED <<page, rows, cache, visits>>
        /\ form' = IF c.visit = visits THEN Hydrated(cache[Here.reads]) ELSE form
    BY DEF Settled, queries, counters
  <1>2. SubmitHere' => SubmitHere
    BY <1>1, SameSubmits
  <1>3. CASE c.visit # visits
    BY <1>1, <1>2, <1>3, HeldKept
  <1>4. CASE c.visit = visits
    <2>1. Here.form = "overlay" /\ SubmitHere
      BY <1>1, <1>4 DEF FormInv, SettlingHere, Sound, CallsTrue, CallTrue, SubmitHere
    <2>2. cache[Here.reads] # 0
      BY <2>1 DEF Sound, HeldInv, OverlayInv, SubmitHere
    <2>3. Here.reads \in Keys /\ cache[Here.reads] \in 1..Now
      <3>1. Here.reads \in Keys
        BY <2>1, HereReads
      <3> QED BY <2>2, <3>1, Numbered DEF Shape, QueryShape
    <2>4. FormOK(form', Now) /\ form' # None
      BY <1>1, <1>4, <2>3, HydratedOK DEF Sound
    <2>5. Here' = Here /\ Now' = Now
      BY <1>1, SameScreen DEF Here, Now
    <2> QED BY <1>1, <2>1, <2>2, <2>4, <2>5 DEF HeldInv, OverlayInv
  <1> QED BY <1>3, <1>4

LEMMA HeldStep == Shape /\ FormInv /\ Sound /\ [Next]_vars => HeldInv'
  <1> SUFFICES ASSUME Shape, FormInv, Sound, [Next]_vars PROVE HeldInv'
    OBVIOUS
  <1>0. /\ fixed' = fixed /\ (rows' = rows \/ Appended)
        /\ page \in DOMAIN screen.pages /\ visits \in Nat
        /\ \A c \in calls : CallShape(c) /\ c.visit \in 0..visits
        /\ LeadsToPages(screen) /\ ShowsTheRecord(screen)
    BY StepRows, TablesHere DEF Shape, CallShape
  <1>1. CASE \E p \in Reachable : Visit(p)
    <2>1. PICK p \in Reachable : Visit(p)
      BY <1>1
    <2>2. p \in DOMAIN screen.pages /\ (p \in Offered \/ p \in screen.nav)
      BY <1>0 DEF Reachable, LeadsToPages
    <2>3. Opens(p) /\ UNCHANGED <<fixed, rows, cache, calls>>
      BY <2>1 DEF Visit
    <2>4. p \in Offered \/ screen.pages[p].form = "new" \/ ~screen.pages[p].holds
      BY <1>0, <2>2 DEF ShowsTheRecord
    <2>5. \A c \in calls' : c.visit \in 0..visits
      BY <1>0, <2>3
    <2> QED BY <2>2, <2>3, <2>4, <2>5, OpensHeld
  <1>2. CASE \/ \E k \in Keys : ServeFetch(k)
             \/ \E k \in Polled : Poll(k)
             \/ \E c \in DOMAIN screen.calls : Other(c)
             \/ UNCHANGED vars
    <2>1. UNCHANGED <<page, cache, form, visits, calls>>
      BY <1>2 DEF ServeFetch, Poll, Other, counters, queries, vars
    <2>2. SubmitHere' => SubmitHere
      BY <1>0, <2>1, SameSubmits
    <2> QED BY <1>0, <2>1, <2>2, HeldKept
  <1>3. CASE \E k \in Keys : AnswerFetch(k)
    BY <1>0, <1>3, AnswerHeld
  <1>4. CASE \E fate \in {Fate(f) : f \in Here.fields} : Type(fate)
    BY <1>0, <1>4, TypeHeld
  <1>5. CASE \E c \in Offered \cap DOMAIN screen.calls : Press(c)
    <2>1. PICK c : Press(c)
      BY <1>5
    <2>2. UNCHANGED <<page, cache, form, visits>>
      BY <2>1 DEF Press, queries
    <2>3. \A d \in calls' : d \in calls \/ d.control = c
      BY <2>1 DEF Press
    <2>4. SubmitHere' => SubmitHere \/ form # None
      BY <1>0, <2>1, <2>2, <2>3, SameScreen DEF Press, SubmitHere, Submits
    <2> QED BY <1>0, <2>2, <2>4, HeldKept
  <1>6. CASE \E c \in calls : ServeCall(c)
    <2>1. PICK c \in calls : ServeCall(c)
      BY <1>6
    <2>2. UNCHANGED <<page, cache, form, visits>>
      BY <2>1 DEF ServeCall, queries, counters
    <2>3. \A d \in calls' : \E e \in calls : d.visit = e.visit /\ d.control = e.control
      <3> DEFINE d1 == [c EXCEPT !.status = IF screen.calls[c.control].errs THEN "error" ELSE "ok", !.at = Now + 1]
                 d2 == [c EXCEPT !.status = "refused"]
      <3>1. d1.visit = c.visit /\ d1.control = c.control /\ d2.visit = c.visit /\ d2.control = c.control
        BY <1>0 DEF CallShape, Shaped, CallFields
      <3>2. calls' \subseteq calls \cup {d1, d2}
        <4> HIDE DEF d1, d2
        <4> QED BY <2>1 DEF ServeCall, d1, d2
      <3> HIDE DEF d1, d2
      <3> QED BY <3>1, <3>2
    <2> QED BY <1>0, <2>2, <2>3, SameSubmits, HeldKept
  <1>7. CASE \E c \in calls : Succeeded(c)
    <2>1. PICK c \in calls : Succeeded(c)
      BY <1>7
    <2>2. \A d \in calls' : \E e \in calls : d.visit = e.visit /\ d.control = e.control
      <3> DEFINE d1 == [c EXCEPT !.status = "settling"]
      <3>1. d1.visit = c.visit /\ d1.control = c.control
        BY <1>0 DEF CallShape, Shaped, CallFields
      <3>2. calls' \subseteq calls \cup {d1}
        BY <2>1 DEF Succeeded
      <3> HIDE DEF d1
      <3> QED BY <3>1, <3>2
    <2> DEFINE goes == screen.calls[c.control].goes
    <2>3. c.control \in DOMAIN screen.calls /\ goes \in {"stay"} \cup DOMAIN screen.pages
      BY <1>0 DEF LeadsToPages, CallShape
    <2>4. CASE UNCHANGED <<page, form, visits>>
      <3>1. UNCHANGED <<page, cache, form, visits>>
        BY <2>1, <2>4 DEF Succeeded
      <3> QED BY <1>0, <2>2, <3>1, SameSubmits, HeldKept
    <2>5. CASE Opens(goes) /\ goes # "stay"
      <3>1. \A d \in calls' : d.visit \in 0..visits
        BY <1>0, <2>2
      <3>2. UNCHANGED <<fixed, rows, cache>>
        BY <2>1 DEF Succeeded
      <3>3. ~screen.pages[goes].holds
        BY <1>0, <2>3, <2>5 DEF ShowsTheRecord
      <3> QED BY <2>3, <2>5, <3>1, <3>2, <3>3, OpensHeld
    <2> QED BY <2>1, <2>4, <2>5 DEF Succeeded
  <1>8. CASE \E c \in calls : Settled(c)
    BY <1>0, <1>8, SettledHeld
  <1>9. CASE \E c \in calls : Failed(c)
    <2>1. PICK c \in calls : Failed(c)
      BY <1>9
    <2>2. UNCHANGED <<page, cache, form, visits>>
      BY <2>1 DEF Failed, queries, counters
    <2>3. \A d \in calls' : \E e \in calls : d.visit = e.visit /\ d.control = e.control
      BY <2>1, FailedCall DEF KeptAs
    <2> QED BY <1>0, <2>2, <2>3, SameSubmits, HeldKept
  <1> QED BY <1>1, <1>2, <1>3, <1>4, <1>5, <1>6, <1>7, <1>8, <1>9 DEF Next
(***************************************************************************)
(* The calls.                                                               *)
(***************************************************************************)
\* A call that is not touched is as true when there are more versions.
LEMMA CallStaysTrue ==
  ASSUME Shape, fixed' = fixed, rows' = rows \/ Appended, NEW c \in calls, CallTrue(c)
  PROVE  CallTrue(c)'
  <1>1. /\ screen' = screen /\ Now \in Nat \ {0} /\ Now' \in Nat /\ Now <= Now'
        /\ \A v \in 1..Now : rows'[v] = rows[v]
    BY StepLater
  <1>2. c.base \in 1..Now /\ c.base \in 1..Now' /\ c.at \in 0..Now
    BY <1>1 DEF CallTrue, Shape, CallShape
  <1>3. \A v \in 1..Now : Accepted(c.control, v)' <=> Accepted(c.control, v)
    BY <1>1 DEF Accepted
  <1>4. c.form # None => FormOK(c.form, Now')
    BY <1>1, FormOKLater DEF CallTrue
  <1>5. c.control \in screen'.vain \/ Accepted(c.control, c.base)'
    BY <1>1, <1>2, <1>3 DEF CallTrue
  <1>6. c.status = "refused" => \E v \in c.base..Now' : ~Accepted(c.control, v)'
    <2> SUFFICES ASSUME c.status = "refused"
                 PROVE  \E v \in c.base..Now' : ~Accepted(c.control, v)'
      OBVIOUS
    <2>1. PICK v \in c.base..Now : ~Accepted(c.control, v)
      BY DEF CallTrue
    <2>2. v \in 1..Now /\ v \in c.base..Now'
      BY <1>1, <1>2
    <2> QED BY <1>3, <2>1, <2>2
  <1>7. Submits(c.control)' <=> Submits(c.control)
    BY <1>1 DEF Submits
  <1>8. c.at # 0 => rows'[c.at] = rows[c.at]
    BY <1>1, <1>2
  <1> QED BY <1>2, <1>4, <1>5, <1>6, <1>7, <1>8 DEF CallTrue

LEMMA CallsStayTrue ==
  ASSUME Shape, Sound, [Next]_vars
  PROVE  \A c \in calls : CallTrue(c)'
  BY StepRows, CallStaysTrue DEF Sound, CallsTrue

LEMMA PressTrue ==
  ASSUME Shape, Sound, [Next]_vars, NEW c \in Offered \cap DOMAIN screen.calls, Press(c)
  PROVE  CallsTrue'
  <1>1. PICK d : /\ calls' = calls \cup {d}
                 /\ d = [control |-> c, nth |-> presses', visit |-> visits, base |-> Seen,
                         form |-> IF Submits(c) THEN form ELSE None, status |-> "sent", at |-> 0]
    BY DEF Press
  <1>2. /\ d.control = c /\ d.base = Seen /\ d.status = "sent" /\ d.at = 0
        /\ d.form # None => d.form = form
    BY <1>1
  <1>3. screen' = screen /\ rows' = rows /\ Now' = Now
    BY StepRows, SameScreen DEF Press, Now
  <1>4. /\ Seen \in 1..Now
        /\ c \in screen.vain \/ Accepted(c, Seen)
        /\ form # None => FormOK(form, Now)
    BY OfferedIsAccepted DEF Sound, HeldInv
  <1>5. CallTrue(d)'
    BY <1>2, <1>3, <1>4 DEF CallTrue, Accepted
  <1> QED BY <1>1, <1>5, CallsStayTrue DEF CallsTrue

LEMMA ServeTrue ==
  ASSUME Shape, Sound, [Next]_vars, NEW c \in calls, ServeCall(c)
  PROVE  CallsTrue'
  <1>0. /\ Shaped(c) /\ CallTrue(c) /\ c.status = "sent" /\ c.control \in DOMAIN screen.calls
        /\ Now \in Nat \ {0}
    BY Numbered DEF Sound, CallsTrue, Shape, CallShape, ServeCall
  <1>b. screen' = screen /\ fixed' = fixed
    BY StepRows, SameScreen
  <1> DEFINE base == IF c.form = None THEN c.base ELSE c.form.base
             status == IF screen.calls[c.control].errs THEN "error" ELSE "ok"
  <1>1. CASE /\ Accepts(c.control) /\ Write(c.control, base, Sent(c))
             /\ calls' = (calls \ {c}) \cup {[c EXCEPT !.status = status, !.at = Now + 1]}
    <2>1. PICK d : /\ d.control = c.control /\ d.base = c.base /\ d.form = c.form
                   /\ d.at = Now + 1 /\ d.status \in {"ok", "error"}
                   /\ calls' = (calls \ {c}) \cup {d}
      <3> DEFINE e == [c EXCEPT !.status = status, !.at = Now + 1]
      <3>1. status \in {"ok", "error"}
        OBVIOUS
      <3> HIDE DEF status
      <3>2. /\ e.control = c.control /\ e.base = c.base /\ e.form = c.form /\ e.at = Now + 1
            /\ e.status = status
        BY <1>0 DEF Shaped, CallFields
      <3>3. calls' = (calls \ {c}) \cup {e}
        BY <1>1
      <3> HIDE DEF e
      <3> QED BY <3>1, <3>2, <3>3
    <2>2. /\ Now' = Now + 1 /\ rows'[Now + 1].value = Sent(c)
          /\ \A v \in 1..Now : rows'[v] = rows[v]
      <3> DEFINE r == [status |-> Becomes(c.control, base), value |-> Sent(c)]
      <3>1. rows' = Append(rows, r) /\ r.value = Sent(c)
        BY <1>1 DEF Write
      <3> HIDE DEF r, base
      <3> QED BY <1>0, <3>1, RowsAppended, RowsGrow, StepRows DEF Shape
    <2> HIDE DEF base
    <2>3. CallTrue(c)'
      BY CallsStayTrue
    <2>4. c.form # None /\ c.form.field \in {"none", "sent"} => rows'[d.at].value = c.form.value
      BY <2>1, <2>2 DEF Sent
    <2>5. d.at # 0
      BY <1>0, <2>1
    <2>6. CallTrue(d)'
      BY <2>1, <2>3, <2>4, <2>5 DEF CallTrue
    <2> QED BY <2>1, <2>6, CallsStayTrue DEF CallsTrue
  <1>2. CASE /\ ~Accepts(c.control) /\ rows' = rows
             /\ calls' = (calls \ {c}) \cup {[c EXCEPT !.status = "refused"]}
    <2> DEFINE d == [c EXCEPT !.status = "refused"]
    <2>1. /\ d.control = c.control /\ d.base = c.base /\ d.form = c.form /\ d.at = c.at
          /\ d.status = "refused"
      BY <1>0 DEF Shaped, CallFields
    <2> HIDE DEF d, base
    <2>2. Now' = Now /\ Now \in c.base..Now /\ ~Accepted(c.control, Now)'
      BY <1>0, <1>2, <1>b DEF Now, CallTrue, Accepts, Accepted
    <2>3. CallTrue(c)'
      BY CallsStayTrue
    <2>4. CallTrue(d)'
      BY <2>1, <2>2, <2>3 DEF CallTrue
    <2> QED BY <1>2, <2>4, CallsStayTrue DEF CallsTrue, d
  <1> QED BY <1>1, <1>2 DEF ServeCall

LEMMA CallsTrueStep == Shape /\ Sound /\ [Next]_vars => CallsTrue'
  <1> SUFFICES ASSUME Shape, Sound, [Next]_vars PROVE CallsTrue'
    OBVIOUS
  <1>1. CASE calls' \subseteq calls
    BY <1>1, CallsStayTrue DEF CallsTrue
  <1>2. CASE \E c \in Offered \cap DOMAIN screen.calls : Press(c)
    BY <1>2, PressTrue
  <1>3. CASE \E c \in calls : ServeCall(c)
    BY <1>3, ServeTrue
  <1>4. CASE \E c \in calls : Succeeded(c)
    <2>1. PICK c \in calls : Succeeded(c)
      BY <1>4
    <2> DEFINE d == [c EXCEPT !.status = "settling"]
    <2>2. \/ calls' \subseteq calls
          \/ calls' \subseteq (calls \cup {d}) /\ Submits(c.control)
      BY <2>1 DEF Succeeded, Settles
    <2>3. /\ d.control = c.control /\ d.base = c.base /\ d.form = c.form /\ d.at = c.at
          /\ d.status = "settling"
      BY DEF Shape, CallShape, Shaped, CallFields
    <2> HIDE DEF d
    <2>4. Submits(c.control)' <=> Submits(c.control)
      BY StepRows, SameScreen DEF Submits
    <2>5. CallTrue(c)'
      BY CallsStayTrue
    <2>6. Submits(c.control) => CallTrue(d)'
      BY <2>3, <2>4, <2>5 DEF CallTrue
    <2> QED BY <2>2, <2>6, CallsStayTrue DEF CallsTrue
  <1>5. CASE \/ \E p \in Reachable : Visit(p)
             \/ \E k \in Polled : Poll(k)
             \/ \E k \in Keys : ServeFetch(k) \/ AnswerFetch(k)
             \/ \E fate \in {Fate(f) : f \in Here.fields} : Type(fate)
             \/ \E c \in DOMAIN screen.calls : Other(c)
             \/ \E c \in calls : Settled(c)
             \/ UNCHANGED vars
    BY <1>1, <1>5 DEF Visit, Poll, ServeFetch, AnswerFetch, Type, Other, Settled, vars
  <1>6. CASE \E c \in calls : Failed(c)
    <2>1. PICK c \in calls : Failed(c)
      BY <1>6
    <2>2. PICK d : /\ d.control = c.control /\ d.base = c.base /\ d.form = c.form /\ d.at = c.at
                   /\ d.status = "failed" /\ calls' \subseteq calls \cup {d}
      BY <2>1, FailedCall DEF KeptAs
    <2>3. CallTrue(c)'
      BY CallsStayTrue
    <2>4. CallTrue(d)'
      BY <2>2, <2>3 DEF CallTrue
    <2> QED BY <2>2, <2>4, CallsStayTrue DEF CallsTrue
  <1> QED BY <1>2, <1>3, <1>4, <1>5, <1>6 DEF Next

LEMMA SoundSpec == Spec => [](Shape /\ FormInv /\ CallInv /\ Sound)
  <1>1. Init => Shape /\ FormInv /\ CallInv /\ Sound
    BY ShapeInit, FormInit, CallInit, SoundInit
  <1>2. Shape /\ FormInv /\ CallInv /\ Sound /\ [Next]_vars
          => Shape' /\ FormInv' /\ CallInv' /\ Sound'
    BY ShapeStep, FormStep, CallStep, RowsStep, HeldStep, CallsTrueStep DEF Sound
  <1> QED BY <1>1, <1>2, PTL DEF Spec

(* A button is refused only when somebody has moved the record on since the *)
(* state the page showed, for any tables that offer what is accepted.       *)
THEOREM RefusalsAreNews == Spec => []RefusedOnlyWhenMoved
  <1>1. Shape /\ Sound => RefusedOnlyWhenMoved
    <2> SUFFICES ASSUME Shape, Sound, NEW c \in calls, c.status = "refused",
                        c.control \notin screen.vain
                 PROVE  \E v \in c.base..Now : rows[v].status # rows[c.base].status
      BY DEF RefusedOnlyWhenMoved
    <2>1. Accepted(c.control, c.base) /\ \E v \in c.base..Now : ~Accepted(c.control, v)
      BY DEF Sound, CallsTrue, CallTrue
    <2> QED BY <2>1 DEF Accepted
  <1> QED BY <1>1, SoundSpec, PTL

(* A save that was accepted has stored what was typed.                      *)
THEOREM EditsAreStored == Spec => []EditsStick
  <1>1. Sound => EditsStick
    <2> SUFFICES ASSUME Sound, NEW c \in calls, c.status = "ok", c.form # None, c.form.typed,
                        c.form.field # "ignored"
                 PROVE  rows[c.at].value = c.form.value
      BY DEF EditsStick
    <2>1. CallTrue(c)
      BY DEF Sound, CallsTrue
    <2>2. FormOK(c.form, Now)
      BY <2>1 DEF CallTrue
    <2>3. c.form.field = "sent"
      BY <2>2 DEF FormOK
    <2> QED BY <2>1, <2>3 DEF CallTrue
  <1> QED BY <1>1, SoundSpec, PTL

(* A decision about money or days is never written over somebody else's,    *)
(* but by the area's overrides, however long the dialog was left open.      *)
THEOREM DecisionsStand == Spec => []DecidedOnce
  <1>1. Shape /\ CallInv /\ Sound => DecidedOnce
    <2> SUFFICES ASSUME Shape, CallInv, Sound, NEW c \in calls, c.status = "ok",
                        screen.calls[c.control].decides, c.control \notin screen.overrides,
                        rows[c.at - 1].status \in screen.decided
                 PROVE  rows[c.at].status = rows[c.at - 1].status
      BY DEF DecidedOnce
    <2> DEFINE call == screen.calls[c.control]
               was == rows[c.at - 1].status
    <2>1. c.control \in DOMAIN screen.calls /\ c.at \in 0..Now /\ c.at # 0 /\ Now \in Nat
      BY Numbered DEF Shape, CallShape, Sound, CallsTrue, CallTrue
    <2>2. /\ ~call.restates
          /\ \A s \in screen.decided \cap DOMAIN call.becomes : call.becomes[s] = s
      BY <2>1, TablesHere DEF RespectsDecisions
    <2>3. Left(c)
      BY <2>1, <2>2 DEF CallInv, Recorded
    <2>4. was \in DOMAIN call.becomes /\ rows[c.at].status = call.becomes[was]
      BY <2>3 DEF Left
    <2> QED BY <2>2, <2>4
  <1> QED BY <1>1, SoundSpec, PTL
(***************************************************************************)
(* Types.  How many pages are opened and versions written is bounded by how *)
(* often a button is pressed: a press lets one page be opened and one       *)
(* version be written, and while its call is under way it has not done so.  *)
(***************************************************************************)
CountOf(C, S) == Cardinality({c \in C : c.status \in S})

LEMMA CountType ==
  ASSUME NEW C, NEW S, IsFiniteSet(C)
  PROVE  CountOf(C, S) \in Nat
  BY FS_Subset, FS_CardinalityType DEF CountOf

LEMMA CountAdded ==
  ASSUME NEW C, NEW S, NEW d, NEW D, IsFiniteSet(C), D \subseteq C \cup {d}
  PROVE  /\ CountOf(D, S) \in Nat
         /\ CountOf(D, S) <= CountOf(C, S) + 1
         /\ d \in C \/ d.status \notin S => CountOf(D, S) <= CountOf(C, S)
  <1> DEFINE F == {c \in C : c.status \in S}
             G == {c \in D : c.status \in S}
  <1>1. IsFiniteSet(F)
    BY FS_Subset
  <1>2. IsFiniteSet(F \cup {d}) /\ Cardinality(F \cup {d}) <= Cardinality(F) + 1
    <2> HIDE DEF F
    <2>1. /\ IsFiniteSet(F \cup {d})
          /\ Cardinality(F \cup {d}) = IF d \in F THEN Cardinality(F) ELSE Cardinality(F) + 1
      BY <1>1, FS_AddElement
    <2>2. Cardinality(F) \in Nat
      BY <1>1, FS_CardinalityType
    <2> QED BY <2>1, <2>2
  <1>3. G \subseteq F \cup {d} /\ (d \in C \/ d.status \notin S => G \subseteq F)
    OBVIOUS
  <1> HIDE DEF F, G
  <1>4. /\ IsFiniteSet(G) /\ Cardinality(G) <= Cardinality(F \cup {d})
        /\ Cardinality(G) \in Nat /\ Cardinality(F) \in Nat /\ Cardinality(F \cup {d}) \in Nat
    BY <1>1, <1>2, <1>3, FS_Subset, FS_CardinalityType
  <1>5. d \in C \/ d.status \notin S => Cardinality(G) <= Cardinality(F)
    BY <1>1, <1>3, FS_Subset
  <1> QED BY <1>2, <1>4, <1>5 DEF CountOf, F, G

LEMMA CountTaken ==
  ASSUME NEW C, NEW S, NEW c \in C, IsFiniteSet(C), c.status \in S
  PROVE  CountOf(C \ {c}, S) = CountOf(C, S) - 1
  <1> DEFINE F == {e \in C : e.status \in S}
  <1>1. IsFiniteSet(F) /\ c \in F
    BY FS_Subset
  <1>2. {e \in C \ {c} : e.status \in S} = F \ {c}
    OBVIOUS
  <1> HIDE DEF F
  <1>3. Cardinality(F \ {c}) = Cardinality(F) - 1
    BY <1>1, FS_RemoveElement
  <1> QED BY <1>2, <1>3 DEF CountOf, F

\* The calls the server has still to answer, and those that can still open a page.
Waiting == {"sent"}
Opening == {"sent", "ok"}

Counted(C, n) ==
  /\ IsFiniteSet(C)
  /\ \A c \in C : /\ c.nth \in 1..n
                  /\ c.status \in {"sent", "ok", "refused", "error", "failed", "settling"}

CountInv ==
  /\ budget \in Budgets /\ others \in 0..MaxOthers /\ presses \in 0..budget.presses
  /\ Counted(calls, presses)
  /\ CountOf(calls, Opening) <= presses
  /\ visits + CountOf(calls, Opening) <= budget.visits + presses
  /\ Now + CountOf(calls, Waiting) <= presses + others + 1

LEMMA CountInit == Init => CountInv
  <1> SUFFICES ASSUME Init PROVE CountInv
    OBVIOUS
  <1>1. budget \in [visits: Nat, presses: Nat] /\ budget \in Budgets /\ MaxOthers \in Nat
    BY ConsoleAssumption DEF Init
  <1>2. Now = 1
    BY DEF Init, Now
  <1>3. {c \in calls : c.status \in Opening} = {} /\ {c \in calls : c.status \in Waiting} = {}
    BY DEF Init
  <1>4. CountOf(calls, Opening) = 0 /\ CountOf(calls, Waiting) = 0
    BY <1>3, FS_EmptySet DEF CountOf
  <1> QED BY <1>1, <1>2, <1>4, FS_EmptySet DEF Init, CountInv, Counted

LEMMA OneVersionMore ==
  ASSUME NEW n \in Nat, NEW m \in Nat, NEW w \in Nat, NEW x \in Nat, NEW p \in Nat, NEW o \in Nat,
         n + w <= p + o + 1, m <= n + 1
  PROVE  /\ m + w <= p + (o + 1) + 1
         /\ x <= w - 1 => m + x <= p + o + 1
  OBVIOUS

\* One call is answered, dropped or made; the rest are counted as they were.
LEMMA CountStep == Shape /\ CountInv /\ [Next]_vars => CountInv'
  <1> SUFFICES ASSUME Shape, CountInv, [Next]_vars PROVE CountInv'
    OBVIOUS
  <1> DEFINE open == CountOf(calls, Opening)
             waiting == CountOf(calls, Waiting)
             open2 == CountOf(calls', Opening)
             waiting2 == CountOf(calls', Waiting)
             bound == budget.visits
             most == budget.presses
  <1>0. /\ bound \in Nat /\ most \in Nat /\ MaxOthers \in Nat
        /\ others \in 0..MaxOthers /\ presses \in 0..most
        /\ Counted(calls, presses) /\ open \in Nat /\ waiting \in Nat
        /\ open <= presses /\ visits + open <= bound + presses
        /\ Now + waiting <= presses + others + 1
        /\ visits \in Nat /\ Now \in Nat /\ Now' \in Nat /\ Now' <= Now + 1
    <2>1. Now \in Nat /\ Now' \in Nat /\ Now' <= Now + 1
      BY StepRows, RowsGrow DEF Shape
    <2>2. open \in Nat /\ waiting \in Nat
      BY CountType DEF CountInv, Counted
    <2> QED BY <2>1, <2>2, ConsoleAssumption DEF CountInv, Shape
  <1>s. rows' = rows => Now' = Now
    BY DEF Now
  <1>f. budget' = budget /\ budget \in Budgets
    BY StepRows DEF fixed, CountInv
  <1>h. /\ bound = budget.visits /\ most = budget.presses /\ bound' = bound /\ most' = most
        /\ open2 = CountOf(calls, Opening)' /\ waiting2 = CountOf(calls, Waiting)'
    BY <1>f DEF CountOf, Opening, Waiting
  <1> HIDE DEF open, waiting, open2, waiting2, bound, most
  <1>a. ASSUME Counted(calls', presses'), others' \in 0..MaxOthers, presses' \in 0..most,
               open2 <= presses', visits' + open2 <= bound + presses',
               Now' + waiting2 <= presses' + others' + 1
        PROVE  CountInv'
    BY <1>f, <1>h, <1>a DEF CountInv, bound, most
  <1>b. calls' = calls => open2 = open /\ waiting2 = waiting
    BY DEF open, open2, waiting, waiting2
  <1>1. CASE \E p \in Reachable : Visit(p)
    <2>1. visits < bound /\ visits' = visits + 1 /\ UNCHANGED <<calls, presses, others, rows>>
      BY <1>1, <1>h DEF Visit, Opens
    <2> QED BY <1>0, <1>a, <1>b, <1>s, <2>1
  <1>2. CASE \E c \in DOMAIN screen.calls : Other(c)
    <2>1. others < MaxOthers /\ others' = others + 1 /\ UNCHANGED <<calls, presses, visits>>
      BY <1>2 DEF Other
    <2>2. others' \in 0..MaxOthers /\ presses' \in 0..most
      BY <1>0, <2>1
    <2>3. Now' + waiting2 <= presses' + others' + 1
      <3>1. waiting2 = waiting /\ presses' = presses /\ others' = others + 1
        BY <1>b, <2>1
      <3>2. presses \in Nat /\ others \in Nat
        BY <1>0
      <3>3. Now' + waiting <= presses + (others + 1) + 1
        BY <1>0, <3>2, OneVersionMore
      <3> QED BY <3>1, <3>3
    <2>4. open2 <= presses' /\ visits' + open2 <= bound + presses'
      BY <1>0, <1>b, <2>1
    <2> QED BY <1>0, <1>a, <2>1, <2>2, <2>3, <2>4
  <1>3. CASE \/ \E k \in Polled : Poll(k)
             \/ \E k \in Keys : ServeFetch(k) \/ AnswerFetch(k)
             \/ \E fate \in {Fate(f) : f \in Here.fields} : Type(fate)
             \/ UNCHANGED vars
    <2>1. UNCHANGED <<calls, presses, visits, others, rows>>
      BY <1>3 DEF Poll, ServeFetch, AnswerFetch, Type, counters, vars
    <2> QED BY <1>0, <1>a, <1>b, <1>s, <2>1
  <1>4. CASE \E c \in Offered \cap DOMAIN screen.calls : Press(c)
    <2>1. PICK c \in Offered \cap DOMAIN screen.calls : Press(c)
      BY <1>4
    <2>p. PICK d : /\ calls' = calls \cup {d}
                   /\ d = [control |-> c, nth |-> presses', visit |-> visits, base |-> Seen,
                           form |-> IF Submits(c) THEN form ELSE None, status |-> "sent", at |-> 0]
      BY <2>1 DEF Press
    <2>2. calls' = calls \cup {d} /\ d.nth = presses' /\ d.status = "sent"
      BY <2>p
    <2>3. presses < most /\ presses' = presses + 1 /\ UNCHANGED <<visits, others, rows>>
      BY <2>1, <1>h DEF Press
    <2>4. open2 <= open + 1 /\ waiting2 <= waiting + 1 /\ open2 \in Nat /\ waiting2 \in Nat
      BY <1>0, <2>2, CountAdded DEF Counted, open, open2, waiting, waiting2
    <2>5. IsFiniteSet(calls')
      BY <1>0, <2>2, FS_AddElement DEF Counted
    <2>6. Counted(calls', presses')
      BY <1>0, <2>2, <2>3, <2>5 DEF Counted
    <2> QED BY <1>0, <1>a, <1>s, <2>3, <2>4, <2>6
  <1>5. ASSUME NEW c \in calls, NEW d, calls' \subseteq (calls \ {c}) \cup {d}, d.nth = c.nth,
               d.status \in {"ok", "refused", "error", "settling"},
               c.status \in Opening,
               UNCHANGED <<presses, others>>
        PROVE  /\ Counted(calls', presses')
               /\ open2 \in Nat /\ waiting2 \in Nat /\ open2 <= open /\ waiting2 <= waiting
               /\ d.status # "ok" => open2 <= open - 1
               /\ c.status = "sent" => waiting2 <= waiting - 1
    <2> DEFINE rest == calls \ {c}
    <2>1. IsFiniteSet(rest)
      BY <1>0, FS_RemoveElement DEF Counted
    <2>2. CountOf(rest, Opening) = open - 1
      BY <1>0, <1>5, CountTaken DEF Counted, open
    <2>3. c.status = "sent" => CountOf(rest, Waiting) = waiting - 1
      BY <1>0, CountTaken DEF Counted, waiting, Waiting
    <2>4. CountOf(rest, Waiting) \in Nat /\ CountOf(rest, Waiting) <= waiting
      <3>1. rest \subseteq calls \cup {c}
        OBVIOUS
      <3> HIDE DEF rest
      <3> QED BY <1>0, <3>1, CountAdded DEF Counted, waiting
    <2> HIDE DEF rest
    <2>5. /\ open2 \in Nat /\ waiting2 \in Nat
          /\ open2 <= CountOf(rest, Opening) + 1
          /\ d.status # "ok" => open2 <= CountOf(rest, Opening)
          /\ waiting2 <= CountOf(rest, Waiting)
      <3>1. calls' \subseteq rest \cup {d}
        BY <1>5 DEF rest
      <3>2. d.status \notin Waiting /\ (d.status # "ok" => d.status \notin Opening)
        BY <1>5 DEF Waiting, Opening
      <3> QED BY <2>1, <3>1, <3>2, CountAdded DEF open2, waiting2
    <2>6. Counted(calls', presses')
      <3>1. IsFiniteSet(calls \cup {d}) /\ calls' \subseteq calls \cup {d}
        BY <1>0, <1>5, FS_AddElement DEF Counted
      <3>2. IsFiniteSet(calls')
        BY <3>1, FS_Subset
      <3> QED BY <1>0, <1>5, <3>1, <3>2 DEF Counted
    <2> QED BY <1>0, <2>2, <2>3, <2>4, <2>5, <2>6
  <1>6. CASE \E c \in calls : ServeCall(c)
    <2>1. PICK c \in calls : ServeCall(c)
      BY <1>6
    <2>2. /\ c.status = "sent" /\ c.status \in Opening
          /\ UNCHANGED <<visits, presses, others>>
      BY <2>1 DEF ServeCall, counters, Opening
    <2>3. PICK d : /\ calls' \subseteq (calls \ {c}) \cup {d} /\ d.nth = c.nth
                   /\ d.status \in {"ok", "refused", "error", "settling"}
      <3> DEFINE d1 == [c EXCEPT !.status = IF screen.calls[c.control].errs THEN "error" ELSE "ok", !.at = Now + 1]
                 d2 == [c EXCEPT !.status = "refused"]
      <3>1. /\ d1.nth = c.nth /\ d1.status \in {"ok", "error"}
            /\ d2.nth = c.nth /\ d2.status = "refused"
        BY DEF Shape, CallShape, Shaped, CallFields
      <3>2. calls' = (calls \ {c}) \cup {d1} \/ calls' = (calls \ {c}) \cup {d2}
        <4> HIDE DEF d1, d2
        <4> QED BY <2>1 DEF ServeCall, d1, d2
      <3> HIDE DEF d1, d2
      <3> QED BY <3>1, <3>2
    <2>4. /\ Counted(calls', presses')
          /\ open2 \in Nat /\ waiting2 \in Nat /\ open2 <= open /\ waiting2 <= waiting - 1
      BY <1>5, <2>2, <2>3
    <2>5. Now' + waiting2 <= presses' + others' + 1
      <3>1. presses' = presses /\ others' = others /\ presses \in Nat /\ others \in Nat
        BY <1>0, <2>2
      <3>2. Now' + waiting2 <= presses + others + 1
        BY <1>0, <2>4, <3>1, OneVersionMore
      <3> QED BY <3>1, <3>2
    <2>6. open2 <= presses' /\ visits' + open2 <= bound + presses'
      BY <1>0, <2>2, <2>4
    <2> QED BY <1>0, <1>a, <2>2, <2>4, <2>5, <2>6
  <1>7. CASE \E c \in calls : Succeeded(c)
    <2>1. PICK c \in calls : Succeeded(c)
      BY <1>7
    <2>2. /\ c.status \in Opening /\ UNCHANGED <<presses, others, rows>>
          /\ visits' = visits \/ visits' = visits + 1
      BY <2>1 DEF Succeeded, Opening, Opens
    <2>3. PICK d : /\ calls' \subseteq (calls \ {c}) \cup {d} /\ d.nth = c.nth
                   /\ d.status = "settling"
      <3> DEFINE d1 == [c EXCEPT !.status = "settling"]
      <3>1. d1.nth = c.nth /\ d1.status = "settling"
        BY DEF Shape, CallShape, Shaped, CallFields
      <3>2. calls' \subseteq (calls \ {c}) \cup {d1}
        BY <2>1 DEF Succeeded
      <3> HIDE DEF d1
      <3> QED BY <3>1, <3>2
    <2>4. /\ Counted(calls', presses')
          /\ open2 \in Nat /\ waiting2 \in Nat /\ open2 <= open - 1 /\ waiting2 <= waiting
      BY <1>5, <2>2, <2>3
    <2> QED BY <1>0, <1>a, <1>s, <2>2, <2>4
  <1>8. CASE \E c \in calls : Settled(c) \/ Failed(c)
    <2>1. PICK c \in calls : Settled(c) \/ Failed(c)
      BY <1>8
    <2>s. UNCHANGED <<visits, presses, others, rows>>
      BY <2>1 DEF Settled, Failed, counters
    <2>2. PICK d : /\ calls' \subseteq calls \cup {d} /\ d.nth = c.nth
                   /\ d \in calls \/ d.status = "failed"
      BY <2>1, FailedCall DEF Settled, KeptAs
    <2>d. d \in calls \/ (d.status \notin Opening /\ d.status \notin Waiting)
      BY <2>2 DEF Opening, Waiting
    <2>3. open2 \in Nat /\ waiting2 \in Nat /\ open2 <= open /\ waiting2 <= waiting
      BY <1>0, <2>2, <2>d, CountAdded DEF Counted, open, open2, waiting, waiting2
    <2>4. Counted(calls', presses')
      <3>1. IsFiniteSet(calls \cup {d})
        BY <1>0, FS_AddElement DEF Counted
      <3>2. IsFiniteSet(calls')
        BY <2>2, <3>1, FS_Subset
      <3> QED BY <1>0, <2>2, <2>s, <3>2 DEF Counted
    <2> QED BY <1>0, <1>a, <1>s, <2>s, <2>3, <2>4
  <1> QED BY <1>1, <1>2, <1>3, <1>4, <1>6, <1>7, <1>8 DEF Next
InvalidKeys == invalid \subseteq Keys

LEMMA InvalidStep == Shape /\ InvalidKeys /\ [Next]_vars => InvalidKeys'
  <1> SUFFICES ASSUME Shape, InvalidKeys, [Next]_vars PROVE InvalidKeys'
    OBVIOUS
  <1>0. Keys' = Keys
    BY StepRows, SameScreen
  <1>1. CASE invalid' \subseteq invalid
    BY <1>0, <1>1 DEF InvalidKeys
  <1>2. CASE \E c \in calls : Succeeded(c)
    BY <1>0, <1>2 DEF Succeeded, Invalidated, InvalidKeys
  <1>3. CASE \E k \in Keys : AnswerFetch(k)
    BY <1>1, <1>3 DEF AnswerFetch
  <1>4. CASE \/ \E p \in Reachable : Visit(p)
             \/ \E k \in Polled : Poll(k)
             \/ \E k \in Keys : ServeFetch(k)
             \/ \E fate \in {Fate(f) : f \in Here.fields} : Type(fate)
             \/ \E c \in Offered \cap DOMAIN screen.calls : Press(c)
             \/ \E c \in DOMAIN screen.calls : Other(c)
             \/ \E c \in calls : ServeCall(c) \/ Settled(c) \/ Failed(c)
             \/ UNCHANGED vars
    BY <1>1, <1>4
       DEF Visit, Poll, ServeFetch, Type, Press, Other, ServeCall, Settled, Failed, queries, vars
  <1> QED BY <1>2, <1>3, <1>4 DEF Next

LEMMA FormTyped ==
  ASSUME NEW f, NEW n \in Nat, FormOK(f, n), 1..n \subseteq Versions
  PROVE  f \in Form
  <1>1. /\ f.base \in Versions /\ f.value \in Int /\ f.typed \in BOOLEAN
        /\ f.field \in {"none", "sent", "ignored", "lost"}
    BY DEF FormOK
  <1>2. f = [base |-> f.base, value |-> f.value, typed |-> f.typed, field |-> f.field]
    BY DEF FormOK, FormFields
  <1> HIDE DEF Versions
  <1> QED BY <1>1, <1>2 DEF Form

LEMMA TypeFromInv == Shape /\ Sound /\ CountInv /\ InvalidKeys => TypeOK
  <1> SUFFICES ASSUME Shape, Sound, CountInv, InvalidKeys PROVE TypeOK
    OBVIOUS
  <1> DEFINE bound == budget.visits
             most == budget.presses
             open == CountOf(calls, Opening)
             waiting == CountOf(calls, Waiting)
  <1>1. /\ bound \in Nat /\ most \in Nat /\ MaxOthers \in Nat /\ Now \in Nat \ {0}
        /\ open \in Nat /\ waiting \in Nat /\ visits \in Nat
        /\ others \in 0..MaxOthers /\ presses \in 0..most
        /\ visits + open <= bound + presses
        /\ Now + waiting <= presses + others + 1
    BY ConsoleAssumption, CountType, Numbered DEF CountInv, Counted, Shape
  <1> HIDE DEF open, waiting
  <1>2. Now <= most + MaxOthers + 1 /\ visits <= bound + most
    <2>1. presses \in Nat /\ others \in Nat /\ presses <= most /\ others <= MaxOthers
      BY <1>1
    <2> HIDE DEF bound, most
    <2>2. Now <= presses + others + 1
      BY <1>1, <2>1
    <2> QED BY <1>1, <2>1, <2>2
  <1>3. 1..Now \subseteq Versions
    BY <1>1, <1>2 DEF Versions
  <1>4. Now \in Versions
    BY <1>1, <1>3
  <1>5. form \in Form \cup {None}
    BY <1>1, <1>3, FormTyped DEF Sound, HeldInv
  <1>6. ASSUME NEW c \in calls PROVE c \in CallInFlight
    <2>1. /\ c.control \in DOMAIN screen.calls /\ c.visit \in 0..visits /\ c.at \in 0..Now
          /\ c = [f \in CallFields |-> c[f]]
      BY DEF Shape, CallShape, Shaped
    <2>2. /\ c.nth \in 1..presses
          /\ c.status \in {"sent", "ok", "refused", "error", "failed", "settling"}
      BY DEF CountInv, Counted
    <2>3. c.base \in 1..Now /\ (c.form # None => FormOK(c.form, Now))
      BY DEF Sound, CallsTrue, CallTrue
    <2>4. c.nth \in 1..most
      BY <1>1, <2>2
    <2>5. c.visit \in 0..(bound + most)
      BY <1>1, <1>2, <2>1
    <2>6. c.base \in Versions /\ c.at \in {0} \cup Versions
      BY <1>1, <1>3, <2>1, <2>3
    <2>7. c.form \in Form \cup {None}
      BY <1>1, <1>3, <2>3, FormTyped
    <2>8. c = [control |-> c.control, nth |-> c.nth, visit |-> c.visit, base |-> c.base,
               form |-> c.form, status |-> c.status, at |-> c.at]
      BY <2>1 DEF CallFields
    <2> HIDE DEF Versions, Form
    <2> QED BY <2>1, <2>2, <2>4, <2>5, <2>6, <2>7, <2>8 DEF CallInFlight
  <1>7. /\ area \in DOMAIN Screens /\ page \in DOMAIN screen.pages /\ budget \in Budgets
        /\ invalid \subseteq Keys /\ QueryShape
    BY DEF Shape, CountInv, InvalidKeys
  <1>8. \A v \in 1..Now : rows[v].status \in screen.statuses
    BY DEF Sound, RowsInv
  <1> QED BY <1>4, <1>5, <1>6, <1>7, <1>8 DEF TypeOK, QueryShape

(* Everything stays of its type: a form and a call name versions the record *)
(* has, and however long the browser is used, no more pages are opened and  *)
(* versions written than the presses of buttons allow.                      *)
THEOREM TypeCorrect == Spec => []TypeOK
  <1>1. Init => CountInv /\ InvalidKeys
    BY CountInit DEF Init, InvalidKeys
  <1>2. Shape /\ CountInv /\ InvalidKeys /\ [Next]_vars => CountInv' /\ InvalidKeys'
    BY CountStep, InvalidStep
  <1> QED BY <1>1, <1>2, SoundSpec, TypeFromInv, PTL DEF Spec
=============================================================================
