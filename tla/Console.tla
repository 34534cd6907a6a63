------------------------------- MODULE Console -------------------------------
(***************************************************************************)
(* A page of the administrators' web app (admin-web) over one record of the *)
(* company: the query cache of react-query, the forms hydrated from it, the *)
(* buttons the page offers for the state it shows, the calls they make and  *)
(* the record at the server, which other administrators change too.         *)
(*                                                                         *)
(* The machine is the same for every area of the console; an area is a      *)
(* record of tables (a screen) read off its components and endpoints by the *)
(* modules Console<Area>.  Versions of the record are numbered; a cached    *)
(* answer, the base of a form and an acknowledged write are version numbers.*)
(***************************************************************************)
EXTENDS Integers, Sequences, FiniteSets, ScreenTables

CONSTANTS
  Screens,    \* the areas: for each name its tables, see ScreenTables
  None,       \* no fetch, no form
  Budgets,    \* bounds: how many pages are opened and buttons pressed, one pair
              \* is chosen
  MaxOthers   \* bound: writes of other people

ASSUME ConsoleAssumption ==
  Budgets \subseteq [visits: Nat, presses: Nat] /\ MaxOthers \in Nat

ASSUME NoneAssumption ==
  /\ None \notin Nat
  /\ None \notin [base: Nat, value: Int, typed: BOOLEAN, field: {"none", "sent", "ignored", "lost"}]

ASSUME TablesAssumption ==
  \A a \in DOMAIN Screens :
    /\ LeadsToPages(Screens[a])
    /\ NamesItsQueries(Screens[a])
    /\ FollowersRead(Screens[a])
    /\ RepeatsHarmlessly(Screens[a])
    /\ StaysAState(Screens[a])
    /\ ShowsTheRecord(Screens[a])
    /\ OffersWhatIsAccepted(Screens[a])
    /\ SendsWhatIsTyped(Screens[a])
    /\ RespectsDecisions(Screens[a])

VARIABLES
  area,      \* the name of the area, chosen once
  budget,    \* the bounds, chosen once
  page,      \* the page or dialog that is open
  rows,      \* the server: the versions of the record
  cache,     \* the query cache: the version each key holds, 0 for no data
  invalid,   \* keys marked invalidated
  fetching,  \* a fetch in flight: 0 before the server has read, then the version
  form,      \* the form of the page
  calls,     \* mutations in flight
  acked,     \* history: the newest own write acknowledged, by the keys that show it
  visits, presses, others

vars == <<area, budget, page, rows, cache, invalid, fetching, form, calls, acked,
          visits, presses, others>>
fixed == <<area, budget>>
queries == <<cache, invalid, fetching>>
counters == <<visits, presses, others>>

screen == Screens[area]
Here == screen.pages[page]
Now == Len(rows)
Keys == KeysOf(screen)
Versions == 1..(budget.presses + MaxOthers + 1)
Form == [base: Versions, value: Int, typed: BOOLEAN, field: {"none", "sent", "ignored", "lost"}]
CallInFlight ==
  [control: DOMAIN screen.calls, nth: 1..budget.presses, visit: 0..(budget.visits + budget.presses),
   base: Versions, form: Form \cup {None}, at: {0} \cup Versions,
   status: {"sent", "ok", "refused", "error", "failed", "settling"}]

TypeOK ==
  /\ area \in DOMAIN Screens /\ budget \in Budgets
  /\ page \in DOMAIN screen.pages
  /\ Now \in Versions
  /\ \A v \in 1..Now : rows[v].status \in screen.statuses
  /\ cache \in [Keys -> 0..Now]
  /\ invalid \subseteq Keys
  /\ \A k \in Keys : fetching[k] = None \/ fetching[k] \in 0..Now
  /\ form \in Form \cup {None}
  /\ calls \subseteq CallInFlight
  /\ acked \in [Keys -> 1..Now]

Init ==
  /\ area \in DOMAIN Screens
  /\ budget \in Budgets
  /\ page = screen.home
  /\ \E s \in screen.start : rows = <<[status |-> s, value |-> 0]>>
  /\ cache = [k \in Keys |-> 0]
  /\ invalid = {}
  /\ fetching = [k \in Keys |-> IF k \in Here.keys THEN 0 ELSE None]
  /\ form = None
  /\ calls = {}
  /\ acked = [k \in Keys |-> 1]
  /\ visits = 0 /\ presses = 0 /\ others = 0

(***************************************************************************)
(* What the page offers.  A dialog that was handed the row keeps the state  *)
(* it was opened on, a page looks at its query.                             *)
(***************************************************************************)
Seen == IF Here.holds \/ Here.form = "new" THEN form.base ELSE cache[Here.reads]

(* Mutated: the buttons are drawn whatever the state.                       *)
OfferedInAnyState == IF Seen = 0 THEN {} ELSE UNION {Here.offers[s] : s \in screen.statuses}

Offered == IF Seen = 0 THEN {} ELSE Here.offers[rows[Seen].status]

Hydrated(v) == [base |-> v, value |-> rows[v].value, typed |-> FALSE, field |-> "none"]

(* Under an overlay the data moves on; what was typed stays on top.         *)
Rebased(v) == IF form.typed THEN [form EXCEPT !.base = v] ELSE Hydrated(v)

(* Mutated: a form follows its query although it was to be hydrated once.   *)
FollowsAlways(p) == screen.pages[p].form \in {"follow", "once"}

Follows(p) == screen.pages[p].form = "follow"

(* What the form of a page that opens is filled with.                       *)
Filled(p) ==
  LET q == screen.pages[p]
      held == IF q.form = "new" THEN 1 ELSE IF q.holds THEN Seen ELSE cache[q.reads]
  IN IF (q.form = "none" /\ ~q.holds) \/ held = 0 THEN None ELSE Hydrated(held)

(* A page that opens asks for what it has not, for what was invalidated,    *)
(* for what its query never holds fresh, and for what has grown old; a      *)
(* refetch of old data that would bring the same is left out, as in Poll.   *)
Asks(k, old) ==
  \/ cache[k] = 0 \/ k \in invalid
  \/ cache[k] # Now /\ (k \in screen.eager \/ old)

Mount(p, inFlight, marked) ==
  \E old \in BOOLEAN :
    fetching' = [k \in Keys |->
      IF /\ k \in screen.pages[p].keys /\ inFlight[k] = None
         /\ k \in marked \/ Asks(k, old)
      THEN 0 ELSE inFlight[k]]

Opens(p) ==
  /\ page' = p
  /\ visits' = visits + 1
  /\ form' = Filled(p)

(* The pages the sidebar, the tabs and what the page offers lead to.        *)
Reachable == ((Offered \cap DOMAIN screen.pages) \cup screen.nav) \ {page}

Visit(p) ==
  /\ visits < budget.visits
  /\ Opens(p)
  /\ Mount(p, fetching, {})
  /\ UNCHANGED <<fixed, rows, cache, invalid, calls, acked, presses, others>>

(***************************************************************************)
(* The query cache.                                                        *)
(***************************************************************************)
Polled == Keys \cap Here.keys \cap screen.polled

Poll(k) ==
  /\ fetching[k] = None /\ cache[k] # Now
  /\ fetching' = [fetching EXCEPT ![k] = 0]
  /\ UNCHANGED <<fixed, page, rows, cache, invalid, form, calls, acked, counters>>

ServeFetch(k) ==
  /\ fetching[k] = 0
  /\ fetching' = [fetching EXCEPT ![k] = Now]
  /\ UNCHANGED <<fixed, page, rows, cache, invalid, form, calls, acked, counters>>

(* An answer replaces the data and clears the mark, whenever it was set.    *)
(* The effect of a page that follows its query runs when the data changed.  *)
AnswerFetch(k) ==
  /\ fetching[k] # None /\ fetching[k] # 0
  /\ cache' = [cache EXCEPT ![k] = fetching[k]]
  /\ invalid' = invalid \ {k}
  /\ fetching' = [fetching EXCEPT ![k] = None]
  /\ form' = IF k # Here.reads \/ Here.form = "none" \/ Here.holds THEN form
             ELSE IF form = None \/ (Follows(page) /\ rows[cache[k]] # rows[fetching[k]])
             THEN Hydrated(fetching[k])
             ELSE IF Here.form = "overlay" THEN Rebased(fetching[k]) ELSE form
  /\ UNCHANGED <<fixed, page, rows, calls, acked, counters>>

(***************************************************************************)
(* Forms and buttons.                                                      *)
(***************************************************************************)
(* What becomes of the field that was typed into, when the form is saved.   *)
Fate(f) ==
  IF f \in screen.calls[Here.submit].sends THEN "sent"
  ELSE IF f \in screen.ignored THEN "ignored" ELSE "lost"

(* Bound: into a page once, and into an overlay again while it is saved.    *)
Typable ==
  \/ ~form.typed
  \/ Here.form = "overlay" /\ \E c \in calls : c.visit = visits /\ c.form # None /\ c.form.value = form.value

Type(fate) ==
  /\ form # None /\ Typable
  /\ form' = [form EXCEPT !.value = -(10 * presses + visits), !.typed = TRUE, !.field = fate]
  /\ UNCHANGED <<fixed, page, rows, queries, calls, acked, counters>>

(* Mutated: the button of a mutation in flight stays enabled.               *)
NeverPending(c) == FALSE

(* Disabled by a call of its own, or of a control it waits behind.          *)
Pending(c) ==
  \E d \in calls :
    /\ d.visit = visits /\ d.status # "failed"
    /\ \/ d.control = c /\ screen.calls[c].guarded
       \/ d.control \in screen.calls[c].behind

(* The control sends the form.                                              *)
Submits(c) == screen.calls[c].sends # {}

Press(c) ==
  /\ presses < budget.presses /\ ~Pending(c)
  /\ Submits(c) => form # None
  /\ (c = Here.submit /\ Here.form = "overlay") => form.typed
  /\ presses' = presses + 1
  /\ calls' = calls \cup
       {[control |-> c, nth |-> presses', visit |-> visits, base |-> Seen,
         form |-> IF Submits(c) THEN form ELSE None,
         status |-> "sent", at |-> 0]}
  /\ UNCHANGED <<fixed, page, rows, queries, form, acked, visits, others>>

(***************************************************************************)
(* The server.                                                             *)
(***************************************************************************)
Accepts(c) == rows[Now].status \in DOMAIN screen.calls[c].becomes

(* Mutated: the endpoint goes by the state that the page showed.            *)
BecomesAsSeen(c, base) ==
  LET accepted == screen.calls[c].becomes
  IN accepted[IF rows[base].status \in DOMAIN accepted THEN rows[base].status ELSE rows[Now].status]

(* A body that carries the state too writes the one the form was filled with. *)
Becomes(c, base) ==
  IF screen.calls[c].restates THEN rows[base].status
  ELSE screen.calls[c].becomes[rows[Now].status]

(* Mutated: the body is made of what the form was filled with.              *)
SentAsFilled(c) == IF c.form # None THEN rows[c.form.base].value ELSE rows[Now].value

(* The body of a form carries all its fields: the ones nobody typed into    *)
(* are written back as the form was filled.                                 *)
Sent(c) ==
  IF c.form # None /\ c.form.field \in {"none", "sent"}
  THEN c.form.value ELSE rows[Now].value

Write(c, base, value) ==
  rows' = Append(rows, [status |-> Becomes(c, base), value |-> value])

ServeCall(c) ==
  /\ c.status = "sent"
  /\ \/ /\ Accepts(c.control)
        /\ Write(c.control, IF c.form = None THEN c.base ELSE c.form.base, Sent(c))
        /\ calls' = (calls \ {c}) \cup {[c EXCEPT !.status = IF screen.calls[c.control].errs THEN "error" ELSE "ok",
                                               !.at = Now + 1]}
     \/ /\ ~Accepts(c.control)
        /\ UNCHANGED rows
        /\ calls' = (calls \ {c}) \cup {[c EXCEPT !.status = "refused"]}
  /\ UNCHANGED <<fixed, page, queries, form, acked, counters>>

(* Another administrator, the employee or a task does the same.             *)
Other(c) ==
  /\ others < MaxOthers
  /\ Accepts(c)
  /\ Write(c, Now, IF screen.calls[c].sends = {} THEN rows[Now].value ELSE Now + 1)
  /\ others' = others + 1
  /\ UNCHANGED <<fixed, page, queries, form, calls, acked, visits, presses>>

(***************************************************************************)
(* onSuccess: the keys under the invalidated prefixes are marked, those of  *)
(* the open page are asked for again at once, and the page may change, also *)
(* when the user has left it since.                                         *)
(***************************************************************************)
(* Mutated: the prefixes are compared with whole keys.                      *)
InvalidatedExactly(c) == Keys \cap screen.calls[c].invalidates

(* Mutated: the prefixes themselves are marked.                             *)
InvalidatedPrefixes(c) == screen.calls[c].invalidates

Invalidated(c) == {k \in Keys : \E prefix \in screen.calls[c].invalidates : Under(prefix, k)}

(* Mutated: a fetch that was asked for before the write is not repeated.    *)
AskedOnce(c) ==
  [k \in Keys |-> IF k \in Invalidated(c) \cap Here.keys /\ fetching[k] = None THEN 0 ELSE fetching[k]]

(* A fetch in flight is given up and asked for again where there is data    *)
(* already; a first load is left to go on, whatever the server has read.    *)
AskedAgain(c) ==
  [k \in Keys |-> IF /\ k \in Invalidated(c) \cap Here.keys
                     /\ cache[k] # 0 \/ fetching[k] = None
                  THEN 0 ELSE fetching[k]]

(* A fetch that is not asked for again, of a closed page or a first load,   *)
(* may have been answered by the server already and still clear the mark:   *)
(* of such a key nothing is claimed, nor of one the mutation forgets.       *)
MustShow(k, c) ==
  /\ k \in screen.calls[c.control].shown \ screen.calls[c.control].forgets
  /\ c.at > acked[k]
  /\ fetching[k] \in {None, 0} \/ (k \in Here.keys /\ cache[k] # 0)

(* The save of an overlay goes on until what it invalidated has been        *)
(* fetched again; the ones of other forms are over.                         *)
Settles(c) == Submits(c.control) /\ Here.form = "overlay" /\ c.visit = visits

Succeeded(c) ==
  /\ c.status = "ok"
  /\ calls' = (calls \ {c}) \cup IF Settles(c) THEN {[c EXCEPT !.status = "settling"]} ELSE {}
  /\ acked' = [k \in Keys |-> IF MustShow(k, c) THEN c.at ELSE acked[k]]
  /\ invalid' = invalid \cup Invalidated(c.control)
  /\ IF screen.calls[c.control].goes = "stay" \/ screen.calls[c.control].goes = page
     THEN /\ fetching' = AskedAgain(c.control)
          /\ UNCHANGED <<page, form, visits>>
     ELSE /\ Opens(screen.calls[c.control].goes)
          /\ Mount(screen.calls[c.control].goes, AskedAgain(c.control),
                   Invalidated(c.control))
  /\ UNCHANGED <<fixed, rows, cache, presses, others>>

(* setEdits({}): all that lies over the data is dropped, also what was      *)
(* typed since the save was sent.                                           *)
Settled(c) ==
  /\ c.status = "settling" /\ fetching[Here.reads] = None
  /\ calls' = calls \ {c}
  /\ form' = IF c.visit = visits THEN Hydrated(cache[Here.reads]) ELSE form
  /\ UNCHANGED <<fixed, page, rows, queries, acked, counters>>

(* A call that was refused has changed nothing; one that answered an error  *)
(* after its commit is kept for the properties.                             *)
Failed(c) ==
  /\ c.status \in {"refused", "error"}
  /\ calls' = (calls \ {c})
       \cup IF c.status = "error" THEN {[c EXCEPT !.status = "failed"]} ELSE {}
  /\ UNCHANGED <<fixed, page, rows, queries, form, acked, counters>>

(***************************************************************************)
(* The next-state relation.                                                *)
(***************************************************************************)
Next ==
  \/ \E p \in Reachable : Visit(p)
  \/ \E k \in Polled : Poll(k)
  \/ \E k \in Keys : ServeFetch(k)
  \/ \E k \in Keys : AnswerFetch(k)
  \/ \E fate \in {Fate(f) : f \in Here.fields} : Type(fate)
  \/ \E c \in Offered \cap DOMAIN screen.calls : Press(c)
  \/ \E c \in calls : ServeCall(c)
  \/ \E c \in DOMAIN screen.calls : Other(c)
  \/ \E c \in calls : Succeeded(c)
  \/ \E c \in calls : Settled(c)
  \/ \E c \in calls : Failed(c)

Spec == Init /\ [][Next]_vars

(***************************************************************************)
(* Properties                                                              *)
(***************************************************************************)
(* A query on the open page that is not being fetched shows at least the    *)
(* last own write that was acknowledged: the prefixes every mutation names  *)
(* reach every query that shows what it changed, but the ones it is known   *)
(* to forget (onSuccess of the areas), and the fetches that were answered   *)
(* before the write are repeated, but those onSuccess leaves in flight      *)
(* (MustShow).                                                              *)
Coherent ==
  \A k \in Keys \cap Here.keys : fetching[k] = None => cache[k] >= acked[k]

(* A form that follows its query and was not typed into is never left on    *)
(* what the record was before the user's own acknowledged write, once the   *)
(* query has settled (the hydrating effects of the edit pages).             *)
FormCurrent ==
  (Here.form = "follow" /\ form # None /\ ~form.typed /\ fetching[Here.reads] = None)
    => \E v \in acked[Here.reads]..Now : rows[v] = rows[form.base]

(* A button is refused only when the record has moved on since the state    *)
(* the page showed: what a page offers, its endpoint accepts, but for the   *)
(* controls that are known to be offered in vain.                           *)
RefusedOnlyWhenMoved ==
  \A c \in calls : (c.status = "refused" /\ c.control \notin screen.vain) =>
    \E v \in c.base..Now : rows[v].status # rows[c.base].status

(* Pressing twice does once: of two calls a button made on one page with    *)
(* the same form and nobody's write between them, the second has changed    *)
(* nothing, because the button was disabled, or the endpoint refused it, or *)
(* it leaves the record as it is; also when the first was answered with an  *)
(* error.  Not so the controls that are known to do it again.               *)
NoDoubleEffect ==
  \A c, d \in calls :
    (/\ c.control = d.control /\ c.visit = d.visit /\ c.form = d.form
     /\ c.control \notin screen.again
     /\ c.nth < d.nth /\ 0 < c.at /\ d.at = c.at + 1)
      => rows[d.at] = rows[d.at - 1]

(* A decision about money or days is never written over a decision that     *)
(* somebody else took after the page was loaded: the endpoint looks at the  *)
(* state again, whatever the dialog still shows, or leaves it as it is.      *)
(* The controls whose endpoint does neither are the area's overrides.       *)
DecidedOnce ==
  \A c \in calls :
    (/\ c.status = "ok" /\ screen.calls[c.control].decides
     /\ rows[c.at - 1].status \in screen.decided)
      => \/ rows[c.at].status = rows[c.at - 1].status
         \/ rows[c.at - 1].status = rows[c.base].status
         \/ c.control \in screen.overrides

(* What was typed is what an accepted save stores, in every field that can  *)
(* be edited, but those the body is known to leave out.                     *)
EditsStick ==
  \A c \in calls : (c.status = "ok" /\ c.form # None /\ c.form.typed)
    => rows[c.at].value = c.form.value \/ c.form.field = "ignored"

(* Typing is never lost on the page it was typed on: a form that is         *)
(* hydrated once keeps it whatever its queries bring, and what lies over a  *)
(* grid stays there until a save of that page has ended.                    *)
TypedKept ==
  [][(form # None /\ form.typed /\ Here.form \in {"once", "overlay"} /\ visits' = visits)
       => \/ form'.typed
          \/ \E c \in calls \ calls' : c.status = "settling" /\ c.visit = visits]_vars

(* The end of a save drops what it stored and nothing typed since: not what *)
(* the grids do.                                                            *)
SavedBeforeDropped ==
  [][(form # None /\ form.typed /\ Here.form = "overlay" /\ visits' = visits)
       => \/ form'.typed
          \/ \E c \in calls \ calls' : c.form # None /\ c.form.value = form.value]_vars

(* Not so (no run checks it): once a write is acknowledged, no query of the *)
(* page still waits for an answer that was read before it.  A first load    *)
(* does, clears the mark with what was there before, and is taken for fresh.*)
NoOldAnswerInFlight ==
  [][\A c \in calls \ calls' : (c.status = "ok" /\ visits' = visits) =>
       \A k \in Here.keys \cap screen.calls[c.control].shown :
         fetching'[k] \in {None, 0} \/ fetching'[k] >= c.at \/ k \in screen.calls[c.control].forgets]_vars

(* "Hydrate form once on load" (LeaveEditPage.tsx:25), of the pages whose    *)
(* effect runs at every change of the data.                                 *)
HydratedOnce ==
  [][(form # None /\ form.typed /\ Here.form = "follow" /\ visits' = visits)
       => form' = form]_vars
=============================================================================
