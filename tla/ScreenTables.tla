----------------------------- MODULE ScreenTables -----------------------------
(***************************************************************************)
(* The tables an area of the administrators' console is made of: what a     *)
(* component reads and offers (Page), what a mutation does (Call), and the  *)
(* keys of the query cache.  The areas fill them from the code; Console     *)
(* gives them their meaning.                                                *)
(***************************************************************************)
EXTENDS Integers, Sequences

(* invalidateQueries({queryKey: prefix}) reaches every key it is a prefix of. *)
Under(prefix, key) ==
  Len(prefix) <= Len(key) /\ SubSeq(key, 1, Len(prefix)) = prefix

(***************************************************************************)
(* A page, tab, dialog or card:                                             *)
(*   keys    the queries it keeps mounted                                   *)
(*   reads   the one the record is shown from                               *)
(*   holds   it was handed the row and keeps it as it was                   *)
(*   form    none, follow (hydrated again whenever the data changes), once  *)
(*           (hydrated when it opens), new (starts empty) or overlay (what  *)
(*           is typed lies over the data until a save has ended)            *)
(*   fields  what can be typed into; submit, the control that saves it      *)
(*   offers  for every state of the record, the controls that are enabled   *)
(*           and the pages that can be opened                               *)
(***************************************************************************)
Page(keys, reads, offers) ==
  [keys |-> keys, reads |-> reads, holds |-> FALSE, form |-> "none",
   fields |-> {}, submit |-> "", offers |-> offers]

FormPage(keys, reads, filled, fields, submit, offers) ==
  [Page(keys, reads, offers) EXCEPT !.form = filled, !.fields = fields, !.submit = submit]

(* A page that makes a record: it starts empty and offers its submit while  *)
(* the record does not exist.                                               *)
NewPage(keys, fields, submit, back, statuses) ==
  FormPage(keys, <<>>, "new", fields, submit,
           [s \in statuses |-> IF s = "none" THEN {submit} \cup back ELSE back])

Always(statuses, controls) == [s \in statuses |-> controls]

(* The page of a record that is not there has only the way back.            *)
Existing(statuses, controls, back) ==
  [s \in statuses |-> IF s \in {"none", "deleted"} THEN back ELSE controls \cup back]

(* A page with another component on it.                                     *)
With(p, q) ==
  [p EXCEPT !.keys = @ \cup q.keys,
            !.offers = [s \in DOMAIN @ |-> @[s] \cup q.offers[s]]]

(* A dialog over a page: the page's queries stay mounted, the row is the    *)
(* one it was opened with.                                                  *)
Over(p, d) == [d EXCEPT !.keys = @ \cup p.keys, !.reads = p.reads, !.holds = TRUE]

(* The dialog of a row: there in the states the page opens it in.           *)
OfRow(name, p, d) ==
  [Over(p, d) EXCEPT !.offers = [s \in DOMAIN @ |-> IF name \in p.offers[s] THEN @[s] ELSE {}]]

(***************************************************************************)
(* A mutation and its endpoint:                                             *)
(*   becomes      for the states the endpoint accepts, the state it leaves  *)
(*   shown        the keys of the screen whose data the write changes       *)
(*   invalidates  the prefixes its onSuccess names                          *)
(*   forgets      the ones among them that no prefix reaches               *)
(*   sends        the typed fields its body carries                         *)
(*   restates     the body carries the state too, as the form has it        *)
(*   guarded      the button is disabled while the mutation is pending      *)
(*   behind       the controls whose mutations disable it too               *)
(*   decides      it decides about money or days: it must not act on a      *)
(*                record that was decided otherwise                         *)
(*   errs         the endpoint commits and then answers an error            *)
(*   goes         the page opened when it succeeds                          *)
(***************************************************************************)
Call(becomes, shown, invalidates) ==
  [becomes |-> becomes, shown |-> shown, invalidates |-> invalidates, forgets |-> {},
   sends |-> {}, restates |-> FALSE,
   guarded |-> TRUE, behind |-> {}, decides |-> FALSE, errs |-> FALSE, goes |-> "stay"]

Saving(becomes, shown, invalidates, sends, goes) ==
  [Call(becomes, shown, invalidates) EXCEPT !.sends = sends, !.goes = goes]

Same(statuses) == [s \in statuses |-> s]

To(statuses, target) == [s \in statuses |-> target]

(* A ledger: a call adds an entry, a second call adds another.              *)
AddsAnother == [none |-> "one", one |-> "two"]

Copies == {"none", "one", "two"}

(***************************************************************************)
(* The queries that show the record; the others a page keeps mounted are    *)
(* lookups that no call of the screen changes.                              *)
(***************************************************************************)
KeysOf(screen) == UNION {screen.calls[c].shown : c \in DOMAIN screen.calls}

(***************************************************************************)
(* What the tables of an area are supposed to be.                           *)
(***************************************************************************)
(* What is opened is a page of the area.                                    *)
LeadsToPages(screen) ==
  /\ screen.home \in DOMAIN screen.pages
  /\ screen.nav \subseteq DOMAIN screen.pages
  /\ \A c \in DOMAIN screen.calls : screen.calls[c].goes \in {"stay"} \cup DOMAIN screen.pages

(* A mutation names a prefix of every query it changes, but of those it is  *)
(* known to forget.                                                         *)
NamesItsQueries(screen) ==
  \A c \in DOMAIN screen.calls :
    \A k \in screen.calls[c].shown \ screen.calls[c].forgets :
      \E prefix \in screen.calls[c].invalidates : Under(prefix, k)

(* A form that follows a query follows one of its page's, which shows the   *)
(* record; it was not handed a row.                                         *)
FollowersRead(screen) ==
  \A p \in DOMAIN screen.pages :
    screen.pages[p].form = "follow" =>
      /\ ~screen.pages[p].holds
      /\ screen.pages[p].reads \in KeysOf(screen) \cap screen.pages[p].keys

(* A button that stays enabled while its mutation is pending, or whose      *)
(* endpoint answers an error after it has committed, asks for something     *)
(* that is done once, however often it is asked for, but for the controls   *)
(* that are known to do it again.                                           *)
RepeatsHarmlessly(screen) ==
  \A c \in DOMAIN screen.calls \ screen.again :
    LET call == screen.calls[c]
    IN ~call.guarded \/ call.errs =>
         /\ ~call.restates
         /\ \A s \in DOMAIN call.becomes :
              call.becomes[s] \in DOMAIN call.becomes
                => call.becomes[call.becomes[s]] = call.becomes[s]

(* The record is in one of its states, and every call leaves it in one.     *)
StaysAState(screen) ==
  /\ screen.start \subseteq screen.statuses
  /\ \A c \in DOMAIN screen.calls : \A s \in DOMAIN screen.calls[c].becomes :
       screen.calls[c].becomes[s] \in screen.statuses

(* A page shows the record from one of its queries, unless it starts empty. *)
(* One that was handed a row is opened where there is one.                  *)
ShowsTheRecord(screen) ==
  /\ \A p \in DOMAIN screen.pages :
       /\ screen.pages[p].form # "new" => screen.pages[p].reads \in KeysOf(screen)
       /\ screen.pages[p].form = "overlay" => ~screen.pages[p].holds
  /\ screen.pages[screen.home].form # "new"
  /\ ~screen.pages[screen.home].holds
  /\ \A p \in screen.nav : screen.pages[p].form # "new" => ~screen.pages[p].holds
  /\ \A c \in DOMAIN screen.calls :
       screen.calls[c].goes # "stay" => ~screen.pages[screen.calls[c].goes].holds

(* What a page offers in a state, the endpoint accepts in that state, but   *)
(* for what is known to be offered in vain.  A page that starts empty takes *)
(* the record for what it was at first.                                     *)
OffersWhatIsAccepted(screen) ==
  \A p \in DOMAIN screen.pages :
    \A s \in IF screen.pages[p].form = "new" THEN screen.start ELSE screen.statuses :
     \A c \in (screen.pages[p].offers[s] \cap DOMAIN screen.calls) \ screen.vain :
      s \in DOMAIN screen.calls[c].becomes

(* What can be typed is sent when the form is saved, but for the fields     *)
(* known to be ignored.                                                     *)
SendsWhatIsTyped(screen) ==
  \A p \in DOMAIN screen.pages :
    screen.pages[p].fields # {} => screen.pages[p].fields
      \subseteq (screen.calls[screen.pages[p].submit].sends \cup screen.ignored)

(* A decision leaves a record that was decided as it is, but for overrides. *)
RespectsDecisions(screen) ==
  \A c \in DOMAIN screen.calls \ screen.overrides :
    screen.calls[c].decides =>
      /\ ~screen.calls[c].restates
      /\ \A s \in screen.decided \cap DOMAIN screen.calls[c].becomes :
           screen.calls[c].becomes[s] = s
=============================================================================
