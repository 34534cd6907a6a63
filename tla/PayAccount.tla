----------------------------- MODULE PayAccount -----------------------------
(***************************************************************************)
(* What the payroll promises for one employee and month, without sessions, *)
(* cached columns or transactions: a running account of what is owed and   *)
(* of what has been handed out.  A step moves any number of accounts, each *)
(* by one of the moves below.                                              *)
(***************************************************************************)
EXTENDS Integers

CONSTANT Periods

VARIABLES
  owed,   \* what the month has earned, as last assessed
  book,   \* money handed out against the month
  state   \* "open", "locked" for payment, or "paid"

vars == <<owed, book, state>>

Init ==
  /\ owed = [p \in Periods |-> 0]
  /\ book = [p \in Periods |-> 0]
  /\ state = [p \in Periods |-> "open"]

Larger(m, n) == IF m > n THEN m ELSE n

\* The month is assessed anew, perhaps as part of closing it.
Assess(p) ==
  /\ owed'[p] \in Int
  /\ book'[p] = book[p]
  /\ state'[p] = state[p] \/ (state[p] # "paid" /\ state'[p] = "locked")

\* The month is locked for payment.
Lock(p) ==
  /\ state'[p] = "locked"
  /\ owed'[p] = owed[p] /\ book'[p] = book[p]

\* A payment of any size, which may declare the month paid.
Pay(p) ==
  /\ book'[p] > book[p]
  /\ state'[p] \in {state[p], "paid"}
  /\ owed'[p] = owed[p]

\* The rest of what is owed is handed out: no more and no less.
Settle(p) ==
  /\ book'[p] = Larger(book[p], owed[p])
  /\ state'[p] = "paid"
  /\ owed'[p] = owed[p]

\* Only a month that nothing was paid for can be opened again.
Unlock(p) ==
  /\ book[p] = 0 /\ book'[p] = 0
  /\ state'[p] = "open"
  /\ owed'[p] = owed[p]

Move(p) == Assess(p) \/ Lock(p) \/ Pay(p) \/ Settle(p) \/ Unlock(p)

Next == \A p \in Periods : Move(p)

Spec == Init /\ [][Next]_vars
=============================================================================
