---------------------------- MODULE SalaryPeriod ----------------------------
(***************************************************************************)
(* The approval and payment workflow of the monthly salary period          *)
(* (backend/app/services/salary_service.py, api/v1/salary.py and           *)
(* tasks/salary_tasks.py), for the periods of one company and one month.   *)
(*                                                                         *)
(* Every API request and every Celery task works in a database session of  *)
(* its own under READ COMMITTED: it SELECTs the rows it needs, computes    *)
(* new column values from what it read, and writes them at COMMIT.  No     *)
(* handler locks what it reads and no row carries a version, so a request  *)
(* is two steps: the handler's own action (the SELECT and the              *)
(* computation) and Commit (the flush and the COMMIT).  The unit of work   *)
(* of SQLAlchemy emits an UPDATE of the columns whose value changed since  *)
(* they were loaded, and of no other column: that is Flush.                *)
(*                                                                         *)
(* Amounts are integers (a currency unit); the descriptive columns (notes, *)
(* reference, payment_method, approved_at/by, finalized_at) and the audit  *)
(* rows, which no guard below depends on, are left out.                    *)
(***************************************************************************)
EXTENDS Integers

CONSTANTS
  Periods,      \* the salary_periods rows of one (company, year, month)
  Active,       \* those whose employee is still active
  Sessions,     \* database sessions: API requests and Celery tasks
  Totals,       \* what the accruals of a month can add up to
  Amounts,      \* amounts an admin can type into a transaction
  MaxLedger     \* bound: no payment is begun once more than this is paid

ASSUME ActiveAssumption == Active \subseteq Periods
ASSUME TotalsAssumption == Totals \subseteq Int /\ 0 \in Totals
ASSUME AmountsAssumption == Amounts \subseteq Nat \ {0}
ASSUME MaxLedgerAssumption == MaxLedger \in Nat

VARIABLES
  period,       \* committed salary_periods rows
  ledger,       \* per period and type, the sum of its salary_transactions
  fresh,        \* what the month's accruals add up to if recomputed now
  tx            \* what each session has loaded and is about to write

vars == <<period, ledger, fresh, tx>>

PeriodStatus == {"DRAFT", "FINALIZED", "APPROVED", "PARTIALLY_PAID", "PAID"}
TransactionType == {"ADVANCE", "FULL_PAYMENT", "BONUS"}
Ops == {"recompute", "finalize", "approve", "mark_paid", "reopen",
        "transaction", "bulk_approve", "bulk_mark_paid", "monthly_finalize",
        "bulk_recompute", "daily_summary", "close_recompute", "close"}

Row == [status: PeriodStatus, total_earned: Int, paid_amount: Int,
        paid_at: BOOLEAN]
NewRow == [status |-> "DRAFT", total_earned |-> 0, paid_amount |-> 0,
           paid_at |-> FALSE]

NoPayment == [t \in TransactionType |-> 0]
Entry(type, amount) == [NoPayment EXCEPT ![type] = amount]
Sum(entry) == entry["ADVANCE"] + entry["FULL_PAYMENT"] + entry["BONUS"]

\* Everything ever handed out against a period.
Handed(p) == Sum(ledger[p])

\* A session with nothing in flight.  rows: the rows it selected; old: their
\* column values when loaded; new: the values it has assigned since; add: the
\* salary_transactions it will insert; locked: the rows its own flushed UPDATEs
\* hold a row lock on before COMMIT.
Idle == [op |-> "idle", rows |-> {}, locked |-> {},
         old |-> [p \in Periods |-> NewRow],
         new |-> [p \in Periods |-> NewRow],
         add |-> [p \in Periods |-> NoPayment]]

Transaction == [op: Ops \cup {"idle"}, rows: SUBSET Periods,
                locked: SUBSET Periods,
                old: [Periods -> Row], new: [Periods -> Row],
                add: [Periods -> [TransactionType -> Nat]]]

TypeOK ==
  /\ period \in [Periods -> Row]
  /\ ledger \in [Periods -> [TransactionType -> Nat]]
  /\ fresh \in [Periods -> Totals]
  /\ tx \in [Sessions -> Transaction]

Init ==
  /\ period = [p \in Periods |-> NewRow]
  /\ ledger = [p \in Periods |-> NoPayment]
  /\ fresh = [p \in Periods |-> 0]
  /\ tx = [s \in Sessions |-> Idle]

(***************************************************************************)
(* Mutated forms of definitions below: plausible bugs, each of which one of *)
(* the properties at the end of the module must detect.                    *)
(***************************************************************************)

RefreshDropped(row, total) == row

ApprovedForgetsPaid(row) ==
  IF row.status = "APPROVED" THEN row ELSE [row EXCEPT !.status = "APPROVED"]

PendingUnguarded(row) == row.total_earned - row.paid_amount

AdvancesIgnored(row) ==
  IF row.total_earned > row.paid_amount THEN row.total_earned ELSE 0

PaidAddsTotal(row) ==
  [row EXCEPT !.paid_amount = @ + row.total_earned,
              !.status = "PAID", !.paid_at = TRUE]

ReopenableUnlessPaid(row) == row.status # "PAID"

OnlyFullPaymentCounted(row, type, amount) ==
  IF type = "FULL_PAYMENT"
    THEN [row EXCEPT !.paid_amount = @ + amount, !.status = "PAID"]
    ELSE row

PaymentForgotten(row) == [t \in TransactionType |-> 0]

(***************************************************************************)
(* What the service functions do to a loaded row.                          *)
(***************************************************************************)

Refreshed(row, total) == [row EXCEPT !.total_earned = total]

Finalized(row) == [row EXCEPT !.status = "FINALIZED"]

Approved(row) ==
  IF row.status \in {"APPROVED", "PAID"}
    THEN row
    ELSE [row EXCEPT !.status = "APPROVED"]

Pending(row) == row.total_earned - row.paid_amount

\* The amount of the FULL_PAYMENT that mark_period_paid creates, 0 for none.
Settlement(row) == IF Pending(row) > 0 THEN Pending(row) ELSE 0

Settling(row) == Entry("FULL_PAYMENT", Settlement(row))

Credited(row, amount) == [row EXCEPT !.paid_amount = @ + amount]

Closed(row) == [row EXCEPT !.status = "PAID"]

MarkedPaid(row) ==
  [Closed(Credited(row, Settlement(row))) EXCEPT !.paid_at = TRUE]

Reopenable(row) == row.paid_amount <= 0

Reopened(row) == [row EXCEPT !.status = "DRAFT"]

Recorded(row, type, amount) ==
  IF type = "FULL_PAYMENT" THEN Closed(Credited(row, amount))
                           ELSE Credited(row, amount)

\* The UPDATE of the unit of work: only columns changed since they were loaded.
Flush(row, old, new) ==
  [status |-> IF new.status # old.status THEN new.status ELSE row.status,
   total_earned |-> IF new.total_earned # old.total_earned
                      THEN new.total_earned ELSE row.total_earned,
   paid_amount |-> IF new.paid_amount # old.paid_amount
                     THEN new.paid_amount ELSE row.paid_amount,
   paid_at |-> IF new.paid_at # old.paid_at THEN new.paid_at ELSE row.paid_at]

(***************************************************************************)
(* Handlers.  Each one loads the rows of S, computes their new values and  *)
(* the payments to insert; nothing is visible to others yet.               *)
(***************************************************************************)

On(S, f, default) == [p \in Periods |-> IF p \in S THEN f[p] ELSE default]

Load(s, op, S, new, add) ==
  /\ tx[s] = Idle
  /\ tx' = [tx EXCEPT ![s] = [op |-> op, rows |-> S, locked |-> {},
                              old |-> On(S, period, NewRow),
                              new |-> On(S, new, NewRow),
                              add |-> On(S, add, NoPayment)]]
  /\ UNCHANGED <<period, ledger, fresh>>

Nothing == [p \in Periods |-> NoPayment]
Approving == [p \in Periods |-> Approved(period[p])]
Finalizing == [p \in Periods |-> Finalized(period[p])]
Reopening == [p \in Periods |-> Reopened(period[p])]
Refreshing(total) == [p \in Periods |-> Refreshed(period[p], total[p])]
MarkingPaid == [p \in Periods |-> MarkedPaid(period[p])]
FullPayments == [p \in Periods |-> Settling(period[p])]

\* Bound: keeps the sums that TLC explores finite.
PaymentBudget(p) == Handed(p) <= MaxLedger

\* _refresh_period_totals at the end of recompute_for_day: no status guard.
\* One day is recomputed and the others keep their accruals, as old as they
\* may be, so the total can be any.
Recompute(s, p, total) ==
  Load(s, "recompute", {p}, Refreshing([q \in Periods |-> total]), Nothing)

\* admin_recompute_bulk when the broker is down: the whole month of every
\* employee, or of a branch, inline.  Queued, it is so many Recompute.
BulkRecompute(s, S) ==
  /\ S \subseteq Active
  /\ Load(s, "bulk_recompute", S, Refreshing(fresh), Nothing)

FinalizePeriod(s, p) == Load(s, "finalize", {p}, Finalizing, Nothing)

ApprovePeriod(s, p) == Load(s, "approve", {p}, Approving, Nothing)

MarkPeriodPaid(s, p) ==
  /\ PaymentBudget(p)
  /\ Load(s, "mark_paid", {p}, MarkingPaid, FullPayments)

\* With a payment on the row the handler answers period_has_payments.
ReopenPeriod(s, p) ==
  /\ Reopenable(period[p])
  /\ Load(s, "reopen", {p}, Reopening, Nothing)

CreateTransaction(s, p, type, amount) ==
  /\ PaymentBudget(p)
  /\ Load(s, "transaction", {p},
          [q \in Periods |-> Recorded(period[q], type, amount)],
          [q \in Periods |-> Entry(type, amount)])

BulkApprovable(p) == period[p].status \in {"DRAFT", "FINALIZED"}

BulkApprove(s) ==
  Load(s, "bulk_approve", {p \in Periods : BulkApprovable(p)}, Approving, Nothing)

BulkPayable(p) ==
  /\ period[p].status \in {"APPROVED", "FINALIZED", "PARTIALLY_PAID"}
  /\ period[p].total_earned > 0

BulkMarkPaid(s) ==
  /\ \A p \in Periods : BulkPayable(p) => PaymentBudget(p)
  /\ Load(s, "bulk_mark_paid", {p \in Periods : BulkPayable(p)},
          MarkingPaid, FullPayments)

MonthlyFinalize(s) ==
  Load(s, "monthly_finalize", {p \in Periods : period[p].status = "DRAFT"},
       Finalizing, Nothing)

\* The session of a task autoflushes: each changed total is UPDATEd, and its
\* row locked, when the next employee is looked up, long before the COMMIT.
Sweep(s, op, total) ==
  LET changed == {p \in Active : total[p] # period[p].total_earned}
  IN  /\ tx[s] = Idle
      /\ \A r \in Sessions : tx[r].locked \cap changed = {}
      /\ tx' = [tx EXCEPT ![s] =
                  [op |-> op, rows |-> Active, locked |-> changed,
                   old |-> On(Active, period, NewRow),
                   new |-> On(Active, Refreshing(total), NewRow),
                   add |-> Nothing]]
      /\ UNCHANGED <<period, ledger, fresh>>

\* Today is recomputed for every active employee, in one transaction.
DailySummary(s) ==
  \E total \in [Periods -> Totals] : Sweep(s, "daily_summary", total)

\* month_end_close, step 1: the whole month of every active employee is
\* recomputed.
CloseRecompute(s) == Sweep(s, "close_recompute", fresh)

\* month_end_close, step 2: bulk_approve_company SELECTs the periods again (the
\* session kept no reference to those of step 1) and finds the rows that step 1
\* UPDATEd as it left them, the others as they are committed by now.
Held(s, f) == [p \in Periods |-> IF p \in tx[s].locked THEN f[p] ELSE period[p]]

CloseApprove(s) ==
  LET found == {p \in Periods : BulkApprovable(p)}
      held == Held(s, tx[s].new)
      new == [p \in Periods |-> IF p \in found THEN Approved(held[p]) ELSE held[p]]
  IN  /\ tx[s].op = "close_recompute"
      /\ tx' = [tx EXCEPT ![s] =
                  [op |-> "close", rows |-> Active \cup found,
                   locked |-> tx[s].locked,
                   old |-> On(Active \cup found, Held(s, tx[s].old), NewRow),
                   new |-> On(Active \cup found, new, NewRow),
                   add |-> Nothing]]
      /\ UNCHANGED <<period, ledger, fresh>>

Written(s) == {p \in tx[s].rows : tx[s].new[p] # tx[s].old[p]}

Commit(s) ==
  /\ tx[s].op \notin {"idle", "close_recompute"}
  /\ \A r \in Sessions \ {s} : tx[r].locked \cap Written(s) = {}
  /\ period' = [p \in Periods |->
                  IF p \in tx[s].rows
                    THEN Flush(period[p], tx[s].old[p], tx[s].new[p])
                    ELSE period[p]]
  /\ ledger' = [p \in Periods |-> [t \in TransactionType |->
                                      ledger[p][t] + tx[s].add[p][t]]]
  /\ tx' = [tx EXCEPT ![s] = Idle]
  /\ UNCHANGED fresh

\* An exception, a lost connection, a deadlock victim or a crashed worker.
Rollback(s) ==
  /\ tx[s] # Idle
  /\ tx' = [tx EXCEPT ![s] = Idle]
  /\ UNCHANGED <<period, ledger, fresh>>

\* Attendance, leave, bonus or schedule edits: other requests, which change
\* what a recompute would find and never touch salary_periods themselves.
EditInputs(p) ==
  /\ \E total \in Totals : fresh' = [fresh EXCEPT ![p] = total]
  /\ UNCHANGED <<period, ledger, tx>>

Request(s) ==
  \/ \E p \in Periods :
       \/ \E total \in Totals : Recompute(s, p, total)
       \/ FinalizePeriod(s, p)
       \/ ApprovePeriod(s, p)
       \/ MarkPeriodPaid(s, p)
       \/ ReopenPeriod(s, p)
       \/ \E type \in TransactionType, amount \in Amounts :
            CreateTransaction(s, p, type, amount)
  \/ BulkApprove(s)
  \/ BulkMarkPaid(s)
  \/ MonthlyFinalize(s)
  \/ \E S \in SUBSET Active : BulkRecompute(s, S)
  \/ DailySummary(s)
  \/ CloseRecompute(s)

Next ==
  \/ \E s \in Sessions : Request(s) \/ CloseApprove(s) \/ Commit(s) \/ Rollback(s)
  \/ \E p \in Periods : EditInputs(p)

Spec == Init /\ [][Next]_vars

\* The same system when no two requests overlap: what the handlers were
\* written for.  Every difference between the two is a race.
Quiet == \A s \in Sessions : tx[s] = Idle

SerialNext ==
  \/ \E s \in Sessions :
       (Quiet /\ Request(s)) \/ CloseApprove(s) \/ Commit(s) \/ Rollback(s)
  \/ \E p \in Periods : Quiet /\ EditInputs(p)

SerialSpec == Init /\ [][SerialNext]_vars

(***************************************************************************)
(* Properties.                                                             *)
(***************************************************************************)

Pays(s, p) == Commit(s) /\ ledger'[p] # ledger[p]
MarksPaid(s) == tx[s].op \in {"mark_paid", "bulk_mark_paid"}

\* However requests interleave, paid_amount never claims more money than the
\* salary_transactions of the period account for: a race on the column can
\* only lose a payment from it, never invent one (mark_period_paid and
\* create_transaction, which both add to the value they loaded).
PaidNeverOverstated ==
  \A p \in Periods : period[p].paid_amount <= Handed(p)

\* However requests interleave, once mark-paid has committed, the employee has
\* been handed at least the total that the request saw.
SettledInFull ==
  [][\A s \in Sessions : \A p \in tx[s].rows :
       MarksPaid(s) /\ Commit(s)
         => Sum(ledger'[p]) >= tx[s].old[p].total_earned]_vars

\* One request at a time: paid_amount is the sum of the period's transactions.
PaidMatchesLedger ==
  \A p \in Periods : period[p].paid_amount = Handed(p)

\* mark-paid hands out what is missing and no more, "so the same money isn't
\* paid twice" (mark_period_paid_endpoint).
NeverPaidTwice ==
  [][\A s \in Sessions, p \in Periods :
       MarksPaid(s) /\ Pays(s, p)
         => Sum(ledger'[p]) = period[p].total_earned]_vars

\* No period for which money was handed out goes back to DRAFT
\* (reopen_period: "if any payment exists, refuse reopen").
ReopenOnlyUnpaid ==
  [][\A p \in Periods :
       period[p].status # "DRAFT" /\ period'[p].status = "DRAFT"
         => Handed(p) = 0]_vars

\* No approval, single, bulk or of the month-end close, takes PAID back to
\* APPROVED (approve_period: "re-approving ... is a no-op").
ApprovalKeepsPaid ==
  [][\A p \in Periods :
       period[p].status = "PAID" => period'[p].status # "APPROVED"]_vars

\* What month_end_close approves is the total a recompute finds at that moment
\* ("fresh totals for every employee"), for employees still active.
CloseCapturesInputs ==
  [][\A s \in Sessions : \A p \in Active :
       /\ tx[s].op = "close" /\ Commit(s)
       /\ period[p].status # "APPROVED" /\ period'[p].status = "APPROVED"
       => period'[p].total_earned = fresh[p]]_vars

\* One request at a time, the workflow implements the pay account.
Account == INSTANCE PayAccount WITH
  owed <- [p \in Periods |-> period[p].total_earned],
  book <- [p \in Periods |-> Handed(p)],
  state <- [p \in Periods |->
              IF period[p].status = "DRAFT" THEN "open"
              ELSE IF period[p].status = "PAID" THEN "paid" ELSE "locked"]

AccountSpec == Account!Spec

(***************************************************************************)
(* What the documentation says and the code does not do.                   *)
(***************************************************************************)

\* models/salary.py: an approved period is locked, "no more recompute changes".
LockedAfterApproval ==
  [][\A p \in Periods :
       period[p].status \in {"APPROVED", "PAID"}
         => period'[p].total_earned = period[p].total_earned]_vars
=============================================================================
