---------------------------- MODULE ConsolePayroll ----------------------------
(***************************************************************************)
(* Payroll in the administrators' console: the table of salary periods, the *)
(* month of one employee, payments, bonuses and deductions                  *)
(* (admin-web/src/pages/app/salary, employees) and their endpoints          *)
(* (api/v1/salary.py, api/v1/bonuses.py).  What the same endpoints do when  *)
(* they run together is SalaryPeriod.                                       *)
(***************************************************************************)
EXTENDS ScreenTables

(***************************************************************************)
(* A period, by its status and whether money was recorded on it before it   *)
(* was paid: ADVANCED is APPROVED, DRAFT_ADVANCED is DRAFT.                 *)
(***************************************************************************)
PeriodStatus == {"DRAFT", "DRAFT_ADVANCED", "APPROVED", "ADVANCED", "PAID"}

approve_period ==
  [s \in PeriodStatus |-> IF s = "DRAFT" THEN "APPROVED"
                          ELSE IF s = "DRAFT_ADVANCED" THEN "ADVANCED" ELSE s]

mark_period_paid == To(PeriodStatus, "PAID")

(* It refuses a period with money on it.                                    *)
reopen_period == To({"DRAFT", "APPROVED"}, "DRAFT")

bulk_approve_company == approve_period

bulk_mark_paid_company ==
  [s \in PeriodStatus |-> IF s \in {"APPROVED", "ADVANCED"} THEN "PAID" ELSE s]

(* The days are queued: the answer comes before any of them is recomputed.  *)
admin_recompute_bulk == Same(PeriodStatus)

create_transaction(type) ==
  IF type = "FULL_PAYMENT" THEN To(PeriodStatus, "PAID")
  ELSE [s \in PeriodStatus |-> IF s = "DRAFT" THEN "DRAFT_ADVANCED"
                               ELSE IF s = "APPROVED" THEN "ADVANCED" ELSE s]

(***************************************************************************)
(* The table of a month.                                                   *)
(***************************************************************************)
Periods == <<"salary", "periods", "year", "month", "branchFilter", "deptFilter">>
PayrollDashboard == <<"salary", "dashboard", "year", "month">>
Breakdown == <<"salary", "breakdown", "id", "year", "month">>
Transactions == <<"salary", "transactions">>

(* The year, the month and the branch are part of the key; the search, the  *)
(* status and the order are applied to the rows it brought.                 *)
PeriodsQueries ==
  {Periods, PayrollDashboard, <<"branches", "for-salary">>, <<"departments", "for-salary">>}

(* Over the rows, whatever they hold: the whole company's buttons.          *)
PeriodsBulkActions ==
  Page(PeriodsQueries, Periods, Always(PeriodStatus, {"recomputeBulk", "bulkApprove", "bulkMarkPaid"}))

ApproveOffered(s) == s \in {"DRAFT", "DRAFT_ADVANCED"}

MarkPaidOffered(s) == s \in {"APPROVED", "ADVANCED"}

PeriodRow ==
  Page({}, Periods,
       [s \in PeriodStatus |->
          {"EmployeeBreakdownPage", "recompute"}
            \cup (IF ApproveOffered(s) THEN {"approve"} ELSE {})
            \cup (IF MarkPaidOffered(s) THEN {"markPaid"} ELSE {})])

PeriodsTab == With(PeriodsBulkActions, PeriodRow)

(***************************************************************************)
(* The month of one employee.                                              *)
(***************************************************************************)
BreakdownQueries == {Breakdown, <<"employees", "id">>}

(* An approved period can be reopened, whatever was paid on it.             *)
BreakdownActions ==
  [s \in PeriodStatus |->
     {"PeriodsTab", "recompute", "AdvancePage", "PaymentPage"}
       \cup (IF ApproveOffered(s) THEN {"approve"} ELSE {})
       \cup (IF MarkPaidOffered(s) THEN {"markPaid", "reopen"} ELSE {})]

(* Below them days, bonuses, deductions, leaves and payments are only shown. *)
EmployeeBreakdownPage == Page(BreakdownQueries, Breakdown, BreakdownActions)

PeriodShown == {Periods, Breakdown}

SalaryInvalidated == {<<"salary">>}

recomputeMut == Call(admin_recompute_bulk, {}, SalaryInvalidated)

approveMut == [Call(approve_period, PeriodShown, SalaryInvalidated) EXCEPT !.decides = TRUE]

markPaidMut == [Call(mark_period_paid, PeriodShown, SalaryInvalidated) EXCEPT !.decides = TRUE]

reopenMut == [Call(reopen_period, PeriodShown, SalaryInvalidated) EXCEPT !.decides = TRUE]

(* Both commit, then the audit service refuses an argument: the caller sees *)
(* an error and onSuccess does not run.                                     *)
bulkApproveMut ==
  [Call(bulk_approve_company, PeriodShown, SalaryInvalidated) EXCEPT !.errs = TRUE]

bulkMarkPaidMut ==
  [Call(bulk_mark_paid_company, PeriodShown, SalaryInvalidated) EXCEPT !.errs = TRUE]

TransactionForm ==
  {"employee_id", "type", "amount", "paid_at", "payment_method", "reference", "notes"}

TransactionCreatePage(statuses) ==
  FormPage({<<"employees", "for-tx-create">>,
            <<"salary", "period-lookup", "employee_id", "year", "month">>},
           <<>>, "new", TransactionForm, "transact", Always(statuses, {"transact", "TransactionsTab"}))

(* The page of a kind of payment: the kind is chosen in the form.           *)
PaymentOf(type) ==
  [TransactionCreatePage(PeriodStatus) EXCEPT
     !.submit = type, !.offers = Always(PeriodStatus, {type, "PeriodsTab"})]

transactionMut(type) ==
  Saving(create_transaction(type), PeriodShown, SalaryInvalidated, TransactionForm, "PeriodsTab")

SalaryPeriodScreen ==
  [statuses |-> PeriodStatus, start |-> {"DRAFT"},
   home |-> "PeriodsTab", nav |-> {"PeriodsTab"},
   pages |-> [PeriodsTab |-> PeriodsTab, EmployeeBreakdownPage |-> EmployeeBreakdownPage,
              AdvancePage |-> PaymentOf("ADVANCE"), PaymentPage |-> PaymentOf("FULL_PAYMENT")],
   calls |-> [recompute |-> recomputeMut, recomputeBulk |-> recomputeMut,
              approve |-> approveMut, markPaid |-> markPaidMut, reopen |-> reopenMut,
              bulkApprove |-> bulkApproveMut, bulkMarkPaid |-> bulkMarkPaidMut,
              ADVANCE |-> transactionMut("ADVANCE"),
              FULL_PAYMENT |-> transactionMut("FULL_PAYMENT")],
   decided |-> {"PAID"}, ignored |-> {}, overrides |-> {}, vain |-> {"reopen"}, again |-> {},
   eager |-> PeriodShown, polled |-> PeriodShown]

(***************************************************************************)
(* Payments: a ledger.                                                     *)
(***************************************************************************)
TransactionsTab ==
  Page({Transactions, <<"employees", "for-tx">>}, Transactions,
       Always(Copies, {"TransactionCreatePage"}))

transactionPosted ==
  Saving(AddsAnother, {Transactions}, SalaryInvalidated, TransactionForm, "TransactionsTab")

TransactionScreen ==
  [statuses |-> Copies, start |-> {"none"},
   home |-> "TransactionsTab", nav |-> {"TransactionsTab"},
   pages |-> [TransactionsTab |-> TransactionsTab,
              TransactionCreatePage |-> TransactionCreatePage(Copies)],
   calls |-> [transact |-> transactionPosted],
   decided |-> {}, ignored |-> {}, overrides |-> {}, vain |-> {}, again |-> {},
   eager |-> {}, polled |-> {Transactions}]

(***************************************************************************)
(* Bonuses and deductions on the page of an employee, beside the earnings   *)
(* of the day.                                                              *)
(***************************************************************************)
Bonuses == <<"bonuses", "for-employee", "id">>
Deductions == <<"deductions", "for-employee", "id">>
EmployeeToday == <<"salary", "employee-today", "id">>

LiveEarningsCard ==
  Page({<<"shift-templates", "for-live", "id">>, <<"company", "me">>,
        <<"employee", "today-attendance", "id", "today">>, EmployeeToday},
       <<>>, Always(Copies, {}))

(* Two lists side by side, each with a button over it; nothing can be taken *)
(* back here.                                                               *)
BonusesDeductionsCard(list, dialog) ==
  With(Page({Bonuses, Deductions}, list, Always(Copies, {dialog})), LiveEarningsCard)

BonusDialog(card) ==
  Over(card, NewPage({}, {"type", "amount", "reason", "applied_date"}, "give", {"Card"}, Copies))

DeductionDialog(card) ==
  Over(card, NewPage({}, {"type", "amount", "reason", "applied_date"}, "charge", {"Card"}, Copies))

create_bonus == AddsAnother

create_deduction == AddsAnother

(* The day is recomputed by a task that the endpoint queues.                *)
bonusMut ==
  Saving(create_bonus, {Bonuses}, {Bonuses, EmployeeToday},
         {"type", "amount", "reason", "applied_date"}, "Card")

deductionMut ==
  Saving(create_deduction, {Deductions}, {Deductions, EmployeeToday},
         {"type", "amount", "reason", "applied_date"}, "Card")

CardScreen(card, dialog, name, call) ==
  [statuses |-> Copies, start |-> {"none"},
   home |-> "Card", nav |-> {"Card"},
   pages |-> [Card |-> card, Dialog |-> dialog],
   calls |-> [x \in {name} |-> call],
   decided |-> {}, ignored |-> {}, overrides |-> {}, vain |-> {}, again |-> {},
   eager |-> {}, polled |-> call.shown]

BonusScreen ==
  LET card == BonusesDeductionsCard(Bonuses, "Dialog")
  IN CardScreen(card, BonusDialog(card), "give", bonusMut)

DeductionScreen ==
  LET card == BonusesDeductionsCard(Deductions, "Dialog")
  IN CardScreen(card, DeductionDialog(card), "charge", deductionMut)

PayrollScreens ==
  [salary_period |-> SalaryPeriodScreen, salary_transaction |-> TransactionScreen,
   bonus |-> BonusScreen, deduction |-> DeductionScreen]
=============================================================================
