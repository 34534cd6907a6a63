-------------------------- MODULE SalaryPeriodProofs --------------------------
(***************************************************************************)
(* Theorems about SalaryPeriod, for any sets of periods and sessions, any  *)
(* totals and amounts.                                                     *)
(***************************************************************************)
EXTENDS SalaryPeriod, TLAPS

(***************************************************************************)
(* Lemmas about the operators on rows.                                     *)
(***************************************************************************)

LEMMA NewRowType == NewRow \in Row /\ NewRow.paid_amount = 0
  BY DEF NewRow, Row, PeriodStatus

LEMMA NoPaymentType == NoPayment \in [TransactionType -> Nat] /\ Sum(NoPayment) = 0
  BY DEF NoPayment, TransactionType, Sum

LEMMA EntryType ==
  ASSUME NEW type \in TransactionType, NEW amount \in Nat
  PROVE  /\ Entry(type, amount) \in [TransactionType -> Nat]
         /\ Sum(Entry(type, amount)) = amount
  BY DEF Entry, NoPayment, TransactionType, Sum

\* What a handler may make of a row: paid_amount moves by what the new
\* transactions add up to, and the row is assessed, locked, paid, settled or
\* reopened.
Legal(old, new, entry) ==
  /\ new.paid_amount = old.paid_amount + Sum(entry)
  /\ \/ /\ Sum(entry) = 0
        /\ \/ new.status = old.status
           \/ old.status # "PAID" /\ new.status \in {"FINALIZED", "APPROVED"}
     \/ /\ new.total_earned = old.total_earned
        /\ \/ Sum(entry) = 0 /\ new.status = "FINALIZED"
           \/ Sum(entry) > 0 /\ new.status \in {old.status, "PAID"}
           \/ Sum(entry) = Settlement(old) /\ new.status = "PAID"
           \/ Sum(entry) = 0 /\ new.status = "DRAFT" /\ Reopenable(old)

LEMMA RefreshedRow ==
  ASSUME NEW row \in Row, NEW total \in Int
  PROVE  /\ Refreshed(row, total) \in Row
         /\ Legal(row, Refreshed(row, total), NoPayment)
         /\ Refreshed(row, total).status = row.status
         /\ Refreshed(row, total).total_earned = total
  BY NoPaymentType DEF Row, Refreshed, Legal

LEMMA FinalizedRow ==
  ASSUME NEW row \in Row
  PROVE  Finalized(row) \in Row /\ Legal(row, Finalized(row), NoPayment)
  BY NoPaymentType DEF Row, PeriodStatus, Finalized, Legal

LEMMA ApprovedRow ==
  ASSUME NEW row \in Row
  PROVE  /\ Approved(row) \in Row
         /\ Approved(row).paid_amount = row.paid_amount
         /\ Approved(row).total_earned = row.total_earned
         /\ Legal(row, Approved(row), NoPayment)
  BY NoPaymentType DEF Row, PeriodStatus, Approved, Legal

LEMMA ReopenedRow ==
  ASSUME NEW row \in Row, Reopenable(row)
  PROVE  Reopened(row) \in Row /\ Legal(row, Reopened(row), NoPayment)
  BY NoPaymentType DEF Row, PeriodStatus, Reopened, Legal

LEMMA ReopenedType ==
  ASSUME NEW row \in Row
  PROVE  Reopened(row) \in Row
  BY DEF Row, PeriodStatus, Reopened

LEMMA SettlementType ==
  ASSUME NEW row \in Row
  PROVE  Settlement(row) \in Nat
  BY DEF Row, Pending, Settlement

LEMMA CreditedRow ==
  ASSUME NEW row \in Row, NEW amount \in Nat
  PROVE  /\ Credited(row, amount) \in Row
         /\ Credited(row, amount).paid_amount = row.paid_amount + amount
         /\ Credited(row, amount).total_earned = row.total_earned
         /\ Credited(row, amount).status = row.status
  BY DEF Row, Credited

LEMMA ClosedRow ==
  ASSUME NEW row \in Row
  PROVE  /\ Closed(row) \in Row
         /\ Closed(row).paid_amount = row.paid_amount
         /\ Closed(row).total_earned = row.total_earned
         /\ Closed(row).status = "PAID"
  BY DEF Row, PeriodStatus, Closed

LEMMA MarkedPaidRow ==
  ASSUME NEW row \in Row
  PROVE  /\ MarkedPaid(row) \in Row
         /\ Settling(row) \in [TransactionType -> Nat]
         /\ Legal(row, MarkedPaid(row), Settling(row))
  <1> DEFINE paid == Closed(Credited(row, Settlement(row)))
  <1>1. Settlement(row) \in Nat
    BY SettlementType
  <1>2. "FULL_PAYMENT" \in TransactionType
    BY DEF TransactionType
  <1>3. /\ Settling(row) \in [TransactionType -> Nat]
        /\ Sum(Settling(row)) = Settlement(row)
    BY <1>1, <1>2, EntryType DEF Settling
  <1>4. /\ paid \in Row
        /\ paid.paid_amount = row.paid_amount + Settlement(row)
        /\ paid.total_earned = row.total_earned
        /\ paid.status = "PAID"
    BY <1>1, CreditedRow, ClosedRow
  <1>5. /\ [paid EXCEPT !.paid_at = TRUE] \in Row
        /\ [paid EXCEPT !.paid_at = TRUE].paid_amount = paid.paid_amount
        /\ [paid EXCEPT !.paid_at = TRUE].total_earned = paid.total_earned
        /\ [paid EXCEPT !.paid_at = TRUE].status = paid.status
    BY <1>4 DEF Row
  <1> QED BY <1>3, <1>4, <1>5 DEF Legal, MarkedPaid

LEMMA RecordedRow ==
  ASSUME NEW row \in Row, NEW type \in TransactionType, NEW amount \in Nat \ {0}
  PROVE  /\ Recorded(row, type, amount) \in Row
         /\ Legal(row, Recorded(row, type, amount), Entry(type, amount))
  <1>1. Sum(Entry(type, amount)) = amount /\ amount > 0
    BY EntryType
  <1>2. /\ Recorded(row, type, amount) \in Row
        /\ Recorded(row, type, amount).paid_amount = row.paid_amount + amount
        /\ Recorded(row, type, amount).total_earned = row.total_earned
        /\ Recorded(row, type, amount).status \in {row.status, "PAID"}
    BY CreditedRow, ClosedRow DEF Recorded
  <1> QED BY <1>1, <1>2 DEF Legal

LEMMA FlushType ==
  ASSUME NEW row \in Row, NEW old \in Row, NEW new \in Row
  PROVE  /\ Flush(row, old, new) \in Row
         /\ Flush(row, old, new).paid_amount \in {row.paid_amount, new.paid_amount}
  BY DEF Flush, Row

LEMMA SumType ==
  ASSUME NEW entry \in [TransactionType -> Nat]
  PROVE  Sum(entry) \in Nat
  BY DEF Sum, TransactionType

LEMMA SumAdds ==
  ASSUME NEW a \in [TransactionType -> Nat], NEW b \in [TransactionType -> Nat]
  PROVE  Sum([t \in TransactionType |-> a[t] + b[t]]) = Sum(a) + Sum(b)
  <1>1. /\ "ADVANCE" \in TransactionType
        /\ "FULL_PAYMENT" \in TransactionType
        /\ "BONUS" \in TransactionType
    BY DEF TransactionType
  <1> QED BY <1>1 DEF Sum

(***************************************************************************)
(* Every handler begins in the same way.                                   *)
(***************************************************************************)

\* A session's writes are sound: legal for each row, with payments for the
\* selected rows only, which mark-paid computes from what it loaded.
Sound(t) ==
  /\ \A p \in Periods : Legal(t.old[p], t.new[p], t.add[p])
  /\ \A p \in Periods \ t.rows : t.add[p] = NoPayment
  /\ t.op \in {"mark_paid", "bulk_mark_paid"} =>
       \A p \in t.rows : t.add[p] = Settling(t.old[p])
  /\ t.op = "close_recompute" =>
       /\ t.rows = Active /\ t.locked \subseteq Active /\ t.add = Nothing
       /\ \A p \in Periods : t.new[p].status = t.old[p].status

\* What the session loaded is still what is committed.
Loaded(t) ==
  \A p \in Periods : t.old[p] = IF p \in t.rows THEN period[p] ELSE NewRow

\* And month_end_close computed the totals a recompute still finds.
Current(t) ==
  /\ Loaded(t)
  /\ t.op \in {"close_recompute", "close"} =>
       \A p \in Active : p \in t.rows /\ t.new[p].total_earned = fresh[p]
  /\ t.op = "close_recompute" =>
       \A p \in Active \ t.locked : period[p].total_earned = fresh[p]

Begun(t) == t \in Transaction /\ t.op # "idle" /\ Sound(t) /\ Current(t)

Begins(s) ==
  /\ tx[s] = Idle
  /\ \E t \in Transaction : Begun(t) /\ tx' = [tx EXCEPT ![s] = t]
  /\ UNCHANGED <<period, ledger, fresh>>

LEMMA IdleSound == Idle \in Transaction /\ Sound(Idle)
  <1>1. Idle \in Transaction
    BY NewRowType, NoPaymentType DEF Idle, Transaction
  <1>2. Sound(Idle)
    BY NewRowType, NoPaymentType DEF Idle, Sound, Legal
  <1> QED BY <1>1, <1>2

LEMMA NothingType == Nothing \in [Periods -> [TransactionType -> Nat]]
  BY NoPaymentType DEF Nothing

LEMMA RowsAndTotals ==
  ASSUME TypeOK
  PROVE  \A p \in Periods : period[p] \in Row /\ fresh[p] \in Int
  BY TotalsAssumption DEF TypeOK

\* A transaction that loads the rows S, assigns new to them and inserts add.
LEMMA LoadedIsBegun ==
  ASSUME TypeOK, NEW op \in Ops, NEW S \in SUBSET Periods, NEW L \in SUBSET Periods,
         NEW new \in [Periods -> Row],
         NEW add \in [Periods -> [TransactionType -> Nat]],
         \A p \in S : Legal(period[p], new[p], add[p]),
         \A p \in S : op \in {"mark_paid", "bulk_mark_paid"} => add[p] = Settling(period[p]),
         op = "close_recompute" =>
           /\ S = Active /\ L \subseteq S /\ add = Nothing
           /\ \A p \in S : /\ new[p].status = period[p].status
                         /\ new[p].total_earned = fresh[p]
           /\ \A p \in S \ L : period[p].total_earned = fresh[p],
         op # "close"
  PROVE  Begun([op |-> op, rows |-> S, locked |-> L,
                old |-> On(S, period, NewRow),
                new |-> On(S, new, NewRow),
                add |-> On(S, add, NoPayment)])
  <1> DEFINE t == [op |-> op, rows |-> S, locked |-> L,
                   old |-> On(S, period, NewRow),
                   new |-> On(S, new, NewRow),
                   add |-> On(S, add, NoPayment)]
  <1>1. /\ On(S, period, NewRow) \in [Periods -> Row]
        /\ On(S, new, NewRow) \in [Periods -> Row]
        /\ On(S, add, NoPayment) \in [Periods -> [TransactionType -> Nat]]
    BY NewRowType, NoPaymentType DEF TypeOK, On
  <1>2. t \in Transaction
    BY <1>1 DEF Transaction
  <1>3. t.op # "idle"
    BY DEF Ops
  <1>4. ASSUME NEW p \in Periods
        PROVE  Legal(t.old[p], t.new[p], t.add[p])
    <2>1. CASE p \in S
      BY <2>1 DEF On
    <2>2. CASE p \notin S
      BY <2>2, NewRowType, NoPaymentType DEF Legal, On
    <2> QED BY <2>1, <2>2
  <1>5. Current(t)
    BY ActiveAssumption DEF Current, Loaded, On
  <1>6. \A p \in Periods \ S : t.add[p] = NoPayment
    BY DEF On
  <1>7. t.op \in {"mark_paid", "bulk_mark_paid"} =>
          \A p \in S : t.add[p] = Settling(t.old[p])
    BY DEF On
  <1>8. t.op = "close_recompute" =>
          /\ t.rows = Active /\ t.locked \subseteq Active /\ t.add = Nothing
          /\ \A p \in Periods : t.new[p].status = t.old[p].status
    BY DEF On, Nothing
  <1>9. Sound(t)
    BY <1>4, <1>6, <1>7, <1>8 DEF Sound
  <1> QED BY <1>2, <1>3, <1>5, <1>9 DEF Begun

LEMMA LoadBegins ==
  ASSUME TypeOK, NEW s \in Sessions, NEW op \in Ops, NEW S \in SUBSET Periods,
         NEW new \in [Periods -> Row],
         NEW add \in [Periods -> [TransactionType -> Nat]],
         \A p \in S : Legal(period[p], new[p], add[p]),
         \A p \in S : op \in {"mark_paid", "bulk_mark_paid"} => add[p] = Settling(period[p]),
         op \notin {"close_recompute", "close"},
         Load(s, op, S, new, add)
  PROVE  Begins(s)
  BY LoadedIsBegun DEF Load, Begins, Begun

\* A sweep of month_end_close or daily_summary begins a transaction.
LEMMA SweepBegins ==
  ASSUME TypeOK, NEW s \in Sessions, NEW op \in Ops, NEW total,
         \A p \in Periods : total[p] \in Int,
         op \notin {"mark_paid", "bulk_mark_paid", "close"},
         op = "close_recompute" => total = fresh,
         Sweep(s, op, total)
  PROVE  Begins(s)
  <1> DEFINE changed == {p \in Active : total[p] # period[p].total_earned}
             t == [op |-> op, rows |-> Active, locked |-> changed,
                   old |-> On(Active, period, NewRow),
                   new |-> On(Active, Refreshing(total), NewRow),
                   add |-> On(Active, Nothing, NoPayment)]
  <1>1. /\ Refreshing(total) \in [Periods -> Row]
        /\ \A p \in Periods :
             /\ Legal(period[p], Refreshing(total)[p], Nothing[p])
             /\ Refreshing(total)[p].status = period[p].status
             /\ Refreshing(total)[p].total_earned = total[p]
    BY RowsAndTotals, RefreshedRow DEF Refreshing, Nothing
  <1>2. Nothing = On(Active, Nothing, NoPayment)
    BY DEF Nothing, On
  <1>3. Active \in SUBSET Periods /\ changed \in SUBSET Periods
    BY ActiveAssumption
  <1>4. Begun(t)
    BY <1>1, <1>3, NothingType, LoadedIsBegun
  <1>5. tx[s] = Idle /\ tx' = [tx EXCEPT ![s] = t] /\ UNCHANGED <<period, ledger, fresh>>
    BY <1>2 DEF Sweep
  <1> QED BY <1>4, <1>5 DEF Begins, Begun

LEMMA RequestBegins ==
  ASSUME TypeOK, NEW s \in Sessions, Request(s)
  PROVE  Begins(s)
  <1>0. \A p \in Periods : period[p] \in Row /\ fresh[p] \in Int
    BY RowsAndTotals
  <1>1. ASSUME NEW total, \A p \in Periods : total[p] \in Int
        PROVE  /\ Refreshing(total) \in [Periods -> Row]
               /\ \A p \in Periods :
                    /\ Legal(period[p], Refreshing(total)[p], Nothing[p])
                    /\ Refreshing(total)[p].status = period[p].status
                    /\ Refreshing(total)[p].total_earned = total[p]
    BY <1>0, <1>1, RefreshedRow DEF Refreshing, Nothing
  <1>2. /\ Finalizing \in [Periods -> Row]
        /\ \A p \in Periods : Legal(period[p], Finalizing[p], Nothing[p])
    BY <1>0, FinalizedRow DEF Finalizing, Nothing
  <1>3. /\ Approving \in [Periods -> Row]
        /\ \A p \in Periods : Legal(period[p], Approving[p], Nothing[p])
    BY <1>0, ApprovedRow DEF Approving, Nothing
  <1>4. /\ Reopening \in [Periods -> Row]
        /\ \A p \in Periods : Reopenable(period[p])
                               => Legal(period[p], Reopening[p], Nothing[p])
    BY <1>0, ReopenedRow, ReopenedType DEF Reopening, Nothing
  <1>5. /\ MarkingPaid \in [Periods -> Row]
        /\ FullPayments \in [Periods -> [TransactionType -> Nat]]
        /\ \A p \in Periods : Legal(period[p], MarkingPaid[p], FullPayments[p])
        /\ \A p \in Periods : FullPayments[p] = Settling(period[p])
    BY <1>0, MarkedPaidRow DEF MarkingPaid, FullPayments
  <1>6. ASSUME NEW p \in Periods, NEW total \in Totals, Recompute(s, p, total)
        PROVE  Begins(s)
    <2> DEFINE totals == [q \in Periods |-> total]
    <2>1. \A q \in Periods : totals[q] \in Int
      BY TotalsAssumption
    <2>2. Load(s, "recompute", {p}, Refreshing(totals), Nothing)
      BY <1>6 DEF Recompute
    <2> HIDE DEF totals
    <2> QED BY <2>1, <2>2, <1>1, NothingType, LoadBegins, "recompute" \in Ops DEF Ops
  <1>7. CASE \E p \in Periods : FinalizePeriod(s, p)
    BY <1>7, <1>2, NothingType, LoadBegins, "finalize" \in Ops DEF FinalizePeriod, Ops
  <1>8. CASE \E p \in Periods : ApprovePeriod(s, p)
    BY <1>8, <1>3, NothingType, LoadBegins, "approve" \in Ops DEF ApprovePeriod, Ops
  <1>9. CASE \E p \in Periods : MarkPeriodPaid(s, p)
    BY <1>9, <1>5, LoadBegins, "mark_paid" \in Ops DEF MarkPeriodPaid, Ops
  <1>10. CASE \E p \in Periods : ReopenPeriod(s, p)
    BY <1>10, <1>4, NothingType, LoadBegins, "reopen" \in Ops DEF ReopenPeriod, Ops
  <1>11. ASSUME NEW p \in Periods, NEW type \in TransactionType, NEW amount \in Amounts,
                CreateTransaction(s, p, type, amount)
         PROVE  Begins(s)
    <2> DEFINE new == [q \in Periods |-> Recorded(period[q], type, amount)]
               add == [q \in Periods |-> Entry(type, amount)]
    <2>1. amount \in Nat \ {0}
      BY AmountsAssumption
    <2>2. new \in [Periods -> Row] /\ add \in [Periods -> [TransactionType -> Nat]]
      BY <1>0, <2>1, RecordedRow, EntryType
    <2>3. \A q \in Periods : Legal(period[q], new[q], add[q])
      BY <1>0, <2>1, RecordedRow
    <2>4. Load(s, "transaction", {p}, new, add)
      BY <1>11 DEF CreateTransaction
    <2>5. "transaction" \in Ops
      BY DEF Ops
    <2> QED BY <2>2, <2>3, <2>4, <2>5, LoadBegins
  <1>12. CASE BulkApprove(s)
    BY <1>12, <1>3, NothingType, LoadBegins, "bulk_approve" \in Ops DEF BulkApprove, Ops
  <1>13. CASE BulkMarkPaid(s)
    BY <1>13, <1>5, LoadBegins, "bulk_mark_paid" \in Ops DEF BulkMarkPaid, Ops
  <1>14. CASE MonthlyFinalize(s)
    BY <1>14, <1>2, NothingType, LoadBegins, "monthly_finalize" \in Ops
       DEF MonthlyFinalize, Ops
  <1>15. CASE CloseRecompute(s)
    BY <1>15, <1>0, SweepBegins, "close_recompute" \in Ops DEF CloseRecompute, Ops
  <1>16. CASE DailySummary(s)
    <2>1. PICK total \in [Periods -> Totals] : Sweep(s, "daily_summary", total)
      BY <1>16 DEF DailySummary
    <2>2. \A p \in Periods : total[p] \in Int
      BY TotalsAssumption
    <2> QED BY <2>1, <2>2, SweepBegins, "daily_summary" \in Ops DEF Ops
  <1>17. ASSUME NEW S \in SUBSET Active, BulkRecompute(s, S)
         PROVE  Begins(s)
    <2>1. S \in SUBSET Periods
      BY ActiveAssumption
    <2> QED BY <2>1, <1>0, <1>1, <1>17, NothingType, LoadBegins, "bulk_recompute" \in Ops
            DEF BulkRecompute, Ops
  <1> QED
    BY <1>6, <1>7, <1>8, <1>9, <1>10, <1>11, <1>12, <1>13, <1>14, <1>15, <1>16, <1>17
       DEF Request

(***************************************************************************)
(* The steps that end a transaction or carry it on.                        *)
(***************************************************************************)

\* What month_end_close has in flight after its second step.
LEMMA CloseApproveSound ==
  ASSUME TypeOK, NEW s \in Sessions, Sound(tx[s]), CloseApprove(s)
  PROVE  \E t \in Transaction :
           /\ Sound(t)
           /\ tx' = [tx EXCEPT ![s] = t]
           /\ t.op = "close"
           /\ t.rows = Active \cup {p \in Periods : BulkApprovable(p)}
           /\ \A p \in t.rows : t.old[p] = IF p \in tx[s].locked THEN tx[s].old[p] ELSE period[p]
           /\ \A p \in Periods \ t.rows : t.old[p] = NewRow
           /\ \A p \in Active : t.new[p].total_earned =
                                IF p \in tx[s].locked THEN tx[s].new[p].total_earned
                                                      ELSE period[p].total_earned
  <1> DEFINE found == {p \in Periods : BulkApprovable(p)}
             S == Active \cup found
             old == Held(s, tx[s].old)
             held == Held(s, tx[s].new)
             new == [p \in Periods |-> IF p \in found THEN Approved(held[p]) ELSE held[p]]
             t == [op |-> "close", rows |-> S, locked |-> tx[s].locked,
                   old |-> On(S, old, NewRow), new |-> On(S, new, NewRow),
                   add |-> Nothing]
  <1>1. /\ tx[s] \in Transaction
        /\ tx[s].old \in [Periods -> Row]
        /\ tx[s].new \in [Periods -> Row]
        /\ tx[s].locked \in SUBSET Periods
    BY DEF TypeOK, Transaction
  <1>2. S \in SUBSET Periods
    BY ActiveAssumption
  <1>3. old \in [Periods -> Row] /\ held \in [Periods -> Row]
    BY <1>1 DEF Held, TypeOK
  <1>4. new \in [Periods -> Row]
    BY <1>3, ApprovedRow
  <1>5. /\ On(S, old, NewRow) \in [Periods -> Row]
        /\ On(S, new, NewRow) \in [Periods -> Row]
    BY <1>3, <1>4, NewRowType DEF On
  <1>6. t \in Transaction
    BY <1>1, <1>2, <1>5, NothingType DEF Transaction, Ops
  <1>7. tx[s].op = "close_recompute" /\ tx[s].add = Nothing
    BY DEF CloseApprove, Sound
  <1>8. ASSUME NEW p \in Periods
        PROVE  Legal(t.old[p], t.new[p], t.add[p])
    <2>1. t.add[p] = NoPayment
      BY DEF Nothing
    <2>2. CASE p \notin S
      <3>1. t.old[p] = NewRow /\ t.new[p] = NewRow
        BY <2>2 DEF On
      <3> HIDE DEF t
      <3> QED BY <2>1, <3>1, NewRowType, NoPaymentType DEF Legal
    <2>3. CASE p \in S
      <3>1. t.old[p] = old[p] /\ t.new[p] = new[p]
        BY <2>3 DEF On
      <3>2. Legal(old[p], held[p], NoPayment) /\ held[p].status = old[p].status
        <4>1. CASE p \in tx[s].locked
          BY <4>1, <1>7 DEF Held, Sound, Nothing
        <4>2. CASE p \notin tx[s].locked
          <5>1. old[p] = period[p] /\ held[p] = period[p] /\ period[p] \in Row
            BY <4>2 DEF Held, TypeOK
          <5> QED BY <5>1, NoPaymentType DEF Legal, Row
        <4> QED BY <4>1, <4>2
      <3>3. old[p] \in Row /\ held[p] \in Row
        BY <1>3
      <3>4. Legal(old[p], Approved(held[p]), NoPayment)
        <4>1. /\ Approved(held[p]).paid_amount = held[p].paid_amount
              /\ Approved(held[p]).total_earned = held[p].total_earned
          BY <3>3, ApprovedRow
        <4> HIDE DEF old, held
        <4>2. CASE Approved(held[p]).status = held[p].status
          BY <3>2, <4>1, <4>2, NoPaymentType DEF Legal, Approved
        <4>3. CASE Approved(held[p]).status # held[p].status
          <5>1. held[p].status \notin {"APPROVED", "PAID"}
            BY <4>3 DEF Approved
          <5>2. Approved(held[p]).status = "APPROVED"
            BY <5>1, <3>3 DEF Approved, Row
          <5> QED BY <3>2, <4>1, <5>1, <5>2, NoPaymentType DEF Legal
        <4> QED BY <4>2, <4>3
      <3>5. new[p] \in {held[p], Approved(held[p])}
        OBVIOUS
      <3> QED BY <2>1, <3>1, <3>2, <3>4, <3>5
    <2> QED BY <2>2, <2>3
  <1>9. Sound(t)
    BY <1>8 DEF Sound, Nothing
  <1>10. tx' = [tx EXCEPT ![s] = t]
    BY DEF CloseApprove
  <1>11. \A p \in t.rows : t.old[p] = IF p \in tx[s].locked THEN tx[s].old[p] ELSE period[p]
    BY <1>2 DEF On, Held
  <1>12. \A p \in Periods \ t.rows : t.old[p] = NewRow
    BY DEF On
  <1>13. ASSUME NEW p \in Active
         PROVE  t.new[p].total_earned = IF p \in tx[s].locked
                                          THEN tx[s].new[p].total_earned
                                          ELSE period[p].total_earned
    <2>1. p \in Periods /\ p \in S
      BY ActiveAssumption
    <2>2. /\ t.new[p] = new[p]
          /\ held[p] = IF p \in tx[s].locked THEN tx[s].new[p] ELSE period[p]
      BY <2>1, <1>13 DEF On, Held
    <2>3. held[p] \in Row
      BY <2>1, <1>3
    <2>4. new[p] \in {held[p], Approved(held[p])}
      BY <2>1
    <2> HIDE DEF t, held, new
    <2> QED BY <2>2, <2>3, <2>4, ApprovedRow
  <1> QED BY <1>6, <1>9, <1>10, <1>11, <1>12, <1>13

LEMMA HandedType ==
  ASSUME TypeOK
  PROVE  \A p \in Periods : Handed(p) \in Nat
  BY SumType DEF TypeOK, Handed

LEMMA CommitEffect ==
  ASSUME TypeOK, NEW s \in Sessions, Commit(s)
  PROVE  /\ TypeOK'
         /\ tx' = [tx EXCEPT ![s] = Idle]
         /\ \A p \in Periods :
              /\ Handed(p)' = Handed(p) + Sum(tx[s].add[p])
              /\ Sum(tx[s].add[p]) \in Nat
              /\ period'[p].paid_amount \in {period[p].paid_amount, tx[s].new[p].paid_amount}
  <1>1. /\ tx[s].old \in [Periods -> Row]
        /\ tx[s].new \in [Periods -> Row]
        /\ tx[s].add \in [Periods -> [TransactionType -> Nat]]
    BY DEF TypeOK, Transaction
  <1>2. ledger' = [p \in Periods |-> [t \in TransactionType |->
                                        ledger[p][t] + tx[s].add[p][t]]]
    BY DEF Commit
  <1>3. period' \in [Periods -> Row]
    BY <1>1, FlushType DEF TypeOK, Commit
  <1>4. ledger' \in [Periods -> [TransactionType -> Nat]]
    BY <1>1, <1>2 DEF TypeOK
  <1>5. tx' = [tx EXCEPT ![s] = Idle] /\ fresh' = fresh
    BY DEF Commit
  <1>6. tx' \in [Sessions -> Transaction]
    BY <1>5, IdleSound DEF TypeOK
  <1>7. TypeOK'
    BY <1>3, <1>4, <1>5, <1>6 DEF TypeOK
  <1>8. ASSUME NEW p \in Periods
        PROVE  /\ Handed(p)' = Handed(p) + Sum(tx[s].add[p])
               /\ Sum(tx[s].add[p]) \in Nat
               /\ period'[p].paid_amount \in {period[p].paid_amount, tx[s].new[p].paid_amount}
    <2>1. ledger[p] \in [TransactionType -> Nat] /\ tx[s].add[p] \in [TransactionType -> Nat]
      BY <1>1 DEF TypeOK
    <2>2. ledger'[p] = [t \in TransactionType |-> ledger[p][t] + tx[s].add[p][t]]
      BY <1>2
    <2>3. Sum(ledger'[p]) = Sum(ledger[p]) + Sum(tx[s].add[p])
      BY <2>1, <2>2, SumAdds
    <2>4. period'[p].paid_amount \in {period[p].paid_amount, tx[s].new[p].paid_amount}
      BY <1>1, FlushType DEF TypeOK, Commit
    <2> QED BY <2>1, <2>3, <2>4, SumType DEF Handed
  <1> QED BY <1>5, <1>7, <1>8

\* Both next-state relations are made of these steps.
Step(s) == Begins(s) \/ CloseApprove(s) \/ Commit(s) \/ Rollback(s)

LEMMA NextSteps ==
  ASSUME TypeOK, Next
  PROVE  (\E s \in Sessions : Step(s)) \/ (\E p \in Periods : EditInputs(p))
  BY RequestBegins DEF Next, Step

(***************************************************************************)
(* Any interleaving.                                                       *)
(***************************************************************************)

\* A session never loaded more of paid_amount than has been handed out by now,
\* because transactions are only ever added; so what it writes is covered by
\* what was handed out then and what it hands out itself.
RaceInv ==
  /\ TypeOK
  /\ \A s \in Sessions : Sound(tx[s])
  /\ \A s \in Sessions, p \in Periods : tx[s].old[p].paid_amount <= Handed(p)
  /\ PaidNeverOverstated

LEMMA RaceInvInit == Init => RaceInv
  <1> SUFFICES ASSUME Init PROVE RaceInv
    OBVIOUS
  <1>1. TypeOK
    BY NewRowType, NoPaymentType, IdleSound, TotalsAssumption DEF Init, TypeOK
  <1>2. \A s \in Sessions : Sound(tx[s])
    BY IdleSound DEF Init
  <1>3. \A p \in Periods : Handed(p) = 0
    BY NoPaymentType DEF Init, Handed
  <1>4. \A s \in Sessions, p \in Periods : tx[s].old[p].paid_amount <= Handed(p)
    <2>1. \A s \in Sessions, p \in Periods : tx[s].old[p] = NewRow
      BY DEF Init, Idle
    <2>2. NewRow.paid_amount <= 0
      BY NewRowType
    <2> QED BY <1>3, <2>1, <2>2
  <1>5. PaidNeverOverstated
    <2>1. \A p \in Periods : period[p] = NewRow
      BY DEF Init
    <2>2. NewRow.paid_amount <= 0
      BY NewRowType
    <2> QED BY <1>3, <2>1, <2>2 DEF PaidNeverOverstated
  <1> QED BY <1>1, <1>2, <1>4, <1>5 DEF RaceInv

LEMMA RaceInvStep == RaceInv /\ [Next]_vars => RaceInv'
  <1> SUFFICES ASSUME RaceInv, [Next]_vars PROVE RaceInv'
    OBVIOUS
  <1>0. TypeOK /\ (\A s \in Sessions : Sound(tx[s]))
    BY DEF RaceInv
  <1>H. \A p \in Periods : Handed(p) \in Nat
    BY <1>0, HandedType
  \* A step that replaces what one session has in flight by t.
  <1>1. ASSUME NEW s \in Sessions, NEW t \in Transaction, Sound(t),
               \A p \in Periods : t.old[p].paid_amount <= Handed(p),
               tx' = [tx EXCEPT ![s] = t],
               UNCHANGED <<period, ledger, fresh>>
        PROVE  RaceInv'
    <2>1. TypeOK'
      BY <1>0, <1>1 DEF TypeOK
    <2>2. \A r \in Sessions : tx'[r] \in {tx[r], t}
      BY <1>0, <1>1 DEF TypeOK
    <2>3. \A p \in Periods : Handed(p)' = Handed(p)
      BY <1>1 DEF Handed
    <2>4. \A r \in Sessions : Sound(tx'[r])
      BY <1>0, <1>1, <2>2
    <2>5. \A r \in Sessions, p \in Periods : tx'[r].old[p].paid_amount <= Handed(p)'
      BY <1>1, <2>2, <2>3 DEF RaceInv
    <2>6. PaidNeverOverstated'
      BY <1>1, <2>3 DEF RaceInv, PaidNeverOverstated
    <2> QED BY <2>1, <2>4, <2>5, <2>6 DEF RaceInv
  <1>2. ASSUME NEW s \in Sessions, Begins(s)
        PROVE  RaceInv'
    <2>1. PICK t \in Transaction : Begun(t) /\ tx' = [tx EXCEPT ![s] = t]
      BY <1>2 DEF Begins
    <2>2. \A p \in Periods : t.old[p].paid_amount <= Handed(p)
      BY <2>1, <1>H, NewRowType DEF Begun, Current, Loaded, RaceInv, PaidNeverOverstated
    <2>3. UNCHANGED <<period, ledger, fresh>>
      BY <1>2 DEF Begins
    <2> QED BY <1>1, <2>1, <2>2, <2>3 DEF Begun
  <1>3. ASSUME NEW s \in Sessions, CloseApprove(s)
        PROVE  RaceInv'
    <2>1. PICK t \in Transaction :
            /\ Sound(t)
            /\ tx' = [tx EXCEPT ![s] = t]
            /\ \A p \in t.rows : t.old[p] = IF p \in tx[s].locked THEN tx[s].old[p] ELSE period[p]
            /\ \A p \in Periods \ t.rows : t.old[p] = NewRow
      BY <1>0, <1>3, CloseApproveSound
    <2>2. \A p \in Periods : t.old[p].paid_amount <= Handed(p)
      BY <2>1, <1>H, NewRowType DEF RaceInv, PaidNeverOverstated
    <2>3. UNCHANGED <<period, ledger, fresh>>
      BY <1>3 DEF CloseApprove
    <2> QED BY <1>1, <2>1, <2>2, <2>3
  <1>4. ASSUME NEW s \in Sessions, Rollback(s)
        PROVE  RaceInv'
    <2>1. \A p \in Periods : Idle.old[p].paid_amount <= Handed(p)
      BY <1>H, NewRowType DEF Idle
    <2> QED BY <1>1, <1>4, <2>1, IdleSound DEF Rollback
  <1>5. ASSUME NEW s \in Sessions, Commit(s)
        PROVE  RaceInv'
    <2>1. /\ TypeOK'
          /\ tx' = [tx EXCEPT ![s] = Idle]
          /\ \A p \in Periods :
               /\ Handed(p)' = Handed(p) + Sum(tx[s].add[p])
               /\ Sum(tx[s].add[p]) \in Nat
               /\ period'[p].paid_amount \in {period[p].paid_amount, tx[s].new[p].paid_amount}
      BY <1>0, <1>5, CommitEffect
    <2>2. \A r \in Sessions : tx'[r] \in {tx[r], Idle}
      BY <1>0, <2>1 DEF TypeOK
    <2>3. \A r \in Sessions : Sound(tx'[r])
      BY <1>0, <2>2, IdleSound
    <2>4. \A r \in Sessions, p \in Periods :
            /\ tx[r].old[p].paid_amount \in Int
            /\ period[p].paid_amount \in Int
      BY <1>0 DEF TypeOK, Transaction, Row
    <2>5. ASSUME NEW r \in Sessions, NEW p \in Periods
          PROVE  tx'[r].old[p].paid_amount <= Handed(p)'
      <3>1. CASE tx'[r] = tx[r]
        BY <3>1, <2>1, <2>4, <1>H DEF RaceInv
      <3>2. CASE tx'[r] = Idle
        <4>1. Idle.old[p].paid_amount = 0
          BY NewRowType DEF Idle
        <4> QED BY <3>2, <4>1, <2>1, <1>H
      <3> QED BY <2>2, <3>1, <3>2
    <2>6. ASSUME NEW p \in Periods
          PROVE  period'[p].paid_amount <= Handed(p)'
      <3>1. tx[s].new[p].paid_amount = tx[s].old[p].paid_amount + Sum(tx[s].add[p])
        BY <1>0 DEF Sound, Legal
      <3>2. /\ tx[s].old[p].paid_amount <= Handed(p)
            /\ period[p].paid_amount <= Handed(p)
        BY DEF RaceInv, PaidNeverOverstated
      <3> QED BY <3>1, <3>2, <2>1, <2>4, <1>H
    <2> QED BY <2>1, <2>3, <2>5, <2>6 DEF RaceInv, PaidNeverOverstated
  <1>6. ASSUME NEW p \in Periods, EditInputs(p)
        PROVE  RaceInv'
    <2>1. fresh' \in [Periods -> Totals] /\ UNCHANGED <<period, ledger, tx>>
      BY <1>0, <1>6 DEF EditInputs, TypeOK
    <2> QED BY <2>1 DEF RaceInv, TypeOK, PaidNeverOverstated, Handed
  <1>7. CASE UNCHANGED vars
    BY <1>7 DEF vars, RaceInv, TypeOK, PaidNeverOverstated, Handed
  <1> QED BY <1>0, <1>2, <1>3, <1>4, <1>5, <1>6, <1>7, NextSteps DEF Step

\* Every reachable state is well typed, however requests interleave.
THEOREM TypeCorrect == Spec => []TypeOK
  <1>1. RaceInv => TypeOK
    BY DEF RaceInv
  <1> QED BY <1>1, RaceInvInit, RaceInvStep, PTL DEF Spec

\* paid_amount never claims money that no transaction accounts for, whatever
\* number of requests race on however many periods.
THEOREM NeverOverstated == Spec => []PaidNeverOverstated
  <1>1. RaceInv => PaidNeverOverstated
    BY DEF RaceInv
  <1> QED BY <1>1, RaceInvInit, RaceInvStep, PTL DEF Spec

\* Whatever raced with it, a committed mark-paid leaves the employee with at
\* least the total that the request saw.
THEOREM MarkPaidSettles == Spec => SettledInFull
  <1> DEFINE Act == \A s \in Sessions : \A p \in tx[s].rows :
                      MarksPaid(s) /\ Commit(s)
                        => Sum(ledger'[p]) >= tx[s].old[p].total_earned
  <1>1. RaceInv /\ [Next]_vars => [Act]_vars
    <2> SUFFICES ASSUME RaceInv, NEW s \in Sessions, NEW p \in tx[s].rows,
                        MarksPaid(s), Commit(s)
                 PROVE  Sum(ledger'[p]) >= tx[s].old[p].total_earned
      OBVIOUS
    <2>1. TypeOK /\ Sound(tx[s])
      BY DEF RaceInv
    <2>2. p \in Periods /\ tx[s].old[p] \in Row
      BY <2>1 DEF TypeOK, Transaction
    <2>3. tx[s].add[p] = Settling(tx[s].old[p])
      BY <2>1 DEF Sound, MarksPaid
    <2>4. Settlement(tx[s].old[p]) \in Nat
      BY <2>2, SettlementType
    <2>5. Sum(tx[s].add[p]) = Settlement(tx[s].old[p])
      BY <2>3, <2>4, EntryType, "FULL_PAYMENT" \in TransactionType
         DEF Settling, TransactionType
    <2>6. Sum(ledger'[p]) = Handed(p) + Settlement(tx[s].old[p])
      BY <2>1, <2>2, <2>5, CommitEffect DEF Handed
    <2>7. Handed(p) \in Nat /\ tx[s].old[p].paid_amount <= Handed(p)
      BY <2>1, <2>2, HandedType DEF RaceInv
    <2>8. /\ tx[s].old[p].total_earned \in Int
          /\ tx[s].old[p].paid_amount \in Int
      BY <2>2 DEF Row
    <2> QED BY <2>4, <2>6, <2>7, <2>8 DEF Settlement, Pending
  <1> QED BY <1>1, RaceInvInit, RaceInvStep, PTL DEF Spec, SettledInFull

(***************************************************************************)
(* Sessions that keep apart: any number overlap, but no two of them have    *)
(* loaded the same period.  That is what a lock on the row that a handler   *)
(* reads (SELECT ... FOR UPDATE) would make of the code.                   *)
(***************************************************************************)

Apart == \A s, r \in Sessions : s # r => tx[s].rows \cap tx[r].rows = {}

\* Nobody writes a row that a session has loaded, until it does so itself.
ApartInv ==
  /\ TypeOK
  /\ \A s \in Sessions : Sound(tx[s]) /\ Loaded(tx[s])
  /\ Apart
  /\ PaidMatchesLedger

LEMMA IdleLoaded == Loaded(Idle)
  BY DEF Loaded, Idle

\* With nothing written since it loaded, a session writes what it computed.
LEMMA ApartCommit ==
  ASSUME ApartInv, NEW s \in Sessions, Commit(s), NEW p \in Periods
  PROVE  /\ period'[p] \in Row
         /\ IF p \in tx[s].rows THEN period'[p] = tx[s].new[p]
                                ELSE period'[p] = period[p]
         /\ Legal(period[p], period'[p], tx[s].add[p])
         /\ Handed(p)' = Handed(p) + Sum(tx[s].add[p])
  <1>1. TypeOK /\ Sound(tx[s]) /\ Loaded(tx[s])
    BY DEF ApartInv
  <1>2. /\ period[p] \in Row
        /\ tx[s].new[p] \in Row
        /\ tx[s].rows \in SUBSET Periods
    BY <1>1 DEF TypeOK, Transaction
  <1>3. period'[p] = IF p \in tx[s].rows
                       THEN Flush(period[p], tx[s].old[p], tx[s].new[p])
                       ELSE period[p]
    BY DEF Commit
  <1>4. Handed(p)' = Handed(p) + Sum(tx[s].add[p])
    BY <1>1, CommitEffect
  <1>5. CASE p \in tx[s].rows
    <2>1. tx[s].old[p] = period[p]
      BY <1>1, <1>5 DEF Loaded
    <2>2. Flush(period[p], period[p], tx[s].new[p]) = tx[s].new[p]
      BY <1>2 DEF Flush, Row
    <2>3. Legal(period[p], tx[s].new[p], tx[s].add[p])
      BY <1>1, <2>1 DEF Sound
    <2> QED BY <1>2, <1>3, <1>4, <1>5, <2>1, <2>2, <2>3
  <1>6. CASE p \notin tx[s].rows
    <2>1. tx[s].add[p] = NoPayment /\ period'[p] = period[p]
      BY <1>1, <1>3, <1>6 DEF Sound
    <2> QED BY <1>2, <1>4, <1>6, <2>1, NoPaymentType DEF Legal, Row
  <1> QED BY <1>5, <1>6

LEMMA ApartBegins == Init => Apart
  BY DEF Init, Apart, Idle

LEMMA ApartInvInit == Init => ApartInv
  <1> SUFFICES ASSUME Init PROVE ApartInv
    OBVIOUS
  <1>1. TypeOK /\ (\A s \in Sessions : Sound(tx[s]))
    BY RaceInvInit DEF RaceInv
  <1>2. \A s \in Sessions : tx[s] = Idle
    BY DEF Init
  <1>3. PaidMatchesLedger
    BY NoPaymentType, NewRowType DEF Init, PaidMatchesLedger, Handed
  <1> QED BY <1>1, <1>2, <1>3, IdleLoaded, ApartBegins DEF ApartInv

LEMMA ApartInvStep == ApartInv /\ [Next]_vars /\ Apart' => ApartInv'
  <1> SUFFICES ASSUME ApartInv, [Next]_vars, Apart' PROVE ApartInv'
    OBVIOUS
  <1>0. TypeOK /\ PaidMatchesLedger /\ tx \in [Sessions -> Transaction]
    BY DEF ApartInv, TypeOK
  \* A step that replaces what one session has in flight by t.
  <1>1. ASSUME NEW s \in Sessions, NEW t \in Transaction, Sound(t), Loaded(t),
               tx' = [tx EXCEPT ![s] = t],
               UNCHANGED <<period, ledger, fresh>>
        PROVE  ApartInv'
    <2>1. TypeOK'
      BY <1>0, <1>1 DEF TypeOK
    <2>2. \A r \in Sessions : tx'[r] \in {tx[r], t}
      BY <1>0, <1>1
    <2>3. (\A r \in Sessions : Sound(tx[r]) /\ Loaded(tx[r]))'
      BY <1>1, <2>2 DEF ApartInv, Loaded
    <2>4. PaidMatchesLedger'
      BY <1>0, <1>1 DEF PaidMatchesLedger, Handed
    <2> QED BY <2>1, <2>3, <2>4 DEF ApartInv
  <1>2. ASSUME NEW s \in Sessions, Begins(s)
        PROVE  ApartInv'
    <2>1. PICK t \in Transaction : Begun(t) /\ tx' = [tx EXCEPT ![s] = t]
      BY <1>2 DEF Begins
    <2>2. UNCHANGED <<period, ledger, fresh>>
      BY <1>2 DEF Begins
    <2> QED BY <1>1, <2>1, <2>2 DEF Begun, Current
  <1>3. ASSUME NEW s \in Sessions, CloseApprove(s)
        PROVE  ApartInv'
    <2>1. /\ Sound(tx[s]) /\ Loaded(tx[s]) /\ tx[s].op = "close_recompute"
          /\ UNCHANGED <<period, ledger, fresh>>
      BY <1>3 DEF ApartInv, CloseApprove
    <2>2. PICK t \in Transaction :
            /\ Sound(t)
            /\ tx' = [tx EXCEPT ![s] = t]
            /\ \A p \in t.rows : t.old[p] = IF p \in tx[s].locked THEN tx[s].old[p] ELSE period[p]
            /\ \A p \in Periods \ t.rows : t.old[p] = NewRow
      BY <1>0, <1>3, <2>1, CloseApproveSound
    <2>3. \A p \in tx[s].locked : p \in Periods /\ tx[s].old[p] = period[p]
      BY <2>1, ActiveAssumption DEF Sound, Loaded
    <2>4. Loaded(t)
      BY <2>2, <2>3 DEF Loaded
    <2> QED BY <1>1, <2>1, <2>2, <2>4
  <1>4. ASSUME NEW s \in Sessions, Rollback(s)
        PROVE  ApartInv'
    BY <1>1, <1>4, IdleSound, IdleLoaded DEF Rollback
  <1>5. ASSUME NEW s \in Sessions, Commit(s)
        PROVE  ApartInv'
    <2>1. TypeOK' /\ tx' = [tx EXCEPT ![s] = Idle]
      BY <1>0, <1>5, CommitEffect
    <2>2. \A r \in Sessions : tx'[r] = IF r = s THEN Idle ELSE tx[r]
      BY <1>0, <2>1
    <2>3. ASSUME NEW r \in Sessions
          PROVE  (Sound(tx[r]) /\ Loaded(tx[r]))'
      <3>1. CASE r = s
        BY <2>2, <3>1, IdleSound DEF Loaded, Idle
      <3>2. CASE r # s
        <4>1. Sound(tx[r]) /\ Loaded(tx[r]) /\ tx'[r] = tx[r]
          BY <2>2, <3>2 DEF ApartInv
        <4>2. \A p \in Periods : p \in tx[r].rows => period'[p] = period[p]
          BY <1>5, <3>2, ApartCommit DEF ApartInv, Apart
        <4> QED BY <4>1, <4>2 DEF Loaded, Sound
      <3> QED BY <3>1, <3>2
    <2>4. ASSUME NEW p \in Periods
          PROVE  period'[p].paid_amount = Handed(p)'
      <3>1. /\ period'[p].paid_amount = period[p].paid_amount + Sum(tx[s].add[p])
            /\ Handed(p)' = Handed(p) + Sum(tx[s].add[p])
        BY <1>5, ApartCommit DEF Legal
      <3> QED BY <1>0, <3>1 DEF PaidMatchesLedger
    <2> QED BY <2>1, <2>3, <2>4 DEF ApartInv, PaidMatchesLedger
  <1>6. ASSUME NEW p \in Periods, EditInputs(p)
        PROVE  ApartInv'
    <2>1. fresh' \in [Periods -> Totals] /\ UNCHANGED <<period, ledger, tx>>
      BY <1>0, <1>6 DEF EditInputs, TypeOK
    <2> QED BY <2>1 DEF ApartInv, TypeOK, PaidMatchesLedger, Handed, Loaded, Apart
  <1>7. CASE UNCHANGED vars
    BY <1>7 DEF vars, ApartInv, TypeOK, PaidMatchesLedger, Handed, Loaded, Apart
  <1> QED BY <1>0, <1>2, <1>3, <1>4, <1>5, <1>6, <1>7, NextSteps DEF Step

\* As long as sessions keep apart, paid_amount is exactly what the transactions
\* of the period add up to.
THEOREM ApartLedger == Spec /\ []Apart => []PaidMatchesLedger
  <1>1. ApartInv => PaidMatchesLedger
    BY DEF ApartInv
  <1> QED BY <1>1, ApartInvInit, ApartInvStep, PTL DEF Spec

\* A step is the COMMIT of one session, or it leaves the committed rows alone.
LEMMA QuietStep ==
  ASSUME ApartInv, [Next]_vars
  PROVE  \/ \E s \in Sessions : Commit(s)
         \/ UNCHANGED <<period, ledger>>
  <1>1. TypeOK
    BY DEF ApartInv
  <1>2. CASE UNCHANGED vars
    BY <1>2 DEF vars
  <1>3. CASE Next
    BY <1>1, <1>3, NextSteps DEF Step, Begins, CloseApprove, Rollback, EditInputs
  <1> QED BY <1>2, <1>3

\* What the COMMIT of a session that keeps apart does to one period, in the terms of the properties.
LEMMA ApartMove ==
  ASSUME ApartInv, NEW s \in Sessions, Commit(s), NEW p \in Periods
  PROVE  /\ Handed(p) \in Nat /\ Handed(p)' \in Nat
         /\ period[p] \in Row /\ period'[p] \in Row
         /\ period[p].paid_amount = Handed(p)
         /\ Legal(period[p], period'[p], tx[s].add[p])
         /\ Sum(tx[s].add[p]) = Handed(p)' - Handed(p)
         /\ Sum(tx[s].add[p]) \in Nat
  <1>1. TypeOK /\ PaidMatchesLedger
    BY DEF ApartInv
  <1>2. period[p] \in Row /\ tx[s].add[p] \in [TransactionType -> Nat]
    BY <1>1 DEF TypeOK, Transaction
  <1>3. Sum(tx[s].add[p]) \in Nat
    BY <1>2 DEF Sum, TransactionType
  <1>4. Handed(p) \in Nat
    BY <1>1, HandedType
  <1> QED BY <1>1, <1>2, <1>3, <1>4, ApartCommit DEF PaidMatchesLedger

\* As long as sessions keep apart, no period that money was handed out for is ever
\* opened again: finalize, approve, pay, transaction and the close included.
THEOREM ApartReopen == Spec /\ []Apart => ReopenOnlyUnpaid
  <1> DEFINE Act == \A p \in Periods :
                      period[p].status # "DRAFT" /\ period'[p].status = "DRAFT"
                        => Handed(p) = 0
  <1>1. ApartInv /\ [Next]_vars => [Act]_vars
    <2> SUFFICES ASSUME ApartInv, [Next]_vars, NEW p \in Periods,
                        period[p].status # "DRAFT", period'[p].status = "DRAFT"
                 PROVE  Handed(p) = 0
      OBVIOUS
    <2>1. PICK s \in Sessions : Commit(s)
      BY QuietStep
    <2>2. Reopenable(period[p])
      BY <2>1, ApartMove DEF Legal
    <2> QED BY <2>1, <2>2, ApartMove DEF Reopenable
  <1> QED BY <1>1, ApartInvInit, ApartInvStep, PTL DEF Spec, ReopenOnlyUnpaid

\* As long as sessions keep apart, no approval takes a paid period back to APPROVED.
THEOREM ApartApproval == Spec /\ []Apart => ApprovalKeepsPaid
  <1> DEFINE Act == \A p \in Periods :
                      period[p].status = "PAID" => period'[p].status # "APPROVED"
  <1>1. ApartInv /\ [Next]_vars => [Act]_vars
    <2> SUFFICES ASSUME ApartInv, [Next]_vars, NEW p \in Periods,
                        period[p].status = "PAID"
                 PROVE  period'[p].status # "APPROVED"
      OBVIOUS
    <2>1. CASE UNCHANGED <<period, ledger>>
      BY <2>1
    <2>2. ASSUME NEW s \in Sessions, Commit(s)
          PROVE  period'[p].status # "APPROVED"
      BY <2>2, ApartMove DEF Legal
    <2> QED BY <2>1, <2>2, QuietStep
  <1> QED BY <1>1, ApartInvInit, ApartInvStep, PTL DEF Spec, ApprovalKeepsPaid

\* As long as sessions keep apart, mark-paid hands out exactly what is missing.
THEOREM ApartPaysOnce == Spec /\ []Apart => NeverPaidTwice
  <1> DEFINE Act == \A s \in Sessions, p \in Periods :
                      MarksPaid(s) /\ Pays(s, p)
                        => Sum(ledger'[p]) = period[p].total_earned
  <1>1. ApartInv /\ [Next]_vars => [Act]_vars
    <2> SUFFICES ASSUME ApartInv, NEW s \in Sessions, NEW p \in Periods,
                        MarksPaid(s), Pays(s, p)
                 PROVE  Sum(ledger'[p]) = period[p].total_earned
      OBVIOUS
    <2>1. Commit(s) /\ ledger'[p] # ledger[p]
      BY DEF Pays
    <2>2. TypeOK /\ Sound(tx[s]) /\ Loaded(tx[s])
      BY DEF ApartInv
    <2>3. ledger'[p] = [t \in TransactionType |-> ledger[p][t] + tx[s].add[p][t]]
      BY <2>1 DEF Commit
    <2>4. ledger[p] \in [TransactionType -> Nat]
      BY <2>2 DEF TypeOK
    <2>5. tx[s].add[p] # NoPayment
      BY <2>1, <2>3, <2>4 DEF NoPayment
    <2>6. p \in tx[s].rows
      BY <2>2, <2>5 DEF Sound
    <2>7. tx[s].add[p] = Settling(period[p])
      BY <2>2, <2>6 DEF Sound, Loaded, MarksPaid
    <2>8. period[p] \in Row /\ period[p].paid_amount = Handed(p)
      BY <2>1, ApartMove
    <2>9. Settlement(period[p]) \in Nat
      BY <2>8, SettlementType
    <2>10. Sum(tx[s].add[p]) = Settlement(period[p])
      BY <2>7, <2>9, EntryType, "FULL_PAYMENT" \in TransactionType
         DEF Settling, TransactionType
    <2>11. Settlement(period[p]) # 0
      BY <2>5, <2>7 DEF Settling, Entry, NoPayment
    <2>12. Settlement(period[p]) = period[p].total_earned - Handed(p)
      BY <2>8, <2>11 DEF Settlement, Pending
    <2>13. Sum(ledger'[p]) = Handed(p) + Sum(tx[s].add[p])
      BY <2>1, <2>2, CommitEffect DEF Handed
    <2>14. period[p].total_earned \in Int /\ Handed(p) \in Nat
      BY <2>1, ApartMove DEF Row
    <2> QED BY <2>10, <2>12, <2>13, <2>14
  <1> QED BY <1>1, ApartInvInit, ApartInvStep, PTL DEF Spec, NeverPaidTwice

(***************************************************************************)
(* As long as sessions keep apart, the workflow implements PayAccount.      *)
(***************************************************************************)

\* Without a commit the account does not move; with one, every period of it
\* makes one of the moves of the account.
LEMMA AccountMove ==
  ASSUME ApartInv, NEW s \in Sessions, Commit(s), NEW p \in Periods
  PROVE  Account!Move(p)
  <1>1. /\ Handed(p) \in Nat /\ Handed(p)' \in Nat
        /\ period[p] \in Row /\ period'[p] \in Row
        /\ period[p].paid_amount = Handed(p)
        /\ Legal(period[p], period'[p], tx[s].add[p])
        /\ Sum(tx[s].add[p]) = Handed(p)' - Handed(p)
        /\ Sum(tx[s].add[p]) \in Nat
    BY ApartMove
  <1>2. period[p].total_earned \in Int /\ period'[p].total_earned \in Int
    BY <1>1 DEF Row
  <1>3. period[p].status \in PeriodStatus /\ period'[p].status \in PeriodStatus
    BY <1>1 DEF Row
  <1>4. CASE /\ Sum(tx[s].add[p]) = 0
             /\ \/ period'[p].status = period[p].status
                \/ /\ period[p].status # "PAID"
                   /\ period'[p].status \in {"FINALIZED", "APPROVED"}
    <2>1. Account!Assess(p)
      BY <1>1, <1>2, <1>4 DEF Account!Assess
    <2> QED BY <2>1 DEF Account!Move
  <1>5. CASE /\ Sum(tx[s].add[p]) = 0 /\ period'[p].status = "FINALIZED"
             /\ period'[p].total_earned = period[p].total_earned
    <2>1. Account!Lock(p)
      BY <1>1, <1>5 DEF Account!Lock
    <2> QED BY <2>1 DEF Account!Move
  <1>6. CASE /\ Sum(tx[s].add[p]) > 0
             /\ period'[p].status \in {period[p].status, "PAID"}
             /\ period'[p].total_earned = period[p].total_earned
    <2>1. Account!Pay(p)
      BY <1>1, <1>6 DEF Account!Pay
    <2> QED BY <2>1 DEF Account!Move
  <1>7. CASE /\ Sum(tx[s].add[p]) = Settlement(period[p])
             /\ period'[p].status = "PAID"
             /\ period'[p].total_earned = period[p].total_earned
    <2>1. Handed(p)' = IF Handed(p) > period[p].total_earned
                         THEN Handed(p) ELSE period[p].total_earned
      BY <1>1, <1>2, <1>7 DEF Settlement, Pending
    <2>2. Account!Settle(p)
      BY <1>7, <2>1 DEF Account!Settle, Account!Larger
    <2> QED BY <2>2 DEF Account!Move
  <1>8. CASE /\ Sum(tx[s].add[p]) = 0 /\ period'[p].status = "DRAFT"
             /\ Reopenable(period[p])
             /\ period'[p].total_earned = period[p].total_earned
    <2>1. Handed(p) = 0 /\ Handed(p)' = 0
      BY <1>1, <1>8 DEF Reopenable
    <2>2. Account!Unlock(p)
      BY <1>8, <2>1 DEF Account!Unlock
    <2> QED BY <2>2 DEF Account!Move
  <1> QED BY <1>1, <1>4, <1>5, <1>6, <1>7, <1>8 DEF Legal

\* As long as sessions keep apart, every step moves each account by one of the
\* moves of PayAccount, or none.
THEOREM ApartImplements == Spec /\ []Apart => AccountSpec
  <1>1. Init => Account!Init
    BY NoPaymentType DEF Init, Account!Init, NewRow, Handed
  <1>2. ApartInv /\ [Next]_vars => [Account!Next]_(Account!vars)
    <2> SUFFICES ASSUME ApartInv, [Next]_vars
                 PROVE  Account!Next \/ UNCHANGED Account!vars
      OBVIOUS
    <2>1. CASE \E s \in Sessions : Commit(s)
      BY <2>1, AccountMove DEF Account!Next
    <2>2. CASE UNCHANGED <<period, ledger>>
      BY <2>2 DEF Account!vars, Handed
    <2> QED BY <2>1, <2>2, QuietStep
  <1> QED BY <1>1, <1>2, ApartInvInit, ApartInvStep, PTL
        DEF Spec, AccountSpec, Account!Spec

(***************************************************************************)
(* One request at a time: sessions keep apart, and the inputs of a close    *)
(* stay what they are until it commits.                                    *)
(***************************************************************************)

OneOpen == \A s, r \in Sessions : tx[s] # Idle /\ tx[r] # Idle => s = r

SerialInv == ApartInv /\ OneOpen /\ \A s \in Sessions : Current(tx[s])

LEMMA IdleCurrent == Current(Idle)
  BY DEF Current, Loaded, Idle

LEMMA IdleLoadsNothing == Idle.rows = {}
  BY DEF Idle

LEMMA SerialSteps ==
  ASSUME TypeOK, SerialNext
  PROVE  \/ \E s \in Sessions : Quiet /\ Begins(s)
         \/ \E s \in Sessions : CloseApprove(s) \/ Commit(s) \/ Rollback(s)
         \/ \E p \in Periods : Quiet /\ EditInputs(p)
  BY RequestBegins DEF SerialNext

LEMMA SerialIsNext == [SerialNext]_vars => [Next]_vars
  BY DEF SerialNext, Next

LEMMA SerialInvInit == Init => SerialInv
  <1> SUFFICES ASSUME Init PROVE SerialInv
    OBVIOUS
  <1>1. \A s \in Sessions : tx[s] = Idle
    BY DEF Init
  <1> QED BY <1>1, IdleCurrent, ApartInvInit DEF SerialInv, OneOpen

LEMMA SerialInvStep == SerialInv /\ [SerialNext]_vars => SerialInv'
  <1> SUFFICES ASSUME SerialInv, [SerialNext]_vars PROVE SerialInv'
    OBVIOUS
  <1>0. TypeOK /\ tx \in [Sessions -> Transaction]
    BY DEF SerialInv, ApartInv, TypeOK
  \* A step that replaces what the only open session has in flight by t.
  <1>1. ASSUME NEW s \in Sessions, NEW t, Current(t)',
               \A r \in Sessions \ {s} : tx[r] = Idle,
               tx' = [tx EXCEPT ![s] = t]
        PROVE  OneOpen' /\ \A r \in Sessions : Current(tx[r])'
    <2>1. \A r \in Sessions : tx'[r] = IF r = s THEN t ELSE Idle
      BY <1>0, <1>1
    <2>2. \A r \in Sessions : Current(tx[r])'
      BY <1>1, <2>1 DEF Current, Loaded, Idle
    <2> QED BY <2>1, <2>2 DEF OneOpen
  <1>2. ASSUME NEW s \in Sessions, tx[s] # Idle
        PROVE  \A r \in Sessions \ {s} : tx[r] = Idle
    BY <1>2 DEF SerialInv, OneOpen
  <1>3. ASSUME NEW s \in Sessions, Quiet, Begins(s)
        PROVE  OneOpen' /\ \A r \in Sessions : Current(tx[r])'
    <2>1. PICK t \in Transaction : Begun(t) /\ tx' = [tx EXCEPT ![s] = t]
      BY <1>3 DEF Begins
    <2>2. Current(t)'
      BY <1>3, <2>1 DEF Begins, Begun, Current, Loaded
    <2> QED BY <1>1, <1>3, <2>1, <2>2 DEF Quiet
  <1>4. ASSUME NEW s \in Sessions, CloseApprove(s)
        PROVE  OneOpen' /\ \A r \in Sessions : Current(tx[r])'
    <2>0. Sound(tx[s]) /\ Current(tx[s]) /\ tx[s].op = "close_recompute"
      BY <1>4 DEF SerialInv, ApartInv, CloseApprove
    <2>1. PICK t \in Transaction :
            /\ Sound(t)
            /\ tx' = [tx EXCEPT ![s] = t]
            /\ t.op = "close"
            /\ t.rows = Active \cup {p \in Periods : BulkApprovable(p)}
            /\ \A p \in t.rows : t.old[p] = IF p \in tx[s].locked THEN tx[s].old[p] ELSE period[p]
            /\ \A p \in Periods \ t.rows : t.old[p] = NewRow
            /\ \A p \in Active : t.new[p].total_earned =
                                 IF p \in tx[s].locked THEN tx[s].new[p].total_earned
                                                       ELSE period[p].total_earned
      BY <1>0, <1>4, <2>0, CloseApproveSound
    <2>2. \A p \in Active : /\ tx[s].old[p] = period[p]
                            /\ tx[s].new[p].total_earned = fresh[p]
                            /\ p \notin tx[s].locked => period[p].total_earned = fresh[p]
      BY <2>0, ActiveAssumption DEF Sound, Current, Loaded
    <2>3. tx[s].locked \subseteq Active
      BY <2>0 DEF Sound
    <2>4. Current(t)
      <3>1. \A p \in Periods : t.old[p] = IF p \in t.rows THEN period[p] ELSE NewRow
        BY <2>1, <2>2, <2>3
      <3>2. \A p \in Active : p \in t.rows /\ t.new[p].total_earned = fresh[p]
        BY <2>1, <2>2
      <3> QED BY <2>1, <3>1, <3>2 DEF Current, Loaded
    <2>5. tx[s] # Idle
      BY <2>0 DEF Idle
    <2>6. Current(t)'
      BY <1>4, <2>4 DEF CloseApprove, Current, Loaded
    <2> QED BY <1>1, <1>2, <2>1, <2>5, <2>6
  <1>5. ASSUME NEW s \in Sessions, Rollback(s) \/ Commit(s)
        PROVE  OneOpen' /\ \A r \in Sessions : Current(tx[r])'
    <2>1. tx[s] # Idle /\ tx' = [tx EXCEPT ![s] = Idle]
      BY <1>5 DEF Rollback, Commit, Idle
    <2>2. Current(Idle)'
      BY DEF Current, Loaded, Idle
    <2> QED BY <1>1, <1>2, <2>1, <2>2
  <1>6. ASSUME NEW p \in Periods, Quiet, EditInputs(p)
        PROVE  OneOpen' /\ \A r \in Sessions : Current(tx[r])'
    BY <1>6 DEF Quiet, EditInputs, OneOpen, Current, Loaded, Idle
  <1>7. ASSUME UNCHANGED vars
        PROVE  OneOpen' /\ \A r \in Sessions : Current(tx[r])'
    BY <1>7 DEF vars, SerialInv, OneOpen, Current, Loaded
  <1>8. OneOpen' /\ \A r \in Sessions : Current(tx[r])'
    BY <1>0, <1>3, <1>4, <1>5, <1>6, <1>7, SerialSteps
  <1>9. Apart'
    BY <1>8, IdleLoadsNothing DEF OneOpen, Apart
  <1>10. ApartInv'
    BY <1>9, SerialIsNext, ApartInvStep DEF SerialInv
  <1> QED BY <1>8, <1>10 DEF SerialInv

LEMMA SerialSessionsApart == SerialSpec => Spec /\ []Apart
  <1>1. SerialInv => Apart
    BY DEF SerialInv, ApartInv
  <1> QED BY <1>1, SerialIsNext, SerialInvInit, SerialInvStep, PTL DEF SerialSpec, Spec

\* One request at a time, paid_amount is the sum of the period's transactions.
THEOREM SerialLedger == SerialSpec => []PaidMatchesLedger
  BY SerialSessionsApart, ApartLedger

\* One request at a time, no period that money was handed out for is opened again.
THEOREM SerialReopen == SerialSpec => ReopenOnlyUnpaid
  BY SerialSessionsApart, ApartReopen

\* One request at a time, no approval takes a paid period back to APPROVED.
THEOREM SerialApproval == SerialSpec => ApprovalKeepsPaid
  BY SerialSessionsApart, ApartApproval

\* One request at a time, mark-paid hands out exactly what is missing.
THEOREM SerialPaysOnce == SerialSpec => NeverPaidTwice
  BY SerialSessionsApart, ApartPaysOnce

\* One request at a time, what month_end_close approves is what a recompute
\* would find at that moment.
THEOREM SerialCapture == SerialSpec => CloseCapturesInputs
  <1> DEFINE Act == \A s \in Sessions : \A p \in Active :
                      /\ tx[s].op = "close" /\ Commit(s)
                      /\ period[p].status # "APPROVED" /\ period'[p].status = "APPROVED"
                      => period'[p].total_earned = fresh[p]
  <1>1. SerialInv /\ [SerialNext]_vars => [Act]_vars
    <2> SUFFICES ASSUME SerialInv, NEW s \in Sessions, NEW p \in Active,
                        tx[s].op = "close", Commit(s)
                 PROVE  period'[p].total_earned = fresh[p]
      OBVIOUS
    <2>1. p \in Periods
      BY ActiveAssumption
    <2>2. p \in tx[s].rows /\ tx[s].new[p].total_earned = fresh[p]
      BY DEF SerialInv, Current
    <2> QED BY <2>1, <2>2, ApartCommit DEF SerialInv
  <1> QED BY <1>1, SerialInvInit, SerialInvStep, PTL DEF SerialSpec, CloseCapturesInputs

\* One request at a time, the workflow implements PayAccount.
THEOREM SerialImplements == SerialSpec => AccountSpec
  BY SerialSessionsApart, ApartImplements
=============================================================================
