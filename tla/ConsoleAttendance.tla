-------------------------- MODULE ConsoleAttendance --------------------------
(***************************************************************************)
(* Attendance in the administrators' console: the records and the review of *)
(* one, the live view of a day, the month, manual entries                   *)
(* (admin-web/src/pages/app/attendance) and their endpoints                 *)
(* (api/v1/attendance.py).                                                  *)
(***************************************************************************)
EXTENDS ScreenTables

RecordStatus == {"none", "VALID", "SUSPICIOUS", "REJECTED", "deleted"}
ExistingRecord == {"VALID", "SUSPICIOUS", "REJECTED"}

Records == <<"attendance", "records", "filters">>
LiveDetail == <<"attendance", "records", "live-detail", "employee_id", "day">>
DailyOverview == <<"attendance", "daily-overview", "date">>
MonthlyOverview == <<"attendance", "monthly-overview", "year", "month", "branchFilter">>

(***************************************************************************)
(* The endpoints.                                                          *)
(***************************************************************************)
manual_record == To({"none"}, "VALID")

update_record == Same(ExistingRecord)

reject_record(hard) == To(ExistingRecord, IF hard THEN "deleted" ELSE "REJECTED")

AttendanceInvalidated == {<<"attendance">>}

(***************************************************************************)
(* The records.                                                            *)
(***************************************************************************)
(* All filters are in the key, but only the dates, the branch and the       *)
(* employee are sent: the others are applied to the answer.                 *)
RecordsQueries ==
  {Records, <<"employees", "for-attendance">>, <<"branches", "for-attendance">>}

(* A row opens the review of its record, a rejected one too.                *)
RecordsTable ==
  [s \in RecordStatus |-> IF s \in ExistingRecord THEN {"RecordDetailsDrawer"} ELSE {}]

RecordsTab ==
  With(Page(RecordsQueries, Records, RecordsTable), Page({Records}, Records, Always(RecordStatus, {})))

(* The review starts from the row it was handed, the branch is looked up.   *)
RecordReview == {"status", "notes"}

RecordDetailsDrawer ==
  OfRow("RecordDetailsDrawer", RecordsTab,
        FormPage({<<"branch", "id">>}, Records, "once", RecordReview, "patch",
                 Always(RecordStatus, {"patch", "reject", "RecordsTab"})))

(* The status is sent with the notes, changed or not.                       *)
patchMut ==
  [Saving(update_record, {Records}, AttendanceInvalidated, RecordReview, "stay")
     EXCEPT !.restates = TRUE]

rejectMut ==
  [Call(reject_record(FALSE), {Records}, AttendanceInvalidated) EXCEPT !.goes = "RecordsTab"]

ManualEntry == {"employee_id", "check_type", "timestamp", "notes"}

ManualEntryDialog(tab, back) ==
  Over(tab, NewPage({<<"employees", "for-manual-entry">>}, ManualEntry, "manual", {back}, RecordStatus))

manualMut(shown, back) ==
  Saving(manual_record, shown, AttendanceInvalidated, ManualEntry, back)

AttendanceRecordScreen ==
  [statuses |-> RecordStatus, start |-> {"none", "VALID"},
   home |-> "RecordsTab", nav |-> {"RecordsTab", "ManualEntryDialog"},
   pages |-> [RecordsTab |-> RecordsTab, RecordDetailsDrawer |-> RecordDetailsDrawer,
              ManualEntryDialog |-> ManualEntryDialog(RecordsTab, "RecordsTab")],
   calls |-> [patch |-> patchMut, reject |-> rejectMut,
              delete |-> Call(reject_record(TRUE), {Records}, AttendanceInvalidated),
              manual |-> manualMut({Records}, "RecordsTab")],
   decided |-> {}, ignored |-> {}, overrides |-> {}, vain |-> {}, again |-> {},
   eager |-> {}, polled |-> {Records}]

(***************************************************************************)
(* The day, live, and the month.                                           *)
(***************************************************************************)
LiveQueries == {DailyOverview, <<"branches", "for-attendance-live">>}

(* Every employee has a card, and a card opens its day.                     *)
EmployeeLiveCard == Page({}, DailyOverview, Always(RecordStatus, {"LiveCardDetailsDialog"}))

(* The filters and the counts over the cards are of the answer.             *)
LiveTab == With(Page(LiveQueries, DailyOverview, Always(RecordStatus, {})), EmployeeLiveCard)

(* The records of the day, each with a button that removes it for good.     *)
RecordRow ==
  Page({LiveDetail}, LiveDetail,
       [s \in RecordStatus |-> IF s \in ExistingRecord THEN {"delete"} ELSE {}])

LiveCardDetailsDialog ==
  With(Page({LiveDetail, DailyOverview}, LiveDetail, Always(RecordStatus, {"LiveTab"})), RecordRow)

deleteMut == Call(reject_record(TRUE), {LiveDetail, DailyOverview}, AttendanceInvalidated)

(* Only shown: its rows lead to the month of an employee.                   *)
MonthlyTab ==
  Page({MonthlyOverview, <<"branches", "for-attendance-monthly">>,
        <<"salary", "periods", "year", "month", "branchFilter">>},
       MonthlyOverview, Always(RecordStatus, {}))

AttendanceLiveScreen ==
  [statuses |-> RecordStatus, start |-> {"none", "VALID"},
   home |-> "LiveTab", nav |-> {"LiveTab", "MonthlyTab", "ManualEntryDialog"},
   pages |-> [LiveTab |-> LiveTab, LiveCardDetailsDialog |-> LiveCardDetailsDialog,
              MonthlyTab |-> MonthlyTab,
              ManualEntryDialog |-> ManualEntryDialog(LiveTab, "LiveTab")],
   calls |-> [delete |-> deleteMut,
              manual |-> manualMut({LiveDetail, DailyOverview, MonthlyOverview}, "LiveTab")],
   decided |-> {}, ignored |-> {}, overrides |-> {}, vain |-> {}, again |-> {},
   eager |-> {DailyOverview, LiveDetail, MonthlyOverview}, polled |-> {DailyOverview, LiveDetail}]

AttendanceScreens ==
  [attendance_record |-> AttendanceRecordScreen, attendance_live |-> AttendanceLiveScreen]
=============================================================================
