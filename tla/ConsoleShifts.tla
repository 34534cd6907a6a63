----------------------------- MODULE ConsoleShifts -----------------------------
(***************************************************************************)
(* Shifts in the administrators' console: the templates, the month's grid   *)
(* of all employees and the one of a single employee                        *)
(* (admin-web/src/pages/app/shifts, employees) and their endpoints          *)
(* (api/v1/shifts.py).                                                      *)
(***************************************************************************)
EXTENDS ScreenTables

Templates == <<"shifts", "templates">>
EmployeesForShifts == <<"employees", "for-shifts">>
Schedule == <<"shifts", "schedule", "from", "to">>
EmployeeSchedule == <<"shifts", "schedule", "employee_id", "from", "to">>

(***************************************************************************)
(* Templates.                                                              *)
(***************************************************************************)
TemplateStatus == {"none", "active", "inactive"}

create_template == To({"none"}, "active")

update_template == Same({"active", "inactive"})

delete_template == To({"active", "inactive"}, "inactive")

TemplatesInvalidated == {<<"shifts", "templates">>}

(* A template can always be edited, and deactivated while it is active.     *)
TemplateCard ==
  Page({}, Templates,
       [s \in TemplateStatus |-> IF s = "active" THEN {"TemplateEdit", "delete"}
                                 ELSE IF s = "inactive" THEN {"TemplateEdit"} ELSE {}])

(* The search, the kind and the counts are of the one answer.               *)
TemplatesPanel == With(Page({Templates}, Templates, Always(TemplateStatus, {})), TemplateCard)

(* window.confirm is all there is between two of them.                      *)
deleteMut == [Call(delete_template, {Templates}, TemplatesInvalidated) EXCEPT !.guarded = FALSE]

TemplateFormBasics == {"name", "type", "start_time", "end_time", "break_minutes", "expected_hours"}

WorkingDaysPicker == {"working_days"}

TemplateForm == TemplateFormBasics \cup WorkingDaysPicker \cup {"allow_overtime"}

templateFormToBody ==
  {"name", "type", "start_time", "end_time", "break_minutes", "expected_hours",
   "allow_overtime", "working_days"}

(* The template is looked for in the list; the form follows it.             *)
TemplateEdit ==
  FormPage({Templates}, Templates, "follow", TemplateForm, "update",
           Existing(TemplateStatus, {"update"}, {"TemplatesPanel"}))

TemplateUpdated ==
  Saving(update_template, {Templates}, TemplatesInvalidated, templateFormToBody, "TemplatesPanel")

TemplateCreate == NewPage({}, TemplateForm, "create", {"TemplatesPanel"}, TemplateStatus)

TemplateCreated ==
  Saving(create_template, {Templates}, TemplatesInvalidated, templateFormToBody, "TemplatesPanel")

ShiftTemplateScreen ==
  [statuses |-> TemplateStatus, start |-> {"none", "active"},
   home |-> "TemplatesPanel", nav |-> {"TemplatesPanel", "TemplateCreate"},
   pages |-> [TemplatesPanel |-> TemplatesPanel, TemplateEdit |-> TemplateEdit,
              TemplateCreate |-> TemplateCreate],
   calls |-> [delete |-> deleteMut, update |-> TemplateUpdated, create |-> TemplateCreated],
   decided |-> {}, ignored |-> {}, overrides |-> {}, vain |-> {}, again |-> {}, eager |-> {}, polled |-> {}]

(***************************************************************************)
(* The month: one employee's entries of some days.                          *)
(***************************************************************************)
EntryStatus == {"none", "PLANNED", "CANCELLED"}

(* (employee, date) is inserted or overwritten.                             *)
bulk_schedule(status) == To(EntryStatus, status)

(* Regeneration rewrites what nobody cancelled.                             *)
set_default_template ==
  [s \in EntryStatus |-> IF s = "CANCELLED" THEN "CANCELLED" ELSE "PLANNED"]

ScheduleInvalidated == {<<"shifts", "schedule">>}

ScheduleLookups == {<<"branches", "for-shifts">>, <<"departments", "for-shifts">>}

ScheduleQueries == {Templates, EmployeesForShifts, Schedule} \cup ScheduleLookups

(* A cell holds a template, a rest day, or nothing once it was cleared.     *)
GridCell == {"template", "rest", "cleared"}

(* fillColumn and applyDefaultRow type into many cells, and save nothing.   *)
SchedulePanelForm ==
  FormPage(ScheduleQueries, Schedule, "overlay", GridCell, "saveSchedule",
           Always(EntryStatus, {"saveSchedule", "applyDefaultAll"}))

RowMenu == Page({}, Schedule, Always(EntryStatus, {"clearRow"}))

EmployeeRow == Page({}, Schedule, Always(EntryStatus, {"setDefault"}))

SchedulePanel == With(With(SchedulePanelForm, RowMenu), EmployeeRow)

(* A cleared cell is stored as cancelled, a rest day as such.               *)
saveScheduleMut ==
  Saving(bulk_schedule("PLANNED"), {Schedule}, ScheduleInvalidated, GridCell, "stay")

(* What is typed and the defaults of every other cell, by a plain call: the *)
(* button knows of a save in flight, not of a call of its own.              *)
applyDefaultAll ==
  [Saving(bulk_schedule("PLANNED"), {Schedule}, ScheduleInvalidated, GridCell, "stay")
     EXCEPT !.guarded = FALSE, !.behind = {"saveSchedule"}]

(* The row is emptied and stored as cancelled.  What was typed into the     *)
(* employee's cells, all of this record, goes with it, those of other       *)
(* employees stay.                                                          *)
clearRow ==
  [Saving(bulk_schedule("CANCELLED"), {Schedule}, ScheduleInvalidated, GridCell, "stay")
     EXCEPT !.guarded = FALSE]

setDefaultMut ==
  Call(set_default_template, {Schedule},
       {<<"employees">>, <<"employees", "for-shifts">>, <<"shifts", "schedule">>})

SchedulePanelScreen ==
  [statuses |-> EntryStatus, start |-> {"none", "PLANNED"},
   home |-> "SchedulePanel", nav |-> {"SchedulePanel", "TemplatesPanel"},
   pages |-> [SchedulePanel |-> SchedulePanel,
              TemplatesPanel |-> Page({Templates}, Schedule, Always(EntryStatus, {}))],
   calls |-> [saveSchedule |-> saveScheduleMut, applyDefaultAll |-> applyDefaultAll,
              clearRow |-> clearRow, setDefault |-> setDefaultMut],
   decided |-> {}, ignored |-> {}, overrides |-> {}, vain |-> {}, again |-> {},
   eager |-> {Schedule}, polled |-> {}]

(* On the page of an employee, a cell that was cleared is not sent.         *)
MonthlyScheduleEditor ==
  FormPage({EmployeeSchedule}, EmployeeSchedule, "overlay", GridCell, "save",
           Always(EntryStatus, {"save"}))

scheduleEditorMut ==
  Saving(bulk_schedule("PLANNED"), {EmployeeSchedule}, ScheduleInvalidated,
         GridCell \ {"cleared"}, "stay")

EmployeeScheduleScreen ==
  [statuses |-> EntryStatus, start |-> {"none", "PLANNED"},
   home |-> "MonthlyScheduleEditor", nav |-> {"MonthlyScheduleEditor", "TemplatesPanel"},
   pages |-> [MonthlyScheduleEditor |-> MonthlyScheduleEditor,
              TemplatesPanel |-> Page({Templates}, EmployeeSchedule, Always(EntryStatus, {}))],
   calls |-> [save |-> scheduleEditorMut],
   decided |-> {}, ignored |-> {"cleared"}, overrides |-> {}, vain |-> {}, again |-> {},
   eager |-> {EmployeeSchedule}, polled |-> {}]

ShiftScreens ==
  [shift_template |-> ShiftTemplateScreen, schedule_panel |-> SchedulePanelScreen,
   employee_schedule |-> EmployeeScheduleScreen]
=============================================================================
