------------------------------ MODULE ConsoleKpi ------------------------------
(***************************************************************************)
(* KPI in the administrators' console: assignments and their approval,      *)
(* templates, data points (admin-web/src/pages/app/kpi) and their endpoints *)
(* (api/v1/kpi.py, services/kpi_service.py).                                *)
(***************************************************************************)
EXTENDS ScreenTables

KPIAssignmentStatus == {"none", "ACTIVE", "COMPUTED", "PAID", "REJECTED", "CANCELLED"}
Assigned == KPIAssignmentStatus \ {"none"}

Assignment == <<"kpi", "assignment", "id">>
AssignmentAudit == <<"kpi", "assignment", "id", "audit">>
Templates == <<"kpi", "templates">>
ActiveTemplates == <<"kpi", "templates", "active">>

(***************************************************************************)
(* The endpoints.  Approval pays at once, in the transaction that approves; *)
(* only approval looks at the state, rejection and cancellation do not.     *)
(***************************************************************************)
create_assignment == To({"none"}, "COMPUTED")

recompute_one == [s \in Assigned |-> IF s = "ACTIVE" THEN "COMPUTED" ELSE s]

(* Of all assignments of the month, those there are: it refuses nothing.    *)
recompute_bulk == [s \in KPIAssignmentStatus |-> IF s = "ACTIVE" THEN "COMPUTED" ELSE s]

approve_one == To({"ACTIVE", "COMPUTED"}, "PAID")

reject_one == To(Assigned, "REJECTED")

cancel_assignment == To(Assigned, "CANCELLED")

(* The ones that exist are skipped or counted as failed.                    *)
bulk_assign == [s \in KPIAssignmentStatus |-> IF s = "none" THEN "COMPUTED" ELSE s]

update_template == Same({"active", "inactive"})

delete_template == To({"active", "inactive"}, "inactive")

activate_template == To({"active", "inactive"}, "active")

void_datapoint == To({"one", "two", "void"}, "void")

(***************************************************************************)
(* Assignments.                                                            *)
(***************************************************************************)
(* The filters are sent to the server: they are part of the key.            *)
AssignmentsFilters ==
  <<"year", "month", "statusFilter", "categoryFilter", "branchFilter", "employeeFilter">>

Assignments == <<"kpi", "assignments">> \o AssignmentsFilters

AssignmentsQueries ==
  {Assignments, ActiveTemplates, <<"branches", "for-kpi">>, <<"employees", "for-kpi">>}

(* Every row opens its drawer, whatever its state.                          *)
AssignmentRow ==
  [s \in KPIAssignmentStatus |-> IF s = "none" THEN {} ELSE {"AssignmentDetailDrawer"}]

AssignmentsTab ==
  With(Page(AssignmentsQueries, Assignments, Always(KPIAssignmentStatus, {"recomputeAll"})),
       Page({}, Assignments, AssignmentRow))

isFinal == {"PAID", "REJECTED", "CANCELLED"}

canApprove == {"COMPUTED", "ACTIVE"}

DrawerActions ==
  [s \in KPIAssignmentStatus |->
     {"AssignmentsTab"}
       \cup (IF s \in isFinal \cup {"none"} THEN {} ELSE {"recompute", "cancel", "RejectDialog"})
       \cup (IF s \in canApprove THEN {"ApproveDialog"} ELSE {})]

(* The drawer asks for the assignment itself, over the table.               *)
AssignmentDetailDrawer ==
  Page(AssignmentsQueries \cup {Assignment, AssignmentAudit}, Assignment, DrawerActions)

ApproveDialog ==
  OfRow("ApproveDialog", AssignmentDetailDrawer,
        Page({}, Assignment, Always(KPIAssignmentStatus, {"approve", "AssignmentDetailDrawer"})))

RejectDialog ==
  OfRow("RejectDialog", AssignmentDetailDrawer,
        Page({}, Assignment, Always(KPIAssignmentStatus, {"reject", "AssignmentDetailDrawer"})))

(* The audit trail below the assignment is asked for with it.               *)
KpiShown == {Assignments, Assignment}

recomputeAllMut == Call(recompute_bulk, KpiShown, {<<"kpi">>})

recomputeMut == Call(recompute_one, KpiShown, {<<"kpi">>})

cancelMut ==
  [Call(cancel_assignment, KpiShown, {<<"kpi">>}) EXCEPT !.goes = "AssignmentsTab", !.decides = TRUE]

approveMut ==
  [Call(approve_one, KpiShown, {<<"kpi">>}) EXCEPT !.goes = "AssignmentsTab", !.decides = TRUE]

rejectMut ==
  [Call(reject_one, KpiShown, {<<"kpi">>}) EXCEPT !.goes = "AssignmentsTab", !.decides = TRUE]

AssignmentForm == {"employeeId", "templateId", "target", "notes"}

AssignmentCreateDialog ==
  NewPage(AssignmentsQueries, AssignmentForm, "create", {"AssignmentsTab"}, KPIAssignmentStatus)

AssignmentCreated ==
  Saving(create_assignment, KpiShown, {<<"kpi">>}, AssignmentForm, "AssignmentsTab")

(* The choice of templates, branches, departments and employees; nothing is *)
(* invalidated, the table of assignments shows the new ones when it is old. *)
BulkAssignTab ==
  NewPage({ActiveTemplates, <<"branches", "for-bulk">>, <<"departments", "for-bulk">>,
           <<"employees", "for-bulk">>},
          {"templateId", "year", "month", "target", "skipExisting", "mode", "picked"},
          "bulk", {}, KPIAssignmentStatus)

bulkMut ==
  [Saving(bulk_assign, KpiShown, {},
          {"templateId", "year", "month", "target", "skipExisting", "mode", "picked"}, "stay")
     EXCEPT !.forgets = KpiShown]

(* What is only shown: no control on either.                                *)
DashboardTab ==
  Page({<<"kpi", "dashboard", "summary", "year", "month">>,
        <<"kpi", "dashboard", "branches", "year", "month">>,
        <<"kpi", "dashboard", "trend", "months">>}, Assignments, Always(KPIAssignmentStatus, {}))

LeaderboardTab ==
  Page({<<"branches", "for-leaderboard">>, <<"departments", "for-leaderboard">>,
        <<"kpi", "leaderboard", "year", "month", "branchId", "departmentId">>},
       Assignments, Always(KPIAssignmentStatus, {}))

KpiAssignmentScreen ==
  [statuses |-> KPIAssignmentStatus, start |-> {"COMPUTED"},
   home |-> "AssignmentsTab", nav |-> {"AssignmentsTab"},
   pages |-> [AssignmentsTab |-> AssignmentsTab,
              AssignmentDetailDrawer |-> AssignmentDetailDrawer,
              ApproveDialog |-> ApproveDialog, RejectDialog |-> RejectDialog],
   calls |-> [recompute |-> recomputeMut, cancel |-> cancelMut, approve |-> approveMut,
              reject |-> rejectMut],
   decided |-> isFinal, ignored |-> {}, overrides |-> {"cancel", "reject"}, vain |-> {}, again |-> {},
   eager |-> {}, polled |-> {}]

KpiAssigningScreen ==
  [statuses |-> KPIAssignmentStatus, start |-> {"none"},
   home |-> "AssignmentsTab",
   nav |-> {"AssignmentsTab", "AssignmentCreateDialog", "BulkAssignTab", "DashboardTab",
            "LeaderboardTab"},
   pages |-> [AssignmentsTab |-> [AssignmentsTab EXCEPT !.offers = Always(KPIAssignmentStatus, {"recomputeAll"})],
              AssignmentCreateDialog |-> AssignmentCreateDialog,
              BulkAssignTab |-> BulkAssignTab, DashboardTab |-> DashboardTab,
              LeaderboardTab |-> LeaderboardTab],
   calls |-> [recomputeAll |-> recomputeAllMut, create |-> AssignmentCreated, bulk |-> bulkMut],
   decided |-> {}, ignored |-> {}, overrides |-> {}, vain |-> {}, again |-> {}, eager |-> {}, polled |-> {}]

(***************************************************************************)
(* Templates.                                                              *)
(***************************************************************************)
TemplateStatus == {"none", "active", "inactive"}

(* A row can be edited and switched; the buttons are plain.  Its third      *)
(* button makes another template: KpiCopyScreen.                            *)
TemplatesTab ==
  Page({Templates}, Templates,
       [s \in TemplateStatus |->
          IF s = "none" THEN {}
          ELSE {"TemplateFormDialog", IF s = "active" THEN "deactivate" ELSE "activate"}])

(* The row as it was drawn decides between the two calls.                   *)
toggleMut(is_active) ==
  [Call(IF is_active THEN delete_template ELSE activate_template,
        {Templates}, {<<"kpi", "templates">>}) EXCEPT !.guarded = FALSE]

TemplateFormBasics ==
  {"name", "category", "description", "metric_source", "period_kind", "weight",
   "target_value", "unit", "min_threshold_pct", "max_score_cap_pct"}

TemplateFormReward ==
  {"formula", "reward_type", "reward_amount", "tiers", "requires_manager_review"}

TemplateFormDialog(isEdit) ==
  IF isEdit
  THEN OfRow("TemplateFormDialog", TemplatesTab,
             FormPage({<<"kpi", "variables">>}, Templates, "once",
                      TemplateFormBasics \cup TemplateFormReward, "update",
                      Always(TemplateStatus, {"update", "TemplatesTab"})))
  ELSE NewPage({Templates, <<"kpi", "variables">>}, TemplateFormBasics \cup TemplateFormReward,
               "create", {"TemplatesTab"}, TemplateStatus)

TemplatePayload ==
  {"name", "description", "category", "metric_source", "formula", "target_value", "unit",
   "weight", "period_kind", "min_threshold_pct", "max_score_cap_pct", "reward_type",
   "reward_amount", "tiers", "requires_manager_review"}

(* An edit sends is_active too, as the row had it when the dialog opened.   *)
TemplateSaved(isEdit) ==
  [Saving(IF isEdit THEN update_template ELSE To({"none"}, "active"),
          {Templates}, {<<"kpi", "templates">>}, TemplatePayload, "TemplatesTab")
     EXCEPT !.restates = isEdit]

KpiTemplateScreen ==
  [statuses |-> TemplateStatus, start |-> {"none", "active"},
   home |-> "TemplatesTab", nav |-> {"TemplatesTab", "TemplateCreateDialog"},
   pages |-> [TemplatesTab |-> TemplatesTab, TemplateFormDialog |-> TemplateFormDialog(TRUE),
              TemplateCreateDialog |-> TemplateFormDialog(FALSE)],
   calls |-> [update |-> TemplateSaved(TRUE), create |-> TemplateSaved(FALSE),
              deactivate |-> toggleMut(TRUE), activate |-> toggleMut(FALSE)],
   decided |-> {}, ignored |-> {}, overrides |-> {}, vain |-> {}, again |-> {}, eager |-> {}, polled |-> {}]

(***************************************************************************)
(* The copies of a template, each a template of its own: one is made by     *)
(* every press of a row's button, which nothing disables.                   *)
(***************************************************************************)
DuplicateButton ==
  Page({Templates}, Templates, [s \in Copies |-> IF s = "two" THEN {} ELSE {"duplicate"}])

dupMut == [Call(AddsAnother, {Templates}, {<<"kpi", "templates">>}) EXCEPT !.guarded = FALSE]

KpiCopyScreen ==
  [statuses |-> Copies, start |-> {"none"},
   home |-> "TemplatesTab", nav |-> {"TemplatesTab"},
   pages |-> [TemplatesTab |-> DuplicateButton],
   calls |-> [duplicate |-> dupMut],
   decided |-> {}, ignored |-> {}, overrides |-> {}, vain |-> {}, again |-> {"duplicate"},
   eager |-> {}, polled |-> {}]

(***************************************************************************)
(* Data points: a ledger whose entries can be voided.                      *)
(***************************************************************************)
DatapointStatus == Copies \cup {"void"}

Datapoints == <<"kpi", "datapoints", "showVoid", "employeeFilter", "metricFilter">>

DatapointsTab ==
  Page({Datapoints, <<"employees", "for-dp">>}, Datapoints,
       [s \in DatapointStatus |-> IF s \in {"one", "two"} THEN {"void"} ELSE {}])

voidMut ==
  [Call(void_datapoint, {Datapoints}, {<<"kpi", "datapoints">>}) EXCEPT !.guarded = FALSE]

DatapointForm == {"employeeId", "metricKey", "value", "recordedAt", "source", "note"}

DatapointCreateDialog ==
  NewPage({Datapoints, <<"employees", "for-dp">>}, DatapointForm, "create", {"DatapointsTab"},
          DatapointStatus)

DatapointCreated ==
  Saving(AddsAnother, {Datapoints}, {<<"kpi", "datapoints">>}, DatapointForm, "DatapointsTab")

KpiDatapointScreen ==
  [statuses |-> DatapointStatus, start |-> {"none", "one"},
   home |-> "DatapointsTab", nav |-> {"DatapointsTab", "DatapointCreateDialog"},
   pages |-> [DatapointsTab |-> DatapointsTab, DatapointCreateDialog |-> DatapointCreateDialog],
   calls |-> [void |-> voidMut, create |-> DatapointCreated],
   decided |-> {}, ignored |-> {}, overrides |-> {}, vain |-> {}, again |-> {}, eager |-> {}, polled |-> {}]

KpiScreens ==
  [kpi_assignment |-> KpiAssignmentScreen, kpi_assigning |-> KpiAssigningScreen,
   kpi_template |-> KpiTemplateScreen, kpi_copy |-> KpiCopyScreen,
   kpi_datapoint |-> KpiDatapointScreen]
=============================================================================
