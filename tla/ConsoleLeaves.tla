----------------------------- MODULE ConsoleLeaves -----------------------------
(***************************************************************************)
(* Leaves in the administrators' console: requests, types, balances         *)
(* (admin-web/src/pages/app/leaves) and their endpoints (api/v1/leaves.py). *)
(***************************************************************************)
EXTENDS ScreenTables

LeaveStatus == {"none", "PENDING", "APPROVED", "REJECTED", "CANCELLED"}

LeaveRequests == <<"leave-requests">>
LeaveRequest == <<"leave-requests", "id">>
LeaveTypes == <<"leave-types">>
LeaveBalances == <<"leave-balances", "year">>

(***************************************************************************)
(* The endpoints.                                                          *)
(***************************************************************************)
admin_create_leave_request(auto_approve) ==
  To({"none"}, IF auto_approve THEN "APPROVED" ELSE "PENDING")

decide_leave(status) == To({"PENDING"}, status)

admin_cancel_leave == To({"PENDING", "APPROVED"}, "CANCELLED")

update_leave_request == Same(LeaveStatus \ {"none"})

cancel_leave == To({"PENDING"}, "CANCELLED")

update_leave_type == Same({"active", "inactive"})

delete_leave_type == To({"active", "inactive"}, "inactive")

(***************************************************************************)
(* Requests.                                                               *)
(***************************************************************************)
(* Pending requests can be decided, approved ones edited or cancelled.      *)
RequestRow ==
  [s \in LeaveStatus |-> IF s = "PENDING" THEN {"ApproveDialog", "RejectDialog"}
                         ELSE IF s = "APPROVED" THEN {"LeaveEditPage", "CancelDialog"}
                         ELSE {}]

RequestsQueries == {LeaveRequests, LeaveTypes, <<"employees", "for-leave-requests">>}

RequestsTab == Page(RequestsQueries, LeaveRequests, RequestRow)

(* One dialog for the three decisions: it holds the row it was opened on.   *)
DecisionDialog(name, decision) ==
  OfRow(name, RequestsTab,
        Page({}, LeaveRequests, Always(LeaveStatus, {decision, "RequestsTab"})))

LeaveInvalidated == {<<"leave-requests">>, <<"leave-balances">>, <<"salary">>}

LeaveShown == {LeaveRequests, LeaveRequest, LeaveBalances}

(* onSuccess closes the dialog.                                             *)
decisionMut(endpoint) ==
  [Call(endpoint, LeaveShown, LeaveInvalidated)
     EXCEPT !.goes = "RequestsTab", !.decides = endpoint # admin_cancel_leave]

LeaveFormQueries ==
  {LeaveTypes, <<"employees", "for-leave-form">>, <<"company", "me">>,
   <<"shift-templates", "for-leave-form">>}

(* The amount can be typed once an employee and a paid type are chosen.     *)
LeaveFormOverride == {"override_amount"}

(* The employee and the dates are disabled on the edit page; the type is    *)
(* not, although the body of an edit does not carry it.                     *)
LeaveFormFields(isEdit) ==
  {"leave_type_id", "reason", "decision_note"} \cup LeaveFormOverride
    \cup IF isEdit THEN {} ELSE {"employee_id", "start_date", "end_date", "auto_approve"}

LeaveEditPage ==
  FormPage({LeaveRequest} \cup LeaveFormQueries, LeaveRequest, "follow", LeaveFormFields(TRUE),
           "update", Existing(LeaveStatus, {"update"}, {"RequestsTab"}))

LeaveEditSaved ==
  Saving(update_leave_request, LeaveShown, LeaveInvalidated,
         {"override_amount", "decision_note", "reason"}, "RequestsTab")

(* One button, two controls here: the box over it is ticked or not.         *)
LeaveCreatePage ==
  [NewPage(LeaveFormQueries, LeaveFormFields(FALSE), "create", {"RequestsTab"}, LeaveStatus)
     EXCEPT !.offers["none"] = @ \cup {"create_pending"}]

LeaveCreated(auto_approve) ==
  [Saving(admin_create_leave_request(auto_approve), LeaveShown, LeaveInvalidated,
          LeaveFormFields(FALSE), "RequestsTab")
     EXCEPT !.behind = {"create", "create_pending"}]

LeaveRequestScreen ==
  [statuses |-> LeaveStatus, start |-> {"none", "PENDING", "APPROVED"},
   home |-> "RequestsTab", nav |-> {"RequestsTab", "LeaveCreatePage"},
   pages |-> [RequestsTab |-> RequestsTab,
              ApproveDialog |-> DecisionDialog("ApproveDialog", "approve"),
              RejectDialog |-> DecisionDialog("RejectDialog", "reject"),
              CancelDialog |-> DecisionDialog("CancelDialog", "admin_cancel"),
              LeaveEditPage |-> LeaveEditPage,
              LeaveCreatePage |-> LeaveCreatePage],
   calls |-> [approve |-> decisionMut(decide_leave("APPROVED")),
              reject |-> decisionMut(decide_leave("REJECTED")),
              admin_cancel |-> decisionMut(admin_cancel_leave),
              update |-> LeaveEditSaved,
              create |-> LeaveCreated(TRUE),
              create_pending |-> LeaveCreated(FALSE),
              cancel |-> Call(cancel_leave, {}, {})],
   decided |-> {"APPROVED", "REJECTED", "CANCELLED"},
   ignored |-> {"leave_type_id"}, overrides |-> {}, vain |-> {}, again |-> {},
   eager |-> {}, polled |-> {LeaveRequests}]

(***************************************************************************)
(* Types.                                                                  *)
(***************************************************************************)
TypeStatus == {"none", "active", "inactive"}

(* A type can always be edited, and deactivated while it is active.         *)
TypesTab ==
  Page({LeaveTypes, LeaveRequests}, LeaveTypes,
       [s \in TypeStatus |-> IF s = "active" THEN {"LeaveTypeEditPage", "delete"}
                              ELSE IF s = "inactive" THEN {"LeaveTypeEditPage"} ELSE {}])

(* The button asks with window.confirm and is not disabled meanwhile.       *)
deleteMut ==
  [Call(delete_leave_type, {LeaveTypes}, {<<"leave-types">>}) EXCEPT !.guarded = FALSE]

LeaveTypeForm == {"name", "max_days_per_year", "paid", "requires_document"}

leaveTypeFormToBody == {"name", "paid", "max_days_per_year", "requires_document"}

LeaveTypeEditPage ==
  FormPage({LeaveTypes}, LeaveTypes, "follow", LeaveTypeForm, "update",
           Existing(TypeStatus, {"update"}, {"TypesTab"}))

LeaveTypeSaved ==
  Saving(update_leave_type, {LeaveTypes}, {<<"leave-types">>}, leaveTypeFormToBody, "TypesTab")

LeaveTypeCreatePage ==
  NewPage({}, LeaveTypeForm, "create", {"TypesTab"}, TypeStatus)

LeaveTypeCreated ==
  Saving(To({"none"}, "active"), {LeaveTypes}, {<<"leave-types">>}, leaveTypeFormToBody, "TypesTab")

LeaveTypeScreen ==
  [statuses |-> TypeStatus, start |-> {"none", "active", "inactive"},
   home |-> "TypesTab", nav |-> {"TypesTab", "LeaveTypeCreatePage"},
   pages |-> [TypesTab |-> TypesTab, LeaveTypeEditPage |-> LeaveTypeEditPage,
              LeaveTypeCreatePage |-> LeaveTypeCreatePage],
   calls |-> [delete |-> deleteMut, update |-> LeaveTypeSaved, create |-> LeaveTypeCreated],
   decided |-> {}, ignored |-> {}, overrides |-> {}, vain |-> {}, again |-> {}, eager |-> {}, polled |-> {}]

(***************************************************************************)
(* Balances: a ledger of adjustments, each posted adds another.             *)
(***************************************************************************)
BalancesTab ==
  Page({LeaveBalances, LeaveTypes}, LeaveBalances, Always(Copies, {"LeaveAdjustmentCreatePage"}))

AdjustmentForm ==
  {"employee_id", "leave_type_id", "year", "days_delta", "amount_delta", "reason"}

LeaveAdjustmentCreatePage ==
  NewPage({LeaveTypes, <<"employees", "for-leave-adj">>}, AdjustmentForm, "create",
          {"BalancesTab"}, Copies)

LeaveAdjusted ==
  Saving(AddsAnother, {LeaveBalances}, {<<"leave-balances">>, <<"leave-adjustments">>},
         AdjustmentForm, "BalancesTab")

LeaveAdjustmentScreen ==
  [statuses |-> Copies, start |-> {"none"},
   home |-> "BalancesTab", nav |-> {"BalancesTab"},
   pages |-> [BalancesTab |-> BalancesTab,
              LeaveAdjustmentCreatePage |-> LeaveAdjustmentCreatePage],
   calls |-> [create |-> LeaveAdjusted],
   decided |-> {}, ignored |-> {}, overrides |-> {}, vain |-> {}, again |-> {}, eager |-> {}, polled |-> {}]

(* The tabs of the hub are what the sidebar leads to.                       *)
LeaveScreens ==
  [leave_request |-> LeaveRequestScreen, leave_type |-> LeaveTypeScreen,
   leave_adjustment |-> LeaveAdjustmentScreen]
=============================================================================
