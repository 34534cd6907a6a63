----------------------------- MODULE ConsolePeople -----------------------------
(***************************************************************************)
(* The company in the administrators' console: employees and their logins,  *)
(* users, departments, branches (admin-web/src/pages/app) and their         *)
(* endpoints (api/v1/employees.py, users.py, departments.py, branches.py).  *)
(***************************************************************************)
EXTENDS ScreenTables

EmployeesKey == <<"employees", "list", "filters">>
EmployeeKey == <<"employees", "id">>
UsersKey == <<"users", "lifecycle", "role", "query">>
UserKey == <<"users", "id">>
DepartmentsKey == <<"departments">>
DepartmentKey == <<"departments", "id">>
BranchesKey == <<"app", "branches", "status">>
BranchKey == <<"app", "branches", "id">>

(***************************************************************************)
(* Employees.                                                              *)
(***************************************************************************)
(* With a login or without one, in the company or gone.                     *)
EmployeeStatus == {"none", "active", "active_login", "terminated", "terminated_login"}

create_employee == To({"none"}, "active")

update_employee == Same(EmployeeStatus \ {"none"})

(* Again and again: whoever has left stays terminated.                      *)
terminate_employee ==
  [s \in EmployeeStatus \ {"none"} |->
     IF s \in {"active_login", "terminated_login"} THEN "terminated_login" ELSE "terminated"]

(* The same endpoint changes the login once there is one.                   *)
update_employee_login ==
  [s \in EmployeeStatus \ {"none"} |->
     IF s \in {"active", "active_login"} THEN "active_login" ELSE "terminated_login"]

EmployeesListQueries ==
  {EmployeesKey, <<"branches", "for-employees-list">>, <<"departments", "for-employees-list">>}

(* Everybody can be edited, those in the company can be terminated.         *)
EmployeesRow ==
  [s \in EmployeeStatus |-> IF s = "none" THEN {}
                            ELSE IF s \in {"active", "active_login"} THEN {"EmployeeEdit", "delete"}
                            ELSE {"EmployeeEdit"}]

EmployeesList == Page(EmployeesListQueries, EmployeesKey, EmployeesRow)

(* window.confirm is all there is between two of them.                      *)
deleteEmployeeMut ==
  [Call(terminate_employee, {EmployeesKey, EmployeeKey}, {<<"employees">>}) EXCEPT !.guarded = FALSE]

(* The sections of the form.                                                *)
IdentityFields == {"photo_url", "full_name", "gender", "position"}

ContactFields == {"phone", "email", "address"}

PersonalFields ==
  {"birth_date", "passport", "inn", "emergency_contact_name", "emergency_contact_phone",
   "emergency_contact_relation"}

AssignmentFields == {"branch_id", "department_id", "hire_date", "work_type"}

(* One rate can be typed, the one of the chosen type.                       *)
CompensationCard ==
  {"salary_type", "base_salary", "daily_rate", "hourly_rate", "overtime_multiplier",
   "bank_card_number", "bank_name"}

ScheduleFields == {"shift_template_id"}

LoginFields == {"create_login", "login_username", "login_password"}

EmployeeFormQueries ==
  {<<"branches", "for-employee-form">>, <<"departments", "for-employee-form">>,
   <<"shift-templates", "for-employee-form">>, <<"company", "me">>}

(* The code is given once, and a login can be asked for only at first.      *)
EmployeeForm(isEdit) ==
  IdentityFields \cup ContactFields \cup PersonalFields \cup AssignmentFields
    \cup CompensationCard \cup ScheduleFields \cup {"notes"}
    \cup IF isEdit THEN {} ELSE {"employee_code"} \cup LoginFields

employeeFormToCreate ==
  {"employee_code", "full_name", "salary_type", "work_type", "overtime_multiplier",
   "photo_url", "gender", "position", "phone", "email", "address", "birth_date", "hire_date",
   "passport", "inn", "emergency_contact_name", "emergency_contact_phone",
   "emergency_contact_relation", "bank_card_number", "bank_name", "notes", "branch_id",
   "department_id", "shift_template_id", "base_salary", "hourly_rate", "daily_rate",
   "create_login", "login_username", "login_password"}

employeeFormToUpdate ==
  {"branch_id", "department_id", "full_name", "photo_url", "phone", "email", "position",
   "address", "birth_date", "hire_date", "gender", "passport", "inn",
   "emergency_contact_name", "emergency_contact_phone", "emergency_contact_relation",
   "bank_card_number", "bank_name", "notes", "work_type", "shift_template_id",
   "salary_type", "base_salary", "hourly_rate", "daily_rate", "overtime_multiplier"}

(* On the page of an employee without a login: the card that creates one.   *)
CreateLoginCard ==
  Page({EmployeeKey}, EmployeeKey,
       [s \in EmployeeStatus |-> IF s \in {"active", "terminated"} THEN {"createLogin"} ELSE {}])

createLoginMut ==
  Call(update_employee_login, {EmployeesKey, EmployeeKey}, {<<"employees", "id">>, <<"employees">>})

EmployeeEdit ==
  With(FormPage({EmployeeKey} \cup EmployeeFormQueries, EmployeeKey, "follow", EmployeeForm(TRUE),
                "update", Existing(EmployeeStatus, {"update"}, {"EmployeesList"})),
       CreateLoginCard)

EmployeeUpdated ==
  Saving(update_employee, {EmployeesKey, EmployeeKey}, {<<"employees">>, <<"employees", "id">>},
         employeeFormToUpdate, "EmployeesList")

EmployeeCreate ==
  NewPage({<<"employees", "next-code">>} \cup EmployeeFormQueries, EmployeeForm(FALSE), "create",
          {"EmployeesList"}, EmployeeStatus)

(* Lands on the edit page of the new employee.                              *)
EmployeeCreated ==
  Saving(create_employee, {EmployeesKey, EmployeeKey},
         {<<"employees">>, <<"employees", "next-code">>}, employeeFormToCreate, "EmployeeEdit")

EmployeeScreen ==
  [statuses |-> EmployeeStatus, start |-> {"none", "active"},
   home |-> "EmployeesList", nav |-> {"EmployeesList", "EmployeeCreate"},
   pages |-> [EmployeesList |-> EmployeesList, EmployeeEdit |-> EmployeeEdit,
              EmployeeCreate |-> EmployeeCreate],
   calls |-> [delete |-> deleteEmployeeMut, update |-> EmployeeUpdated,
              create |-> EmployeeCreated, createLogin |-> createLoginMut],
   decided |-> {}, ignored |-> {}, overrides |-> {}, vain |-> {}, again |-> {}, eager |-> {}, polled |-> {}]

(***************************************************************************)
(* Users, of whom no employee is made.                                      *)
(***************************************************************************)
UserStatus == {"none", "active", "inactive", "deleted"}

create_user == To({"none"}, "active")

update_user == Same({"active", "inactive"})

reset_user_password == Same({"active", "inactive"})

delete_user(hard) == To({"active", "inactive"}, IF hard THEN "deleted" ELSE "inactive")

reactivate_user == To({"active", "inactive"}, "active")

UserShown == {UsersKey, UserKey}

(* Only who is inactive can be deleted for good here; one's own row and an  *)
(* owner's offer less.                                                      *)
UsersRow ==
  [s \in UserStatus |->
     IF s = "active" THEN {"UserEditPage", "ResetPasswordDialog", "deactivate"}
     ELSE IF s = "inactive" THEN {"UserEditPage", "ResetPasswordDialog", "reactivate", "hardDelete"}
     ELSE {}]

UsersListPage == Page({UsersKey}, UsersKey, UsersRow)

(* Of the buttons of a row none is disabled meanwhile.                      *)
UsersRowMut(endpoint) == [Call(endpoint, UserShown, {<<"users">>}) EXCEPT !.guarded = FALSE]

UserFormFields(isEdit) ==
  {"full_name", "email", "phone", "language", "branch_id"}
    \cup IF isEdit THEN {"status", "is_active"} ELSE {"username", "role", "password"}

(* useState(initial): filled when the page opens, from what is cached.      *)
UserEditPage ==
  FormPage({UserKey, <<"branches", "list", "for-user-form">>}, UserKey, "once",
           UserFormFields(TRUE), "update",
           [s \in UserStatus |-> IF s \in {"active", "inactive"}
                                 THEN {"update", "hardDeleteHere", "ResetPasswordDialog", "UsersListPage"}
                                 ELSE {"UsersListPage"}])

(* The status goes with the body, whoever else has changed it since.        *)
UserUpdated ==
  [Saving(update_user, UserShown, {<<"users">>}, UserFormFields(TRUE), "UsersListPage")
     EXCEPT !.restates = TRUE]

hardDeleteMut == [Call(delete_user(TRUE), UserShown, {<<"users">>}) EXCEPT !.goes = "UsersListPage"]

UserCreatePage ==
  NewPage({<<"branches", "list", "for-user-form">>}, UserFormFields(FALSE), "create",
          {"UsersListPage"}, UserStatus)

UserCreated ==
  Saving(create_user, UserShown, {<<"users">>}, UserFormFields(FALSE), "UsersListPage")

(* Over the list as over the page of the user; here over the list.          *)
ResetPasswordDialog ==
  OfRow("ResetPasswordDialog", UsersListPage,
        Page({}, UsersKey, Always(UserStatus, {"resetPassword", "UsersListPage"})))

(* Nothing that is shown changes, nothing is invalidated.                   *)
resetPasswordMut == [Call(reset_user_password, {}, {}) EXCEPT !.goes = "UsersListPage"]

UserScreen ==
  [statuses |-> UserStatus, start |-> {"none", "active"},
   home |-> "UsersListPage", nav |-> {"UsersListPage", "UserCreatePage"},
   pages |-> [UsersListPage |-> UsersListPage, UserEditPage |-> UserEditPage,
              UserCreatePage |-> UserCreatePage, ResetPasswordDialog |-> ResetPasswordDialog],
   calls |-> [deactivate |-> UsersRowMut(delete_user(FALSE)), reactivate |-> UsersRowMut(reactivate_user),
              hardDelete |-> UsersRowMut(delete_user(TRUE)), hardDeleteHere |-> hardDeleteMut,
              update |-> UserUpdated, create |-> UserCreated, resetPassword |-> resetPasswordMut],
   decided |-> {}, ignored |-> {}, overrides |-> {}, vain |-> {}, again |-> {}, eager |-> {}, polled |-> {UsersKey}]

(***************************************************************************)
(* The login of an employee, on the page of the employee.                   *)
(***************************************************************************)
LoginStatus == {"active", "inactive"}

set_login(active) == To(LoginStatus, IF active THEN "active" ELSE "inactive")

(* An inactive login can only be activated.                                 *)
AuthCard ==
  Page({EmployeeKey, UserKey}, UserKey,
       [s \in LoginStatus |-> IF s = "active" THEN {"rename", "resetPassword", "deactivate"}
                              ELSE {"reactivate"}])

(* The list of the users is not told: its key is another.                   *)
AuthCardMut(endpoint) ==
  [Call(endpoint, UserShown, {<<"users", "id">>}) EXCEPT !.forgets = {UsersKey}]

EmployeeLoginScreen ==
  [statuses |-> LoginStatus, start |-> LoginStatus,
   home |-> "EmployeeEdit", nav |-> {"EmployeeEdit", "UsersListPage"},
   pages |-> [EmployeeEdit |-> AuthCard,
              UsersListPage |-> Page({UsersKey}, UsersKey, Always(LoginStatus, {}))],
   calls |-> [rename |-> AuthCardMut(Same(LoginStatus)),
              resetPassword |-> Call(Same(LoginStatus), {}, {}),
              deactivate |-> AuthCardMut(set_login(FALSE)),
              reactivate |-> AuthCardMut(set_login(TRUE))],
   decided |-> {}, ignored |-> {}, overrides |-> {}, vain |-> {}, again |-> {}, eager |-> {}, polled |-> {UsersKey}]

(***************************************************************************)
(* Departments and branches: edited in a form, deactivated from the list.   *)
(***************************************************************************)
UnitStatus == {"none", "active", "inactive"}

create_department == To({"none"}, "active")

update_department == Same({"active", "inactive"})

delete_department == To({"active", "inactive"}, "inactive")

DepartmentsRow ==
  [s \in UnitStatus |-> IF s = "active" THEN {"DepartmentEdit", "delete"}
                        ELSE IF s = "inactive" THEN {"DepartmentEdit"} ELSE {}]

DepartmentsList ==
  Page({DepartmentsKey, <<"branches", "for-dept-list">>}, DepartmentsKey, DepartmentsRow)

DepartmentShown == {DepartmentsKey, DepartmentKey}

deleteDepartmentMut ==
  [Call(delete_department, DepartmentShown, {<<"departments">>}) EXCEPT !.guarded = FALSE]

(* A department does not move to another branch.                            *)
DepartmentForm(isEdit) ==
  {"parent_id", "name", "code", "description"} \cup IF isEdit THEN {} ELSE {"branch_id"}

DepartmentFormQueries == {<<"branches", "for-dept-form">>, <<"departments", "for-dept-form">>}

departmentFormToUpdate == {"parent_id", "name", "code", "description"}

departmentFormToCreate == departmentFormToUpdate \cup {"branch_id"}

DepartmentEdit ==
  FormPage({DepartmentKey} \cup DepartmentFormQueries, DepartmentKey, "follow",
           DepartmentForm(TRUE), "update", Existing(UnitStatus, {"update"}, {"DepartmentsList"}))

DepartmentSaved(endpoint, body) ==
  Saving(endpoint, DepartmentShown, {<<"departments">>, <<"departments", "for-dept-form">>},
         body, "DepartmentsList")

DepartmentCreate ==
  NewPage(DepartmentFormQueries, DepartmentForm(FALSE), "create", {"DepartmentsList"}, UnitStatus)

DepartmentScreen ==
  [statuses |-> UnitStatus, start |-> {"none", "active"},
   home |-> "DepartmentsList", nav |-> {"DepartmentsList", "DepartmentCreate"},
   pages |-> [DepartmentsList |-> DepartmentsList, DepartmentEdit |-> DepartmentEdit,
              DepartmentCreate |-> DepartmentCreate],
   calls |-> [delete |-> deleteDepartmentMut,
              update |-> DepartmentSaved(update_department, departmentFormToUpdate),
              create |-> DepartmentSaved(create_department, departmentFormToCreate)],
   decided |-> {}, ignored |-> {}, overrides |-> {}, vain |-> {}, again |-> {}, eager |-> {}, polled |-> {}]

create_branch == To({"none"}, "active")

update_branch == Same({"active", "inactive"})

delete_branch == To({"active", "inactive"}, "inactive")

BranchesRow ==
  [s \in UnitStatus |-> IF s = "active" THEN {"BranchEdit", "delete"}
                        ELSE IF s = "inactive" THEN {"BranchEdit"} ELSE {}]

BranchesList == Page({BranchesKey}, BranchesKey, BranchesRow)

(* The lookups of every other form have keys of their own.                  *)
BranchesForEmployees == <<"branches", "for-employees-list">>

BranchShown == {BranchesKey, BranchKey, BranchesForEmployees}

BranchInvalidated(call) == [call EXCEPT !.forgets = {BranchesForEmployees}]

deleteBranchMut ==
  [Call(delete_branch, BranchShown, {<<"app", "branches">>}) EXCEPT !.guarded = FALSE]

BranchForm == {"name", "address", "photo_url", "latitude", "longitude", "geofence_radius_m"}

branchFormToBody == {"name", "address", "photo_url", "latitude", "longitude", "geofence_radius_m"}

BranchEdit ==
  FormPage({BranchKey}, BranchKey, "follow", BranchForm, "update",
           Existing(UnitStatus, {"update"}, {"BranchesList"}))

BranchSaved(endpoint) ==
  Saving(endpoint, BranchShown, {<<"app", "branches">>}, branchFormToBody, "BranchesList")

BranchCreate == NewPage({}, BranchForm, "create", {"BranchesList"}, UnitStatus)

BranchScreen ==
  [statuses |-> UnitStatus, start |-> {"none", "active"},
   home |-> "BranchesList", nav |-> {"BranchesList", "BranchCreate", "EmployeesList"},
   pages |-> [BranchesList |-> BranchesList, BranchEdit |-> BranchEdit, BranchCreate |-> BranchCreate,
              EmployeesList |-> Page({BranchesForEmployees}, BranchesForEmployees, Always(UnitStatus, {}))],
   calls |-> [delete |-> BranchInvalidated(deleteBranchMut),
              update |-> BranchInvalidated(BranchSaved(update_branch)),
              create |-> BranchInvalidated(BranchSaved(create_branch))],
   decided |-> {}, ignored |-> {}, overrides |-> {}, vain |-> {}, again |-> {}, eager |-> {}, polled |-> {}]

PeopleScreens ==
  [employee |-> EmployeeScreen, user |-> UserScreen, employee_login |-> EmployeeLoginScreen,
   department |-> DepartmentScreen, branch |-> BranchScreen]
=============================================================================
