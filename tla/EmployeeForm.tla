----------------------------- MODULE EmployeeForm -----------------------------
(***************************************************************************)
(* The branch and the department on the edit page of an employee            *)
(* (admin-web/src/pages/app/employees/EmployeeEdit.tsx, EmployeeForm.tsx):  *)
(* the two queries they come from, the effect that hydrates the form and    *)
(* the effect that clears a department of another branch.                   *)
(*                                                                         *)
(* The form is mounted once the employee is there, and only then asks for   *)
(* the departments.                                                        *)
(***************************************************************************)
EXTENDS FiniteSets

CONSTANTS
  Branches,
  Departments,
  BranchOf,      \* the branch of each department
  None,          \* not chosen; no data; no fetch
  Asked          \* a fetch the server has not read for

VARIABLES
  employee,        \* the server: the branch and the department of the employee
  departments,     \* the server: the departments there are
  employeeQ,       \* the query of the employee: its data and its fetch
  deptsQ,          \* the lookup of the departments, likewise
  page,            \* the list or the edit page
  form,            \* the value of the form, as useState holds it
  touched,         \* history: a branch or a department was chosen in this form
  due              \* the effect on the department has to run after this render

vars == <<employee, departments, employeeQ, deptsQ, page, form, touched, due>>

Assignments ==
  {a \in [branch: Branches \cup {None}, department: Departments \cup {None}] :
     a.department = None \/ a.branch = BranchOf[a.department]}

emptyEmployeeForm == [branch |-> None, department |-> None]

Query(data) == [data : {None} \cup data, fetch : {None, Asked} \cup data]

TypeOK ==
  /\ employee \in Assignments
  /\ departments \subseteq Departments
  /\ employeeQ \in Query([branch: Branches \cup {None}, department: Departments \cup {None}])
  /\ deptsQ \in Query(SUBSET Departments)
  /\ page \in {"list", "edit"}
  /\ form \in [branch: Branches \cup {None}, department: Departments \cup {None}]
  /\ touched \in BOOLEAN /\ due \in BOOLEAN

Init ==
  /\ employee \in Assignments
  /\ departments \in SUBSET Departments
  /\ employee.department \in departments \cup {None}
  /\ employeeQ = [data |-> None, fetch |-> None]
  /\ deptsQ = [data |-> None, fetch |-> None]
  /\ page = "list"
  /\ form = emptyEmployeeForm
  /\ touched = FALSE /\ due = FALSE

(***************************************************************************)
(* While the lookup has no data, allDepts is a new empty list at every      *)
(* render; afterwards it changes with the answers.                          *)
(***************************************************************************)
allDepts == IF deptsQ.data = None THEN {} ELSE deptsQ.data

(* The form is drawn when there is an employee to draw it for.              *)
Mounted == page = "edit" /\ employeeQ.data # None

Ask(q) == [q EXCEPT !.fetch = IF @ = None THEN Asked ELSE @]

(* A query that has data is asked for again when the data is old.           *)
MountQuery(q) == IF q.data = None THEN {Ask(q)} ELSE {q, Ask(q)}

(* The effect of the page: setForm(employeeToForm(employeeQ.data)).         *)
Hydrate(data) ==
  /\ form' = data
  /\ touched' = FALSE
  /\ due' = (deptsQ.data = None \/ data.branch # form.branch)

OpenEdit ==
  /\ page = "list"
  /\ page' = "edit"
  /\ employeeQ' \in MountQuery(employeeQ)
  /\ IF employeeQ.data = None
     THEN /\ form' = emptyEmployeeForm /\ touched' = FALSE /\ due' = FALSE
          /\ UNCHANGED deptsQ
     ELSE /\ form' = employeeQ.data /\ touched' = FALSE /\ due' = TRUE
          /\ deptsQ' \in MountQuery(deptsQ)
  /\ UNCHANGED <<employee, departments>>

ServeEmployee ==
  /\ ~due /\ employeeQ.fetch = Asked
  /\ employeeQ' = [employeeQ EXCEPT !.fetch = employee]
  /\ UNCHANGED <<employee, departments, deptsQ, page, form, touched, due>>

ServeDepartments ==
  /\ ~due /\ deptsQ.fetch = Asked
  /\ deptsQ' = [deptsQ EXCEPT !.fetch = departments]
  /\ UNCHANGED <<employee, departments, employeeQ, page, form, touched, due>>

(* The same data again changes nothing; the first mounts the form.          *)
AnswerEmployee ==
  /\ ~due /\ employeeQ.fetch \notin {None, Asked}
  /\ employeeQ' = [data |-> employeeQ.fetch, fetch |-> None]
  /\ IF page = "edit" /\ employeeQ.fetch # employeeQ.data
     THEN Hydrate(employeeQ.fetch)
     ELSE UNCHANGED <<form, touched, due>>
  /\ IF page = "edit" /\ employeeQ.data = None
     THEN deptsQ' \in MountQuery(deptsQ) ELSE UNCHANGED deptsQ
  /\ UNCHANGED <<employee, departments, page>>

AnswerDepartments ==
  /\ ~due /\ deptsQ.fetch \notin {None, Asked}
  /\ deptsQ' = [data |-> deptsQ.fetch, fetch |-> None]
  /\ due' = (Mounted /\ deptsQ.fetch # deptsQ.data)
  /\ UNCHANGED <<employee, departments, employeeQ, page, form, touched>>

(***************************************************************************)
(* "If branch changes and the picked dept doesn't belong to the new branch, *)
(* clear it": after the render, before anything else.                       *)
(***************************************************************************)
ClearDepartment ==
  /\ due
  /\ due' = FALSE
  /\ form' =
       IF /\ form.department # None
          /\ ~\E d \in allDepts : d = form.department /\ BranchOf[d] = form.branch
       THEN [form EXCEPT !.department = None] ELSE form
  /\ UNCHANGED <<employee, departments, employeeQ, deptsQ, page, touched>>

ChooseBranch(b) ==
  /\ ~due /\ Mounted /\ b # form.branch
  /\ form' = [form EXCEPT !.branch = b]
  /\ touched' = TRUE
  /\ due' = TRUE
  /\ UNCHANGED <<employee, departments, employeeQ, deptsQ, page>>

(* Only departments of the branch are listed.                               *)
ChooseDepartment(d) ==
  /\ ~due /\ Mounted /\ form.branch # None /\ d # form.department
  /\ d = None \/ (d \in allDepts /\ BranchOf[d] = form.branch)
  /\ form' = [form EXCEPT !.department = d]
  /\ touched' = TRUE
  /\ due' = (deptsQ.data = None)
  /\ UNCHANGED <<employee, departments, employeeQ, deptsQ, page>>

(* employeeFormToUpdate: what is not chosen is sent as null.  The employee   *)
(* is asked for again, the page left.                                       *)
Save ==
  /\ ~due /\ Mounted
  /\ employee' = form
  /\ page' = "list"
  /\ employeeQ' = [employeeQ EXCEPT !.fetch = Asked]
  /\ UNCHANGED <<departments, deptsQ, form, touched, due>>

Cancel ==
  /\ ~due /\ page = "edit"
  /\ page' = "list"
  /\ UNCHANGED <<employee, departments, employeeQ, deptsQ, form, touched, due>>

(* Another administrator moves the employee, or adds a department.          *)
Other ==
  /\ ~due
  /\ \/ /\ employee' \in {a \in Assignments : a.department \in departments \cup {None}}
        /\ UNCHANGED departments
     \/ /\ \E d \in Departments \ departments : departments' = departments \cup {d}
        /\ UNCHANGED employee
  /\ UNCHANGED <<employeeQ, deptsQ, page, form, touched, due>>

Next ==
  \/ OpenEdit \/ ServeEmployee \/ ServeDepartments \/ AnswerEmployee \/ AnswerDepartments
  \/ ClearDepartment
  \/ \E b \in Branches \cup {None} : ChooseBranch(b)
  \/ \E d \in Departments \cup {None} : ChooseDepartment(d)
  \/ Save \/ Cancel \/ Other

Spec == Init /\ [][Next]_vars

(***************************************************************************)
(* A form in which nobody chose shows the department of the employee, unless *)
(* that belongs to another branch: the effect clears a department "If branch *)
(* changes and the picked dept doesn't belong to the new branch"            *)
(* (EmployeeForm.tsx:332).                                                  *)
(***************************************************************************)
ClearedOnlyWhenForeign ==
  (Mounted /\ ~due /\ ~touched) =>
    \/ form.department = employeeQ.data.department
    \/ BranchOf[employeeQ.data.department] # form.branch
=============================================================================
