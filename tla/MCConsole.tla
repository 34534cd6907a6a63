------------------------------- MODULE MCConsole -------------------------------
(* The areas of the console, each with tables of its own.                   *)
EXTENDS Console, TLC

Leaves == INSTANCE ConsoleLeaves
Kpi == INSTANCE ConsoleKpi
Payroll == INSTANCE ConsolePayroll
Attendance == INSTANCE ConsoleAttendance
Shifts == INSTANCE ConsoleShifts
People == INSTANCE ConsolePeople

MCTables == Leaves!LeaveScreens @@ Kpi!KpiScreens @@ Payroll!PayrollScreens
  @@ Attendance!AttendanceScreens @@ Shifts!ShiftScreens
  @@ People!PeopleScreens

MCScreens == MCTables

(* Long enough to open a form again after saving it, and for two presses of *)
(* a button.                                                                *)
MCBudgets == {[visits |-> 3, presses |-> 1], [visits |-> 1, presses |-> 2]}
=============================================================================
