---------------------------- MODULE MCEmployeeForm ----------------------------
(* Two branches, one with two departments.                                  *)
EXTENDS EmployeeForm, TLC

CONSTANTS north, south, sales, support, stores

MCBranches == {north, south}
MCDepartments == {sales, support, stores}
MCBranchOf == (sales :> north) @@ (support :> north) @@ (stores :> south)
=============================================================================
