SPECIFICATION Spec
CONSTANTS
  north = north
  south = south
  sales = sales
  support = support
  stores = stores
  None = None
  Asked = Asked
  Branches <- MCBranches
  Departments <- MCDepartments
  BranchOf <- MCBranchOf
INVARIANTS ClearedOnlyWhenForeign
CHECK_DEADLOCK FALSE
