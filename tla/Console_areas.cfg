SPECIFICATION Spec
CONSTANTS
  None = None
  Screens <- MCScreens
  Budgets <- MCBudgets
  MaxOthers = 1
INVARIANTS TypeOK Coherent FormCurrent RefusedOnlyWhenMoved NoDoubleEffect DecidedOnce EditsStick
PROPERTIES TypedKept
CHECK_DEADLOCK FALSE
