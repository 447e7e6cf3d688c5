SPECIFICATION Spec
CONSTANTS
  Region = {"A", "B"}
  Val = {0, 1, 2, 3}
  Budgets <- MCBudgets
INVARIANTS EntryLegal L2Controls
PROPERTIES NestedArchitecture GuestProgress
CHECK_DEADLOCK FALSE
