SPECIFICATION Spec
CONSTANTS
  Task = {1, 2}
  Touched = {0, 1}
  GuestPages = 6
  GuestTables <- Tab
  GuestWords <- MCWords
  GuestRoots = {1, 9}
  Budgets <- MCBudgets
INVARIANTS TaskMemory EptExact GuestWalksExact GuestIsolated
CHECK_DEADLOCK FALSE
