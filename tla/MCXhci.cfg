SPECIFICATION Spec
CONSTANTS
  Port = {1, 2}
  NSlots = 2
  CmdSize = 24
  RingSize = 42
  TrSize = 16
  Reads = 1
  Budgets <- MCBudgets
INVARIANTS ScratchpadSafe SlotOwned HidArmed TransfersInOrder
PROPERTIES CommandsOnce HandlerReturns
CHECK_DEADLOCK FALSE
