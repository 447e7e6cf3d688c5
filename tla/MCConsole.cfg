SPECIFICATION Spec
CONSTANTS
  VPages = 32
  BPages = 14
  Block = 40
  PtEntries = 6
  FbPages = 10
  Max = 27
  IbSize = 8
  SetSize = 1
  CopySize = 2
  FenceSize = 2
  InitWords = 2
  WORD = 64
  FW = 1
  FH = 2
  Width = 2
  Heights = {4, 5, 8}
  Chars = 6
INVARIANTS TextIntact
PROPERTIES CommandsInOrder PrintkReturns
CHECK_DEADLOCK FALSE
