SPECIFICATION FairSpec
CONSTANTS
  KeysTyped = {14, 28, 30, 58, 75, 77}
  MaxEvents = 4
  MAX_COLS = 3
  MAX_ROWS = 2
  Byte = 8
  BufSize = 4
  PromptLen = 1
  LabelLen = 1
INVARIANTS TypeOK ShownUnlessAstray
PROPERTIES ImplementsEditor ReturnsTypedLine EnterEndsCall
CHECK_DEADLOCK FALSE
