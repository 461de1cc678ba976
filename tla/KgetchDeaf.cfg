SPECIFICATION FairSpec
CONSTANTS
  KeysTyped = {30, 42}
  MaxEvents = 3
  Hoists = FALSE
PROPERTY PressEndsCall
CHECK_DEADLOCK FALSE
