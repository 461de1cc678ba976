SPECIFICATION FairSpec
CONSTANTS
  KeysTyped = {30, 42}
  MaxEvents = 3
  Hoists = TRUE
PROPERTY AcceptedKeyEndsCall
CHECK_DEADLOCK FALSE
