SPECIFICATION Spec
CONSTANTS
  MAX_COLS = 2
  MAX_ROWS = 3
  Byte = 6
  Text = {"x", "y", "NL", "BS"}
  MaxPrinted = 5
  BLINK_INTERVAL = 2
INVARIANT HarmlessUnlessHit
PROPERTIES PrintsWithinWindow LostBehindEnds
CHECK_DEADLOCK FALSE
