SPECIFICATION Spec
CONSTANTS
  MAX_COLS = 2
  MAX_ROWS = 2
  Byte = 4
  Text = {"x", "y", "NL", "BS"}
  MaxPrinted = 5
  BLINK_INTERVAL = 2
INVARIANT BlinkingIsHarmless
CHECK_DEADLOCK FALSE
