SPECIFICATION Spec
CONSTANTS
  Clients = {c1, c2, c3}
  Sizes = {8, 100, 136}
  Start = 1024
  InitialSize = 320
  MaxSize = 640
  BlockMin = 160
  Header = 32
  SplitMin = 64
  UsedCap = 5
  c1 = c1
  c2 = c2
  c3 = c3
INVARIANT
  HeadersIntact
