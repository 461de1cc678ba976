SPECIFICATION LibrarySpec
CONSTANTS
  Buffers = {s1, s2}
  Texts <- TextsUpTo3
  Delimiters <- DelimiterSets
  Nil = Nil
  Values <- SmallNumbers
  Printed <- PrintedNumbers
  IntRange = 512
  Halves = {0, 1, 511}
  CharCodes = {64, 65, 90, 96, 97, 200}
  MaxLength = 2
  MemorySize = 5
  Clients = {0, 1, 2, 3}
  Sizes = {8, 16, 41, 81, 121}
  Start = 1024
  InitialSize = 320
  MaxSize = 480
  BlockMin = 160
  Header = 32
  SplitMin = 64
  UsedCap = 6
  Strings <- StringsUpTo4
  Run = 40
  MaxWords = 2
INVARIANT PrintsItsArguments
CHECK_DEADLOCK FALSE
