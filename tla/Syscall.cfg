SPECIFICATION FairSpec
CONSTANTS
  Chars = {x, y}
  NoChar = nul
  KB_BUF_SIZE = 3
  MaxCount = 2
  MaxPush = 4
INVARIANTS
  ReadsInOrder
  BufferInv
PROPERTIES
  ReadNeverShort
  ProgramKeepsRegisters
  ImplementsFifo
  ReadOfWaitingReturns
\* sys_exit stops the machine, and so does a read of an empty buffer.
CHECK_DEADLOCK FALSE
