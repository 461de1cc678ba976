------------------------------ MODULE Terminal ------------------------------
(***************************************************************************)
(* kputchar of drivers/output/vga.c, run without interruption, as a        *)
(* function of the screen [cells, cursor]: the character cells of video    *)
(* memory, the visible window first, and the position in the cursor        *)
(* registers.  Offsets are uint16_t byte offsets, two bytes to a cell.     *)
(***************************************************************************)
EXTENDS Integers, Sequences, SequencesExt

CONSTANTS
  MAX_COLS, MAX_ROWS,
  Byte  \* 2^8, the values of a uint8_t; an even number

ASSUME TerminalAssumption ==
  /\ {MAX_COLS, MAX_ROWS, Byte} \subseteq Nat \ {0}
  /\ Byte % 2 = 0
  /\ MAX_COLS * (MAX_ROWS + 1) * 2 < Byte * Byte

Blank == ""
Space == " "
Wide == Byte * Byte
Window == MAX_COLS * MAX_ROWS
RowBytes == MAX_COLS * 2

get_cursor(s) == (s.cursor * 2) % Wide

set_cursor(s, pos) == [s EXCEPT !.cursor = (pos % Wide) \div 2]

\* Variant: every row behind the window counts as the last.
LastRow_OrBehind(offset) == offset \div RowBytes >= MAX_ROWS - 1

LastRow(offset) == offset \div RowBytes = MAX_ROWS - 1

\* Variant: the column is kept.
NextRow_KeepsColumn(offset) == offset + RowBytes

NextRow(offset) == offset - (offset % RowBytes) + RowBytes
last_line == RowBytes * (MAX_ROWS - 1)

\* Row `row` becomes a copy of the row above it.
CopyRow(cells, row) ==
  [i \in DOMAIN cells |-> IF i \div MAX_COLS = row THEN cells[i - MAX_COLS] ELSE cells[i]]

Scrolled(cells) ==
  LET copied == FoldLeft(CopyRow, cells, [row \in 1 .. MAX_ROWS - 1 |-> row])
  IN  [i \in DOMAIN cells |-> IF i \div MAX_COLS = MAX_ROWS - 1 THEN Blank ELSE copied[i]]

scroll_line(s) == set_cursor([s EXCEPT !.cells = Scrolled(s.cells)], last_line)

NewLine(s) ==
  IF LastRow(get_cursor(s)) THEN scroll_line(s) ELSE set_cursor(s, NextRow(get_cursor(s)))

\* The offset read before scroll_line is used after it.
Type(s, ch) ==
  LET offset == get_cursor(s)
      screen == IF offset = Window * 2 THEN scroll_line(s) ELSE s
  IN  set_cursor([screen EXCEPT !.cells[offset \div 2] = ch], offset + 2)

Backspace(s) ==
  LET erased == Type(set_cursor(s, get_cursor(s) - 1), Space)
  IN  set_cursor(erased, get_cursor(erased) - 2)

kputchar(s, ch) ==
  IF ch = "NL" THEN NewLine(s)
  ELSE IF ch = "BS" THEN Backspace(s)
  ELSE Type(s, ch)

kprint(s, str) == FoldLeft(kputchar, s, str)

\* The window, and not what is behind it.
kclear(s) ==
  set_cursor([cells |-> [i \in DOMAIN s.cells |-> IF i < Window THEN Blank ELSE s.cells[i]],
              cursor |-> s.cursor], 0)

\* What the firmware left, whatever it is.
PowerOn == [cells |-> [i \in 0 .. Wide \div 2 - 1 |-> "?"], cursor |-> 0]

-----------------------------------------------------------------------------
(* For the histories and the properties *)

InWindow(s) == s.cursor < Window

\* There is room behind the cursor, and it is clear.
Clear(s) == InWindow(s) /\ \A i \in s.cursor .. Window - 1 : s.cells[i] \in {Space, Blank}

\* What a newline in the last row makes of the window.  Each row is copied from
\* the one above, which has just been overwritten: the first row fills them all.
FirstRowRepeated(grid) ==
  [i \in DOMAIN grid |-> IF i < Window - MAX_COLS THEN grid[i % MAX_COLS]
                         ELSE IF i < Window THEN Blank ELSE grid[i]]
=============================================================================
