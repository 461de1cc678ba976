------------------------------ MODULE Console ------------------------------
(***************************************************************************)
(* kputchar (drivers/output/vga.c) port access by port access, with the    *)
(* APIC timer interrupt (apic_handler, cpu/apic.c) between any two of      *)
(* them.  The CRT controller has an index register, which port 0x3D4 sets, *)
(* and port 0x3D5 reads or writes the register it selects; the timer       *)
(* handler uses both and leaves the index at the low byte of the cursor.   *)
(* The handler itself is not interrupted.                                  *)
(***************************************************************************)
EXTENDS Terminal

CONSTANTS
  Text,            \* the characters that are printed
  MaxPrinted,      \* bound on how many
  BLINK_INTERVAL

ASSUME ConsoleAssumption == {MaxPrinted, BLINK_INTERVAL} \subseteq Nat

VARIABLES
  index,          \* the register selected: "high" or "low"
  high, low,      \* the cursor registers
  cells,          \* video memory
  calls,          \* what the thread has still to do, the call under way first
  step,           \* the port accesses made of that call
  high_byte,      \* get_cursor's local variable
  offset,         \* what get_cursor returned last
  blink_counter,
  printed,        \* how many characters were printed
  ideal,          \* history: the screen had no timer interrupt come
  hit             \* history: one came between a high select and its access

thread == <<calls, step, high_byte, offset>>
vars == <<index, high, low, cells, thread, blink_counter, printed, ideal, hit>>

Init ==
  /\ index = "low" /\ high = 0 /\ low = 0
  /\ cells = kclear(PowerOn).cells
  /\ calls = <<>> /\ step = 0 /\ high_byte = 0 /\ offset = 0
  /\ blink_counter = 0
  /\ printed = 0 /\ ideal = kclear(PowerOn) /\ hit = FALSE

-----------------------------------------------------------------------------
(* The calls kputchar is made of *)

Get == [do |-> "get"]
Set(pos) == [do |-> "set", pos |-> (pos % Wide) \div 2]
Move(by) == [do |-> "move", by |-> by]   \* set_cursor(get_cursor() + by), after the get
Put(ch) == [do |-> "put", ch |-> ch]     \* kputchar after its get_cursor
Write(ch, at) == [do |-> "write", ch |-> ch, at |-> at]
Scroll == [do |-> "scroll"]

CallsOfNewLine ==
  IF LastRow(offset) THEN <<Scroll, Set(last_line)>> ELSE <<Set(NextRow(offset))>>

CallsOfBackspace == <<Get, Move(-1), Get, Put(Space), Get, Move(-2)>>

\* Variant: the character is not written where the cursor was.
CallsOfType_AfterMove(ch) ==
  (IF offset = Window * 2 THEN <<Scroll, Set(last_line)>> ELSE <<>>)
    \o <<Write(ch, offset + 2), Set(offset + 2)>>

CallsOfType(ch) ==
  (IF offset = Window * 2 THEN <<Scroll, Set(last_line)>> ELSE <<>>)
    \o <<Write(ch, offset), Set(offset + 2)>>

CallsOf(ch) ==
  IF ch = "NL" THEN CallsOfNewLine
  ELSE IF ch = "BS" THEN CallsOfBackspace
  ELSE CallsOfType(ch)

Doing(call) == calls # <<>> /\ Head(calls).do = call

Output(ch) ==
  /\ calls = <<>>
  /\ printed < MaxPrinted
  /\ calls' = <<Get, Put(ch)>>
  /\ printed' = printed + 1
  /\ ideal' = kputchar(ideal, ch)
  /\ UNCHANGED <<index, high, low, cells, step, high_byte, offset, blink_counter, hit>>

\* Replace the call under way by others.
Expand(more) == calls' = more \o Tail(calls)

DoPut ==
  /\ Doing("put")
  /\ Expand(CallsOf(Head(calls).ch))
  /\ UNCHANGED <<index, high, low, cells, step, high_byte, offset, blink_counter, printed, ideal, hit>>

DoMove ==
  /\ Doing("move")
  /\ Expand(<<Set(offset + Head(calls).by)>>)
  /\ UNCHANGED <<index, high, low, cells, step, high_byte, offset, blink_counter, printed, ideal, hit>>

DoMemory ==
  /\ \/ Doing("write") /\ cells' = [cells EXCEPT ![Head(calls).at \div 2] = Head(calls).ch]
     \/ Doing("scroll") /\ cells' = Scrolled(cells)
  /\ Expand(<<>>)
  /\ UNCHANGED <<index, high, low, step, high_byte, offset, blink_counter, printed, ideal, hit>>

\* outb(REG_SCREEN_CTRL, 14) and outb(REG_SCREEN_CTRL, 15)
Select ==
  /\ Doing("get") \/ Doing("set")
  /\ step \in {0, 2}
  /\ index' = IF step = 0 THEN "high" ELSE "low"
  /\ step' = step + 1
  /\ UNCHANGED <<high, low, cells, calls, high_byte, offset, blink_counter, printed, ideal, hit>>

Selected == IF index = "high" THEN high ELSE low

ReadHigh ==
  /\ Doing("get") /\ step = 1
  /\ high_byte' = Selected
  /\ step' = 2
  /\ UNCHANGED <<index, high, low, cells, calls, offset, blink_counter, printed, ideal, hit>>

ReadLow ==
  /\ Doing("get") /\ step = 3
  /\ offset' = ((high_byte * Byte + Selected) * 2) % Wide
  /\ step' = 0
  /\ Expand(<<>>)
  /\ UNCHANGED <<index, high, low, cells, high_byte, blink_counter, printed, ideal, hit>>

\* outb(REG_SCREEN_DATA, ...)
WriteByte(value) ==
  /\ high' = IF index = "high" THEN value ELSE high
  /\ low' = IF index = "low" THEN value ELSE low

WriteHigh ==
  /\ Doing("set") /\ step = 1
  /\ WriteByte(Head(calls).pos \div Byte)
  /\ step' = 2
  /\ UNCHANGED <<index, cells, calls, high_byte, offset, blink_counter, printed, ideal, hit>>

WriteLow ==
  /\ Doing("set") /\ step = 3
  /\ WriteByte(Head(calls).pos % Byte)
  /\ step' = 0
  /\ Expand(<<>>)
  /\ UNCHANGED <<index, cells, high_byte, offset, blink_counter, printed, ideal, hit>>

-----------------------------------------------------------------------------
(* The timer interrupt *)

\* What set_cursor(get_cursor()) leaves in the registers.
Rewritten == ((((high * Byte + low) * 2) % Wide) \div 2)

Blinks == blink_counter + 1 >= BLINK_INTERVAL

TimerCounts ==
  /\ ~Blinks
  /\ blink_counter' = blink_counter + 1
  /\ UNCHANGED <<index, high, low, cells, thread, printed, ideal, hit>>

TimerBlinks ==
  /\ Blinks
  /\ blink_counter' = 0
  /\ high' = Rewritten \div Byte /\ low' = Rewritten % Byte
  /\ index' = "low"
  /\ hit' = (hit \/ step = 1)
  /\ UNCHANGED <<cells, thread, printed, ideal>>

apic_handler == TimerCounts \/ TimerBlinks

Thread ==
  \/ \E ch \in Text : Output(ch)
  \/ DoPut \/ DoMove \/ DoMemory
  \/ Select \/ ReadHigh \/ ReadLow \/ WriteHigh \/ WriteLow

Next == Thread \/ apic_handler

Spec == Init /\ [][Next]_vars

-----------------------------------------------------------------------------
(* Properties *)

TypeOK ==
  /\ index \in {"high", "low"}
  /\ {high, low, high_byte} \subseteq 0 .. Byte - 1
  /\ DOMAIN cells = 0 .. Wide \div 2 - 1
  /\ step \in 0 .. 3
  /\ offset \in 0 .. Wide - 1
  /\ blink_counter \in 0 .. BLINK_INTERVAL

screen == [cells |-> cells, cursor |-> high * Byte + low]

\* apic.c:63, "just set the cursor to the same position again": timer
\* interrupts change nothing about what is printed, and where.
BlinkingIsHarmless == calls = <<>> => screen = ideal

\* A timer interrupt disturbs printing only when it comes between the select of
\* the high byte and its access; anywhere else, between the two bytes of a
\* position, or between a get_cursor and the set_cursor that follows from it,
\* every character still lands where it should.
HarmlessUnlessHit == ~hit => BlinkingIsHarmless

\* What a character does to a terminal whose window has room for it.
Reference(s, ch) ==
  CASE ch = "NL" -> IF s.cursor < Window - MAX_COLS
                    THEN [s EXCEPT !.cursor = (s.cursor \div MAX_COLS + 1) * MAX_COLS]
                    ELSE [cells |-> FirstRowRepeated(s.cells), cursor |-> Window - MAX_COLS]
    [] ch = "BS" -> [cells |-> [s.cells EXCEPT ![s.cursor - 1] = Space], cursor |-> s.cursor - 1]
    [] OTHER     -> [cells |-> [s.cells EXCEPT ![s.cursor] = ch], cursor |-> s.cursor + 1]

HasRoom(s, ch) ==
  CASE ch = "BS" -> s.cursor \in 1 .. Window
    [] OTHER     -> s.cursor < Window

\* kputchar does what a terminal does wherever the window has room: in the three
\* calls of a backspace, the two of a character, the row arithmetic of a newline
\* and the row by row copies of a scroll nothing else is touched and the cursor
\* ends where it should.
PrintsWithinWindow ==
  [][\A ch \in Text : (Output(ch) /\ HasRoom(ideal, ch)) => ideal' = Reference(ideal, ch)]_vars

\* The cursor leaves the window only from its ends: by whatever follows a full
\* window (vga.c:24 does not take that for the last row, :39 uses the offset read
\* before the scroll) or by a backspace at its start (:31 wraps at 16 bits).  Once
\* it has, what is printed is lost: the window neither shows it nor scrolls,
\* until a backspace steps back to its end: the blank it writes finds the window
\* full (:37) and scrolls it.
LostBehindEnds ==
  [][/\ (ideal.cursor <= Window /\ ideal'.cursor > Window) => ideal.cursor \in {0, Window}
     /\ (ideal.cursor > Window /\ \E i \in 0 .. Window - 1 : ideal'.cells[i] # ideal.cells[i])
          => ideal.cursor = Window + 1]_vars
=============================================================================
