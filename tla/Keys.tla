-------------------------------- MODULE Keys --------------------------------
(***************************************************************************)
(* What a scan code means: the two tables of cpu/cpu.c, and the modifiers  *)
(* that getch_handler and kscan_handler of cpu/kprintf.c share.  A char is *)
(* written as a string; the char 65, say, is "A".                          *)
(***************************************************************************)
EXTENDS KeyboardIrq

VARIABLES shift, capslock, ctrl, alt

modifiers == <<shift, capslock, ctrl, alt>>

\* include/in/keys.h
KEY_ESC == 1
KEY_1 == 2
KEY_BACKSPACE == 14
KEY_TAB == 15
KEY_Q == 16
KEY_ENTER == 28
KEY_LCTRL == 29
KEY_A == 30
KEY_LSHIFT == 42
KEY_BACKSLASH == 43
KEY_RSHIFT == 54
KEY_LALT == 56
KEY_SPACE == 57
KEY_CAPS_LOCK == 58
KEY_F1 == 59
KEY_UP == 72
KEY_LEFT == 75
KEY_RIGHT == 77
KEY_DOWN == 80
KEY_F11 == 133
KEY_F12 == 134

NUL == ""

\* The keys numbered from first on stand for these chars.
Row(first, chars) == [key \in first .. first + Len(chars) - 1 |-> chars[key - first + 1]]

Table(rows) ==
  [key \in UNION {DOMAIN row : row \in rows} |-> (CHOOSE row \in rows : key \in DOMAIN row)[key]]

Lookup(table, scancode) == IF scancode \in DOMAIN table THEN table[scancode] ELSE NUL

LowTable == Table({
  Row(KEY_1, <<"1", "2", "3", "4", "5", "6", "7", "8", "9", "0", "-", "=">>),
  Row(KEY_Q, <<"q", "w", "e", "r", "t", "y", "u", "i", "o", "p", "[", "]", "NL">>),
  Row(KEY_A, <<"a", "s", "d", "f", "g", "h", "j", "k", "l", ";", "'">>),
  Row(KEY_BACKSLASH, <<"\\", "z", "x", "c", "v", "b", "n", "m", ",", ".", "/">>),
  Row(KEY_SPACE, <<" ">>)})

HighTable == Table({
  Row(KEY_1, <<"!", "@", "#", "$", "%", "^", "&", "*", "(", ")", "_", "+">>),
  Row(KEY_Q, <<"Q", "W", "E", "R", "T", "Y", "U", "I", "O", "P", "{", "}">>),
  Row(KEY_A, <<"A", "S", "D", "F", "G", "H", "J", "K", "L", ":", "\"">>),
  Row(KEY_BACKSLASH, <<"|", "Z", "X", "C", "V", "B", "N", "M", "<", ">", "?">>),
  Row(KEY_SPACE, <<" ">>)})

get_acsii_low(scancode) == Lookup(LowTable, scancode)
get_acsii_high(scancode) == Lookup(HighTable, scancode)

ShiftedChar(scancode) ==
  IF shift \/ capslock THEN get_acsii_high(scancode) ELSE get_acsii_low(scancode)

ShiftKeys == {KEY_LSHIFT, KEY_RSHIFT}
ModifierKeys == ShiftKeys \cup {KEY_CAPS_LOCK, KEY_LCTRL, KEY_LALT}

KeysInit == shift = FALSE /\ capslock = FALSE /\ ctrl = FALSE /\ alt = FALSE

Pressed(code) == code < Break
Scancode(code) == code % Break

\* Variant: a release is ignored before the modifiers are looked at.
Modifier_PressOnly(code) ==
  /\ Scancode(code) \in ModifierKeys
  /\ shift' = (shift \/ (Scancode(code) \in ShiftKeys /\ Pressed(code)))
  /\ capslock' = IF Scancode(code) = KEY_CAPS_LOCK /\ Pressed(code) THEN ~capslock ELSE capslock
  /\ ctrl' = (ctrl \/ (Scancode(code) = KEY_LCTRL /\ Pressed(code)))
  /\ alt' = (alt \/ (Scancode(code) = KEY_LALT /\ Pressed(code)))

\* The switch both handlers begin with.
Modifier(code) ==
  /\ Scancode(code) \in ModifierKeys
  /\ shift' = IF Scancode(code) \in ShiftKeys THEN Pressed(code) ELSE shift
  /\ capslock' = IF Scancode(code) = KEY_CAPS_LOCK /\ Pressed(code) THEN ~capslock ELSE capslock
  /\ ctrl' = IF Scancode(code) = KEY_LCTRL THEN Pressed(code) ELSE ctrl
  /\ alt' = IF Scancode(code) = KEY_LALT THEN Pressed(code) ELSE alt

-----------------------------------------------------------------------------
(* Properties *)

\* The chars a handler can store.
Values(table) == {table[key] : key \in DOMAIN table}
TableChars == Values(LowTable) \cup Values(HighTable) \cup {NUL}

\* Once every code has been read, the modifiers say which of their keys are down
\* (GETCH_IMPLEMENTATION.md:42, "the state of the modifiers").  It holds as long
\* as only one of the two shift keys is used.
ModifiersTrackKeys ==
  port = <<>> => /\ shift <=> held \cap ShiftKeys # {}
                 /\ ctrl <=> KEY_LCTRL \in held
                 /\ alt <=> KEY_LALT \in held
=============================================================================
