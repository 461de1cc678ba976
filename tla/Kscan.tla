------------------------------- MODULE Kscan -------------------------------
(***************************************************************************)
(* kscan and kscan_handler of cpu/kprintf.c: a thread that waits for Enter *)
(* and an interrupt handler that edits kscan_buf and draws it.  enter is   *)
(* not volatile either, but the wait loop calls idt_register_handler,      *)
(* which the compiler cannot see into, so it is loaded each time round.    *)
(* The handler draws with interrupts disabled: kputchar is atomic in it.   *)
(***************************************************************************)
EXTENDS Keys, Terminal

CONSTANTS
  BufSize,    \* the chars of kscan_buf, 512
  PromptLen,  \* the length of what kscan prints before the line
  LabelLen    \* and of what it prints before the result

ASSUME KscanAssumption == BufSize \in Nat \ {0} /\ {PromptLen, LabelLen} \subseteq Nat

Prompt == [i \in 1 .. PromptLen |-> ">"]
Label == [i \in 1 .. LabelLen |-> ":"]

VARIABLES
  kscan_buf, kscan_pos, enter,
  screen,
  pc,      \* where the thread is: "begin", "while", "register", "if", "uninstall", "result"
  result,  \* the line kscan stored in its caller's buffer
  origin,  \* history: the cursor behind the prompt
  astray,  \* history: an arrow, a late key or the window's end came between line and screen
  typed,   \* history: the line when Enter was pressed
  late,    \* history: the line was edited after that
  overrun  \* a char went behind the buffer, or the NUL did

editVars == <<kscan_buf, kscan_pos>>
history == <<astray, typed, late>>
vars == <<irqVars, modifiers, editVars, enter, screen, pc, result, origin, history, overrun>>

Init ==
  /\ IrqInit /\ KeysInit
  /\ kscan_buf = [i \in 0 .. BufSize - 1 |-> NUL] /\ kscan_pos = 0
  /\ enter = FALSE
  /\ screen = kclear(PowerOn)
  /\ pc = "begin" /\ result = <<>> /\ origin = 0
  /\ astray = FALSE /\ typed = <<>> /\ late = FALSE /\ overrun = FALSE

-----------------------------------------------------------------------------
(* The buffer, a string that ends at its first NUL *)

strlen(buf) == CHOOSE n \in DOMAIN buf : buf[n] = NUL /\ \A i \in 0 .. n - 1 : buf[i] # NUL
Line(buf) == [i \in 1 .. strlen(buf) |-> buf[i - 1]]

\* Variant: the chars are shifted one short of the end.
strins_Short(buf, ch, at) ==
  LET len == strlen(buf)
      pos == IF at > len THEN len ELSE at
  IN  [i \in DOMAIN buf |->
         IF i = pos THEN ch
         ELSE IF i = len + 1 THEN NUL
         ELSE IF pos < i /\ i < len THEN buf[i - 1] ELSE buf[i]]

strins(buf, ch, at) ==
  LET len == strlen(buf)
      pos == IF at > len THEN len ELSE at
  IN  [i \in DOMAIN buf |->
         IF i = pos THEN ch
         ELSE IF i = len + 1 THEN NUL
         ELSE IF pos < i /\ i <= len THEN buf[i - 1] ELSE buf[i]]

\* memmove(&buf[at-1], &buf[at], len - at + 1), then the terminator.
Erased(buf, at) ==
  LET len == strlen(buf)
  IN  [i \in DOMAIN buf |->
         IF i = len - 1 THEN NUL
         ELSE IF at - 1 <= i /\ i < len THEN buf[i + 1] ELSE buf[i]]

\* strnone clears the first char; strlen is 0 from then on and the loop ends.
strnone(buf) == [buf EXCEPT ![0] = NUL]

-----------------------------------------------------------------------------
(* For the history: does the window have room for str? *)

Fits(str) == screen.cursor + Len(str) < Window

-----------------------------------------------------------------------------
(* kscan_handler, once the code is read *)

Edited == typed' = typed /\ late' = (late \/ enter) /\ UNCHANGED <<enter, origin>>

\* Variant: the start of the line is no limit.
ArrowLeft_NoCheck ==
  /\ kscan_pos' = kscan_pos - 1
  /\ astray' = TRUE
  /\ UNCHANGED <<kscan_buf, screen>>

ArrowLeft ==
  /\ kscan_pos > 0
  /\ kscan_pos' = kscan_pos - 1
  /\ astray' = TRUE
  /\ UNCHANGED <<kscan_buf, screen>>

ArrowRight ==
  /\ kscan_pos < strlen(kscan_buf)
  /\ kscan_pos' = kscan_pos + 1
  /\ astray' = TRUE
  /\ UNCHANGED <<kscan_buf, screen>>

\* Variant: the line is drawn from where the shortened one would begin.
Redraw_NewLength(buf, len, at) ==
  LET start == get_cursor(screen) - (len - 1) * 2
      text  == [i \in 1 .. len |-> buf[i - 1]] \o <<Space>>
  IN  set_cursor(kprint(set_cursor(screen, start), text), start + at * 2)

\* The line is drawn len characters before the cursor; its last is the NUL.
Redraw(buf, len, at) ==
  LET start == get_cursor(screen) - len * 2
      text  == [i \in 1 .. len |-> buf[i - 1]] \o <<Space>>
  IN  set_cursor(kprint(set_cursor(screen, start), text), start + at * 2)

BackspaceKey ==
  /\ kscan_pos > 0
  /\ kscan_buf' = Erased(kscan_buf, kscan_pos)
  /\ kscan_pos' = kscan_pos - 1
  /\ screen' = Redraw(kscan_buf', strlen(kscan_buf), kscan_pos')
  /\ UNCHANGED astray

\* There is room in kscan_buf for one more char before the NUL.
HasRoom == strlen(kscan_buf) + 1 < BufSize

CharKey(ch) ==
  /\ ch # NUL /\ HasRoom
  /\ kscan_buf' = strins(kscan_buf, ch, kscan_pos)
  /\ screen' = kputchar(screen, ch)
  /\ kscan_pos' = kscan_pos + 1
  /\ astray' = (astray \/ ~InWindow(screen'))

TypesChar(scancode) == scancode \notin {KEY_LEFT, KEY_RIGHT, KEY_BACKSPACE, KEY_ENTER}

EditKey(scancode) ==
  \/ scancode = KEY_LEFT /\ ArrowLeft
  \/ scancode = KEY_RIGHT /\ ArrowRight
  \/ scancode = KEY_BACKSPACE /\ BackspaceKey
  \/ TypesChar(scancode) /\ CharKey(ShiftedChar(scancode))

\* Nothing asks for room: the NUL goes behind kscan_buf, into the variables that
\* the linker has put there.  What follows is undefined, and the behaviour ends.
CharOverruns(ch) ==
  /\ ch # NUL /\ ~HasRoom
  /\ overrun' = TRUE
  /\ UNCHANGED <<editVars, enter, screen, origin, history>>

EnterKey ==
  /\ screen' = kputchar(screen, "NL")
  /\ enter' = TRUE
  /\ kscan_pos' = 0
  /\ typed' = IF enter THEN typed ELSE Line(kscan_buf)
  /\ UNCHANGED <<kscan_buf, origin, astray, late>>

\* A release, an arrow or a backspace with nowhere to go, a key without a char.
NoEffect(code) ==
  \/ ~Pressed(code)
  \/ Scancode(code) \in {KEY_LEFT, KEY_BACKSPACE} /\ kscan_pos = 0
  \/ Scancode(code) = KEY_RIGHT /\ kscan_pos = strlen(kscan_buf)
  \/ TypesChar(Scancode(code)) /\ ShiftedChar(Scancode(code)) = NUL

EditState == <<editVars, enter, screen, origin, history, overrun>>

PlainKey(code) ==
  /\ Scancode(code) \notin ModifierKeys
  /\ \/ Pressed(code) /\ EditKey(Scancode(code)) /\ Edited /\ UNCHANGED overrun
     \/ Pressed(code) /\ TypesChar(Scancode(code)) /\ CharOverruns(ShiftedChar(Scancode(code)))
     \/ Pressed(code) /\ Scancode(code) = KEY_ENTER /\ EnterKey /\ UNCHANGED overrun
     \/ NoEffect(code) /\ UNCHANGED EditState
  /\ UNCHANGED modifiers

kscan_handler ==
  /\ handler = "kscan_handler"
  /\ inb
  /\ \/ Modifier(Head(port)) /\ UNCHANGED EditState
     \/ PlainKey(Head(port))
  /\ UNCHANGED <<pc, result>>

isr_dispatch ==
  \/ kscan_handler
  \/ Interrupt /\ UNCHANGED <<modifiers, EditState, pc, result>>
  \/ DispatchUnhandled /\ UNCHANGED <<modifiers, EditState, pc, result>>
  \/ EndOfInterrupt /\ UNCHANGED <<modifiers, EditState, pc, result>>

-----------------------------------------------------------------------------
(* The thread *)

At(here) == context = "thread" /\ pc = here

Begin ==
  /\ At("begin")
  /\ enter' = FALSE
  /\ screen' = kprint(screen, Prompt) /\ origin' = screen'.cursor
  /\ kscan_pos' = 0
  /\ kscan_buf' = strnone(kscan_buf)
  /\ astray' = ((astray \/ late \/ ~Fits(Prompt)) /\ ~Clear(screen'))
  /\ typed' = <<>> /\ late' = FALSE
  /\ pc' = "while"
  /\ UNCHANGED <<irqVars, modifiers, result, overrun>>

\* Variant: enter is reset each time round.
While_Resets ==
  /\ At("while")
  /\ enter' = FALSE
  /\ pc' = "register"
  /\ UNCHANGED <<irqVars, modifiers, editVars, screen, origin, history, result, overrun>>

\* while (enter != 1), and the same test inside the loop.
While ==
  /\ At("while")
  /\ pc' = IF enter THEN "uninstall" ELSE "register"
  /\ UNCHANGED <<irqVars, modifiers, EditState, result>>

Register ==
  /\ At("register")
  /\ idt_register_handler("kscan_handler")
  /\ pc' = "if"
  /\ UNCHANGED <<hardware, context, unhandled, modifiers, EditState, result>>

If ==
  /\ At("if")
  /\ pc' = IF enter THEN "uninstall" ELSE "while"
  /\ UNCHANGED <<irqVars, modifiers, EditState, result>>

Uninstall ==
  /\ At("uninstall")
  /\ idt_uninstall_handler
  /\ pc' = "result"
  /\ UNCHANGED <<hardware, context, unhandled, modifiers, EditState, result>>

\* Variant: the chars before kscan_pos are copied.
Result_UpToPos ==
  /\ At("result")
  /\ screen' = kprint(screen, Label \o Line(kscan_buf) \o <<"NL">>)
  /\ result' = SubSeq(Line(kscan_buf), 1, kscan_pos)
  /\ pc' = "begin"
  /\ UNCHANGED <<irqVars, modifiers, editVars, enter, origin, history, overrun>>

\* kprintf("You typed: %s\n"), strncpy and the terminator.
Result ==
  /\ At("result")
  /\ screen' = kprint(screen, Label \o Line(kscan_buf) \o <<"NL">>)
  /\ result' = Line(kscan_buf)
  /\ astray' = (astray \/ ~Fits(Label \o Line(kscan_buf)))
  /\ pc' = "begin"
  /\ UNCHANGED <<irqVars, modifiers, editVars, enter, origin, typed, late, overrun>>

kscan == Begin \/ While \/ Register \/ If \/ Uninstall \/ Result

Next ==
  /\ ~overrun
  /\ \/ Keyboard /\ UNCHANGED <<modifiers, EditState, pc, result>>
     \/ isr_dispatch
     \/ kscan

Spec == Init /\ [][Next]_vars

FairSpec == Spec /\ WF_vars(~overrun /\ isr_dispatch) /\ WF_vars(~overrun /\ kscan)

-----------------------------------------------------------------------------
(* Properties *)

\* Types: among them that the string in kscan_buf ends inside the buffer, at
\* kscan_pos or behind it.
TypeOK ==
  /\ IrqTypeOK
  /\ handler \in {NULL, "kscan_handler"}
  /\ kscan_buf \in [0 .. BufSize - 1 -> TableChars]
  /\ \E i \in DOMAIN kscan_buf : kscan_buf[i] = NUL
  /\ kscan_pos \in 0 .. strlen(kscan_buf)
  /\ {enter, astray, late, overrun} \subseteq BOOLEAN
  /\ pc \in {"begin", "while", "register", "if", "uninstall", "result"}

\* The index arithmetic of strins, memmove and the arrows on kscan_buf and
\* kscan_pos is that of an editor with a text before and one behind its
\* cursor, across Enter, keys that come after it, and the next call.
Editor == INSTANCE LineEditor WITH
  EditorChars <- TableChars \ {NUL},
  left <- SubSeq(Line(kscan_buf), 1, kscan_pos),
  right <- SubSeq(Line(kscan_buf), kscan_pos + 1, strlen(kscan_buf))
ImplementsEditor == Editor!Spec

\* kscan returns the line as it was when Enter was pressed, unless a key was
\* handled between that interrupt and the uninstall.
ReturnsTypedLine == [][pc = "result" /\ pc' # pc => result' = typed \/ late]_vars

\* Enter ends the call: the wait loop sees the handler's store.
EnterEndsCall == enter /\ pc # "begin" ~> pc = "begin" \/ overrun

\* What is drawn is the line, behind the prompt, with the cursor behind kscan_pos.
Shown ==
  LET at == origin + strlen(kscan_buf)
  IN  /\ \A i \in 1 .. strlen(kscan_buf) : screen.cells[origin + i - 1] = Line(kscan_buf)[i]
      /\ screen.cells[at] \in {Space, Blank}
      /\ screen.cursor = origin + kscan_pos

Editing == pc \in {"while", "register", "if"} /\ ~enter

\* The screen shows the line being edited, in every call, from the first one on
\* until an arrow key is used (the cursor does not follow kscan_pos), a key comes
\* between Enter and the next call, or something is printed up to the window's end;
\* and again once a call begins on a window that is clear behind its prompt.
ShownUnlessAstray == Editing /\ ~astray => Shown
=============================================================================
