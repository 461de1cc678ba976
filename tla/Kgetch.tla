------------------------------- MODULE Kgetch -------------------------------
(***************************************************************************)
(* kgetch and getch_handler of cpu/kprintf.c under the loop of kernel_main *)
(* (kernel/kernel.c), which calls kgetch until it returns 'q'.  getch_end  *)
(* is not volatile, and nothing in kgetch's wait loop lets the compiler    *)
(* suppose that it changes: a build may test it once and, finding it 0,    *)
(* loop for ever, as the -O2 build of the Makefile does.  Hoists chooses   *)
(* between that build and one that loads getch_end each time round.        *)
(***************************************************************************)
EXTENDS Keys, TLC

CONSTANT Hoists

ASSUME HoistsAssumption == Hoists \in BOOLEAN

VARIABLES
  getch_end,   \* is a char there?
  getch_char,
  pc,          \* where the thread is: "print" (in kernel_main), "register",
               \* "test", "spin" (never to look again), "uninstall", "load", "quit",
               \* "halted"
  returned,    \* what kgetch returned last
  accepted     \* history: the chars getch_handler accepted since kgetch was called

getchVars == <<getch_end, getch_char>>
threadVars == <<pc, returned>>
vars == <<irqVars, modifiers, getchVars, threadVars, accepted>>

Init ==
  /\ IrqInit /\ KeysInit
  /\ getch_end = FALSE /\ getch_char = NUL
  /\ pc = "print" /\ returned = NUL
  /\ accepted = <<>>

\* The keys with a code of their own: 27 for Esc, 59 .. 70 for F1 .. F12, and
\* 72, 80, 75, 77 for the arrows.
SpecialTable ==
  Row(KEY_F1, <<";", "<", "=", ">", "?", "@", "A", "B", "C", "D">>)
  @@ Row(KEY_F11, <<"E", "F">>)
  @@ KEY_ENTER :> "NL" @@ KEY_BACKSPACE :> "BS" @@ KEY_TAB :> "TAB" @@ KEY_ESC :> "ESC"
  @@ KEY_UP :> "H" @@ KEY_DOWN :> "P" @@ KEY_LEFT :> "K" @@ KEY_RIGHT :> "M"

GetchChar(scancode) ==
  IF scancode \in DOMAIN SpecialTable THEN SpecialTable[scancode] ELSE ShiftedChar(scancode)

Accepts(code) ==
  /\ Scancode(code) \notin ModifierKeys
  /\ Pressed(code)
  /\ GetchChar(Scancode(code)) # NUL

\* Variant: the end flag is not set.
Accept_NoEnd(code) ==
  /\ Accepts(code)
  /\ getch_char' = GetchChar(Scancode(code))
  /\ accepted' = Append(accepted, GetchChar(Scancode(code)))
  /\ UNCHANGED <<modifiers, getch_end>>

Accept(code) ==
  /\ Accepts(code)
  /\ getch_char' = GetchChar(Scancode(code))
  /\ getch_end' = TRUE
  /\ accepted' = Append(accepted, GetchChar(Scancode(code)))
  /\ UNCHANGED modifiers

Ignore(code) ==
  /\ Scancode(code) \notin ModifierKeys
  /\ ~Accepts(code)
  /\ UNCHANGED <<modifiers, getchVars, accepted>>

\* Variant: a code is left in the port while a char waits.
getch_handler_EarlyReturn ==
  /\ handler = "getch_handler"
  /\ \/ /\ ~getch_end
        /\ inb
        /\ \/ Modifier(Head(port)) /\ UNCHANGED <<getchVars, accepted>>
           \/ Accept(Head(port))
           \/ Ignore(Head(port))
     \/ /\ getch_end /\ context = "dispatch"
        /\ context' = "eoi"
        /\ UNCHANGED <<hardware, handler, unhandled, modifiers, getchVars, accepted>>
  /\ UNCHANGED threadVars

getch_handler ==
  /\ handler = "getch_handler"
  /\ inb
  /\ \/ Modifier(Head(port)) /\ UNCHANGED <<getchVars, accepted>>
     \/ Accept(Head(port))
     \/ Ignore(Head(port))
  /\ UNCHANGED threadVars

isr_dispatch ==
  \/ Interrupt /\ pc # "halted" /\ UNCHANGED <<modifiers, getchVars, threadVars, accepted>>
  \/ getch_handler
  \/ DispatchUnhandled /\ UNCHANGED <<modifiers, getchVars, threadVars, accepted>>
  \/ EndOfInterrupt /\ UNCHANGED <<modifiers, getchVars, threadVars, accepted>>

-----------------------------------------------------------------------------
(* The thread *)

At(here) == context = "thread" /\ pc = here

\* Variant: the other handler of the file is registered.
Register_Kscan ==
  /\ At("register")
  /\ idt_register_handler("kscan_handler")
  /\ pc' = "test"
  /\ UNCHANGED <<hardware, context, unhandled, modifiers, getchVars, returned, accepted>>

\* Variant: getch_end is left as it was.
Reset_KeepsEnd ==
  /\ At("print")
  /\ getch_char' = NUL
  /\ accepted' = <<>>
  /\ pc' = "register"
  /\ UNCHANGED <<irqVars, modifiers, getch_end, returned>>

Reset ==
  /\ At("print")
  /\ getch_end' = FALSE /\ getch_char' = NUL
  /\ accepted' = <<>>
  /\ pc' = "register"
  /\ UNCHANGED <<irqVars, modifiers, returned>>

Register ==
  /\ At("register")
  /\ idt_register_handler("getch_handler")
  /\ pc' = "test"
  /\ UNCHANGED <<hardware, context, unhandled, modifiers, getchVars, returned, accepted>>

\* while (!getch_end)
Test ==
  /\ At("test")
  /\ pc' = IF getch_end THEN "uninstall" ELSE IF Hoists THEN "spin" ELSE "test"
  /\ UNCHANGED <<irqVars, modifiers, getchVars, returned, accepted>>

Uninstall ==
  /\ At("uninstall")
  /\ idt_uninstall_handler
  /\ pc' = "load"
  /\ UNCHANGED <<hardware, context, unhandled, modifiers, getchVars, returned, accepted>>

\* kgetch returns; kernel_main echoes the char, or ends when it is 'q'.
Load ==
  /\ At("load")
  /\ returned' = getch_char
  /\ pc' = IF getch_char = "q" THEN "quit" ELSE "print"
  /\ UNCHANGED <<irqVars, modifiers, getchVars, accepted>>

\* kernel_main returns into boot.asm: cli, and hlt for ever.
Halt ==
  /\ At("quit")
  /\ pc' = "halted"
  /\ UNCHANGED <<irqVars, modifiers, getchVars, returned, accepted>>

kgetch == Reset \/ Register \/ Test \/ Uninstall \/ Load

kernel_main == kgetch \/ Halt

Next ==
  \/ Keyboard /\ UNCHANGED <<modifiers, getchVars, threadVars, accepted>>
  \/ isr_dispatch
  \/ kernel_main

Spec == Init /\ [][Next]_vars

\* The CPU executes: the interrupt it is in, one that is requested, the thread.
FairSpec == Spec /\ WF_vars(isr_dispatch) /\ WF_vars(kernel_main)

-----------------------------------------------------------------------------
(* Properties *)

GetchChars == TableChars \cup Values(SpecialTable)

TypeOK ==
  /\ IrqTypeOK
  /\ handler \in {NULL, "getch_handler"}
  /\ {shift, capslock, ctrl, alt, getch_end} \subseteq BOOLEAN
  /\ pc \in {"print", "register", "test", "spin", "uninstall", "load", "quit", "halted"}
  /\ {getch_char, returned} \subseteq GetchChars
  /\ accepted \in Seq(GetchChars)

\* What kgetch returns is the last char accepted since this call began, and
\* there was one: never the char of an earlier call, nor the 0 of the reset,
\* whatever keys are handled between the test, the uninstall and the load.
ReturnsKeyOfThisCall ==
  [][pc = "load" /\ pc' # pc => accepted # <<>> /\ returned' = accepted[Len(accepted)]]_vars

\* GETCH_IMPLEMENTATION.md:34, "waits for a key (until getch_end = 1)": the
\* call returns once getch_handler has accepted a char.
AcceptedKeyEndsCall == pc \in {"test", "spin"} /\ accepted # <<>> ~> pc \in {"print", "quit", "halted"}

\* GETCH_IMPLEMENTATION.md:87, "a blocking call (waits for a key to be
\* pressed)": a press that is to be accepted ends the wait.
PressEndsCall ==
  (pc = "test" /\ \E i \in 1 .. Len(port) : Pressed(port[i]) /\ GetchChar(port[i]) # NUL)
    ~> pc \in {"print", "quit", "halted"}
=============================================================================
