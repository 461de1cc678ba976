----------------------------- MODULE BootProofs -----------------------------
(***************************************************************************)
(* Properties of Kgetch for every set of keys, any number of events and    *)
(* both kinds of build: the keyboard falls silent only after a dispatch    *)
(* without a handler, and kgetch returns a char accepted in its own call.  *)
(* Properties of the boot into its loop for every page below 4 GiB, every  *)
(* address of the TSS and of the stubs, and whatever masks the firmware    *)
(* left.                                                                   *)
(***************************************************************************)
EXTENDS Boot, TLAPS

-----------------------------------------------------------------------------
(* The interrupt path *)

\* Every request of IRQ 1 goes with a code that waits, and so does every
\* dispatch until its handler has read the port.
Requests ==
  /\ port \in Seq(0 .. 255)
  /\ irr => port # <<>>
  /\ context = "dispatch" => port # <<>> /\ ~irr
  /\ context \in {"thread", "dispatch", "eoi"}
  /\ irr \in BOOLEAN /\ unhandled \in BOOLEAN

IrqInv == Requests /\ DeafOnlyUnhandled

LEMMA IrqInvInit == Init => IrqInv
<1> SUFFICES ASSUME Init PROVE IrqInv
  OBVIOUS
<1>1. port = <<>> /\ irr = FALSE /\ context = "thread" /\ unhandled = FALSE
  BY DEF Init, IrqInit
<1>2. port \in Seq(0 .. 255)
  BY <1>1
<1> QED BY <1>1, <1>2 DEF IrqInv, Requests, DeafOnlyUnhandled, Deaf

LEMMA IrqInvKeyboard == IrqInv /\ Keyboard => IrqInv'
<1> SUFFICES ASSUME IrqInv, NEW key \in KeysTyped, Press(key) \/ Release(key)
             PROVE  IrqInv'
  BY DEF Keyboard
<1>1. PICK code \in 0 .. 255 : Present(code)
  <2>1. CASE Press(key)
    BY <2>1, IrqAssumption DEF Press
  <2>2. CASE Release(key)
    <3>1. key + Break \in 0 .. 255
      BY <2>2, IrqAssumption DEF Release, Break
    <3> QED BY <2>2, <3>1 DEF Release
  <2> QED BY <2>1, <2>2
<1>2. port' \in Seq(0 .. 255) /\ port' # <<>>
  BY <1>1 DEF Present, IrqInv, Requests
<1>3. IrqInv'
  BY <1>1, <1>2 DEF Present, IrqInv, Requests, DeafOnlyUnhandled, Deaf
<1> QED BY <1>3

LEMMA IrqInvInb == IrqInv /\ inb => IrqInv'
<1> SUFFICES ASSUME IrqInv, inb PROVE IrqInv'
  OBVIOUS
<1>1. port \in Seq(0 .. 255) /\ port # <<>> /\ port' = Tail(port)
  BY DEF IrqInv, Requests, inb
<1>2. port' \in Seq(0 .. 255)
  BY <1>1
<1>3. context' = "eoi" /\ UNCHANGED unhandled /\ irr' = (irr \/ Tail(port) # <<>>)
  BY DEF inb
<1>4. irr \in BOOLEAN /\ unhandled \in BOOLEAN
  BY DEF IrqInv, Requests
<1>5. CASE port' = <<>>
  <2>1. irr' = FALSE
    BY <1>1, <1>3, <1>5, Zenon DEF IrqInv, Requests, inb
  <2> QED BY <1>2, <1>3, <1>4, <1>5, <2>1 DEF IrqInv, Requests, DeafOnlyUnhandled, Deaf
<1>6. CASE port' # <<>>
  <2>1. irr' = TRUE
    BY <1>1, <1>3, <1>6, Zenon
  <2> QED BY <1>2, <1>3, <1>4, <1>6, <2>1 DEF IrqInv, Requests, DeafOnlyUnhandled, Deaf
<1> QED BY <1>5, <1>6

LEMMA IrqInvDispatch ==
  IrqInv /\ (Interrupt \/ DispatchUnhandled \/ EndOfInterrupt) => IrqInv'
<1> SUFFICES ASSUME IrqInv PROVE Interrupt \/ DispatchUnhandled \/ EndOfInterrupt => IrqInv'
  OBVIOUS
<1>1. Interrupt => IrqInv'
  BY DEF IrqInv, Requests, DeafOnlyUnhandled, Deaf, Interrupt
<1>2. DispatchUnhandled => IrqInv'
  BY DEF IrqInv, Requests, DeafOnlyUnhandled, Deaf, DispatchUnhandled, hardware
<1>3. EndOfInterrupt => IrqInv'
  BY DEF IrqInv, Requests, DeafOnlyUnhandled, Deaf, EndOfInterrupt
<1> QED BY <1>1, <1>2, <1>3

\* The steps of the thread, and those that change nothing here.
LEMMA IrqInvThread ==
  IrqInv /\ UNCHANGED <<port, irr, context, unhandled>> => IrqInv'
BY DEF IrqInv, Requests, DeafOnlyUnhandled, Deaf

LEMMA IrqInvNext == IrqInv /\ [Next]_vars => IrqInv'
<1> SUFFICES ASSUME IrqInv, [Next]_vars PROVE IrqInv'
  OBVIOUS
<1>1. CASE Keyboard
  BY <1>1, IrqInvKeyboard
<1>2. CASE isr_dispatch
  BY <1>2, IrqInvInb, IrqInvDispatch DEF isr_dispatch, getch_handler
<1>3. CASE kernel_main
  BY <1>3, IrqInvThread DEF kernel_main, kgetch, Halt, Reset, Register, Test, Uninstall, Load, irqVars, hardware
<1>4. CASE UNCHANGED vars
  BY <1>4, IrqInvThread DEF vars, irqVars, hardware
<1> QED BY <1>1, <1>2, <1>3, <1>4 DEF Next

\* Whatever is typed and whenever: a handler finds a code in the port, no
\* interrupt is served twice, and codes wait without an interrupt to come only
\* after a dispatch without a handler.
THEOREM KgetchIrqsMatchCodes == Spec => []IrqsMatchCodes
<1>1. IrqInv => IrqsMatchCodes
  BY DEF IrqInv, Requests, HandlerHasCode, IrqsMatchCodes
<1> QED BY IrqInvInit, IrqInvNext, <1>1, PTL DEF Spec

-----------------------------------------------------------------------------
(* The char *)

\* getch_end says that a char was accepted in this call, the last one is in
\* getch_char, and past its loop kgetch has seen getch_end set.
CharInv ==
  /\ accepted \in Seq(GetchChars)
  /\ getch_end \in BOOLEAN
  /\ getch_end => accepted # <<>>
  /\ accepted # <<>> => getch_char = accepted[Len(accepted)]
  /\ pc \in {"uninstall", "load"} => getch_end

LEMMA GetchCharType == \A scancode : GetchChar(scancode) \in GetchChars
BY DEF GetchChar, GetchChars, TableChars, Values, ShiftedChar, get_acsii_high, get_acsii_low,
       Lookup

LEMMA CharInvInit == Init => CharInv
<1> SUFFICES ASSUME Init PROVE CharInv
  OBVIOUS
<1>1. accepted = <<>> /\ getch_end = FALSE /\ pc = "print"
  BY DEF Init
<1>2. accepted \in Seq(GetchChars)
  BY <1>1
<1> QED BY <1>1, <1>2 DEF CharInv

LEMMA CharInvAccept ==
  ASSUME CharInv, NEW code, Accept(code), UNCHANGED threadVars
  PROVE  CharInv'
<1> DEFINE ch == GetchChar(Scancode(code))
<1>1. ch \in GetchChars
  BY GetchCharType
<1>2. accepted \in Seq(GetchChars) /\ accepted' = Append(accepted, ch) /\ getch_char' = ch
  BY DEF CharInv, Accept
<1> HIDE DEF ch
<1>3. /\ accepted' \in Seq(GetchChars)
      /\ accepted' # <<>>
      /\ accepted'[Len(accepted')] = ch
  BY <1>1, <1>2
<1> QED BY <1>2, <1>3 DEF CharInv, Accept

LEMMA CharInvKeeps ==
  CharInv /\ UNCHANGED <<getch_end, getch_char, pc, accepted>> => CharInv'
BY DEF CharInv

LEMMA CharInvNext == CharInv /\ [Next]_vars => CharInv'
<1> SUFFICES ASSUME CharInv, [Next]_vars PROVE CharInv'
  OBVIOUS
<1>1. CASE Keyboard /\ UNCHANGED <<modifiers, getchVars, threadVars, accepted>>
  BY <1>1, CharInvKeeps DEF getchVars, threadVars
<1>2. CASE getch_handler
  BY <1>2, CharInvAccept, CharInvKeeps DEF getch_handler, Ignore, getchVars, threadVars
<1>3. CASE isr_dispatch /\ ~getch_handler
  BY <1>3, CharInvKeeps DEF isr_dispatch, getchVars, threadVars
<1>4. CASE Reset
  <2>1. accepted' = <<>> /\ getch_end' = FALSE /\ pc' = "register"
    BY <1>4 DEF Reset
  <2>2. accepted' \in Seq(GetchChars)
    BY <2>1
  <2> QED BY <2>1, <2>2 DEF CharInv
<1>5. CASE Register \/ Uninstall
  BY <1>5 DEF CharInv, Register, Uninstall, At, getchVars
<1>6. CASE Test
  BY <1>6 DEF CharInv, Test, getchVars
<1>7. CASE Load
  BY <1>7 DEF CharInv, Load, getchVars
<1>8. CASE Halt
  BY <1>8, CharInvKeeps DEF CharInv, Halt, getchVars
<1>9. CASE UNCHANGED vars
  BY <1>9, CharInvKeeps DEF vars, getchVars, threadVars
<1> QED BY <1>1, <1>2, <1>3, <1>4, <1>5, <1>6, <1>7, <1>8, <1>9 DEF Next, kernel_main, kgetch

\* kgetch returns the last char accepted since it was called, and there was one,
\* in builds that load getch_end once and in builds that load it each time.
THEOREM KgetchReturnsOwnKey == Spec => ReturnsKeyOfThisCall
<1>1. CharInv /\ [Next]_vars
        => [pc = "load" /\ pc' # pc
              => accepted # <<>> /\ returned' = accepted[Len(accepted)]]_vars
  <2> SUFFICES ASSUME CharInv, Next, pc = "load", pc' # pc
               PROVE  accepted # <<>> /\ returned' = accepted[Len(accepted)]
    BY DEF vars, threadVars
  <2>1. Load
    BY DEF Next, isr_dispatch, getch_handler, kernel_main, kgetch, Reset, Register, Test, Uninstall,
           Halt, At, threadVars
  <2> QED BY <2>1 DEF Load, CharInv
<1> QED BY CharInvInit, CharInvNext, <1>1, PTL DEF Spec, ReturnsKeyOfThisCall

-----------------------------------------------------------------------------
(* Types *)

LEMMA TypeInit == Init => TypeOK
<1> SUFFICES ASSUME Init PROVE TypeOK
  OBVIOUS
<1>1. port = <<>> /\ accepted = <<>> /\ NUL \in GetchChars
  BY DEF Init, IrqInit, GetchChars, TableChars
<1>2. port \in Seq(0 .. 255) /\ accepted \in Seq(GetchChars)
  BY <1>1
<1>3. IrqTypeOK
  <2>1. {irr, inService, unhandled} \subseteq BOOLEAN
    BY Zenon DEF Init, IrqInit
  <2>2. events \in 0 .. MaxEvents
    BY IrqAssumption, SMT DEF Init, IrqInit
  <2> QED BY <1>2, <2>1, <2>2 DEF Init, IrqInit, IrqTypeOK
<1> QED BY <1>1, <1>2, <1>3 DEF Init, IrqInit, KeysInit, TypeOK, NULL

LEMMA TypeKeyboard ==
  TypeOK /\ Keyboard /\ UNCHANGED <<modifiers, getchVars, threadVars, accepted>> => TypeOK'
<1> SUFFICES ASSUME TypeOK, UNCHANGED <<modifiers, getchVars, threadVars, accepted>>,
                    NEW key \in KeysTyped, Press(key) \/ Release(key)
             PROVE  TypeOK'
  BY DEF Keyboard
<1>1. PICK code \in 0 .. 255 : Present(code)
  BY IrqAssumption DEF Press, Release, Break
<1>2. port' \in Seq(0 .. 255) /\ events' \in 0 .. MaxEvents /\ irr' \in BOOLEAN
  BY <1>1, IrqAssumption DEF Present, TypeOK, IrqTypeOK
<1>3. held' \subseteq KeysTyped
  BY DEF Press, Release, TypeOK, IrqTypeOK
<1> QED BY <1>1, <1>2, <1>3 DEF Present, TypeOK, IrqTypeOK, modifiers, getchVars, threadVars

LEMMA TypeHandler == TypeOK /\ getch_handler => TypeOK'
<1> SUFFICES ASSUME TypeOK, getch_handler PROVE TypeOK'
  OBVIOUS
<1> DEFINE code == Head(port)
<1>1. inb /\ UNCHANGED threadVars /\ IrqTypeOK
  BY DEF getch_handler, TypeOK
<1>2. IrqTypeOK' /\ handler' = handler
  <2>1. port' \in Seq(0 .. 255) /\ (Tail(port) # <<>>) \in BOOLEAN
    BY <1>1 DEF inb, IrqTypeOK
  <2> QED BY <1>1, <2>1 DEF inb, IrqTypeOK
<1>3. ASSUME Modifier(code), UNCHANGED <<getchVars, accepted>> PROVE TypeOK'
  <2>1. Pressed(code) \in BOOLEAN /\ shift \in BOOLEAN /\ ctrl \in BOOLEAN /\ alt \in BOOLEAN
    BY DEF Pressed, TypeOK
  <2>2. shift' \in BOOLEAN /\ ctrl' \in BOOLEAN /\ alt' \in BOOLEAN
    BY <1>3, <2>1, Zenon DEF Modifier
  <2>3. capslock' \in BOOLEAN
    BY <1>3, Zenon DEF Modifier, TypeOK
  <2> QED BY <1>1, <1>2, <1>3, <2>2, <2>3 DEF TypeOK, getchVars, threadVars
<1>4. ASSUME Accept(code) PROVE TypeOK'
  <2>1. GetchChar(Scancode(code)) \in GetchChars
    BY GetchCharType
  <2>2. accepted' \in Seq(GetchChars) /\ getch_char' \in GetchChars /\ getch_end' = TRUE
    BY <1>4, <2>1 DEF Accept, TypeOK
  <2> QED BY <1>1, <1>2, <1>4, <2>2 DEF Accept, TypeOK, modifiers, threadVars
<1>5. ASSUME Ignore(code) PROVE TypeOK'
  BY <1>1, <1>2, <1>5 DEF Ignore, TypeOK, modifiers, getchVars, threadVars
<1> QED BY <1>3, <1>4, <1>5 DEF getch_handler

LEMMA TypeNext == TypeOK /\ [Next]_vars => TypeOK'
<1> SUFFICES ASSUME TypeOK, [Next]_vars PROVE TypeOK'
  OBVIOUS
<1>1. CASE Keyboard /\ UNCHANGED <<modifiers, getchVars, threadVars, accepted>>
  BY <1>1, TypeKeyboard
<1>2. CASE isr_dispatch
  <2>1. CASE getch_handler
    BY <2>1, TypeHandler
  <2>2. CASE Interrupt \/ DispatchUnhandled \/ EndOfInterrupt
    <3>1. IrqTypeOK' /\ handler' = handler
      BY <2>2 DEF Interrupt, DispatchUnhandled, EndOfInterrupt, hardware, TypeOK, IrqTypeOK
    <3>2. UNCHANGED <<modifiers, getchVars, threadVars, accepted>> \/ getch_handler
      BY <1>2, Zenon DEF isr_dispatch
    <3> QED BY <2>1, <3>1, <3>2 DEF TypeOK, modifiers, getchVars, threadVars
  <2> QED BY <1>2, <2>1, <2>2 DEF isr_dispatch
<1>3. CASE Reset
  <2>1. accepted' \in Seq(GetchChars) /\ getch_char' \in GetchChars /\ getch_end' = FALSE
    BY <1>3 DEF Reset, GetchChars, TableChars
  <2>2. IrqTypeOK'
    BY <1>3 DEF Reset, TypeOK, IrqTypeOK, irqVars, hardware
  <2> QED BY <1>3, <2>1, <2>2 DEF Reset, TypeOK, irqVars, modifiers
<1>4. CASE Register \/ Uninstall
  <2>1. handler' \in {NULL, "getch_handler"} /\ pc' \in {"test", "load"}
    BY <1>4, Zenon DEF Register, Uninstall, idt_register_handler, idt_uninstall_handler
  <2>2. IrqTypeOK'
    BY <1>4 DEF Register, Uninstall, TypeOK, IrqTypeOK, hardware
  <2> QED BY <1>4, <2>1, <2>2 DEF Register, Uninstall, TypeOK, modifiers, getchVars
<1>5. CASE Test \/ Load \/ Halt
  <2>1. pc' \in {"print", "test", "spin", "uninstall", "quit", "halted"} /\ returned' \in GetchChars
    BY <1>5 DEF Test, Load, Halt, TypeOK
  <2>2. IrqTypeOK'
    BY <1>5 DEF Test, Load, Halt, TypeOK, IrqTypeOK, irqVars, hardware
  <2> QED BY <1>5, <2>1, <2>2 DEF Test, Load, Halt, TypeOK, irqVars, modifiers, getchVars
<1>6. CASE UNCHANGED vars
  BY <1>6 DEF vars, TypeOK, IrqTypeOK, irqVars, hardware, modifiers, getchVars, threadVars
<1> QED BY <1>1, <1>2, <1>3, <1>4, <1>5, <1>6 DEF Next, kernel_main, kgetch

\* The variables stay within their types for every set of keys.
THEOREM KgetchTypes == Spec => []TypeOK
BY TypeInit, TypeNext, PTL DEF Spec

-----------------------------------------------------------------------------
(* The modifiers *)

\* What the codes that wait say of a key, the last of them counting, agrees with
\* whether it is down; where none waits, the variable does.
Tracks(key, variable) ==
  /\ \A i \in 1 .. Len(port) :
       /\ Scancode(port[i]) = key
       /\ \A k \in i + 1 .. Len(port) : Scancode(port[k]) # key
       => (Pressed(port[i]) <=> key \in held)
  /\ (\A i \in 1 .. Len(port) : Scancode(port[i]) # key) => (variable <=> key \in held)

\* The codes are those of keys that are typed.
OwnCodes == port \in Seq(0 .. 255) /\ \A i \in 1 .. Len(port) : Scancode(port[i]) \in KeysTyped

LEMMA CodeOfKey ==
  ASSUME NEW key \in 0 .. 127
  PROVE  /\ Scancode(key) = key /\ Pressed(key) /\ key \in 0 .. 255
         /\ Scancode(key + Break) = key /\ ~Pressed(key + Break) /\ key + Break \in 0 .. 255
BY SMT DEF Scancode, Pressed, Break

\* A press or a release appends a code that says so.
LEMMA TracksKeyboard ==
  ASSUME KeysTyped \subseteq 0 .. 127, OwnCodes, Keyboard
  PROVE  /\ OwnCodes'
         /\ \A key, variable : Tracks(key, variable) => Tracks(key, variable)'
<1>1. PICK k \in KeysTyped, code \in 0 .. 255 :
        /\ Present(code) /\ Scancode(code) = k
        /\ \/ Pressed(code) /\ held' = held \cup {k}
           \/ ~Pressed(code) /\ held' = held \ {k}
  BY CodeOfKey DEF Keyboard, Press, Release
<1>2. /\ port \in Seq(0 .. 255) /\ port' = Append(port, code)
      /\ Len(port) \in Nat /\ Len(port') = Len(port) + 1
      /\ port' \in Seq(0 .. 255)
      /\ \A i \in 1 .. Len(port) : port'[i] = port[i]
      /\ port'[Len(port) + 1] = code
  BY <1>1 DEF Present, OwnCodes
<1>3. OwnCodes'
  BY <1>1, <1>2 DEF OwnCodes
<1>4. ASSUME NEW key, NEW variable, Tracks(key, variable)
      PROVE  Tracks(key, variable)'
  <2>1. CASE key = k
    <3>1. ~(\A i \in 1 .. Len(port') : Scancode(port'[i]) # key)
      BY <1>1, <1>2, <2>1
    <3>2. ASSUME NEW i \in 1 .. Len(port'), \A j \in i + 1 .. Len(port') : Scancode(port'[j]) # key
          PROVE  i = Len(port) + 1
      BY <1>1, <1>2, <2>1, <3>2
    <3> QED BY <1>1, <1>2, <2>1, <3>1, <3>2 DEF Tracks
  <2>2. CASE key # k
    <3>1. key \in held' <=> key \in held
      BY <1>1, <2>2
    <3> QED BY <1>1, <1>2, <1>4, <2>2, <3>1 DEF Tracks
  <2> QED BY <2>1, <2>2
<1> QED BY <1>3, <1>4

\* A handler reads the first code, and does to the variable what it says.
LEMMA TracksRead ==
  ASSUME OwnCodes, inb, NEW key, NEW before, NEW after, Tracks(key, before),
         Scancode(Head(port)) = key => (after <=> Pressed(Head(port))),
         Scancode(Head(port)) # key => (after <=> before)
  PROVE  OwnCodes' /\ Tracks(key, after)'
<1>1. port # <<>> /\ port' = Tail(port) /\ port \in Seq(0 .. 255) /\ held' = held
  BY DEF inb, OwnCodes
<1>2. /\ Len(port) \in Nat /\ Len(port) > 0 /\ Len(port') = Len(port) - 1 /\ port' \in Seq(0 .. 255)
      /\ Head(port) = port[1] /\ \A i \in 1 .. Len(port') : port'[i] = port[i + 1]
  BY <1>1
<1>3. OwnCodes'
  BY <1>1, <1>2 DEF OwnCodes
<1>4. ASSUME NEW i \in 1 .. Len(port'), Scancode(port'[i]) = key,
             \A k \in i + 1 .. Len(port') : Scancode(port'[k]) # key
      PROVE  Pressed(port'[i]) <=> key \in held'
  <2>1. i + 1 \in 1 .. Len(port) /\ port'[i] = port[i + 1]
    BY <1>2
  <2>2. ASSUME NEW k \in i + 2 .. Len(port) PROVE Scancode(port[k]) # key
    <3>1. k - 1 \in i + 1 .. Len(port') /\ port'[k - 1] = port[k]
      BY <1>2, <2>2
    <3> QED BY <1>4, <3>1
  <2> QED BY <1>1, <1>4, <2>1, <2>2 DEF Tracks
<1>5. ASSUME \A i \in 1 .. Len(port') : Scancode(port'[i]) # key
      PROVE  after <=> key \in held'
  <2>1. ASSUME NEW k \in 2 .. Len(port) PROVE Scancode(port[k]) # key
    <3>1. k - 1 \in 1 .. Len(port') /\ port'[k - 1] = port[k]
      BY <1>2, <2>1
    <3> QED BY <1>5, <3>1
  <2>2. CASE Scancode(Head(port)) = key
    <3>1. Pressed(port[1]) <=> key \in held
      BY <1>2, <2>1, <2>2 DEF Tracks
    <3> QED BY <1>1, <1>2, <2>2, <3>1
  <2>3. CASE Scancode(Head(port)) # key
    <3>1. \A i \in 1 .. Len(port) : Scancode(port[i]) # key
      BY <1>2, <2>1, <2>3
    <3> QED BY <1>1, <2>3, <3>1 DEF Tracks
  <2> QED BY <2>2, <2>3
<1> QED BY <1>3, <1>4, <1>5 DEF Tracks

LEMMA TracksKeeps ==
  ASSUME NEW key, NEW variable, Tracks(key, variable), UNCHANGED <<port, held>>
  PROVE  Tracks(key, variable)'
BY DEF Tracks

\* Of the two shift keys only the key s is typed.
OneShiftKey(s) ==
  /\ s \in ShiftKeys /\ KeysTyped \cap ShiftKeys \subseteq {s}
  /\ KeysTyped \subseteq 0 .. 127

ModifiersInv(s) ==
  /\ OwnCodes /\ held \subseteq KeysTyped
  /\ Tracks(s, shift) /\ Tracks(KEY_LCTRL, ctrl) /\ Tracks(KEY_LALT, alt)

LEMMA ModifiersInit == ASSUME NEW s PROVE Init => ModifiersInv(s)
<1> SUFFICES ASSUME Init PROVE ModifiersInv(s)
  OBVIOUS
<1>1. port = <<>> /\ held = {} /\ shift = FALSE /\ ctrl = FALSE /\ alt = FALSE
  BY DEF Init, IrqInit, KeysInit
<1>2. port \in Seq(0 .. 255) /\ 1 .. Len(port) = {}
  BY <1>1
<1> QED BY <1>1, <1>2 DEF ModifiersInv, OwnCodes, Tracks

LEMMA ModifiersKeeps ==
  ASSUME NEW s, ModifiersInv(s), UNCHANGED <<port, held, modifiers>>
  PROVE  ModifiersInv(s)'
BY TracksKeeps DEF ModifiersInv, OwnCodes, modifiers

LEMMA ModifiersKeyboard ==
  ASSUME NEW s, OneShiftKey(s), ModifiersInv(s), Keyboard, UNCHANGED modifiers
  PROVE  ModifiersInv(s)'
<1>1. held' \subseteq KeysTyped
  BY DEF Keyboard, Press, Release, ModifiersInv
<1> QED BY <1>1, TracksKeyboard DEF OneShiftKey, ModifiersInv, modifiers

LEMMA ModifiersRead ==
  ASSUME NEW s, OneShiftKey(s), ModifiersInv(s), getch_handler
  PROVE  ModifiersInv(s)'
<1> DEFINE code == Head(port)
<1>1. inb /\ held' = held /\ port # <<>>
  BY DEF getch_handler, inb
<1>2. Scancode(code) \in KeysTyped
  BY <1>1 DEF ModifiersInv, OwnCodes
<1>3. s # KEY_LCTRL /\ s # KEY_LALT /\ {s, KEY_LCTRL, KEY_LALT} \subseteq ModifierKeys
  BY DEF OneShiftKey, ShiftKeys, ModifierKeys, KEY_LSHIFT, KEY_RSHIFT, KEY_LCTRL, KEY_LALT
<1>4. /\ Scancode(code) = s => (shift' <=> Pressed(code))
      /\ Scancode(code) # s => (shift' <=> shift)
      /\ Scancode(code) = KEY_LCTRL => (ctrl' <=> Pressed(code))
      /\ Scancode(code) # KEY_LCTRL => (ctrl' <=> ctrl)
      /\ Scancode(code) = KEY_LALT => (alt' <=> Pressed(code))
      /\ Scancode(code) # KEY_LALT => (alt' <=> alt)
  <2>1. CASE Modifier(code)
    BY <1>2, <2>1, Zenon DEF Modifier, OneShiftKey
  <2>2. CASE Scancode(code) \notin ModifierKeys /\ UNCHANGED modifiers
    BY <1>3, <2>2 DEF modifiers
  <2> QED BY <2>1, <2>2, Zenon DEF getch_handler, Accept, Accepts, Ignore
<1>5. OwnCodes'
  BY <1>1, <1>4, TracksRead DEF ModifiersInv
<1>6. Tracks(s, shift)' /\ Tracks(KEY_LCTRL, ctrl)' /\ Tracks(KEY_LALT, alt)'
  BY <1>1, <1>4, TracksRead DEF ModifiersInv
<1> QED BY <1>1, <1>5, <1>6 DEF ModifiersInv

LEMMA ModifiersNext ==
  ASSUME NEW s, OneShiftKey(s), ModifiersInv(s), [Next]_vars
  PROVE  ModifiersInv(s)'
<1>1. CASE Keyboard /\ UNCHANGED <<modifiers, getchVars, threadVars, accepted>>
  BY <1>1, ModifiersKeyboard
<1>2. CASE getch_handler
  BY <1>2, ModifiersRead
<1>3. CASE isr_dispatch /\ ~getch_handler
  BY <1>3, ModifiersKeeps DEF isr_dispatch, Interrupt, DispatchUnhandled, EndOfInterrupt, hardware
<1>4. CASE kernel_main
  BY <1>4, ModifiersKeeps DEF kernel_main, kgetch, Halt, Reset, Register, Test, Uninstall, Load,
     irqVars, hardware
<1>5. CASE UNCHANGED vars
  BY <1>5, ModifiersKeeps DEF vars, irqVars, hardware
<1> QED BY <1>1, <1>2, <1>3, <1>4, <1>5 DEF Next

LEMMA ModifiersInvTracks ==
  ASSUME NEW s, OneShiftKey(s), ModifiersInv(s)
  PROVE  ModifiersTrackKeys
<1> SUFFICES ASSUME port = <<>> PROVE ModifiersTrackKeys
  BY DEF ModifiersTrackKeys
<1>1. 1 .. Len(port) = {}
  OBVIOUS
<1>2. (shift <=> s \in held) /\ (ctrl <=> KEY_LCTRL \in held) /\ (alt <=> KEY_LALT \in held)
  BY <1>1 DEF ModifiersInv, Tracks
<1>3. s \in held <=> held \cap ShiftKeys # {}
  BY DEF OneShiftKey, ModifiersInv
<1> QED BY <1>2, <1>3 DEF ModifiersTrackKeys

\* When no code waits, shift, ctrl and alt say which of their keys are down,
\* however many keys are typed, repeated and released in whatever order, as
\* long as one of the two shift keys is left alone.
THEOREM KgetchModifiersTrackKeys ==
  ASSUME NEW s, OneShiftKey(s)
  PROVE  Spec => []ModifiersTrackKeys
<1>1. Init => ModifiersInv(s)
  BY ModifiersInit
<1>2. ModifiersInv(s) /\ [Next]_vars => ModifiersInv(s)'
  BY ModifiersNext
<1>3. ModifiersInv(s) => ModifiersTrackKeys
  BY ModifiersInvTracks
<1> QED BY <1>1, <1>2, <1>3, PTL DEF Spec

-----------------------------------------------------------------------------
(* Page tables *)

LEMMA PageBound ==
  ASSUME NEW page \in Page
  PROVE  page \in Nat /\ page < 1048576 /\ page \div OneGiB \in 0 .. 3
<1>1. OneGiB \in Nat
  BY SMT DEF OneGiB
<1>2. page \in Nat /\ page < 4 * OneGiB
  BY <1>1, SMT DEF Page
<1> QED BY <1>2, SMT DEF OneGiB

\* Both sets of page tables map every page of the first 4 GiB to itself.
THEOREM IdentityMapped ==
  ASSUME NEW tables \in {"page_table_l4", "pml4"}, NEW page \in Page
  PROVE  Translate(tables, page) = page
<1> DEFINE gib == page \div OneGiB
<1>1. /\ page \in Nat /\ page < 1048576 /\ gib \in 0 .. 3
      /\ page = gib * OneGiB + (page % OneGiB)
  BY PageBound, SMT DEF OneGiB
<1>2. CASE tables = "page_table_l4"
  <2>1. gib % 512 = gib /\ gib \in Index /\ (gib * OneGiB) % 1048576 = gib * OneGiB
    BY <1>1, SMT DEF Index, OneGiB
  <2>2. page_table_l3[gib % 512] = Large(gib * OneGiB)
    BY <1>1, <2>1, SMT DEF page_table_l3
  <2> QED BY <1>1, <1>2, <2>2, SMT DEF Translate, Large
<1>3. CASE tables = "pml4"
  <2> DEFINE i == (page \div TwoMiB) % 512
  <2>1. gib % 4 = gib /\ i \in Index
    BY <1>1, SMT DEF Index, TwoMiB
  <2>2. PdBase(gib, i) + (page % TwoMiB) = page
    <3> DEFINE q == page \div 512
    <3>1. q \in Nat /\ page = q * 512 + (page % 512) /\ page % 512 \in Nat
      BY <1>1, SMT
    <3>2. q = (q \div 512) * 512 + (q % 512) /\ q \div 512 = page \div 262144
      BY <1>1, SMT
    <3>3. PdBase(gib, i) = (gib * 512 + i) * 512 /\ gib * 512 + i = q
      BY <3>1, <3>2, SMT DEF PdBase, TwoMiB, OneGiB
    <3> QED BY <3>1, <3>3, SMT DEF TwoMiB
  <2>3. pd[gib % 4][i] = Large(PdBase(gib, i))
    BY <1>1, <2>1, SMT DEF pd
  <2> QED BY <1>1, <1>3, <2>2, <2>3, SMT DEF Translate, Large
<1> QED BY <1>2, <1>3, SMT

\* No step of the boot changes where a page is found once paging is on.
THEOREM BootMappingStays == BootSpec => MappingStays
<1> DEFINE Inv == cr3 \in {"none", "page_table_l4", "pml4"}
           Stays == cr3 # "none" =>
                      \A page \in Pages : Translate(cr3', page) = Translate(cr3, page)
<1>1. BootInit => Inv
  BY DEF BootInit
<1>2. Inv /\ [BootNext]_allVars => Inv' /\ (cr3' = cr3 \/ cr3' \in {"page_table_l4", "pml4"})
  BY DEF BootNext, Typing, Dispatch, BootStep, Loop, Stop, Check, EnablePaging, LongModeStart,
         Elsewhere, paging_init, gdt_init, tss_init, pic_remap, pic_set_mask, idt_init, apic_init,
         syscall_init, cpu_enable_interrupts, OffTables, allVars, bootVars, tableVars
<1>3. Inv /\ [BootNext]_allVars => [Stays]_cr3
  <2> SUFFICES ASSUME Inv, [BootNext]_allVars, cr3' # cr3, cr3 # "none", NEW page \in Pages
               PROVE  Translate(cr3', page) = Translate(cr3, page)
    OBVIOUS
  <2>1. page \in Page
    BY BootAssumption
  <2>2. cr3 \in {"page_table_l4", "pml4"} /\ cr3' \in {"page_table_l4", "pml4"}
    BY <1>2
  <2> QED BY <2>1, <2>2, IdentityMapped
<1> QED BY <1>1, <1>2, <1>3, PTL DEF BootSpec, MappingStays

-----------------------------------------------------------------------------
(* Descriptors and gates *)

LEMMA WordsSplit ==
  ASSUME NEW w \in Words
  PROVE  /\ w = <<w[1], w[2], w[3], w[4]>>
         /\ (w[2] % 256) + 256 * (w[2] \div 256) = w[2]
<1>1. w = <<w[1], w[2], w[3], w[4]>> /\ w[2] \in Word
  BY SMT DEF Words
<1>2. ASSUME NEW n \in Word PROVE (n % 256) + 256 * (n \div 256) = n
  <2>1. n \in Nat
    BY <1>2, SMT DEF Word
  <2> QED BY <2>1, SMT
<1> QED BY <1>1, <1>2, Zenon

LEMMA KernelSegments ==
  /\ IsCode(tmp_gdt[1], 0)
  /\ IsCode(KernelGdt[1], 0) /\ IsData(KernelGdt[2], 0)
  /\ IsData(KernelGdt[3], 3) /\ IsCode(KernelGdt[4], 3)
BY SMT DEF tmp_gdt, KernelGdt, gdt_set_entry, NullEntry, IsCode, IsData, Bit, Dpl,
  GDT_FLAG_GRANULARITY, GDT_FLAG_LONGMODE, GDT_ACCESS_PRESENT, GDT_ACCESS_RING3,
  GDT_ACCESS_CODE, GDT_ACCESS_DATA, GDT_ACCESS_RW

\* What gdt_set_tss_entry writes decodes to what it was given.
LEMMA TssDecodes ==
  ASSUME NEW base \in Words
  PROVE  /\ IsTss(Busy(TssLow(base, TssLimit)))
         /\ LimitOf(Busy(TssLow(base, TssLimit))) = TssLimit
         /\ BaseOf(Busy(TssLow(base, TssLimit)), TssHigh(base)) = base
BY WordsSplit, SMT DEF IsTss, Busy, TssLow, TssHigh, TssLimit, LimitOf, BaseOf, Bit

LEMMA EveryGateLeads == GatesLead
<1> SUFFICES ASSUME NEW vector \in 0 .. 255
             PROVE  IsGate(IdtGate(vector), Stub(vector), IF vector = SyscallVector THEN 3 ELSE 0)
  BY DEF GatesLead
<1>1. Stub(vector) = <<Stub(vector)[1], Stub(vector)[2], Stub(vector)[3], Stub(vector)[4]>>
  BY BootAssumption, WordsSplit
<1>2. IdtGate(vector).type_attr = IF vector = SyscallVector THEN 238 ELSE 142
  BY DEF IdtGate, idt_set_gate, GateFlags, SyscallVector
<1> QED BY <1>1, <1>2, SMT DEF IdtGate, idt_set_gate, IsGate, Bit, Dpl

-----------------------------------------------------------------------------
(* The order of the calls *)

KernelTss ==
  [KernelGdt EXCEPT ![5] = Busy(TssLow(TssAddress, TssLimit)), ![6] = TssHigh(TssAddress)]

\* The segment registers and the descriptor table they are looked up in.
Segments ==
  \/ step \in 0 .. 3 /\ cs = 0 /\ ss = 0 /\ tr = 0
  \/ step \in {0} \cup 4 .. 6 /\ cs = 8 /\ ss = 0 /\ tr = 0 /\ gdt = tmp_gdt
  \/ step = 7 /\ cs = 8 /\ ss = 16 /\ tr = 0 /\ gdt = KernelGdt
  \/ step \in 8 .. 17 /\ cs = 8 /\ ss = 16 /\ tr = 40 /\ gdt = KernelTss
     /\ rsp0 = KernelStack + KERNEL_STACK_SIZE

Sources ==
  /\ step > 8 => offset = 32
  /\ step > 9 => (0 .. 15) \ imr \subseteq {KeyboardIrqLine}
  /\ step > 10 => idtr
  /\ timer # 0 => timer = APIC_TIMER_VECTOR /\ timer \in registered

BootInv == Segments /\ Sources /\ (interrupts => step \in 16 .. 17)

LEMMA Places ==
  ASSUME step \in 0 .. 17
  PROVE  /\ Reached("check") <=> step = 1
         /\ Reached("enable_paging") <=> step = 2
         /\ Reached("long_mode_start") <=> step = 3
         /\ Reached("parse_multiboot2") <=> step = 4
         /\ Reached("paging_init") <=> step = 5
         /\ Reached("gdt_init") <=> step = 6
         /\ Reached("tss_init") <=> step = 7
         /\ Reached("pic_remap") <=> step = 8
         /\ Reached("pic_set_mask") <=> step = 9
         /\ Reached("idt_init") <=> step = 10
         /\ Reached("apic_init") <=> step = 11
         /\ Reached("syscall_init") <=> step = 12
         /\ Reached("kclear") <=> step = 13
         /\ Reached("heap_init") <=> step = 14
         /\ Reached("cpu_enable_interrupts") <=> step = 15
         /\ Reached("base_init") <=> step = 16
         /\ Reached("loop") <=> step = 17
BY SMT DEF Reached, Order

LEMMA BootInvInit == BootInit => BootInv
BY DEF BootInit, BootInv, Segments, Sources

LEMMA BootInvStep == BootInv /\ BootStep => BootInv'
<1> SUFFICES ASSUME BootInv, BootStep PROVE BootInv'
  OBVIOUS
<1>1. step \in 0 .. 17
  BY DEF BootInv, Segments
<1>2. CASE Stop
  BY <1>1, <1>2, Places DEF Stop, OffPic, OffTables, OffHandlers, tableVars, BootInv, Segments, Sources
<1>3. CASE Check \/ Elsewhere \/ EnablePaging \/ paging_init
  BY <1>1, <1>3, Places DEF Check, Elsewhere, EnablePaging, paging_init, Calls, OffPic, OffTables,
    OffHandlers, tableVars, BootInv, Segments, Sources
<1>4. CASE LongModeStart \/ gdt_init
  BY <1>1, <1>4, Places DEF LongModeStart, gdt_init, Calls, OffPic, OffHandlers, BootInv, Segments, Sources
<1>5. CASE tss_init
  <2>1. step = 7 /\ step' = 8
    BY <1>1, <1>5, Places DEF tss_init, Calls
  <2>2. gdt = KernelGdt /\ cs = 8 /\ ss = 16
    BY <2>1 DEF BootInv, Segments
  <2>3. gdt' = KernelTss
    BY <1>5, <2>2, Zenon DEF tss_init, KernelTss
  <2>4. Segments'
    BY <1>5, <2>1, <2>2, <2>3 DEF tss_init, Segments
  <2> QED BY <1>5, <2>1, <2>4 DEF tss_init, OffPic, OffHandlers, BootInv, Sources
<1>6. CASE pic_remap \/ pic_set_mask
  BY <1>1, <1>6, Places DEF pic_remap, pic_set_mask, ToMask, Calls, OffTables, OffHandlers, tableVars,
    BootInv, Segments, Sources
<1>7. CASE idt_init \/ cpu_enable_interrupts
  BY <1>1, <1>7, Places DEF idt_init, cpu_enable_interrupts, Calls, OffPic, OffTables, OffHandlers,
    tableVars, BootInv, Segments, Sources
<1>8. CASE apic_init \/ syscall_init
  BY <1>1, <1>8, Places DEF apic_init, syscall_init, Calls, OffPic, OffTables, tableVars,
    BootInv, Segments, Sources, APIC_TIMER_VECTOR
<1> QED BY <1>2, <1>3, <1>4, <1>5, <1>6, <1>7, <1>8 DEF BootStep

LEMMA BootInvNext == BootInv /\ [BootNext]_allVars => BootInv'
<1> SUFFICES ASSUME BootInv, [BootNext]_allVars PROVE BootInv'
  OBVIOUS
<1>1. CASE BootStep
  BY <1>1, BootInvStep
<1>2. CASE Loop
  <2>1. step = 17
    BY <1>2, Places DEF Loop, BootInv, Segments
  <2> QED BY <1>2, <2>1 DEF Loop, tableVars, BootInv, Segments, Sources
<1>3. CASE Typing \/ Dispatch \/ UNCHANGED allVars
  BY <1>3 DEF Typing, Dispatch, allVars, bootVars, tableVars, BootInv, Segments, Sources
<1> QED BY <1>1, <1>2, <1>3 DEF BootNext

\* Whatever the firmware left, interrupts find an IDT of gates that lead to the
\* stubs, through a code segment of the kernel, and a TSS.
LEMMA GatesFound == BootInv => InterruptsFindGates
<1> SUFFICES ASSUME BootInv, interrupts PROVE InterruptsFindGates
  BY DEF InterruptsFindGates
<1>1. /\ step \in 16 .. 17 /\ gdt = KernelTss /\ tr = 40 /\ idtr
      /\ rsp0 = KernelStack + KERNEL_STACK_SIZE
  BY DEF BootInv, Segments, Sources
<1>2. \A selector \in GateSelectors : selector = 8
  BY DEF GateSelectors, IdtGate, idt_set_gate
<1>3. DOMAIN KernelGdt = 0 .. 6
  BY DEF KernelGdt
<1>4. KernelTss[1] = KernelGdt[1] /\ 5 \in DOMAIN KernelTss
      /\ KernelTss[5] = Busy(TssLow(TssAddress, TssLimit))
  BY <1>3 DEF KernelTss
<1>5. 8 \div 8 = 1 /\ 40 \div 8 = 5
  BY SMT
<1>6. rsp0 % 16 = 0 /\ rsp0 - 40 >= KernelStack /\ rsp0 <= KernelStack + KERNEL_STACK_SIZE
  BY <1>1, BootAssumption, SMT DEF KERNEL_STACK_SIZE
<1> QED BY <1>1, <1>2, <1>4, <1>5, <1>6, KernelSegments, TssDecodes, EveryGateLeads, BootAssumption
        DEF InterruptsFindGates

\* Whatever masks the firmware left, only the keyboard and the timer interrupt.
THEOREM BootOnlyKnownSources == BootSpec => []OnlyKnownSources
<1>1. BootInv => OnlyKnownSources
  <2> SUFFICES ASSUME BootInv, interrupts PROVE OnlyKnownSources
    BY DEF OnlyKnownSources
  <2>1. /\ offset = 32 /\ (0 .. 15) \ imr \subseteq {KeyboardIrqLine}
        /\ timer # 0 => timer = APIC_TIMER_VECTOR /\ timer \in registered
    BY DEF BootInv, Segments, Sources
  <2> QED BY <2>1, SMT DEF OnlyKnownSources, KeyboardIrqLine, APIC_TIMER_VECTOR
<1> QED BY BootInvInit, BootInvNext, <1>1, PTL DEF BootSpec

\* At every step of the boot the selectors in use name descriptors of their
\* kind, and that of the TSS decodes to its address, whatever that is.
LEMMA DescriptorsFound == BootInv => SelectorsValid
<1> SUFFICES ASSUME BootInv PROVE SelectorsValid
  OBVIOUS
<1>1. 8 \div 8 = 1 /\ 16 \div 8 = 2 /\ 40 \div 8 = 5
  BY SMT
<1>2. DOMAIN KernelGdt = 0 .. 6
  BY DEF KernelGdt
<1>3. /\ \A i \in 1 .. 4 : KernelTss[i] = KernelGdt[i]
      /\ KernelTss[5] = Busy(TssLow(TssAddress, TssLimit)) /\ KernelTss[6] = TssHigh(TssAddress)
  BY <1>2 DEF KernelTss
<1> QED BY <1>1, <1>3, KernelSegments, TssDecodes, BootAssumption DEF BootInv, Segments, SelectorsValid

\* Whatever the firmware left and wherever the stubs and the TSS are, the CPU
\* finds valid descriptors at every step, and gates once interrupts are on.
THEOREM BootTablesValid == BootSpec => []TablesValid
<1>1. BootInv => TablesValid
  BY GatesFound, DescriptorsFound DEF TablesValid
<1> QED BY BootInvInit, BootInvNext, <1>1, PTL DEF BootSpec

-----------------------------------------------------------------------------
(* Kgetch's properties from power-on *)

\* Behind Typing, Dispatch and Loop is a step of Kgetch; a call of the boot
\* touches nothing of it but what pic_remap makes the PIC forget.
LEMMA BootOrKgetch ==
  [BootNext]_allVars =>
    \/ [Next]_vars
    \/ /\ UNCHANGED <<held, port, events, context, handler, modifiers, getchVars, threadVars, accepted>>
       /\ context = "thread"
       /\ \/ UNCHANGED <<irr, inService, unhandled>>
          \/ irr' = FALSE /\ inService' = FALSE /\ unhandled' = (unhandled \/ port # <<>>)
<1> SUFFICES ASSUME [BootNext]_allVars, ~[Next]_vars PROVE BootStep
  BY DEF BootStep, Stop, Check, EnablePaging, LongModeStart, Elsewhere, paging_init, gdt_init,
     tss_init, pic_remap, pic_set_mask, idt_init, apic_init, syscall_init, cpu_enable_interrupts,
     OffPic, irqVars, hardware
<1> QED BY DEF BootNext, Typing, Dispatch, Loop, Next, allVars

\* From power-on, whatever is typed while the kernel boots: every dispatch finds
\* a code, and the keyboard falls silent only after a dispatch without a handler
\* or a code that waited while pic_remap ran.
THEOREM BootIrqsMatchCodes == BootSpec => []IrqsMatchCodes
<1>1. BootInit => IrqInv
  BY IrqInvInit DEF BootInit
<1>2. IrqInv /\ [BootNext]_allVars => IrqInv'
  <2> SUFFICES ASSUME IrqInv, [BootNext]_allVars PROVE IrqInv'
    OBVIOUS
  <2>1. CASE [Next]_vars
    BY <2>1, IrqInvNext
  <2>2. CASE UNCHANGED <<port, context, irr, unhandled>>
    BY <2>2, IrqInvThread
  <2>3. CASE /\ UNCHANGED <<port, context>> /\ context = "thread"
             /\ irr' = FALSE /\ unhandled' = (unhandled \/ port # <<>>)
    BY <2>3 DEF IrqInv, Requests, DeafOnlyUnhandled, Deaf
  <2> QED BY <2>1, <2>2, <2>3, BootOrKgetch
<1>3. IrqInv => IrqsMatchCodes
  BY DEF IrqInv, Requests, HandlerHasCode, IrqsMatchCodes
<1> QED BY <1>1, <1>2, <1>3, PTL DEF BootSpec

\* The modifiers track their keys from power-on, those pressed during the boot
\* included.
THEOREM BootModifiersTrackKeys ==
  ASSUME NEW s, OneShiftKey(s)
  PROVE  BootSpec => []ModifiersTrackKeys
<1>1. BootInit => ModifiersInv(s)
  BY ModifiersInit DEF BootInit
<1>2. ModifiersInv(s) /\ [BootNext]_allVars => ModifiersInv(s)'
  BY BootOrKgetch, ModifiersNext, ModifiersKeeps
<1>3. ModifiersInv(s) => ModifiersTrackKeys
  BY ModifiersInvTracks
<1> QED BY <1>1, <1>2, <1>3, PTL DEF BootSpec
=============================================================================
