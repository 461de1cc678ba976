---------------------------- MODULE KeyboardIrq ----------------------------
(***************************************************************************)
(* The way of a scan code into a keyboard handler: the keyboard controller *)
(* keeps codes until port 0x60 is read and raises IRQ 1 when it presents   *)
(* one; the PIC is edge triggered and latches the request; isr_dispatch    *)
(* (cpu/idt.c) runs with interrupts disabled, calls what is registered for *)
(* vector 33 and sends the EOI.  The thread runs when no dispatch does.    *)
(***************************************************************************)
EXTENDS Integers, Sequences

CONSTANTS
  KeysTyped,  \* the scan codes of the keys the user types
  MaxEvents   \* bound on the presses and releases

ASSUME IrqAssumption == KeysTyped \subseteq 0 .. 255 /\ MaxEvents \in Nat

VARIABLES
  held,       \* the keys that are down
  port,       \* the codes the controller holds, the first in port 0x60
  events,     \* how many presses and releases there were
  irr,        \* the PIC has latched a request of IRQ 1
  inService,  \* the PIC waits for the EOI of IRQ 1
  context,    \* "thread", "dispatch" (before the handler) or "eoi" (after it)
  handler,    \* interrupt_handlers[33]
  unhandled   \* history: a code was left behind, by an isr_dispatch without a handler or
              \* by pic_remap, which drops the request

hardware == <<held, port, events, irr, inService>>
irqVars == <<hardware, context, handler, unhandled>>

NULL == "NULL"
Break == 128  \* the bit a release sets in the scan code

IrqInit ==
  /\ held = {} /\ port = <<>> /\ events = 0
  /\ irr = FALSE /\ inService = FALSE
  /\ context = "thread" /\ handler = NULL
  /\ unhandled = FALSE

Present(code) ==
  /\ events < MaxEvents
  /\ events' = events + 1
  /\ port' = Append(port, code)
  /\ irr' = (irr \/ port = <<>>)
  /\ UNCHANGED <<inService, context, handler, unhandled>>

\* A key goes down, or is held down and repeats.
Press(key) == held' = held \cup {key} /\ Present(key)

Release(key) == key \in held /\ key < Break /\ held' = held \ {key} /\ Present(key + Break)

\* The CPU takes the interrupt between two instructions of the thread.
Interrupt ==
  /\ context = "thread" /\ irr /\ ~inService
  /\ irr' = FALSE /\ inService' = TRUE
  /\ context' = "dispatch"
  /\ UNCHANGED <<held, port, events, handler, unhandled>>

\* A handler reads port 0x60; the controller presents the next code, if it has
\* one, with another edge.
inb ==
  /\ context = "dispatch" /\ port # <<>>
  /\ port' = Tail(port)
  /\ irr' = (irr \/ Tail(port) # <<>>)
  /\ context' = "eoi"
  /\ UNCHANGED <<held, events, inService, handler, unhandled>>

\* if (interrupt_handlers[vec]): nobody reads the port.
DispatchUnhandled ==
  /\ context = "dispatch" /\ handler = NULL
  /\ unhandled' = TRUE
  /\ context' = "eoi"
  /\ UNCHANGED <<hardware, handler>>

\* Variant: the range of vectors that get an EOI starts one too high.
EndOfInterrupt_Off ==
  /\ context = "eoi"
  /\ context' = "thread"
  /\ UNCHANGED <<hardware, handler, unhandled>>

\* pic_send_eoi, and iretq.
EndOfInterrupt ==
  /\ context = "eoi"
  /\ inService' = FALSE
  /\ context' = "thread"
  /\ UNCHANGED <<held, port, events, irr, handler, unhandled>>

Keyboard == \E key \in KeysTyped : Press(key) \/ Release(key)

idt_register_handler(h) == handler' = h
idt_uninstall_handler == handler' = NULL

-----------------------------------------------------------------------------
(* Properties of every system built on it *)

IrqTypeOK ==
  /\ held \subseteq KeysTyped
  /\ port \in Seq(0 .. 255)
  /\ events \in 0 .. MaxEvents
  /\ {irr, inService, unhandled} \subseteq BOOLEAN
  /\ context \in {"thread", "dispatch", "eoi"}

\* When a handler runs there is a code for it to read: no interrupt is served
\* twice for one code, however releases, repeats and reads interleave.
HandlerHasCode == context = "dispatch" => port # <<>>

\* The keyboard falls silent, codes waiting and no interrupt to come, only
\* after isr_dispatch found vector 33 without a handler.
Deaf == port # <<>> /\ ~irr /\ context # "dispatch"
DeafOnlyUnhandled == Deaf => unhandled

\* Codes and interrupts match: one that is handled has its code, and a code that
\* waits has one to come.
IrqsMatchCodes == HandlerHasCode /\ DeafOnlyUnhandled
=============================================================================
