-------------------------------- MODULE Boot --------------------------------
(***************************************************************************)
(* From _start (boot/boot.asm) through kernel_main (kernel/kernel.c) into  *)
(* the loop of Kgetch: paging, descriptor tables, TSS, PIC, IDT, timer and *)
(* system calls are set up one after the other while interrupts are off,   *)
(* and the user types all the while.                                       *)
(***************************************************************************)
EXTENDS Kgetch, Tables

CONSTANTS
  FirmwareMasks,  \* the sets of IRQs the firmware may have left masked
  Pages,          \* the pages whose translation is observed
  TssAddress,     \* &tss_entry
  KernelStack,    \* kernel_stack, the lowest byte of the stack for interrupts of programs
  Stub(_)         \* isr_stub_table

\* An address: its words of 16 bits, the lowest first.
Word == 0 .. 256 * 256 - 1
Words == [1 .. 4 -> Word]

ASSUME BootAssumption ==
  /\ FirmwareMasks \subseteq SUBSET (0 .. 15)
  /\ Pages \subseteq Page
  /\ TssAddress \in Words
  /\ KernelStack \in Nat /\ KernelStack % 16 = 0
  /\ \A vector \in 0 .. 255 : Stub(vector) \in Words

VARIABLES
  step,        \* the place in Order, or 0 when the CPU has stopped
  interrupts,  \* IF of the thread
  imr,         \* the IRQs the PICs mask
  offset,      \* the vector of IRQ 0
  cr3,         \* the page tables in use
  gdt, cs, ss, tr,
  rsp0,        \* where the stack of ring 0 begins, in the TSS
  idtr,        \* is the IDT loaded?
  timer,       \* the vector of the APIC timer once it runs, or 0
  registered   \* the vectors besides 33 with an entry in interrupt_handlers

tableVars == <<gdt, cs, ss, tr, rsp0, idtr, cr3>>
bootVars == <<step, interrupts, imr, offset, tableVars, timer, registered>>
allVars == <<vars, bootVars>>

KeyboardIrqLine == 1
SyscallVector == 128
APIC_TIMER_VECTOR == 239
KERNEL_STACK_SIZE == 8192

\* Variant: the IDT is loaded behind the sti.
Order_IdtLate ==
  <<"check", "enable_paging", "long_mode_start", "parse_multiboot2", "paging_init", "gdt_init",
    "tss_init", "pic_remap", "pic_set_mask", "apic_init", "syscall_init",
    "kclear", "heap_init", "cpu_enable_interrupts", "idt_init", "base_init", "loop">>

Order ==
  <<"check", "enable_paging", "long_mode_start", "parse_multiboot2", "paging_init", "gdt_init",
    "tss_init", "pic_remap", "pic_set_mask", "idt_init", "apic_init", "syscall_init",
    "kclear", "heap_init", "cpu_enable_interrupts", "base_init", "loop">>

Reached(call) == step > 0 /\ Order[step] = call

\* The call is next, and returns.
Calls(call) == Reached(call) /\ step' = step + 1

BootInit ==
  /\ Init
  /\ step = 1
  /\ interrupts = FALSE
  /\ imr \in FirmwareMasks /\ offset = 8
  /\ cr3 = "none"
  /\ gdt = [i \in {0} |-> NullEntry] /\ cs = 0 /\ ss = 0 /\ tr = 0 /\ rsp0 = 0
  /\ idtr = FALSE
  /\ timer = 0 /\ registered = {}

-----------------------------------------------------------------------------
(* The calls *)

OffPic == UNCHANGED <<irqVars, imr, offset>>
OffTables == UNCHANGED tableVars
OffHandlers == UNCHANGED <<timer, registered>>

\* The CPU stops for good: in error (no cpuid, no long mode), in a fault with
\* no IDT (a CPU without pages of 1 GiB, for which nothing tests), or behind
\* kernel_main (another magic number).
Stop ==
  /\ Reached("check") \/ Reached("enable_paging") \/ Reached("parse_multiboot2")
  /\ step' = 0
  /\ OffPic /\ OffTables /\ OffHandlers /\ UNCHANGED interrupts

Check == Calls("check") /\ OffPic /\ OffTables /\ OffHandlers /\ UNCHANGED interrupts

\* setup_page_tables, enable_paging.
EnablePaging ==
  /\ Calls("enable_paging")
  /\ cr3' = "page_table_l4"
  /\ UNCHANGED <<gdt, cs, ss, tr, rsp0, idtr, interrupts>> /\ OffPic /\ OffHandlers

\* lgdt tmp_gdt, the far jump, and null in the other segment registers.
LongModeStart ==
  /\ Calls("long_mode_start")
  /\ gdt' = tmp_gdt /\ cs' = 8 /\ ss' = 0
  /\ UNCHANGED <<tr, rsp0, idtr, cr3, interrupts>> /\ OffPic /\ OffHandlers

paging_init ==
  /\ Calls("paging_init")
  /\ cr3' = "pml4"
  /\ UNCHANGED <<gdt, cs, ss, tr, rsp0, idtr, interrupts>> /\ OffPic /\ OffHandlers

gdt_init ==
  /\ Calls("gdt_init")
  /\ gdt' = KernelGdt /\ cs' = 8 /\ ss' = 16
  /\ UNCHANGED <<tr, rsp0, idtr, cr3, interrupts>> /\ OffPic /\ OffHandlers

tss_init ==
  /\ Calls("tss_init")
  /\ gdt' = [gdt EXCEPT ![5] = Busy(TssLow(TssAddress, TssLimit)), ![6] = TssHigh(TssAddress)]
  /\ tr' = 40
  /\ rsp0' = KernelStack + KERNEL_STACK_SIZE
  /\ UNCHANGED <<cs, ss, idtr, cr3, interrupts>> /\ OffPic /\ OffHandlers

\* The first command word makes the PIC forget its requests, and the edge of a
\* code that waits in the port is behind it; the masks are put back.
pic_remap ==
  /\ Calls("pic_remap")
  /\ irr' = FALSE /\ inService' = FALSE
  /\ unhandled' = (unhandled \/ port # <<>>)
  /\ offset' = 32
  /\ UNCHANGED <<held, port, events, context, handler, imr, interrupts>>
  /\ OffTables /\ OffHandlers

\* Variant: the second loop stops one short.
ToMask_Short == (0 .. 14) \ {KeyboardIrqLine}

\* The lines the two loops of kernel_main mask.
ToMask == (0 .. 15) \ {KeyboardIrqLine}

pic_set_mask ==
  /\ Calls("pic_set_mask")
  /\ imr' = imr \cup ToMask
  /\ UNCHANGED <<irqVars, offset, interrupts>> /\ OffTables /\ OffHandlers

idt_init ==
  /\ Calls("idt_init")
  /\ idtr' = TRUE
  /\ UNCHANGED <<gdt, cs, ss, tr, rsp0, cr3, interrupts>> /\ OffPic /\ OffHandlers

apic_init ==
  /\ Calls("apic_init")
  /\ timer' = APIC_TIMER_VECTOR
  /\ registered' = registered \cup {APIC_TIMER_VECTOR}
  /\ OffPic /\ OffTables /\ UNCHANGED interrupts

syscall_init ==
  /\ Calls("syscall_init")
  /\ registered' = registered \cup {SyscallVector}
  /\ OffPic /\ OffTables /\ UNCHANGED <<timer, interrupts>>

cpu_enable_interrupts ==
  /\ Calls("cpu_enable_interrupts")
  /\ interrupts' = TRUE
  /\ OffPic /\ OffTables /\ OffHandlers

\* The calls whose state is that of other modules, or that have none.
Elsewhere ==
  /\ \E call \in {"parse_multiboot2", "kclear", "heap_init", "base_init"} : Calls(call)
  /\ OffPic /\ OffTables /\ OffHandlers /\ UNCHANGED interrupts

BootStep ==
  /\ context = "thread"
  /\ \/ Stop \/ Check \/ EnablePaging \/ LongModeStart \/ Elsewhere
     \/ paging_init \/ gdt_init \/ tss_init \/ pic_remap \/ pic_set_mask
     \/ idt_init \/ apic_init \/ syscall_init \/ cpu_enable_interrupts
  /\ UNCHANGED <<modifiers, getchVars, threadVars, accepted>>

-----------------------------------------------------------------------------
(* The system *)

Typing ==
  /\ Keyboard
  /\ UNCHANGED <<modifiers, getchVars, threadVars, accepted, bootVars>>

\* An interrupt is taken when IF is set and its line is not masked.
Dispatch ==
  /\ context = "thread" => interrupts /\ KeyboardIrqLine \notin imr
  /\ isr_dispatch
  /\ UNCHANGED bootVars

\* The loop of kernel_main; behind it comes cli.
Loop ==
  /\ Reached("loop")
  /\ kernel_main
  /\ interrupts' = (pc' # "halted")
  /\ UNCHANGED <<step, imr, offset, tableVars, timer, registered>>

BootNext == Typing \/ Dispatch \/ BootStep \/ Loop

BootSpec == BootInit /\ [][BootNext]_allVars

BootFairSpec == BootSpec /\ WF_allVars(BootStep) /\ WF_allVars(Dispatch) /\ WF_allVars(Loop)

-----------------------------------------------------------------------------
(* Properties *)

IdtGate(vector) == idt_set_gate(Stub(vector), GateFlags(vector))

GatesLead == \A vector \in 0 .. 255 :
  IsGate(IdtGate(vector), Stub(vector), IF vector = SyscallVector THEN 3 ELSE 0)

GateSelectors == {IdtGate(vector).selector : vector \in 0 .. 255}

\* Once interrupts are on, the CPU can take one from any vector: the IDT is
\* loaded, each gate leads through a segment of 64-bit code of the kernel to
\* its stub, and a TSS is there to switch stacks: the frame of an interrupt of a
\* program (five registers of 8 bytes from rsp0 down) lies on kernel_stack.
InterruptsFindGates ==
  interrupts =>
    /\ idtr /\ GatesLead
    /\ \A selector \in GateSelectors : IsCode(gdt[selector \div 8], 0)
    /\ tr \div 8 \in DOMAIN gdt /\ IsTss(gdt[tr \div 8])
    /\ rsp0 % 16 = 0 /\ rsp0 - 40 >= KernelStack /\ rsp0 <= KernelStack + KERNEL_STACK_SIZE

\* kernel.c:58, "mask all irq except keyboard": once interrupts are on, a line
\* that is not masked is the keyboard's whatever the firmware left, its vector
\* is one isr_dispatch sends an EOI for, and the timer's vector has a handler
\* and is none of those.
OnlyKnownSources ==
  interrupts =>
    /\ (0 .. 15) \ imr \subseteq {KeyboardIrqLine}
    /\ {offset + line : line \in (0 .. 15) \ imr} \subseteq {33}
    /\ timer # 0 => timer \in registered \ (32 .. 47)

\* Every selector in use, and those of programs once there is a user segment,
\* names a descriptor of its kind; that of the TSS decodes to its address and
\* limit.
SelectorsValid ==
  /\ cs # 0 => IsCode(gdt[cs \div 8], 0)
  /\ ss # 0 => IsData(gdt[ss \div 8], 0) /\ IsData(gdt[3], 3) /\ IsCode(gdt[4], 3)
  /\ tr # 0 => /\ BaseOf(gdt[tr \div 8], gdt[(tr \div 8) + 1]) = TssAddress
               /\ LimitOf(gdt[tr \div 8]) = TssLimit

\* What the CPU looks up in the tables it was given is there.
TablesValid == InterruptsFindGates /\ SelectorsValid

\* Switching to the tables of paging_init moves no page under the kernel's
\* feet: once paging is on a page of the first 4 GiB is found where it was.
MappingStays ==
  [][cr3 # "none" => \A page \in Pages : Translate(cr3', page) = Translate(cr3, page)]_cr3

\* Every code is read in the end, unless an interrupt found no handler, the
\* PIC was set up while it waited, the firmware had masked the keyboard, which
\* nothing undoes, or the CPU has stopped.
CodesAreRead ==
  port # <<>> ~> \/ port = <<>> \/ unhandled
                 \/ KeyboardIrqLine \in imr \/ step = 0 \/ pc = "halted"
=============================================================================
