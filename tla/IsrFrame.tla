------------------------------ MODULE IsrFrame ------------------------------
(***************************************************************************)
(* The stack frame that the stubs of cpu/isr.asm build for isr_dispatch    *)
(* and take down again, as the sequence of its 8-byte slots from the       *)
(* lowest address.  What C reads as a field of cpu_registers_t is the slot *)
(* at the field's place; nothing but the order of the pushes puts the      *)
(* right register there.                                                   *)
(***************************************************************************)
EXTENDS Integers, Sequences, SequencesExt

\* PUSH_REGS and POP_REGS
Pushed == <<"rax", "rcx", "rdx", "rbx", "rbp", "rsi", "rdi", "r8",
            "r9", "r10", "r11", "r12", "r13", "r14", "r15">>

\* Variant: two registers are popped in the order they were pushed in.
Popped_Swapped == <<"r15", "r14", "r13", "r12", "r11", "r10", "r9", "r8",
                    "rsi", "rdi", "rbp", "rbx", "rdx", "rcx", "rax">>

Popped == <<"r15", "r14", "r13", "r12", "r11", "r10", "r9", "r8",
            "rdi", "rsi", "rbp", "rbx", "rdx", "rcx", "rax">>

cpu_registers_t == <<"int_no", "err_code", "r15", "r14", "r13", "r12", "r11", "r10", "r9", "r8",
                     "rdi", "rsi", "rbp", "rbx", "rdx", "rcx", "rax">>

Registers == ToSet(Pushed)
ErrorVectors == {8, 10, 11, 12, 13, 14, 17}

\* Every push writes below the one before.
PUSH_REGS(regs) == Reverse([n \in DOMAIN Pushed |-> regs[Pushed[n]]])

\* The frame isr_dispatch gets: the error code, if the CPU pushed one, has gone
\* to rax before rax is saved.
Enter(vector, code, regs) ==
  <<vector, 0>> \o PUSH_REGS(IF vector \in ErrorVectors THEN [regs EXCEPT !["rax"] = code] ELSE regs)

Place(order) == [r \in Registers |-> CHOOSE n \in DOMAIN order : order[n] = r]

Slot == Place(cpu_registers_t)
Field(frame, field) == frame[Slot[field]]

\* add rsp, 16; POP_REGS
Popping == Place(Popped)
Leave(frame) == [r \in Registers |-> frame[2 + Popping[r]]]
=============================================================================
