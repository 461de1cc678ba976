------------------------------- MODULE Syscall -------------------------------
(***************************************************************************)
(* int 0x80 (cpu/syscall.c) and other interrupts of a program, over the    *)
(* keyboard buffer.  The gate of vector 0x80 has type 0xEE, an interrupt   *)
(* gate: the CPU clears IF on the way in and iretq restores it, so no      *)
(* handler runs while a system call does.  The keyboard handler that       *)
(* pushes characters is not in the repository; it is taken from            *)
(* keyboard.h, "Push a received character into keyboard buffer", and like  *)
(* every handler it only runs while IF is set.  keyboard.h also lets       *)
(* kernel code pop by itself, with interrupts enabled.                     *)
(***************************************************************************)
EXTENDS KeyboardBuffer, IsrFrame

CONSTANTS
  MaxCount,  \* bound on the count a program passes
  MaxPush    \* bound on the characters that arrive

VARIABLES
  run,      \* "user", "handler" (syscall_handler), "read", "hlt" (in sys_read), "exit"
  IF_flag,  \* the interrupt flag
  regs,     \* the registers of the program, when it last ran
  frame,    \* its frame while a system call runs
  i,        \* sys_read's i
  stored,   \* history: the characters that entered the buffer
  got       \* history: the characters sys_read stored, and direct pops returned

callVars == <<run, IF_flag, regs, frame, i>>
vars == <<bufferVars, callVars, stored, got>>

Error == -1  \* (uint64_t)-1
sys == [read |-> 0, write |-> 1, exit |-> 60]

Init ==
  /\ BufferInit
  /\ run = "user" /\ IF_flag = TRUE
  /\ regs = [r \in Registers |-> 100 + Place(Pushed)[r]]
  /\ frame = <<>> /\ i = 0
  /\ stored = <<>> /\ got = <<>>

\* The keyboard interrupt; it also ends a hlt.
Keyboard(ch) ==
  /\ IF_flag
  /\ Len(stored) < MaxPush
  /\ keyboard_buffer_push(ch)
  /\ stored' = IF kb_head' = kb_head THEN stored ELSE Append(stored, ch)
  /\ run' = IF run = "hlt" THEN "read" ELSE run
  /\ regs' = Leave(Enter(33, 0, regs))
  /\ UNCHANGED <<IF_flag, frame, i, got>>

\* An exception the program resumes from: isr_dispatch has no handler for it.
Exception(vector, code) ==
  /\ run = "user"
  /\ regs' = Leave(Enter(vector, code, regs))
  /\ UNCHANGED <<bufferVars, run, IF_flag, frame, i, stored, got>>

\* Kernel code takes a character with interrupts enabled.
DirectPop ==
  /\ run = "user"
  /\ keyboard_buffer_pop
  /\ got' = IF pop = "advance" THEN Append(got, returned') ELSE got
  /\ UNCHANGED <<callVars, stored>>

Gate == FALSE  \* IF behind an interrupt gate

Int80(call, file, n) ==
  /\ run = "user" /\ pop = "idle"
  /\ regs' = [regs EXCEPT !["rax"] = call, !["rdi"] = file, !["rdx"] = n]
  /\ frame' = Enter(128, 0, regs')
  /\ run' = "handler" /\ IF_flag' = Gate
  /\ UNCHANGED <<bufferVars, i, stored, got>>

num == Field(frame, "rax")
fd == Field(frame, "rdi")
count == Field(frame, "rdx")

Return(value) ==
  /\ regs' = Leave([frame EXCEPT ![Slot["rax"]] = value])
  /\ run' = "user" /\ IF_flag' = TRUE /\ frame' = <<>>

Reads == num = sys.read /\ fd = 0

sys_read_begins ==
  /\ Reads
  /\ run' = "read" /\ i' = 0
  /\ UNCHANGED <<IF_flag, regs, frame>>

\* sys_write prints its characters; that is the console's.
sys_write_and_errors ==
  /\ ~Reads /\ num # sys.exit
  /\ Return(IF num = sys.write /\ fd \in {1, 2} THEN count ELSE Error)
  /\ UNCHANGED i

\* cli, then hlt for ever.
sys_exit ==
  /\ num = sys.exit
  /\ run' = "exit" /\ IF_flag' = FALSE
  /\ UNCHANGED <<regs, frame, i>>

syscall_handler ==
  /\ run = "handler"
  /\ sys_read_begins \/ sys_write_and_errors \/ sys_exit
  /\ UNCHANGED <<bufferVars, stored, got>>

\* Variant: an empty buffer ends the read.
ReadWait_Returns ==
  /\ run = "read" /\ i < count
  /\ PopEmpty
  /\ Return(i)
  /\ UNCHANGED <<i, stored, got>>

\* while (!keyboard_buffer_pop(&c)) hlt;
ReadWait ==
  /\ run = "read" /\ i < count
  /\ PopEmpty
  /\ run' = "hlt"
  /\ UNCHANGED <<IF_flag, regs, frame, i, stored, got>>

ReadPop ==
  /\ run = "read" /\ i < count
  /\ PopNonEmpty \/ PopCopy
  /\ UNCHANGED <<callVars, stored, got>>

\* Variant: the character of the pop before is stored.
Popped_c_Stale == returned
Popped_c == returned'

\* Variant: the loop counter is not advanced.
NextIndex_Same == i
NextIndex == i + 1

ReadStore ==
  /\ run = "read" /\ i < count
  /\ PopAdvance
  /\ got' = Append(got, Popped_c)
  /\ i' = NextIndex
  /\ UNCHANGED <<run, IF_flag, regs, frame, stored>>

ReadDone ==
  /\ run = "read" /\ i = count
  /\ Return(i)
  /\ UNCHANGED <<bufferVars, i, stored, got>>

sys_read == ReadWait \/ ReadPop \/ ReadStore \/ ReadDone

\* 39 is a number without a system call, 3 and 14 vectors without and with an error code.
Program ==
  \/ \E call \in {sys.read, sys.write, sys.exit, 39}, file \in {0, 1}, n \in 0 .. MaxCount :
       Int80(call, file, n)
  \/ \E vector \in {3, 14} : Exception(vector, 2)
  \/ DirectPop

Next == Program \/ syscall_handler \/ sys_read \/ \E ch \in Chars : Keyboard(ch)

Spec == Init /\ [][Next]_vars

\* The CPU keeps executing the handler it is in, and keys that may be delivered are.
FairSpec == /\ Spec
            /\ WF_vars(syscall_handler \/ sys_read)
            /\ WF_vars(\E ch \in Chars : Keyboard(ch))

-----------------------------------------------------------------------------
(* Properties *)

\* Every character that entered the buffer is, in order, either with whoever
\* read it or waiting, or is the one a pop is moving: no read, whole or stuck
\* half way, loses, repeats or reorders one.
ReadsInOrder == stored = got \o Waiting

\* sys_read returns its whole count: a return to the program from a read that
\* was under way has stored exactly count characters since the call.
ReadNeverShort ==
  [][(run \in {"read", "hlt"} /\ run' = "user") => (regs'["rax"] = regs["rdx"] /\ i = count)]_vars

\* The frame keeps the program's registers: a system call changes its rax, an
\* interrupt nothing, and an exception with an error code also rax, since the
\* stub pops that code into it before it is saved (isr.asm:69).
ProgramKeepsRegisters ==
  [][run' = "user" =>
       /\ \A r \in Registers \ {"rax"} : regs'[r] = regs[r]
       /\ run = "user" => regs'["rax"] = regs["rax"] \/ \E v \in ErrorVectors : Exception(v, 2)]_vars

\* A read for which enough characters wait returns.
ReadOfWaitingReturns ==
  (run = "read" /\ Count >= count - i) ~> (run = "user")

\* syscall.c:18, "wait for a character": as long as more characters are typed, a
\* read that waits gets them and returns.
ReadReturns == (run = "read") ~> (run = "user" \/ Len(stored) = MaxPush)
=============================================================================
