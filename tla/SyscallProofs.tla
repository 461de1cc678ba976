--------------------------- MODULE SyscallProofs ---------------------------
(***************************************************************************)
(* System calls for every buffer size, any number of characters and counts *)
(* of any size: nothing is lost, repeated or reordered, no read returns    *)
(* short, and the stubs give a program its registers back.                 *)
(***************************************************************************)
EXTENDS Syscall, SequenceTheorems, TLAPS

-----------------------------------------------------------------------------
(* The ring buffer *)

N == KB_BUF_SIZE

\* The remainder of the sums of an index and an offset into the ring.
Wrap(x) == IF x < N THEN x ELSE x - N

LEMMA ModSmall == \A x \in Nat : x < 2 * N => x % N = Wrap(x)
BY BufferAssumption, Z3 DEF BufferAssumption, N, Wrap

LEMMA SuccInSlots ==
  ASSUME NEW a \in Slots
  PROVE  /\ Succ(a) \in Slots
         /\ Succ(a) = IF a = N - 1 THEN 0 ELSE a + 1
<1>1. a + 1 \in Nat /\ a + 1 < 2 * N /\ N \in Nat /\ N > 1
  BY BufferAssumption DEF BufferAssumption, N, Slots
<1>2. (a + 1) % N = Wrap(a + 1)
  BY <1>1, ModSmall, Zenon
<1>3. Succ(a) = Wrap(a + 1)
  BY <1>2 DEF Succ, N
<1> QED
  BY <1>1, <1>3 DEF Wrap, Slots, N

LEMMA InitInv == BufferInit => BufferInv
<1> SUFFICES ASSUME BufferInit PROVE BufferInv
  OBVIOUS
<1>1. kb_head \in Slots /\ kb_tail \in Slots
  BY BufferAssumption DEF BufferAssumption, BufferInit, Slots
<1>2. kb_buf \in [Slots -> Chars \cup {NoChar}]
  BY DEF BufferInit
<1>3. overrun \in BOOLEAN /\ pop = "idle" /\ c = NoChar /\ returned = NoChar
  BY DEF BufferInit
<1> QED
  BY <1>1, <1>2, <1>3 DEF BufferInv, BufferTypeOK, PopUndisturbed

LEMMA NextInv == BufferInv /\ [BufferNext]_bufferVars => BufferInv'
<1> SUFFICES ASSUME BufferInv, [BufferNext]_bufferVars PROVE BufferInv'
  OBVIOUS
<1> USE DEF BufferInv, BufferTypeOK, PopUndisturbed
<1>1. ASSUME NEW ch \in Chars, PushStored(ch) PROVE BufferInv'
  <2>1. Succ(kb_head) \in Slots /\ Succ(kb_head) # kb_tail
    BY <1>1, SuccInSlots DEF PushStored
  <2>2. kb_buf' \in [Slots -> Chars \cup {NoChar}] /\ kb_head' \in Slots
    BY <1>1, <2>1 DEF PushStored
  <2>3. pop # "idle" => kb_buf'[kb_tail] = kb_buf[kb_tail]
    BY <1>1 DEF PushStored
  <2> QED
    BY <1>1, <2>1, <2>2, <2>3 DEF PushStored
<1>2. CASE PushDropped
  BY <1>2 DEF PushDropped
<1>3. CASE PopNonEmpty
  BY <1>3 DEF PopNonEmpty
<1>4. CASE PopCopy
  BY <1>4 DEF PopCopy
<1>5. CASE PopAdvance
  <2>1. Succ(kb_tail) \in Slots
    BY SuccInSlots
  <2> QED
    BY <1>5, <2>1 DEF PopAdvance
<1>6. CASE PopEmpty \/ UNCHANGED bufferVars
  BY <1>6 DEF PopEmpty, bufferVars
<1> QED
  BY <1>1, <1>2, <1>3, <1>4, <1>5, <1>6
     DEF BufferNext, keyboard_buffer_push, keyboard_buffer_pop

\* For every buffer size the ring keeps its types, and a pop is never disturbed
\* by the pushes that interrupt it.
THEOREM BufferConsistent == BufferSpec => []BufferInv
<1>1. BufferInit => BufferInv
  BY InitInv
<1>2. BufferInv /\ [BufferNext]_bufferVars => BufferInv'
  BY NextInv
<1> QED
  BY <1>1, <1>2, PTL DEF BufferSpec

-----------------------------------------------------------------------------
(* The refinement: one lemma per kind of step. *)

RingSlot(a) == (kb_tail + a - 1) % N

LEMMA CountBounds ==
  ASSUME BufferInv
  PROVE  /\ Count \in 0 .. N - 1
         /\ Count = 0 <=> kb_head = kb_tail
         /\ Count = N - 1 <=> Succ(kb_head) = kb_tail
<1>1. kb_head \in Slots /\ kb_tail \in Slots
  BY DEF BufferInv, BufferTypeOK
<1>2. N \in Nat /\ N > 1
  BY BufferAssumption DEF BufferAssumption, N
<1>3. Succ(kb_head) = IF kb_head = N - 1 THEN 0 ELSE kb_head + 1
  BY <1>1, SuccInSlots
<1> QED
  BY <1>1, <1>2, <1>3 DEF Count, Slots, N

\* The slots of the waiting characters differ from kb_head, which is the slot
\* behind the last of them.
LEMMA WaitingSlots ==
  ASSUME BufferInv
  PROVE  /\ \A a \in 1 .. Count : RingSlot(a) \in Slots /\ RingSlot(a) # kb_head
         /\ RingSlot(Count + 1) = kb_head
<1>1. kb_head \in Slots /\ kb_tail \in Slots
  BY DEF BufferInv, BufferTypeOK
<1>2. N \in Nat /\ N > 1 /\ Count \in 0 .. N - 1
  BY BufferAssumption, CountBounds DEF BufferAssumption, N
<1>3. ASSUME NEW a \in 1 .. Count + 1
      PROVE  RingSlot(a) = Wrap(kb_tail + a - 1)
  <2>1. kb_tail + a - 1 \in Nat /\ kb_tail + a - 1 < 2 * N
    BY <1>1, <1>2 DEF Slots, N
  <2> QED
    BY <2>1, ModSmall, Zenon DEF RingSlot
<1> QED
  BY <1>1, <1>2, <1>3 DEF Count, Slots, N, Wrap

LEMMA WaitingIsSeq ==
  ASSUME BufferInv
  PROVE  /\ Waiting \in Seq(Chars \cup {NoChar})
         /\ Len(Waiting) = Count
         /\ \A a \in 1 .. Count : Waiting[a] = kb_buf[RingSlot(a)]
<1>1. Count \in Nat
  BY BufferAssumption, CountBounds DEF BufferAssumption, N
<1>2. \A a \in 1 .. Count : kb_buf[RingSlot(a)] \in Chars \cup {NoChar}
  BY WaitingSlots DEF BufferInv, BufferTypeOK
<1>3. Waiting = [a \in 1 .. Count |-> kb_buf[RingSlot(a)]]
  BY DEF Waiting, RingSlot, N
<1> QED
  BY <1>1, <1>2, <1>3

LEMMA PushRefines ==
  ASSUME BufferInv, BufferInv', NEW ch \in Chars, PushStored(ch)
  PROVE  Queue!Push(ch)
<1>1. /\ kb_head' = Succ(kb_head) /\ kb_tail' = kb_tail /\ Succ(kb_head) # kb_tail
      /\ kb_buf' = [kb_buf EXCEPT ![kb_head] = ch]
      /\ returned' = returned /\ overrun' = overrun
  BY DEF PushStored
<1>2. kb_head \in Slots /\ kb_tail \in Slots /\ N \in Nat /\ N > 1
  BY BufferAssumption DEF BufferInv, BufferTypeOK, BufferAssumption, N
<1>3. Count < N - 1 /\ Count \in Nat
  BY <1>1, <1>2, CountBounds
<1>4. Count' = Count + 1
  BY <1>1, <1>2, SuccInSlots DEF Count, Slots, N
<1>5. \A a \in 1 .. Count : kb_buf'[RingSlot(a)] = kb_buf[RingSlot(a)]
  BY <1>1, WaitingSlots DEF BufferInv, BufferTypeOK
<1>6. kb_buf'[RingSlot(Count + 1)] = ch
  BY <1>1, <1>2, WaitingSlots DEF BufferInv, BufferTypeOK
<1>7. Waiting' = [a \in 1 .. Count + 1 |-> kb_buf'[RingSlot(a)]]
  BY <1>1, <1>4 DEF Waiting, RingSlot, N
<1>8. Waiting' = Append(Waiting, ch)
  <2> DEFINE S == Chars \cup {NoChar}
             longer == Append(Waiting, ch)
  <2>1. Waiting' \in Seq(S) /\ Len(Waiting') = Count + 1
    <3>1. \A a \in 1 .. Count + 1 : kb_buf'[RingSlot(a)] \in S
      BY <1>1, <1>3, <1>5, <1>6, WaitingSlots DEF BufferInv, BufferTypeOK
    <3> QED
      BY <1>3, <1>7, <3>1
  <2>2. ch \in S /\ Waiting \in Seq(S) /\ Len(Waiting) = Count
    BY WaitingIsSeq
  <2>3. /\ longer \in Seq(S) /\ Len(longer) = Count + 1
        /\ \A a \in 1 .. Count : longer[a] = Waiting[a]
        /\ longer[Count + 1] = ch
    BY <1>3, <2>2, AppendProperties
  <2>4. \A a \in 1 .. Count + 1 : Waiting'[a] = longer[a]
    BY <1>3, <1>5, <1>6, <1>7, <2>3, WaitingIsSeq
  <2> HIDE DEF S, longer
  <2> QED
    BY <2>1, <2>3, <2>4, SeqEqual DEF longer
<1> QED
  BY <1>1, <1>3, <1>8, WaitingIsSeq DEF Queue!Push, N

LEMMA DropRefines ==
  ASSUME BufferInv, PushDropped
  PROVE  Queue!Lose
<1>1. Count = N - 1
  BY CountBounds DEF PushDropped
<1>2. Waiting' = Waiting
  BY DEF PushDropped, Waiting, Count
<1> QED
  BY <1>1, <1>2, WaitingIsSeq DEF Queue!Lose, PushDropped, N

LEMMA PopRefines ==
  ASSUME BufferInv, BufferInv', PopAdvance
  PROVE  Queue!Pop
<1>1. /\ kb_tail' = Succ(kb_tail) /\ kb_head' = kb_head /\ kb_buf' = kb_buf
      /\ returned' = c /\ overrun' = overrun
      /\ c = kb_buf[kb_tail] /\ kb_head # kb_tail
  BY DEF PopAdvance, BufferInv, PopUndisturbed
<1>2. kb_head \in Slots /\ kb_tail \in Slots /\ N \in Nat /\ N > 1
  BY BufferAssumption DEF BufferInv, BufferTypeOK, BufferAssumption, N
<1>3. Count \in Nat /\ Count > 0
  BY <1>1, <1>2, CountBounds
<1>4. Count' = Count - 1
  BY <1>1, <1>2, SuccInSlots DEF Count, Slots, N
<1>5. ASSUME NEW a \in 1 .. Count - 1
      PROVE  (Succ(kb_tail) + a - 1) % N = RingSlot(a + 1)
  <2>1. Count < N
    BY <1>2, CountBounds
  <2>2. Succ(kb_tail) = IF kb_tail = N - 1 THEN 0 ELSE kb_tail + 1
    BY <1>2, SuccInSlots
  <2>3. /\ Succ(kb_tail) + a - 1 \in Nat /\ Succ(kb_tail) + a - 1 < 2 * N
        /\ kb_tail + (a + 1) - 1 \in Nat /\ kb_tail + (a + 1) - 1 < 2 * N
    BY <1>2, <1>3, <2>1, <2>2 DEF Slots, N
  <2>4. (Succ(kb_tail) + a - 1) % N = Wrap(Succ(kb_tail) + a - 1)
    BY <2>3, ModSmall, Zenon
  <2>5. RingSlot(a + 1) = Wrap(kb_tail + (a + 1) - 1)
    BY <2>3, ModSmall, Zenon DEF RingSlot
  <2>6. Wrap(Succ(kb_tail) + a - 1) = Wrap(kb_tail + (a + 1) - 1)
    BY <1>2, <1>3, <2>1, <2>2 DEF Slots, N, Wrap
  <2> QED
    BY <2>4, <2>5, <2>6
<1>6. Waiting' = [a \in 1 .. Count - 1 |-> kb_buf[(Succ(kb_tail) + a - 1) % N]]
  BY <1>1, <1>4 DEF Waiting, N
<1>7. Waiting' = Tail(Waiting)
  <2> DEFINE S == Chars \cup {NoChar}
             shorter == Tail(Waiting)
  <2>1. Waiting \in Seq(S) /\ Len(Waiting) = Count /\ Waiting # <<>>
    BY <1>3, WaitingIsSeq
  <2>2. /\ shorter \in Seq(S) /\ Len(shorter) = Count - 1
        /\ \A a \in 1 .. Count - 1 : shorter[a] = Waiting[a + 1]
    BY <2>1, HeadTailProperties
  <2>3. \A a \in 1 .. Count - 1 : Waiting'[a] = shorter[a] /\ shorter[a] \in S
    BY <1>3, <1>5, <1>6, <2>2, WaitingIsSeq
  <2>4. Waiting' \in Seq(S) /\ Len(Waiting') = Count - 1
    <3>1. Count - 1 \in Nat
      BY <1>3
    <3> DEFINE w(a) == kb_buf[(Succ(kb_tail) + a - 1) % N]
    <3>2. \A a \in 1 .. Count - 1 : w(a) \in S
      BY <1>6, <2>3
    <3>3. Waiting' = [a \in 1 .. Count - 1 |-> w(a)]
      BY <1>6
    <3> HIDE DEF S, w
    <3> QED
      BY <3>1, <3>2, <3>3
  <2> HIDE DEF S, shorter
  <2> QED
    BY <2>2, <2>3, <2>4, SeqEqual DEF shorter
<1>8. Head(Waiting) = c /\ Waiting # <<>>
  <2>1. RingSlot(1) = kb_tail
    BY <1>2, ModSmall DEF RingSlot, Slots, N
  <2>2. Waiting[1] = c /\ Len(Waiting) > 0
    BY <1>1, <1>3, <2>1, WaitingIsSeq
  <2> QED
    BY <2>2, WaitingIsSeq
<1> QED
  BY <1>1, <1>7, <1>8 DEF Queue!Pop

\* For every buffer size, the ring with its interrupted pops implements Fifo.
THEOREM BufferImplementsFifo == BufferSpec => ImplementsFifo
<1>1. BufferInit => Queue!Init
  BY DEF BufferInit, Queue!Init, Waiting, Count
<1>2. BufferInv /\ BufferInv' /\ [BufferNext]_bufferVars
        => [Queue!Next]_<<Waiting, returned, overrun>>
  <2> SUFFICES ASSUME BufferInv, BufferInv', [BufferNext]_bufferVars
               PROVE  [Queue!Next]_<<Waiting, returned, overrun>>
    OBVIOUS
  <2>1. ASSUME NEW ch \in Chars, PushStored(ch) PROVE Queue!Next
    BY <2>1, PushRefines DEF Queue!Next
  <2>2. CASE PushDropped
    BY <2>2, DropRefines DEF Queue!Next
  <2>3. CASE PopAdvance
    BY <2>3, PopRefines DEF Queue!Next
  <2>4. CASE PopNonEmpty \/ PopCopy \/ PopEmpty \/ UNCHANGED bufferVars
    BY <2>4 DEF PopNonEmpty, PopCopy, PopEmpty, bufferVars, Waiting, Count
  <2> QED
    BY <2>1, <2>2, <2>3, <2>4 DEF BufferNext, keyboard_buffer_push, keyboard_buffer_pop
<1> QED
  BY <1>1, <1>2, BufferConsistent, PTL DEF BufferSpec, ImplementsFifo, Queue!Spec

-----------------------------------------------------------------------------
(* The buffer below a program *)

\* A step of the system is one of the buffer.
LEMMA SyscallStepsBuffer == [Next]_vars => [BufferNext]_bufferVars
<1> SUFFICES ASSUME [Next]_vars PROVE [BufferNext]_bufferVars
  OBVIOUS
<1>1. CASE Program
  BY <1>1 DEF Program, Int80, Exception, DirectPop, BufferNext
<1>2. CASE syscall_handler
  BY <1>2 DEF syscall_handler
<1>3. CASE sys_read
  BY <1>3 DEF sys_read, ReadWait, ReadPop, ReadStore, ReadDone, BufferNext, keyboard_buffer_pop
<1>4. CASE \E ch \in Chars : Keyboard(ch)
  BY <1>4 DEF Keyboard, BufferNext
<1>5. CASE UNCHANGED vars
  BY <1>5 DEF vars
<1> QED BY <1>1, <1>2, <1>3, <1>4, <1>5 DEF Next

\* The ring below system calls and direct pops is consistent for every size.
THEOREM SyscallBufferConsistent == Spec => []BufferInv
<1>1. Init => BufferInv
  BY InitInv DEF Init
<1>2. BufferInv /\ [Next]_vars => BufferInv'
  BY SyscallStepsBuffer, NextInv
<1> QED BY <1>1, <1>2, PTL DEF Spec

\* Under the system's steps, too, the ring implements the queue.
THEOREM SyscallImplementsFifo == Spec => ImplementsFifo
<1>1. Init => BufferInit
  BY DEF Init
<1> QED BY <1>1, SyscallStepsBuffer, BufferImplementsFifo, PTL DEF Spec, BufferSpec

-----------------------------------------------------------------------------
(* The order of the characters *)

AnyChar == Chars \cup {NoChar}

OrderInv == BufferInv /\ ReadsInOrder /\ got \in Seq(AnyChar) /\ stored \in Seq(AnyChar)

LEMMA AppendBehind ==
  ASSUME NEW S, NEW s \in Seq(S), NEW t \in Seq(S), NEW e \in S
  PROVE  s \o Append(t, e) = Append(s \o t, e)
OBVIOUS

LEMMA MoveHead ==
  ASSUME NEW S, NEW s \in Seq(S), NEW t \in Seq(S), t # <<>>
  PROVE  Append(s, Head(t)) \o Tail(t) = s \o t
OBVIOUS

\* What a step does to the queue, and to the two histories.
OrderKept ==
  \/ UNCHANGED <<Waiting, got, stored>>
  \/ \E ch \in Chars : /\ Waiting' = Append(Waiting, ch) /\ stored' = Append(stored, ch)
                       /\ UNCHANGED got
  \/ /\ Waiting # <<>> /\ Waiting' = Tail(Waiting)
     /\ got' = Append(got, Head(Waiting)) /\ UNCHANGED stored

LEMMA PopSteps ==
  ASSUME BufferInv, BufferInv', keyboard_buffer_pop, UNCHANGED stored,
         got' = IF pop = "advance" THEN Append(got, returned') ELSE got
  PROVE  OrderKept
<1>1. CASE PopAdvance
  BY <1>1, PopRefines DEF OrderKept, PopAdvance, Queue!Pop
<1>2. CASE PopEmpty \/ PopNonEmpty \/ PopCopy
  BY <1>2 DEF OrderKept, PopEmpty, PopNonEmpty, PopCopy, bufferVars, Waiting, Count
<1> QED BY <1>1, <1>2 DEF keyboard_buffer_pop

LEMMA NextKeepsOrder == ASSUME BufferInv, BufferInv', [Next]_vars PROVE OrderKept
<1>1. CASE UNCHANGED <<bufferVars, got, stored>>
  BY <1>1 DEF OrderKept, bufferVars, Waiting, Count
<1>2. ASSUME NEW ch \in Chars, Keyboard(ch) PROVE OrderKept
  <2>1. CASE PushStored(ch)
    <3>1. Succ(kb_head) # kb_head
      BY BufferAssumption, SuccInSlots DEF BufferInv, BufferTypeOK, BufferAssumption, N, Slots
    <3> QED BY <1>2, <2>1, <3>1, PushRefines DEF Keyboard, PushStored, OrderKept, Queue!Push
  <2>2. CASE PushDropped
    BY <1>2, <2>2 DEF Keyboard, PushDropped, OrderKept, Waiting, Count
  <2> QED BY <1>2, <2>1, <2>2 DEF Keyboard, keyboard_buffer_push
<1>3. CASE DirectPop
  BY <1>3, PopSteps DEF DirectPop
<1>4. CASE sys_read
  <2>1. CASE ReadWait \/ ReadDone
    BY <1>1, <2>1 DEF ReadWait, PopEmpty, ReadDone
  <2>2. CASE ReadPop
    BY <2>2, PopSteps DEF ReadPop, PopNonEmpty, PopCopy, keyboard_buffer_pop
  <2>3. CASE ReadStore
    BY <2>3, PopSteps DEF ReadStore, PopAdvance, Popped_c, keyboard_buffer_pop
  <2> QED BY <1>4, <2>1, <2>2, <2>3 DEF sys_read
<1>5. CASE syscall_handler
  BY <1>1, <1>5 DEF syscall_handler
<1>6. CASE Program /\ ~DirectPop
  BY <1>1, <1>6 DEF Program, Int80, Exception
<1> QED BY <1>1, <1>2, <1>3, <1>4, <1>5, <1>6 DEF Next, vars

\* Characters are read in the order they entered the buffer, each once, for
\* every size, however reads, direct pops and arrivals interleave.
THEOREM SyscallReadsInOrder == Spec => []ReadsInOrder
<1>1. Init => OrderInv
  <2> SUFFICES ASSUME Init PROVE OrderInv
    OBVIOUS
  <2>1. Count = 0 /\ Waiting = <<>>
    BY DEF Init, BufferInit, Count, Waiting
  <2> QED BY <2>1, InitInv DEF Init, OrderInv, ReadsInOrder
<1>2. OrderInv /\ [Next]_vars => OrderInv'
  <2> SUFFICES ASSUME OrderInv, [Next]_vars PROVE OrderInv'
    OBVIOUS
  <2>1. BufferInv /\ BufferInv' /\ OrderKept
    BY SyscallStepsBuffer, NextInv, NextKeepsOrder DEF OrderInv
  <2>2. Waiting \in Seq(AnyChar) /\ got \in Seq(AnyChar) /\ stored \in Seq(AnyChar)
    BY <2>1, WaitingIsSeq DEF OrderInv, AnyChar
  <2>3. CASE UNCHANGED <<Waiting, got, stored>>
    BY <2>1, <2>3 DEF OrderInv, ReadsInOrder
  <2>4. ASSUME NEW ch \in Chars, Waiting' = Append(Waiting, ch), stored' = Append(stored, ch), got' = got
        PROVE  OrderInv'
    <3>1. ch \in AnyChar
      BY DEF AnyChar
    <3>2. stored' \in Seq(AnyChar)
      BY <2>2, <2>4, <3>1
    <3>3. stored' = got' \o Waiting'
      <4>1. got \o Append(Waiting, ch) = Append(got \o Waiting, ch)
        BY <2>2, <3>1, AppendBehind
      <4> QED BY <2>4, <4>1 DEF OrderInv, ReadsInOrder
    <3> QED BY <2>1, <2>2, <2>4, <3>2, <3>3 DEF OrderInv, ReadsInOrder
  <2>5. CASE /\ Waiting # <<>> /\ Waiting' = Tail(Waiting)
             /\ got' = Append(got, Head(Waiting)) /\ UNCHANGED stored
    <3>1. Head(Waiting) \in AnyChar
      BY <2>2, <2>5
    <3>2. got' \in Seq(AnyChar)
      BY <2>2, <2>5, <3>1
    <3> QED BY <2>1, <2>2, <2>5, <3>2, MoveHead DEF OrderInv, ReadsInOrder
  <2> QED BY <2>1, <2>3, <2>4, <2>5 DEF OrderKept
<1>3. OrderInv => ReadsInOrder
  BY DEF OrderInv
<1> QED BY <1>1, <1>2, <1>3, PTL DEF Spec

-----------------------------------------------------------------------------
(* The gate *)

GateInv == run # "user" => ~IF_flag

LEMMA GateInvNext == GateInv /\ [Next]_vars => GateInv'
<1> SUFFICES ASSUME GateInv, [Next]_vars PROVE GateInv'
  OBVIOUS
<1>1. CASE UNCHANGED <<run, IF_flag>>
  BY <1>1 DEF GateInv
<1>2. CASE Program
  BY <1>1, <1>2 DEF Program, Int80, Gate, Exception, DirectPop, callVars, GateInv
<1>3. CASE syscall_handler
  <2>1. \/ run = "handler" /\ UNCHANGED IF_flag
        \/ run' = "user" /\ IF_flag' = TRUE
        \/ IF_flag' = FALSE
    BY <1>3, Zenon DEF syscall_handler, sys_read_begins, sys_write_and_errors, sys_exit, Return
  <2> QED BY <2>1, Zenon DEF GateInv
<1>4. CASE sys_read
  <2>1. \/ run = "read" /\ UNCHANGED IF_flag
        \/ run' = "user" /\ IF_flag' = TRUE
    BY <1>4, Zenon DEF sys_read, ReadWait, ReadPop, ReadStore, ReadDone, Return, callVars
  <2> QED BY <2>1, Zenon DEF GateInv
<1>5. CASE \E ch \in Chars : Keyboard(ch)
  BY <1>5 DEF Keyboard, GateInv
<1>6. CASE UNCHANGED vars
  BY <1>1, <1>6 DEF vars, callVars
<1> QED BY <1>2, <1>3, <1>4, <1>5, <1>6 DEF Next

-----------------------------------------------------------------------------
(* The frame *)

\* The k-th pop takes what was pushed k-th from the end, and C calls its slot by
\* the same name; no two slots have one name.
LEMMA OrdersAgree ==
  /\ DOMAIN Pushed = 1 .. 15 /\ DOMAIN Popped = 1 .. 15 /\ DOMAIN cpu_registers_t = 1 .. 17
  /\ \A k \in 1 .. 15 : Popped[k] = Pushed[16 - k] /\ cpu_registers_t[2 + k] = Popped[k]
BY SMT DEF Pushed, Popped, cpu_registers_t

LEMMA NamesDiffer ==
  /\ \A k, n \in 1 .. 15 : Popped[k] = Popped[n] => k = n
  /\ \A k, n \in 1 .. 17 : cpu_registers_t[k] = cpu_registers_t[n] => k = n
BY SMT DEF Popped, cpu_registers_t

LEMMA RegistersPopped == Registers = {Popped[k] : k \in 1 .. 15} /\ Popped[15] = "rax"
<1>1. Registers = {Pushed[k] : k \in 1 .. 15}
  BY OrdersAgree DEF Registers, ToSet
<1>2. \A k \in 1 .. 15 : 16 - k \in 1 .. 15 /\ Pushed[k] = Popped[16 - k]
  BY OrdersAgree
<1> QED BY <1>1, <1>2, OrdersAgree DEF Popped

LEMMA PlaceIs ==
  ASSUME NEW order, NEW k \in DOMAIN order, order[k] \in Registers,
         \A n \in DOMAIN order : order[n] = order[k] => n = k
  PROVE  Place(order)[order[k]] = k
BY Zenon DEF Place

LEMMA Places ==
  ASSUME NEW k \in 1 .. 15
  PROVE  Popping[Popped[k]] = k /\ Slot[Popped[k]] = 2 + k
<1>1. Popping[Popped[k]] = k
  BY PlaceIs, OrdersAgree, NamesDiffer, RegistersPopped DEF Popping
<1>2. 2 + k \in 1 .. 17 /\ cpu_registers_t[2 + k] = Popped[k]
  BY OrdersAgree
<1>3. Place(cpu_registers_t)[cpu_registers_t[2 + k]] = 2 + k
  BY <1>2, PlaceIs, OrdersAgree, NamesDiffer, RegistersPopped
<1> QED BY <1>1, <1>2, <1>3 DEF Slot

LEMMA Behind ==
  ASSUME NEW S, NEW s \in Seq(S), NEW t \in Seq(S),
         NEW m, NEW n, Len(s) = m, Len(t) = n, NEW k \in 1 .. n
  PROVE  DOMAIN (s \o t) = 1 .. m + n /\ (s \o t)[m + k] = t[k]
<1>1. DOMAIN (s \o t) = 1 .. Len(s) + Len(t)
  OBVIOUS
<1> QED BY <1>1

LEMMA PushedSlots ==
  ASSUME NEW R, NEW k \in 1 .. 15
  PROVE  Len(PUSH_REGS(R)) = 15 /\ PUSH_REGS(R)[k] = R[Popped[k]]
<1> DEFINE list == [n \in DOMAIN Pushed |-> R[Pushed[n]]]
<1>1. Len(list) = 15 /\ list[16 - k] = R[Pushed[16 - k]]
  BY OrdersAgree
<1>2. PUSH_REGS(R) = [n \in 1 .. 15 |-> list[(15 - n) + 1]]
  BY <1>1 DEF PUSH_REGS, Reverse
<1> HIDE DEF list
<1> QED BY <1>1, <1>2, OrdersAgree

Stack(vector, R) == <<vector, 0>> \o PUSH_REGS(R)

\* Each register is found where the frame keeps it.
LEMMA FrameSlot ==
  ASSUME NEW vector, NEW R, NEW k \in 1 .. 15
  PROVE  DOMAIN Stack(vector, R) = 1 .. 17 /\ Stack(vector, R)[2 + k] = R[Popped[k]]
<1> DEFINE P == PUSH_REGS(R)
           S == {R[r] : r \in Registers} \cup {vector, 0}
           head == <<vector, 0>>
<1>1. \A n \in 1 .. 15 : P[n] = R[Popped[n]] /\ Popped[n] \in Registers
  BY PushedSlots, RegistersPopped
<1>2. P = [n \in 1 .. 15 |-> P[n]]
  BY OrdersAgree DEF PUSH_REGS, Reverse
<1>3. \A n \in 1 .. 15 : P[n] \in S
  BY <1>1
<1> DEFINE m == 2
           n == 15
<1>4. head \in Seq(S) /\ Len(head) = m /\ m + n = 17 /\ k \in 1 .. n
  OBVIOUS
<1>5. Len(P) = n
  BY PushedSlots
<1> HIDE DEF P, S, head
<1>6. P \in Seq(S)
  BY <1>2, <1>3
<1> HIDE DEF m, n
<1>7. DOMAIN (head \o P) = 1 .. m + n /\ (head \o P)[m + k] = P[k]
  BY <1>4, <1>5, <1>6, Behind
<1> QED BY <1>1, <1>4, <1>7 DEF P, head, m, Stack

\* What a handler leaves in the frame, the stub gives back: iretq returns to the
\* registers that were interrupted, but for the slots that were written.
LEMMA LeaveGivesBack ==
  ASSUME NEW f, NEW k \in 1 .. 15
  PROVE  Leave(f)[Popped[k]] = f[2 + k]
BY Places, RegistersPopped DEF Leave

LEMMA LeaveEnter ==
  ASSUME NEW vector, NEW code, NEW R, DOMAIN R = Registers, NEW r \in Registers,
         vector \notin ErrorVectors \/ r # "rax"
  PROVE  Leave(Enter(vector, code, R))[r] = R[r]
<1>1. PICK k \in 1 .. 15 : r = Popped[k]
  BY RegistersPopped
<1>2. ASSUME NEW Q PROVE Leave(Stack(vector, Q))[r] = Q[r]
  <2>1. Stack(vector, Q)[2 + k] = Q[Popped[k]]
    BY FrameSlot
  <2> QED BY <1>1, <2>1, LeaveGivesBack
<1>3. CASE vector \notin ErrorVectors
  <2>1. Enter(vector, code, R) = Stack(vector, R)
    BY <1>3 DEF Enter, Stack
  <2> QED BY <1>2, <2>1, Zenon
<1>4. CASE vector \in ErrorVectors
  <2> DEFINE Q == [R EXCEPT !["rax"] = code]
  <2>1. Enter(vector, code, R) = Stack(vector, Q)
    BY <1>4 DEF Enter, Stack
  <2>2. Q[r] = R[r]
    BY <1>4
  <2> QED BY <1>2, <2>1, <2>2, Zenon
<1> QED BY <1>3, <1>4

\* A system call that returns value.
Answered(f, value) == [f EXCEPT ![Slot["rax"]] = value]

LEMMA LeaveReturn ==
  ASSUME NEW vector, vector \notin ErrorVectors, NEW R, NEW value, NEW r \in Registers
  PROVE  Leave(Answered(Enter(vector, 0, R), value))[r]
           = IF r = "rax" THEN value ELSE R[r]
<1> DEFINE f == Enter(vector, 0, R)
<1>1. PICK k \in 1 .. 15 : r = Popped[k]
  BY RegistersPopped
<1>2. Slot["rax"] = 17 /\ (r = "rax" <=> k = 15)
  BY <1>1, Places, RegistersPopped, NamesDiffer
<1>3. DOMAIN f = 1 .. 17 /\ f[2 + k] = R[r]
  <2>1. f = Stack(vector, R)
    BY DEF Enter, Stack
  <2> QED BY <1>1, <2>1, FrameSlot
<1>4. Leave([f EXCEPT ![17] = value])[r] = [f EXCEPT ![17] = value][2 + k]
  BY <1>1, LeaveGivesBack
<1> HIDE DEF f
<1>5. [f EXCEPT ![17] = value][2 + k] = IF k = 15 THEN value ELSE R[r]
  BY <1>3
<1> QED BY <1>2, <1>4, <1>5 DEF f, Answered

FrameInv == run # "user" => frame = Enter(128, 0, regs)

LEMMA FrameInvNext == GateInv /\ FrameInv /\ [Next]_vars => FrameInv'
<1> SUFFICES ASSUME GateInv, FrameInv, [Next]_vars PROVE FrameInv'
  OBVIOUS
<1>1. CASE UNCHANGED <<run, frame, regs>> \/ run' = "user"
  BY <1>1, Zenon DEF FrameInv
<1>2. CASE run # "user" /\ UNCHANGED <<frame, regs>>
  BY <1>2, Zenon DEF FrameInv
<1>3. CASE Program
  <2>1. CASE \E call, file, n : Int80(call, file, n)
    BY <2>1, Zenon DEF Int80, FrameInv
  <2>2. CASE \E vector, code : Exception(vector, code)
    BY <1>1, <2>2, Zenon DEF Exception
  <2>3. CASE DirectPop
    BY <1>1, <2>3, Zenon DEF DirectPop, callVars
  <2> QED BY <1>3, <2>1, <2>2, <2>3, Zenon DEF Program
<1>4. CASE syscall_handler
  <2>1. run # "user" /\ (run' = "user" \/ UNCHANGED <<frame, regs>>)
    BY <1>4, Zenon DEF syscall_handler, sys_read_begins, sys_write_and_errors, sys_exit, Return
  <2> QED BY <1>1, <1>2, <2>1
<1>5. CASE sys_read
  <2>1. run # "user" /\ (run' = "user" \/ UNCHANGED <<frame, regs>>)
    BY <1>5, Zenon DEF sys_read, ReadWait, ReadPop, ReadStore, ReadDone, Return, callVars
  <2> QED BY <1>1, <1>2, <2>1
<1>6. CASE \E ch \in Chars : Keyboard(ch)
  <2>1. run = "user" /\ run' = run
    BY <1>6, Zenon DEF Keyboard, GateInv
  <2> QED BY <1>1, <2>1
<1>7. CASE UNCHANGED vars
  BY <1>1, <1>7 DEF vars, callVars
<1> QED BY <1>3, <1>4, <1>5, <1>6, <1>7 DEF Next

FrameInvs == GateInv /\ FrameInv /\ DOMAIN regs = Registers

LEMMA InitFrameInvs == Init => FrameInvs
BY DEF Init, FrameInvs, GateInv, FrameInv

LEMMA ReturnGives ==
  ASSUME FrameInvs, run # "user", NEW value, Return(value), NEW r \in Registers
  PROVE  regs'[r] = IF r = "rax" THEN value ELSE regs[r]
<1> DEFINE vector == 128
<1>1. vector \notin ErrorVectors /\ FrameInv = (run # "user" => frame = Enter(vector, 0, regs))
  BY SMT DEF ErrorVectors, FrameInv
<1> HIDE DEF vector
<1>2. regs' = Leave(Answered(Enter(vector, 0, regs), value))
  BY <1>1, Zenon DEF FrameInvs, Return, Answered
<1>3. Leave(Answered(Enter(vector, 0, regs), value))[r]
        = IF r = "rax" THEN value ELSE regs[r]
  BY <1>1, LeaveReturn
<1> QED BY <1>2, <1>3, Zenon

LEMMA NextFrameInvs == FrameInvs /\ [Next]_vars => FrameInvs'
<1> SUFFICES ASSUME FrameInvs, [Next]_vars PROVE (DOMAIN regs = Registers)'
  BY GateInvNext, FrameInvNext DEF FrameInvs
<1>1. CASE UNCHANGED regs
  BY <1>1 DEF FrameInvs
<1>2. CASE \E f : regs' = Leave(f)
  BY <1>2 DEF Leave
<1>3. CASE \E call, file, n : Int80(call, file, n)
  BY <1>3, Zenon DEF Int80, FrameInvs
<1>4. CASE Program
  BY <1>1, <1>2, <1>3, <1>4, Zenon DEF Program, Exception, DirectPop, callVars
<1>5. CASE syscall_handler
  BY <1>1, <1>2, <1>5, Zenon DEF syscall_handler, sys_read_begins, sys_write_and_errors, sys_exit, Return
<1>6. CASE sys_read
  BY <1>1, <1>2, <1>6, Zenon DEF sys_read, ReadWait, ReadPop, ReadStore, ReadDone, Return, callVars
<1>7. CASE \E ch \in Chars : Keyboard(ch)
  BY <1>2, <1>7, Zenon DEF Keyboard
<1>8. CASE UNCHANGED vars
  BY <1>1, <1>8 DEF vars, callVars
<1> QED BY <1>4, <1>5, <1>6, <1>7, <1>8 DEF Next

\* How a program is entered: from an interrupt it did not ask for, which gives
\* every register back (an exception with an error code all but rax), or from
\* the system call it made.
LEMMA BackToUser ==
  ASSUME FrameInvs, [Next]_vars, run' = "user", ~UNCHANGED regs
  PROVE  \/ /\ run = "user"
            /\ \/ \E ch \in Chars : Keyboard(ch)
               \/ \E vector \in {3, 14} : Exception(vector, 2)
         \/ run = "handler" /\ \E value : Return(value)
         \/ run = "read" /\ ReadDone
<1>1. CASE Program
  BY <1>1 DEF Program, Int80, Exception, DirectPop, callVars
<1>2. CASE syscall_handler
  BY <1>2, Zenon DEF syscall_handler, sys_read_begins, sys_write_and_errors, sys_exit
<1>3. CASE sys_read
  BY <1>3, Zenon DEF sys_read, ReadWait, ReadPop, ReadStore, ReadDone, callVars
<1>4. CASE \E ch \in Chars : Keyboard(ch)
  BY <1>4, Zenon DEF Keyboard, FrameInvs, GateInv
<1>5. CASE UNCHANGED vars
  BY <1>5 DEF vars, callVars
<1> QED BY <1>1, <1>2, <1>3, <1>4, <1>5 DEF Next

KeepsRegisters ==
  run' = "user" =>
    /\ \A r \in Registers \ {"rax"} : regs'[r] = regs[r]
    /\ run = "user" => regs'["rax"] = regs["rax"] \/ \E v \in ErrorVectors : Exception(v, 2)

LEMMA StepKeepsRegisters == FrameInvs /\ [Next]_vars => KeepsRegisters
<1> SUFFICES ASSUME FrameInvs, [Next]_vars, run' = "user", ~UNCHANGED regs PROVE KeepsRegisters
  BY DEF KeepsRegisters
<1>1. "rax" \in Registers
  BY RegistersPopped
<1>2. CASE run = "user" /\ \E ch \in Chars : Keyboard(ch)
  <2>1. regs' = Leave(Enter(33, 0, regs))
    BY <1>2, Zenon DEF Keyboard
  <2>2. \A r \in Registers : regs'[r] = regs[r]
    BY <2>1, LeaveEnter DEF FrameInvs, ErrorVectors
  <2> QED BY <1>1, <2>2, Zenon DEF KeepsRegisters
<1>3. CASE run = "user" /\ Exception(3, 2)
  <2>1. regs' = Leave(Enter(3, 2, regs))
    BY <1>3, Zenon DEF Exception
  <2>2. \A r \in Registers : regs'[r] = regs[r]
    BY <2>1, LeaveEnter DEF FrameInvs, ErrorVectors
  <2> QED BY <1>1, <2>2, Zenon DEF KeepsRegisters
<1>4. CASE run = "user" /\ Exception(14, 2)
  <2>1. regs' = Leave(Enter(14, 2, regs))
    BY <1>4, Zenon DEF Exception
  <2>2. \A r \in Registers \ {"rax"} : regs'[r] = regs[r]
    BY <2>1, LeaveEnter DEF FrameInvs
  <2>3. 14 \in ErrorVectors
    BY DEF ErrorVectors
  <2> QED BY <1>4, <2>2, <2>3, Zenon DEF KeepsRegisters
<1>5. ASSUME run # "user", NEW value, Return(value) PROVE KeepsRegisters
  BY <1>5, ReturnGives DEF KeepsRegisters
<1>6. CASE run = "read" /\ ReadDone
  BY <1>5, <1>6, Zenon DEF ReadDone
<1>7. CASE run = "handler" /\ \E value : Return(value)
  BY <1>5, <1>7
<1> QED BY <1>2, <1>3, <1>4, <1>6, <1>7, BackToUser

\* The stubs of isr.asm give a program back every register the code they
\* interrupted it for did not write, for whatever those registers held.
THEOREM SyscallKeepsRegisters == Spec => ProgramKeepsRegisters
<1>1. FrameInvs /\ [Next]_vars =>
        [run' = "user" =>
           /\ \A r \in Registers \ {"rax"} : regs'[r] = regs[r]
           /\ run = "user" => regs'["rax"] = regs["rax"] \/ \E v \in ErrorVectors : Exception(v, 2)]_vars
  BY StepKeepsRegisters, Zenon DEF KeepsRegisters
<1> QED BY <1>1, InitFrameInvs, NextFrameInvs, PTL DEF Spec, ProgramKeepsRegisters

\* The count sys_read compares with is the rdx the program called it with.
LEMMA CountIsAsked == FrameInvs /\ run # "user" => count = regs["rdx"]
<1> SUFFICES ASSUME FrameInvs, run # "user" PROVE count = regs["rdx"]
  OBVIOUS
<1>1. Popped[13] = "rdx"
  BY SMT DEF Popped
<1>2. Slot["rdx"] = 15
  BY <1>1, Places
<1> DEFINE vector == 128
           k == 13
<1>3. frame = Stack(vector, regs)
  BY SMT DEF FrameInvs, FrameInv, Enter, ErrorVectors, Stack
<1>4. k \in 1 .. 15 /\ 2 + k = 15 /\ Popped[k] = "rdx"
  BY <1>1
<1> HIDE DEF k, vector
<1>5. Stack(vector, regs)[2 + k] = regs[Popped[k]]
  BY <1>4, FrameSlot
<1> QED BY <1>2, <1>3, <1>4, <1>5, Zenon DEF count, Field

\* A read that returns has stored as many characters as it was asked for.
THEOREM SyscallReadNeverShort == Spec => ReadNeverShort
<1>1. FrameInvs /\ [Next]_vars =>
        [(run \in {"read", "hlt"} /\ run' = "user") => (regs'["rax"] = regs["rdx"] /\ i = count)]_vars
  <2> SUFFICES ASSUME FrameInvs, [Next]_vars, run \in {"read", "hlt"}, run' = "user"
               PROVE  regs'["rax"] = regs["rdx"] /\ i = count
    OBVIOUS
  <2>1. ReadDone
    <3>1. CASE Program
      BY <3>1 DEF Program, Int80, Exception, DirectPop
    <3>2. CASE sys_read
      BY <3>2 DEF sys_read, ReadWait, ReadPop, ReadStore, callVars
    <3>3. CASE \E ch \in Chars : Keyboard(ch)
      BY <3>3 DEF Keyboard, FrameInvs, GateInv
    <3>4. CASE UNCHANGED vars \/ syscall_handler
      BY <3>4 DEF vars, callVars, syscall_handler
    <3> QED BY <3>1, <3>2, <3>3, <3>4 DEF Next
  <2>2. i = count /\ Return(i)
    BY <2>1, Zenon DEF ReadDone
  <2>3. "rax" \in Registers
    BY RegistersPopped
  <2>4. regs'["rax"] = i
    BY <2>2, <2>3, ReturnGives
  <2> QED BY <2>2, <2>4, CountIsAsked
<1> QED BY <1>1, InitFrameInvs, NextFrameInvs, PTL DEF Spec, ReadNeverShort
=============================================================================
