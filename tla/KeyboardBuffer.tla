--------------------------- MODULE KeyboardBuffer ---------------------------
(***************************************************************************)
(* The ring buffer of drivers/input/keyboard.c between an interrupt        *)
(* handler that pushes characters and a thread that pops them.  The        *)
(* handler runs with interrupts disabled, so a push is one step; a pop is  *)
(* interrupted between its loads and stores: it compares the indices, then *)
(* copies a character, then moves kb_tail.  kb_head and kb_tail are        *)
(* uint32_t but stay below KB_BUF_SIZE, so nothing wraps at 2^32.          *)
(***************************************************************************)
EXTENDS Integers, Sequences

CONSTANTS
  Chars,        \* the characters that are pushed
  NoChar,       \* what kb_buf holds before any of them
  KB_BUF_SIZE

ASSUME BufferAssumption == KB_BUF_SIZE \in Nat /\ KB_BUF_SIZE > 1

VARIABLES
  kb_buf, kb_head, kb_tail,
  pop,       \* where the thread is: "idle", "copy" or "advance"
  c,         \* the character it copied, keyboard_buffer_pop's *c
  returned,  \* the character the last successful pop returned
  overrun    \* history: a push found the buffer full

bufferVars == <<kb_buf, kb_head, kb_tail, pop, c, returned, overrun>>

Slots == 0 .. KB_BUF_SIZE - 1
Succ(i) == (i + 1) % KB_BUF_SIZE

BufferInit ==
  /\ kb_buf = [i \in Slots |-> NoChar]
  /\ kb_head = 0 /\ kb_tail = 0
  /\ pop = "idle" /\ c = NoChar /\ returned = NoChar
  /\ overrun = FALSE

\* Variant: a push that does not look whether the buffer is full.
PushStored_NoCheck(ch) ==
  /\ kb_buf' = [kb_buf EXCEPT ![kb_head] = ch]
  /\ kb_head' = Succ(kb_head)
  /\ UNCHANGED <<kb_tail, pop, c, returned, overrun>>

\* Variant: kb_head moves before the character is stored.
PushStored_HeadFirst(ch) ==
  /\ Succ(kb_head) # kb_tail
  /\ kb_buf' = [kb_buf EXCEPT ![Succ(kb_head)] = ch]
  /\ kb_head' = Succ(kb_head)
  /\ UNCHANGED <<kb_tail, pop, c, returned, overrun>>

PushStored(ch) ==
  /\ Succ(kb_head) # kb_tail
  /\ kb_buf' = [kb_buf EXCEPT ![kb_head] = ch]
  /\ kb_head' = Succ(kb_head)
  /\ UNCHANGED <<kb_tail, pop, c, returned, overrun>>

PushDropped ==
  /\ Succ(kb_head) = kb_tail
  /\ overrun' = TRUE
  /\ UNCHANGED <<kb_buf, kb_head, kb_tail, pop, c, returned>>

keyboard_buffer_push(ch) == PushStored(ch) \/ PushDropped

PopEmpty ==
  /\ pop = "idle"
  /\ kb_head = kb_tail
  /\ UNCHANGED bufferVars

PopNonEmpty ==
  /\ pop = "idle"
  /\ kb_head # kb_tail
  /\ pop' = "copy"
  /\ UNCHANGED <<kb_buf, kb_head, kb_tail, c, returned, overrun>>

PopCopy ==
  /\ pop = "copy"
  /\ c' = kb_buf[kb_tail]
  /\ pop' = "advance"
  /\ UNCHANGED <<kb_buf, kb_head, kb_tail, returned, overrun>>

PopAdvance ==
  /\ pop = "advance"
  /\ kb_tail' = Succ(kb_tail)
  /\ returned' = c
  /\ pop' = "idle"
  /\ UNCHANGED <<kb_buf, kb_head, c, overrun>>

keyboard_buffer_pop == PopEmpty \/ PopNonEmpty \/ PopCopy \/ PopAdvance

BufferNext == (\E ch \in Chars : keyboard_buffer_push(ch)) \/ keyboard_buffer_pop

BufferSpec == BufferInit /\ [][BufferNext]_bufferVars

-----------------------------------------------------------------------------
(* Properties *)

BufferTypeOK ==
  /\ kb_buf \in [Slots -> Chars \cup {NoChar}]
  /\ kb_head \in Slots /\ kb_tail \in Slots
  /\ pop \in {"idle", "copy", "advance"}
  /\ {c, returned} \subseteq Chars \cup {NoChar}
  /\ overrun \in BOOLEAN

\* A pop under way keeps its character: pushes that interrupt it neither empty
\* the buffer nor reach the slot at kb_tail, even when the ring is full.
PopUndisturbed ==
  /\ pop # "idle" => kb_head # kb_tail
  /\ pop = "advance" => c = kb_buf[kb_tail]

\* The ring and the pop that is under way stay consistent with each other.
BufferInv == BufferTypeOK /\ PopUndisturbed

Count == IF kb_head >= kb_tail THEN kb_head - kb_tail ELSE kb_head - kb_tail + KB_BUF_SIZE
Waiting == [i \in 1 .. Count |-> kb_buf[(kb_tail + i - 1) % KB_BUF_SIZE]]

\* The ring implements a queue of KB_BUF_SIZE - 1 characters: whatever order
\* pushes interrupt the steps of a pop in, characters come out in the order
\* they went in, once each, and one is dropped only when the queue is full.
Queue == INSTANCE Fifo WITH queue <- Waiting, Capacity <- KB_BUF_SIZE - 1
ImplementsFifo == Queue!Spec
=============================================================================
