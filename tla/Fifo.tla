-------------------------------- MODULE Fifo --------------------------------
(***************************************************************************)
(* What a keyboard buffer promises: the characters pushed come back in     *)
(* order, each once, and one is lost only when Capacity characters wait.   *)
(***************************************************************************)
EXTENDS Naturals, Sequences

CONSTANTS Chars, NoChar, Capacity

VARIABLES
  queue,     \* the characters that wait
  returned,  \* the character the last successful pop returned
  overrun    \* has a character ever been lost?

Init == queue = <<>> /\ returned = NoChar /\ overrun = FALSE

Push(ch) == /\ Len(queue) < Capacity
            /\ queue' = Append(queue, ch)
            /\ UNCHANGED <<returned, overrun>>

Lose == /\ Len(queue) = Capacity
        /\ overrun' = TRUE
        /\ UNCHANGED <<queue, returned>>

Pop == /\ queue # <<>>
       /\ returned' = Head(queue)
       /\ queue' = Tail(queue)
       /\ UNCHANGED overrun

Next == (\E ch \in Chars : Push(ch)) \/ Lose \/ Pop

Spec == Init /\ [][Next]_<<queue, returned, overrun>>
=============================================================================
