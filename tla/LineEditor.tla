----------------------------- MODULE LineEditor -----------------------------
(***************************************************************************)
(* What a line editor does to the text before and behind its cursor.       *)
(***************************************************************************)
EXTENDS Sequences, SequencesExt

CONSTANT EditorChars

VARIABLES left, right

editorVars == <<left, right>>

Empty == left = <<>> /\ right = <<>>

Insert(ch) == left' = Append(left, ch) /\ UNCHANGED right

Erase == left # <<>> /\ left' = Front(left) /\ UNCHANGED right

MoveLeft == left # <<>> /\ left' = Front(left) /\ right' = <<Last(left)>> \o right

MoveRight == right # <<>> /\ left' = Append(left, Head(right)) /\ right' = Tail(right)

\* The line is accepted; the cursor is before it until a new line begins.
Accept == left' = <<>> /\ right' = left \o right

Begin == left' = <<>> /\ right' = <<>>

Next == (\E ch \in EditorChars : Insert(ch)) \/ Erase \/ MoveLeft \/ MoveRight \/ Accept \/ Begin

Spec == Empty /\ [][Next]_editorVars
=============================================================================
