----------------------------- MODULE Tokenizer -----------------------------
(***************************************************************************)
(* What strtok promises: the tokens of a text one by one, from the front.  *)
(* It keeps the rest of one text; a call with a text begins with that one, *)
(* a call without goes on, and each call has delimiters of its own.        *)
(***************************************************************************)
EXTENDS SequencesExt

CONSTANTS
  Texts,       \* the texts there are
  Delimiters,  \* sets of characters
  None         \* no token

VARIABLES
  given,  \* the text the last call was given, or None to go on
  rest,   \* what is left
  token   \* what the last call returned

Init == given = None /\ rest = <<>> /\ token = None

\* The token is the longest run of no delimiter behind leading delimiters; it
\* and the one delimiter behind it are taken off.
Take(text, delimiters) ==
  LET from == SelectInSeq(text, LAMBDA c : c \notin delimiters)
      run == SubSeq(text, from, Len(text))
      end == SelectInSeq(run, LAMBDA c : c \in delimiters)
  IN  IF from = 0 THEN rest' = <<>> /\ token' = None
      ELSE IF end = 0 THEN rest' = <<>> /\ token' = run
      ELSE rest' = SubSeq(run, end + 1, Len(run)) /\ token' = SubSeq(run, 1, end - 1)

Begin == given' \in Texts /\ \E delimiters \in Delimiters : Take(given', delimiters)
Continue == given' = None /\ \E delimiters \in Delimiters : Take(rest, delimiters)

Next == Begin \/ Continue

Spec == Init /\ [][Next]_<<given, rest, token>>
=============================================================================
