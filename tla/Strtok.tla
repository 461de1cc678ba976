------------------------------- MODULE Strtok -------------------------------
(***************************************************************************)
(* strtok of libc/string.c: last_token, a static variable, points into the *)
(* string that is scanned, and the delimiter behind a token is overwritten *)
(* by the NUL that ends it.  A program has several strings, begins one in  *)
(* the middle of another or anew, goes on with other delimiters, and asks  *)
(* for more tokens than there are.                                         *)
(***************************************************************************)
EXTENDS Text

CONSTANTS
  Buffers,     \* the program's strings
  Texts,       \* what they hold at first
  Delimiters,  \* the sets of delimiters it uses
  Nil         \* NULL

\* A text that is cut short is one of Texts; a delimiter is not the NUL.
ASSUME StrtokAssumption ==
  /\ Texts \subseteq Seq(1 .. 255)
  /\ \A t \in Texts : \A n \in 0 .. Len(t) : SubSeq(t, 1, n) \in Texts
  /\ \A delims \in Delimiters : delims \subseteq 1 .. 255
  /\ Nil \notin Buffers \X Nat

VARIABLES
  memory,      \* each string's array of characters, with the NUL behind the text
  last_token,  \* a pointer, <<string, position>>, or Nil
  given,       \* the argument str of the last call, as a text, or Nil for NULL
  token,       \* what the last call returned, as a text, or Nil
  tokens       \* history: the tokens returned since their string was begun,
               \* each with the pointer to it

strtokVars == <<memory, last_token, given, token, tokens>>

StrtokInit ==
  /\ memory \in [Buffers -> {CString(t) : t \in Texts}]
  /\ last_token = Nil /\ given = Nil /\ token = Nil
  /\ tokens = {}

\* The string a pointer points to.
StringAt(mem, p) == Chars(From(mem[p[1]], p[2]))

\* The pointer behind the leading characters of a set, in which the NUL is not.
Behind(p, skipped) ==
  <<p[1], p[2] - 1 + SelectInSeq(CString(StringAt(memory, p)), LAMBDA c : c \notin skipped)>>
SkipLeading(p, delims) == Behind(p, delims)
SkipToken(p, delims) == Behind(p, (1 .. 255) \ delims)

Ends(p) == memory[p[1]][p[2]] = NUL

\* Variant: the position stays at the NUL that ends the token.
Resume_AtNul(start, end) == IF Ends(end) THEN Nil ELSE end
\* Variant: the position stays at the token.
Resume_AtStart(start, end) == IF Ends(end) THEN Nil ELSE start

Resume(start, end) == IF Ends(end) THEN Nil ELSE <<end[1], end[2] + 1>>

\* The call with last_token = p, when the tokens in old are still in use.
Scan(p, delims, old) ==
  LET start == SkipLeading(p, delims)
      end == SkipToken(start, delims)
  IN  IF Ends(start)
      THEN /\ last_token' = Nil /\ token' = Nil
           /\ tokens' = old
           /\ UNCHANGED memory
      ELSE /\ memory' = [memory EXCEPT ![end[1]][end[2]] = NUL]
           /\ last_token' = Resume(start, end)
           /\ token' = StringAt(memory', start)
           /\ tokens' = old \cup {<<start, token'>>}

Others(s) == {t \in tokens : t[1][1] # s}

\* strtok(s, delims)
Begin(s, delims) ==
  /\ given' = StringAt(memory, <<s, 1>>)
  /\ Scan(<<s, 1>>, delims, Others(s))

\* strtok(NULL, delims)
Continue(delims) ==
  /\ given' = Nil
  /\ \/ last_token # Nil /\ Scan(last_token, delims, tokens)
     \/ /\ last_token = Nil
        /\ token' = Nil
        /\ UNCHANGED <<memory, last_token, tokens>>

strtok == \E delims \in Delimiters : Continue(delims) \/ \E s \in Buffers : Begin(s, delims)

-----------------------------------------------------------------------------
(* Properties *)

Unread == IF last_token = Nil THEN <<>> ELSE StringAt(memory, last_token)
Tokenizer == INSTANCE Tokenizer WITH rest <- Unread, None <- Nil

\* strtok gives the tokens of the text it was last begun with, as they stood
\* before it cut them off, and the NULs it has left in a string, in the middle
\* of a scan or from an earlier one, do not show.
ImplementsTokenizer == Tokenizer!Spec

\* A token stays what it was when it was returned until its string is begun
\* again: no later call, with other delimiters or for another
\* string, reaches into it.
TokensStay == \A t \in tokens : StringAt(memory, t[1]) = t[2]
=============================================================================
