----------------------------- MODULE MCStrings -----------------------------
(* Every text of up to three characters, of which two are delimiters, and  *)
(* numbers around the changes in the number of digits; the strings that    *)
(* are split have up to four characters and two words.                     *)
EXTENDS Strings

TextsUpTo3 == BoundedSeq({LowerA, Space, 44}, 3)
DelimiterSets == {{44}, {Space, 44}}
StringsUpTo4 == BoundedSeq({"c", "d"}, 4)
SmallNumbers == -130 .. 300
PrintedNumbers == {-12, -1, 0, 1, 10, 255, 1000}
=============================================================================
