-------------------------------- MODULE Text --------------------------------
(***************************************************************************)
(* The pure functions of libc/string.c (with hex_to_str of vga.c and       *)
(* put_uint of debug.c): conversions of numbers, comparisons, memmove.     *)
(* A character is its code.  A string is the sequence of its characters    *)
(* without the NUL, unless a function reads or writes the NUL itself: then *)
(* it is an array, and Chars what stands before the first NUL.             *)
(***************************************************************************)
EXTENDS Integers, SequencesExt

NUL == 0
Space == 32
Percent == 37
Minus == 45
Zero == 48
UpperA == 65
LowerA == 97

Digit(c) == c \in Zero .. Zero + 9
AbsValue(n) == IF n < 0 THEN -n ELSE n
CString(s) == Append(s, NUL)
Chars(array) == SubSeq(array, 1, SelectInSeq(array, LAMBDA c : c = NUL) - 1)

-----------------------------------------------------------------------------
(* Numbers *)

\* (rem > 9) ? (rem - 10) + 'A' : rem + '0'
DigitChar(d, ten) == IF d > 9 THEN ten + d - 10 ELSE Zero + d

\* The loop that stores the digits of n, the lowest first.
LowFirst(n, base, ten) ==
  LET digits[v \in 0 .. n] ==
        IF v < base THEN <<DigitChar(v, ten)>>
                    ELSE <<DigitChar(v % base, ten)>> \o digits[v \div base]
  IN  digits[n]

Unsigned(n, base, ten) == Reverse(LowFirst(n, base, ten))

intToString(n) ==
  LET digits == LowFirst(AbsValue(n), 10, UpperA)
  IN  Reverse(IF n < 0 THEN Append(digits, Minus) ELSE digits)

\* A negative value in another base than 10 is not for it: its remainders are
\* negative, and no digits.
itoa(value, base) ==
  IF base = 10 THEN intToString(value) ELSE Unsigned(value, base, UpperA)

hex_to_str(num) == Unsigned(num, 16, UpperA)
put_uint(val, base) == Unsigned(val, base, LowerA)

\* Variant: a digit too few from each power of ten on.
NumDigits_Late(n) ==
  LET count[v \in 0 .. n] == IF v <= 10 THEN 1 ELSE 1 + count[v \div 10]
  IN  count[n]

NumDigits(n) ==
  LET count[v \in 0 .. n] == IF v < 10 THEN 1 ELSE 1 + count[v \div 10]
  IN  count[n]

\* The bytes tostr allocates: the digits are counted before they are stored, the
\* lowest in the last place, which leaves a tenth to be stored each time.
Stored(value) ==
  LET sign == IF value < 0 THEN 1 ELSE 0
      digits == NumDigits(AbsValue(value))
      left[k \in 0 .. digits] == IF k = 0 THEN AbsValue(value) ELSE left[k - 1] \div 10
  IN  [i \in 1 .. digits + sign + 1 |->
         IF i = digits + sign + 1 THEN NUL
         ELSE IF i <= sign THEN Minus
         ELSE Zero + (left[digits + sign - i] % 10)]

NoArray == <<>>  \* NULL

tostr(value, allocated) == IF allocated THEN Stored(value) ELSE NoArray

\* The value of the digits a string begins with.
Number(s) ==
  LET end == SelectInSeq(CString(s), LAMBDA c : ~Digit(c))
      value[i \in 0 .. end - 1] == IF i = 0 THEN 0 ELSE value[i - 1] * 10 + (s[i] - Zero)
  IN  value[end - 1]

From(s, p) == SubSeq(s, p, Len(s))

atoi(str) ==
  LET start == SelectInSeq(CString(str), LAMBDA c : c \notin {Space, 9, 10})
      trimmed == From(str, start)
  IN  IF trimmed # <<>> /\ trimmed[1] = Minus THEN -Number(Tail(trimmed))
      ELSE IF trimmed # <<>> /\ trimmed[1] = 43 THEN Number(Tail(trimmed))
      ELSE Number(trimmed)

-----------------------------------------------------------------------------
(* Comparisons: of CStrings, the first position that decides *)

Signed(c) == IF c > 127 THEN c - 256 ELSE c  \* char has a sign

\* Variant: the range begins behind 'A'.
tolower_BehindA(c) == IF c \in 66 .. 90 THEN c + 32 ELSE c

tolower(c) == IF c \in 64 .. 90 THEN c + 32 ELSE c

Decides(a, b, n) ==
  {i \in 1 .. n : /\ i <= Len(a) /\ i <= Len(b)
                  /\ a[i] # b[i] \/ a[i] = NUL}

strcmp(a, b) ==
  LET i == Min(Decides(a, b, Len(a)))
  IN  Signed(a[i]) - Signed(b[i])

strncmp(a, b, n) ==
  LET at == Decides(a, b, n)
  IN  IF at = {} THEN 0 ELSE a[Min(at)] - b[Min(at)]

istrncmp(a, b, n) ==
  LET folded(s) == [i \in 1 .. Len(s) |-> tolower(s[i])]
      at == Decides(folded(a), folded(b), n)
  IN  IF at = {} THEN 0 ELSE a[Min(at)] - b[Min(at)]

-----------------------------------------------------------------------------
(* Memory *)

\* One byte after the other, in the order of the offsets.
CopyBytes(mem, d, s, offsets) ==
  FoldLeft(LAMBDA m, i : [m EXCEPT ![d + i] = m[s + i]], mem, offsets)

Upwards(n) == [i \in 1 .. n |-> i - 1]

\* Variant: a destination inside the source is copied upwards as well.
memmove_Upwards(mem, d, s, n) == CopyBytes(mem, d, s, Upwards(n))

memmove(mem, d, s, n) ==
  IF d < s \/ d >= s + n THEN CopyBytes(mem, d, s, Upwards(n))
                         ELSE CopyBytes(mem, d, s, Reverse(Upwards(n)))
=============================================================================
