------------------------------ MODULE Strings ------------------------------
(***************************************************************************)
(* A program that calls the string library: it scans strings with strtok,  *)
(* or splits them over the heap, or it calls the functions of Text and     *)
(* Format, which keep no state, on all arguments up to a size.             *)
(***************************************************************************)
EXTENDS Strtok, Format, Split

CONSTANTS
  Values,      \* the numbers that are converted
  Printed,     \* those that are printed
  Halves,      \* what callers leave in the upper half of a slot
  CharCodes,   \* the characters of the strings that are compared
  MaxLength,   \* the length of those strings
  MemorySize   \* the bytes memmove moves within

\* The functions negate a negative int: the least one has no negative.
IntMax == 2147483647

ASSUME StringsAssumption ==
  /\ Values \subseteq -IntMax .. IntMax /\ Printed \subseteq -IntMax .. IntMax
  /\ Halves \subseteq 0 .. IntRange - 1
  /\ CharCodes \subseteq 1 .. 255
  /\ MaxLength \in Nat /\ MemorySize \in Nat

VARIABLES
  program,  \* "scans", "splits" or "calls"
  call      \* a call whose result is in use: the function, its arguments, its result

libraryVars == <<strtokVars, splitVars, program, call>>

Nothing == [f |-> "none"]

LibraryInit ==
  /\ StrtokInit /\ SplitInit
  /\ program \in {"scans", "splits", "calls"}
  /\ program # "scans" => \A s \in Buffers : memory[s] = CString(<<>>)
  /\ call = Nothing

Scans ==
  /\ program = "scans"
  /\ strtok
  /\ UNCHANGED <<splitVars, program, call>>

Splitting ==
  /\ program = "splits"
  /\ SplitNext
  /\ UNCHANGED <<strtokVars, program, call>>

Called(f, arg, result) ==
  /\ call' = [f |-> f, arg |-> arg, result |-> result]
  /\ UNCHANGED <<strtokVars, splitVars, program>>

\* The program is done with a result.
Drops == call # Nothing /\ call' = Nothing /\ UNCHANGED <<strtokVars, splitVars, program>>

-----------------------------------------------------------------------------
(* The calls *)

Converts == \E n \in Values :
  \/ Called("intToString", [n |-> n, base |-> 10, ten |-> UpperA], intToString(n))
  \/ \E allocated \in BOOLEAN :
       Called("tostr", [n |-> n, base |-> 10, ten |-> UpperA, allocated |-> allocated], tostr(n, allocated))
  \/ \E base \in {2, 10, 16} :
       /\ n >= 0 \/ base = 10
       /\ Called("itoa", [n |-> n, base |-> base, ten |-> UpperA], itoa(n, base))
  \/ n >= 0 /\ Called("hex_to_str", [n |-> n, base |-> 16, ten |-> UpperA], hex_to_str(n))

Words == BoundedSeq(CharCodes, MaxLength)

Compares == \E a, b \in Words, n \in 0 .. MaxLength + 1 :
  LET arg == [a |-> a, b |-> b, n |-> n]
  IN  \/ Called("strcmp", arg, strcmp(CString(a), CString(b)))
      \/ Called("strncmp", arg, strncmp(CString(a), CString(b), n))
      \/ Called("istrncmp", arg, istrncmp(CString(a), CString(b), n))

Moves == \E d, s \in 1 .. MemorySize, n \in 0 .. MemorySize :
  LET mem == [i \in 1 .. MemorySize |-> i]
  IN  /\ d + n <= MemorySize + 1 /\ s + n <= MemorySize + 1
      /\ Called("memmove", [d |-> d, s |-> s, n |-> n], memmove(mem, d, s, n))

\* A directive, with the argument it is for.
Absent == <<>>
Flags == {Absent, <<Minus>>, <<Zero>>, <<Minus, Zero>>, <<Zero, Minus>>}
Widths == {Absent, <<Zero + 3>>, <<Zero + 1, Zero>>}
Precisions == {Absent, <<Dot>>, <<Dot, Zero + 2>>}
Lengths == {Absent, <<Letter("l")>>, <<Letter("l"), Letter("l")>>, <<Letter("z")>>}
Directives == [flags : Flags, width : Widths, precision : Precisions, length : Lengths,
               spec : Takes \cup {Percent}]

\* The values of the type that goes with it, and the slots one is passed in: not
\* the one of the least long, which has no negative.
IsLong(d) == d.length # Absent \/ d.spec = Letter("p")
ArgumentsOf(d) ==
  LET range == IF IsLong(d) THEN LongRange ELSE IntRange
  IN  IF d.spec \in Signs THEN {v \in Printed : 2 * AbsValue(v) < range}
      ELSE IF d.spec = Letter("s") THEN {<<>>, <<LowerA, Zero, LowerA>>}
      ELSE IF d.spec = Percent THEN {NUL}
      ELSE {v \in Printed : v >= 0 /\ v < range}
Slots(d, v) ==
  IF d.spec = Letter("s") THEN {v}
  ELSE IF IsLong(d) THEN {v % LongRange}
  ELSE {(v % IntRange) + IntRange * upper : upper \in Halves} \ {LongRange \div 2}

\* A directive kvprintf reads to its end, and one without anything to read.
Known(d) == d.length \in {Absent, <<Letter("l")>>} /\ d.flags # <<Zero, Minus>>
Plain(d) == {d.flags, d.width, d.precision, d.length} = {Absent}

\* Text, the directive, text, and a number whose argument comes next.
FormatOf(d) == <<LowerA, Percent>> \o d.flags \o d.width \o d.precision \o d.length
               \o <<d.spec, Space, Percent, Letter("d")>>

\* kprintf has the format with a colour in front.  What is on its stack is not
\* its business: its arguments are passed in registers.
Blue == <<LessThan, Open, Zero + 1, LowerA + 4, Close, Greater>>
StackSlots == {low + IntRange * upper : low \in {0, 7, 300}, upper \in Halves}
PrintsInColour == \E d \in Directives, v \in Printed, stack \in [1 .. 2 -> StackSlots] :
  /\ Plain(d) /\ d.spec \in VgaTakes \ {Letter("s")} /\ v >= 0
  /\ Called("kprintf", [d |-> d, v |-> v, stack |-> stack],
            [text |-> kprintf(Blue \o FormatOf(d), stack)])

\* No string is passed where its argument could be fetched for the number.
Prints == \E d \in Directives : \E v \in ArgumentsOf(d) : \E slot \in Slots(d, v) :
  LET args == IF d.spec = Percent THEN <<5>> ELSE <<slot, 5>>
  IN  \/ /\ Known(d) \/ d.spec # Letter("s")
         /\ Called("kvprintf", [d |-> d, v |-> v, args |-> args], kvprintf(FormatOf(d), args))
      \/ /\ Plain(d)
         /\ Called("qemu_debug_printf", [d |-> d, v |-> v, args |-> args],
                   qemu_debug_printf(FormatOf(d), args))

Calls ==
  /\ program = "calls" /\ call = Nothing
  /\ Converts \/ Compares \/ Moves \/ Prints \/ PrintsInColour

LibraryNext == Scans \/ Splitting \/ Calls \/ Drops

LibrarySpec == LibraryInit /\ [][LibraryNext]_libraryVars

-----------------------------------------------------------------------------
(* Properties *)

arg == call.arg
result == call.result

\* Every conversion writes the number in its base, with the sign of a decimal,
\* without leading zeros, and nothing else: tostr fills the bytes it asked for, or
\* returns the NULL it got for them.
DigitValue(c) == IF c >= UpperA THEN 10 + c - UpperA ELSE c - Zero
Written(digits, base) ==
  LET value[k \in 0 .. Len(digits)] ==
        IF k = 0 THEN 0 ELSE base * value[k - 1] + DigitValue(digits[k])
  IN  value[Len(digits)]
Shown(text, n, base) ==
  LET digits == IF n < 0 THEN Tail(text) ELSE text
  IN  /\ n < 0 => text[1] = Minus
      /\ \A i \in 1 .. Len(digits) : digits[i] >= Zero /\ DigitValue(digits[i]) \in 0 .. base - 1
      /\ digits[1] = Zero => Len(digits) = 1
      /\ Written(digits, base) = AbsValue(n)
      /\ base = 10 => atoi(text) = n
NumbersShown ==
  /\ call.f \in {"intToString", "itoa", "hex_to_str"} => Shown(result, arg.n, arg.base)
  /\ call.f = "tostr" => IF arg.allocated THEN Shown(Chars(result), arg.n, arg.base) ELSE result = NoArray

\* memmove moves the bytes as if it read them all before it wrote one, wherever
\* source and destination overlap, and touches no others.
MovesAsIfAtOnce ==
  call.f = "memmove" =>
    \A i \in 1 .. MemorySize :
      result[i] = IF i \in arg.d .. arg.d + arg.n - 1 THEN arg.s + (i - arg.d) ELSE i

\* strncmp orders the first n characters as a dictionary would, by their codes
\* as unsigned numbers; strcmp finds the equal strings, and agrees on the order
\* of strings below code 128.  istrncmp equates the strings whose first n
\* characters differ in the case of letters only; '@' and '`' go for one letter,
\* since its range begins at 64.
Before(a, b) == \E i \in 1 .. Len(b) : /\ i > Len(a) \/ a[i] < b[i]
                                       /\ \A k \in 1 .. i - 1 : k <= Len(a) /\ a[k] = b[k]
FirstN(w) == SubSeq(w, 1, Min({arg.n, Len(w)}))
SameLetter(c, d) == c = d \/ (c - d \in {32, -32} /\ Min({c, d}) \in 64 .. 90)
ComparisonsOrder ==
  /\ call.f = "strncmp" => /\ result < 0 <=> Before(FirstN(arg.a), FirstN(arg.b))
                           /\ result > 0 <=> Before(FirstN(arg.b), FirstN(arg.a))
  /\ call.f = "strcmp" =>
       /\ result = 0 <=> arg.a = arg.b
       /\ ToSet(arg.a \o arg.b) \subseteq 0 .. 127 => (result < 0 <=> Before(arg.a, arg.b))
  /\ call.f = "istrncmp" =>
       (result = 0 <=> /\ Len(FirstN(arg.a)) = Len(FirstN(arg.b))
                       /\ \A i \in 1 .. Len(FirstN(arg.a)) : SameLetter(arg.a[i], arg.b[i]))

\* What C's printf prints of a value for the directive.
Upper(text) == [i \in 1 .. Len(text) |-> IF text[i] \in LowerA .. LowerA + 5 THEN text[i] - 32 ELSE text[i]]
CNumber(d, v) ==
  CASE d.spec = Letter("x") -> put_uint(v, 16)
    [] d.spec = Letter("X") -> Upper(put_uint(v, 16))
    [] OTHER -> intToString(AbsValue(v))
Between(d, sign, body) ==
  LET zeros == Zero \in ToSet(d.flags) /\ d.precision = Absent /\ d.spec \in Numbers
      width == Number(d.width) - Len(sign \o body)
  IN  IF Minus \in ToSet(d.flags) THEN sign \o body \o Repeat(Space, width)
      ELSE IF zeros THEN sign \o Repeat(Zero, width) \o body
      ELSE Repeat(Space, width) \o sign \o body
NoDigits(d, v) == v = 0 /\ d.precision # Absent /\ Number(Tail(d.precision)) = 0
PrintedByC(d, v) ==
  LET precision == Number(Tail(d.precision))
      digits == IF NoDigits(d, v) THEN <<>> ELSE CNumber(d, v)
  IN  CASE d.spec \in Numbers ->
             Between(d, IF v < 0 THEN <<Minus>> ELSE <<>>,
                     IF d.precision = Absent THEN digits
                     ELSE Repeat(Zero, precision - Len(digits)) \o digits)
        [] d.spec = Letter("s") ->
             Between(d, <<>>, IF d.precision = Absent THEN v ELSE SubSeq(v, 1, Min({precision, Len(v)})))
        [] d.spec = Letter("c") -> Between(d, <<>>, <<v % 256>>)
        [] d.spec = Percent -> <<Percent>>

\* Where kvprintf has its own way: a sign with a precision or behind zeros, zeros
\* up to the width in spite of a precision, 0 with the precision 0, 'X', and 'p',
\* which C leaves to it.
OwnWay(d, v) ==
  \/ d.spec \in {Letter("p"), Letter("X")}
  \/ d.spec \in Numbers /\ d.precision # Absent /\ (v < 0 \/ d.flags = <<Zero>> \/ NoDigits(d, v))
  \/ d.spec \in Signs /\ v < 0 /\ d.flags = <<Zero>>

\* And that way: the sign is one of the digits, the precision does not turn the
\* zeros of the flag off, 0 has a digit, 'X' has small letters; 'p' is what C
\* makes of "0x%.16x".
SixteenDigits(d) ==
  [d EXCEPT !.flags = Absent, !.width = Absent, !.precision = <<Dot, Zero + 1, Zero + 6>>, !.spec = Letter("x")]
OwnField(d, v) ==
  LET sign == IF v < 0 THEN <<Minus>> ELSE <<>>
      digits == sign \o CNumber(IF d.spec = Letter("X") THEN [d EXCEPT !.spec = Letter("x")] ELSE d, v)
      zeros == IF d.precision = Absent THEN <<>> ELSE Repeat(Zero, Number(Tail(d.precision)) - Len(digits))
  IN  IF d.spec = Letter("p") THEN <<Zero, Letter("x")>> \o PrintedByC(SixteenDigits(d), v)
      ELSE Between([d EXCEPT !.precision = Absent], <<>>, zeros \o digits)

\* The value, if the slot holds it as a long; an int whose upper half is not that
\* of the long is taken for another number.  'c' needs the lowest byte only.
Whole(spec, slot) == IF spec \in Signs /\ 2 * slot >= LongRange THEN slot - LongRange ELSE slot
Received(d, v, slot) ==
  IF d.spec \notin Numbers \/ slot = v % LongRange THEN v ELSE Whole(d.spec, slot)

\* The fields of a kprintf format, with 'u' printed as 'd' and 'x' as 'X', in the
\* colour it asks for.
Half(spec, slot) ==
  LET n == slot % IntRange
  IN  IF spec \notin Hexes /\ 2 * n >= IntRange THEN n - IntRange ELSE n
InColour(d, first, second) ==
  LET spec == IF d.spec = Letter("u") THEN Letter("d")
              ELSE IF d.spec = Letter("x") THEN Letter("X") ELSE d.spec
  IN  Coloured(<<LowerA>> \o PrintedByC([d EXCEPT !.spec = spec], first)
               \o <<Space>> \o intToString(second), 30)

\* kvprintf prints the number it receives as C does, or in the way that is its
\* own, between the texts around it, and the number behind gets its own argument.
\* It receives what was passed when that was a long or a string, or an int with
\* the upper half of the long (kprintf.c:56, :80, :99).  qemu_debug_printf prints
\* a directive without anything between '%' and the conversion so, whatever the
\* upper half, with a CR before each newline; kprintf of vga.c what is on its
\* stack, in the colours the format asks for.
FormatsAsC ==
  LET d == arg.d
      Field(v) == IF OwnWay(d, v) THEN OwnField(d, v) ELSE PrintedByC(d, v)
      Line(v) == <<LowerA>> \o Field(v) \o <<Space, Zero + 5>>
  IN  /\ call.f = "kvprintf" /\ Known(d) =>
           /\ result.text = Line(Received(d, arg.v, arg.args[1]))
           /\ result.fetched = Len(arg.args)
      /\ call.f = "qemu_debug_printf" /\ d.spec # Letter("p") => result.text = DebugText(Line(arg.v))
      /\ call.f = "kprintf" =>
           result.text = InColour(d, Half(d.spec, arg.stack[1]), Half(Letter("d"), arg.stack[2]))

\* A directive they do not know takes no argument: what they have not read of it
\* is printed, and its argument goes to the number behind it.
NotRead(d) ==
  IF d.flags = <<Zero, Minus>> THEN <<Minus>> \o d.width \o d.precision \o d.length \o <<d.spec>>
  ELSE <<d.length[Len(d.length)], d.spec>>
UnknownTakesNothing ==
  LET Line(rest, number) == <<LowerA, Percent>> \o rest \o <<Space>> \o intToString(number)
  IN  /\ call.f = "kvprintf" /\ ~Known(arg.d) =>
           /\ result.text = Line(NotRead(arg.d), Whole(Letter("d"), arg.args[1]))
           /\ result.fetched = 1
      /\ call.f = "qemu_debug_printf" /\ arg.d.spec = Letter("p") =>
           result.text = Line(<<Letter("p")>>, Half(Letter("d"), arg.args[1]))

\* GETCH_IMPLEMENTATION.md:71, kprintf("... %c (... %d)", c, c): it prints its
\* arguments.
PrintsItsArguments ==
  call.f = "kprintf" => result.text = InColour(arg.d, arg.v, 5)
=============================================================================
