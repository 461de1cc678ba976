------------------------------- MODULE Format -------------------------------
(***************************************************************************)
(* kvprintf of cpu/kprintf.c, kprintf of drivers/output/vga.c, and         *)
(* qemu_debug_printf of debug.c: what they print, and how many arguments   *)
(* they fetch.  There are two kprintf; the linker is told to take the one  *)
(* it meets first, and in the image of the repository that is vga.c's.  A  *)
(* format is a string in which every '%' has a conversion behind it: with  *)
(* a NUL in its place the functions read on behind the format.  An         *)
(* argument is a slot of 8 bytes: a string (not NULL), or the number its   *)
(* bytes make.  An int is its lower half, and a caller that passes an int  *)
(* leaves anything in the upper one.                                       *)
(***************************************************************************)
EXTENDS Text

CONSTANT IntRange  \* how many values an int has: 2^32

LongRange == IntRange * IntRange

ASSUME FormatAssumption == IntRange \in Nat \ {0} /\ IntRange % 256 = 0

Letter(c) == CASE c = "c" -> 99 [] c = "d" -> 100 [] c = "l" -> 108 [] c = "p" -> 112
               [] c = "s" -> 115 [] c = "u" -> 117 [] c = "x" -> 120 [] c = "z" -> 122
               [] c = "i" -> 105 [] c = "X" -> 88
Dot == 46
Signs == {Letter("d"), Letter("i")}
Hexes == {Letter("x"), Letter("X")}
Numbers == Signs \cup Hexes \cup {Letter("u")}
Takes == Numbers \cup {Letter("c"), Letter("s"), Letter("p")}

At(fmt, p) == CString(fmt)[p]
Skip(fmt, p, c) == IF At(fmt, p) = c THEN p + 1 ELSE p
SkipDigits(fmt, p) == p - 1 + SelectInSeq(From(CString(fmt), p), LAMBDA c : ~Digit(c))

\* The directive whose '%' stands before p: one '-', one '0', the width, the
\* precision, one 'l', and the conversion.
Directive(fmt, p) ==
  LET zero == Skip(fmt, p, Minus)
      width == Skip(fmt, zero, Zero)
      dot == SkipDigits(fmt, width)
      length == IF At(fmt, dot) = Dot THEN SkipDigits(fmt, dot + 1) ELSE dot
      spec == Skip(fmt, length, Letter("l"))
  IN  [left |-> zero # p, zero |-> width # zero,
       width |-> Number(From(fmt, width)),
       precision |-> IF length = dot THEN -1 ELSE Number(From(fmt, dot + 1)),
       spec |-> At(fmt, spec), next |-> spec + 1]

\* A number of a range in two's complement, read with a sign.
AsSigned(n, range) == IF 2 * n < range THEN n ELSE n - range

\* kvprintf fetches the whole slot, with an 'l' or without.
LongArg(spec, slot) == IF spec \in Signs THEN AsSigned(slot, LongRange) ELSE slot

\* The others read its lower half, strings aside.
IntArg(spec, slot) ==
  IF spec = Letter("s") THEN slot
  ELSE IF spec \in Signs THEN AsSigned(slot % IntRange, IntRange) ELSE slot % IntRange

-----------------------------------------------------------------------------
(* The output of one conversion *)

Repeat(c, n) == [i \in 1 .. Max({0, n}) |-> c]

\* Variant: the zeros of the flag go behind the number as well.
Padded_Zeros(d, body, c) ==
  IF d.left THEN body \o Repeat(c, d.width - Len(body)) ELSE Repeat(c, d.width - Len(body)) \o body

\* Up to the width, with c before the text or with spaces behind it.
Padded(d, body, c) ==
  IF d.left THEN body \o Repeat(Space, d.width - Len(body)) ELSE Repeat(c, d.width - Len(body)) \o body

\* The sign counts as a digit.
NumberText(d, v) ==
  IF d.spec \in Signs THEN intToString(v) ELSE put_uint(v, IF d.spec \in Hexes THEN 16 ELSE 10)
NumberField(d, v) ==
  LET digits == NumberText(d, v)
  IN  Padded(d, Repeat(Zero, d.precision - Len(digits)) \o digits, IF d.zero THEN Zero ELSE Space)

StringField(d, s) ==
  Padded(d, IF d.precision < 0 THEN s ELSE SubSeq(s, 1, Min({d.precision, Len(s)})), Space)

\* 16 digits behind "0x".
Pointer(v) ==
  LET digits == put_uint(v, 16)
  IN  <<Zero, Letter("x")>> \o Repeat(Zero, 16 - Len(digits)) \o digits

\* Variant: a conversion that is not known is printed without its '%', as
\* kprintf of vga.c does.
Converted_Bare(d, arg) ==
  CASE d.spec \in Numbers -> NumberField(d, arg)
    [] d.spec = Letter("s") -> StringField(d, arg)
    [] d.spec = Letter("c") -> Padded(d, <<arg % 256>>, Space)
    [] d.spec = Letter("p") -> Pointer(arg)
    [] OTHER -> <<d.spec>>

Converted(d, arg) ==
  CASE d.spec \in Numbers -> NumberField(d, arg)
    [] d.spec = Letter("s") -> StringField(d, arg)
    [] d.spec = Letter("c") -> Padded(d, <<arg % 256>>, Space)
    [] d.spec = Letter("p") -> Pointer(arg)
    [] d.spec = Percent -> <<Percent>>
    [] OTHER -> <<Percent, d.spec>>

\* The loop over a format: its turns go on while there is a character at s.at,
\* and each leaves a character or a directive behind.
Printing(Turn(_), fmt, start) ==
  LET after[k \in 0 .. Len(fmt)] ==
        IF k = 0 THEN start
        ELSE LET s == after[k - 1] IN IF s.at > Len(fmt) THEN s ELSE Turn(s)
  IN  after[Len(fmt)]

kvprintfTurn(fmt, args, s) ==
  IF fmt[s.at] # Percent
  THEN [s EXCEPT !.at = @ + 1, !.text = Append(@, fmt[s.at])]
  ELSE LET d == Directive(fmt, s.at + 1)
           takes == d.spec \in Takes
       IN  [at |-> d.next, fetched |-> IF takes THEN s.fetched + 1 ELSE s.fetched,
            text |-> s.text \o Converted(d, IF takes THEN LongArg(d.spec, args[s.fetched + 1]) ELSE NUL)]

\* What is printed, and how many arguments have been fetched.
kvprintf(fmt, args) ==
  Printing(LAMBDA s : kvprintfTurn(fmt, args, s), fmt, [at |-> 1, text |-> <<>>, fetched |-> 0])

-----------------------------------------------------------------------------
(* kprintf of vga.c *)

LessThan == 60
Open == 40
Close == 41
Greater == 62
LightGray == 7

HexValue(c) == IF c \in LowerA .. LowerA + 5 THEN 10 + c - LowerA
               ELSE IF c \in UpperA .. UpperA + 5 THEN 10 + c - UpperA
               ELSE IF Digit(c) THEN c - Zero ELSE 0
parse_color_code(bg, fg) == 16 * HexValue(bg) + HexValue(fg)

Coloured(text, colour) == [i \in 1 .. Len(text) |-> <<text[i], colour>>]

VgaConverted(spec, width, arg) ==
  CASE spec = Letter("d") -> intToString(arg)
    [] spec = Letter("u") -> intToString(AsSigned(arg, IntRange))  \* it takes an int
    [] spec \in Hexes -> Repeat(Zero, width - Len(hex_to_str(arg))) \o hex_to_str(arg)
    [] spec = Letter("s") -> arg
    [] spec = Letter("c") -> <<arg % 256>>

VgaTakes == {Letter("d"), Letter("u"), Letter("c"), Letter("s")} \cup Hexes  \* and 'f'

\* "<(bf)>" sets the colours of what follows; a "<(" that is none of these
\* loses the "(" and two characters.  A conversion has a width at most, and one
\* that is not known is printed itself.
kprintfTurn(fmt, stack, s) ==
  IF fmt[s.at] = LessThan /\ At(fmt, s.at + 1) = Open
  THEN IF SubSeq(fmt, s.at + 4, s.at + 5) = <<Close, Greater>>
       THEN [s EXCEPT !.at = @ + 6, !.colour = parse_color_code(fmt[s.at + 2], fmt[s.at + 3])]
       ELSE [s EXCEPT !.at = @ + 4, !.text = Append(@, <<LessThan, s.colour>>)]
  ELSE IF fmt[s.at] # Percent
  THEN [s EXCEPT !.at = @ + 1, !.text = Append(@, <<fmt[s.at], s.colour>>)]
  ELSE LET end == SkipDigits(fmt, s.at + 1)
           spec == fmt[end]
           takes == spec \in VgaTakes
           text == IF takes THEN VgaConverted(spec, Number(From(fmt, s.at + 1)),
                                              IntArg(spec, stack[s.fetched + 1]))
                   ELSE <<spec>>
       IN  [s EXCEPT !.at = end + 1, !.text = @ \o Coloured(text, s.colour),
                     !.fetched = IF takes THEN @ + 1 ELSE @]

\* The arguments are fetched from the stack, from the slots above the one where
\* format was put.
kprintf(fmt, stack) ==
  Printing(LAMBDA s : kprintfTurn(fmt, stack, s), fmt,
           [at |-> 1, text |-> <<>>, fetched |-> 0, colour |-> LightGray]).text

-----------------------------------------------------------------------------
(* The debug port *)

\* A newline goes out as CR and LF.
qemu_debug_putc(c) == IF c = 10 THEN <<13, c>> ELSE <<c>>
DebugText(s) ==
  LET sent[k \in 0 .. Len(s)] == IF k = 0 THEN <<>> ELSE sent[k - 1] \o qemu_debug_putc(s[k])
  IN  sent[Len(s)]

DebugConverted(c, arg) ==
  CASE c \in Signs -> IF arg < 0 THEN <<Minus>> \o put_uint(-arg, 10) ELSE put_uint(arg, 10)
    [] c = Letter("u") -> put_uint(arg, 10)
    [] c \in Hexes -> put_uint(arg, 16)
    [] c = Letter("s") -> DebugText(arg)
    [] c = Letter("c") -> DebugText(<<arg % 256>>)
    [] c = Percent -> <<Percent>>
    [] OTHER -> <<Percent>> \o DebugText(<<c>>)

\* No flags, widths or modifiers: the character behind '%' is the conversion.
qemu_debug_printfTurn(fmt, args, s) ==
  IF fmt[s.at] # Percent
  THEN [s EXCEPT !.at = @ + 1, !.text = @ \o DebugText(<<fmt[s.at]>>)]
  ELSE LET c == fmt[s.at + 1]
           takes == c \in Takes \ {Letter("p")}
       IN  [at |-> s.at + 2, fetched |-> IF takes THEN s.fetched + 1 ELSE s.fetched,
            text |-> s.text \o DebugConverted(c, IF takes THEN IntArg(c, args[s.fetched + 1]) ELSE NUL)]

qemu_debug_printf(fmt, args) ==
  Printing(LAMBDA s : qemu_debug_printfTurn(fmt, args, s), fmt, [at |-> 1, text |-> <<>>, fetched |-> 0])
=============================================================================
