---------------------------- MODULE FormatProofs ----------------------------
(***************************************************************************)
(* What the three printf print, for all the numbers and slots of Strings:  *)
(* kvprintf the number it receives, as C does or in its own way, and each  *)
(* of its conversions gets its own argument.                               *)
(***************************************************************************)
EXTENDS StringProofs

-----------------------------------------------------------------------------
(* The loops *)

\* A turn of one of the three loops.
Turns(f, fmt, args, s) ==
  IF f = "kvprintf" THEN kvprintfTurn(fmt, args, s)
  ELSE IF f = "kprintf" THEN kprintfTurn(fmt, args, s)
  ELSE qemu_debug_printfTurn(fmt, args, s)

Turning(f, fmt, args, start, after) ==
  [k \in 0 .. Len(fmt) |->
     IF k = 0 THEN start
     ELSE IF after[k - 1].at > Len(fmt) THEN after[k - 1]
     ELSE Turns(f, fmt, args, after[k - 1])]

\* The loop goes through the m + 1 states of run and ends in the last.
Runs(f, fmt, args, start, m, run) ==
  /\ m \in 0 .. Len(fmt) /\ run[0] = start /\ run[m].at > Len(fmt)
  /\ \A k \in 1 .. m : ~(run[k - 1].at > Len(fmt)) /\ run[k] = Turns(f, fmt, args, run[k - 1])

LEMMA RunTurns ==
  ASSUME NEW fmt, Len(fmt) \in Nat, NEW f, NEW args, NEW start, NEW m, NEW run,
         Runs(f, fmt, args, start, m, run),
         NEW after, after = [k \in 0 .. Len(fmt) |-> IF k <= m THEN run[k] ELSE run[m]]
  PROVE  after = Turning(f, fmt, args, start, after)
<1>1. PICK L \in Nat : L = Len(fmt)
  OBVIOUS
<1>2. /\ m \in 0 .. L /\ run[0] = start /\ run[m].at > L
      /\ \A k \in 1 .. m : ~(run[k - 1].at > L) /\ run[k] = Turns(f, fmt, args, run[k - 1])
  BY <1>1 DEF Runs
<1>3. \A k \in 0 .. L : after[k] = IF k <= m THEN run[k] ELSE run[m]
  BY <1>1
<1>4. \A k \in 0 .. L : after[k] = IF k = 0 THEN start
                                   ELSE IF after[k - 1].at > L THEN after[k - 1]
                                   ELSE Turns(f, fmt, args, after[k - 1])
  <2> TAKE k \in 0 .. L
  <2>1. CASE k = 0
    BY <1>2, <1>3, <2>1
  <2>2. CASE k # 0 /\ k <= m
    <3>1. k \in 1 .. m /\ k - 1 \in 0 .. L /\ k - 1 <= m
      BY <1>2, <2>2
    <3>2. after[k] = run[k] /\ after[k - 1] = run[k - 1]
      BY <1>3, <2>2, <3>1
    <3> QED BY <1>2, <2>2, <3>1, <3>2, Zenon
  <2>3. CASE k # 0 /\ ~(k <= m)
    <3>1. k - 1 \in 0 .. L /\ (k - 1 <= m => k - 1 = m)
      BY <1>2, <2>3
    <3>2. after[k] = run[m] /\ after[k - 1] = run[m]
      BY <1>3, <2>3, <3>1
    <3> QED BY <1>2, <2>3, <3>2, Zenon
  <2> QED BY <2>1, <2>2, <2>3
<1>5. after = [k \in 0 .. L |-> after[k]]
  BY <1>1
<1> QED BY <1>1, <1>4, <1>5, Zenon DEF Turning

LEMMA RunEnds ==
  ASSUME NEW fmt, Len(fmt) \in Nat, NEW f, NEW args, NEW start, NEW m, NEW run,
         Runs(f, fmt, args, start, m, run),
         NEW after, after = Turning(f, fmt, args, start, after)
  PROVE  after[Len(fmt)] = run[m]
<1>1. PICK L \in Nat : L = Len(fmt)
  OBVIOUS
<1>2. PICK v : v = [k \in 0 .. L |-> IF k <= m THEN run[k] ELSE run[m]]
  OBVIOUS
<1>3. v = Turning(f, fmt, args, start, v)
  BY <1>1, <1>2, RunTurns
<1> DEFINE Following(k, w) == IF k = 0 THEN start
                          ELSE IF w[k - 1].at > L THEN w[k - 1]
                          ELSE Turns(f, fmt, args, w[k - 1])
<1>4. \A k \in 0 .. L : after[k] = Following(k, after) /\ v[k] = Following(k, v)
  BY <1>1, <1>3, Zenon DEF Turning
<1> DEFINE Off == {k \in 0 .. L : after[k] # v[k]}
<1>5. Off = {}
  <2> SUFFICES ASSUME Off # {} PROVE FALSE
    OBVIOUS
  <2>1. PICK k \in Off : \A i \in Off : k <= i
    <3>1. Off \in SUBSET Nat
      OBVIOUS
    <3> HIDE DEF Off
    <3> QED BY <3>1, MinOfNaturals
  <2>2. k \in 0 .. L /\ after[k] # v[k]
    OBVIOUS
  <2>3. k # 0
    BY <1>4, <2>2, Zenon
  <2>4. k - 1 \in 0 .. L /\ k - 1 < k
    BY <2>2, <2>3
  <2>5. k - 1 \notin Off
    <3> HIDE DEF Off
    <3> QED BY <2>1, <2>2, <2>4
  <2>6. after[k - 1] = v[k - 1]
    BY <2>4, <2>5
  <2> QED BY <1>4, <2>2, <2>3, <2>6, Zenon
<1>6. m \in 0 .. L
  BY <1>1 DEF Runs
<1>7. v[L] = run[m]
  <2>1. L \in 0 .. L /\ (L <= m => L = m)
    BY <1>6
  <2> QED BY <1>2, <2>1
<1> QED BY <1>1, <1>5, <1>7

\* The three functions return the last state of their loop.
LEMMA kvprintfRuns ==
  ASSUME NEW fmt, Len(fmt) \in Nat, NEW args, NEW m, NEW run,
         Runs("kvprintf", fmt, args, [at |-> 1, text |-> <<>>, fetched |-> 0], m, run)
  PROVE  kvprintf(fmt, args) = run[m]
<1> DEFINE start == [at |-> 1, text |-> <<>>, fetched |-> 0]
           Loop(g) == [k \in 0 .. Len(fmt) |->
                         IF k = 0 THEN start
                         ELSE IF g[k - 1].at > Len(fmt) THEN g[k - 1]
                         ELSE kvprintfTurn(fmt, args, g[k - 1])]
<1>1. \A g : Loop(g) = Turning("kvprintf", fmt, args, start, g)
  BY Zenon DEF Turning, Turns
<1>2. PICK after : after = (CHOOSE g : g = Loop(g))
  OBVIOUS
<1>3. kvprintf(fmt, args) = after[Len(fmt)]
  BY <1>2, Zenon DEF kvprintf, Printing
<1> HIDE DEF start, Loop
<1>4. \E g : g = Turning("kvprintf", fmt, args, start, g)
  <2>1. PICK v : v = [k \in 0 .. Len(fmt) |-> IF k <= m THEN run[k] ELSE run[m]]
    OBVIOUS
  <2>2. v = Turning("kvprintf", fmt, args, start, v)
    BY <2>1, RunTurns DEF start
  <2> QED BY <2>2
<1>5. after = Loop(after)
  BY <1>1, <1>2, <1>4
<1> QED BY <1>1, <1>3, <1>5, RunEnds DEF start

LEMMA kprintfRuns ==
  ASSUME NEW fmt, Len(fmt) \in Nat, NEW stack, NEW m, NEW run,
         Runs("kprintf", fmt, stack, [at |-> 1, text |-> <<>>, fetched |-> 0, colour |-> LightGray], m, run)
  PROVE  kprintf(fmt, stack) = run[m].text
<1> DEFINE start == [at |-> 1, text |-> <<>>, fetched |-> 0, colour |-> LightGray]
           Loop(g) == [k \in 0 .. Len(fmt) |->
                         IF k = 0 THEN start
                         ELSE IF g[k - 1].at > Len(fmt) THEN g[k - 1]
                         ELSE kprintfTurn(fmt, stack, g[k - 1])]
<1>1. \A g : Loop(g) = Turning("kprintf", fmt, stack, start, g)
  <2>1. "kprintf" # "kvprintf"
    OBVIOUS
  <2> QED BY <2>1, Zenon DEF Turning, Turns
<1>2. PICK after : after = (CHOOSE g : g = Loop(g))
  OBVIOUS
<1>3. kprintf(fmt, stack) = after[Len(fmt)].text
  BY <1>2, Zenon DEF kprintf, Printing
<1> HIDE DEF start, Loop
<1>4. \E g : g = Turning("kprintf", fmt, stack, start, g)
  <2>1. PICK v : v = [k \in 0 .. Len(fmt) |-> IF k <= m THEN run[k] ELSE run[m]]
    OBVIOUS
  <2>2. v = Turning("kprintf", fmt, stack, start, v)
    BY <2>1, RunTurns DEF start
  <2> QED BY <2>2
<1>5. after = Loop(after)
  BY <1>1, <1>2, <1>4
<1> QED BY <1>1, <1>3, <1>5, RunEnds DEF start

LEMMA DebugRuns ==
  ASSUME NEW fmt, Len(fmt) \in Nat, NEW args, NEW m, NEW run,
         Runs("qemu_debug_printf", fmt, args, [at |-> 1, text |-> <<>>, fetched |-> 0], m, run)
  PROVE  qemu_debug_printf(fmt, args) = run[m]
<1> DEFINE start == [at |-> 1, text |-> <<>>, fetched |-> 0]
           Loop(g) == [k \in 0 .. Len(fmt) |->
                         IF k = 0 THEN start
                         ELSE IF g[k - 1].at > Len(fmt) THEN g[k - 1]
                         ELSE qemu_debug_printfTurn(fmt, args, g[k - 1])]
<1>1. \A g : Loop(g) = Turning("qemu_debug_printf", fmt, args, start, g)
  <2>1. "qemu_debug_printf" # "kvprintf" /\ "qemu_debug_printf" # "kprintf"
    OBVIOUS
  <2> QED BY <2>1, Zenon DEF Turning, Turns
<1>2. PICK after : after = (CHOOSE g : g = Loop(g))
  OBVIOUS
<1>3. qemu_debug_printf(fmt, args) = after[Len(fmt)]
  BY <1>2, Zenon DEF qemu_debug_printf, Printing
<1> HIDE DEF start, Loop
<1>4. \E g : g = Turning("qemu_debug_printf", fmt, args, start, g)
  <2>1. PICK v : v = [k \in 0 .. Len(fmt) |-> IF k <= m THEN run[k] ELSE run[m]]
    OBVIOUS
  <2>2. v = Turning("qemu_debug_printf", fmt, args, start, v)
    BY <2>1, RunTurns DEF start
  <2> QED BY <2>2
<1>5. after = Loop(after)
  BY <1>1, <1>2, <1>4
<1> QED BY <1>1, <1>3, <1>5, RunEnds DEF start

-----------------------------------------------------------------------------
(* Reading a directive *)

LEMMA AtIs ==
  ASSUME NEW fmt \in Seq(1 .. 255), NEW k \in 1 .. Len(fmt)
  PROVE  At(fmt, k) = fmt[k] /\ fmt[k] \in 1 .. 255
<1>1. k \in 1 .. Len(fmt) + 1 /\ k <= Len(fmt)
  OBVIOUS
<1>2. At(fmt, k) = CharAt(fmt, k)
  BY <1>1, CStringIs DEF At
<1> QED BY <1>1, <1>2, ElementOfSeq DEF CharAt

LEMMA SkipDigitsIs ==
  ASSUME NEW fmt \in Seq(1 .. 255), NEW p \in 1 .. Len(fmt), NEW e \in p .. Len(fmt),
         \A k \in p .. e - 1 : Digit(fmt[k]), ~Digit(fmt[e])
  PROVE  SkipDigits(fmt, p) = e
<1> DEFINE a == From(CString(fmt), p)
           I == {i \in 1 .. Len(a) : ~Digit(a[i])}
<1>1. PICK b : b = CString(fmt)
  OBVIOUS
<1>2. Len(fmt) \in Nat /\ b \in Seq(0 .. 255) /\ Len(b) = Len(fmt) + 1 /\ \A k \in 1 .. Len(fmt) : b[k] = fmt[k]
  <2>1. b \in Seq(0 .. 255) /\ Len(b) = Len(fmt) + 1 /\ \A k \in 1 .. Len(fmt) + 1 : b[k] = CharAt(fmt, k)
    BY <1>1, CStringIs
  <2>2. \A k \in 1 .. Len(fmt) : CharAt(fmt, k) = fmt[k]
    BY DEF CharAt
  <2> QED BY <2>1, <2>2
<1>3. /\ a \in Seq(0 .. 255) /\ Len(a) = Len(fmt) + 2 - p
      /\ \A i \in 1 .. Len(fmt) + 1 - p : a[i] = fmt[p + i - 1]
  <2>1. p \in 1 .. Len(b) + 1 /\ Len(b) \in p - 1 .. Len(b)
    BY <1>2
  <2>2. /\ SubSeq(b, p, Len(b)) \in Seq(0 .. 255)
        /\ Len(SubSeq(b, p, Len(b))) = Len(b) - p + 1
        /\ \A i \in 1 .. Len(b) - p + 1 : SubSeq(b, p, Len(b))[i] = b[p + i - 1]
    BY <1>2, <2>1, SubSeqIs, ZenonT(40)
  <2>3. a = SubSeq(b, p, Len(b))
    BY <1>1 DEF From
  <2>4. Len(b) - p + 1 = Len(fmt) + 2 - p
    BY <1>2
  <2>5. ASSUME NEW i \in 1 .. Len(fmt) + 1 - p PROVE a[i] = fmt[p + i - 1]
    <3>1. p + i - 1 \in 1 .. Len(fmt) /\ i \in 1 .. Len(b) - p + 1
      BY <1>2
    <3>2. b[p + i - 1] = fmt[p + i - 1]
      BY <1>2, <3>1
    <3> QED BY <2>2, <2>3, <3>1, <3>2, Zenon
  <2> QED BY <2>2, <2>3, <2>4, <2>5
<1>4. SelectInSeq(a, LAMBDA c : ~Digit(c)) = IF I # {} THEN Min(I) ELSE 0
  BY DEF SelectInSeq
<1> HIDE DEF a
<1>5. PICK n : n = e - p + 1
  OBVIOUS
<1>6. n \in 1 .. Len(a) /\ n \in 1 .. Len(fmt) + 1 - p /\ p + n - 1 = e
  BY <1>2, <1>3, <1>5
<1>7. n \in I
  BY <1>3, <1>6
<1>8. \A i \in I : n <= i
  <2> SUFFICES ASSUME NEW i \in I, i < n PROVE FALSE
    BY <1>6
  <2>1. i \in 1 .. Len(fmt) + 1 - p /\ p + i - 1 \in p .. e - 1
    BY <1>2, <1>3, <1>5, <1>6
  <2> QED BY <1>3, <2>1
<1>9. Min(I) = n
  <2>1. I \in SUBSET Nat /\ I # {}
    BY <1>7
  <2>2. Min(I) \in I /\ \A i \in I : Min(I) <= i
    <3> HIDE DEF I
    <3> QED BY <2>1, MinOfNaturals
  <2>3. Min(I) <= n /\ n <= Min(I) /\ Min(I) \in Nat /\ n \in Nat
    BY <1>6, <1>7, <1>8, <2>1, <2>2
  <2> HIDE DEF I
  <2> QED BY <2>3
<1>10. SelectInSeq(a, LAMBDA c : ~Digit(c)) = n
  BY <1>4, <1>7, <1>9
<1> QED BY <1>5, <1>6, <1>10 DEF SkipDigits, a

\* The value of up to two digits.
ShortNumber(s, L) == IF L = 0 THEN 0 ELSE IF L = 1 THEN s[1] - Zero ELSE (s[1] - Zero) * 10 + (s[2] - Zero)

LEMMA NumberShort ==
  ASSUME NEW s \in Seq(1 .. 255), NEW L \in 0 .. 2, L <= Len(s),
         \A i \in 1 .. L : Digit(s[i]), L = Len(s) \/ ~Digit(s[L + 1])
  PROVE  Number(s) = ShortNumber(s, L)
<1> DEFINE a == CString(s)
           I == {i \in 1 .. Len(a) : ~Digit(a[i])}
<1>1. /\ Len(s) \in Nat /\ Len(a) = Len(s) + 1 /\ a[Len(s) + 1] = NUL
      /\ \A k \in 1 .. Len(s) : a[k] = s[k]
  BY DEF CString, NUL
<1>2. SelectInSeq(a, LAMBDA c : ~Digit(c)) = IF I # {} THEN Min(I) ELSE 0
  BY DEF SelectInSeq
<1> HIDE DEF a
<1>3. L + 1 \in I
  <2>1. ~Digit(NUL)
    BY DEF Digit, NUL, Zero
  <2>2. L + 1 \in 1 .. Len(a) /\ (L # Len(s) => L + 1 \in 1 .. Len(s))
    BY <1>1
  <2> QED BY <1>1, <2>1, <2>2
<1>4. \A i \in I : L + 1 <= i
  BY <1>1
<1>5. Min(I) = L + 1
  <2>1. I \in SUBSET Nat /\ I # {}
    BY <1>3
  <2>2. Min(I) \in I /\ \A i \in I : Min(I) <= i
    <3> HIDE DEF I
    <3> QED BY <2>1, MinOfNaturals
  <2>3. Min(I) <= L + 1 /\ L + 1 <= Min(I) /\ Min(I) \in Nat
    BY <1>3, <1>4, <2>1, <2>2
  <2> HIDE DEF I
  <2> QED BY <2>3
<1>6. SelectInSeq(a, LAMBDA c : ~Digit(c)) = L + 1
  BY <1>2, <1>3, <1>5
<1> DEFINE Reading(f, e) == [i \in 0 .. e - 1 |-> IF i = 0 THEN 0 ELSE f[i - 1] * 10 + (s[i] - Zero)]
<1>7. PICK f : f = (CHOOSE g : g = Reading(g, L + 1))
  OBVIOUS
<1>8. Number(s) = f[(L + 1) - 1]
  BY <1>6, <1>7, Zenon DEF Number, a
<1>9. (L + 1) - 1 = L
  OBVIOUS
<1>10. PICK v : v = [i \in 0 .. L |-> ShortNumber(s, i)]
  OBVIOUS
<1>11. \A i \in 0 .. L : v[i] = IF i = 0 THEN 0 ELSE v[i - 1] * 10 + (s[i] - Zero)
  <2> TAKE i \in 0 .. L
  <2>1. v[i] = ShortNumber(s, i)
    BY <1>10
  <2>2. CASE i = 0
    BY <2>1, <2>2 DEF ShortNumber
  <2>3. CASE i = 1
    <3>1. v[0] = 0 /\ s[1] - Zero \in Int
      <4>1. 1 \in 1 .. Len(s) /\ 0 \in 0 .. L
        BY <1>1, <2>3
      <4>2. s[1] \in 1 .. 255
        BY <4>1, ElementOfSeq
      <4>3. v[0] = 0
        BY <1>10, <4>1 DEF ShortNumber
      <4>4. \A x \in 1 .. 255 : x - Zero \in Int
        BY DEF Zero
      <4> QED BY <4>2, <4>3, <4>4, Zenon
    <3> QED BY <2>1, <2>3, <3>1 DEF ShortNumber
  <2>4. CASE i = 2
    <3>1. v[1] = s[1] - Zero
      BY <1>10, <2>4 DEF ShortNumber
    <3> QED BY <2>1, <2>4, <3>1 DEF ShortNumber
  <2> QED BY <2>2, <2>3, <2>4
<1>12. v = Reading(v, L + 1)
  <2>1. v = [i \in 0 .. L |-> v[i]]
    BY <1>10
  <2> QED BY <1>9, <1>11, <2>1, Zenon
<1>13. f = Reading(f, L + 1)
  <2> HIDE DEF Reading
  <2> QED BY <1>7, <1>12
<1>14. \A i \in 0 .. L : f[i] = IF i = 0 THEN 0 ELSE f[i - 1] * 10 + (s[i] - Zero)
  BY <1>9, <1>13, Zenon
<1>15. f[L] = v[L]
  <2>1. f[0] = v[0]
    BY <1>11, <1>14
  <2>2. L >= 1 => f[1] = v[1]
    BY <1>11, <1>14, <2>1
  <2>3. L = 2 => f[2] = v[2]
    BY <1>11, <1>14, <2>2
  <2> QED BY <2>1, <2>2, <2>3
<1> QED BY <1>8, <1>9, <1>10, <1>15

\* w stands in fmt from position p on.
Standing(fmt, p, w) ==
  /\ p >= 1 /\ p + Len(w) - 1 <= Len(fmt)
  /\ \A i \in 1 .. Len(w) : fmt[p + i - 1] = w[i]

LEMMA NumberFrom ==
  ASSUME NEW fmt \in Seq(1 .. 255), NEW p \in 1 .. Len(fmt), NEW w \in Seq(Zero .. Zero + 9), Len(w) <= 2,
         Standing(fmt, p, w), p + Len(w) <= Len(fmt), ~Digit(fmt[p + Len(w)])
  PROVE  /\ SkipDigits(fmt, p) = p + Len(w)
         /\ Number(From(fmt, p)) = Number(w) /\ Number(w) = ShortNumber(w, Len(w))
         /\ Number(w) \in Nat
<1>1. PICK L \in 0 .. 2 : L = Len(w)
  <2>1. Len(w) \in Nat
    BY LenProperties
  <2>2. \A x \in Nat : x <= 2 => x \in 0 .. 2
    OBVIOUS
  <2> QED BY <2>1, <2>2, Zenon
<1>2. \A i \in 1 .. L : w[i] \in Zero .. Zero + 9 /\ Digit(w[i]) /\ fmt[p + i - 1] = w[i]
  <2>1. \A i \in 1 .. L : w[i] \in Zero .. Zero + 9
    BY <1>1, ElementOfSeq
  <2> QED BY <1>1, <2>1 DEF Standing, Digit
<1>3. SkipDigits(fmt, p) = p + L
  <2>1. p + L \in p .. Len(fmt)
    BY <1>1
  <2>2. ASSUME NEW k \in p .. (p + L) - 1 PROVE Digit(fmt[k])
    <3>1. PICK i : i = k - p + 1
      OBVIOUS
    <3>2. i \in 1 .. L /\ p + i - 1 = k
      BY <3>1
    <3> QED BY <1>2, <3>2
  <2> QED BY <1>1, <2>1, <2>2, SkipDigitsIs
<1>4. PICK s : s = From(fmt, p)
  OBVIOUS
<1>5. /\ s \in Seq(1 .. 255) /\ Len(s) = Len(fmt) - p + 1
      /\ \A i \in 1 .. Len(fmt) - p + 1 : s[i] = fmt[p + i - 1]
  <2>1. p \in 1 .. Len(fmt) + 1 /\ Len(fmt) \in p - 1 .. Len(fmt)
    OBVIOUS
  <2> QED BY <1>4, <2>1, SubSeqIs, ZenonT(40) DEF From
<1>6. L + 1 <= Len(s) /\ ~Digit(s[L + 1]) /\ \A i \in 1 .. L : s[i] = w[i]
  <2>1. Len(fmt) \in Nat
    OBVIOUS
  <2>2. L + 1 \in 1 .. Len(fmt) - p + 1 /\ p + (L + 1) - 1 = p + L
    BY <1>1, <2>1
  <2>3. s[L + 1] = fmt[p + L]
    BY <1>5, <2>2
  <2> QED BY <1>1, <1>2, <1>5, <2>2, <2>3
<1>7. Number(s) = ShortNumber(s, L)
  BY <1>2, <1>5, <1>6, NumberShort, SMTT(30)
<1>8. w \in Seq(1 .. 255)
  BY DEF Zero
<1>9. Number(w) = ShortNumber(w, L)
  <2>1. L <= Len(w) /\ L = Len(w) /\ \A i \in 1 .. L : Digit(w[i])
    BY <1>1, <1>2
  <2> QED BY <1>8, <2>1, NumberShort
<1>10. ShortNumber(s, L) = ShortNumber(w, L)
  <2>1. CASE L = 0
    BY <2>1 DEF ShortNumber
  <2>2. CASE L = 1
    BY <1>6, <2>2 DEF ShortNumber
  <2>3. CASE L = 2
    BY <1>6, <2>3 DEF ShortNumber
  <2> QED BY <2>1, <2>2, <2>3
<1>11. ShortNumber(w, L) \in Nat
  <2>1. CASE L = 0
    BY <2>1 DEF ShortNumber
  <2>2. CASE L = 1
    BY <1>2, <2>2 DEF ShortNumber, Zero
  <2>3. CASE L = 2
    <3>1. w[1] - Zero \in Nat /\ w[2] - Zero \in Nat
      BY <1>2, <2>3, SMTT(30) DEF Zero
    <3>2. ShortNumber(w, L) = (w[1] - Zero) * 10 + (w[2] - Zero)
      BY <2>3 DEF ShortNumber
    <3> QED BY <3>1, <3>2
  <2> QED BY <2>1, <2>2, <2>3
<1> QED BY <1>1, <1>3, <1>4, <1>7, <1>9, <1>10, <1>11

LEMMA LettersAre ==
  /\ Letter("c") = 99 /\ Letter("d") = 100 /\ Letter("l") = 108 /\ Letter("p") = 112
  /\ Letter("s") = 115 /\ Letter("u") = 117 /\ Letter("x") = 120 /\ Letter("z") = 122
  /\ Letter("i") = 105 /\ Letter("X") = 88
BY DEF Letter

LEMMA SpecsAre ==
  /\ Signs = {100, 105} /\ Hexes = {120, 88} /\ Numbers = {100, 105, 120, 88, 117}
  /\ Takes = {100, 105, 120, 88, 117, 99, 115, 112}
  /\ VgaTakes = {100, 117, 99, 115, 120, 88}
BY LettersAre DEF Signs, Hexes, Numbers, Takes, VgaTakes

LEMMA SkipOne ==
  ASSUME NEW fmt \in Seq(1 .. 255), NEW k \in 1 .. Len(fmt), NEW c
  PROVE  Skip(fmt, k, c) = IF fmt[k] = c THEN k + 1 ELSE k
BY AtIs DEF Skip

FlagsRead == {Absent, <<Minus>>, <<Zero>>, <<Minus, Zero>>}
LengthsRead == {Absent, <<Letter("l")>>}
SpecsRead == Takes \cup {Percent}

\* The flags are skipped.
LEMMA FlagsSkipped ==
  ASSUME NEW fmt \in Seq(1 .. 255), NEW p \in 1 .. Len(fmt), NEW w \in FlagsRead, Standing(fmt, p, w),
         NEW e, e = p + Len(w), e <= Len(fmt), fmt[e] \notin {Minus, Zero}
  PROVE  \E z : /\ z = Skip(fmt, p, Minus) /\ e = Skip(fmt, z, Zero) /\ e \in Nat
                /\ z # p <=> Minus \in ToSet(w)
                /\ e # z <=> Zero \in ToSet(w)
<1>1. Minus = 45 /\ Zero = 48
  BY DEF Minus, Zero
<1>2. \A i \in 1 .. Len(w) : fmt[p + i - 1] = w[i]
  BY DEF Standing
<1>3. CASE w = <<>>
  <2>1. e = p /\ ToSet(w) = {}
    BY <1>3 DEF ToSet
  <2> QED BY <1>1, <2>1, SkipOne
<1>4. CASE w = <<45>>
  <2>1. e = p + 1 /\ ToSet(w) = {45} /\ fmt[p] = 45
    BY <1>2, <1>4 DEF ToSet
  <2>2. Skip(fmt, p, Minus) = e
    BY <1>1, <2>1, SkipOne
  <2>3. e \in 1 .. Len(fmt)
    BY <2>1
  <2>4. Skip(fmt, e, Zero) = e
    BY <1>1, <2>3, SkipOne
  <2> QED BY <1>1, <2>1, <2>2, <2>3, <2>4
<1>5. CASE w = <<48>>
  <2>1. e = p + 1 /\ ToSet(w) = {48} /\ fmt[p] = 48
    BY <1>2, <1>5 DEF ToSet
  <2>2. Skip(fmt, p, Minus) = p
    BY <1>1, <2>1, SkipOne
  <2>3. Skip(fmt, p, Zero) = e
    BY <1>1, <2>1, SkipOne
  <2> QED BY <1>1, <2>1, <2>2, <2>3
<1>6. CASE w = <<45, 48>>
  <2>1. e = p + 2 /\ fmt[p] = 45 /\ fmt[p + 1] = 48
    BY <1>2, <1>6
  <2>2. ToSet(w) = {45, 48}
    BY <1>6 DEF ToSet
  <2>3. Skip(fmt, p, Minus) = p + 1
    BY <1>1, <2>1, SkipOne
  <2>4. p + 1 \in 1 .. Len(fmt)
    BY <2>1
  <2>5. Skip(fmt, p + 1, Zero) = (p + 1) + 1
    BY <1>1, <2>1, <2>4, SkipOne
  <2> QED BY <1>1, <2>1, <2>2, <2>3, <2>5
<1>7. w = <<>> \/ w = <<45>> \/ w = <<48>> \/ w = <<45, 48>>
  BY <1>1 DEF FlagsRead, Absent
<1> QED BY <1>3, <1>4, <1>5, <1>6, <1>7

LEMMA WidthsAre ==
  ASSUME NEW w \in Widths
  PROVE  /\ w \in Seq(Zero .. Zero + 9) /\ Len(w) <= 2 /\ Len(w) \in Nat
         /\ Len(w) > 0 => w[1] # Zero /\ w[1] \in Zero .. Zero + 9
<1>1. Zero = 48
  BY DEF Zero
<1>2. w = <<>> \/ w = <<51>> \/ w = <<49, 48>>
  BY <1>1 DEF Widths, Absent
<1>3. CASE w = <<>>
  BY <1>1, <1>3
<1>4. CASE w = <<51>>
  BY <1>1, <1>4
<1>5. CASE w = <<49, 48>>
  BY <1>1, <1>5
<1> QED BY <1>2, <1>3, <1>4, <1>5

LEMMA PrecisionsAre ==
  ASSUME NEW w \in Precisions
  PROVE  \/ w = Absent /\ Len(w) = 0
         \/ /\ w # Absent /\ Len(w) > 0 /\ w[1] = Dot /\ Len(w) \in Nat
            /\ Tail(w) \in Seq(Zero .. Zero + 9) /\ Len(Tail(w)) <= 2
            /\ Len(Tail(w)) \in Nat /\ Len(w) = Len(Tail(w)) + 1 /\ \A i \in 1 .. Len(Tail(w)) : Tail(w)[i] = w[i + 1]
<1>1. Zero = 48
  BY DEF Zero
<1>2. w = <<>> \/ w = <<Dot>> \/ w = <<Dot, 50>>
  BY <1>1 DEF Precisions, Absent
<1>3. CASE w = <<>>
  BY <1>1, <1>3 DEF Absent
<1>4. CASE w = <<Dot>>
  <2>1. Tail(w) = <<>> /\ Len(w) = 1 /\ w[1] = Dot
    BY <1>4
  <2>2. w # <<>>
    BY <2>1
  <2>3. <<>> \in Seq(48 .. 48 + 9) /\ Len(<<>>) = 0 /\ 1 .. 0 = {} /\ 1 = 0 + 1 /\ 0 <= 2 /\ 0 \in Nat /\ 1 \in Nat /\ 1 > 0
    OBVIOUS
  <2> QED BY <1>1, <2>1, <2>2, <2>3, Zenon DEF Absent
<1>5. CASE w = <<Dot, 50>>
  <2>1. Tail(w) = <<50>> /\ Len(w) = 2 /\ w[1] = Dot /\ w[2] = 50
    BY <1>5
  <2>2. w # <<>>
    BY <2>1
  <2>3. PICK t : t = <<50>>
    OBVIOUS
  <2>4. t \in Seq(48 .. 48 + 9) /\ Len(t) = 1 /\ t[1] = 50
    BY <2>3
  <2>5. \A i \in 1 .. 1 : t[i] = w[i + 1]
    BY <2>1, <2>4
  <2>6. 2 = 1 + 1 /\ 1 <= 2 /\ 1 \in Nat /\ 2 \in Nat /\ 2 > 0
    OBVIOUS
  <2> QED BY <1>1, <2>1, <2>2, <2>3, <2>4, <2>5, <2>6, Zenon DEF Absent
<1> QED BY <1>2, <1>3, <1>4, <1>5

\* A directive of these parts stands in fmt from position p on, with its
\* conversion at e.
Stands(fmt, p, F, W, P, G, c, e) ==
  /\ p \in 1 .. Len(fmt) /\ e = p + Len(F) + Len(W) + Len(P) + Len(G) /\ e <= Len(fmt)
  /\ Standing(fmt, p, F) /\ Standing(fmt, p + Len(F), W)
  /\ Standing(fmt, p + Len(F) + Len(W), P) /\ Standing(fmt, p + Len(F) + Len(W) + Len(P), G)
  /\ fmt[e] = c

\* Such a format is one that is read to its end.
Readable(fmt, p, F, W, P, G, c, e) ==
  /\ fmt \in Seq(1 .. 255) /\ F \in FlagsRead /\ W \in Widths /\ P \in Precisions /\ G \in LengthsRead
  /\ c \in SpecsRead /\ Stands(fmt, p, F, W, P, G, c, e)

LEMMA FlagsType == \A w \in FlagsRead : Len(w) \in Nat
BY DEF FlagsRead, Absent

LEMMA LengthsAre == \A w \in LengthsRead : \/ w = Absent /\ Len(w) = 0
                                           \/ w # Absent /\ Len(w) = 1 /\ w[1] = 108
<1>1. PICK g : g = <<108>>
  OBVIOUS
<1>2. g # <<>> /\ Len(g) = 1 /\ g[1] = 108
  BY <1>1
<1> QED BY <1>1, <1>2, LettersAre DEF LengthsRead, Absent

\* What Directive reads of them; next is the position behind.
ReadOf(F, W, P, c, next) ==
  [left |-> Minus \in ToSet(F), zero |-> Zero \in ToSet(F), width |-> Number(W),
   precision |-> IF P = Absent THEN -1 ELSE Number(Tail(P)), spec |-> c, next |-> next]

LEMMA DirectiveRead ==
  ASSUME NEW fmt, NEW p, NEW F, NEW W, NEW P, NEW G, NEW c, NEW e, Readable(fmt, p, F, W, P, G, c, e)
  PROVE  Directive(fmt, p) = ReadOf(F, W, P, c, e + 1)
<1>0. /\ fmt \in Seq(1 .. 255) /\ F \in FlagsRead /\ W \in Widths /\ P \in Precisions /\ G \in LengthsRead
      /\ c \in SpecsRead /\ Stands(fmt, p, F, W, P, G, c, e)
  BY DEF Readable
<1> USE <1>0
<1>1. Minus = 45 /\ Zero = 48 /\ Dot = 46 /\ Percent = 37 /\ Letter("l") = 108
  BY LettersAre DEF Minus, Zero, Dot, Percent
<1>2. c \in {100, 105, 120, 88, 117, 99, 115, 112, 37}
  BY <1>1, SpecsAre DEF SpecsRead
<1>3. PICK b2, b3, b4 : b2 = p + Len(F) /\ b3 = b2 + Len(W) /\ b4 = b3 + Len(P)
  OBVIOUS
<1>4. Len(F) \in Nat /\ Len(W) \in Nat /\ Len(P) \in Nat /\ Len(G) \in Nat
  BY FlagsType, WidthsAre, PrecisionsAre, LengthsAre
<1>5. /\ p \in 1 .. Len(fmt) /\ e = b4 + Len(G) /\ e <= Len(fmt) /\ fmt[e] = c
      /\ Standing(fmt, p, F) /\ Standing(fmt, b2, W) /\ Standing(fmt, b3, P) /\ Standing(fmt, b4, G)
  BY <1>3 DEF Stands
<1>6. e \in 1 .. Len(fmt) /\ b4 \in 1 .. e /\ b3 \in 1 .. b4 /\ b2 \in 1 .. b3
  BY <1>3, <1>4, <1>5
<1>7. /\ b4 = e => G = Absent /\ fmt[b4] = c
      /\ b4 # e => fmt[b4] = 108 /\ e = b4 + 1
  <2>1. CASE Len(G) = 0
    <3>1. b4 = e /\ G = Absent
      BY <1>5, <1>6, <2>1, LengthsAre
    <3> QED BY <1>5, <3>1
  <2>2. CASE Len(G) = 1
    <3>1. fmt[b4 + 1 - 1] = G[1] /\ G[1] = 108 /\ e = b4 + 1
      BY <1>5, <2>2, LengthsAre DEF Standing
    <3> QED BY <1>6, <3>1
  <2> QED BY <2>1, <2>2, LengthsAre
<1>8. ~Digit(fmt[b4]) /\ fmt[b4] \notin {Minus, Zero, Dot}
  <2>1. fmt[b4] = c \/ fmt[b4] = 108
    BY <1>7
  <2> QED BY <1>1, <1>2, <2>1 DEF Digit
<1>9. /\ b3 = b4 => P = Absent
      /\ b3 # b4 => /\ P # Absent /\ fmt[b3] = Dot /\ b3 < b4
                    /\ Tail(P) \in Seq(Zero .. Zero + 9) /\ Len(Tail(P)) <= 2
                    /\ b3 + 1 + Len(Tail(P)) = b4 /\ Standing(fmt, b3 + 1, Tail(P))
  <2>1. CASE P = Absent /\ Len(P) = 0
    BY <1>3, <1>6, <2>1
  <2>2. CASE /\ P # Absent /\ Len(P) > 0 /\ P[1] = Dot /\ Len(P) \in Nat
             /\ Tail(P) \in Seq(Zero .. Zero + 9) /\ Len(Tail(P)) <= 2
             /\ Len(Tail(P)) \in Nat /\ Len(P) = Len(Tail(P)) + 1 /\ \A i \in 1 .. Len(Tail(P)) : Tail(P)[i] = P[i + 1]
    <3>1. PICK t, n : t = Tail(P) /\ n = Len(t)
      OBVIOUS
    <3>2. n \in Nat /\ Len(P) = n + 1 /\ \A i \in 1 .. n : t[i] = P[i + 1]
      BY <2>2, <3>1
    <3>3. \A i \in 1 .. n + 1 : fmt[b3 + i - 1] = P[i]
      BY <1>5, <3>2 DEF Standing
    <3>4. fmt[b3] = Dot
      <4>1. 1 \in 1 .. n + 1 /\ b3 + 1 - 1 = b3
        BY <1>6, <3>2
      <4>2. fmt[b3 + 1 - 1] = P[1]
        BY <3>3, <4>1
      <4> QED BY <2>2, <4>1, <4>2
    <3>5. ASSUME NEW i \in 1 .. n PROVE fmt[(b3 + 1) + i - 1] = t[i]
      <4>1. i + 1 \in 1 .. n + 1 /\ (b3 + 1) + i - 1 = b3 + (i + 1) - 1
        BY <1>6, <3>2
      <4>2. fmt[b3 + (i + 1) - 1] = P[i + 1]
        BY <3>3, <4>1
      <4> QED BY <3>2, <4>1, <4>2
    <3>6. b4 = b3 + n + 1 /\ b3 < b4 /\ (b3 + 1) + n = b4
      BY <1>3, <1>6, <3>2
    <3>7. Standing(fmt, b3 + 1, t)
      <4>1. b3 + 1 >= 1 /\ (b3 + 1) + n - 1 <= Len(fmt)
        BY <1>6, <3>2, <3>6
      <4> QED BY <3>1, <3>5, <4>1 DEF Standing
    <3> QED BY <2>2, <3>1, <3>4, <3>6, <3>7
  <2> QED BY <2>1, <2>2, PrecisionsAre
<1>10. ~Digit(fmt[b3]) /\ fmt[b3] \notin {Minus, Zero} /\ (fmt[b3] = Dot <=> b3 # b4)
  <2>1. CASE b3 = b4
    BY <1>8, <2>1
  <2>2. CASE b3 # b4
    BY <1>1, <1>9, <2>2 DEF Digit
  <2> QED BY <2>1, <2>2
<1>11. fmt[b2] \notin {Minus, Zero}
  <2>1. CASE Len(W) = 0
    <3>1. b2 = b3
      BY <1>3, <1>6, <2>1
    <3> QED BY <1>10, <3>1
  <2>2. CASE Len(W) > 0
    <3>1. b2 + 1 - 1 = b2 /\ 1 \in 1 .. Len(W)
      BY <1>4, <1>6, <2>2
    <3>2. fmt[b2 + 1 - 1] = W[1]
      BY <1>5, <3>1 DEF Standing
    <3>3. W[1] # Zero /\ W[1] \in Zero .. Zero + 9
      BY <2>2, WidthsAre
    <3> QED BY <1>1, <3>1, <3>2, <3>3
  <2> QED BY <1>4, <2>1, <2>2
<1>12. b2 \in 1 .. Len(fmt) /\ b3 \in 1 .. Len(fmt) /\ b4 \in 1 .. Len(fmt)
  BY <1>6
<1>13. PICK z : /\ z = Skip(fmt, p, Minus) /\ b2 = Skip(fmt, z, Zero)
                /\ z # p <=> Minus \in ToSet(F)
                /\ b2 # z <=> Zero \in ToSet(F)
  <2>1. b2 = p + Len(F) /\ b2 <= Len(fmt)
    BY <1>3, <1>12
  <2> QED BY <1>5, <1>11, <2>1, FlagsSkipped
<1>14. SkipDigits(fmt, b2) = b3 /\ Number(From(fmt, b2)) = Number(W)
  <2>1. W \in Seq(Zero .. Zero + 9) /\ Len(W) <= 2
    BY WidthsAre
  <2>2. b2 + Len(W) = b3 /\ b2 + Len(W) <= Len(fmt) /\ ~Digit(fmt[b2 + Len(W)])
    BY <1>3, <1>10, <1>12
  <2>3. SkipDigits(fmt, b2) = b2 + Len(W) /\ Number(From(fmt, b2)) = Number(W)
    BY <1>5, <1>12, <2>1, <2>2, NumberFrom
  <2> QED BY <2>2, <2>3
<1>15. At(fmt, b3) = fmt[b3] /\ At(fmt, e) = c
  BY <1>5, <1>6, <1>12, AtIs
<1>16. b3 # b4 => SkipDigits(fmt, b3 + 1) = b4 /\ Number(From(fmt, b3 + 1)) = Number(Tail(P))
  <2> SUFFICES ASSUME b3 # b4
               PROVE  SkipDigits(fmt, b3 + 1) = b4 /\ Number(From(fmt, b3 + 1)) = Number(Tail(P))
    OBVIOUS
  <2>1. PICK n, t : n = b3 + 1 /\ t = Tail(P)
    OBVIOUS
  <2>2. /\ t \in Seq(Zero .. Zero + 9) /\ Len(t) <= 2 /\ n + Len(t) = b4 /\ Standing(fmt, n, t)
        /\ n \in 1 .. Len(fmt)
    BY <1>6, <1>9, <1>12, <2>1
  <2>3. n + Len(t) <= Len(fmt) /\ ~Digit(fmt[n + Len(t)])
    BY <1>8, <1>12, <2>2
  <2>4. SkipDigits(fmt, n) = n + Len(t) /\ Number(From(fmt, n)) = Number(t)
    BY <2>2, <2>3, NumberFrom
  <2> QED BY <2>1, <2>2, <2>4
<1>17. Skip(fmt, b4, Letter("l")) = e
  <2>1. CASE b4 = e
    <3>1. fmt[b4] # 108
      BY <1>2, <1>7, <2>1
    <3> QED BY <1>1, <1>12, <2>1, <3>1, SkipOne
  <2>2. CASE b4 # e
    BY <1>1, <1>7, <1>12, <2>2, SkipOne
  <2> QED BY <2>1, <2>2
<1>18. CASE b3 = b4
  <2>1. At(fmt, b3) # Dot /\ P = Absent
    BY <1>9, <1>10, <1>15, <1>18
  <2>2. Directive(fmt, p)
          = [left |-> z # p, zero |-> b2 # z, width |-> Number(From(fmt, b2)),
             precision |-> -1, spec |-> At(fmt, e), next |-> e + 1]
    BY <1>13, <1>14, <1>17, <1>18, <2>1 DEF Directive
  <2> QED BY <1>13, <1>14, <1>15, <2>1, <2>2 DEF ReadOf
<1>19. CASE b3 # b4
  <2>1. At(fmt, b3) = Dot /\ P # Absent
    BY <1>9, <1>10, <1>15, <1>19
  <2>2. Directive(fmt, p)
          = [left |-> z # p, zero |-> b2 # z, width |-> Number(From(fmt, b2)),
             precision |-> Number(From(fmt, b3 + 1)), spec |-> At(fmt, e), next |-> e + 1]
    BY <1>13, <1>14, <1>16, <1>17, <1>19, <2>1 DEF Directive
  <2> QED BY <1>13, <1>14, <1>15, <1>16, <1>19, <2>1, <2>2 DEF ReadOf
<1> QED BY <1>18, <1>19

LEMMA JoinIs ==
  ASSUME NEW S, NEW a \in Seq(S), NEW b \in Seq(S)
  PROVE  /\ a \o b \in Seq(S) /\ Len(a \o b) = Len(a) + Len(b)
         /\ \A i \in 1 .. Len(a) : (a \o b)[i] = a[i]
         /\ \A i \in 1 .. Len(b) : (a \o b)[Len(a) + i] = b[i]
<1>1. PICK s : s = a \o b
  OBVIOUS
<1>2. Len(a) \in Nat /\ Len(b) \in Nat
  BY LenProperties
<1>3. /\ s \in Seq(S) /\ Len(s) = Len(a) + Len(b)
      /\ \A i \in 1 .. Len(a) + Len(b) : s[i] = IF i <= Len(a) THEN a[i] ELSE b[i - Len(a)]
  BY <1>1, ConcatProperties
<1>4. \A i \in 1 .. Len(a) : s[i] = a[i]
  BY <1>2, <1>3
<1>5. ASSUME NEW i \in 1 .. Len(b) PROVE s[Len(a) + i] = b[i]
  <2>1. PICK k : k = Len(a) + i
    OBVIOUS
  <2>2. k \in 1 .. Len(a) + Len(b) /\ ~(k <= Len(a)) /\ k - Len(a) = i
    BY <1>2, <2>1
  <2> QED BY <1>3, <2>1, <2>2
<1> QED BY <1>1, <1>3, <1>4, <1>5

\* a stands at the beginning of fmt.
Begins(fmt, a) == Len(a) <= Len(fmt) /\ \A i \in 1 .. Len(a) : fmt[i] = a[i]

\* What a join begins with stands where it ends.
LEMMA BeginsJoin ==
  ASSUME NEW S, NEW a \in Seq(S), NEW b \in Seq(S), NEW fmt \in Seq(S), Begins(fmt, a \o b)
  PROVE  Begins(fmt, a) /\ Standing(fmt, Len(a) + 1, b)
<1>1. PICK s : s = a \o b
  OBVIOUS
<1>2. Len(a) \in Nat /\ Len(b) \in Nat
  BY LenProperties
<1>3. /\ Len(s) = Len(a) + Len(b)
      /\ \A i \in 1 .. Len(a) : s[i] = a[i]
      /\ \A i \in 1 .. Len(b) : s[Len(a) + i] = b[i]
  BY <1>1, JoinIs
<1>4. Len(s) <= Len(fmt) /\ \A i \in 1 .. Len(s) : fmt[i] = s[i]
  BY <1>1 DEF Begins
<1>5. Begins(fmt, a)
  BY <1>2, <1>3, <1>4 DEF Begins
<1>6. ASSUME NEW i \in 1 .. Len(b) PROVE fmt[(Len(a) + 1) + i - 1] = b[i]
  <2>1. PICK k : k = Len(a) + i
    OBVIOUS
  <2>2. k \in 1 .. Len(s) /\ (Len(a) + 1) + i - 1 = k
    BY <1>2, <1>3, <2>1
  <2> QED BY <1>3, <1>4, <2>1, <2>2
<1>7. Len(a) + 1 >= 1 /\ (Len(a) + 1) + Len(b) - 1 <= Len(fmt)
  <2>1. Len(fmt) \in Nat
    BY LenProperties
  <2> QED BY <1>2, <1>3, <1>4, <2>1
<1> QED BY <1>5, <1>6, <1>7 DEF Standing

LEMMA PartsAre ==
  ASSUME NEW d \in Directives, Known(d)
  PROVE  /\ d.flags \in FlagsRead /\ d.width \in Widths /\ d.precision \in Precisions
         /\ d.length \in LengthsRead /\ d.spec \in SpecsRead
         /\ d.flags \in Seq(1 .. 255) /\ d.width \in Seq(1 .. 255) /\ d.precision \in Seq(1 .. 255)
         /\ d.length \in Seq(1 .. 255) /\ d.spec \in 1 .. 255
<1>1. /\ d.flags \in FlagsRead /\ d.width \in Widths /\ d.precision \in Precisions
      /\ d.length \in LengthsRead /\ d.spec \in SpecsRead
  BY DEF Directives, Known, Flags, FlagsRead, LengthsRead, Lengths, SpecsRead
<1>2. Minus = 45 /\ Zero = 48 /\ Dot = 46 /\ Percent = 37 /\ Letter("l") = 108
  BY LettersAre DEF Minus, Zero, Dot, Percent
<1>3. /\ <<>> \in Seq(1 .. 255) /\ <<45>> \in Seq(1 .. 255) /\ <<48>> \in Seq(1 .. 255)
      /\ <<45, 48>> \in Seq(1 .. 255) /\ <<108>> \in Seq(1 .. 255)
      /\ <<51>> \in Seq(1 .. 255) /\ <<49, 48>> \in Seq(1 .. 255)
      /\ <<46>> \in Seq(1 .. 255) /\ <<46, 50>> \in Seq(1 .. 255)
  OBVIOUS
<1>4. d.flags \in Seq(1 .. 255)
  <2>1. d.flags = <<>> \/ d.flags = <<45>> \/ d.flags = <<48>> \/ d.flags = <<45, 48>>
    BY <1>1, <1>2 DEF FlagsRead, Absent
  <2> QED BY <1>3, <2>1, Zenon
<1>5. d.width \in Seq(1 .. 255)
  <2>1. d.width = <<>> \/ d.width = <<51>> \/ d.width = <<49, 48>>
    BY <1>1, <1>2 DEF Widths, Absent
  <2> QED BY <1>3, <2>1, Zenon
<1>6. d.precision \in Seq(1 .. 255)
  <2>1. d.precision = <<>> \/ d.precision = <<46>> \/ d.precision = <<46, 50>>
    BY <1>1, <1>2 DEF Precisions, Absent
  <2> QED BY <1>3, <2>1, Zenon
<1>7. d.length \in Seq(1 .. 255)
  <2>1. d.length = <<>> \/ d.length = <<108>>
    BY <1>1, <1>2 DEF LengthsRead, Absent
  <2> QED BY <1>3, <2>1, Zenon
<1>8. d.spec \in 1 .. 255
  BY <1>1, <1>2, SpecsAre DEF SpecsRead
<1> QED BY <1>1, <1>4, <1>5, <1>6, <1>7, <1>8

\* The format of a directive, read from the front; n is its length.
LEMMA FormatIs ==
  ASSUME NEW d \in Directives, Known(d), NEW fmt, fmt = FormatOf(d), NEW n, n = Len(fmt)
  PROVE  /\ fmt \in Seq(1 .. 255) /\ n \in Nat /\ n >= 6 /\ fmt[1] = LowerA /\ fmt[2] = Percent
         /\ Stands(fmt, 3, d.flags, d.width, d.precision, d.length, d.spec, n - 3)
         /\ fmt[n - 2] = Space /\ fmt[n - 1] = Percent
         /\ Stands(fmt, n, Absent, Absent, Absent, Absent, Letter("d"), n)
         /\ Plain(d) => n = 6 /\ fmt[3] = d.spec
<1>1. PICK c : c = d.spec
  OBVIOUS
<1>2. PICK t0, t1 : t0 = <<97, 37>> /\ t1 = <<c, 32, 37, 100>>
  OBVIOUS
<1>3. c \in 1 .. 255
  BY <1>1, PartsAre
<1>4. /\ t0 \in Seq(1 .. 255) /\ Len(t0) = 2 /\ t0[1] = 97 /\ t0[2] = 37
      /\ t1 \in Seq(1 .. 255) /\ Len(t1) = 4 /\ t1[1] = c /\ t1[2] = 32 /\ t1[3] = 37 /\ t1[4] = 100
  BY <1>2, <1>3
<1>5. PICK F, W, P, G : F = d.flags /\ W = d.width /\ P = d.precision /\ G = d.length
  OBVIOUS
<1>6. F \in Seq(1 .. 255) /\ W \in Seq(1 .. 255) /\ P \in Seq(1 .. 255) /\ G \in Seq(1 .. 255)
  BY <1>5, PartsAre
<1>7. PICK s2, s3, s4, s5 : s2 = t0 \o F /\ s3 = s2 \o W /\ s4 = s3 \o P /\ s5 = s4 \o G
  OBVIOUS
<1>8. fmt = s5 \o t1
  <2>1. LowerA = 97 /\ Percent = 37 /\ Space = 32 /\ Letter("d") = 100
    BY LettersAre DEF LowerA, Percent, Space
  <2>2. FormatOf(d) = <<97, 37>> \o d.flags \o d.width \o d.precision \o d.length \o <<d.spec, 32, 37, 100>>
    BY <2>1, Zenon DEF FormatOf
  <2> QED BY <1>1, <1>2, <1>5, <1>7, <2>2, Zenon
<1>9. s2 \in Seq(1 .. 255) /\ Len(s2) = 2 + Len(F)
  <2>1. t0 \in Seq(1 .. 255) /\ Len(t0) = 2
    BY <1>4
  <2>2. t0 \o F \in Seq(1 .. 255) /\ Len(t0 \o F) = Len(t0) + Len(F)
    BY <1>6, <2>1, JoinIs, ZenonT(40)
  <2> QED BY <1>7, <2>1, <2>2
<1>10. s3 \in Seq(1 .. 255) /\ Len(s3) = Len(s2) + Len(W)
  BY <1>6, <1>7, <1>9, JoinIs
<1>11. s4 \in Seq(1 .. 255) /\ Len(s4) = Len(s3) + Len(P)
  BY <1>6, <1>7, <1>10, JoinIs
<1>12. s5 \in Seq(1 .. 255) /\ Len(s5) = Len(s4) + Len(G)
  BY <1>6, <1>7, <1>11, JoinIs
<1>13. fmt \in Seq(1 .. 255) /\ n = Len(s5) + 4
  <2>1. t1 \in Seq(1 .. 255) /\ Len(t1) = 4
    BY <1>4
  <2>2. s5 \o t1 \in Seq(1 .. 255) /\ Len(s5 \o t1) = Len(s5) + Len(t1)
    BY <1>12, <2>1, JoinIs, ZenonT(40)
  <2> QED BY <1>8, <2>1, <2>2
<1>14. Len(F) \in Nat /\ Len(W) \in Nat /\ Len(P) \in Nat /\ Len(G) \in Nat
  BY <1>6, LenProperties
<1>15. Begins(fmt, s5 \o t1)
  BY <1>8, <1>13 DEF Begins
<1>16. Begins(fmt, s5) /\ Standing(fmt, Len(s5) + 1, t1)
  BY <1>4, <1>12, <1>13, <1>15, BeginsJoin
<1>17. Begins(fmt, s4) /\ Standing(fmt, Len(s4) + 1, G)
  BY <1>6, <1>7, <1>11, <1>13, <1>16, BeginsJoin
<1>18. Begins(fmt, s3) /\ Standing(fmt, Len(s3) + 1, P)
  BY <1>6, <1>7, <1>10, <1>13, <1>17, BeginsJoin
<1>19. Begins(fmt, s2) /\ Standing(fmt, Len(s2) + 1, W)
  BY <1>6, <1>7, <1>9, <1>13, <1>18, BeginsJoin
<1>20. Begins(fmt, t0) /\ Standing(fmt, Len(t0) + 1, F)
  BY <1>4, <1>6, <1>7, <1>13, <1>19, BeginsJoin
<1>21. n \in Nat /\ n >= 6 /\ n - 3 = 3 + Len(F) + Len(W) + Len(P) + Len(G)
  BY <1>9, <1>10, <1>11, <1>12, <1>13, <1>14
<1>22. fmt[n - 3] = c /\ fmt[n - 2] = 32 /\ fmt[n - 1] = 37 /\ fmt[n] = 100
  <2>1. \A i \in 1 .. 4 : fmt[(Len(s5) + 1) + i - 1] = t1[i]
    BY <1>4, <1>16 DEF Standing
  <2>2. PICK m \in Nat : m = Len(s5)
    BY <1>12, LenProperties
  <2>3. (m + 1) + 1 - 1 = n - 3 /\ (m + 1) + 2 - 1 = n - 2 /\ (m + 1) + 3 - 1 = n - 1 /\ (m + 1) + 4 - 1 = n
    BY <1>13, <2>2
  <2> QED BY <1>4, <2>1, <2>2, <2>3
<1>23. fmt[1] = 97 /\ fmt[2] = 37
  BY <1>4, <1>20 DEF Begins
<1>24. Stands(fmt, 3, F, W, P, G, c, n - 3)
  <2>1. 3 \in 1 .. n /\ n - 3 <= n
    BY <1>21
  <2>2. /\ Len(t0) + 1 = 3 /\ Len(s2) + 1 = 3 + Len(F) /\ Len(s3) + 1 = 3 + Len(F) + Len(W)
        /\ Len(s4) + 1 = 3 + Len(F) + Len(W) + Len(P)
    BY <1>4, <1>9, <1>10, <1>11, <1>14
  <2> QED BY <1>17, <1>18, <1>19, <1>20, <1>21, <1>22, <2>1, <2>2 DEF Stands
<1>25. Stands(fmt, n, Absent, Absent, Absent, Absent, Letter("d"), n)
  <2>1. Len(Absent) = 0
    BY DEF Absent
  <2>2. Standing(fmt, n, Absent)
    BY <1>21, <2>1 DEF Standing
  <2>3. n + Len(Absent) = n
    BY <1>21, <2>1
  <2>4. n + Len(Absent) + Len(Absent) + Len(Absent) + Len(Absent) = n /\ n \in 1 .. n /\ n <= n
    BY <1>21, <2>1
  <2> QED BY <1>22, <2>2, <2>3, <2>4, LettersAre DEF Stands
<1>26. Plain(d) => n = 6 /\ fmt[3] = c
  <2> SUFFICES ASSUME Plain(d) PROVE n = 6 /\ fmt[3] = c
    OBVIOUS
  <2>1. F = <<>> /\ W = <<>> /\ P = <<>> /\ G = <<>>
    BY <1>5 DEF Plain, Absent
  <2>2. Len(F) = 0 /\ Len(W) = 0 /\ Len(P) = 0 /\ Len(G) = 0
    BY <2>1
  <2>3. n \in Nat /\ n - 3 = 3 + 0 + 0 + 0 + 0
    BY <1>21, <2>2, Zenon
  <2>4. \A x \in Nat : x - 3 = 3 + 0 + 0 + 0 + 0 => x - 3 = 3 /\ x = 6
    OBVIOUS
  <2>5. n - 3 = 3 /\ n = 6
    BY <2>3, <2>4, Zenon
  <2> QED BY <1>22, <2>5
<1> QED BY <1>1, <1>5, <1>13, <1>21, <1>22, <1>23, <1>24, <1>25, <1>26 DEF LowerA, Percent, Space

\* What Directive reads of d, and of the number behind it, in a format of n
\* characters.
Read(d, n) == ReadOf(d.flags, d.width, d.precision, d.spec, n - 2)
ReadNumber(n) == ReadOf(Absent, Absent, Absent, Letter("d"), n + 1)

LEMMA NumberOfNothing == Number(<<>>) = 0
<1>1. PICK s : s = <<>>
  OBVIOUS
<1>2. s \in Seq(1 .. 255) /\ Len(s) = 0 /\ \A i \in 1 .. 0 : Digit(s[i])
  BY <1>1
<1>3. 0 \in 0 .. 2 /\ 0 <= 0
  OBVIOUS
<1>4. Number(s) = ShortNumber(s, 0)
  BY <1>2, <1>3, NumberShort
<1> QED BY <1>1, <1>4 DEF ShortNumber

LEMMA DirectivesRead ==
  ASSUME NEW d \in Directives, Known(d), NEW fmt, fmt = FormatOf(d), NEW n, n = Len(fmt)
  PROVE  Directive(fmt, 3) = Read(d, n) /\ Directive(fmt, n) = ReadNumber(n)
<1>1. fmt \in Seq(1 .. 255)
  BY FormatIs
<1>2. Directive(fmt, 3) = Read(d, n)
  <2>1. PICK F, W, P, G, c, e : F = d.flags /\ W = d.width /\ P = d.precision /\ G = d.length /\ c = d.spec /\ e = n - 3
    OBVIOUS
  <2>2. F \in FlagsRead /\ W \in Widths /\ P \in Precisions /\ G \in LengthsRead /\ c \in SpecsRead
    BY <2>1, PartsAre
  <2>3. Stands(fmt, 3, F, W, P, G, c, e)
    BY <2>1, FormatIs
  <2>4. Directive(fmt, 3) = ReadOf(F, W, P, c, e + 1)
    <3>1. Readable(fmt, 3, F, W, P, G, c, e)
      BY <1>1, <2>2, <2>3 DEF Readable
    <3> QED BY <3>1, DirectiveRead, SMT
  <2>5. e + 1 = n - 2
    <3>1. n \in Nat
      BY FormatIs
    <3> QED BY <2>1, <3>1
  <2> QED BY <2>1, <2>4, <2>5 DEF Read
<1>3. Directive(fmt, n) = ReadNumber(n)
  <2>1. PICK F, c : F = Absent /\ c = Letter("d")
    OBVIOUS
  <2>2. F \in FlagsRead /\ F \in Widths /\ F \in Precisions /\ F \in LengthsRead
    BY <2>1 DEF FlagsRead, Widths, Precisions, LengthsRead
  <2>3. c \in SpecsRead
    BY <2>1, SpecsAre, LettersAre DEF SpecsRead
  <2>4. Stands(fmt, n, F, F, F, F, c, n)
    BY <2>1, FormatIs
  <2>5. Directive(fmt, n) = ReadOf(F, F, F, c, n + 1)
    <3>1. Readable(fmt, n, F, F, F, F, c, n)
      BY <1>1, <2>2, <2>3, <2>4 DEF Readable
    <3> QED BY <3>1, DirectiveRead, SMT
  <2> QED BY <2>1, <2>5 DEF ReadNumber
<1> QED BY <1>2, <1>3

LEMMA FiveIs == intToString(5) = <<Zero + 5>> /\ Len(intToString(5)) = 1
<1>1. PICK q : q = [k \in 0 .. 1 |-> IF k = 0 THEN 5 ELSE 0]
  OBVIOUS
<1>2. q \in [0 .. 1 -> Nat] /\ q[0] = 5 /\ q[1] = 0
  BY <1>1
<1>3. Quotients(q, 1, 5, 10)
  <2>1. \A k \in 0 .. 1 - 1 : k = 0
    OBVIOUS
  <2>2. 1 .. 1 - 1 = {} /\ 0 + 1 = 1 /\ 5 \div 10 = 0
    OBVIOUS
  <2> QED BY <1>2, <2>1, <2>2 DEF Quotients
<1>4. AbsValue(5) = 5 /\ ~(5 < 0)
  BY DEF AbsValue
<1>5. intToString(5) = DecimalText(q, 1, 5)
  BY <1>3, <1>4, IntToStringIs
<1>6. DecimalText(q, 1, 5) = HighFirst(q, 1, 10, UpperA)
  BY <1>4, Zenon DEF DecimalText
<1>7. HighFirst(q, 1, 10, UpperA) = [k \in 1 .. 1 |-> Zero + 5]
  <2>1. \A k \in 1 .. 1 : DigitChar(q[1 - k] % 10, UpperA) = Zero + 5
    BY <1>2 DEF DigitChar
  <2> QED BY <2>1, Zenon DEF HighFirst
<1>8. [k \in 1 .. 1 |-> Zero + 5] = <<Zero + 5>>
  OBVIOUS
<1>9. intToString(5) = <<Zero + 5>>
  BY <1>5, <1>6, <1>7, <1>8
<1> QED BY <1>9

LEMMA RepeatNothing ==
  ASSUME NEW c, NEW n \in Int, n <= 0
  PROVE  Repeat(c, n) = <<>>
<1>1. \A x \in {0, n} : x <= 0 /\ x \in Int
  OBVIOUS
<1>2. Max({0, n}) = 0
  <2>1. 0 \in {0, n} /\ \A y \in {0, n} : 0 >= y
    BY <1>1
  <2>2. \A x \in {0, n} : (\A y \in {0, n} : x >= y) => x = 0
    BY <1>1
  <2> QED BY <2>1, <2>2 DEF Max
<1>3. 1 .. 0 = {} /\ [i \in {} |-> c] = <<>>
  OBVIOUS
<1> QED BY <1>2, <1>3, Zenon DEF Repeat

LEMMA NumberBehind ==
  ASSUME NEW n
  PROVE  Converted(ReadNumber(n), 5) = <<Zero + 5>>
<1>1. PICK r : r = ReadNumber(n)
  OBVIOUS
<1>2. r.left = FALSE /\ r.zero = FALSE /\ r.width = 0 /\ r.precision = -1 /\ r.spec = Letter("d")
  <2>1. ToSet(Absent) = {} /\ Number(Absent) = 0
    BY NumberOfNothing DEF Absent, ToSet
  <2>2. (Minus \in ToSet(Absent)) = FALSE /\ (Zero \in ToSet(Absent)) = FALSE
    BY <2>1
  <2>3. r = [left |-> FALSE, zero |-> FALSE, width |-> 0, precision |-> -1, spec |-> Letter("d"), next |-> n + 1]
    BY <1>1, <2>1, <2>2, Zenon DEF ReadNumber, ReadOf
  <2> QED BY <2>3
<1>3. r.spec \in Signs /\ r.spec \in Numbers
  BY <1>2, SpecsAre, LettersAre
<1>4. NumberText(r, 5) = <<Zero + 5>>
  BY <1>3, FiveIs DEF NumberText
<1>5. PICK t : t = <<Zero + 5>>
  OBVIOUS
<1>6. t \in Seq(Int) /\ Len(t) = 1 /\ <<>> \o t = t
  <2>1. Zero + 5 \in Int
    BY DEF Zero
  <2> QED BY <1>5, <2>1
<1>7. Repeat(Zero, -1 - 1) = <<>> /\ Repeat(Space, 0 - 1) = <<>>
  BY RepeatNothing
<1>8. NumberField(r, 5) = Padded(r, t, Space)
  <2>1. Repeat(Zero, r.precision - Len(t)) \o t = t
    BY <1>2, <1>6, <1>7
  <2> QED BY <1>2, <1>4, <1>5, <2>1, Zenon DEF NumberField
<1>9. Padded(r, t, Space) = t
  BY <1>2, <1>6, <1>7 DEF Padded
<1>10. r.spec # Letter("s") /\ r.spec # Letter("c") /\ r.spec # Letter("p") /\ r.spec # Percent
  BY <1>2, LettersAre DEF Percent
<1>11. Converted(r, 5) = NumberField(r, 5)
  BY <1>3, <1>10 DEF Converted
<1> QED BY <1>1, <1>5, <1>8, <1>9, <1>11

-----------------------------------------------------------------------------
(* Slots and what is read of them *)

LEMMA RangesAre ==
  /\ IntRange \in Nat \ {0} /\ IntRange % 256 = 0 /\ IntRange >= 256
  /\ LongRange \in Nat \ {0} /\ LongRange >= IntRange
<1>1. IntRange \in Nat \ {0} /\ IntRange % 256 = 0
  BY FormatAssumption
<1>2. IntRange >= 256
  BY <1>1
<1>3. \A r \in Nat \ {0} : r * r \in Nat \ {0} /\ r * r >= r
  OBVIOUS
<1> QED BY <1>1, <1>2, <1>3 DEF LongRange

\* The remainder is the only one.
LEMMA RemainderIs ==
  ASSUME NEW R \in Nat \ {0}, NEW m \in 0 .. R - 1, NEW k \in Int
  PROVE  (m + R * k) % R = m
<1>1. PICK n \in Int : n = m + R * k
  OBVIOUS
<1>2. PICK q \in Int, r \in 0 .. R - 1 : q = n \div R /\ r = n % R /\ n = R * q + r
  OBVIOUS
<1>3. R * (q - k) = m - r
  BY <1>1, <1>2
<1>4. PICK x \in Int : x = q - k
  OBVIOUS
<1>5. R * x < R /\ R * x > -R
  BY <1>2, <1>3, <1>4
<1>6. x < 1 /\ x > -1
  BY <1>5
<1> QED BY <1>1, <1>2, <1>3, <1>4, <1>6

\* The slot of an int: its bytes are those of the int, whatever the upper half.
LEMMA SlotIs ==
  ASSUME NEW v \in Int, NEW upper \in Nat, NEW w, w = (v % IntRange) + IntRange * upper
  PROVE  w \in Nat /\ w % IntRange = v % IntRange /\ w % 256 = v % 256
<1>1. PICK R \in Nat \ {0} : R = IntRange /\ R % 256 = 0
  BY RangesAre
<1>2. PICK q \in Int, m \in 0 .. R - 1 : q = v \div R /\ m = v % R /\ v = R * q + m
  OBVIOUS
<1>3. w \in Nat /\ w = m + R * upper
  BY <1>1, <1>2
<1>4. w % R = m
  <2>1. (m + R * upper) % R = m
    BY RemainderIs
  <2> QED BY <1>3, <2>1, Zenon
<1>5. PICK g \in Int : R = 256 * g
  BY <1>1
<1>6. PICK y \in Int : y = g * (upper - q)
  OBVIOUS
<1>7. w = v + 256 * y
  <2>1. w = v + R * (upper - q)
    <3>1. R * upper = R * q + R * (upper - q)
      BY <1>2
    <3> QED BY <1>2, <1>3, <3>1
  <2>2. R * (upper - q) = 256 * (g * (upper - q))
    BY <1>5
  <2> QED BY <1>6, <2>1, <2>2
<1>8. w % 256 = v % 256
  BY <1>7
<1> QED BY <1>1, <1>2, <1>3, <1>4, <1>8

\* A value is read back from a range that holds it.
LEMMA HeldByRange ==
  ASSUME NEW R \in Nat \ {0}, NEW v \in Int
  PROVE  /\ v % R \in 0 .. R - 1
         /\ v >= 0 /\ v < R => v % R = v
         /\ 2 * AbsValue(v) < R => AsSigned(v % R, R) = v
<1>0. AbsValue(v) = IF v < 0 THEN -v ELSE v
  BY DEF AbsValue
<1>1. v % R \in 0 .. R - 1
  OBVIOUS
<1>2. v >= 0 /\ v < R => v % R = v
  <2> SUFFICES ASSUME v >= 0, v < R PROVE v % R = v
    OBVIOUS
  <2>1. v \in 0 .. R - 1 /\ v + R * 0 = v
    OBVIOUS
  <2>2. (v + R * 0) % R = v
    BY <2>1, RemainderIs
  <2> QED BY <2>1, <2>2, Zenon
<1>3. 2 * AbsValue(v) < R => AsSigned(v % R, R) = v
  <2> SUFFICES ASSUME 2 * AbsValue(v) < R PROVE AsSigned(v % R, R) = v
    OBVIOUS
  <2>1. CASE v >= 0
    <3>1. 2 * v < R /\ v < R
      BY <1>0, <2>1
    <3> QED BY <1>2, <2>1, <3>1 DEF AsSigned
  <2>2. CASE v < 0
    <3>1. -(2 * v) < R
      BY <1>0, <2>2
    <3>2. PICK m : m = v + R
      OBVIOUS
    <3>3. m \in 0 .. R - 1 /\ m + R * (-1) = v
      BY <2>2, <3>1, <3>2
    <3>4. v % R = m
      <4>1. (m + R * (-1)) % R = m
        BY <3>3, RemainderIs
      <4> QED BY <3>3, <4>1
    <3>5. ~(2 * m < R) /\ m - R = v
      BY <3>1, <3>2
    <3> QED BY <3>4, <3>5 DEF AsSigned
  <2> QED BY <2>1, <2>2
<1> QED BY <1>1, <1>2, <1>3

LEMMA FiveFits == LongArg(Letter("d"), 5) = 5 /\ IntArg(Letter("d"), 5) = 5
<1>1. PICK R, L : R = IntRange /\ L = LongRange
  OBVIOUS
<1>2. R \in Nat \ {0} /\ R >= 256 /\ L \in Nat \ {0} /\ L >= R
  BY <1>1, RangesAre
<1>3. Letter("d") \in Signs /\ Letter("d") # Letter("s")
  BY SpecsAre, LettersAre
<1>4. AsSigned(5, L) = 5 /\ AsSigned(5, R) = 5
  BY <1>2 DEF AsSigned
<1>5. 5 % R = 5
  BY <1>2, HeldByRange
<1> QED BY <1>1, <1>3, <1>4, <1>5 DEF LongArg, IntArg

\* What a value of a directive is.
ArgumentOf(d, v) ==
  IF d.spec \in Signs \cup {Letter("c")} THEN v \in Int
  ELSE IF d.spec = Letter("s") THEN v \in Seq(Int)
  ELSE v \in Nat

\* How it is passed: a value of a long or of an int in its slot.
Passed(d, v, slot) ==
  IF d.spec = Letter("s") THEN v \in Seq(Int) /\ slot = v
  ELSE /\ v \in Int /\ slot \in Nat
       /\ IF d.spec \in Signs THEN 2 * AbsValue(v) < LongRange ELSE v >= 0 /\ v < LongRange
       /\ IF IsLong(d) THEN slot = v % LongRange
          ELSE /\ slot % IntRange = v % IntRange /\ slot % 256 = v % 256
               /\ IF d.spec \in Signs THEN 2 * AbsValue(v) < IntRange ELSE v < IntRange

\* kvprintf works on the value it receives; of a character, on its byte.
Worked(d, x, a) ==
  IF d.spec = Percent THEN a = NUL
  ELSE IF d.spec = Letter("c") THEN a \in Int /\ a % 256 = x % 256
  ELSE a = x

LEMMA ReceivedIs ==
  ASSUME NEW d, NEW v, NEW slot, Passed(d, v, slot), d.spec = Letter("p") => IsLong(d),
         NEW x, x = Received(d, v, slot), d.spec \in Takes
  PROVE  ArgumentOf(d, x) /\ Worked(d, x, LongArg(d.spec, slot))
<1>1. /\ Signs = {100, 105} /\ Numbers = {100, 105, 120, 88, 117}
      /\ Letter("s") = 115 /\ Letter("c") = 99 /\ Letter("p") = 112
      /\ d.spec # Percent /\ d.spec \in {100, 105, 120, 88, 117, 99, 115, 112}
  BY SpecsAre, LettersAre DEF Percent
<1>2. PICK R, c : R = LongRange /\ c = d.spec
  OBVIOUS
<1>3. R \in Nat \ {0}
  BY <1>2, RangesAre
<1>4. CASE c = 115
  <2>1. v \in Seq(Int) /\ slot = v
    BY <1>1, <1>2, <1>4 DEF Passed
  <2>2. x = v /\ LongArg(c, slot) = v
    BY <1>1, <1>2, <1>4, <2>1 DEF Received, LongArg
  <2> QED BY <1>1, <1>2, <1>4, <2>1, <2>2 DEF ArgumentOf, Worked
<1>5. CASE c # 115
  <2>1. /\ v \in Int /\ slot \in Nat
        /\ c \in Signs => 2 * AbsValue(v) < R
        /\ c \notin Signs => v \in Nat /\ v < R
        /\ IsLong(d) => slot = v % R
        /\ ~IsLong(d) => slot % 256 = v % 256
    BY <1>1, <1>2, <1>5 DEF Passed
  <2>2. /\ c \in Signs => AsSigned(v % R, R) = v
        /\ c \notin Signs => v % R = v
    <3>1. v >= 0 /\ v < R => v % R = v
      BY <1>3, <2>1, HeldByRange
    <3>2. 2 * AbsValue(v) < R => AsSigned(v % R, R) = v
      BY <1>3, <2>1, HeldByRange
    <3>3. v \in Nat => v >= 0
      OBVIOUS
    <3> QED BY <2>1, <3>1, <3>2, <3>3, Zenon
  <2>3. CASE c \in Numbers
    <3>1. x = IF slot = v % R THEN v ELSE IF c \in Signs /\ 2 * slot >= R THEN slot - R ELSE slot
      BY <1>2, <2>3 DEF Received, Whole
    <3>2. LongArg(c, slot) = x
      <4>1. CASE slot = v % R
        BY <1>2, <2>2, <3>1, <4>1 DEF LongArg
      <4>2. CASE slot # v % R
        <5>1. (2 * slot >= R) <=> ~(2 * slot < R)
          BY <1>3, <2>1
        <5> QED BY <1>2, <3>1, <4>2, <5>1, Zenon DEF LongArg, AsSigned
      <4> QED BY <4>1, <4>2
    <3>3. c # 99 /\ c # 115
      BY <1>1, <2>3
    <3>4. x \in Int /\ (c \notin Signs => x \in Nat)
      BY <1>3, <2>1, <3>1
    <3> QED BY <1>1, <1>2, <3>2, <3>3, <3>4 DEF ArgumentOf, Worked
  <2>4. CASE c \notin Numbers
    <3>1. c \notin Signs /\ x = v /\ LongArg(c, slot) = slot
      BY <1>1, <1>2, <2>4 DEF Received, LongArg
    <3>2. CASE c = 99
      <4>1. slot % 256 = v % 256
        BY <2>1, <2>2, <3>1
      <4> QED BY <1>1, <1>2, <2>1, <3>1, <3>2, <4>1 DEF ArgumentOf, Worked
    <3>3. CASE c # 99
      <4>1. c = 112 /\ IsLong(d) /\ slot = v
        BY <1>1, <1>2, <1>5, <2>1, <2>2, <2>4, <3>1, <3>3
      <4> QED BY <1>1, <1>2, <1>5, <2>1, <3>1, <3>3, <4>1 DEF ArgumentOf, Worked
    <3> QED BY <3>2, <3>3
  <2> QED BY <2>3, <2>4
<1> QED BY <1>4, <1>5

\* The others receive an int as it was passed.
LEMMA IntReceivedIs ==
  ASSUME NEW d, NEW v, NEW slot, Passed(d, v, slot), ~IsLong(d), d.spec \in Takes \ {Letter("p")}
  PROVE  ArgumentOf(d, v) /\ Worked(d, v, IntArg(d.spec, slot))
<1>1. /\ Signs = {100, 105} /\ Letter("s") = 115 /\ Letter("c") = 99 /\ d.spec # Percent
  BY SpecsAre, LettersAre DEF Percent
<1>2. PICK R, c : R = IntRange /\ c = d.spec
  OBVIOUS
<1>3. R \in Nat \ {0} /\ R % 256 = 0
  BY <1>2, RangesAre
<1>4. CASE c = 115
  <2>1. v \in Seq(Int) /\ slot = v
    BY <1>1, <1>2, <1>4 DEF Passed
  <2>2. IntArg(c, slot) = v
    BY <1>1, <1>4, <2>1 DEF IntArg
  <2> QED BY <1>1, <1>2, <1>4, <2>1, <2>2 DEF ArgumentOf, Worked
<1>5. CASE c # 115
  <2>1. /\ v \in Int /\ slot \in Nat /\ slot % R = v % R
        /\ c \in Signs => 2 * AbsValue(v) < R
        /\ c \notin Signs => v \in Nat /\ v < R
    BY <1>1, <1>2, <1>5 DEF Passed
  <2>2. IntArg(c, slot) = v
    <3>1. v >= 0 /\ v < R => v % R = v
      BY <1>3, <2>1, HeldByRange
    <3>2. 2 * AbsValue(v) < R => AsSigned(v % R, R) = v
      BY <1>3, <2>1, HeldByRange
    <3>3. v \in Nat => v >= 0
      OBVIOUS
    <3> QED BY <1>1, <1>2, <1>5, <2>1, <3>1, <3>2, <3>3, Zenon DEF IntArg
  <2> QED BY <1>1, <1>2, <1>5, <2>1, <2>2 DEF ArgumentOf, Worked
<1> QED BY <1>4, <1>5

-----------------------------------------------------------------------------
(* kvprintf *)

\* A state of the loop.
State(at, text, fetched) == [at |-> at, text |-> text, fetched |-> fetched]

LEMMA LetterTurn ==
  ASSUME NEW fmt, NEW args, NEW at, NEW text, NEW fetched, fmt[at] # Percent
  PROVE  kvprintfTurn(fmt, args, State(at, text, fetched)) = State(at + 1, Append(text, fmt[at]), fetched)
<1>1. PICK s : s = State(at, text, fetched)
  OBVIOUS
<1>2. s.at = at /\ s.text = text
  BY <1>1 DEF State
<1>3. kvprintfTurn(fmt, args, s) = [s EXCEPT !.at = s.at + 1, !.text = Append(s.text, fmt[s.at])]
  BY <1>2 DEF kvprintfTurn
<1> QED BY <1>1, <1>2, <1>3 DEF State

\* Whether a directive gets an argument, and which.
Fetches(r) == IF r.spec \in Takes THEN 1 ELSE 0
Fetched(r, args, fetched) == IF r.spec \in Takes THEN LongArg(r.spec, args[fetched + 1]) ELSE NUL

LEMMA DirectiveTurn ==
  ASSUME NEW fmt, NEW args, NEW at, NEW text, NEW fetched \in Nat, fmt[at] = Percent,
         NEW r, r = Directive(fmt, at + 1)
  PROVE  kvprintfTurn(fmt, args, State(at, text, fetched))
           = State(r.next, text \o Converted(r, Fetched(r, args, fetched)), fetched + Fetches(r))
<1>1. PICK s : s = State(at, text, fetched)
  OBVIOUS
<1>2. s.at = at /\ s.text = text /\ s.fetched = fetched
  BY <1>1 DEF State
<1>3. kvprintfTurn(fmt, args, s)
        = [at |-> r.next, fetched |-> IF r.spec \in Takes THEN s.fetched + 1 ELSE s.fetched,
           text |-> s.text \o Converted(r, IF r.spec \in Takes THEN LongArg(r.spec, args[s.fetched + 1]) ELSE NUL)]
  BY <1>2, Zenon DEF kvprintfTurn
<1>4. (IF r.spec \in Takes THEN fetched + 1 ELSE fetched) = fetched + Fetches(r)
  BY DEF Fetches
<1> QED BY <1>1, <1>2, <1>3, <1>4 DEF State, Fetched

\* What kvprintf prints of such a format.
FormatText(d, n, v) == Append(<<LowerA>> \o Converted(Read(d, n), v), Space) \o <<Zero + 5>>

LEMMA FormatRun ==
  ASSUME NEW d \in Directives, Known(d), NEW slot, NEW args, args = IF d.spec = Percent THEN << 5 >> ELSE <<slot, 5>>,
         NEW v, v = LongArg(d.spec, slot),
         NEW fmt, fmt = FormatOf(d), NEW n, n = Len(fmt)
  PROVE  kvprintf(fmt, args)
           = State(n + 1, FormatText(d, n, IF d.spec = Percent THEN NUL ELSE v), Len(args))
<1>1. /\ n \in Nat /\ n >= 6 /\ fmt[1] = LowerA /\ fmt[2] = Percent
      /\ fmt[n - 2] = Space /\ fmt[n - 1] = Percent
  BY FormatIs
<1>2. PICK r, e : r = Read(d, n) /\ e = ReadNumber(n)
  OBVIOUS
<1>3. Directive(fmt, 3) = r /\ Directive(fmt, n) = e
  BY <1>2, DirectivesRead
<1>4. r.next = n - 2 /\ r.spec = d.spec /\ e.next = n + 1 /\ e.spec = Letter("d")
  BY <1>2 DEF Read, ReadNumber, ReadOf
<1>5. PICK k : k = Fetches(r)
  OBVIOUS
<1>6. /\ k \in Nat /\ Fetches(e) = 1 /\ k + 1 = Len(args) /\ args[k + 1] = 5
      /\ Fetched(r, args, 0) = IF d.spec = Percent THEN NUL ELSE v
      /\ Fetched(e, args, k) = 5
  <2>0. LongArg(e.spec, 5) = 5
    BY <1>4, FiveFits
  <2>1. Letter("d") \in Takes /\ Percent \notin Takes
    BY SpecsAre, LettersAre DEF Percent
  <2>2. d.spec \in Takes \/ d.spec = Percent
    BY PartsAre DEF SpecsRead
  <2>3. CASE d.spec = Percent
    <3>1. k = 0 /\ args = <<5>>
      BY <1>4, <1>5, <2>1, <2>3 DEF Fetches
    <3> QED BY <1>4, <2>0, <2>1, <2>3, <3>1 DEF Fetches, Fetched
  <2>4. CASE d.spec \in Takes
    <3>1. k = 1 /\ args = <<slot, 5>> /\ d.spec # Percent
      BY <1>4, <1>5, <2>1, <2>4 DEF Fetches
    <3>2. Len(args) = 2 /\ args[1] = slot /\ args[2] = 5
      BY <3>1
    <3> QED BY <1>4, <2>0, <2>1, <2>4, <3>1, <3>2 DEF Fetches, Fetched
  <2> QED BY <2>2, <2>3, <2>4
<1>7. PICK a, b, t1, t2, t3, t4 :
        /\ a = Fetched(r, args, 0) /\ b = Fetched(e, args, k)
        /\ t1 = Append(<<>>, LowerA) /\ t2 = t1 \o Converted(r, a)
        /\ t3 = Append(t2, Space) /\ t4 = t3 \o Converted(e, b)
  OBVIOUS
<1>8. kvprintfTurn(fmt, args, State(1, <<>>, 0)) = State(2, t1, 0)
  <2>1. fmt[1] # Percent
    BY <1>1 DEF LowerA, Percent
  <2>2. kvprintfTurn(fmt, args, State(1, <<>>, 0)) = State(1 + 1, Append(<<>>, fmt[1]), 0)
    <3>1. PICK empty : empty = <<>>
      OBVIOUS
    <3>2. kvprintfTurn(fmt, args, State(1, empty, 0)) = State(1 + 1, Append(empty, fmt[1]), 0)
      BY <2>1, LetterTurn
    <3> QED BY <3>1, <3>2, Zenon
  <2>3. 1 + 1 = 2
    OBVIOUS
  <2> QED BY <1>1, <1>7, <2>2, <2>3, Zenon
<1>9. kvprintfTurn(fmt, args, State(2, t1, 0)) = State(n - 2, t2, k)
  <2>1. r = Directive(fmt, 2 + 1) /\ 0 \in Nat /\ fmt[2] = Percent
    <3>1. 2 + 1 = 3
      OBVIOUS
    <3> QED BY <1>1, <1>3, <3>1
  <2>2. kvprintfTurn(fmt, args, State(2, t1, 0)) = State(r.next, t1 \o Converted(r, Fetched(r, args, 0)), 0 + Fetches(r))
    BY <2>1, DirectiveTurn
  <2>3. 0 + Fetches(r) = k
    BY <1>5, <1>6
  <2> QED BY <1>4, <1>7, <2>2, <2>3
<1>10. kvprintfTurn(fmt, args, State(n - 2, t2, k)) = State(n - 1, t3, k)
  <2>1. fmt[n - 2] # Percent
    BY <1>1 DEF Space, Percent
  <2>2. (n - 2) + 1 = n - 1
    BY <1>1
  <2>3. kvprintfTurn(fmt, args, State(n - 2, t2, k)) = State((n - 2) + 1, Append(t2, fmt[n - 2]), k)
    BY <2>1, LetterTurn
  <2> QED BY <1>1, <1>7, <2>2, <2>3
<1>11. kvprintfTurn(fmt, args, State(n - 1, t3, k)) = State(n + 1, t4, k + 1)
  <2>1. e = Directive(fmt, (n - 1) + 1) /\ k \in Nat /\ fmt[n - 1] = Percent
    <3>1. (n - 1) + 1 = n
      BY <1>1
    <3> QED BY <1>1, <1>3, <1>6, <3>1
  <2>2. kvprintfTurn(fmt, args, State(n - 1, t3, k))
          = State(e.next, t3 \o Converted(e, Fetched(e, args, k)), k + Fetches(e))
    BY <2>1, DirectiveTurn
  <2> QED BY <1>4, <1>6, <1>7, <2>2
<1>12. PICK run : run = [i \in 0 .. 4 |-> IF i = 0 THEN State(1, <<>>, 0) ELSE IF i = 1 THEN State(2, t1, 0)
                                          ELSE IF i = 2 THEN State(n - 2, t2, k) ELSE IF i = 3 THEN State(n - 1, t3, k)
                                          ELSE State(n + 1, t4, k + 1)]
  OBVIOUS
<1>13. /\ run[0] = State(1, <<>>, 0) /\ run[1] = State(2, t1, 0) /\ run[2] = State(n - 2, t2, k)
       /\ run[3] = State(n - 1, t3, k) /\ run[4] = State(n + 1, t4, k + 1)
  BY <1>12
<1>14. Runs("kvprintf", fmt, args, State(1, <<>>, 0), 4, run)
  <2>1. /\ run[0].at = 1 /\ run[1].at = 2 /\ run[2].at = n - 2 /\ run[3].at = n - 1 /\ run[4].at = n + 1
    BY <1>13 DEF State
  <2>2. 4 \in 0 .. n /\ n + 1 > n /\ ~(1 > n) /\ ~(2 > n) /\ ~(n - 2 > n) /\ ~(n - 1 > n)
    BY <1>1
  <2>3. ASSUME NEW i \in 1 .. 4
        PROVE  ~(run[i - 1].at > n) /\ run[i] = Turns("kvprintf", fmt, args, run[i - 1])
    <3>1. i = 1 \/ i = 2 \/ i = 3 \/ i = 4
      OBVIOUS
    <3>2. 1 - 1 = 0 /\ 2 - 1 = 1 /\ 3 - 1 = 2 /\ 4 - 1 = 3
      OBVIOUS
    <3>3. ~(run[i - 1].at > n) /\ run[i] = kvprintfTurn(fmt, args, run[i - 1])
      BY <1>8, <1>9, <1>10, <1>11, <1>13, <2>1, <2>2, <3>1, <3>2, Zenon
    <3> QED BY <3>3, Zenon DEF Turns
  <2> QED BY <1>13, <2>1, <2>2, <2>3 DEF Runs
<1>15. kvprintf(fmt, args) = run[4]
  BY <1>1, <1>14, kvprintfRuns DEF State
<1>16. t4 = FormatText(d, n, IF d.spec = Percent THEN NUL ELSE v)
  <2>1. t1 = <<LowerA>>
    BY <1>7
  <2>2. Converted(e, b) = <<Zero + 5>>
    BY <1>2, <1>6, <1>7, NumberBehind
  <2> QED BY <1>2, <1>6, <1>7, <2>1, <2>2 DEF FormatText
<1> QED BY <1>6, <1>13, <1>15, <1>16

LEMMA RepeatIs ==
  ASSUME NEW S, NEW c \in S, NEW n \in Int
  PROVE  Repeat(c, n) \in Seq(S)
<1>1. PICK m \in Nat : m = Max({0, n})
  <2>1. \E m \in {0, n} : m \in Nat /\ \A y \in {0, n} : m >= y
    <3>1. CASE n <= 0
      BY <3>1
    <3>2. CASE n > 0
      BY <3>2
    <3> QED BY <3>1, <3>2
  <2>2. \A x, y \in {0, n} : x >= y /\ y >= x => x = y
    OBVIOUS
  <2> QED BY <2>1, <2>2 DEF Max
<1>2. [i \in 1 .. m |-> c] \in Seq(S)
  OBVIOUS
<1>3. Repeat(c, n) = [i \in 1 .. m |-> c]
  BY <1>1, Zenon DEF Repeat
<1> QED BY <1>2, <1>3

LEMMA JoinAssociative == \A a, b, c \in Seq(Int) : (a \o b) \o c = a \o (b \o c)
<1> TAKE a, b, c \in Seq(Int)
<1> QED BY ConcatAssociative

\* kvprintf keeps the sign with the digits, C in front of the zeros.
Zeros(d) == Zero \in ToSet(d.flags) /\ d.precision = Absent /\ d.spec \in Numbers

\* Zeros go in front of no sign.
Paddable(d, sign, body, r, c) ==
  /\ sign \in Seq(Int) /\ body \in Seq(Int) /\ Number(d.width) \in Int /\ c \in Int
  /\ r.width = Number(d.width) /\ r.left = (Minus \in ToSet(d.flags))
  /\ ~r.left => c = IF Zeros(d) THEN Zero ELSE Space
  /\ ~r.left /\ Zeros(d) => sign = <<>>

LEMMA BetweenIs ==
  ASSUME NEW d, NEW sign, NEW body, NEW r, NEW c, Paddable(d, sign, body, r, c)
  PROVE  Between(d, sign, body) = Padded(r, sign \o body, c) /\ Padded(r, sign \o body, c) \in Seq(Int)
<1>0. /\ sign \in Seq(Int) /\ body \in Seq(Int) /\ Number(d.width) \in Int /\ c \in Int
      /\ r.width = Number(d.width) /\ r.left = (Minus \in ToSet(d.flags))
      /\ ~r.left => c = IF Zeros(d) THEN Zero ELSE Space
      /\ ~r.left /\ Zeros(d) => sign = <<>>
  BY DEF Paddable
<1>1. PICK t : t = sign \o body
  OBVIOUS
<1>2. t \in Seq(Int) /\ Len(t) \in Nat
  BY <1>0, <1>1, ConcatProperties, LenProperties
<1>3. PICK w \in Int : w = r.width - Len(t)
  BY <1>0, <1>2
<1>4. Repeat(Space, w) \in Seq(Int) /\ Repeat(Zero, w) \in Seq(Int)
  <2>1. Space \in Int /\ Zero \in Int
    BY DEF Space, Zero
  <2> QED BY <2>1, RepeatIs
<1>5. Padded(r, t, c) \in Seq(Int)
  <2>1. Repeat(c, w) \in Seq(Int)
    BY <1>0, RepeatIs
  <2>2. t \o Repeat(Space, w) \in Seq(Int) /\ Repeat(c, w) \o t \in Seq(Int)
    BY <1>2, <1>4, <2>1, ConcatProperties
  <2> QED BY <1>3, <2>2, Zenon DEF Padded
<1>6. CASE r.left
  <2>1. Between(d, sign, body) = sign \o body \o Repeat(Space, w)
    BY <1>0, <1>1, <1>3, <1>6, Zenon DEF Between
  <2>2. Padded(r, t, c) = t \o Repeat(Space, w)
    BY <1>3, <1>6, Zenon DEF Padded
  <2> QED BY <1>1, <1>5, <2>1, <2>2, Zenon
<1>7. CASE ~r.left /\ Zeros(d)
  <2>1. Between(d, sign, body) = sign \o Repeat(Zero, w) \o body
    BY <1>0, <1>1, <1>3, <1>7, Zenon DEF Between, Zeros
  <2>2. Padded(r, t, c) = Repeat(Zero, w) \o t
    BY <1>0, <1>3, <1>7, Zenon DEF Padded
  <2>3. <<>> \o Repeat(Zero, w) = Repeat(Zero, w) /\ <<>> \o body = body
    BY <1>0, <1>4, ConcatEmptySeq
  <2> QED BY <1>0, <1>1, <1>7, <1>5, <2>1, <2>2, <2>3, Zenon
<1>8. CASE ~r.left /\ ~Zeros(d)
  <2>1. Between(d, sign, body) = Repeat(Space, w) \o sign \o body
    BY <1>0, <1>1, <1>3, <1>8, Zenon DEF Between, Zeros
  <2>2. Padded(r, t, c) = Repeat(Space, w) \o t
    BY <1>0, <1>3, <1>8, Zenon DEF Padded
  <2>3. (Repeat(Space, w) \o sign) \o body = Repeat(Space, w) \o (sign \o body)
    <3>1. PICK p \in Seq(Int) : p = Repeat(Space, w)
      BY <1>4
    <3>2. (p \o sign) \o body = p \o (sign \o body)
      BY <1>0, JoinAssociative
    <3> QED BY <3>1, <3>2
  <2> QED BY <1>1, <1>5, <2>1, <2>2, <2>3, Zenon
<1> QED BY <1>1, <1>6, <1>7, <1>8

LEMMA put_uintIs ==
  ASSUME NEW base \in Bases, NEW n \in Nat, NEW L, NEW q, Quotients(q, L, n, base)
  PROVE  /\ put_uint(n, base) = HighFirst(q, L, base, LowerA) /\ put_uint(n, base) \in Seq(Int)
         /\ L \in Nat /\ Len(put_uint(n, base)) = L
<1>1. LowerA \in Nat
  BY DEF LowerA
<1>2. PICK s : s = DigitsOf(q, L, base, LowerA)
  OBVIOUS
<1>3. s \in Seq(Int) /\ Reverse(s) = HighFirst(q, L, base, LowerA) /\ Len(s) = L
  BY <1>1, <1>2, ReversedDigits
<1>4. LowFirst(n, base, LowerA) = s
  BY <1>1, <1>2, LowFirstIs
<1>5. Reverse(s) \in Seq(Int) /\ Len(Reverse(s)) = Len(s)
  BY <1>3, ReverseIs
<1> QED BY <1>3, <1>4, <1>5 DEF put_uint, Unsigned, Quotients

\* In decimal, put_uint writes as intToString does, and intToString a negative
\* number with the sign in front of its absolute value.
LEMMA DecimalSame ==
  ASSUME NEW n \in Nat
  PROVE  put_uint(n, 10) = intToString(n) /\ intToString(n) \in Seq(Int)
<1>1. PICK L, q : Quotients(q, L, n, 10)
  BY TenIsBase, QuotientsExist
<1>2. AbsValue(n) = n /\ ~(n < 0)
  BY DEF AbsValue
<1>3. intToString(n) = HighFirst(q, L, 10, UpperA)
  <2>1. intToString(n) = DecimalText(q, L, n)
    BY <1>1, <1>2, IntToStringIs
  <2> QED BY <1>2, <2>1, Zenon DEF DecimalText
<1>4. put_uint(n, 10) = HighFirst(q, L, 10, LowerA) /\ put_uint(n, 10) \in Seq(Int)
  BY <1>1, TenIsBase, put_uintIs
<1>5. HighFirst(q, L, 10, UpperA) = HighFirst(q, L, 10, LowerA)
  <2>1. L \in Nat /\ q \in [0 .. L -> Nat]
    BY <1>1 DEF Quotients
  <2>2. \A k \in 1 .. L : DigitChar(q[L - k] % 10, UpperA) = DigitChar(q[L - k] % 10, LowerA)
    <3> TAKE k \in 1 .. L
    <3>1. L - k \in 0 .. L
      BY <2>1
    <3>2. q[L - k] \in Nat
      BY <2>1, <3>1
    <3>3. PICK r : r = q[L - k] % 10
      OBVIOUS
    <3>4. ~(r > 9)
      <4>1. r \in Nat /\ r < 10
        BY <3>2, <3>3, TenIsBase, Division
      <4> QED BY <4>1
    <3> QED BY <3>3, <3>4, Zenon DEF DigitChar
  <2> QED BY <2>2, Zenon DEF HighFirst
<1> QED BY <1>3, <1>4, <1>5

LEMMA NegativeText ==
  ASSUME NEW n \in Int, n < 0
  PROVE  intToString(n) = <<Minus>> \o intToString(-n)
<1>1. PICK m \in Nat : m = -n
  OBVIOUS
<1>2. AbsValue(n) = m /\ AbsValue(m) = m /\ ~(m < 0)
  BY <1>1 DEF AbsValue
<1>3. PICK L, q : Quotients(q, L, m, 10)
  BY TenIsBase, QuotientsExist
<1>4. intToString(n) = DecimalText(q, L, n) /\ intToString(m) = DecimalText(q, L, m)
  BY <1>2, <1>3, IntToStringIs
<1>5. intToString(n) = <<Minus>> \o intToString(m)
  BY <1>2, <1>4, Zenon DEF DecimalText
<1> QED BY <1>1, <1>5

\* What Directive read of d, field by field.
LEMMA ReadIs ==
  ASSUME NEW d \in Directives, Known(d), NEW n, NEW r, r = Read(d, n)
  PROVE  /\ r.left = (Minus \in ToSet(d.flags)) /\ r.zero = (Zero \in ToSet(d.flags))
         /\ r.width = Number(d.width) /\ r.width \in Int /\ r.spec = d.spec
         /\ r.precision = (IF d.precision = Absent THEN -1 ELSE Number(Tail(d.precision)))
         /\ r.precision \in Int /\ (r.precision < 0 <=> d.precision = Absent)
         /\ ~r.left /\ r.zero => d.flags = <<Zero>>
<1>1. /\ r.left = (Minus \in ToSet(d.flags)) /\ r.zero = (Zero \in ToSet(d.flags))
      /\ r.width = Number(d.width) /\ r.spec = d.spec
      /\ r.precision = (IF d.precision = Absent THEN -1 ELSE Number(Tail(d.precision)))
  BY DEF Read, ReadOf
<1>2. \A w \in Seq(Zero .. Zero + 9) : Len(w) <= 2 => Number(w) \in Nat
  <2> TAKE w \in Seq(Zero .. Zero + 9)
  <2> SUFFICES ASSUME Len(w) <= 2 PROVE Number(w) \in Nat
    OBVIOUS
  <2>1. PICK a : a = w \o <<1>>
    OBVIOUS
  <2>2. w \in Seq(1 .. 255) /\ <<1>> \in Seq(1 .. 255) /\ Len(<<1>>) = 1 /\ Len(w) \in Nat
    BY DEF Zero
  <2>3. /\ a \in Seq(1 .. 255) /\ Len(a) = Len(w) + 1
        /\ \A i \in 1 .. Len(w) : a[i] = w[i]
        /\ a[Len(w) + 1] = 1
    <3>1. PICK b : b = <<1>>
      OBVIOUS
    <3>2. b \in Seq(1 .. 255) /\ Len(b) = 1 /\ b[1] = 1 /\ 1 \in 1 .. 1
      BY <3>1
    <3>3. a \in Seq(1 .. 255) /\ Len(a) = Len(w) + Len(b)
          /\ (\A i \in 1 .. Len(w) : a[i] = w[i]) /\ (\A i \in 1 .. Len(b) : a[Len(w) + i] = b[i])
      BY <2>1, <2>2, <3>1, <3>2, JoinIs
    <3> QED BY <3>2, <3>3
  <2>4. Standing(a, 1, w)
    <3>1. \A i \in 1 .. Len(w) : (1 + i) - 1 = i
      BY <2>2
    <3> QED BY <2>2, <2>3, <3>1 DEF Standing
  <2>5. 1 + Len(w) <= Len(a) /\ 1 \in 1 .. Len(a) /\ ~Digit(a[1 + Len(w)])
    BY <2>2, <2>3 DEF Digit, Zero
  <2> QED BY <2>3, <2>4, <2>5, NumberFrom
<1>3. Number(d.width) \in Nat
  <2>1. d.width \in Seq(Zero .. Zero + 9) /\ Len(d.width) <= 2
    BY PartsAre, WidthsAre
  <2> QED BY <1>2, <2>1
<1>4. d.precision # Absent => Number(Tail(d.precision)) \in Nat
  <2>1. d.precision # Absent => Tail(d.precision) \in Seq(Zero .. Zero + 9) /\ Len(Tail(d.precision)) <= 2
    BY PartsAre, PrecisionsAre
  <2> QED BY <1>2, <2>1
<1>5. r.precision \in Int /\ (r.precision < 0 <=> d.precision = Absent)
  <2>1. CASE d.precision = Absent
    <3>1. r.precision = -1
      BY <1>1, <2>1
    <3> QED BY <2>1, <3>1
  <2>2. CASE d.precision # Absent
    <3>1. r.precision \in Nat
      BY <1>1, <1>4, <2>2
    <3> QED BY <2>2, <3>1
  <2> QED BY <2>1, <2>2
<1>6. ~r.left /\ r.zero => d.flags = <<Zero>>
  <2>1. d.flags = <<>> \/ d.flags = <<Minus>> \/ d.flags = <<Zero>> \/ d.flags = <<Minus, Zero>>
    BY PartsAre DEF FlagsRead, Absent
  <2>2. ToSet(<<>>) = {} /\ Minus \in ToSet(<<Minus>>) /\ Minus \in ToSet(<<Minus, Zero>>)
    BY DEF ToSet
  <2> QED BY <1>1, <2>1, <2>2, Zenon
<1> QED BY <1>1, <1>3, <1>5, <1>6

\* The directive whose digits a number gets: 'X' has those of 'x'.
DigitsFor(d) == IF d.spec = Letter("X") THEN [d EXCEPT !.spec = Letter("x")] ELSE d
SignOf(v) == IF v < 0 THEN <<Minus>> ELSE <<>>

\* The conversions of numbers: the digits with the sign.
LEMMA NumberTextIs ==
  ASSUME NEW d \in Directives, NEW v \in Int, d.spec \in Numbers, d.spec \in Signs \/ v >= 0,
         NEW r, r.spec = d.spec
  PROVE  /\ CNumber(DigitsFor(d), v) \in Seq(Int) /\ SignOf(v) \in Seq(Int)
         /\ NumberText(r, v) = SignOf(v) \o CNumber(DigitsFor(d), v)
<1>1. /\ 100 \in Signs /\ 105 \in Signs /\ 117 \notin Signs /\ 120 \notin Signs
      /\ 120 \in Hexes /\ 117 \notin Hexes /\ 100 \notin Hexes /\ 105 \notin Hexes
      /\ d.spec \in {100, 105, 117, 120, 88} /\ Signs = {100, 105} /\ Hexes = {120, 88}
      /\ Letter("x") = 120 /\ Letter("X") = 88
  BY SpecsAre, LettersAre
<1>2. CASE d.spec \in Hexes
  <2>1. v \in Nat /\ ~(v < 0) /\ 16 \in Bases
    BY <1>1, <1>2 DEF Bases
  <2>2. put_uint(v, 16) \in Seq(Int)
    <3>1. PICK L, q : Quotients(q, L, v, 16)
      BY <2>1, QuotientsExist
    <3> QED BY <2>1, <3>1, put_uintIs
  <2>3. CNumber(DigitsFor(d), v) = put_uint(v, 16)
    <3>1. DigitsFor(d).spec = 120
      BY <1>1, <1>2 DEF DigitsFor, Directives
    <3> QED BY <1>1, <3>1 DEF CNumber
  <2>4. NumberText(r, v) = put_uint(v, 16)
    BY <1>1, <1>2 DEF NumberText
  <2>5. <<>> \o put_uint(v, 16) = put_uint(v, 16) /\ <<>> \in Seq(Int) /\ SignOf(v) = <<>>
    BY <2>1, <2>2, ConcatEmptySeq DEF SignOf
  <2> QED BY <2>2, <2>3, <2>4, <2>5
<1>3. CASE d.spec \notin Hexes
  <2>1. d.spec # 120 /\ d.spec # 88 /\ DigitsFor(d) = d
    BY <1>1, <1>3 DEF DigitsFor
  <2>2. PICK m \in Nat : m = AbsValue(v)
    BY DEF AbsValue
  <2>3. CNumber(DigitsFor(d), v) = intToString(m)
    BY <1>1, <2>1, <2>2 DEF CNumber
  <2>4. put_uint(m, 10) = intToString(m) /\ intToString(m) \in Seq(Int)
    BY DecimalSame
  <2>5. <<>> \in Seq(Int) /\ <<>> \o intToString(m) = intToString(m)
    BY <2>4, ConcatEmptySeq
  <2>6. CASE v < 0
    <3>1. m = -v /\ d.spec \in Signs
      BY <2>2, <2>6 DEF AbsValue
    <3>2. NumberText(r, v) = intToString(v)
      BY <3>1 DEF NumberText
    <3>3. <<Minus>> \in Seq(Int) /\ SignOf(v) = <<Minus>>
      BY <2>6 DEF Minus, SignOf
    <3>4. intToString(v) = <<Minus>> \o intToString(-v)
      BY <2>6, NegativeText
    <3> QED BY <2>3, <2>4, <3>1, <3>2, <3>3, <3>4
  <2>7. CASE ~(v < 0)
    <3>1. m = v /\ SignOf(v) = <<>>
      BY <2>2, <2>7 DEF AbsValue, SignOf
    <3>2. NumberText(r, v) = intToString(v)
      BY <1>3, <2>4, <3>1, Zenon DEF NumberText
    <3> QED BY <2>3, <2>4, <2>5, <3>1, <3>2
  <2> QED BY <2>6, <2>7
<1> QED BY <1>2, <1>3

\* Outside the ways of its own, a field of kvprintf is C's.
LEMMA NumberFieldIs ==
  ASSUME NEW d \in Directives, Known(d), NEW v \in Int, ~OwnWay(d, v), d.spec \in Numbers, d.spec \in Signs \/ v >= 0,
         NEW n, NEW r, r = Read(d, n)
  PROVE  NumberField(r, v) = PrintedByC(d, v) /\ PrintedByC(d, v) \in Seq(Int)
<1>1. /\ d.spec # Letter("X") /\ ~NoDigits(d, v)
      /\ d.precision # Absent => v >= 0 /\ d.flags # <<Zero>>
      /\ v < 0 => d.flags # <<Zero>>
  BY DEF OwnWay, NoDigits
<1>2. /\ r.left = (Minus \in ToSet(d.flags)) /\ r.zero = (Zero \in ToSet(d.flags))
      /\ r.width = Number(d.width) /\ r.width \in Int /\ r.spec = d.spec
      /\ r.precision = (IF d.precision = Absent THEN -1 ELSE Number(Tail(d.precision)))
      /\ r.precision \in Int /\ (r.precision < 0 <=> d.precision = Absent)
      /\ ~r.left /\ r.zero => d.flags = <<Zero>>
  BY <1>1, ReadIs
<1>3. PICK sign, digits : sign = SignOf(v) /\ digits = CNumber(d, v)
  OBVIOUS
<1>4. PICK t : t = NumberText(r, v)
  OBVIOUS
<1>5. digits \in Seq(Int) /\ sign \in Seq(Int) /\ t = sign \o digits
  <2>1. DigitsFor(d) = d /\ r.spec = d.spec
    BY <1>1, <1>2 DEF DigitsFor
  <2> QED BY <2>1, <1>3, <1>4, NumberTextIs
<1>6. t \in Seq(Int) /\ Len(t) \in Nat /\ Len(digits) \in Nat
  BY <1>5, ConcatProperties, LenProperties
<1>7. PICK c : c = IF r.zero THEN Zero ELSE Space
  OBVIOUS
<1>8. c \in Int /\ Zero \in Int
  BY <1>7 DEF Zero, Space
<1>9. PICK body : body = IF d.precision = Absent THEN digits
                         ELSE Repeat(Zero, Number(Tail(d.precision)) - Len(digits)) \o digits
  OBVIOUS
<1>10. PrintedByC(d, v) = Between(d, sign, body)
  <2>1. d.spec # Letter("s") /\ d.spec # Letter("c") /\ d.spec # Percent
    BY SpecsAre, LettersAre DEF Percent
  <2> QED BY <1>1, <1>3, <1>9, <2>1 DEF PrintedByC, SignOf
<1>11. PICK padding : padding = Repeat(Zero, r.precision - Len(t))
  OBVIOUS
<1>12. NumberField(r, v) = Padded(r, padding \o t, c)
  BY <1>4, <1>7, <1>11, Zenon DEF NumberField
<1>13. body \in Seq(Int) /\ padding \o t = sign \o body
  <2>1. CASE d.precision = Absent
    <3>1. r.precision - Len(t) \in Int /\ r.precision - Len(t) <= 0
      BY <1>2, <1>6, <2>1
    <3>2. padding = <<>>
      BY <1>11, <3>1, RepeatNothing
    <3>3. <<>> \o t = t
      BY <1>6, ConcatEmptySeq
    <3> QED BY <1>5, <1>9, <2>1, <3>2, <3>3
  <2>2. CASE d.precision # Absent
    <3>1. sign = <<>> /\ r.precision = Number(Tail(d.precision))
      BY <1>1, <1>2, <1>3, <2>2 DEF SignOf
    <3>2. <<>> \o digits = digits
      BY <1>5, ConcatEmptySeq
    <3>3. t = digits
      BY <1>5, <3>1, <3>2
    <3>4. body = padding \o digits
      BY <1>9, <1>11, <2>2, <3>1, <3>3
    <3>5. padding \in Seq(Int)
      <4>1. r.precision - Len(t) \in Int
        BY <1>2, <1>6
      <4> QED BY <1>8, <1>11, <4>1, RepeatIs
    <3>6. body \in Seq(Int)
      BY <1>5, <3>4, <3>5, ConcatProperties
    <3>7. <<>> \o body = body
      BY <3>6, ConcatEmptySeq
    <3> QED BY <3>1, <3>3, <3>4, <3>6, <3>7
  <2> QED BY <2>1, <2>2
<1>14. ~r.left => c = IF Zeros(d) THEN Zero ELSE Space
  <2> SUFFICES ASSUME ~r.left PROVE c = IF Zeros(d) THEN Zero ELSE Space
    OBVIOUS
  <2>1. r.zero => d.precision = Absent
    BY <1>1, <1>2
  <2>2. r.zero <=> Zeros(d)
    BY <1>1, <1>2, <2>1, Zenon DEF Zeros
  <2> QED BY <1>7, <2>2, Zenon
<1>15. ~r.left /\ Zeros(d) => sign = <<>>
  <2> SUFFICES ASSUME ~r.left, Zeros(d) PROVE sign = <<>>
    OBVIOUS
  <2>1. r.zero
    BY <1>2, Zenon DEF Zeros
  <2>2. d.flags = <<Zero>>
    BY <1>2, <2>1
  <2> QED BY <1>1, <1>3, <2>2 DEF SignOf
<1>16. Paddable(d, sign, body, r, c)
  BY <1>2, <1>5, <1>8, <1>13, <1>14, <1>15 DEF Paddable
<1>17. Between(d, sign, body) = Padded(r, sign \o body, c) /\ Padded(r, sign \o body, c) \in Seq(Int)
  BY <1>16, BetweenIs
<1> QED BY <1>10, <1>12, <1>13, <1>17

\* A field without a width has no padding.
LEMMA PlainField ==
  ASSUME NEW d, d.flags = Absent, d.width = Absent, NEW sign \in Seq(Int), NEW body \in Seq(Int)
  PROVE  Between(d, sign, body) = sign \o body
<1>1. d.flags = <<>> /\ d.width = <<>>
  BY DEF Absent
<1>2. ToSet(d.flags) = {} /\ Number(d.width) = 0
  BY <1>1, NumberOfNothing DEF ToSet
<1>3. (Minus \in ToSet(d.flags)) = FALSE /\ (Zero \in ToSet(d.flags)) = FALSE
  BY <1>2
<1>4. PICK t : t = sign \o body
  OBVIOUS
<1>5. t \in Seq(Int) /\ Len(t) \in Nat
  BY <1>4, ConcatProperties, LenProperties
<1>6. Repeat(Space, 0 - Len(t)) = <<>>
  <2>1. 0 - Len(t) \in Int /\ 0 - Len(t) <= 0
    BY <1>5
  <2> QED BY <2>1, RepeatNothing
<1>7. Between(d, sign, body) = Repeat(Space, 0 - Len(t)) \o sign \o body
  BY <1>2, <1>3, <1>4, Zenon DEF Between
<1>8. <<>> \o sign = sign
  BY ConcatEmptySeq
<1> QED BY <1>6, <1>7, <1>8

\* And its own fields of numbers, whatever the value.
LEMMA OwnNumberIs ==
  ASSUME NEW d \in Directives, Known(d), NEW v \in Int, d.spec \in Numbers, d.spec \in Signs \/ v >= 0,
         NEW n, NEW r, r = Read(d, n)
  PROVE  NumberField(r, v) = OwnField(d, v) /\ OwnField(d, v) \in Seq(Int)
<1>1. /\ r.left = (Minus \in ToSet(d.flags)) /\ r.zero = (Zero \in ToSet(d.flags))
      /\ r.width = Number(d.width) /\ r.width \in Int /\ r.spec = d.spec
      /\ r.precision = (IF d.precision = Absent THEN -1 ELSE Number(Tail(d.precision)))
      /\ r.precision \in Int /\ (r.precision < 0 <=> d.precision = Absent)
  BY ReadIs
<1>2. PICK t : t = NumberText(r, v)
  OBVIOUS
<1>3. t = SignOf(v) \o CNumber(DigitsFor(d), v) /\ t \in Seq(Int) /\ Len(t) \in Nat
  <2>1. /\ CNumber(DigitsFor(d), v) \in Seq(Int) /\ SignOf(v) \in Seq(Int)
        /\ t = SignOf(v) \o CNumber(DigitsFor(d), v)
    BY <1>1, <1>2, NumberTextIs
  <2> QED BY <2>1, ConcatProperties, LenProperties
<1>4. PICK e : e = [d EXCEPT !.precision = Absent]
  OBVIOUS
<1>5. e.flags = d.flags /\ e.width = d.width /\ e.precision = Absent /\ e.spec = d.spec
  BY <1>4 DEF Directives
<1>6. PICK padding : padding = Repeat(Zero, r.precision - Len(t))
  OBVIOUS
<1>7. PICK c : c = IF r.zero THEN Zero ELSE Space
  OBVIOUS
<1>8. NumberField(r, v) = Padded(r, padding \o t, c)
  BY <1>2, <1>6, <1>7, Zenon DEF NumberField
<1>9. padding \in Seq(Int) /\ c \in Int
  <2>1. Zero \in Int /\ Space \in Int
    BY DEF Zero, Space
  <2>2. r.precision - Len(t) \in Int
    BY <1>1, <1>3
  <2> QED BY <1>6, <1>7, <2>1, <2>2, RepeatIs
<1>10. padding = IF d.precision = Absent THEN <<>> ELSE Repeat(Zero, Number(Tail(d.precision)) - Len(t))
  <2>1. CASE d.precision = Absent
    <3>1. r.precision - Len(t) \in Int /\ r.precision - Len(t) <= 0
      BY <1>1, <1>3, <2>1
    <3> QED BY <1>6, <2>1, <3>1, RepeatNothing
  <2>2. CASE d.precision # Absent
    BY <1>1, <1>6, <2>2
  <2> QED BY <2>1, <2>2
<1>11. PICK body, empty : body = padding \o t /\ empty = <<>>
  OBVIOUS
<1>12. body \in Seq(Int) /\ empty \in Seq(Int) /\ empty \o body = body
  <2>1. body \in Seq(Int)
    BY <1>3, <1>9, <1>11, ConcatProperties
  <2> QED BY <1>11, <2>1, ConcatEmptySeq
<1>13. Zeros(e) <=> r.zero
  BY <1>1, <1>5 DEF Zeros
<1>14. Paddable(e, empty, body, r, c)
  BY <1>1, <1>5, <1>7, <1>9, <1>11, <1>12, <1>13 DEF Paddable
<1>15. Between(e, empty, body) = Padded(r, body, c) /\ Padded(r, body, c) \in Seq(Int)
  <2>1. Between(e, empty, body) = Padded(r, empty \o body, c) /\ Padded(r, empty \o body, c) \in Seq(Int)
    BY <1>14, BetweenIs
  <2> QED BY <1>12, <2>1
<1>16. OwnField(d, v) = Between(e, <<>>, padding \o t)
  <2>1. d.spec # Letter("p")
    BY SpecsAre, LettersAre
  <2> QED BY <1>3, <1>4, <1>10, <2>1, Zenon DEF OwnField, DigitsFor, SignOf
<1> QED BY <1>8, <1>11, <1>15, <1>16

\* 'p' is "0x%.16x".
LEMMA OwnPointerIs ==
  ASSUME NEW d \in Directives, NEW v \in Nat, d.spec = Letter("p")
  PROVE  Pointer(v) = OwnField(d, v) /\ OwnField(d, v) \in Seq(Int)
<1>1. PICK e : e = SixteenDigits(d)
  OBVIOUS
<1>2. PICK sixteen : sixteen = <<Zero + 1, Zero + 6>>
  OBVIOUS
<1>3. e.flags = <<>> /\ e.width = <<>> /\ e.precision = <<Dot, Zero + 1, Zero + 6>> /\ e.spec = Letter("x")
  BY <1>1 DEF SixteenDigits, Directives, Absent
<1>4. Tail(e.precision) = sixteen /\ e.precision # Absent
  BY <1>2, <1>3 DEF Absent
<1>5. Number(sixteen) = 16
  <2>1. sixteen \in Seq(1 .. 255) /\ Len(sixteen) = 2 /\ sixteen[1] = Zero + 1 /\ sixteen[2] = Zero + 6
    BY <1>2 DEF Zero
  <2>2. \A i \in 1 .. 2 : Digit(sixteen[i])
    BY <2>1 DEF Digit, Zero
  <2>3. 2 \in 0 .. 2 /\ 2 <= 2
    OBVIOUS
  <2>4. Number(sixteen) = ShortNumber(sixteen, 2)
    BY <2>1, <2>2, <2>3, NumberShort
  <2> QED BY <2>1, <2>4 DEF ShortNumber, Zero
<1>6. PICK digits : digits = put_uint(v, 16)
  OBVIOUS
<1>7. digits \in Seq(Int) /\ Len(digits) \in Nat
  <2>1. 16 \in Bases
    BY DEF Bases
  <2>2. PICK L, q : Quotients(q, L, v, 16)
    BY <2>1, QuotientsExist
  <2> QED BY <1>6, <2>1, <2>2, put_uintIs, LenProperties
<1>8. PICK zeros, body : zeros = Repeat(Zero, 16 - Len(digits)) /\ body = zeros \o digits
  OBVIOUS
<1>9. zeros \in Seq(Int) /\ body \in Seq(Int)
  <2>1. Zero \in Int /\ 16 - Len(digits) \in Int
    BY <1>7 DEF Zero
  <2>2. zeros \in Seq(Int)
    BY <1>8, <2>1, RepeatIs
  <2> QED BY <1>7, <1>8, <2>2, ConcatProperties
<1>10. CNumber(e, v) = digits /\ ~NoDigits(e, v) /\ ~(v < 0)
  <2>1. Number(Tail(e.precision)) # 0
    <3>1. Number(Tail(e.precision)) = 16
      BY <1>4, <1>5, Zenon
    <3>2. 16 # 0
      OBVIOUS
    <3> QED BY <3>1, <3>2, Zenon
  <2>2. ~NoDigits(e, v)
    BY <2>1, Zenon DEF NoDigits
  <2>3. CNumber(e, v) = digits
    BY <1>3, <1>6, LettersAre DEF CNumber
  <2> QED BY <2>2, <2>3
<1>11. PrintedByC(e, v) = Between(e, <<>>, body)
  <2>1. e.spec \in Numbers /\ e.spec # Letter("s") /\ e.spec # Letter("c") /\ e.spec # Percent
    BY <1>3, SpecsAre, LettersAre DEF Percent
  <2> QED BY <1>4, <1>5, <1>8, <1>10, <2>1 DEF PrintedByC
<1>12. Between(e, <<>>, body) = body
  <2>1. PICK empty : empty = <<>>
    OBVIOUS
  <2>2. empty \in Seq(Int) /\ empty \o body = body /\ body \in Seq(Int)
    BY <1>9, <2>1, ConcatEmptySeq
  <2>3. e.flags = Absent /\ e.width = Absent
    BY <1>3, Zenon DEF Absent
  <2>4. Between(e, empty, body) = empty \o body
    BY <2>2, <2>3, PlainField
  <2> QED BY <2>1, <2>2, <2>4, Zenon
<1>13. OwnField(d, v) = <<Zero, Letter("x")>> \o body
  BY <1>1, <1>11, <1>12, Zenon DEF OwnField
<1>14. PICK a, x, prefix : a = Zero /\ x = Letter("x") /\ prefix = <<a, x>>
  OBVIOUS
<1>15. prefix \in Seq(Int)
  <2>1. a \in Int /\ x \in Int
    BY <1>14, LettersAre DEF Zero
  <2> QED BY <1>14, <2>1
<1>16. (prefix \o zeros) \o digits = prefix \o body /\ prefix \o body \in Seq(Int)
  BY <1>7, <1>8, <1>9, <1>15, JoinAssociative, ConcatProperties
<1>17. Pointer(v) = (prefix \o zeros) \o digits
  BY <1>6, <1>8, <1>14, Zenon DEF Pointer
<1> QED BY <1>13, <1>14, <1>16, <1>17

\* A text or a character is padded with spaces.
LEMMA TextFieldIs ==
  ASSUME NEW d \in Directives, Known(d), d.spec \notin Numbers, NEW n, NEW r, r = Read(d, n), NEW body \in Seq(Int)
  PROVE  Between(d, <<>>, body) = Padded(r, body, Space) /\ Padded(r, body, Space) \in Seq(Int)
<1>1. r.left = (Minus \in ToSet(d.flags)) /\ r.width = Number(d.width) /\ r.width \in Int
  BY ReadIs
<1>2. ~Zeros(d) /\ Space \in Int
  BY DEF Zeros, Space
<1>3. PICK empty : empty = <<>>
  OBVIOUS
<1>4. empty \in Seq(Int) /\ empty \o body = body
  BY <1>3, ConcatEmptySeq
<1>5. Paddable(d, empty, body, r, Space)
  BY <1>1, <1>2, <1>4 DEF Paddable
<1>6. Between(d, empty, body) = Padded(r, empty \o body, Space) /\ Padded(r, empty \o body, Space) \in Seq(Int)
  BY <1>5, BetweenIs
<1> QED BY <1>3, <1>4, <1>6

\* What stands before the precision.
LEMMA CutTextIs ==
  ASSUME NEW v \in Seq(Int), NEW p \in Nat
  PROVE  SubSeq(v, 1, Min({p, Len(v)})) \in Seq(Int)
<1>1. PICK L \in Nat : L = Len(v)
  BY LenProperties
<1>2. Min({p, L}) \in 0 .. L
  <2>1. CASE p <= L
    <3>1. p \in {p, L} /\ \A y \in {p, L} : p <= y
      BY <2>1
    <3>2. \A x \in {p, L} : (\A y \in {p, L} : x <= y) => x = p
      BY <2>1
    <3>3. Min({p, L}) = p
      BY <3>1, <3>2 DEF Min
    <3> QED BY <2>1, <3>3
  <2>2. CASE ~(p <= L)
    <3>1. L \in {p, L} /\ \A y \in {p, L} : L <= y
      BY <2>2
    <3>2. \A x \in {p, L} : (\A y \in {p, L} : x <= y) => x = L
      BY <2>2
    <3>3. Min({p, L}) = L
      BY <3>1, <3>2 DEF Min
    <3> QED BY <3>3
  <2> QED BY <2>1, <2>2
<1>3. PICK m : m = Min({p, L})
  OBVIOUS
<1>4. 1 \in 1 .. Len(v) + 1 /\ m \in 1 - 1 .. Len(v)
  BY <1>1, <1>2, <1>3
<1>5. SubSeq(v, 1, m) \in Seq(Int)
  BY <1>4, SubSeqIs
<1> QED BY <1>1, <1>3, <1>5

\* What kvprintf prints of a value.
FieldOf(d, v) == IF OwnWay(d, v) THEN OwnField(d, v) ELSE PrintedByC(d, v)

LEMMA ConvertedIs ==
  ASSUME NEW d \in Directives, Known(d), NEW v, ArgumentOf(d, v), NEW n, NEW r, r = Read(d, n), NEW a, Worked(d, v, a)
  PROVE  Converted(r, a) = FieldOf(d, v) /\ FieldOf(d, v) \in Seq(Int)
<1>1. Known(d)
  OBVIOUS
<1>2. /\ r.spec = d.spec
      /\ r.precision = (IF d.precision = Absent THEN -1 ELSE Number(Tail(d.precision)))
      /\ r.precision \in Int /\ (r.precision < 0 <=> d.precision = Absent)
  BY ReadIs
<1>3. /\ Numbers = {100, 105, 120, 88, 117} /\ Signs = {100, 105} /\ Percent = 37
      /\ Letter("s") = 115 /\ Letter("c") = 99 /\ Letter("p") = 112 /\ Letter("X") = 88
  BY SpecsAre, LettersAre DEF Percent
<1>4. d.spec \in Numbers \/ d.spec = 115 \/ d.spec = 99 \/ d.spec = 37 \/ d.spec = 112
  <2>1. d.spec \in {100, 105, 120, 88, 117, 99, 115, 112, 37}
    BY <1>1, <1>3, PartsAre, SpecsAre DEF SpecsRead
  <2> QED BY <1>1, <1>3, <2>1
<1>5. CASE d.spec \in Numbers
  <2>1. v \in Int /\ (d.spec \in Signs \/ v >= 0) /\ a = v
    BY <1>3, <1>5 DEF ArgumentOf, Worked
  <2>2. NumberField(r, v) = FieldOf(d, v) /\ FieldOf(d, v) \in Seq(Int)
    <3>1. CASE OwnWay(d, v)
      BY <1>1, <1>5, <2>1, <3>1, OwnNumberIs DEF FieldOf
    <3>2. CASE ~OwnWay(d, v)
      BY <1>1, <1>5, <2>1, <3>2, NumberFieldIs DEF FieldOf
    <3> QED BY <3>1, <3>2
  <2>3. Converted(r, a) = NumberField(r, v)
    <3>1. d.spec # 115 /\ d.spec # 99 /\ d.spec # 112 /\ d.spec # 37
      BY <1>3, <1>5
    <3> QED BY <1>2, <1>3, <1>5, <2>1, <3>1 DEF Converted
  <2> QED BY <2>2, <2>3
<1>6. CASE d.spec = 115
  <2>1. v \in Seq(Int) /\ d.spec \notin Numbers /\ a = v /\ d.spec # 99 /\ d.spec # 112 /\ d.spec # 37
    BY <1>3, <1>6 DEF ArgumentOf, Worked
  <2>2. PICK body : body = IF d.precision = Absent THEN v ELSE SubSeq(v, 1, Min({r.precision, Len(v)}))
    OBVIOUS
  <2>3. body \in Seq(Int)
    <3>1. d.precision # Absent => r.precision \in Nat
      BY <1>2
    <3> QED BY <2>1, <2>2, <3>1, CutTextIs
  <2>4. Between(d, <<>>, body) = Padded(r, body, Space) /\ Padded(r, body, Space) \in Seq(Int)
    BY <1>1, <2>1, <2>3, TextFieldIs
  <2>5. StringField(r, v) = Padded(r, body, Space)
    BY <1>2, <2>2, Zenon DEF StringField
  <2>6. Converted(r, a) = StringField(r, v)
    BY <1>2, <1>3, <1>6, <2>1 DEF Converted
  <2>7. PrintedByC(d, v) = Between(d, <<>>, body)
    <3>1. PrintedByC(d, v) = Between(d, <<>>, IF d.precision = Absent THEN v
                                              ELSE SubSeq(v, 1, Min({Number(Tail(d.precision)), Len(v)})))
      BY <1>3, <1>6, <2>1 DEF PrintedByC
    <3> QED BY <1>2, <2>2, <3>1, Zenon
  <2>8. FieldOf(d, v) = PrintedByC(d, v)
    BY <1>3, <1>6, <2>1 DEF FieldOf, OwnWay
  <2> QED BY <2>4, <2>5, <2>6, <2>7, <2>8
<1>7. CASE d.spec = 99
  <2>1. v \in Int /\ d.spec \notin Numbers /\ a % 256 = v % 256 /\ d.spec # 115 /\ d.spec # 112 /\ d.spec # 37
    BY <1>3, <1>7 DEF ArgumentOf, Worked
  <2>2. PICK body : body = <<v % 256>>
    OBVIOUS
  <2>3. body \in Seq(Int)
    <3>1. v % 256 \in Int
      BY <2>1
    <3> QED BY <2>2, <3>1
  <2>4. Between(d, <<>>, body) = Padded(r, body, Space) /\ Padded(r, body, Space) \in Seq(Int)
    BY <1>1, <2>1, <2>3, TextFieldIs
  <2>5. Converted(r, a) = Padded(r, body, Space)
    BY <1>2, <1>3, <1>7, <2>1, <2>2 DEF Converted
  <2>6. PrintedByC(d, v) = Between(d, <<>>, body)
    BY <1>3, <1>7, <2>1, <2>2 DEF PrintedByC
  <2>7. FieldOf(d, v) = PrintedByC(d, v)
    BY <1>3, <1>7, <2>1 DEF FieldOf, OwnWay
  <2> QED BY <2>4, <2>5, <2>6, <2>7
<1>8. CASE d.spec = 37
  <2>1. d.spec \notin Numbers /\ d.spec # 115 /\ d.spec # 99 /\ d.spec # 112
    BY <1>3, <1>8
  <2>2. Converted(r, a) = <<Percent>>
    BY <1>2, <1>3, <1>8, <2>1 DEF Converted
  <2>3. PrintedByC(d, v) = <<Percent>>
    BY <1>3, <1>8, <2>1 DEF PrintedByC
  <2>4. <<Percent>> \in Seq(Int)
    BY <1>3
  <2>5. FieldOf(d, v) = PrintedByC(d, v)
    BY <1>3, <1>8, <2>1 DEF FieldOf, OwnWay
  <2> QED BY <2>2, <2>3, <2>4, <2>5
<1>9. CASE d.spec = 112
  <2>1. v \in Nat /\ d.spec \notin Numbers /\ a = v /\ d.spec # 115 /\ d.spec # 99 /\ d.spec # 37 /\ OwnWay(d, v)
    BY <1>3, <1>9 DEF ArgumentOf, Worked, OwnWay
  <2>2. Converted(r, a) = Pointer(v)
    BY <1>2, <1>3, <1>9, <2>1 DEF Converted
  <2>3. FieldOf(d, v) = OwnField(d, v)
    BY <2>1 DEF FieldOf
  <2> QED BY <1>3, <1>9, <2>1, <2>2, <2>3, OwnPointerIs
<1> QED BY <1>4, <1>5, <1>6, <1>7, <1>8, <1>9

\* The two spellings of the whole text.
LEMMA TextsAre ==
  ASSUME NEW field \in Seq(Int)
  PROVE  /\ Append(<<LowerA>> \o field, Space) \o <<Zero + 5>> = <<LowerA>> \o field \o <<Space, Zero + 5>>
         /\ <<LowerA>> \o field \in Seq(Int)
         /\ <<LowerA>> \o field \o <<Space, Zero + 5>> \in Seq(Int)
<1>1. LowerA \in Int /\ Space \in Int /\ Zero + 5 \in Int
  BY DEF LowerA, Space, Zero
<1>2. PICK a, b, c, e, s \in Int : a = LowerA /\ b = Space /\ c = Zero + 5
  BY <1>1
<1>3. PICK t : t = <<a>> \o field
  OBVIOUS
<1>4. t \in Seq(Int)
  BY <1>3
<1>5. Append(t, b) \o <<c>> = t \o <<b, c>>
  BY <1>4
<1>6. t \o <<b, c>> \in Seq(Int)
  BY <1>4
<1> QED BY <1>2, <1>3, <1>4, <1>5, <1>6

\* The text around a field.
Line(field) == <<LowerA>> \o field \o <<Space, Zero + 5>>

\* The arguments, and what kvprintf receives of the first.
ArgsFor(d, slot) == IF d.spec = Percent THEN << 5 >> ELSE <<slot, 5>>
Receives(d, x, slot) ==
  /\ d.spec # Percent => ArgumentOf(d, x) /\ Worked(d, x, LongArg(d.spec, slot))
  /\ d.spec = Percent => x = NUL

LEMMA kvprintfRight ==
  ASSUME NEW d \in Directives, Known(d), NEW slot, NEW x, Receives(d, x, slot)
  PROVE  /\ kvprintf(FormatOf(d), ArgsFor(d, slot)).fetched = Len(ArgsFor(d, slot))
         /\ kvprintf(FormatOf(d), ArgsFor(d, slot)).text = Line(FieldOf(d, x))
<1>1. PICK args, printed : args = ArgsFor(d, slot) /\ printed = kvprintf(FormatOf(d), args)
  OBVIOUS
<1>2. args = IF d.spec = Percent THEN << 5 >> ELSE <<slot, 5>>
  BY <1>1 DEF ArgsFor
<1>3. PICK fmt, n : fmt = FormatOf(d) /\ n = Len(fmt)
  OBVIOUS
<1>4. PICK v : v = LongArg(d.spec, slot)
  OBVIOUS
<1>5. PICK a : a = IF d.spec = Percent THEN NUL ELSE v
  OBVIOUS
<1>6. PICK k : k = Len(args)
  OBVIOUS
<1>7. kvprintf(fmt, args) = State(n + 1, FormatText(d, n, a), k)
  BY <1>2, <1>3, <1>4, <1>5, <1>6, FormatRun
<1>8. printed.fetched = k /\ printed.text = FormatText(d, n, a)
  BY <1>1, <1>3, <1>7 DEF State
<1>9. PICK r : r = Read(d, n)
  OBVIOUS
<1>10. ArgumentOf(d, x) /\ Worked(d, x, a)
  <2>1. CASE d.spec = Percent
    <3>1. d.spec \notin Signs \cup {Letter("c")} /\ d.spec # Letter("s") /\ NUL \in Nat
      BY <2>1, SpecsAre, LettersAre DEF Percent, NUL
    <3> QED BY <1>5, <2>1, <3>1 DEF ArgumentOf, Worked, Receives
  <2>2. CASE d.spec # Percent
    BY <1>4, <1>5, <2>2 DEF Receives
  <2> QED BY <2>1, <2>2
<1>11. Converted(r, a) = FieldOf(d, x) /\ FieldOf(d, x) \in Seq(Int)
  BY <1>9, <1>10, ConvertedIs
<1>12. FormatText(d, n, a) = Line(FieldOf(d, x))
  <2>1. FormatText(d, n, a) = Append(<<LowerA>> \o FieldOf(d, x), Space) \o <<Zero + 5>>
    BY <1>9, <1>11, Zenon DEF FormatText
  <2>2. PICK field \in Seq(Int) : field = FieldOf(d, x)
    BY <1>11
  <2>3. Append(<<LowerA>> \o field, Space) \o <<Zero + 5>> = <<LowerA>> \o field \o <<Space, Zero + 5>>
    BY TextsAre
  <2> QED BY <2>1, <2>2, <2>3, Zenon DEF Line
<1> QED BY <1>1, <1>6, <1>8, <1>12

-----------------------------------------------------------------------------
(* The debug port *)

\* What has been sent of s.
Sending(s, f) == [k \in 0 .. Len(s) |-> IF k = 0 THEN <<>> ELSE f[k - 1] \o qemu_debug_putc(s[k])]

LEMMA Sent ==
  ASSUME NEW s, NEW L \in Nat, L = Len(s), NEW v, v = Sending(s, v)
  PROVE  DebugText(s) = v[L]
<1>1. PICK f : f = (CHOOSE g : g = Sending(s, g))
  OBVIOUS
<1>2. DebugText(s) = f[Len(s)]
  BY <1>1, Zenon DEF DebugText, Sending
<1>3. f = Sending(s, f)
  BY <1>1
<1>4. \A k \in 0 .. L : /\ f[k] = IF k = 0 THEN <<>> ELSE f[k - 1] \o qemu_debug_putc(s[k])
                        /\ v[k] = IF k = 0 THEN <<>> ELSE v[k - 1] \o qemu_debug_putc(s[k])
  BY <1>3, Zenon DEF Sending
<1> DEFINE Off == {k \in 0 .. L : f[k] # v[k]}
<1>5. Off = {}
  <2> SUFFICES ASSUME Off # {} PROVE FALSE
    OBVIOUS
  <2>1. PICK k \in Off : \A i \in Off : k <= i
    <3>1. Off \in SUBSET Nat
      OBVIOUS
    <3> HIDE DEF Off
    <3> QED BY <3>1, MinOfNaturals
  <2>2. k \in 0 .. L /\ f[k] # v[k]
    OBVIOUS
  <2>3. k # 0
    BY <1>4, <2>2, Zenon
  <2>4. k - 1 \in 0 .. L /\ k - 1 < k
    BY <2>2, <2>3
  <2>5. k - 1 \notin Off
    <3> HIDE DEF Off
    <3> QED BY <2>1, <2>2, <2>4
  <2>6. f[k - 1] = v[k - 1]
    BY <2>4, <2>5
  <2> QED BY <1>4, <2>2, <2>3, <2>6, Zenon
<1>6. L \in 0 .. L
  OBVIOUS
<1> QED BY <1>2, <1>5, <1>6

\* What is not a newline goes out as it is.
Lineless == Int \ {10}

LEMMA LinelessText ==
  ASSUME NEW s \in Seq(Lineless)
  PROVE  DebugText(s) = s
<1>1. PICK L \in Nat : L = Len(s)
  BY LenProperties
<1>2. PICK v : v = [k \in 0 .. L |-> SubSeq(s, 1, k)]
  OBVIOUS
<1>3. \A k \in 0 .. L : v[k] = IF k = 0 THEN <<>> ELSE v[k - 1] \o qemu_debug_putc(s[k])
  <2> TAKE k \in 0 .. L
  <2>1. CASE k = 0
    <3>1. SubSeq(s, 1, 0) = <<>>
      <4>1. SubSeq(s, 1, 0) \in Seq(Lineless) /\ Len(SubSeq(s, 1, 0)) = 0 - 1 + 1
        BY <1>1, SubSeqIs
      <4>2. Len(SubSeq(s, 1, 0)) = 0
        BY <4>1
      <4> QED BY <4>1, <4>2, EmptySeq
    <3> QED BY <1>2, <2>1, <3>1
  <2>2. CASE k # 0
    <3>1. k \in 1 .. L /\ k - 1 \in 0 .. L
      BY <1>1, <2>2
    <3>2. s[k] # 10
      <4>1. s[k] \in Lineless
        BY <1>1, <3>1, ElementOfSeq
      <4> QED BY <4>1 DEF Lineless
    <3>3. qemu_debug_putc(s[k]) = <<s[k]>>
      BY <3>2, Zenon DEF qemu_debug_putc
    <3>4. SubSeq(s, 1, k) = SubSeq(s, 1, k - 1) \o <<s[k]>>
      <4>1. PICK t, c : t = SubSeq(s, 1, k - 1) /\ c = s[k]
        OBVIOUS
      <4>2. t \in Seq(Lineless) /\ Len(t) = k - 1 /\ \A i \in 1 .. k - 1 : t[i] = s[i]
        <5>1. 1 \in 1 .. Len(s) + 1 /\ k - 1 \in 1 - 1 .. Len(s) /\ (k - 1) - 1 + 1 = k - 1
          BY <1>1, <3>1
        <5>2. /\ SubSeq(s, 1, k - 1) \in Seq(Lineless) /\ Len(SubSeq(s, 1, k - 1)) = (k - 1) - 1 + 1
              /\ \A i \in 1 .. (k - 1) - 1 + 1 : SubSeq(s, 1, k - 1)[i] = s[1 + i - 1]
          BY <5>1, SubSeqIs
        <5>3. \A i \in 1 .. k - 1 : 1 + i - 1 = i
          OBVIOUS
        <5> QED BY <4>1, <5>1, <5>2, <5>3
      <4>3. c \in Lineless
        BY <1>1, <3>1, <4>1, ElementOfSeq
      <4>4. PICK u : u = t \o <<c>>
        OBVIOUS
      <4>5. u \in Seq(Lineless) /\ Len(u) = k /\ \A i \in 1 .. k : u[i] = s[i]
        <5>1. u = Append(t, c)
          BY <4>2, <4>3, <4>4
        <5>2. PICK m \in Nat : m = Len(t)
          BY <4>2, LenProperties
        <5>3. u \in Seq(Lineless) /\ Len(u) = m + 1 /\ u[m + 1] = c /\ \A i \in 1 .. m : u[i] = t[i]
          BY <4>2, <4>3, <5>1, <5>2
        <5>4. m = k - 1
          BY <4>2, <5>2
        <5>5. (k - 1) + 1 = k /\ \A i \in 1 .. k : i = k \/ i \in 1 .. k - 1
          BY <3>1
        <5> QED BY <4>1, <4>2, <5>3, <5>4, <5>5
      <4>6. u = SubSeq(s, 1, k)
        <5>1. 1 \in 1 .. Len(s) + 1 /\ k \in 1 - 1 .. Len(s) /\ k - 1 + 1 = k
          BY <1>1, <3>1
        <5>2. \A i \in 1 .. k - 1 + 1 : u[i] = s[1 + i - 1]
          BY <4>5, <5>1
        <5> QED BY <4>5, <5>1, <5>2, SubSeqUnique
      <4> QED BY <4>1, <4>4, <4>6
    <3> QED BY <1>2, <2>2, <3>1, <3>3, <3>4
  <2> QED BY <2>1, <2>2
<1>4. v = Sending(s, v)
  <2>1. v = [k \in 0 .. L |-> v[k]]
    BY <1>2
  <2> QED BY <1>1, <1>3, <2>1, Zenon DEF Sending
<1>5. DebugText(s) = v[L]
  BY <1>1, <1>4, Sent
<1>6. v[L] = SubSeq(s, 1, L)
  BY <1>2
<1>7. s = SubSeq(s, 1, L)
  <2>1. 1 \in 1 .. Len(s) + 1 /\ L \in 1 - 1 .. Len(s) /\ Len(s) = L - 1 + 1
    BY <1>1
  <2>2. \A i \in 1 .. L - 1 + 1 : s[i] = s[1 + i - 1]
    OBVIOUS
  <2> QED BY <2>1, <2>2, SubSeqUnique
<1> QED BY <1>5, <1>6, <1>7

LEMMA Newline ==
  /\ DebugText(<<10>>) = <<13, 10>>
  /\ DebugText(<<97>> \o <<10>> \o <<32, 53>>) = <<97>> \o <<13, 10>> \o <<32>> \o <<53>>
<1>1. /\ qemu_debug_putc(10) = <<13, 10>> /\ qemu_debug_putc(97) = <<97>>
      /\ qemu_debug_putc(32) = <<32>> /\ qemu_debug_putc(53) = <<53>>
  BY DEF qemu_debug_putc
<1>2. DebugText(<<10>>) = <<13, 10>>
  <2>1. PICK s, v : s = <<10>> /\ v = [k \in 0 .. 1 |-> IF k = 0 THEN <<>> ELSE <<13, 10>>]
    OBVIOUS
  <2>2. Len(s) = 1 /\ s[1] = 10 /\ v[0] = <<>> /\ v[1] = <<13, 10>>
    BY <2>1
  <2>3. \A k \in 0 .. 1 : v[k] = IF k = 0 THEN <<>> ELSE v[k - 1] \o qemu_debug_putc(s[k])
    <3>1. <<>> \o <<13, 10>> = <<13, 10>> /\ 1 - 1 = 0 /\ \A k \in 0 .. 1 : k = 0 \/ k = 1
      OBVIOUS
    <3>2. 1 # 0
      OBVIOUS
    <3> QED BY <1>1, <2>2, <3>1, <3>2, Zenon
  <2>4. v = Sending(s, v)
    <3>1. v = [k \in 0 .. 1 |-> v[k]]
      BY <2>1
    <3> QED BY <2>2, <2>3, <3>1, Zenon DEF Sending
  <2>5. DebugText(s) = v[1]
    BY <2>2, <2>4, Sent
  <2> QED BY <2>1, <2>2, <2>5
<1>3. DebugText(<<97>> \o <<10>> \o <<32, 53>>) = <<97>> \o <<13, 10>> \o <<32>> \o <<53>>
  <2>1. PICK s : s = <<97>> \o <<10>> \o <<32, 53>>
    OBVIOUS
  <2>2. PICK v : v = [k \in 0 .. 4 |-> IF k = 0 THEN <<>> ELSE IF k = 1 THEN <<97>>
                                       ELSE IF k = 2 THEN <<97>> \o <<13, 10>>
                                       ELSE IF k = 3 THEN <<97>> \o <<13, 10>> \o <<32>>
                                       ELSE <<97>> \o <<13, 10>> \o <<32>> \o <<53>>]
    OBVIOUS
  <2>3. Len(s) = 4 /\ s[1] = 97 /\ s[2] = 10 /\ s[3] = 32 /\ s[4] = 53
    <3>1. PICK a, b, c : a = <<97>> /\ b = a \o <<10>> /\ c = <<32, 53>>
      OBVIOUS
    <3>2. a \in Seq(Int) /\ Len(a) = 1 /\ a[1] = 97 /\ c \in Seq(Int) /\ Len(c) = 2 /\ c[1] = 32 /\ c[2] = 53
      BY <3>1
    <3>3. b \in Seq(Int) /\ Len(b) = 2 /\ b[1] = 97 /\ b[2] = 10
      BY <3>1, <3>2
    <3>4. /\ Len(b \o c) = 2 + 2 /\ \A i \in 1 .. 2 : (b \o c)[i] = b[i]
          /\ \A i \in 1 .. 2 : (b \o c)[2 + i] = c[i]
      <4>1. b \in Seq(Int) /\ c \in Seq(Int)
        BY <3>2, <3>3
      <4>2. /\ Len(b \o c) = Len(b) + Len(c) /\ \A i \in 1 .. Len(b) : (b \o c)[i] = b[i]
            /\ \A i \in 1 .. Len(c) : (b \o c)[Len(b) + i] = c[i]
        BY <4>1, JoinIs
      <4> QED BY <3>2, <3>3, <4>2
    <3>5. (b \o c)[2 + 1] = c[1] /\ (b \o c)[2 + 2] = c[2] /\ (b \o c)[1] = b[1] /\ (b \o c)[2] = b[2]
      BY <3>4
    <3>6. s = b \o c
      BY <2>1, <3>1
    <3> QED BY <3>2, <3>3, <3>4, <3>5, <3>6
  <2>4. /\ v[0] = <<>> /\ v[1] = <<97>> /\ v[2] = <<97>> \o <<13, 10>>
        /\ v[3] = <<97>> \o <<13, 10>> \o <<32>>
        /\ v[4] = <<97>> \o <<13, 10>> \o <<32>> \o <<53>>
    BY <2>2
  <2>5. \A k \in 0 .. 4 : v[k] = IF k = 0 THEN <<>> ELSE v[k - 1] \o qemu_debug_putc(s[k])
    <3>0. <<>> \o <<97>> = <<97>>
      OBVIOUS
    <3>2. /\ 1 - 1 = 0 /\ 2 - 1 = 1 /\ 3 - 1 = 2 /\ 4 - 1 = 3 /\ 1 # 0 /\ 2 # 0 /\ 3 # 0 /\ 4 # 0
          /\ \A k \in 0 .. 4 : k = 0 \/ k = 1 \/ k = 2 \/ k = 3 \/ k = 4
      OBVIOUS
    <3>6. v[1] = v[1 - 1] \o qemu_debug_putc(s[1])
      BY <1>1, <2>3, <2>4, <3>0, <3>2
    <3>7. v[2] = v[2 - 1] \o qemu_debug_putc(s[2])
      BY <1>1, <2>3, <2>4, <3>2
    <3>8. v[3] = v[3 - 1] \o qemu_debug_putc(s[3])
      BY <1>1, <2>3, <2>4, <3>2
    <3>9. v[4] = v[4 - 1] \o qemu_debug_putc(s[4])
      BY <1>1, <2>3, <2>4, <3>2
    <3> QED BY <2>4, <3>2, <3>6, <3>7, <3>8, <3>9, Zenon
  <2>6. v = Sending(s, v)
    <3>1. v = [k \in 0 .. 4 |-> v[k]]
      BY <2>2
    <3> QED BY <2>3, <2>5, <3>1, Zenon DEF Sending
  <2>7. DebugText(s) = v[4]
    <3>1. PICK L \in Nat : L = 4
      OBVIOUS
    <3>2. L = Len(s)
      BY <2>3, <3>1
    <3>3. DebugText(s) = v[L]
      BY <2>6, <3>2, Sent
    <3> QED BY <3>1, <3>3
  <2> QED BY <2>1, <2>4, <2>7
<1> QED BY <1>2, <1>3

\* There is no newline in the digits of a number.
LEMMA DigitsLineless ==
  ASSUME NEW base \in Bases, NEW n \in Nat
  PROVE  put_uint(n, base) \in Seq(Lineless)
<1>1. PICK L, q : Quotients(q, L, n, base)
  BY QuotientsExist
<1>2. PICK s : s = put_uint(n, base)
  OBVIOUS
<1>3. s = HighFirst(q, L, base, LowerA) /\ L \in Nat
  BY <1>1, <1>2, put_uintIs
<1>4. ASSUME NEW k \in 1 .. L PROVE DigitChar(q[L - k] % base, LowerA) \in Lineless
  <2>1. q \in [0 .. L -> Nat] /\ L - k \in 0 .. L
    BY <1>1, <1>3 DEF Quotients
  <2>2. q[L - k] \in Nat
    BY <2>1
  <2>3. PICK r \in Nat : r = q[L - k] % base
    BY <2>2, Division
  <2> QED BY <2>3 DEF DigitChar, LowerA, Zero, Lineless
<1>5. s \in [1 .. L -> Lineless]
  BY <1>3, <1>4, Zenon DEF HighFirst
<1> QED BY <1>2, <1>3, <1>5

LEMMA DebugLetterTurn ==
  ASSUME NEW fmt, NEW args, NEW at, NEW text, NEW fetched, fmt[at] # Percent
  PROVE  qemu_debug_printfTurn(fmt, args, State(at, text, fetched))
           = State(at + 1, text \o DebugText(<<fmt[at]>>), fetched)
<1>1. PICK s : s = State(at, text, fetched)
  OBVIOUS
<1>2. s.at = at /\ s.text = text
  BY <1>1 DEF State
<1>3. qemu_debug_printfTurn(fmt, args, s)
        = [s EXCEPT !.at = s.at + 1, !.text = s.text \o DebugText(<<fmt[s.at]>>)]
  BY <1>2 DEF qemu_debug_printfTurn
<1> QED BY <1>1, <1>2, <1>3 DEF State

DebugTakes == Takes \ {Letter("p")}

LEMMA DebugDirectiveTurn ==
  ASSUME NEW fmt, NEW args, NEW at, NEW text, NEW fetched \in Nat, fmt[at] = Percent, NEW c, c = fmt[at + 1]
  PROVE  qemu_debug_printfTurn(fmt, args, State(at, text, fetched))
           = State(at + 2, text \o DebugConverted(c, IF c \in DebugTakes THEN IntArg(c, args[fetched + 1]) ELSE NUL),
                   IF c \in DebugTakes THEN fetched + 1 ELSE fetched)
<1>1. PICK s : s = State(at, text, fetched)
  OBVIOUS
<1>2. s.at = at /\ s.text = text /\ s.fetched = fetched
  BY <1>1 DEF State
<1>3. qemu_debug_printfTurn(fmt, args, s)
        = [at |-> s.at + 2, fetched |-> IF c \in DebugTakes THEN s.fetched + 1 ELSE s.fetched,
           text |-> s.text \o DebugConverted(c, IF c \in DebugTakes THEN IntArg(c, args[s.fetched + 1]) ELSE NUL)]
  BY <1>2, Zenon DEF qemu_debug_printfTurn, DebugTakes
<1> QED BY <1>1, <1>2, <1>3 DEF State

LEMMA DebugRun ==
  ASSUME NEW d \in Directives, Plain(d), d.spec # Letter("p"),
         NEW slot, NEW args, args = IF d.spec = Percent THEN << 5 >> ELSE <<slot, 5>>,
         NEW v, v = IntArg(d.spec, slot),
         NEW fmt, fmt = FormatOf(d)
  PROVE  qemu_debug_printf(fmt, args).text
           = <<LowerA>> \o DebugConverted(d.spec, IF d.spec = Percent THEN NUL ELSE v) \o <<Space>> \o <<Zero + 5>>
<1>1. Known(d)
  <2>1. d.flags = Absent /\ d.length = Absent
    BY DEF Plain
  <2>2. Absent # <<Zero, Minus>>
    BY DEF Absent
  <2> QED BY <2>1, <2>2 DEF Known
<1>2. PICK n : n = Len(fmt)
  OBVIOUS
<1>3. /\ n = 6 /\ fmt[1] = LowerA /\ fmt[2] = Percent /\ fmt[3] = d.spec
      /\ fmt[4] = Space /\ fmt[5] = Percent /\ fmt[6] = Letter("d")
  <2>1. /\ fmt[1] = LowerA /\ fmt[2] = Percent /\ n = 6 /\ fmt[3] = d.spec
        /\ fmt[n - 2] = Space /\ fmt[n - 1] = Percent
    BY <1>1, <1>2, FormatIs
  <2>2. fmt[n] = Letter("d")
    <3>1. Stands(fmt, n, Absent, Absent, Absent, Absent, Letter("d"), n)
      BY <1>1, <1>2, FormatIs
    <3> QED BY <3>1 DEF Stands
  <2>3. 6 - 2 = 4 /\ 6 - 1 = 5
    OBVIOUS
  <2> QED BY <2>1, <2>2, <2>3
<1>4. PICK c, e : c = d.spec /\ e = Letter("d")
  OBVIOUS
<1>5. PICK k, a : k = (IF d.spec = Percent THEN 0 ELSE 1) /\ a = IF d.spec = Percent THEN NUL ELSE v
  OBVIOUS
<1>6. /\ k \in Nat /\ k = (IF c \in DebugTakes THEN 1 ELSE 0) /\ e \in DebugTakes
      /\ a = (IF c \in DebugTakes THEN IntArg(c, args[1]) ELSE NUL) /\ IntArg(e, args[k + 1]) = 5
  <2>1. DebugTakes = {100, 105, 120, 88, 117, 99, 115} /\ Percent = 37 /\ e = 100 /\ Letter("p") = 112
    BY <1>4, SpecsAre, LettersAre DEF DebugTakes, Percent
  <2>2. c \in DebugTakes \/ c = Percent
    <3>1. d.spec \in SpecsRead
      BY <1>1, PartsAre
    <3> QED BY <1>4, <3>1 DEF SpecsRead, DebugTakes
  <2>0. IntArg(e, 5) = 5
    BY <1>4, FiveFits
  <2>3. CASE c = Percent
    <3>1. k = 0 /\ args = <<5>> /\ a = NUL /\ c \notin DebugTakes
      BY <1>4, <1>5, <2>1, <2>3
    <3> QED BY <2>0, <2>1, <3>1
  <2>4. CASE c \in DebugTakes
    <3>1. c # Percent
      BY <2>1, <2>4
    <3>2. k = 1 /\ args = <<slot, 5>> /\ a = v
      BY <1>4, <1>5, <3>1
    <3>3. args[1] = slot /\ args[2] = 5
      BY <3>2
    <3> QED BY <1>4, <2>0, <2>1, <2>4, <3>2, <3>3
  <2> QED BY <2>2, <2>3, <2>4
<1>7. PICK t1, t2, t3, t4 :
        /\ t1 = <<>> \o DebugText(<<LowerA>>) /\ t2 = t1 \o DebugConverted(c, a)
        /\ t3 = t2 \o DebugText(<<Space>>) /\ t4 = t3 \o DebugConverted(e, 5)
  OBVIOUS
<1>8. qemu_debug_printfTurn(fmt, args, State(1, <<>>, 0)) = State(2, t1, 0)
  <2>1. fmt[1] # Percent
    BY <1>3 DEF LowerA, Percent
  <2>2. PICK empty : empty = <<>>
    OBVIOUS
  <2>3. qemu_debug_printfTurn(fmt, args, State(1, empty, 0)) = State(1 + 1, empty \o DebugText(<<fmt[1]>>), 0)
    BY <2>1, DebugLetterTurn
  <2>4. 1 + 1 = 2
    OBVIOUS
  <2> QED BY <1>3, <1>7, <2>2, <2>3, <2>4, Zenon
<1>9. qemu_debug_printfTurn(fmt, args, State(2, t1, 0)) = State(4, t2, k)
  <2>1. c = fmt[2 + 1] /\ 0 \in Nat /\ fmt[2] = Percent
    BY <1>3, <1>4
  <2>2. qemu_debug_printfTurn(fmt, args, State(2, t1, 0))
          = State(2 + 2, t1 \o DebugConverted(c, IF c \in DebugTakes THEN IntArg(c, args[0 + 1]) ELSE NUL),
                  IF c \in DebugTakes THEN 0 + 1 ELSE 0)
    BY <2>1, DebugDirectiveTurn
  <2>3. 2 + 2 = 4 /\ 0 + 1 = 1
    OBVIOUS
  <2> QED BY <1>6, <1>7, <2>2, <2>3
<1>10. qemu_debug_printfTurn(fmt, args, State(4, t2, k)) = State(5, t3, k)
  <2>1. fmt[4] # Percent
    BY <1>3 DEF Space, Percent
  <2>2. qemu_debug_printfTurn(fmt, args, State(4, t2, k)) = State(4 + 1, t2 \o DebugText(<<fmt[4]>>), k)
    BY <2>1, DebugLetterTurn
  <2>3. 4 + 1 = 5
    OBVIOUS
  <2> QED BY <1>3, <1>7, <2>2, <2>3
<1>11. qemu_debug_printfTurn(fmt, args, State(5, t3, k)) = State(7, t4, k + 1)
  <2>1. e = fmt[5 + 1] /\ k \in Nat /\ fmt[5] = Percent
    BY <1>3, <1>4, <1>6
  <2>2. qemu_debug_printfTurn(fmt, args, State(5, t3, k))
          = State(5 + 2, t3 \o DebugConverted(e, IF e \in DebugTakes THEN IntArg(e, args[k + 1]) ELSE NUL),
                  IF e \in DebugTakes THEN k + 1 ELSE k)
    BY <2>1, DebugDirectiveTurn
  <2>3. 5 + 2 = 7
    OBVIOUS
  <2> QED BY <1>6, <1>7, <2>2, <2>3
<1>12. PICK run : run = [i \in 0 .. 4 |-> IF i = 0 THEN State(1, <<>>, 0) ELSE IF i = 1 THEN State(2, t1, 0)
                                          ELSE IF i = 2 THEN State(4, t2, k) ELSE IF i = 3 THEN State(5, t3, k)
                                          ELSE State(7, t4, k + 1)]
  OBVIOUS
<1>13. /\ run[0] = State(1, <<>>, 0) /\ run[1] = State(2, t1, 0) /\ run[2] = State(4, t2, k)
       /\ run[3] = State(5, t3, k) /\ run[4] = State(7, t4, k + 1)
  BY <1>12
<1>14. Runs("qemu_debug_printf", fmt, args, State(1, <<>>, 0), 4, run)
  <2>1. run[0].at = 1 /\ run[1].at = 2 /\ run[2].at = 4 /\ run[3].at = 5 /\ run[4].at = 7
    BY <1>13 DEF State
  <2>2. 4 \in 0 .. n /\ 7 > n /\ ~(1 > n) /\ ~(2 > n) /\ ~(4 > n) /\ ~(5 > n)
    BY <1>3
  <2>3. ASSUME NEW i \in 1 .. 4
        PROVE  ~(run[i - 1].at > n) /\ run[i] = Turns("qemu_debug_printf", fmt, args, run[i - 1])
    <3>1. i = 1 \/ i = 2 \/ i = 3 \/ i = 4
      OBVIOUS
    <3>2. 1 - 1 = 0 /\ 2 - 1 = 1 /\ 3 - 1 = 2 /\ 4 - 1 = 3
      OBVIOUS
    <3>3. ~(run[i - 1].at > n) /\ run[i] = qemu_debug_printfTurn(fmt, args, run[i - 1])
      BY <1>8, <1>9, <1>10, <1>11, <1>13, <2>1, <2>2, <3>1, <3>2, Zenon
    <3>4. "qemu_debug_printf" # "kvprintf" /\ "qemu_debug_printf" # "kprintf"
      OBVIOUS
    <3> QED BY <3>3, <3>4, Zenon DEF Turns
  <2> QED BY <1>2, <1>13, <2>1, <2>2, <2>3 DEF Runs
<1>15. qemu_debug_printf(fmt, args) = run[4]
  <2>1. Len(fmt) \in Nat
    BY <1>2, <1>3
  <2> QED BY <1>14, <2>1, DebugRuns DEF State
<1>16. qemu_debug_printf(fmt, args).text = t4
  BY <1>13, <1>15 DEF State
<1>17. t4 = <<LowerA>> \o DebugConverted(c, a) \o <<Space>> \o <<Zero + 5>>
  <2>1. DebugText(<<LowerA>>) = <<LowerA>> /\ DebugText(<<Space>>) = <<Space>>
    <3>1. <<LowerA>> \in Seq(Lineless) /\ <<Space>> \in Seq(Lineless)
      BY DEF LowerA, Space, Lineless
    <3> QED BY <3>1, LinelessText
  <2>2. t1 = <<LowerA>>
    <3>1. <<LowerA>> \in Seq(Int)
      BY DEF LowerA
    <3> QED BY <1>7, <2>1, <3>1, ConcatEmptySeq
  <2>3. DebugConverted(e, 5) = <<Zero + 5>>
    <3>1. e \in Signs /\ ~(5 < 0)
      BY <1>4, SpecsAre, LettersAre
    <3>2. DebugConverted(e, 5) = put_uint(5, 10)
      <4>1. /\ e # Letter("u") /\ e \notin Hexes /\ e # Letter("s") /\ e # Letter("c") /\ e # Percent
        BY <1>4, SpecsAre, LettersAre DEF Percent
      <4> QED BY <3>1, <4>1 DEF DebugConverted
    <3>3. put_uint(5, 10) = intToString(5)
      BY DecimalSame
    <3> QED BY <3>2, <3>3, FiveIs
  <2> QED BY <1>7, <2>1, <2>2, <2>3
<1> QED BY <1>4, <1>5, <1>16, <1>17

\* A run of digits in capitals.
LEMMA UpperIs ==
  ASSUME NEW v \in Nat
  PROVE  Upper(put_uint(v, 16)) = hex_to_str(v) /\ hex_to_str(v) \in Seq(Int)
<1>1. 16 \in Bases
  BY DEF Bases
<1>2. PICK L, q : Quotients(q, L, v, 16)
  BY <1>1, QuotientsExist
<1>3. L \in Nat /\ q \in [0 .. L -> Nat]
  BY <1>2 DEF Quotients
<1>4. PICK s : s = put_uint(v, 16)
  OBVIOUS
<1>5. s = [k \in 1 .. L |-> DigitChar(q[L - k] % 16, LowerA)] /\ Len(s) = L
  BY <1>1, <1>2, <1>4, put_uintIs DEF HighFirst
<1>6. hex_to_str(v) = [k \in 1 .. L |-> DigitChar(q[L - k] % 16, UpperA)]
  BY <1>1, <1>2, UnsignedIs DEF hex_to_str, HighFirst
<1>7. ASSUME NEW k \in 1 .. L
      PROVE  /\ DigitChar(q[L - k] % 16, UpperA) \in Int
             /\ DigitChar(q[L - k] % 16, UpperA) = IF s[k] \in LowerA .. LowerA + 5 THEN s[k] - 32 ELSE s[k]
  <2>1. L - k \in 0 .. L
    BY <1>3
  <2>2. q[L - k] \in Nat
    BY <1>3, <2>1
  <2>3. PICK r \in 0 .. 15 : r = q[L - k] % 16
    <3>1. PICK n \in Nat : n = q[L - k]
      BY <2>2
    <3>2. PICK base \in Bases : base = 16
      BY <1>1
    <3>3. n % base \in Nat /\ n % base < base
      BY Division
    <3> QED BY <3>1, <3>2, <3>3
  <2>4. s[k] = DigitChar(r, LowerA)
    BY <1>5, <2>3, Zenon
  <2> QED BY <2>3, <2>4 DEF DigitChar, LowerA, UpperA, Zero
<1>8. Upper(s) = hex_to_str(v)
  BY <1>5, <1>6, <1>7, Zenon DEF Upper
<1>9. hex_to_str(v) \in [1 .. L -> Int]
  BY <1>6, <1>7, Zenon
<1> QED BY <1>3, <1>4, <1>8, <1>9

\* What C prints without flags, width and precision.
LEMMA PlainText ==
  ASSUME NEW d, Plain(d), NEW v, ArgumentOf(d, v)
  PROVE  /\ d.spec \in Signs \cup {Letter("u")} => v \in Int /\ PrintedByC(d, v) = intToString(v)
         /\ d.spec = Letter("x") => v \in Nat /\ PrintedByC(d, v) = put_uint(v, 16)
         /\ d.spec = Letter("X") => v \in Nat /\ PrintedByC(d, v) = hex_to_str(v)
         /\ d.spec = Letter("s") => v \in Seq(Int) /\ PrintedByC(d, v) = v
         /\ d.spec = Letter("c") => v \in Int /\ PrintedByC(d, v) = <<v % 256>>
         /\ d.spec = Percent => PrintedByC(d, v) = <<Percent>>
<1>1. d.precision = Absent /\ d.flags = Absent /\ d.width = Absent /\ ~NoDigits(d, v)
  BY DEF Plain, NoDigits
<1>2. /\ Numbers = {100, 105, 120, 88, 117} /\ Signs = {100, 105} /\ Hexes = {120, 88} /\ Percent = 37
      /\ Letter("s") = 115 /\ Letter("c") = 99 /\ Letter("u") = 117
      /\ Letter("x") = 120 /\ Letter("X") = 88
  BY SpecsAre, LettersAre DEF Percent
<1>3. PICK empty : empty = <<>>
  OBVIOUS
<1>4. empty \in Seq(Int) /\ \A s \in Seq(Int) : empty \o s = s
  BY <1>3, ConcatEmptySeq
<1>5. \A s \in Seq(Int) : Between(d, empty, s) = s
  BY <1>1, <1>4, PlainField
<1>6. ASSUME d.spec \in Signs \cup {Letter("u")} PROVE v \in Int /\ PrintedByC(d, v) = intToString(v)
  <2>1. v \in Int /\ (d.spec \in Signs \/ v >= 0)
    BY <1>2, <1>6 DEF ArgumentOf
  <2>2. d.spec \in Numbers /\ d.spec \notin Hexes /\ d.spec # 115 /\ d.spec # 99 /\ d.spec # 37
    BY <1>2, <1>6
  <2>3. PICK sign, digits : sign = (IF v < 0 THEN <<Minus>> ELSE <<>>) /\ digits = CNumber(d, v)
    OBVIOUS
  <2>4. PrintedByC(d, v) = Between(d, sign, digits)
    BY <1>1, <1>2, <2>2, <2>3 DEF PrintedByC
  <2>5. digits = intToString(AbsValue(v))
    BY <1>2, <2>2, <2>3 DEF CNumber
  <2>6. CASE v < 0
    <3>1. AbsValue(v) = -v /\ -v \in Nat
      BY <2>1, <2>6 DEF AbsValue
    <3>2. intToString(v) = <<Minus>> \o intToString(-v)
      BY <2>1, <2>6, NegativeText
    <3>3. digits \in Seq(Int) /\ sign \in Seq(Int)
      <4>1. intToString(-v) \in Seq(Int)
        BY <3>1, DecimalSame
      <4> QED BY <2>3, <2>5, <2>6, <3>1, <4>1 DEF Minus
    <3>4. Between(d, sign, digits) = sign \o digits
      BY <1>1, <3>3, PlainField
    <3> QED BY <2>1, <2>3, <2>4, <2>5, <2>6, <3>1, <3>2, <3>4
  <2>7. CASE ~(v < 0)
    <3>1. AbsValue(v) = v /\ v \in Nat
      BY <2>1, <2>7 DEF AbsValue
    <3>2. digits \in Seq(Int)
      BY <2>5, <3>1, DecimalSame
    <3> QED BY <1>3, <1>5, <2>1, <2>3, <2>4, <2>5, <2>7, <3>1, <3>2
  <2> QED BY <2>6, <2>7
<1>7. ASSUME d.spec \in Hexes
      PROVE  v \in Nat /\ PrintedByC(d, v) = IF d.spec = Letter("x") THEN put_uint(v, 16) ELSE hex_to_str(v)
  <2>1. v \in Nat /\ ~(v < 0) /\ d.spec \in Numbers /\ d.spec # 115 /\ d.spec # 99 /\ d.spec # 37
    BY <1>2, <1>7 DEF ArgumentOf
  <2>2. PICK digits : digits = IF d.spec = Letter("x") THEN put_uint(v, 16) ELSE hex_to_str(v)
    OBVIOUS
  <2>3. CNumber(d, v) = digits
    <3>1. CNumber(d, v) = IF d.spec = Letter("x") THEN put_uint(v, 16) ELSE Upper(put_uint(v, 16))
      BY <1>2, <1>7 DEF CNumber
    <3> QED BY <2>1, <2>2, <3>1, UpperIs, Zenon
  <2>4. PrintedByC(d, v) = Between(d, empty, digits)
    BY <1>1, <1>2, <1>3, <2>1, <2>3 DEF PrintedByC
  <2>5. digits \in Seq(Int)
    <3>1. 16 \in Bases
      BY DEF Bases
    <3>2. PICK L, q : Quotients(q, L, v, 16)
      BY <2>1, <3>1, QuotientsExist
    <3>3. put_uint(v, 16) \in Seq(Int) /\ hex_to_str(v) \in Seq(Int)
      BY <2>1, <3>1, <3>2, put_uintIs, UpperIs
    <3> QED BY <2>2, <3>3
  <2> QED BY <1>5, <2>1, <2>2, <2>4, <2>5
<1>8. ASSUME d.spec = Letter("s") PROVE v \in Seq(Int) /\ PrintedByC(d, v) = v
  <2>1. v \in Seq(Int) /\ d.spec \notin Numbers /\ d.spec # 99 /\ d.spec # 37
    BY <1>2, <1>8 DEF ArgumentOf
  <2>2. PrintedByC(d, v) = Between(d, empty, v)
    BY <1>1, <1>2, <1>3, <1>8, <2>1 DEF PrintedByC
  <2> QED BY <1>5, <2>1, <2>2
<1>9. ASSUME d.spec = Letter("c") PROVE v \in Int /\ PrintedByC(d, v) = <<v % 256>>
  <2>1. v \in Int /\ d.spec \notin Numbers /\ d.spec # 115 /\ d.spec # 37
    BY <1>2, <1>9 DEF ArgumentOf
  <2>2. PICK body : body = <<v % 256>>
    OBVIOUS
  <2>3. body \in Seq(Int)
    <3>1. v % 256 \in Int
      BY <2>1
    <3> QED BY <2>2, <3>1
  <2>4. PrintedByC(d, v) = Between(d, empty, body)
    BY <1>2, <1>3, <1>9, <2>1, <2>2 DEF PrintedByC
  <2> QED BY <1>5, <2>1, <2>2, <2>3, <2>4
<1>10. ASSUME d.spec = Percent PROVE PrintedByC(d, v) = <<Percent>>
  <2>1. d.spec \notin Numbers /\ d.spec # 115 /\ d.spec # 99
    BY <1>2, <1>10
  <2> QED BY <1>2, <1>10, <2>1 DEF PrintedByC
<1> QED BY <1>2, <1>6, <1>7, <1>8, <1>9, <1>10

\* And what kvprintf does: 'X' with small letters.
LEMMA PlainFieldIs ==
  ASSUME NEW d \in Directives, Plain(d), NEW v, ArgumentOf(d, v)
  PROVE  /\ d.spec \in Signs \cup {Letter("u")} => v \in Int /\ FieldOf(d, v) = intToString(v)
         /\ d.spec \in Hexes => v \in Nat /\ FieldOf(d, v) = put_uint(v, 16)
         /\ d.spec = Letter("s") => v \in Seq(Int) /\ FieldOf(d, v) = v
         /\ d.spec = Letter("c") => v \in Int /\ FieldOf(d, v) = <<v % 256>>
         /\ d.spec = Percent => FieldOf(d, v) = <<Percent>>
<1>1. d.precision = Absent /\ d.flags = <<>> /\ d.width = Absent /\ d.flags # <<Zero>>
  <2>1. <<>> # <<Zero>>
    OBVIOUS
  <2> QED BY <2>1 DEF Plain, Absent
<1>2. /\ Signs = {100, 105} /\ Hexes = {120, 88} /\ Percent = 37 /\ Letter("s") = 115 /\ Letter("c") = 99
      /\ Letter("u") = 117 /\ Letter("p") = 112 /\ Letter("x") = 120 /\ Letter("X") = 88
  BY SpecsAre, LettersAre DEF Percent
<1>3. d.spec \notin {112, 88} => FieldOf(d, v) = PrintedByC(d, v)
  BY <1>1, <1>2 DEF FieldOf, OwnWay
<1>4. ASSUME d.spec = 88 PROVE v \in Nat /\ FieldOf(d, v) = put_uint(v, 16)
  <2>1. v \in Nat /\ ~(v < 0)
    BY <1>2, <1>4 DEF ArgumentOf
  <2>2. PICK e, digits, empty : e = [d EXCEPT !.precision = Absent] /\ digits = put_uint(v, 16) /\ empty = <<>>
    OBVIOUS
  <2>3. e.flags = Absent /\ e.width = Absent
    BY <1>1, <2>2 DEF Directives, Absent
  <2>4. CNumber([d EXCEPT !.spec = Letter("x")], v) = digits
    <3>1. [d EXCEPT !.spec = Letter("x")].spec = Letter("x")
      BY DEF Directives
    <3> QED BY <2>2, <3>1, LettersAre DEF CNumber
  <2>5. digits \in Seq(Int)
    <3>1. 16 \in Bases
      BY DEF Bases
    <3>2. PICK L, q : Quotients(q, L, v, 16)
      BY <2>1, <3>1, QuotientsExist
    <3> QED BY <2>1, <2>2, <3>1, <3>2, put_uintIs
  <2>6. empty \in Seq(Int) /\ empty \o digits = digits
    BY <2>2, <2>5, ConcatEmptySeq
  <2>7. OwnField(d, v) = Between(e, empty, empty \o (empty \o digits))
    <3>1. d.spec # Letter("p") /\ d.spec = Letter("X")
      BY <1>2, <1>4
    <3> QED BY <1>1, <2>1, <2>2, <2>4, <3>1, Zenon DEF OwnField
  <2>8. Between(e, empty, digits) = empty \o digits
    BY <2>3, <2>5, <2>6, PlainField
  <2>9. FieldOf(d, v) = OwnField(d, v)
    BY <1>2, <1>4 DEF FieldOf, OwnWay
  <2> QED BY <2>1, <2>2, <2>6, <2>7, <2>8, <2>9
<1>5. /\ d.spec \in Signs \cup {Letter("u")} => v \in Int /\ PrintedByC(d, v) = intToString(v)
      /\ d.spec = Letter("x") => v \in Nat /\ PrintedByC(d, v) = put_uint(v, 16)
      /\ d.spec = Letter("s") => v \in Seq(Int) /\ PrintedByC(d, v) = v
      /\ d.spec = Letter("c") => v \in Int /\ PrintedByC(d, v) = <<v % 256>>
      /\ d.spec = Percent => PrintedByC(d, v) = <<Percent>>
  BY PlainText
<1> QED BY <1>2, <1>3, <1>4, <1>5

\* Text without newlines goes to the debug port as it is.
LEMMA DebugWholeText ==
  ASSUME NEW field \in Seq(Lineless)
  PROVE  <<LowerA>> \o field \o <<Space>> \o <<Zero + 5>> = DebugText(<<LowerA>> \o field \o <<Space, Zero + 5>>)
<1>1. PICK a, b, c \in Lineless : a = LowerA /\ b = Space /\ c = Zero + 5
  BY DEF Lineless, LowerA, Space, Zero
<1>2. PICK t : t = <<a>> \o field
  OBVIOUS
<1>3. t \in Seq(Lineless)
  BY <1>2
<1>4. t \o <<b>> \o <<c>> = t \o <<b, c>>
  <2>1. Append(t, b) \o <<c>> = t \o <<b, c>>
    BY <1>3
  <2>2. Append(t, b) = t \o <<b>>
    BY <1>3
  <2> QED BY <2>1, <2>2
<1>5. PICK u : u = t \o <<b, c>>
  OBVIOUS
<1>6. u \in Seq(Lineless)
  <2>1. <<b, c>> \in Seq(Lineless)
    OBVIOUS
  <2> QED BY <1>3, <1>5, <2>1
<1>7. DebugText(u) = u
  BY <1>6, LinelessText
<1> QED BY <1>1, <1>2, <1>4, <1>5, <1>7

LEMMA DecimalLineless ==
  ASSUME NEW v \in Int
  PROVE  /\ intToString(v) \in Seq(Lineless)
         /\ intToString(v) = IF v < 0 THEN <<Minus>> \o put_uint(-v, 10) ELSE put_uint(v, 10)
<1>1. 10 \in Bases
  BY DEF Bases
<1>2. CASE v < 0
  <2>1. -v \in Nat
    BY <1>2
  <2>2. PICK m \in Nat : m = -v
    BY <2>1
  <2>3. put_uint(m, 10) = intToString(m) /\ put_uint(m, 10) \in Seq(Lineless)
    BY <1>1, DecimalSame, DigitsLineless
  <2>4. intToString(v) = <<Minus>> \o intToString(m)
    BY <1>2, <2>2, NegativeText
  <2>5. <<Minus>> \o put_uint(m, 10) \in Seq(Lineless)
    <3>1. <<Minus>> \in Seq(Lineless)
      BY DEF Minus, Lineless
    <3> QED BY <2>3, <3>1
  <2> QED BY <1>2, <2>2, <2>3, <2>4, <2>5
<1>3. CASE ~(v < 0)
  <2>1. v \in Nat
    BY <1>3
  <2>2. put_uint(v, 10) = intToString(v) /\ put_uint(v, 10) \in Seq(Lineless)
    BY <1>1, <2>1, DecimalSame, DigitsLineless
  <2> QED BY <1>3, <2>2
<1> QED BY <1>2, <1>3

\* A character is sent as it is, but for the newline.
LEMMA DebugCharacter ==
  ASSUME NEW c \in Int, NEW s, s = <<c>>
  PROVE  <<LowerA>> \o DebugText(s) \o <<Space>> \o <<Zero + 5>> = DebugText(<<LowerA>> \o s \o <<Space, Zero + 5>>)
<1>1. CASE c = 10
  <2>1. LowerA = 97 /\ Space = 32 /\ Zero + 5 = 53
    BY DEF LowerA, Space, Zero
  <2>2. DebugText(s) = <<13, 10>> /\ s = <<10>>
    BY <1>1, Newline
  <2>3. DebugText(<<97>> \o <<10>> \o <<32, 53>>) = <<97>> \o <<13, 10>> \o <<32>> \o <<53>>
    BY Newline
  <2> QED BY <2>1, <2>2, <2>3
<1>2. CASE c # 10
  <2>1. s \in Seq(Lineless)
    BY <1>2 DEF Lineless
  <2>2. DebugText(s) = s
    BY <2>1, LinelessText
  <2> QED BY <2>1, <2>2, DebugWholeText
<1> QED BY <1>1, <1>2

LEMMA DebugRight ==
  ASSUME NEW d \in Directives, Plain(d), d.spec # Letter("p"),
         NEW slot, NEW args, args = IF d.spec = Percent THEN << 5 >> ELSE <<slot, 5>>,
         NEW x, d.spec # Percent => ArgumentOf(d, x) /\ Worked(d, x, IntArg(d.spec, slot)),
         d.spec = Letter("s") => x \in Seq(Lineless)
  PROVE  qemu_debug_printf(FormatOf(d), args).text = DebugText(Line(FieldOf(d, x)))
<1>1. Known(d)
  <2>1. d.flags = Absent /\ d.length = Absent
    BY DEF Plain
  <2>2. Absent # <<Zero, Minus>>
    BY DEF Absent
  <2> QED BY <2>1, <2>2 DEF Known
<1>2. PICK fmt : fmt = FormatOf(d)
  OBVIOUS
<1>3. PICK c, a : c = d.spec /\ a = IF d.spec = Percent THEN NUL ELSE IntArg(d.spec, slot)
  OBVIOUS
<1>4. qemu_debug_printf(fmt, args).text = <<LowerA>> \o DebugConverted(c, a) \o <<Space>> \o <<Zero + 5>>
  BY <1>1, <1>2, <1>3, DebugRun
<1>6. /\ Numbers = {100, 105, 120, 88, 117} /\ Signs = {100, 105} /\ Hexes = {120, 88} /\ Percent = 37
      /\ Letter("s") = 115 /\ Letter("c") = 99 /\ Letter("u") = 117 /\ Letter("p") = 112 /\ Letter("X") = 88
  BY SpecsAre, LettersAre DEF Percent
<1>5. c # 37 => ArgumentOf(d, x)
  BY <1>3, <1>6
<1>14. c # 37 /\ c # 99 => a = x
  BY <1>3, <1>6 DEF Worked
<1>7. c \in {100, 105, 117} \/ c \in {120, 88} \/ c = 115 \/ c = 99 \/ c = 37
  <2>1. d.spec \in {100, 105, 120, 88, 117, 99, 115, 112, 37} /\ d.spec # 112
    BY <1>1, <1>6, PartsAre, SpecsAre DEF SpecsRead
  <2> QED BY <1>1, <1>3, <1>6, <2>1
<1>8. PICK field : field = FieldOf(d, x)
  OBVIOUS
<1>9. CASE c \in {100, 105, 117}
  <2>1. d.spec \in Signs \cup {Letter("u")} /\ a = x
    BY <1>3, <1>6, <1>9, <1>14
  <2>2. x \in Int /\ field = intToString(x)
    BY <1>5, <1>8, <1>9, <2>1, PlainFieldIs
  <2>3. field \in Seq(Lineless) /\ field = IF x < 0 THEN <<Minus>> \o put_uint(-x, 10) ELSE put_uint(x, 10)
    BY <2>2, DecimalLineless
  <2>4. DebugConverted(c, a) = field
    <3>1. CASE c \in Signs
      <4>1. c # 117 /\ c \notin Hexes /\ c # 115 /\ c # 99 /\ c # 37
        BY <1>6, <3>1
      <4>2. DebugConverted(c, a) = IF a < 0 THEN <<Minus>> \o put_uint(-a, 10) ELSE put_uint(a, 10)
        BY <1>6, <3>1, <4>1 DEF DebugConverted
      <4> QED BY <2>1, <2>3, <4>2
    <3>2. CASE c = 117
      <4>1. c \notin Signs /\ c \notin Hexes /\ c # 115 /\ c # 99 /\ c # 37
        BY <1>6, <3>2
      <4>2. DebugConverted(c, a) = put_uint(a, 10)
        BY <1>6, <3>2, <4>1 DEF DebugConverted
      <4>3. ~(x < 0)
        <5>1. x \in Nat
          BY <1>3, <1>5, <1>6, <3>2 DEF ArgumentOf
        <5> QED BY <5>1
      <4> QED BY <2>1, <2>3, <4>2, <4>3
    <3> QED BY <1>6, <1>9, <3>1, <3>2
  <2> QED BY <1>2, <1>4, <1>8, <2>3, <2>4, DebugWholeText DEF Line
<1>10. CASE c \in {120, 88}
  <2>1. d.spec \in Hexes /\ a = x /\ c \notin Signs /\ c \in Hexes /\ c # 117 /\ c # 115 /\ c # 99 /\ c # 37
    BY <1>3, <1>6, <1>10, <1>14
  <2>2. x \in Nat /\ field = put_uint(x, 16)
    BY <1>5, <1>8, <1>10, <2>1, PlainFieldIs
  <2>3. field \in Seq(Lineless)
    <3>1. 16 \in Bases
      BY DEF Bases
    <3> QED BY <2>2, <3>1, DigitsLineless
  <2>4. DebugConverted(c, a) = put_uint(a, 16)
    BY <1>6, <2>1 DEF DebugConverted
  <2> QED BY <1>2, <1>4, <1>8, <2>1, <2>2, <2>3, <2>4, DebugWholeText DEF Line
<1>11. CASE c = 115
  <2>1. d.spec = Letter("s") /\ a = x /\ c \notin Signs /\ c \notin Hexes /\ c # 117 /\ c # 99 /\ c # 37
    BY <1>3, <1>6, <1>11, <1>14
  <2>2. x \in Seq(Lineless) /\ field = x
    BY <1>5, <1>8, <1>11, <2>1, PlainFieldIs
  <2>3. DebugText(x) = x
    BY <2>2, LinelessText
  <2>4. DebugConverted(c, a) = DebugText(a)
    BY <1>6, <1>11, <2>1 DEF DebugConverted
  <2> QED BY <1>2, <1>4, <1>8, <2>1, <2>2, <2>3, <2>4, DebugWholeText, ZenonT(40) DEF Line
<1>12. CASE c = 99
  <2>1. d.spec = Letter("c") /\ c \notin Signs /\ c \notin Hexes /\ c # 117 /\ c # 115 /\ c # 37
    BY <1>3, <1>6, <1>12
  <2>2. x \in Int /\ field = <<x % 256>>
    BY <1>5, <1>8, <1>12, <2>1, PlainFieldIs
  <2>3. PICK m : m = x % 256
    OBVIOUS
  <2>4. m \in Int /\ field = <<m>>
    BY <2>2, <2>3
  <2>5. DebugConverted(c, a) = DebugText(field)
    <3>1. DebugConverted(c, a) = DebugText(<<a % 256>>)
      BY <1>6, <1>12, <2>1 DEF DebugConverted
    <3>2. a % 256 = x % 256
      BY <1>3, <1>6, <1>12, <2>1 DEF Worked
    <3> QED BY <2>2, <3>1, <3>2, Zenon
  <2> QED BY <1>2, <1>4, <1>8, <2>4, <2>5, DebugCharacter DEF Line
<1>13. CASE c = 37
  <2>1. d.spec = Percent /\ c \notin Signs /\ c \notin Hexes /\ c # 117 /\ c # 115 /\ c # 99 /\ c = Percent
    BY <1>3, <1>6, <1>13
  <2>2. field = <<Percent>>
    <3>1. d.spec # Letter("X") /\ d.spec # Letter("p") /\ d.spec \notin Numbers /\ d.spec # Letter("s") /\ d.spec # Letter("c")
      BY <1>3, <1>6, <1>13
    <3> QED BY <1>8, <2>1, <3>1 DEF FieldOf, OwnWay, PrintedByC
  <2>3. field \in Seq(Lineless)
    BY <1>6, <2>2 DEF Lineless
  <2>4. DebugConverted(c, a) = <<Percent>>
    BY <1>6, <2>1 DEF DebugConverted
  <2> QED BY <1>2, <1>4, <1>8, <2>2, <2>3, <2>4, DebugWholeText DEF Line
<1> QED BY <1>7, <1>9, <1>10, <1>11, <1>12, <1>13

-----------------------------------------------------------------------------
(* kprintf of vga.c *)

\* A state of the loop, with the colours in use.
Ink(at, text, fetched, colour) == [at |-> at, text |-> text, fetched |-> fetched, colour |-> colour]

LEMMA ColourLetterTurn ==
  ASSUME NEW fmt, NEW stack, NEW at, NEW text, NEW fetched, NEW colour, fmt[at] # LessThan, fmt[at] # Percent
  PROVE  kprintfTurn(fmt, stack, Ink(at, text, fetched, colour))
           = Ink(at + 1, Append(text, <<fmt[at], colour>>), fetched, colour)
<1>1. PICK s : s = Ink(at, text, fetched, colour)
  OBVIOUS
<1>2. s.at = at /\ s.text = text /\ s.colour = colour
  BY <1>1 DEF Ink
<1>3. kprintfTurn(fmt, stack, s)
        = [s EXCEPT !.at = s.at + 1, !.text = Append(s.text, <<fmt[s.at], s.colour>>)]
  BY <1>2 DEF kprintfTurn
<1> QED BY <1>1, <1>2, <1>3 DEF Ink

LEMMA ColourDirectiveTurn ==
  ASSUME NEW fmt, NEW stack, NEW at, NEW text, NEW fetched, NEW colour, fmt[at] = Percent,
         NEW end, end = SkipDigits(fmt, at + 1), NEW c, c = fmt[end], c \in VgaTakes,
         NEW w, w = Number(From(fmt, at + 1))
  PROVE  kprintfTurn(fmt, stack, Ink(at, text, fetched, colour))
           = Ink(end + 1, text \o Coloured(VgaConverted(c, w, IntArg(c, stack[fetched + 1])), colour), fetched + 1, colour)
<1>1. PICK s : s = Ink(at, text, fetched, colour)
  OBVIOUS
<1>2. s.at = at /\ s.text = text /\ s.fetched = fetched /\ s.colour = colour
  BY <1>1 DEF Ink
<1>3. fmt[s.at] # LessThan /\ fmt[s.at] = Percent
  BY <1>2 DEF LessThan, Percent
<1>4. kprintfTurn(fmt, stack, s)
        = [s EXCEPT !.at = end + 1,
                    !.text = s.text \o Coloured(VgaConverted(c, w, IntArg(c, stack[s.fetched + 1])), s.colour),
                    !.fetched = s.fetched + 1]
  BY <1>2, <1>3 DEF kprintfTurn
<1> QED BY <1>1, <1>2, <1>4 DEF Ink

\* "<(1e)>" sets the colour 30.
LEMMA ColourTurn ==
  ASSUME NEW fmt \in Seq(1 .. 255), Len(fmt) >= 6, NEW stack, NEW text, NEW fetched, NEW colour,
         fmt[1] = LessThan, fmt[2] = Open, fmt[3] = Zero + 1, fmt[4] = LowerA + 4, fmt[5] = Close, fmt[6] = Greater
  PROVE  kprintfTurn(fmt, stack, Ink(1, text, fetched, colour)) = Ink(7, text, fetched, 30)
<1>1. PICK s : s = Ink(1, text, fetched, colour)
  OBVIOUS
<1>2. s.at = 1
  BY <1>1 DEF Ink
<1>3. PICK L \in Nat : L = Len(fmt)
  BY LenProperties
<1>4. At(fmt, 2) = Open
  <2>1. 2 \in 1 .. Len(fmt)
    BY <1>3
  <2> QED BY <2>1, AtIs
<1>5. SubSeq(fmt, 5, 6) = <<Close, Greater>>
  <2>1. PICK m, n : m = 5 /\ n = 6
    OBVIOUS
  <2>2. m \in 1 .. Len(fmt) + 1 /\ n \in m - 1 .. Len(fmt) /\ n - m + 1 = 2 /\ m + 1 - 1 = 5 /\ m + 2 - 1 = 6
    BY <1>3, <2>1
  <2>3. PICK t : t = <<Close, Greater>>
    OBVIOUS
  <2>4. t \in Seq(1 .. 255) /\ Len(t) = 2 /\ t[1] = Close /\ t[2] = Greater
    BY <2>3 DEF Close, Greater
  <2>5. \A i \in 1 .. n - m + 1 : t[i] = fmt[m + i - 1]
    <3>1. \A i \in 1 .. 2 : i = 1 \/ i = 2
      OBVIOUS
    <3> QED BY <2>2, <2>4, <3>1
  <2>6. t = SubSeq(fmt, m, n)
    <3>1. Len(t) = n - m + 1
      BY <2>2, <2>4
    <3> QED BY <2>2, <2>4, <2>5, <3>1, SubSeqUnique
  <2> QED BY <2>1, <2>3, <2>6
<1>6. parse_color_code(fmt[3], fmt[4]) = 30
  <2>1. HexValue(49) = 1
    BY DEF HexValue, LowerA, UpperA, Zero, Digit
  <2>2. HexValue(101) = 14
    BY DEF HexValue, LowerA
  <2>3. fmt[3] = 49 /\ fmt[4] = 101
    BY DEF Zero, LowerA
  <2> QED BY <2>1, <2>2, <2>3 DEF parse_color_code
<1>7. kprintfTurn(fmt, stack, s) = [s EXCEPT !.at = s.at + 6, !.colour = 30]
  <2>1. 1 + 1 = 2 /\ 1 + 4 = 5 /\ 1 + 5 = 6 /\ 1 + 2 = 3 /\ 1 + 3 = 4
    OBVIOUS
  <2>2. /\ fmt[s.at] = LessThan /\ At(fmt, s.at + 1) = Open /\ SubSeq(fmt, s.at + 4, s.at + 5) = <<Close, Greater>>
        /\ parse_color_code(fmt[s.at + 2], fmt[s.at + 3]) = 30
    BY <1>2, <1>4, <1>5, <1>6, <2>1, Zenon
  <2> QED BY <2>2, Zenon DEF kprintfTurn
<1>8. PICK r : r = [s EXCEPT !.at = s.at + 6, !.colour = 30]
  OBVIOUS
<1>9. r = Ink(7, text, fetched, 30)
  <2>1. PICK seven, c : seven = s.at + 6 /\ c = 30
    OBVIOUS
  <2>2. r = [s EXCEPT !.at = seven, !.colour = c]
    BY <1>8, <2>1
  <2>3. r = Ink(seven, text, fetched, c)
    BY <1>1, <2>2 DEF Ink
  <2>4. seven = 7
    BY <1>2, <2>1
  <2> QED BY <2>1, <2>3, <2>4
<1> QED BY <1>1, <1>7, <1>8, <1>9

\* The format of a directive in colour.
LEMMA ColourFormatIs ==
  ASSUME NEW d \in Directives, Plain(d), NEW fmt, fmt = Blue \o FormatOf(d)
  PROVE  /\ fmt \in Seq(1 .. 255) /\ Len(fmt) = 12
         /\ fmt[1] = LessThan /\ fmt[2] = Open /\ fmt[3] = Zero + 1 /\ fmt[4] = LowerA + 4
         /\ fmt[5] = Close /\ fmt[6] = Greater
         /\ fmt[7] = LowerA /\ fmt[8] = Percent /\ fmt[9] = d.spec
         /\ fmt[10] = Space /\ fmt[11] = Percent /\ fmt[12] = Letter("d")
<1>1. Known(d)
  <2>1. d.flags = Absent /\ d.length = Absent
    BY DEF Plain
  <2>2. Absent # <<Zero, Minus>>
    BY DEF Absent
  <2> QED BY <2>1, <2>2 DEF Known
<1>2. PICK b : b = FormatOf(d)
  OBVIOUS
<1>3. PICK n : n = Len(b)
  OBVIOUS
<1>4. /\ b \in Seq(1 .. 255) /\ n = 6 /\ b[1] = LowerA /\ b[2] = Percent /\ b[3] = d.spec
      /\ b[4] = Space /\ b[5] = Percent /\ b[6] = Letter("d")
  <2>1. /\ b \in Seq(1 .. 255) /\ b[1] = LowerA /\ b[2] = Percent /\ n = 6 /\ b[3] = d.spec
        /\ b[n - 2] = Space /\ b[n - 1] = Percent
    BY <1>1, <1>2, <1>3, FormatIs
  <2>2. b[n] = Letter("d")
    <3>1. Stands(b, n, Absent, Absent, Absent, Absent, Letter("d"), n)
      BY <1>1, <1>2, <1>3, FormatIs
    <3> QED BY <3>1 DEF Stands
  <2>3. 6 - 2 = 4 /\ 6 - 1 = 5
    OBVIOUS
  <2> QED BY <2>1, <2>2, <2>3
<1>5. PICK a : a = Blue
  OBVIOUS
<1>6. /\ a \in Seq(1 .. 255) /\ Len(a) = 6 /\ a[1] = LessThan /\ a[2] = Open /\ a[3] = Zero + 1
      /\ a[4] = LowerA + 4 /\ a[5] = Close /\ a[6] = Greater
  BY <1>5 DEF Blue, LessThan, Open, Zero, LowerA, Close, Greater
<1>7. /\ fmt \in Seq(1 .. 255) /\ Len(fmt) = Len(a) + Len(b)
      /\ \A i \in 1 .. Len(a) : fmt[i] = a[i]
      /\ \A i \in 1 .. Len(b) : fmt[Len(a) + i] = b[i]
  <2>1. fmt = a \o b /\ a \in Seq(1 .. 255) /\ b \in Seq(1 .. 255)
    BY <1>2, <1>4, <1>5, <1>6
  <2> QED BY <2>1, JoinIs
<1>8. /\ Len(fmt) = 6 + 6 /\ \A i \in 1 .. 6 : fmt[i] = a[i] /\ fmt[6 + i] = b[i]
  BY <1>3, <1>4, <1>6, <1>7
<1>9. /\ 6 + 6 = 12 /\ 6 + 1 = 7 /\ 6 + 2 = 8 /\ 6 + 3 = 9 /\ 6 + 4 = 10 /\ 6 + 5 = 11
      /\ 1 \in 1 .. 6 /\ 2 \in 1 .. 6 /\ 3 \in 1 .. 6 /\ 4 \in 1 .. 6 /\ 5 \in 1 .. 6 /\ 6 \in 1 .. 6
  OBVIOUS
<1>10. fmt[7] = b[1] /\ fmt[8] = b[2] /\ fmt[9] = b[3] /\ fmt[10] = b[4] /\ fmt[11] = b[5] /\ fmt[12] = b[6]
  BY <1>8, <1>9
<1>11. fmt[1] = a[1] /\ fmt[2] = a[2] /\ fmt[3] = a[3] /\ fmt[4] = a[4] /\ fmt[5] = a[5] /\ fmt[6] = a[6]
  BY <1>8, <1>9
<1> QED BY <1>4, <1>6, <1>7, <1>8, <1>9, <1>10, <1>11, Zenon

\* A directive that has nothing to read between '%' and the conversion.
LEMMA BareDirective ==
  ASSUME NEW fmt \in Seq(1 .. 255), NEW p \in 1 .. Len(fmt), ~Digit(fmt[p])
  PROVE  SkipDigits(fmt, p) = p /\ Number(From(fmt, p)) = 0
<1>1. PICK L \in Nat : L = Len(fmt)
  BY LenProperties
<1>2. PICK w : w = <<>>
  OBVIOUS
<1>3. w \in Seq(Zero .. Zero + 9) /\ Len(w) = 0
  BY <1>2
<1>4. p + Len(w) = p /\ p <= Len(fmt) /\ Len(w) <= 2 /\ Standing(fmt, p, w)
  BY <1>1, <1>3 DEF Standing
<1>5. p + Len(w) <= Len(fmt) /\ ~Digit(fmt[p + Len(w)])
  BY <1>4
<1>6. SkipDigits(fmt, p) = p + Len(w) /\ Number(From(fmt, p)) = Number(w)
  BY <1>3, <1>4, <1>5, NumberFrom
<1> QED BY <1>2, <1>4, <1>6, NumberOfNothing

LEMMA ColouredJoin ==
  ASSUME NEW a \in Seq(Int), NEW b \in Seq(Int), NEW colour
  PROVE  Coloured(a \o b, colour) = Coloured(a, colour) \o Coloured(b, colour)
<1>1. PICK s : s = a \o b
  OBVIOUS
<1>2. PICK m \in Nat, n \in Nat : m = Len(a) /\ n = Len(b)
  BY LenProperties
<1>3. /\ Len(s) = m + n /\ \A i \in 1 .. m : s[i] = a[i]
      /\ \A i \in 1 .. n : s[m + i] = b[i]
  BY <1>1, <1>2, JoinIs
<1>4. PICK S : S = {<<x, colour>> : x \in Int}
  OBVIOUS
<1>5. PICK A, B, T : A = Coloured(a, colour) /\ B = Coloured(b, colour) /\ T = Coloured(s, colour)
  OBVIOUS
<1>6. /\ A = [i \in 1 .. m |-> <<a[i], colour>>] /\ B = [i \in 1 .. n |-> <<b[i], colour>>]
      /\ T = [i \in 1 .. m + n |-> <<s[i], colour>>]
  BY <1>2, <1>3, <1>5, Zenon DEF Coloured
<1>7. \A x \in Int : <<x, colour>> \in S
  BY <1>4
<1>8. \A i \in 1 .. m : a[i] \in Int
  BY <1>2, ElementOfSeq
<1>9. \A i \in 1 .. n : b[i] \in Int
  BY <1>2, ElementOfSeq
<1>10. A \in Seq(S) /\ Len(A) = m
  <2>1. A \in [1 .. m -> S]
    BY <1>6, <1>7, <1>8, Zenon
  <2> QED BY <2>1
<1>11. B \in Seq(S) /\ Len(B) = n
  <2>1. B \in [1 .. n -> S]
    BY <1>6, <1>7, <1>9, Zenon
  <2> QED BY <2>1
<1>12. PICK J : J = A \o B
  OBVIOUS
<1>13. /\ J \in Seq(S) /\ Len(J) = m + n /\ \A i \in 1 .. m : J[i] = A[i]
       /\ \A i \in 1 .. n : J[m + i] = B[i]
  <2>1. A \in Seq(S) /\ B \in Seq(S)
    BY <1>10, <1>11
  <2>2. /\ A \o B \in Seq(S) /\ Len(A \o B) = Len(A) + Len(B)
        /\ \A i \in 1 .. Len(A) : (A \o B)[i] = A[i]
        /\ \A i \in 1 .. Len(B) : (A \o B)[Len(A) + i] = B[i]
    BY <2>1, JoinIs
  <2> QED BY <1>10, <1>11, <1>12, <2>2
<1>14. ASSUME NEW i \in 1 .. m + n PROVE J[i] = <<s[i], colour>>
  <2>1. CASE i <= m
    <3>1. i \in 1 .. m
      BY <2>1
    <3>2. A[i] = <<a[i], colour>> /\ J[i] = A[i] /\ s[i] = a[i]
      BY <1>3, <1>6, <1>13, <3>1
    <3> QED BY <3>2, Zenon
  <2>2. CASE ~(i <= m)
    <3>1. PICK k \in 1 .. n : i = m + k
      <4>1. i - m \in 1 .. n /\ i = m + (i - m)
        BY <2>2
      <4> QED BY <4>1
    <3>2. B[k] = <<b[k], colour>> /\ J[m + k] = B[k] /\ s[m + k] = b[k]
      BY <1>3, <1>6, <1>13, <3>1
    <3> QED BY <3>1, <3>2, Zenon
  <2> QED BY <2>1, <2>2
<1>15. J = T
  <2>1. J = [i \in 1 .. m + n |-> J[i]]
    BY <1>13
  <2> QED BY <1>6, <1>14, <2>1, Zenon
<1> QED BY <1>1, <1>5, <1>12, <1>15

\* kprintf prints 'u' as 'd' and 'x' as 'X'.
VgaSpec(c) == IF c = Letter("u") THEN Letter("d") ELSE IF c = Letter("x") THEN Letter("X") ELSE c

\* The lower half of a slot, as it is fetched and as it is printed.
LEMMA HalfIs ==
  ASSUME NEW slot \in Nat, NEW c
  PROVE  /\ slot % IntRange \in Nat /\ Half(c, slot) \in Int
         /\ c \in Hexes => Half(c, slot) = slot % IntRange
         /\ c \notin Hexes => Half(c, slot) = AsSigned(slot % IntRange, IntRange)
         /\ Half(c, slot) % 256 = (slot % IntRange) % 256
<1>1. PICK R \in Nat \ {0} : R = IntRange /\ R % 256 = 0
  BY RangesAre
<1>2. PICK n \in Nat : n = slot % R
  BY <1>1, HeldByRange
<1>3. Half(c, slot) = IF c \notin Hexes /\ 2 * n >= R THEN n - R ELSE n
  BY <1>1, <1>2, Zenon DEF Half
<1>4. (n - R) % 256 = n % 256
  <2>1. PICK g \in Int : R = 256 * g
    BY <1>1
  <2>2. n - R = n - 256 * g
    BY <2>1
  <2> QED BY <1>2, <2>1, <2>2
<1>5. (2 * n >= R) <=> ~(2 * n < R)
  BY <1>1, <1>2
<1>6. c \notin Hexes => Half(c, slot) = AsSigned(n, R)
  BY <1>3, <1>5, Zenon DEF AsSigned
<1>7. Half(c, slot) = n \/ Half(c, slot) = n - R
  BY <1>3
<1>8. c \in Hexes => Half(c, slot) = n
  BY <1>3
<1>9. Half(c, slot) \in Int
  BY <1>2, <1>7
<1>10. Half(c, slot) % 256 = n % 256
  BY <1>4, <1>7, Zenon
<1> QED BY <1>1, <1>2, <1>6, <1>8, <1>9, <1>10

\* A field of kprintf, without a width.
LEMMA VgaFieldIs ==
  ASSUME NEW d, Plain(d), NEW c, d.spec = VgaSpec(c), c \in VgaTakes \ {Letter("s")}, NEW slot \in Nat
  PROVE  /\ VgaConverted(c, 0, IntArg(c, slot)) = PrintedByC(d, Half(c, slot))
         /\ PrintedByC(d, Half(c, slot)) \in Seq(Int)
<1>1. /\ VgaTakes = {100, 117, 99, 115, 120, 88} /\ Signs = {100, 105} /\ Hexes = {120, 88}
      /\ Letter("s") = 115 /\ Letter("c") = 99 /\ Letter("u") = 117 /\ Letter("d") = 100
      /\ Letter("x") = 120 /\ Letter("X") = 88
  BY SpecsAre, LettersAre
<1>2. c \in {100, 117} \/ c \in Hexes \/ c = 99
  BY <1>1
<1>3. PICK n \in Nat : n = slot % IntRange
  BY HalfIs
<1>4. PICK v : v = Half(c, slot)
  OBVIOUS
<1>5. /\ v \in Int /\ v % 256 = n % 256
      /\ c \in Hexes => v = n
      /\ c \notin Hexes => v = AsSigned(n, IntRange)
  BY <1>3, <1>4, HalfIs
<1>6. IntArg(c, slot) = IF c \in Signs THEN AsSigned(n, IntRange) ELSE n
  BY <1>1, <1>3, Zenon DEF IntArg
<1>7. CASE c \in {100, 117}
  <2>1. /\ d.spec = 100 /\ d.spec \in Signs /\ d.spec \in Signs \cup {Letter("u")} /\ c \notin Hexes
        /\ c # Letter("s") /\ c # Letter("c")
    BY <1>1, <1>7 DEF VgaSpec
  <2>2. ArgumentOf(d, v)
    BY <1>5, <2>1 DEF ArgumentOf
  <2>3. PrintedByC(d, v) = intToString(v)
    BY <2>1, <2>2, PlainText
  <2>4. VgaConverted(c, 0, IntArg(c, slot)) = intToString(v)
    <3>1. CASE c = 100
      <4>1. IntArg(c, slot) = v /\ c = Letter("d") /\ c # Letter("u")
        BY <1>1, <1>5, <1>6, <2>1, <3>1
      <4> QED BY <2>1, <4>1 DEF VgaConverted
    <3>2. CASE c = 117
      <4>1. IntArg(c, slot) = n /\ c = Letter("u") /\ c # Letter("d") /\ v = AsSigned(n, IntRange)
        BY <1>1, <1>5, <1>6, <2>1, <3>2
      <4> QED BY <2>1, <4>1 DEF VgaConverted
    <3> QED BY <1>7, <3>1, <3>2
  <2>5. intToString(v) \in Seq(Int)
    <3>1. intToString(v) \in Seq(Lineless)
      BY <1>5, DecimalLineless
    <3> QED BY <3>1 DEF Lineless
  <2> QED BY <1>4, <2>3, <2>4, <2>5
<1>8. CASE c \in Hexes
  <2>1. /\ d.spec = Letter("X") /\ d.spec # Letter("s") /\ d.spec \notin Signs \cup {Letter("c")}
        /\ c \notin Signs /\ c \notin {Letter("d"), Letter("u")} /\ c # Letter("s") /\ c # Letter("c")
    BY <1>1, <1>8 DEF VgaSpec
  <2>2. v = n /\ IntArg(c, slot) = n
    BY <1>5, <1>6, <1>8, <2>1
  <2>3. ArgumentOf(d, v)
    BY <1>3, <2>1, <2>2 DEF ArgumentOf
  <2>4. PICK s : s = hex_to_str(n)
    OBVIOUS
  <2>5. PrintedByC(d, v) = s /\ s \in Seq(Int) /\ Len(s) \in Nat
    <3>1. PrintedByC(d, v) = hex_to_str(v)
      BY <2>1, <2>3, PlainText
    <3> QED BY <1>3, <2>2, <2>4, <3>1, UpperIs, LenProperties
  <2>6. Repeat(Zero, 0 - Len(s)) = <<>>
    <3>1. 0 - Len(s) \in Int /\ 0 - Len(s) <= 0
      BY <2>5
    <3> QED BY <3>1, RepeatNothing
  <2>7. VgaConverted(c, 0, n) = Repeat(Zero, 0 - Len(s)) \o s
    BY <1>8, <2>1, <2>4 DEF VgaConverted
  <2>8. <<>> \o s = s
    BY <2>5, ConcatEmptySeq
  <2> QED BY <1>4, <2>2, <2>5, <2>6, <2>7, <2>8
<1>9. CASE c = 99
  <2>1. /\ d.spec = Letter("c") /\ c = Letter("c") /\ d.spec \in Signs \cup {Letter("c")} /\ c \notin Signs
        /\ c \notin {Letter("d"), Letter("u")} /\ c # Letter("s") /\ c \notin Hexes
    BY <1>1, <1>9 DEF VgaSpec
  <2>2. ArgumentOf(d, v)
    BY <1>5, <2>1 DEF ArgumentOf
  <2>3. PrintedByC(d, v) = <<v % 256>>
    BY <2>1, <2>2, PlainText
  <2>4. VgaConverted(c, 0, n) = <<n % 256>>
    BY <2>1 DEF VgaConverted
  <2>5. <<v % 256>> \in Seq(Int)
    <3>1. PICK m : m = v % 256
      OBVIOUS
    <3>2. m \in Int
      BY <1>5, <3>1
    <3> QED BY <3>1, <3>2
  <2>6. <<v % 256>> = <<n % 256>> /\ IntArg(c, slot) = n
    BY <1>5, <1>6, <2>1
  <2> QED BY <1>4, <2>3, <2>4, <2>5, <2>6, Zenon
<1> QED BY <1>2, <1>7, <1>8, <1>9

LEMMA kprintfRight ==
  ASSUME NEW d \in Directives, Plain(d), d.spec \in VgaTakes \ {Letter("s")},
         NEW stack, stack[1] \in Nat, stack[2] \in Nat
  PROVE  kprintf(Blue \o FormatOf(d), stack) = InColour(d, Half(d.spec, stack[1]), Half(Letter("d"), stack[2]))
<1>1. PICK fmt : fmt = Blue \o FormatOf(d)
  OBVIOUS
<1>2. /\ fmt \in Seq(1 .. 255) /\ Len(fmt) = 12
      /\ fmt[1] = LessThan /\ fmt[2] = Open /\ fmt[3] = Zero + 1 /\ fmt[4] = LowerA + 4
      /\ fmt[5] = Close /\ fmt[6] = Greater
      /\ fmt[7] = LowerA /\ fmt[8] = Percent /\ fmt[9] = d.spec
      /\ fmt[10] = Space /\ fmt[11] = Percent /\ fmt[12] = Letter("d")
  BY <1>1, ColourFormatIs, ZenonT(40)
<1>3. PICK first \in Nat, second \in Nat : first = stack[1] /\ second = stack[2]
  OBVIOUS
<1>4. PICK c, e : c = d.spec /\ e = Letter("d")
  OBVIOUS
<1>5. c \in VgaTakes /\ c \in {100, 117, 99, 115, 120, 88} /\ e \in VgaTakes /\ e = 100
  BY <1>4, SpecsAre, LettersAre
<1>6. PICK v, w, vd, F, I :
        /\ v = Half(c, first) /\ w = Half(Letter("d"), second) /\ vd = [d EXCEPT !.spec = VgaSpec(c)]
        /\ F = PrintedByC(vd, v) /\ I = intToString(w)
  OBVIOUS
<1>7. VgaConverted(c, 0, IntArg(c, first)) = F /\ F \in Seq(Int)
  <2>1. vd.spec = VgaSpec(c) /\ Plain(vd)
    <3>1. /\ vd.spec = VgaSpec(c) /\ vd.flags = d.flags /\ vd.width = d.width
          /\ vd.precision = d.precision /\ vd.length = d.length
      BY <1>6 DEF Directives
    <3> QED BY <3>1 DEF Plain
  <2>2. c \in VgaTakes \ {Letter("s")}
    BY <1>4
  <2>3. VgaConverted(c, 0, IntArg(c, first)) = PrintedByC(vd, v) /\ PrintedByC(vd, v) \in Seq(Int)
    BY <1>3, <1>6, <2>1, <2>2, VgaFieldIs, Zenon
  <2> QED BY <1>6, <2>3
<1>8. VgaConverted(e, 0, IntArg(e, second)) = I /\ I \in Seq(Int)
  <2>1. /\ e \in Signs /\ e = Letter("d") /\ e # Letter("u")
        /\ e \notin Hexes /\ e # Letter("s") /\ e # Letter("c")
    BY <1>4, SpecsAre, LettersAre
  <2>2. w \in Int /\ w = AsSigned(second % IntRange, IntRange)
    BY <1>6, <2>1, HalfIs
  <2>3. IntArg(e, second) = w
    BY <2>1, <2>2 DEF IntArg
  <2>4. VgaConverted(e, 0, w) = intToString(w)
    BY <2>1 DEF VgaConverted
  <2>5. intToString(w) \in Seq(Lineless)
    BY <2>2, DecimalLineless
  <2> QED BY <1>6, <2>3, <2>4, <2>5 DEF Lineless
<1>9. PICK t1, t2, t3, t4 :
        /\ t1 = Append(<<>>, <<LowerA, 30>>) /\ t2 = t1 \o Coloured(F, 30)
        /\ t3 = Append(t2, <<Space, 30>>) /\ t4 = t3 \o Coloured(I, 30)
  OBVIOUS
<1>10. kprintfTurn(fmt, stack, Ink(1, <<>>, 0, LightGray)) = Ink(7, <<>>, 0, 30)
  <2>1. Len(fmt) >= 6
    BY <1>2
  <2>2. PICK empty, none, gray : empty = <<>> /\ none = 0 /\ gray = LightGray
    OBVIOUS
  <2>3. kprintfTurn(fmt, stack, Ink(1, empty, none, gray)) = Ink(7, empty, none, 30)
    <3>1. /\ fmt \in Seq(1 .. 255) /\ fmt[1] = LessThan /\ fmt[2] = Open /\ fmt[3] = Zero + 1
          /\ fmt[4] = LowerA + 4 /\ fmt[5] = Close /\ fmt[6] = Greater
      BY <1>2
    <3> QED BY <2>1, <3>1, SMT, ColourTurn
  <2> QED BY <2>2, <2>3
<1>11. kprintfTurn(fmt, stack, Ink(7, <<>>, 0, 30)) = Ink(8, t1, 0, 30)
  <2>1. fmt[7] # LessThan /\ fmt[7] # Percent
    BY <1>2 DEF LowerA, LessThan, Percent
  <2>2. PICK empty : empty = <<>>
    OBVIOUS
  <2>3. kprintfTurn(fmt, stack, Ink(7, empty, 0, 30)) = Ink(7 + 1, Append(empty, <<fmt[7], 30>>), 0, 30)
    BY <2>1, ColourLetterTurn
  <2>4. 7 + 1 = 8
    OBVIOUS
  <2> QED BY <1>2, <1>9, <2>2, <2>3, <2>4, Zenon
<1>12. /\ SkipDigits(fmt, 9) = 9 /\ Number(From(fmt, 9)) = 0
       /\ SkipDigits(fmt, 12) = 12 /\ Number(From(fmt, 12)) = 0
  <2>1. 9 \in 1 .. Len(fmt) /\ 12 \in 1 .. Len(fmt)
    BY <1>2
  <2>2. ~Digit(fmt[9]) /\ ~Digit(fmt[12])
    <3>1. fmt[9] = c /\ fmt[12] = e
      BY <1>2, <1>4
    <3>2. \A x \in {100, 117, 99, 115, 120, 88} : ~Digit(x)
      BY DEF Digit, Zero
    <3> QED BY <1>5, <3>1, <3>2
  <2> QED BY <1>2, <2>1, <2>2, BareDirective
<1>13. kprintfTurn(fmt, stack, Ink(8, t1, 0, 30)) = Ink(10, t2, 1, 30)
  <2>1. 8 + 1 = 9 /\ 9 + 1 = 10 /\ 0 + 1 = 1
    OBVIOUS
  <2>2. fmt[8] = Percent /\ 9 = SkipDigits(fmt, 8 + 1) /\ c = fmt[9] /\ 0 = Number(From(fmt, 8 + 1))
    BY <1>2, <1>4, <1>12, <2>1
  <2>3. kprintfTurn(fmt, stack, Ink(8, t1, 0, 30))
          = Ink(9 + 1, t1 \o Coloured(VgaConverted(c, 0, IntArg(c, stack[0 + 1])), 30), 0 + 1, 30)
    BY <1>5, <2>2, ColourDirectiveTurn
  <2> QED BY <1>3, <1>7, <1>9, <2>1, <2>3, Zenon
<1>14. kprintfTurn(fmt, stack, Ink(10, t2, 1, 30)) = Ink(11, t3, 1, 30)
  <2>1. fmt[10] # LessThan /\ fmt[10] # Percent
    BY <1>2 DEF Space, LessThan, Percent
  <2>2. kprintfTurn(fmt, stack, Ink(10, t2, 1, 30)) = Ink(10 + 1, Append(t2, <<fmt[10], 30>>), 1, 30)
    BY <2>1, ColourLetterTurn
  <2>3. 10 + 1 = 11
    OBVIOUS
  <2> QED BY <1>2, <1>9, <2>2, <2>3, Zenon
<1>15. kprintfTurn(fmt, stack, Ink(11, t3, 1, 30)) = Ink(13, t4, 2, 30)
  <2>1. 11 + 1 = 12 /\ 12 + 1 = 13 /\ 1 + 1 = 2
    OBVIOUS
  <2>2. fmt[11] = Percent /\ 12 = SkipDigits(fmt, 11 + 1) /\ e = fmt[12] /\ 0 = Number(From(fmt, 11 + 1))
    BY <1>2, <1>4, <1>12, <2>1
  <2>3. kprintfTurn(fmt, stack, Ink(11, t3, 1, 30))
          = Ink(12 + 1, t3 \o Coloured(VgaConverted(e, 0, IntArg(e, stack[1 + 1])), 30), 1 + 1, 30)
    BY <1>5, <2>2, ColourDirectiveTurn
  <2> QED BY <1>3, <1>8, <1>9, <2>1, <2>3, Zenon
<1>16. PICK run : run = [i \in 0 .. 5 |-> IF i = 0 THEN Ink(1, <<>>, 0, LightGray) ELSE IF i = 1 THEN Ink(7, <<>>, 0, 30)
                                          ELSE IF i = 2 THEN Ink(8, t1, 0, 30) ELSE IF i = 3 THEN Ink(10, t2, 1, 30)
                                          ELSE IF i = 4 THEN Ink(11, t3, 1, 30) ELSE Ink(13, t4, 2, 30)]
  OBVIOUS
<1>17. /\ run[0] = Ink(1, <<>>, 0, LightGray) /\ run[1] = Ink(7, <<>>, 0, 30) /\ run[2] = Ink(8, t1, 0, 30)
       /\ run[3] = Ink(10, t2, 1, 30) /\ run[4] = Ink(11, t3, 1, 30) /\ run[5] = Ink(13, t4, 2, 30)
  BY <1>16
<1>18. Runs("kprintf", fmt, stack, Ink(1, <<>>, 0, LightGray), 5, run)
  <2>1. /\ run[0].at = 1 /\ run[1].at = 7 /\ run[2].at = 8 /\ run[3].at = 10 /\ run[4].at = 11 /\ run[5].at = 13
    BY <1>17 DEF Ink
  <2>2. 5 \in 0 .. 12 /\ 13 > 12 /\ ~(1 > 12) /\ ~(7 > 12) /\ ~(8 > 12) /\ ~(10 > 12) /\ ~(11 > 12)
    OBVIOUS
  <2>3. ASSUME NEW i \in 1 .. 5
        PROVE  ~(run[i - 1].at > 12) /\ run[i] = Turns("kprintf", fmt, stack, run[i - 1])
    <3>1. i = 1 \/ i = 2 \/ i = 3 \/ i = 4 \/ i = 5
      OBVIOUS
    <3>2. 1 - 1 = 0 /\ 2 - 1 = 1 /\ 3 - 1 = 2 /\ 4 - 1 = 3 /\ 5 - 1 = 4
      OBVIOUS
    <3>3. ~(run[i - 1].at > 12) /\ run[i] = kprintfTurn(fmt, stack, run[i - 1])
      BY <1>10, <1>11, <1>13, <1>14, <1>15, <1>17, <2>1, <2>2, <3>1, <3>2, ZenonT(40)
    <3>4. "kprintf" # "kvprintf"
      OBVIOUS
    <3> QED BY <3>3, <3>4, Zenon DEF Turns
  <2> QED BY <1>2, <1>17, <2>1, <2>2, <2>3 DEF Runs
<1>19. kprintf(fmt, stack) = run[5].text
  <2>1. Len(fmt) \in Nat
    BY <1>2
  <2> QED BY <1>18, <2>1, kprintfRuns DEF Ink
<1>20. kprintf(fmt, stack) = t4
  BY <1>17, <1>19 DEF Ink
<1>21. t4 = Coloured(<<LowerA>> \o F \o <<Space>> \o I, 30)
  <2>1. PICK a, b, A, B : a = <<LowerA>> /\ b = <<Space>> /\ A = Coloured(a, 30) /\ B = Coloured(b, 30)
    OBVIOUS
  <2>2. a \in Seq(Int) /\ b \in Seq(Int)
    BY <2>1 DEF LowerA, Space
  <2>3. PICK aF, aFb : aF = a \o F /\ aFb = aF \o b
    OBVIOUS
  <2>4. aF \in Seq(Int) /\ aFb \in Seq(Int)
    BY <1>7, <2>2, <2>3
  <2>5. /\ Coloured(aF, 30) = A \o Coloured(F, 30)
        /\ Coloured(aFb, 30) = Coloured(aF, 30) \o B
        /\ Coloured(aFb \o I, 30) = Coloured(aFb, 30) \o Coloured(I, 30)
    <3>1. \A p, q \in Seq(Int) : Coloured(p \o q, 30) = Coloured(p, 30) \o Coloured(q, 30)
      BY ColouredJoin
    <3> QED BY <1>7, <1>8, <2>1, <2>2, <2>3, <2>4, <3>1
  <2>6. \A x \in Int : Coloured(<<x>>, 30) = <<<<x, 30>>>>
    <3> TAKE x \in Int
    <3>1. PICK s : s = <<x>>
      OBVIOUS
    <3>2. Len(s) = 1 /\ s[1] = x
      BY <3>1
    <3>3. Coloured(s, 30) = [i \in 1 .. 1 |-> <<s[i], 30>>]
      BY <3>2, Zenon DEF Coloured
    <3>4. Coloured(s, 30) = <<<<x, 30>>>>
      BY <3>2, <3>3
    <3> QED BY <3>1, <3>4
  <2>7. A = <<<<LowerA, 30>>>> /\ B = <<<<Space, 30>>>>
    BY <2>1, <2>6 DEF LowerA, Space
  <2>8. t1 = A
    BY <1>9, <2>7
  <2>9. t3 = t2 \o B
    <3>1. PICK S : S = {<<x, 30>> : x \in Int}
      OBVIOUS
    <3>2. \A s \in Seq(Int) : Coloured(s, 30) \in Seq(S)
      <4> TAKE s \in Seq(Int)
      <4>1. PICK m \in Nat : m = Len(s)
        BY LenProperties
      <4>2. \A i \in 1 .. m : s[i] \in Int
        BY <4>1, ElementOfSeq
      <4>3. \A x \in Int : <<x, 30>> \in S
        BY <3>1
      <4>4. Coloured(s, 30) \in [1 .. m -> S]
        BY <4>1, <4>2, <4>3, Zenon DEF Coloured
      <4> QED BY <4>4
    <3>3. A \in Seq(S) /\ Coloured(F, 30) \in Seq(S)
      BY <1>7, <2>1, <2>2, <3>2
    <3>4. t2 \in Seq(S)
      BY <1>9, <2>8, <3>3, ConcatProperties
    <3>5. PICK x : x = <<Space, 30>>
      OBVIOUS
    <3>6. x \in S
      BY <3>1, <3>5 DEF Space
    <3>7. Append(t2, x) = t2 \o <<x>>
      BY <3>4, <3>6
    <3> QED BY <1>9, <2>7, <3>5, <3>7
  <2> QED BY <1>9, <2>1, <2>3, <2>5, <2>8, <2>9
<1>22. InColour(d, v, w) = Coloured(<<LowerA>> \o F \o <<Space>> \o I, 30)
  BY <1>4, <1>6, Zenon DEF InColour, VgaSpec
<1> QED BY <1>1, <1>3, <1>4, <1>6, <1>20, <1>21, <1>22

-----------------------------------------------------------------------------
(* Every call *)

LEMMA ArgumentsAre ==
  ASSUME StringsAssumption, NEW d \in Directives, d.spec # Percent, NEW v \in ArgumentsOf(d), NEW slot \in Slots(d, v)
  PROVE  Passed(d, v, slot) /\ (d.spec = Letter("s") => v \in Seq(Lineless))
<1>1. Signs = {100, 105} /\ Letter("s") = 115
  BY SpecsAre, LettersAre
<1>2. CASE d.spec = Letter("s")
  <2>1. d.spec \notin Signs
    BY <1>1, <1>2
  <2>2. v \in {<<>>, <<LowerA, Zero, LowerA>>} /\ slot = v
    BY <1>2, <2>1 DEF ArgumentsOf, Slots
  <2>3. v \in Seq(Int) /\ v \in Seq(Lineless)
    <3>1. LowerA \in Lineless /\ Zero \in Lineless /\ LowerA \in Int /\ Zero \in Int
      BY DEF Lineless, LowerA, Zero
    <3>2. PICK a, b, c : a = LowerA /\ b = Zero /\ c = <<a, b, a>>
      OBVIOUS
    <3>3. c \in Seq(Int) /\ c \in Seq(Lineless)
      BY <3>1, <3>2
    <3>4. <<>> \in Seq(Int) /\ <<>> \in Seq(Lineless)
      OBVIOUS
    <3>5. v = <<>> \/ v = c
      BY <2>2, <3>2
    <3> QED BY <3>3, <3>4, <3>5, Zenon
  <2> QED BY <1>2, <2>2, <2>3 DEF Passed
<1>3. CASE d.spec # Letter("s")
  <2>1. PICK R, L, range : R = IntRange /\ L = LongRange /\ range = (IF IsLong(d) THEN L ELSE R)
    OBVIOUS
  <2>2. R \in Nat \ {0} /\ L \in Nat \ {0} /\ L >= R /\ range \in {R, L} /\ (~IsLong(d) => range = R)
    BY <2>1, RangesAre
  <2>3. /\ v \in Printed
        /\ d.spec \in Signs => 2 * AbsValue(v) < range
        /\ d.spec \notin Signs => v >= 0 /\ v < range
    BY <1>3, <2>1 DEF ArgumentsOf
  <2>4. v \in Int
    BY <2>3 DEF StringsAssumption
  <2>5. PICK m : m = AbsValue(v)
    OBVIOUS
  <2>6. m \in Int
    BY <2>4, <2>5 DEF AbsValue
  <2>7. /\ d.spec \in Signs => 2 * m < L /\ (~IsLong(d) => 2 * m < R)
        /\ d.spec \notin Signs => v >= 0 /\ v < L /\ (~IsLong(d) => v < R)
    BY <2>2, <2>3, <2>4, <2>5, <2>6
  <2>8. CASE IsLong(d)
    <3>1. slot = v % L
      BY <1>3, <2>1, <2>8 DEF Slots
    <3>2. v % L \in Nat
      BY <2>2, <2>4, HeldByRange
    <3> QED BY <1>3, <2>1, <2>4, <2>5, <2>7, <2>8, <3>1, <3>2 DEF Passed
  <2>9. CASE ~IsLong(d)
    <3>1. PICK upper \in Halves : slot = (v % IntRange) + IntRange * upper
      BY <1>3, <2>9 DEF Slots
    <3>2. upper \in Nat
      BY <2>1, <2>2 DEF StringsAssumption
    <3>3. slot \in Nat /\ slot % IntRange = v % IntRange /\ slot % 256 = v % 256
      BY <2>4, <3>1, <3>2, SlotIs
    <3> QED BY <1>3, <2>1, <2>4, <2>5, <2>7, <2>9, <3>3 DEF Passed
  <2> QED BY <2>8, <2>9
<1> QED BY <1>2, <1>3

\* One call of kvprintf or of qemu_debug_printf.
LEMMA PrintsRight ==
  ASSUME StringsAssumption, Prints
  PROVE  FormatsAsC'
<1> DEFINE Args(d, slot) == IF d.spec = Percent THEN << 5 >> ELSE <<slot, 5>>
           Prints1(d, v, slot) ==
             \/ /\ Known(d) \/ d.spec # Letter("s")
                /\ Called("kvprintf", [d |-> d, v |-> v, args |-> Args(d, slot)], kvprintf(FormatOf(d), Args(d, slot)))
             \/ /\ Plain(d)
                /\ Called("qemu_debug_printf", [d |-> d, v |-> v, args |-> Args(d, slot)],
                          qemu_debug_printf(FormatOf(d), Args(d, slot)))
<1>1. PICK d \in Directives : \E v \in ArgumentsOf(d) : \E slot \in Slots(d, v) : Prints1(d, v, slot)
  BY DEF Prints
<1>2. PICK v \in ArgumentsOf(d) : \E slot \in Slots(d, v) : Prints1(d, v, slot)
  BY <1>1
<1>3. PICK slot \in Slots(d, v) : Prints1(d, v, slot)
  BY <1>2
<1>4. PICK args : args = Args(d, slot)
  OBVIOUS
<1>5. d.spec # Percent => Passed(d, v, slot) /\ (d.spec = Letter("s") => v \in Seq(Lineless))
  BY ArgumentsAre
<1>6. PICK x : x = Received(d, v, args[1])
  OBVIOUS
<1>7. d.spec \in Takes \cup {Percent} /\ (d.spec = Percent => d.spec \notin Takes)
  BY SpecsAre DEF Directives, Percent
<1>8. d.spec = Percent => v = NUL /\ x = NUL
  <2> SUFFICES ASSUME d.spec = Percent PROVE v = NUL /\ x = NUL
    OBVIOUS
  <2>1. d.spec \notin Signs /\ d.spec # Letter("s") /\ d.spec \notin Numbers
    BY SpecsAre, LettersAre DEF Percent
  <2>2. v = NUL
    BY <2>1 DEF ArgumentsOf
  <2> QED BY <1>6, <2>1, <2>2 DEF Received
<1>9. d.spec # Percent => args[1] = slot
  BY <1>4
<1>10. \A y : (IF OwnWay(d, y) THEN OwnField(d, y) ELSE PrintedByC(d, y)) = FieldOf(d, y)
  BY Zenon DEF FieldOf
<1>11. CASE Called("kvprintf", [d |-> d, v |-> v, args |-> args], kvprintf(FormatOf(d), args))
  <2>1. PICK R : R = kvprintf(FormatOf(d), args)
    OBVIOUS
  <2>2. call'.f = "kvprintf" /\ call'.arg.d = d /\ call'.arg.v = v /\ call'.arg.args = args /\ call'.result = R
    BY <1>11, <2>1 DEF Called
  <2>3. Known(d) => R.fetched = Len(args) /\ R.text = Line(FieldOf(d, x))
    <3> SUFFICES ASSUME Known(d) PROVE R.fetched = Len(args) /\ R.text = Line(FieldOf(d, x))
      OBVIOUS
    <3>1. ASSUME d.spec # Percent PROVE ArgumentOf(d, x) /\ Worked(d, x, LongArg(d.spec, slot))
      <4>1. x = Received(d, v, slot) /\ Passed(d, v, slot) /\ d.spec \in Takes
        BY <1>5, <1>6, <1>7, <1>9, <3>1
      <4>2. d.spec = Letter("p") => IsLong(d)
        BY DEF IsLong
      <4> QED BY <4>1, <4>2, ReceivedIs
    <3>2. Receives(d, x, slot)
      BY <1>8, <3>1 DEF Receives
    <3>3. args = ArgsFor(d, slot)
      BY <1>4 DEF ArgsFor
    <3> HIDE DEF Args, Prints1
    <3> QED BY <2>1, <3>2, <3>3, kvprintfRight
  <2>4. Known(d) => R.text = <<LowerA>> \o (IF OwnWay(d, x) THEN OwnField(d, x) ELSE PrintedByC(d, x)) \o <<Space, Zero + 5>>
    BY <1>10, <2>3, Zenon DEF Line
  <2>5. call'.f # "kprintf" /\ call'.f # "qemu_debug_printf"
    BY <2>2
  <2> QED BY <1>6, <2>2, <2>3, <2>4, <2>5, Zenon DEF FormatsAsC, arg, result
<1>12. CASE Plain(d) /\ Called("qemu_debug_printf", [d |-> d, v |-> v, args |-> args], qemu_debug_printf(FormatOf(d), args))
  <2>1. PICK R : R = qemu_debug_printf(FormatOf(d), args)
    OBVIOUS
  <2>2. /\ call'.f = "qemu_debug_printf" /\ call'.arg.d = d /\ call'.arg.v = v
        /\ call'.arg.args = args /\ call'.result = R
    BY <1>12, <2>1 DEF Called
  <2>3. d.spec # Letter("p") => R.text = DebugText(Line(FieldOf(d, v)))
    <3> SUFFICES ASSUME d.spec # Letter("p") PROVE R.text = DebugText(Line(FieldOf(d, v)))
      OBVIOUS
    <3>1. ASSUME d.spec # Percent PROVE ArgumentOf(d, v) /\ Worked(d, v, IntArg(d.spec, slot))
      <4>1. Passed(d, v, slot) /\ d.spec \in Takes \ {Letter("p")}
        BY <1>5, <1>7, <3>1
      <4>2. ~IsLong(d)
        BY <1>12 DEF IsLong, Plain
      <4> QED BY <4>1, <4>2, IntReceivedIs
    <3>2. d.spec = Letter("s") => v \in Seq(Lineless)
      <4>1. Letter("s") # Percent
        BY LettersAre DEF Percent
      <4> QED BY <1>5, <4>1
    <3> QED BY <1>4, <1>12, <2>1, <3>1, <3>2, DebugRight
  <2>4. d.spec # Letter("p") =>
          R.text = DebugText(<<LowerA>> \o (IF OwnWay(d, v) THEN OwnField(d, v) ELSE PrintedByC(d, v)) \o <<Space, Zero + 5>>)
    BY <1>10, <2>3, Zenon DEF Line
  <2>5. call'.f # "kprintf" /\ call'.f # "kvprintf"
    BY <2>2
  <2> QED BY <2>2, <2>4, <2>5, Zenon DEF FormatsAsC, arg, result
<1> QED BY <1>3, <1>4, <1>11, <1>12

\* One call of kprintf.
LEMMA PrintsInColourRight ==
  ASSUME StringsAssumption, PrintsInColour
  PROVE  FormatsAsC'
<1>1. PICK d \in Directives, v \in Printed, stack \in [1 .. 2 -> StackSlots] :
        /\ Plain(d) /\ d.spec \in VgaTakes \ {Letter("s")} /\ v >= 0
        /\ Called("kprintf", [d |-> d, v |-> v, stack |-> stack],
                  [text |-> kprintf(Blue \o FormatOf(d), stack)])
  BY DEF PrintsInColour
<1>2. stack[1] \in Nat /\ stack[2] \in Nat
  <2>1. StackSlots \subseteq Nat
    <3>1. IntRange \in Nat
      BY RangesAre
    <3>2. \A upper \in Halves : upper \in Nat
      BY <3>1 DEF StringsAssumption
    <3>3. \A low \in {0, 7, 300}, upper \in Nat : low + IntRange * upper \in Nat
      BY <3>1
    <3>4. ASSUME NEW slot \in StackSlots PROVE slot \in Nat
      <4>1. PICK low \in {0, 7, 300}, upper \in Halves : slot = low + IntRange * upper
        BY DEF StackSlots
      <4> QED BY <3>2, <3>3, <4>1
    <3> QED BY <3>4
  <2>2. stack[1] \in StackSlots /\ stack[2] \in StackSlots
    OBVIOUS
  <2> QED BY <2>1, <2>2, Zenon
<1>3. PICK R : R = kprintf(Blue \o FormatOf(d), stack)
  OBVIOUS
<1>4. R = InColour(d, Half(d.spec, stack[1]), Half(Letter("d"), stack[2]))
  BY <1>1, <1>2, <1>3, kprintfRight
<1>5. call'.f = "kprintf" /\ call'.arg.d = d /\ call'.arg.stack = stack /\ call'.result.text = R
  BY <1>1, <1>3 DEF Called
<1>6. call'.f # "kvprintf" /\ call'.f # "qemu_debug_printf"
  BY <1>5
<1> QED BY <1>4, <1>5, <1>6, Zenon DEF FormatsAsC, arg, result

\* kvprintf prints the number it receives as C does, or in the way that is its
\* own, and the number behind gets its own argument: for every number but the
\* least, and whatever the caller left in the upper half of the slot of an int,
\* which kvprintf takes for a part of the number.  qemu_debug_printf prints
\* the bare directives so, with the int that was passed, and kprintf what is on its
\* stack.
THEOREM FormatsRight == LibrarySpec => []FormatsAsC
<1>1. LibraryInit => FormatsAsC
  BY DEF LibraryInit, Nothing, FormatsAsC
<1>2. FormatsAsC /\ [LibraryNext]_libraryVars => FormatsAsC'
  <2> SUFFICES ASSUME FormatsAsC, [LibraryNext]_libraryVars PROVE FormatsAsC'
    OBVIOUS
  <2>1. CASE UNCHANGED call
    BY <2>1 DEF FormatsAsC, arg, result
  <2>2. CASE Drops \/ Converts \/ Compares \/ Moves
    <3>1. call'.f \notin {"kvprintf", "qemu_debug_printf", "kprintf"}
      <4>1. CASE Drops
        BY <4>1 DEF Drops, Nothing
      <4>2. CASE Converts
        BY <4>2 DEF Converts, Called
      <4>3. CASE Compares
        BY <4>3 DEF Compares, Called
      <4>4. CASE Moves
        BY <4>4 DEF Moves, Called
      <4> QED BY <2>2, <4>1, <4>2, <4>3, <4>4
    <3> QED BY <3>1 DEF FormatsAsC
  <2>3. CASE Prints
    BY <2>3, StringsAssumption, PrintsRight
  <2>4. CASE PrintsInColour
    BY <2>4, StringsAssumption, PrintsInColourRight
  <2>5. Calls => Converts \/ Compares \/ Moves \/ Prints \/ PrintsInColour
    BY DEF Calls
  <2>6. Scans \/ Splitting \/ UNCHANGED libraryVars => UNCHANGED call
    BY DEF Scans, Splitting, libraryVars
  <2>7. Scans \/ Splitting \/ Calls \/ Drops \/ UNCHANGED libraryVars
    BY DEF LibraryNext
  <2> QED BY <2>1, <2>2, <2>3, <2>4, <2>5, <2>6, <2>7
<1> QED BY <1>1, <1>2, PTL DEF LibrarySpec
=============================================================================
