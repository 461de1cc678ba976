--------------------------- MODULE ConsoleProofs ---------------------------
(***************************************************************************)
(* Timer interrupts on the cursor registers, and what kputchar makes of    *)
(* the screen, for every window, every text, any number of characters and  *)
(* any blink interval.                                                     *)
(***************************************************************************)
EXTENDS Console, TerminalProofs

-----------------------------------------------------------------------------
(* Positions in two registers *)

\* A position is split into two bytes and put together again.
LEMMA Split ==
  ASSUME NEW p \in Positions
  PROVE  /\ p \div Byte \in 0 .. Byte - 1 /\ 2 * (p \div Byte) < Byte
         /\ p % Byte \in 0 .. Byte - 1
         /\ (p \div Byte) * Byte + (p % Byte) = p
<1> DEFINE B == Byte \div 2
           q == p \div Byte
           r == p % Byte
<1>1. Byte \in Nat /\ Byte > 0 /\ Byte = 2 * B /\ B \in Nat
  BY ByteEven
<1>2. p \in Nat /\ p < B * Byte
  BY <1>1, HalfWide, SMT DEF Positions
<1>3. q \in Nat /\ r \in 0 .. Byte - 1 /\ q * Byte + r = p
  BY <1>1, <1>2, SMT
<1>4. q < B
  <2> HIDE DEF B, q, r
  <2> SUFFICES ASSUME ~(q < B) PROVE FALSE
    OBVIOUS
  <2>1. B <= q
    BY <1>1, <1>3, SMT
  <2>2. B * Byte <= q * Byte /\ q * Byte \in Nat /\ B * Byte \in Nat
    BY <1>1, <1>3, <2>1, TimesByte
  <2>3. p \in Nat /\ r \in Nat
    BY <1>1, <1>2, <1>3, SMT
  <2> QED BY <1>2, <1>3, <2>2, <2>3, SMT
<1> QED BY <1>1, <1>3, <1>4, SMT

\* Two bytes, the high one below half its range, are a position, and its bytes.
LEMMA Join ==
  ASSUME NEW h \in Nat, NEW l \in 0 .. Byte - 1, 2 * h < Byte
  PROVE  /\ h * Byte + l \in Positions
         /\ (h * Byte + l) \div Byte = h /\ (h * Byte + l) % Byte = l
         /\ ((h * Byte + l) * 2) % Wide = (h * Byte + l) * 2
         /\ ((h * Byte + l) * 2) \div 2 = h * Byte + l
<1> DEFINE B == Byte \div 2
           p == h * Byte + l
<1>1. Byte \in Nat /\ Byte > 0 /\ Byte = 2 * B /\ B \in Nat
  BY ByteEven
<1>2. h * Byte \in Nat /\ p \in Nat
  BY <1>1, SMT
<1>3. h * Byte + Byte <= B * Byte
  <2>1. h < B
    BY <1>1, SMT
  <2> QED BY <1>1, <2>1, NextTimesByte
<1>4. p < B * Byte
  BY <1>1, <1>2, <1>3, SMT
<1>5. Wide = 2 * (B * Byte) /\ Wide \div 2 = B * Byte /\ B * Byte \in Nat
  BY <1>1, HalfWide
<1>6. p \in Positions
  BY <1>2, <1>4, <1>5, SMT DEF Positions
<1>7. p \div Byte = h /\ p % Byte = l
  <2> DEFINE q == p \div Byte
             r == p % Byte
  <2>1. q \in Nat /\ r \in 0 .. Byte - 1 /\ q * Byte + r = p
    BY <1>1, <1>2, SMT
  <2> HIDE DEF q, r
  <2>2. ~(q < h)
    BY <1>1, <2>1, NextTimesByte, SMT
  <2>3. ~(h < q)
    BY <1>1, <2>1, NextTimesByte, SMT
  <2>4. q = h
    BY <2>1, <2>2, <2>3, SMT
  <2>5. r = l
    BY <1>1, <1>2, <2>1, <2>4, SMT
  <2> QED BY <2>4, <2>5 DEF q, r
<1>8. (p * 2) % Wide = p * 2 /\ (p * 2) \div 2 = p
  <2> DEFINE W == B * Byte
  <2>1. W \in Nat /\ Wide = 2 * W /\ p < W
    BY <1>4, <1>5
  <2> HIDE DEF W, p
  <2> QED BY <1>2, <2>1, SMT
<1> QED BY <1>6, <1>7, <1>8

-----------------------------------------------------------------------------
(* What the calls that wait will do *)

Char == Text \cup {Space}

Call ==
  UNION {[do : {"get", "scroll"}],
         [do : {"set"}, pos : Positions],
         [do : {"move"}, by : Int],
         [do : {"put"}, ch : Char],
         [do : {"write"}, ch : Char, at : Int]}

\* The screen s behind one call, and behind a list of up to six.
Do(c, s) ==
  IF c.do = "set" THEN [s EXCEPT !.cursor = c.pos]
  ELSE IF c.do = "move" THEN set_cursor(s, get_cursor(s) + c.by)
  ELSE IF c.do = "put" THEN kputchar(s, c.ch)
  ELSE IF c.do = "write" THEN [s EXCEPT !.cells[c.at \div 2] = c.ch]
  ELSE IF c.do = "scroll" THEN [s EXCEPT !.cells = Scrolled(s.cells)]
  ELSE s

DoNth(n, l, s) == IF n <= Len(l) THEN Do(l[n], s) ELSE s
Run(l, s) == DoNth(6, l, DoNth(5, l, DoNth(4, l, DoNth(3, l, DoNth(2, l, DoNth(1, l, s))))))

\* The lists the thread has: a call that uses the offset stands behind the one
\* that reads it, and what is behind a put leaves room for its calls.
UsesOffset(c) == c.do \in {"put", "move"}
ListOK(l) ==
  /\ l \in Seq(Call) /\ Len(l) <= 6
  /\ \A n \in 2 .. Len(l) : UsesOffset(l[n]) => l[n - 1].do = "get"
  /\ \A n \in 1 .. Len(l) : l[n].do = "put" => \/ n = Len(l)
                                               \/ l[n].ch = Space /\ Len(l) - n <= 2

\* The first element of a sequence and the rest.
LEMMA SeqTail ==
  ASSUME NEW S, NEW l \in Seq(S), l # <<>>
  PROVE  /\ Len(l) \in Nat \ {0} /\ Head(l) = l[1] /\ Head(l) \in S
         /\ Tail(l) \in Seq(S) /\ Len(Tail(l)) = Len(l) - 1
         /\ \A n \in 1 .. Len(l) - 1 : Tail(l)[n] = l[n + 1]
<1>1. Len(l) \in Nat \ {0}
  BY EmptySeq
<1>2. /\ Head(l) \in S /\ Tail(l) \in Seq(S) /\ Len(Tail(l)) = Len(l) - 1
      /\ \A n \in 1 .. Len(Tail(l)) : Tail(l)[n] = l[n + 1]
  BY HeadTailProperties
<1>3. Head(l) = l[1]
  BY SMT
<1> QED BY <1>1, <1>2, <1>3, Zenon

\* A sequence with an element put in front.
LEMMA SeqFront ==
  ASSUME NEW S, NEW c \in S, NEW l \in Seq(S)
  PROVE  /\ <<c>> \o l \in Seq(S) /\ <<c>> \o l # <<>>
         /\ Len(l) \in Nat /\ Len(<<c>> \o l) = Len(l) + 1
         /\ (<<c>> \o l)[1] = c
         /\ \A n \in 2 .. Len(l) + 1 : (<<c>> \o l)[n] = l[n - 1]
         /\ Head(<<c>> \o l) = c /\ Tail(<<c>> \o l) = l
<1> DEFINE cl == <<c>> \o l
<1>1. <<c>> \in Seq(S) /\ Len(<<c>>) = 1 /\ <<c>>[1] = c
  OBVIOUS
<1>2. Len(l) \in Nat
  BY LenProperties
<1>3. /\ cl \in Seq(S) /\ Len(cl) = Len(<<c>>) + Len(l)
      /\ \A n \in 1 .. Len(<<c>>) + Len(l) :
           cl[n] = IF n <= Len(<<c>>) THEN <<c>>[n] ELSE l[n - Len(<<c>>)]
  BY <1>1, ConcatProperties
<1> HIDE DEF cl
<1>4. Len(cl) = Len(l) + 1 /\ \A n \in 1 .. 1 + Len(l) : cl[n] = IF n <= 1 THEN c ELSE l[n - 1]
  <2>1. Len(cl) = Len(l) + 1
    BY <1>1, <1>2, <1>3, SMT
  <2>2. ASSUME NEW n \in 1 .. 1 + Len(l)
        PROVE  cl[n] = IF n <= 1 THEN c ELSE l[n - 1]
    <3>1. cl[n] = IF n <= 1 THEN <<c>>[n] ELSE l[n - 1]
      BY <1>1, <1>3
    <3>2. n <= 1 => n = 1
      BY <1>2, SMT
    <3> QED BY <1>1, <3>1, <3>2
  <2> QED BY <2>1, <2>2
<1>5. cl[1] = c /\ \A n \in 2 .. Len(l) + 1 : cl[n] = l[n - 1]
  <2>1. 1 \in 1 .. 1 + Len(l) /\ 1 <= 1
    BY <1>2, SMT
  <2>2. ASSUME NEW n \in 2 .. Len(l) + 1 PROVE n \in 1 .. 1 + Len(l) /\ ~(n <= 1)
    BY <1>2, SMT
  <2> QED BY <1>4, <2>1, <2>2
<1>6. cl # <<>>
  <2>1. Len(cl) # 0
    BY <1>2, <1>4, SMT
  <2> QED BY <2>1, EmptySeq
<1>7. /\ Head(cl) = cl[1] /\ Tail(cl) \in Seq(S) /\ Len(Tail(cl)) = Len(cl) - 1
      /\ \A n \in 1 .. Len(cl) - 1 : Tail(cl)[n] = cl[n + 1]
  BY <1>3, <1>6, SeqTail
<1>8. Tail(cl) = l
  <2>1. Len(Tail(cl)) = Len(l) /\ Len(cl) - 1 = Len(l)
    BY <1>2, <1>4, <1>7, SMT
  <2>2. ASSUME NEW n \in 1 .. Len(l) PROVE Tail(cl)[n] = l[n]
    <3>1. n + 1 \in 2 .. Len(l) + 1 /\ (n + 1) - 1 = n
      BY <1>2, SMT
    <3> QED BY <1>5, <1>7, <2>1, <3>1
  <2> QED BY <1>7, <2>1, <2>2, SeqEqual
<1> QED BY <1>2, <1>3, <1>4, <1>5, <1>6, <1>7, <1>8 DEF cl

\* To run a list is to do its first call and run the rest.
LEMMA RunTail ==
  ASSUME NEW l \in Seq(Call), l # <<>>, Len(l) <= 6, NEW s
  PROVE  Run(l, s) = Run(Tail(l), Do(Head(l), s))
<1>1. /\ Len(l) \in Nat \ {0} /\ Len(Tail(l)) = Len(l) - 1
      /\ Head(l) = l[1]
      /\ \A n \in 1 .. Len(l) - 1 : Tail(l)[n] = l[n + 1]
  BY SeqTail
<1>2. \A x : DoNth(1, l, x) = Do(Head(l), x)
  <2>1. 1 <= Len(l)
    BY <1>1, SMT
  <2> QED BY <1>1, <2>1 DEF DoNth
<1>3. ASSUME NEW n \in 1 .. 5, NEW x
      PROVE  DoNth(n, Tail(l), x) = DoNth(n + 1, l, x)
  <2>1. (n <= Len(Tail(l)) <=> n + 1 <= Len(l)) /\ (n <= Len(Tail(l)) => n \in 1 .. Len(l) - 1)
    BY <1>1, SMT
  <2> QED BY <1>1, <2>1 DEF DoNth
<1>4. \A x : DoNth(6, Tail(l), x) = x
  <2>1. ~(6 <= Len(Tail(l)))
    BY <1>1, SMT
  <2> QED BY <2>1 DEF DoNth
<1>5. \A x : /\ DoNth(1, Tail(l), x) = DoNth(2, l, x) /\ DoNth(2, Tail(l), x) = DoNth(3, l, x)
             /\ DoNth(3, Tail(l), x) = DoNth(4, l, x) /\ DoNth(4, Tail(l), x) = DoNth(5, l, x)
             /\ DoNth(5, Tail(l), x) = DoNth(6, l, x)
  BY <1>3, SMT
<1> DEFINE x1 == Do(Head(l), s)
           x2 == DoNth(2, l, x1)
           x3 == DoNth(3, l, x2)
           x4 == DoNth(4, l, x3)
           x5 == DoNth(5, l, x4)
           x6 == DoNth(6, l, x5)
<1>6. Run(l, s) = x6
  BY <1>2, Zenon DEF Run
<1>7. /\ DoNth(1, Tail(l), x1) = x2 /\ DoNth(2, Tail(l), x2) = x3 /\ DoNth(3, Tail(l), x3) = x4
      /\ DoNth(4, Tail(l), x4) = x5 /\ DoNth(5, Tail(l), x5) = x6 /\ DoNth(6, Tail(l), x6) = x6
  BY <1>4, <1>5, Zenon
<1>8. Run(Tail(l), x1) = x6
  <2> HIDE DEF x1, x2, x3, x4, x5, x6
  <2> QED BY <1>7, Zenon DEF Run
<1> QED BY <1>6, <1>8

LEMMA RunFirst ==
  ASSUME NEW c \in Call, NEW l \in Seq(Call), Len(l) <= 5, NEW s
  PROVE  Run(<<c>> \o l, s) = Run(l, Do(c, s))
<1> DEFINE cl == <<c>> \o l
<1>1. cl \in Seq(Call) /\ cl # <<>> /\ Len(cl) = Len(l) + 1 /\ Len(l) \in Nat
      /\ Head(cl) = c /\ Tail(cl) = l
  BY SeqFront
<1> HIDE DEF cl
<1>2. Len(cl) <= 6
  BY <1>1, SMT
<1>3. Run(cl, s) = Run(Tail(cl), Do(Head(cl), s))
  BY <1>1, <1>2, RunTail
<1> QED BY <1>1, <1>3 DEF cl

LEMMA RunNothing ==
  ASSUME NEW s
  PROVE  Run(<<>>, s) = s
<1>1. ASSUME NEW n \in 1 .. 6, NEW x PROVE DoNth(n, <<>>, x) = x
  <2>1. Len(<<>>) = 0
    BY EmptySeq
  <2>2. ~(n <= Len(<<>>))
    BY <2>1, SMT
  <2> QED BY <2>2 DEF DoNth
<1>2. /\ DoNth(1, <<>>, s) = s /\ DoNth(2, <<>>, s) = s /\ DoNth(3, <<>>, s) = s
      /\ DoNth(4, <<>>, s) = s /\ DoNth(5, <<>>, s) = s /\ DoNth(6, <<>>, s) = s
  BY <1>1, SMT
<1> DEFINE none == <<>>
<1>3. Run(none, s) = s
  <2>1. /\ DoNth(1, none, s) = s /\ DoNth(2, none, s) = s /\ DoNth(3, none, s) = s
        /\ DoNth(4, none, s) = s /\ DoNth(5, none, s) = s /\ DoNth(6, none, s) = s
    BY <1>2
  <2> HIDE DEF none
  <2> QED BY <2>1, SMT DEF Run
<1> QED BY <1>3

LEMMA NothingOK == ListOK(<<>>) /\ Len(<<>>) = 0
<1>1. <<>> \in Seq(Call) /\ Len(<<>>) = 0
  BY EmptySeq
<1>2. 2 .. 0 = {} /\ 1 .. 0 = {}
  BY SMT
<1> QED BY <1>1, <1>2 DEF ListOK

\* Places in a list and in the list without its first call.
LEMMA Places ==
  ASSUME NEW k \in Nat, NEW m \in Nat, k = m + 1, NEW n \in Int
  PROVE  /\ n \in 1 .. m => n + 1 \in 1 .. k /\ n \in 1 .. k - 1 /\ m - n = k - (n + 1)
         /\ n \in 2 .. m => n + 1 \in 2 .. k /\ n - 1 \in 1 .. k - 1
         /\ n \in 1 .. k /\ n # 1 => n - 1 \in 1 .. m /\ n \in 2 .. k /\ m - (n - 1) = k - n
         /\ n \in 2 .. k /\ n # 2 => n - 1 \in 2 .. m /\ n - 1 \in 2 .. k
         /\ n + 1 = k <=> n = m
         /\ n - 1 = m <=> n = k
         /\ (n + 1) - 1 = n /\ (n - 1) + 1 = n
         /\ k - 1 = m /\ (k <= 6 <=> m <= 5)
OBVIOUS

LEMMA TailOK ==
  ASSUME NEW l, ListOK(l), l # <<>>
  PROVE  ListOK(Tail(l)) /\ Len(Tail(l)) <= 5
<1> DEFINE t == Tail(l)
           k == Len(l)
           m == Len(t)
<1>1. l \in Seq(Call) /\ k <= 6
  BY DEF ListOK
<1>2. /\ k \in Nat \ {0} /\ t \in Seq(Call) /\ m = k - 1
      /\ \A n \in 1 .. k - 1 : t[n] = l[n + 1]
  BY <1>1, SeqTail
<1>3. /\ \A n \in 2 .. k : UsesOffset(l[n]) => l[n - 1].do = "get"
      /\ \A n \in 1 .. k : l[n].do = "put" => n = k \/ (l[n].ch = Space /\ k - n <= 2)
  BY Zenon DEF ListOK
<1> SUFFICES /\ t \in Seq(Call) /\ m <= 6 /\ m <= 5
             /\ \A n \in 2 .. m : UsesOffset(t[n]) => t[n - 1].do = "get"
             /\ \A n \in 1 .. m : t[n].do = "put" => n = m \/ (t[n].ch = Space /\ m - n <= 2)
  BY Zenon DEF ListOK
<1> HIDE DEF t, k, m
<1>4. k \in Nat /\ m \in Nat /\ k = m + 1
  BY <1>2, SMT
<1>5. ASSUME NEW n \in 2 .. m, UsesOffset(t[n])
      PROVE  t[n - 1].do = "get"
  <2>1. n \in Int /\ n \in 1 .. m
    BY <1>4, SMT
  <2>2. /\ n + 1 \in 2 .. k /\ n \in 1 .. k - 1 /\ n - 1 \in 1 .. k - 1
        /\ (n + 1) - 1 = n /\ (n - 1) + 1 = n
    BY <1>4, <2>1, Places, Zenon
  <2>3. t[n] = l[n + 1] /\ t[n - 1] = l[n]
    BY <1>2, <2>2, Zenon
  <2> QED BY <1>3, <1>5, <2>2, <2>3, Zenon
<1>6. ASSUME NEW n \in 1 .. m, t[n].do = "put"
      PROVE  n = m \/ (t[n].ch = Space /\ m - n <= 2)
  <2>1. n \in Int
    BY <1>4, SMT
  <2>2. n + 1 \in 1 .. k /\ n \in 1 .. k - 1 /\ m - n = k - (n + 1) /\ (n + 1 = k <=> n = m)
    BY <1>4, <2>1, SMT
  <2>3. t[n] = l[n + 1]
    BY <1>2, <2>2, Zenon
  <2> QED BY <1>3, <1>6, <2>2, <2>3, Zenon
<1>7. m <= 6 /\ m <= 5
  BY <1>1, <1>4, SMT
<1> QED BY <1>2, <1>5, <1>6, <1>7, Zenon

\* A call in front of a list.
LEMMA First ==
  ASSUME NEW c \in Call, NEW l, ListOK(l), Len(l) <= 5,
         l # <<>> /\ UsesOffset(Head(l)) => c.do = "get",
         c.do = "put" => l = <<>> \/ (c.ch = Space /\ Len(l) <= 2),
         NEW s
  PROVE  /\ ListOK(<<c>> \o l) /\ Len(<<c>> \o l) = Len(l) + 1
         /\ Head(<<c>> \o l) = c /\ <<c>> \o l # <<>>
         /\ Run(<<c>> \o l, s) = Run(l, Do(c, s))
<1> DEFINE cl == <<c>> \o l
           k == Len(cl)
           m == Len(l)
<1>1. l \in Seq(Call)
  BY Zenon DEF ListOK
<1>2. /\ m \in Nat /\ cl \in Seq(Call) /\ k = m + 1 /\ cl[1] = c
      /\ \A n \in 2 .. m + 1 : cl[n] = l[n - 1]
      /\ Head(cl) = c /\ cl # <<>>
  <2>1. /\ <<c>> \o l \in Seq(Call) /\ <<c>> \o l # <<>>
        /\ Len(l) \in Nat /\ Len(<<c>> \o l) = Len(l) + 1
        /\ (<<c>> \o l)[1] = c
        /\ \A n \in 2 .. Len(l) + 1 : (<<c>> \o l)[n] = l[n - 1]
        /\ Head(<<c>> \o l) = c /\ Tail(<<c>> \o l) = l
    BY <1>1, SeqFront, Zenon
  <2> QED BY <2>1, Zenon
<1>3. Run(cl, s) = Run(l, Do(c, s))
  BY <1>1, RunFirst
<1>4. /\ \A n \in 2 .. m : UsesOffset(l[n]) => l[n - 1].do = "get"
      /\ \A n \in 1 .. m : l[n].do = "put" => n = m \/ (l[n].ch = Space /\ m - n <= 2)
  BY Zenon DEF ListOK
<1>5. m # 0 => l # <<>> /\ Head(l) = l[1]
  BY <1>1, EmptySeq, SeqTail
<1>6. l = <<>> => m = 0
  BY EmptySeq
<1> SUFFICES /\ k <= 6
             /\ \A n \in 2 .. k : UsesOffset(cl[n]) => cl[n - 1].do = "get"
             /\ \A n \in 1 .. k : cl[n].do = "put" => n = k \/ (cl[n].ch = Space /\ k - n <= 2)
  BY <1>2, <1>3, Zenon DEF ListOK
<1>7. m <= 5
  OBVIOUS
<1>8. c.do = "put" => l = <<>> \/ (c.ch = Space /\ m <= 2)
  OBVIOUS
<1> HIDE DEF cl, k, m
<1>9. m \in Nat /\ k = m + 1
  BY <1>2, Zenon
<1>13. k \in Nat
  BY <1>9, SMT
<1>10. ASSUME NEW n \in 2 .. k, UsesOffset(cl[n])
       PROVE  cl[n - 1].do = "get"
  <2>1. n \in Int /\ n \in 2 .. m + 1
    BY <1>9, <1>13, SMT
  <2>2. CASE n = 2
    <3>1. m # 0 /\ n - 1 = 1
      BY <1>9, <1>13, <2>2, SMT
    <3>2. UsesOffset(Head(l))
      BY <1>2, <1>5, <1>10, <2>1, <3>1, Zenon
    <3> QED BY <1>2, <1>5, <3>1, <3>2, Zenon
  <2>3. CASE n # 2
    <3>1. n - 1 \in 2 .. m /\ n - 1 \in 2 .. m + 1
      BY <1>9, <1>13, <2>1, <2>3, Places, Zenon
    <3>2. cl[n] = l[n - 1] /\ cl[n - 1] = l[(n - 1) - 1]
      BY <1>2, <2>1, <3>1, Zenon
    <3> QED BY <1>4, <1>10, <3>1, <3>2, Zenon
  <2> QED BY <2>2, <2>3
<1>11. ASSUME NEW n \in 1 .. k, cl[n].do = "put"
       PROVE  n = k \/ (cl[n].ch = Space /\ k - n <= 2)
  <2>1. n \in Int
    BY <1>9, <1>13, SMT
  <2>2. CASE n = 1
    <3>1. c.do = "put" /\ cl[n] = c
      BY <1>2, <1>11, <2>2
    <3>2. CASE m = 0
      BY <1>9, <1>13, <2>2, <3>2, SMT
    <3>3. CASE c.ch = Space /\ m <= 2
      <4>1. k - n <= 2
        BY <1>9, <1>13, <2>2, <3>3, SMT
      <4> QED BY <3>1, <3>3, <4>1
    <3> QED BY <1>6, <1>8, <3>1, <3>2, <3>3, Zenon
  <2>3. CASE n # 1
    <3>1. n - 1 \in 1 .. m /\ n \in 2 .. m + 1 /\ m - (n - 1) = k - n /\ (n - 1 = m <=> n = k)
      BY <1>9, <1>13, <2>1, <2>3, SMT
    <3>2. cl[n] = l[n - 1]
      BY <1>2, <3>1, Zenon
    <3> QED BY <1>4, <1>11, <3>1, <3>2, Zenon
  <2> QED BY <2>2, <2>3
<1>12. k <= 6
  BY <1>7, <1>9, SMT
<1> QED BY <1>10, <1>11, <1>12, Zenon

-----------------------------------------------------------------------------
(* The calls *)

LEMMA GetCall == Get \in Call /\ Get.do = "get"
BY DEF Get, Call

LEMMA ScrollCall == Scroll \in Call /\ Scroll.do = "scroll"
BY DEF Scroll, Call

LEMMA SetCall ==
  ASSUME NEW pos \in Int
  PROVE  Set(pos) \in Call /\ Set(pos).do = "set" /\ Set(pos).pos = (pos % Wide) \div 2
<1>1. Set(pos) = [do |-> "set", pos |-> (pos % Wide) \div 2]
  BY DEF Set
<1> QED BY <1>1, CutToPosition DEF Call

LEMMA MoveCall ==
  ASSUME NEW by \in Int
  PROVE  Move(by) \in Call /\ Move(by).do = "move" /\ Move(by).by = by
BY DEF Move, Call

LEMMA PutCall ==
  ASSUME NEW ch \in Char
  PROVE  Put(ch) \in Call /\ Put(ch).do = "put" /\ Put(ch).ch = ch
BY DEF Put, Call

LEMMA WriteCall ==
  ASSUME NEW ch \in Char, NEW at \in Int
  PROVE  /\ Write(ch, at) \in Call /\ Write(ch, at).do = "write"
         /\ Write(ch, at).ch = ch /\ Write(ch, at).at = at
BY DEF Write, Call

LEMMA CallFields ==
  ASSUME NEW c \in Call
  PROVE  /\ c.do = "set" => c.pos \in Positions
         /\ c.do = "move" => c.by \in Int
         /\ c.do = "put" => c.ch \in Char
BY DEF Call

-----------------------------------------------------------------------------
(* What kputchar is made of does what it does *)

LEMMA Pair ==
  ASSUME NEW a \in Call, NEW b \in Call, NEW l \in Seq(Call)
  PROVE  /\ <<a, b>> \o l = <<a>> \o (<<b>> \o l)
         /\ <<b>> \o l \in Seq(Call) /\ <<a, b>> \in Seq(Call)
<1>1. <<a>> \in Seq(Call) /\ <<b>> \in Seq(Call) /\ <<a>> \o <<b>> = <<a, b>>
  <2>1. <<a>> \in Seq(Call) /\ <<b>> \in Seq(Call) /\ Len(<<b>>) = 1 /\ <<b>>[1] = b
    OBVIOUS
  <2>2. <<a, b>> \in Seq(Call) /\ Len(<<a, b>>) = 2 /\ <<a, b>>[1] = a /\ <<a, b>>[2] = b
    OBVIOUS
  <2> DEFINE bs == <<b>>
             ab == <<a>> \o bs
  <2>0. bs \in Seq(Call)
    BY <2>1
  <2> HIDE DEF bs
  <2>3. /\ ab \in Seq(Call) /\ Len(ab) = Len(bs) + 1 /\ ab[1] = a
        /\ \A n \in 2 .. Len(bs) + 1 : ab[n] = bs[n - 1]
    <3>1. /\ <<a>> \o bs \in Seq(Call) /\ <<a>> \o bs # <<>>
          /\ Len(bs) \in Nat /\ Len(<<a>> \o bs) = Len(bs) + 1
          /\ (<<a>> \o bs)[1] = a
          /\ \A n \in 2 .. Len(bs) + 1 : (<<a>> \o bs)[n] = bs[n - 1]
          /\ Head(<<a>> \o bs) = a /\ Tail(<<a>> \o bs) = bs
      BY <2>0, SeqFront, Zenon
    <3> QED BY <3>1, Zenon
  <2> HIDE DEF ab
  <2>4. Len(ab) = 2 /\ ab[2] = b
    <3>1. Len(bs) = 1 /\ bs[1] = b
      BY <2>1 DEF bs
    <3>2. Len(ab) = 2 /\ 2 \in 2 .. Len(bs) + 1 /\ 2 - 1 = 1
      BY <2>3, <3>1, SMT
    <3>3. ab[2] = bs[2 - 1]
      BY <2>3, <3>2, Zenon
    <3> QED BY <3>1, <3>2, <3>3
  <2>5. ASSUME NEW n \in 1 .. Len(ab) PROVE ab[n] = <<a, b>>[n]
    <3>1. n = 1 \/ n = 2
      BY <2>4, SMT
    <3> QED BY <2>2, <2>3, <2>4, <3>1
  <2>6. ab = <<a, b>>
    BY <2>2, <2>3, <2>4, <2>5, SeqEqual
  <2> QED BY <2>1, <2>6 DEF ab, bs
<1>2. (<<a>> \o <<b>>) \o l = <<a>> \o (<<b>> \o l)
  BY <1>1, ConcatAssociative
<1>3. <<b>> \o l \in Seq(Call) /\ <<a>> \o <<b>> \in Seq(Call)
  BY <1>1, ConcatProperties
<1> QED BY <1>1, <1>2, <1>3

LEMMA DoGet == ASSUME NEW s PROVE Do(Get, s) = s
BY GetCall DEF Do

LEMMA DoScroll == ASSUME NEW s PROVE Do(Scroll, s) = [s EXCEPT !.cells = Scrolled(s.cells)]
BY ScrollCall DEF Do

LEMMA DoSet == ASSUME NEW s, NEW pos \in Int PROVE Do(Set(pos), s) = set_cursor(s, pos)
BY SetCall DEF Do, set_cursor

LEMMA DoTheMove ==
  ASSUME NEW s, NEW by \in Int PROVE Do(Move(by), s) = set_cursor(s, get_cursor(s) + by)
BY MoveCall DEF Do

LEMMA DoThePut == ASSUME NEW s, NEW ch \in Char PROVE Do(Put(ch), s) = kputchar(s, ch)
BY PutCall DEF Do

LEMMA DoWrite ==
  ASSUME NEW s, NEW ch \in Char, NEW at \in Int
  PROVE  Do(Write(ch, at), s) = [s EXCEPT !.cells[at \div 2] = ch]
BY WriteCall DEF Do

LEMMA DoFields ==
  ASSUME NEW c, NEW s
  PROVE  /\ c.do = "get" => Do(c, s) = s
         /\ c.do = "scroll" => Do(c, s) = [s EXCEPT !.cells = Scrolled(s.cells)]
         /\ c.do = "set" => Do(c, s) = [s EXCEPT !.cursor = c.pos]
         /\ c.do = "move" => Do(c, s) = set_cursor(s, get_cursor(s) + c.by)
         /\ c.do = "put" => Do(c, s) = kputchar(s, c.ch)
         /\ c.do = "write" => Do(c, s) = [s EXCEPT !.cells[c.at \div 2] = c.ch]
BY DEF Do

\* Two calls in front of a list.
LEMMA FirstTwo ==
  ASSUME NEW a \in Call, NEW b \in Call, ~UsesOffset(b), a.do # "put", b.do # "put",
         NEW l, ListOK(l), Len(l) <= 4, l # <<>> => ~UsesOffset(Head(l)),
         NEW s
  PROVE  /\ ListOK(<<a, b>> \o l) /\ Head(<<a, b>> \o l) = a
         /\ <<a, b>> \o l # <<>> /\ Len(<<a, b>> \o l) <= 6
         /\ Len(<<a, b>> \o l) = Len(l) + 2
         /\ Run(<<a, b>> \o l, s) = Run(l, Do(b, Do(a, s)))
<1> DEFINE bl == <<b>> \o l
           abl == <<a>> \o bl
<1>1. l \in Seq(Call)
  BY Zenon DEF ListOK
<1>2. Len(l) \in Nat
  BY <1>1, LenProperties
<1>3. <<a, b>> \o l = abl
  BY <1>1, Pair, Zenon
<1>4. Len(l) <= 5
  BY <1>2, SMT
<1>5. /\ ListOK(bl) /\ Len(bl) = Len(l) + 1 /\ Head(bl) = b /\ bl # <<>>
      /\ \A x : Run(bl, x) = Run(l, Do(b, x))
  BY <1>4, First, Zenon
<1> HIDE DEF bl
<1>6. Len(bl) <= 5
  BY <1>2, <1>5, SMT
<1>7. /\ ListOK(abl) /\ Len(abl) = Len(bl) + 1 /\ Head(abl) = a /\ abl # <<>>
      /\ Run(abl, s) = Run(bl, Do(a, s))
  <2>1. bl # <<>> /\ UsesOffset(Head(bl)) => a.do = "get"
    BY <1>5, Zenon
  <2>2. a.do = "put" => bl = <<>> \/ (a.ch = Space /\ Len(bl) <= 2)
    OBVIOUS
  <2>3. /\ ListOK(<<a>> \o bl) /\ Len(<<a>> \o bl) = Len(bl) + 1
        /\ Head(<<a>> \o bl) = a /\ <<a>> \o bl # <<>>
        /\ Run(<<a>> \o bl, s) = Run(bl, Do(a, s))
    BY <1>5, <1>6, <2>1, <2>2, First
  <2> QED BY <2>3, Zenon
<1> HIDE DEF abl
<1>8. Len(abl) = Len(l) + 2 /\ Len(abl) <= 6
  BY <1>2, <1>5, <1>7, SMT
<1> QED BY <1>3, <1>5, <1>7, <1>8, Zenon

\* vga.c:24-27, a newline.
LEMMA NewLineCalls ==
  ASSUME NEW s, offset \in Int
  PROVE  LET l == CallsOfNewLine \o <<>> IN
         /\ ListOK(l) /\ ~UsesOffset(Head(l))
         /\ offset = get_cursor(s) => Run(l, s) = NewLine(s)
<1> DEFINE l == CallsOfNewLine \o <<>>
<1>1. CASE LastRow(offset)
  <2>1. CallsOfNewLine = <<Scroll, Set(last_line)>>
    BY <1>1 DEF CallsOfNewLine
  <2>2. Scroll \in Call /\ Set(last_line) \in Call /\ ~UsesOffset(Set(last_line))
        /\ ~UsesOffset(Scroll) /\ Scroll.do # "put" /\ Set(last_line).do # "put"
    BY ScrollCall, SetCall, LastLineInInt DEF UsesOffset
  <2>3. Len(<<>>) <= 4
    BY NothingOK, SMT
  <2>4. ListOK(l) /\ Head(l) = Scroll /\ Run(l, s) = Run(<<>>, Do(Set(last_line), Do(Scroll, s)))
    <3> DEFINE none == <<>>
    <3>1. ListOK(none) /\ Len(none) <= 4 /\ (none # <<>> => ~UsesOffset(Head(none)))
      BY <2>3, NothingOK, Zenon
    <3> HIDE DEF none
    <3> DEFINE a == Scroll
               b == Set(last_line)
    <3>3. a \in Call /\ b \in Call /\ ~UsesOffset(b) /\ a.do # "put" /\ b.do # "put"
      BY <2>2
    <3> HIDE DEF a, b
    <3>2. /\ ListOK(<<a, b>> \o none) /\ Head(<<a, b>> \o none) = a
          /\ <<a, b>> \o none # <<>> /\ Len(<<a, b>> \o none) <= 6
          /\ Len(<<a, b>> \o none) = Len(none) + 2
          /\ Run(<<a, b>> \o none, s) = Run(none, Do(b, Do(a, s)))
      BY <3>1, <3>3, FirstTwo
    <3> QED BY <2>1, <3>2, Zenon DEF none, a, b
  <2>5. Run(l, s) = scroll_line(s)
    BY <2>4, RunNothing, DoScroll, DoSet, LastLineInInt DEF scroll_line
  <2> QED BY <1>1, <2>2, <2>4, <2>5, Zenon DEF NewLine
<1>2. CASE ~LastRow(offset)
  <2>1. CallsOfNewLine = <<Set(NextRow(offset))>>
    BY <1>2 DEF CallsOfNewLine
  <2>2. NextRow(offset) \in Int
    BY NextRowInInt
  <2>3. Set(NextRow(offset)) \in Call /\ ~UsesOffset(Set(NextRow(offset)))
        /\ Set(NextRow(offset)).do # "put"
    BY <2>2, SetCall DEF UsesOffset
  <2>4. Len(<<>>) <= 5
    BY NothingOK, SMT
  <2>5. ListOK(l) /\ Head(l) = Set(NextRow(offset))
        /\ Run(l, s) = Run(<<>>, Do(Set(NextRow(offset)), s))
    BY <2>1, <2>3, <2>4, NothingOK, First, Zenon
  <2>6. Run(l, s) = set_cursor(s, NextRow(offset))
    BY <2>2, <2>5, RunNothing, DoSet
  <2> QED BY <1>2, <2>3, <2>5, <2>6, Zenon DEF NewLine
<1> QED BY <1>1, <1>2

\* vga.c:37-39, a character.
LEMMA TypeCalls ==
  ASSUME NEW ch \in Char, offset \in Int,
         NEW l, ListOK(l), Len(l) <= 2, l # <<>> => ~UsesOffset(Head(l)),
         NEW s
  PROVE  /\ ListOK(CallsOfType(ch) \o l) /\ ~UsesOffset(Head(CallsOfType(ch) \o l))
         /\ offset = get_cursor(s) => Run(CallsOfType(ch) \o l, s) = Run(l, Type(s, ch))
<1> DEFINE w == Write(ch, offset)
           m == Set(offset + 2)
           wl == <<w, m>> \o l
<1>1. l \in Seq(Call)
  BY Zenon DEF ListOK
<1>2. Len(l) \in Nat
  BY <1>1, LenProperties
<1>3. offset + 2 \in Int /\ Len(l) <= 4
  BY <1>2, SMT
<1>4. /\ w \in Call /\ w.do = "write" /\ m \in Call /\ m.do = "set"
      /\ \A x : Do(w, x) = [x EXCEPT !.cells[offset \div 2] = ch] /\ Do(m, x) = set_cursor(x, offset + 2)
  <2>1. w \in Call /\ w.do = "write"
    BY WriteCall
  <2>2. m \in Call /\ m.do = "set"
    BY <1>3, SetCall
  <2>3. ASSUME NEW x
        PROVE  Do(w, x) = [x EXCEPT !.cells[offset \div 2] = ch] /\ Do(m, x) = set_cursor(x, offset + 2)
    <3>1. Do(w, x) = [x EXCEPT !.cells[offset \div 2] = ch]
      BY DoWrite
    <3>2. Do(m, x) = set_cursor(x, offset + 2)
      BY <1>3, DoSet
    <3> QED BY <3>1, <3>2
  <2> HIDE DEF w, m
  <2> QED BY <2>1, <2>2, <2>3, Zenon
<1> HIDE DEF w, m
<1>5. ~UsesOffset(w) /\ ~UsesOffset(m) /\ w.do # "put" /\ m.do # "put"
  BY <1>4 DEF UsesOffset
<1>6. /\ ListOK(wl) /\ Head(wl) = w /\ wl # <<>> /\ Len(wl) = Len(l) + 2
      /\ \A x : Run(wl, x) = Run(l, Do(m, Do(w, x)))
  <2>1. w \in Call /\ m \in Call
    BY <1>4, Zenon
  <2>2. ASSUME NEW x
        PROVE  /\ ListOK(<<w, m>> \o l) /\ Head(<<w, m>> \o l) = w
               /\ <<w, m>> \o l # <<>> /\ Len(<<w, m>> \o l) = Len(l) + 2
               /\ Run(<<w, m>> \o l, x) = Run(l, Do(m, Do(w, x)))
    BY <1>3, <1>5, <2>1, FirstTwo
  <2> QED BY <2>2, Zenon
<1>7. <<w, m>> \in Seq(Call)
  BY <1>1, <1>4, Pair
<1>8. CASE offset = Window * 2
  <2> DEFINE t == Set(last_line)
             cl == <<Scroll, t>> \o wl
  <2>1. Scroll \in Call /\ Scroll.do = "scroll" /\ t \in Call /\ t.do = "set"
        /\ \A x : Do(t, Do(Scroll, x)) = scroll_line(x)
    <3>1. Scroll \in Call /\ Scroll.do = "scroll" /\ t \in Call /\ t.do = "set"
      BY ScrollCall, SetCall, LastLineInInt
    <3>2. ASSUME NEW x PROVE Do(t, Do(Scroll, x)) = scroll_line(x)
      BY DoScroll, DoSet, LastLineInInt DEF scroll_line
    <3> HIDE DEF t
    <3> QED BY <3>1, <3>2, Zenon
  <2> HIDE DEF t, wl
  <2>2. ~UsesOffset(Scroll) /\ ~UsesOffset(t) /\ Scroll.do # "put" /\ t.do # "put" /\ ~UsesOffset(Head(wl))
    BY <1>5, <1>6, <2>1 DEF UsesOffset
  <2>3. Len(wl) <= 4
    BY <1>2, <1>6, SMT
  <2>4. /\ ListOK(cl) /\ Head(cl) = Scroll
        /\ Run(cl, s) = Run(wl, Do(t, Do(Scroll, s)))
    BY <1>6, <2>1, <2>2, <2>3, FirstTwo
  <2>5. CallsOfType(ch) \o l = cl
    <3>1. CallsOfType(ch) = <<Scroll, t>> \o <<w, m>>
      BY <1>8 DEF CallsOfType, w, m, t
    <3>2. <<Scroll, t>> \in Seq(Call)
      BY <1>1, <2>1, Pair
    <3> QED BY <1>1, <1>7, <3>1, <3>2, ConcatAssociative DEF wl
  <2>6. offset = get_cursor(s) => Run(cl, s) = Run(l, Type(s, ch))
    <3> DEFINE u == scroll_line(s)
    <3>1. Run(cl, s) = Run(l, set_cursor([u EXCEPT !.cells[offset \div 2] = ch], offset + 2))
      <4>1. Run(cl, s) = Run(wl, u) /\ Run(wl, u) = Run(l, Do(m, Do(w, u)))
        BY <1>6, <2>1, <2>4, Zenon
      <4>2. Do(m, Do(w, u)) = set_cursor([u EXCEPT !.cells[offset \div 2] = ch], offset + 2)
        BY <1>4, Zenon
      <4> QED BY <4>1, <4>2, Zenon
    <3>2. offset = get_cursor(s) =>
            Type(s, ch) = set_cursor([u EXCEPT !.cells[offset \div 2] = ch], offset + 2)
      BY <1>8 DEF Type
    <3> QED BY <3>1, <3>2
  <2> QED BY <2>2, <2>4, <2>5, <2>6
<1>9. CASE offset # Window * 2
  <2>1. CallsOfType(ch) \o l = wl
    <3>1. CallsOfType(ch) = <<>> \o <<w, m>>
      BY <1>9 DEF CallsOfType, w, m
    <3> QED BY <1>7, <3>1, ConcatEmptySeq
  <2>2. offset = get_cursor(s) => Run(wl, s) = Run(l, Type(s, ch))
    <3>1. Run(wl, s) = Run(l, set_cursor([s EXCEPT !.cells[offset \div 2] = ch], offset + 2))
      BY <1>4, <1>6
    <3>2. offset = get_cursor(s) =>
            Type(s, ch) = set_cursor([s EXCEPT !.cells[offset \div 2] = ch], offset + 2)
      BY <1>9 DEF Type
    <3> QED BY <3>1, <3>2
  <2> HIDE DEF wl
  <2> QED BY <1>5, <1>6, <2>1, <2>2
<1> QED BY <1>8, <1>9

\* A list of six calls.
LEMMA SixCalls ==
  ASSUME NEW a \in Call, NEW b \in Call, NEW c \in Call,
         NEW d \in Call, NEW e \in Call, NEW f \in Call, NEW s
  PROVE  LET l == <<a, b, c, d, e, f>> IN
         /\ l \in Seq(Call) /\ Len(l) = 6 /\ Head(l) = a /\ l \o <<>> = l
         /\ l[1] = a /\ l[2] = b /\ l[3] = c /\ l[4] = d /\ l[5] = e /\ l[6] = f
         /\ Run(l, s) = Do(f, Do(e, Do(d, Do(c, Do(b, Do(a, s))))))
<1> DEFINE l == <<a, b, c, d, e, f>>
<1>1. l \in Seq(Call) /\ Len(l) = 6
  OBVIOUS
<1>2. l[1] = a /\ l[2] = b /\ l[3] = c /\ l[4] = d /\ l[5] = e /\ l[6] = f
  OBVIOUS
<1> HIDE DEF l
<1>3. l \o <<>> = l
  BY <1>1, ConcatEmptySeq
<1>4. Head(l) = a
  <2>1. Len(l) # 0
    BY <1>1, SMT
  <2>2. l # <<>>
    BY <2>1, EmptySeq
  <2> QED BY <1>1, <1>2, <2>2, SeqTail
<1>5. 1 <= Len(l) /\ 2 <= Len(l) /\ 3 <= Len(l) /\ 4 <= Len(l) /\ 5 <= Len(l) /\ 6 <= Len(l)
  BY <1>1, SMT
<1>6. \A x : /\ DoNth(1, l, x) = Do(a, x) /\ DoNth(2, l, x) = Do(b, x) /\ DoNth(3, l, x) = Do(c, x)
             /\ DoNth(4, l, x) = Do(d, x) /\ DoNth(5, l, x) = Do(e, x) /\ DoNth(6, l, x) = Do(f, x)
  BY <1>2, <1>5, Zenon DEF DoNth
<1>7. Run(l, s) = Do(f, Do(e, Do(d, Do(c, Do(b, Do(a, s))))))
  <2> DEFINE x1 == Do(a, s)
             x2 == Do(b, x1)
             x3 == Do(c, x2)
             x4 == Do(d, x3)
             x5 == Do(e, x4)
  <2>1. /\ DoNth(1, l, s) = x1 /\ DoNth(2, l, x1) = x2 /\ DoNth(3, l, x2) = x3
        /\ DoNth(4, l, x3) = x4 /\ DoNth(5, l, x4) = x5 /\ DoNth(6, l, x5) = Do(f, x5)
    BY <1>6, Zenon
  <2>2. Run(l, s) = Do(f, x5)
    <3> HIDE DEF x1, x2, x3, x4, x5
    <3> QED BY <2>1, Zenon DEF Run
  <2> QED BY <2>2, Zenon
<1> QED BY <1>1, <1>2, <1>3, <1>4, <1>7 DEF l

LEMMA CursorInInt ==
  ASSUME NEW s, s.cursor \in Int
  PROVE  get_cursor(s) \in 0 .. Wide - 1
BY WideRange, SMT DEF get_cursor

LEMMA TypeCursor ==
  ASSUME NEW s, "cursor" \in DOMAIN s, s.cursor \in Int, NEW ch
  PROVE  Type(s, ch).cursor \in Int
<1> DEFINE at == get_cursor(s)
           t == IF at = Window * 2 THEN scroll_line(s) ELSE s
           u == [t EXCEPT !.cells[at \div 2] = ch]
<1>1. Type(s, ch) = [u EXCEPT !.cursor = ((at + 2) % Wide) \div 2]
  BY DEF Type, set_cursor
<1>2. at \in Int
  BY CursorInInt, SMT
<1>3. "cursor" \in DOMAIN u
  <2>1. DOMAIN scroll_line(s) = DOMAIN s
    BY DEF scroll_line, set_cursor
  <2> HIDE DEF at
  <2>2. DOMAIN t = DOMAIN s
    BY <2>1
  <2> HIDE DEF t
  <2>3. DOMAIN u = DOMAIN t
    OBVIOUS
  <2> QED BY <2>2, <2>3
<1>4. ((at + 2) % Wide) \div 2 \in Int
  <2> HIDE DEF at
  <2>1. at + 2 \in Int
    BY <1>2, SMT
  <2> QED BY <2>1, CutInInt
<1> HIDE DEF u, at
<1> QED BY <1>1, <1>3, <1>4

\* vga.c:31-33, a backspace, whose put makes the list as long as it gets.
LEMMA BackspaceCalls ==
  ASSUME NEW grid, NEW p \in Int
  PROVE  LET s == [cells |-> grid, cursor |-> p]
             l == CallsOfBackspace \o <<>>
         IN  ListOK(l) /\ ~UsesOffset(Head(l)) /\ Run(l, s) = Backspace(s)
<1> DEFINE s == [cells |-> grid, cursor |-> p]
           l == CallsOfBackspace
           s1 == set_cursor(s, get_cursor(s) - 1)
           erased == Type(s1, Space)
<1>1. Space \in Char /\ -1 \in Int /\ -2 \in Int
  BY DEF Char
<1>2. /\ Get \in Call /\ Move(-1) \in Call /\ Move(-2) \in Call /\ Put(Space) \in Call
      /\ Get.do = "get" /\ Move(-1).do = "move" /\ Move(-2).do = "move"
      /\ Put(Space).do = "put" /\ Put(Space).ch = Space
  BY <1>1, GetCall, MoveCall, PutCall
<1>3. /\ l \in Seq(Call) /\ Len(l) = 6 /\ Head(l) = Get /\ l \o <<>> = l
      /\ l[1] = Get /\ l[2] = Move(-1) /\ l[3] = Get /\ l[4] = Put(Space) /\ l[5] = Get /\ l[6] = Move(-2)
      /\ Run(l, s) = Do(Move(-2), Do(Get, Do(Put(Space), Do(Get, Do(Move(-1), Do(Get, s))))))
  BY <1>2, SixCalls DEF CallsOfBackspace
<1> HIDE DEF l
<1>4. ListOK(l)
  <2>1. ASSUME NEW n \in 2 .. Len(l), UsesOffset(l[n]) PROVE l[n - 1].do = "get"
    <3>1. \/ n = 2 /\ n - 1 = 1
          \/ n = 3 \/ n = 5
          \/ n = 4 /\ n - 1 = 3
          \/ n = 6 /\ n - 1 = 5
      BY <1>3, SMT
    <3> QED BY <1>2, <1>3, <2>1, <3>1 DEF UsesOffset
  <2>2. ASSUME NEW n \in 1 .. Len(l), l[n].do = "put"
        PROVE  n = Len(l) \/ (l[n].ch = Space /\ Len(l) - n <= 2)
    <3>1. n = 1 \/ n = 2 \/ n = 3 \/ n = 5 \/ n = 6 \/ (n = 4 /\ Len(l) - n <= 2)
      BY <1>3, SMT
    <3> QED BY <1>2, <1>3, <2>2, <3>1
  <2>3. Len(l) <= 6
    BY <1>3, SMT
  <2> QED BY <1>3, <2>1, <2>2, <2>3, Zenon DEF ListOK
<1>5. ~UsesOffset(Head(l))
  BY <1>2, <1>3 DEF UsesOffset
<1>6. Do(Move(-1), s) = s1
  <2>1. get_cursor(s) \in Int
    BY CursorInInt, SMT
  <2>2. get_cursor(s) + (-1) = get_cursor(s) - 1
    BY <2>1, SMT
  <2> QED BY <1>1, <2>2, DoTheMove
<1>7. erased.cursor \in Int
  <2> DEFINE q == ((get_cursor(s) - 1) % Wide) \div 2
  <2>1. s1 = [cells |-> grid, cursor |-> q]
    BY DEF set_cursor
  <2>2. get_cursor(s) - 1 \in Int
    BY CursorInInt, SMT
  <2>3. q \in Int
    BY <2>2, CutInInt
  <2> HIDE DEF q
  <2> QED BY <2>1, <2>3, TypeCursor
<1>8. Do(Put(Space), s1) = erased
  <2>1. Space # "NL" /\ Space # "BS"
    BY DEF Space
  <2> QED BY <1>1, <2>1, DoThePut DEF kputchar
<1> HIDE DEF s1, erased
<1>9. Do(Move(-2), erased) = set_cursor(erased, get_cursor(erased) - 2)
  <2>1. get_cursor(erased) \in Int
    BY <1>7, CursorInInt, SMT
  <2>2. get_cursor(erased) + (-2) = get_cursor(erased) - 2
    BY <2>1, SMT
  <2> QED BY <1>1, <2>2, DoTheMove
<1>10. Run(l, s) = set_cursor(erased, get_cursor(erased) - 2)
  BY <1>3, <1>6, <1>8, <1>9, DoGet, Zenon
<1>11. Backspace(s) = set_cursor(erased, get_cursor(erased) - 2)
  BY DEF Backspace, s1, erased
<1> QED BY <1>3, <1>4, <1>5, <1>10, <1>11 DEF l

\* What kputchar makes of the offset it has read, whatever waits behind it.
LEMMA PutCalls ==
  ASSUME NEW ch \in Char, offset \in Int,
         NEW l, ListOK(l), l # <<>> => ~UsesOffset(Head(l)),
         l = <<>> \/ (ch = Space /\ Len(l) <= 2),
         NEW s, s.cursor \in Int, s = [cells |-> s.cells, cursor |-> s.cursor]
  PROVE  /\ ListOK(CallsOf(ch) \o l) /\ ~UsesOffset(Head(CallsOf(ch) \o l))
         /\ offset = get_cursor(s) => Run(CallsOf(ch) \o l, s) = Run(l, kputchar(s, ch))
<1>1. Space # "NL" /\ Space # "BS" /\ "NL" # "BS"
  BY DEF Space
<1>2. CASE ch = "NL"
  <2>1. l = <<>> /\ CallsOf(ch) = CallsOfNewLine /\ kputchar(s, ch) = NewLine(s)
    BY <1>1, <1>2 DEF CallsOf, kputchar
  <2> QED BY <2>1, NewLineCalls, RunNothing
<1>3. CASE ch = "BS"
  <2>1. l = <<>> /\ CallsOf(ch) = CallsOfBackspace /\ kputchar(s, ch) = Backspace(s)
    BY <1>1, <1>3 DEF CallsOf, kputchar
  <2>2. LET more == CallsOfBackspace \o <<>>
        IN  ListOK(more) /\ ~UsesOffset(Head(more)) /\ Run(more, s) = Backspace(s)
    <3> DEFINE p == s.cursor
               grid == s.cells
    <3>1. p \in Int /\ s = [cells |-> grid, cursor |-> p]
      OBVIOUS
    <3> HIDE DEF p, grid
    <3> QED BY <3>1, BackspaceCalls
  <2> QED BY <2>1, <2>2, RunNothing
<1>4. CASE ch # "NL" /\ ch # "BS"
  <2>1. CallsOf(ch) = CallsOfType(ch) /\ kputchar(s, ch) = Type(s, ch)
    BY <1>4 DEF CallsOf, kputchar
  <2>2. Len(l) <= 2
    BY NothingOK, SMT
  <2>3. /\ ListOK(CallsOfType(ch) \o l) /\ ~UsesOffset(Head(CallsOfType(ch) \o l))
        /\ offset = get_cursor(s) => Run(CallsOfType(ch) \o l, s) = Run(l, Type(s, ch))
    BY <2>2, TypeCalls
  <2> QED BY <2>1, <2>3
<1> QED BY <1>2, <1>3, <1>4

-----------------------------------------------------------------------------
(* The invariant *)

\* The calls that wait make sense, and one under way touches the registers.
Pending ==
  /\ ListOK(calls)
  /\ step # 0 => calls # <<>> /\ Head(calls).do \in {"get", "set"}

\* The registers hold a position the program wrote, the accesses made so far of
\* the call under way went where they should, the offset is that of the cursor
\* when it is used, and what waits makes the screen the one that is due.
Faithful ==
  /\ 2 * high < Byte
  /\ step = 1 => index = "high"
  /\ step = 3 => index = "low"
  /\ step \in {2, 3} => /\ Head(calls).do = "get" => high_byte = high
                        /\ Head(calls).do = "set" => high = Head(calls).pos \div Byte
  /\ calls # <<>> /\ UsesOffset(Head(calls)) => offset = get_cursor(screen)
  /\ ideal = Run(calls, screen)

Inv == TypeOK /\ Pending /\ (~hit => Faithful)

\* A screen with another grid, and with another cursor.
LEMMA RecordExcept ==
  ASSUME NEW s, NEW g, NEW p, s = [cells |-> g, cursor |-> p], NEW h, NEW q
  PROVE  /\ [s EXCEPT !.cells = h] = [cells |-> h, cursor |-> p]
         /\ [s EXCEPT !.cursor = q] = [cells |-> g, cursor |-> q]
OBVIOUS

LEMMA Types ==
  TypeOK <=> /\ index \in {"high", "low"}
             /\ high \in 0 .. Byte - 1 /\ low \in 0 .. Byte - 1 /\ high_byte \in 0 .. Byte - 1
             /\ DOMAIN cells = Positions
             /\ step \in 0 .. 3
             /\ offset \in 0 .. Wide - 1
             /\ blink_counter \in 0 .. BLINK_INTERVAL
BY Zenon DEF TypeOK, Positions

\* The screen, a record with a cursor in the integers.
LEMMA ScreenTypes ==
  ASSUME TypeOK
  PROVE  /\ high * Byte + low \in Int
         /\ screen = [cells |-> cells, cursor |-> high * Byte + low]
         /\ get_cursor(screen) \in 0 .. Wide - 1
<1>1. high \in Nat /\ low \in Nat /\ Byte \in Nat
  BY Types, ByteEven, SMT
<1>2. high * Byte + low \in Int
  BY <1>1, SMT
<1>3. screen.cursor = high * Byte + low
  BY DEF screen
<1> QED BY <1>2, <1>3, CursorInInt DEF screen

\* The call under way and what waits behind it.
LEMMA FirstCall ==
  ASSUME Pending, calls # <<>>
  PROVE  /\ Head(calls) \in Call
         /\ Tail(calls) \in Seq(Call) /\ <<>> \o Tail(calls) = Tail(calls)
         /\ ListOK(Tail(calls)) /\ Len(Tail(calls)) <= 5
         /\ Tail(calls) # <<>> /\ UsesOffset(Head(Tail(calls))) => Head(calls).do = "get"
         /\ Head(calls).do = "put" => \/ Tail(calls) = <<>>
                                      \/ Head(calls).ch = Space /\ Len(Tail(calls)) <= 2
         /\ \A s : Run(calls, s) = Run(Tail(calls), Do(Head(calls), s))
<1> DEFINE l == calls
           t == Tail(l)
<1>1. /\ l \in Seq(Call) /\ Len(l) <= 6
      /\ \A n \in 2 .. Len(l) : UsesOffset(l[n]) => l[n - 1].do = "get"
      /\ \A n \in 1 .. Len(l) : l[n].do = "put" => \/ n = Len(l)
                                                   \/ l[n].ch = Space /\ Len(l) - n <= 2
  BY Zenon DEF Pending, ListOK
<1>2. /\ Len(l) \in Nat \ {0} /\ Head(l) = l[1] /\ Head(l) \in Call
      /\ t \in Seq(Call) /\ Len(t) = Len(l) - 1
      /\ \A n \in 1 .. Len(l) - 1 : t[n] = l[n + 1]
  BY <1>1, SeqTail
<1>3. ListOK(t) /\ Len(t) <= 5
  BY TailOK, Zenon DEF Pending
<1>4. <<>> \o t = t
  BY <1>2, ConcatEmptySeq
<1>5. \A s : Run(l, s) = Run(t, Do(Head(l), s))
  BY <1>1, RunTail
<1>6. t # <<>> => Len(t) # 0
  BY <1>2, EmptySeq
<1> HIDE DEF t
<1>7. ASSUME t # <<>>, UsesOffset(Head(t)) PROVE Head(l).do = "get"
  <2>1. 1 \in 1 .. Len(l) - 1 /\ 2 \in 2 .. Len(l) /\ 1 + 1 = 2 /\ 2 - 1 = 1
    BY <1>2, <1>6, <1>7, SMT
  <2>2. t[1] = l[2] /\ Head(t) = t[1]
    BY <1>2, <1>7, <2>1, SeqTail
  <2> QED BY <1>1, <1>2, <1>7, <2>1, <2>2
<1>8. ASSUME Head(l).do = "put"
      PROVE  t = <<>> \/ (Head(l).ch = Space /\ Len(t) <= 2)
  <2>1. 1 \in 1 .. Len(l) /\ (1 = Len(l) => Len(t) = 0) /\ Len(t) = Len(l) - 1
    BY <1>2, SMT
  <2> QED BY <1>1, <1>2, <1>6, <1>8, <2>1
<1> QED BY <1>2, <1>3, <1>4, <1>5, <1>7, <1>8 DEF t

LEMMA InitInv == Init => Inv
<1> SUFFICES ASSUME Init PROVE Inv
  OBVIOUS
<1>1. /\ index = "low" /\ high = 0 /\ low = 0 /\ cells = kclear(PowerOn).cells /\ calls = <<>> /\ step = 0
      /\ high_byte = 0 /\ offset = 0 /\ blink_counter = 0 /\ ideal = kclear(PowerOn)
  BY Zenon DEF Init
<1>2. kclear(PowerOn) = [cells |-> cells, cursor |-> 0] /\ DOMAIN cells = Positions
  BY <1>1, KclearIs DEF ScreenOf
<1>3. /\ 0 \in 0 .. Byte - 1 /\ 0 \in 0 .. Wide - 1 /\ 0 \in 0 .. 3 /\ 0 \in 0 .. BLINK_INTERVAL
      /\ 0 * Byte + 0 = 0 /\ 2 * 0 < Byte /\ 0 # 1 /\ 0 # 3 /\ 0 # 2
  BY ByteEven, WideRange, ConsoleAssumption, SMT
<1>4. TypeOK
  BY <1>1, <1>2, <1>3, Types, Zenon
<1>5. Pending
  BY <1>1, NothingOK, Zenon DEF Pending
<1>6. Faithful
  <2>1. screen = kclear(PowerOn)
    BY <1>1, <1>2, <1>3, Zenon DEF screen
  <2>2. ideal = Run(calls, screen)
    BY <1>1, <2>1, RunNothing, Zenon
  <2>3. step # 1 /\ step # 3 /\ ~(step \in {2, 3}) /\ 2 * high < Byte
    BY <1>1, <1>3
  <2> QED BY <1>1, <2>2, <2>3, Zenon DEF Faithful
<1> QED BY <1>4, <1>5, <1>6 DEF Inv

LEMMA OutputInv ==
  ASSUME Inv, NEW ch \in Text, Output(ch)
  PROVE  Inv'
<1> DEFINE two == <<Get, Put(ch)>>
<1>1. /\ calls = <<>> /\ calls' = two /\ ideal' = kputchar(ideal, ch)
      /\ UNCHANGED <<index, high, low, cells, step, high_byte, offset, blink_counter, hit>>
  BY Zenon DEF Output
<1>2. TypeOK'
  BY <1>1, Zenon DEF Inv, TypeOK
<1>3. ch \in Char
  BY DEF Char
<1>4. /\ ListOK(two) /\ Head(two) = Get /\ two # <<>>
      /\ \A s : Run(two, s) = Do(Put(ch), Do(Get, s))
  <2> DEFINE none == <<>>
             p == <<Put(ch)>> \o none
             gp == <<Get>> \o p
  <2>1. ListOK(none) /\ Len(none) = 0
    BY NothingOK
  <2>2. /\ ListOK(p) /\ Len(p) = Len(none) + 1 /\ Head(p) = Put(ch)
        /\ \A s : Run(p, s) = Run(none, Do(Put(ch), s))
    <3>1. Len(none) <= 5
      BY <2>1, SMT
    <3> QED BY <1>3, <2>1, <3>1, PutCall, First
  <2>3. \A s : Run(none, s) = s
    BY RunNothing
  <2> HIDE DEF none, p
  <2>4. Len(p) <= 5
    BY <2>1, <2>2, SMT
  <2>5. /\ ListOK(gp) /\ Head(gp) = Get /\ gp # <<>>
        /\ \A s : Run(gp, s) = Run(p, Do(Get, s))
    BY <2>2, <2>4, GetCall, First
  <2>6. gp = two
    <3>1. Get \in Call /\ Put(ch) \in Call /\ <<>> \in Seq(Call)
      BY <1>3, GetCall, PutCall, EmptySeq
    <3>2. two \o <<>> = gp
      BY <3>1, Pair DEF p, none
    <3>3. two \in Seq(Call)
      BY <3>1, Pair
    <3> QED BY <3>2, <3>3, ConcatEmptySeq
  <2> HIDE DEF gp, two
  <2> QED BY <2>2, <2>3, <2>5, <2>6
<1> HIDE DEF two
<1>5. Pending'
  <2>1. Head(two).do = "get"
    BY <1>4, GetCall
  <2> QED BY <1>1, <1>4, <2>1 DEF Pending
<1>6. ASSUME ~hit' PROVE Faithful'
  <2>1. Faithful /\ step = 0
    BY <1>1, <1>6 DEF Inv, Pending, TypeOK
  <2>2. screen' = screen
    BY <1>1 DEF screen
  <2>3. ideal = screen
    BY <1>1, <2>1, RunNothing DEF Faithful
  <2>4. ideal' = Run(two, screen)
    BY <1>1, <1>3, <1>4, <2>3, DoGet, DoThePut
  <2>5. ~UsesOffset(Head(two))
    BY <1>4, GetCall DEF UsesOffset
  <2>6. ideal' = Run(calls', screen') /\ ~UsesOffset(Head(calls'))
    BY <1>1, <2>2, <2>4, <2>5
  <2> QED BY <1>1, <2>1, <2>6 DEF Faithful
<1> QED BY <1>2, <1>5, <1>6 DEF Inv

\* The offset is due to be used by a call other than the first only behind a get.
LEMMA Finished ==
  ASSUME Pending, calls # <<>>, Expand(<<>>), step' = 0
  PROVE  /\ calls' = Tail(calls) /\ Pending'
         /\ calls' # <<>> /\ UsesOffset(Head(calls')) => Head(calls).do = "get"
<1>1. calls' = Tail(calls) /\ ListOK(Tail(calls))
      /\ (Tail(calls) # <<>> /\ UsesOffset(Head(Tail(calls))) => Head(calls).do = "get")
  BY FirstCall DEF Expand
<1> QED BY <1>1 DEF Pending

LEMMA DoPutInv ==
  ASSUME Inv, DoPut
  PROVE  Inv'
<1> DEFINE c == Head(calls)
           t == Tail(calls)
           more == CallsOf(c.ch) \o t
<1>1. /\ calls # <<>> /\ c.do = "put" /\ calls' = more
      /\ UNCHANGED <<index, high, low, cells, step, high_byte, offset, blink_counter, ideal, hit>>
  BY Zenon DEF DoPut, Doing, Expand
<1>2. TypeOK /\ Pending /\ TypeOK'
  BY <1>1, Zenon DEF Inv, TypeOK
<1>3. /\ c \in Call /\ ListOK(t) /\ (t # <<>> => ~UsesOffset(Head(t)))
      /\ t = <<>> \/ (c.ch = Space /\ Len(t) <= 2)
      /\ \A s : Run(calls, s) = Run(t, Do(c, s))
  BY <1>1, <1>2, FirstCall
<1>4. c.ch \in Char
  BY <1>1, <1>3, CallFields
<1>5. offset \in Int
  BY <1>2, Types, WideRange, SMT
<1> HIDE DEF c, t, more
<1>6. /\ ListOK(more) /\ ~UsesOffset(Head(more))
      /\ offset = get_cursor(screen) => Run(more, screen) = Run(t, kputchar(screen, c.ch))
  <2> DEFINE s == screen
             ch == c.ch
  <2>4. s.cursor \in Int /\ s = [cells |-> s.cells, cursor |-> s.cursor]
    BY <1>2, ScreenTypes DEF screen
  <2> HIDE DEF s
  <2>2. ch \in Char /\ (t = <<>> \/ (ch = Space /\ Len(t) <= 2)) /\ ListOK(t) /\ (t # <<>> => ~UsesOffset(Head(t)))
    BY <1>3, <1>4, Zenon
  <2> HIDE DEF ch
  <2>3. /\ ListOK(CallsOf(ch) \o t) /\ ~UsesOffset(Head(CallsOf(ch) \o t))
        /\ offset = get_cursor(s) => Run(CallsOf(ch) \o t, s) = Run(t, kputchar(s, ch))
    BY <1>5, <2>2, <2>4, PutCalls
  <2> QED BY <2>3, Zenon DEF more, ch, s
<1>7. step = 0
  BY <1>1, <1>2 DEF Pending, c
<1>8. Pending'
  BY <1>1, <1>6, <1>7 DEF Pending
<1>9. ASSUME ~hit' PROVE Faithful'
  <2>1. Faithful /\ screen' = screen
    BY <1>1, <1>9 DEF Inv, screen
  <2>2. offset = get_cursor(screen)
    BY <1>1, <2>1 DEF Faithful, UsesOffset, c
  <2>3. ideal = Run(more, screen)
    <3>1. Do(c, screen) = kputchar(screen, c.ch)
      BY <1>1, DoFields, Zenon
    <3> QED BY <1>3, <1>6, <2>1, <2>2, <3>1 DEF Faithful
  <2> QED BY <1>1, <1>6, <1>7, <2>1, <2>3 DEF Faithful
<1> QED BY <1>2, <1>8, <1>9 DEF Inv

LEMMA DoMoveInv ==
  ASSUME Inv, DoMove
  PROVE  Inv'
<1> DEFINE c == Head(calls)
           t == Tail(calls)
           m == Set(offset + c.by)
           more == <<m>> \o t
<1>1. /\ calls # <<>> /\ c.do = "move" /\ calls' = more
      /\ UNCHANGED <<index, high, low, cells, step, high_byte, offset, blink_counter, ideal, hit>>
  BY Zenon DEF DoMove, Doing, Expand
<1>2. TypeOK /\ Pending /\ TypeOK'
  BY <1>1, Zenon DEF Inv, TypeOK
<1>3. /\ c \in Call /\ ListOK(t) /\ Len(t) <= 5 /\ (t # <<>> => ~UsesOffset(Head(t)))
      /\ \A s : Run(calls, s) = Run(t, Do(c, s))
  BY <1>1, <1>2, FirstCall
<1>4. offset + c.by \in Int
  <2>1. c.by \in Int
    BY <1>1, <1>3, CallFields
  <2>2. offset \in Int
    BY <1>2, Types, WideRange, SMT
  <2> HIDE DEF c
  <2> QED BY <2>1, <2>2, SMT
<1>5. m \in Call /\ m.do = "set" /\ Do(m, screen) = set_cursor(screen, offset + c.by)
  BY <1>4, SetCall, DoSet
<1> HIDE DEF c, t, m
<1>6. ListOK(more) /\ Head(more) = m /\ more # <<>> /\ Run(more, screen) = Run(t, Do(m, screen))
  <2>1. Len(t) <= 5
    BY <1>3, Zenon
  <2>2. (t # <<>> /\ UsesOffset(Head(t)) => m.do = "get") /\ m.do # "put"
    BY <1>3, <1>5
  <2> QED BY <1>3, <1>5, <2>1, <2>2, First
<1> HIDE DEF more
<1>7. step = 0
  BY <1>1, <1>2 DEF Pending, c
<1>8. Pending'
  BY <1>1, <1>6, <1>7 DEF Pending
<1>9. ASSUME ~hit' PROVE Faithful'
  <2>1. Faithful /\ screen' = screen
    BY <1>1, <1>9 DEF Inv, screen
  <2>2. offset = get_cursor(screen)
    BY <1>1, <2>1 DEF Faithful, UsesOffset, c
  <2>3. ideal = Run(more, screen)
    <3>1. Do(c, screen) = set_cursor(screen, get_cursor(screen) + c.by)
      BY <1>1, DoFields, Zenon
    <3> QED BY <1>3, <1>5, <1>6, <2>1, <2>2, <3>1 DEF Faithful
  <2>4. ~UsesOffset(m)
    BY <1>5 DEF UsesOffset
  <2> QED BY <1>1, <1>6, <1>7, <2>1, <2>3, <2>4 DEF Faithful
<1> QED BY <1>2, <1>8, <1>9 DEF Inv

LEMMA DoMemoryInv ==
  ASSUME Inv, DoMemory
  PROVE  Inv'
<1> DEFINE c == Head(calls)
           t == Tail(calls)
<1>1. /\ calls # <<>> /\ Expand(<<>>)
      /\ \/ c.do = "write" /\ cells' = [cells EXCEPT ![c.at \div 2] = c.ch]
         \/ c.do = "scroll" /\ cells' = Scrolled(cells)
      /\ UNCHANGED <<index, high, low, step, high_byte, offset, blink_counter, ideal, hit>>
  BY Zenon DEF DoMemory, Doing
<1>2. TypeOK /\ Pending
  BY DEF Inv
<1>3. \A s : Run(calls, s) = Run(t, Do(c, s))
  BY <1>1, <1>2, FirstCall
<1>4. step = 0 /\ step' = 0
  BY <1>1, <1>2 DEF Pending
<1>5. calls' = t /\ Pending' /\ ~(calls' # <<>> /\ UsesOffset(Head(calls')))
  <2>1. c.do # "get"
    BY <1>1
  <2> QED BY <1>1, <1>2, <1>4, <2>1, Finished
<1> HIDE DEF c, t
<1>6. DOMAIN cells' = DOMAIN cells
  BY <1>1 DEF Scrolled
<1>7. TypeOK'
  BY <1>1, <1>2, <1>6, Zenon DEF TypeOK
<1>8. screen' = Do(c, screen)
  <2> DEFINE p == high * Byte + low
             s == screen
  <2>1. s = [cells |-> cells, cursor |-> p] /\ s.cells = cells /\ screen' = [cells |-> cells', cursor |-> p]
    BY <1>1 DEF screen
  <2> HIDE DEF p, s
  <2>2. CASE c.do = "write" /\ cells' = [cells EXCEPT ![c.at \div 2] = c.ch]
    <3>1. Do(c, s) = [s EXCEPT !.cells[c.at \div 2] = c.ch]
      BY <2>2, DoFields, Zenon
    <3>2. Do(c, s) = [s EXCEPT !.cells = cells']
      BY <2>1, <2>2, <3>1
    <3> QED BY <2>1, <3>2, RecordExcept, Zenon DEF s
  <2>3. CASE c.do = "scroll" /\ cells' = Scrolled(cells)
    <3>1. Do(c, s) = [s EXCEPT !.cells = cells']
      <4>1. Do(c, s) = [s EXCEPT !.cells = Scrolled(s.cells)]
        BY <2>3, DoFields, Zenon
      <4>2. Scrolled(s.cells) = cells'
        BY <2>1, <2>3
      <4> QED BY <4>1, <4>2
    <3> QED BY <2>1, <3>1, RecordExcept, Zenon DEF s
  <2> QED BY <1>1, <2>2, <2>3
<1>9. ASSUME ~hit' PROVE Faithful'
  <2>1. Faithful
    BY <1>1, <1>9 DEF Inv
  <2>2. ideal' = Run(calls', screen')
    BY <1>1, <1>3, <1>5, <1>8, <2>1, Zenon DEF Faithful
  <2> QED BY <1>1, <1>4, <1>5, <2>1, <2>2 DEF Faithful
<1> QED BY <1>5, <1>7, <1>9 DEF Inv

LEMMA SelectInv ==
  ASSUME Inv, Select
  PROVE  Inv'
<1>1. /\ calls # <<>> /\ Head(calls).do \in {"get", "set"} /\ step \in {0, 2}
      /\ index' = (IF step = 0 THEN "high" ELSE "low") /\ step' = step + 1
      /\ UNCHANGED <<high, low, cells, calls, high_byte, offset, blink_counter, ideal, hit>>
  BY DEF Select, Doing
<1>2. (step = 0 /\ step' = 1) \/ (step = 2 /\ step' = 3)
  BY <1>1, SMT
<1>3. step' \in 0 .. 3
  BY <1>2, SMT
<1>4. TypeOK'
  BY <1>1, <1>3, Zenon DEF Inv, TypeOK
<1>5. Pending'
  BY <1>1 DEF Inv, Pending
<1>6. ASSUME ~hit' PROVE Faithful'
  <2>1. Faithful /\ screen' = screen
    BY <1>1, <1>6 DEF Inv, screen
  <2>2. step' = 1 => index' = "high"
    BY <1>1, <1>2
  <2>3. step' = 3 => index' = "low"
    BY <1>1, <1>2
  <2>4. step' \in {2, 3} => step \in {2, 3}
    BY <1>2
  <2> QED BY <1>1, <2>1, <2>2, <2>3, <2>4, Zenon DEF Faithful
<1> QED BY <1>4, <1>5, <1>6 DEF Inv

LEMMA ReadHighInv ==
  ASSUME Inv, ReadHigh
  PROVE  Inv'
<1>1. /\ calls # <<>> /\ Head(calls).do = "get" /\ step = 1
      /\ high_byte' = Selected /\ step' = 2
      /\ UNCHANGED <<index, high, low, cells, calls, offset, blink_counter, ideal, hit>>
  BY DEF ReadHigh, Doing
<1>2. Selected \in 0 .. Byte - 1
  BY Types DEF Inv, Selected
<1>3. TypeOK'
  <2>1. step' \in 0 .. 3
    BY <1>1, SMT
  <2> QED BY <1>1, <1>2, <2>1, Zenon DEF Inv, TypeOK
<1>4. Pending'
  BY <1>1 DEF Inv, Pending
<1>5. ASSUME ~hit' PROVE Faithful'
  <2>1. Faithful /\ screen' = screen
    BY <1>1, <1>5 DEF Inv, screen
  <2>2. high_byte' = high
    BY <1>1, <2>1 DEF Faithful, Selected
  <2>3. step' # 1 /\ step' # 3 /\ Head(calls).do # "set"
    BY <1>1
  <2> QED BY <1>1, <2>1, <2>2, <2>3, Zenon DEF Faithful
<1> QED BY <1>3, <1>4, <1>5 DEF Inv

LEMMA ReadLowInv ==
  ASSUME Inv, ReadLow
  PROVE  Inv'
<1>1. /\ calls # <<>> /\ Head(calls).do = "get" /\ step = 3
      /\ offset' = ((high_byte * Byte + Selected) * 2) % Wide
      /\ step' = 0 /\ Expand(<<>>)
      /\ UNCHANGED <<index, high, low, cells, high_byte, blink_counter, ideal, hit>>
  BY DEF ReadLow, Doing
<1>2. offset' \in 0 .. Wide - 1
  <2>1. high_byte \in Nat /\ Selected \in Nat /\ Byte \in Nat
    BY Types, ByteEven, SMT DEF Inv, Selected
  <2>2. (high_byte * Byte + Selected) * 2 \in Nat
    BY <2>1, SMT
  <2> QED BY <1>1, <2>2, WideRange, SMT
<1>3. TypeOK'
  <2>1. step' \in 0 .. 3
    BY <1>1, SMT
  <2> QED BY <1>1, <1>2, <2>1, Zenon DEF Inv, TypeOK
<1>4. calls' = Tail(calls) /\ Pending'
  BY <1>1, Finished DEF Inv
<1>5. ASSUME ~hit' PROVE Faithful'
  <2>1. Faithful /\ screen' = screen
    BY <1>1, <1>5 DEF Inv, screen
  <2>2. offset' = get_cursor(screen)
    <3>1. high_byte = high /\ Selected = low
      BY <1>1, <2>1 DEF Faithful, Selected
    <3> QED BY <1>1, <3>1 DEF get_cursor, screen
  <2>3. ideal' = Run(calls', screen')
    <3>1. Do(Head(calls), screen) = screen
      BY <1>1, DoFields, Zenon
    <3>2. Run(calls, screen) = Run(Tail(calls), Do(Head(calls), screen))
      BY <1>1, FirstCall DEF Inv
    <3> QED BY <1>1, <1>4, <2>1, <3>1, <3>2, Zenon DEF Faithful
  <2>4. step' # 1 /\ step' # 3 /\ ~(step' \in {2, 3})
    BY <1>1
  <2> QED BY <1>1, <2>1, <2>2, <2>3, <2>4, Zenon DEF Faithful
<1> QED BY <1>3, <1>4, <1>5 DEF Inv

LEMMA WriteHighInv ==
  ASSUME Inv, WriteHigh
  PROVE  Inv'
<1> DEFINE v == Head(calls).pos \div Byte
<1>1. /\ calls # <<>> /\ Head(calls).do = "set" /\ step = 1 /\ step' = 2
      /\ high' = (IF index = "high" THEN v ELSE high) /\ low' = (IF index = "low" THEN v ELSE low)
      /\ UNCHANGED <<index, cells, calls, high_byte, offset, blink_counter, ideal, hit>>
  BY DEF WriteHigh, WriteByte, Doing
<1>2. v \in 0 .. Byte - 1 /\ 2 * v < Byte
  <2>1. Head(calls).pos \in Positions
    BY <1>1, FirstCall, CallFields DEF Inv
  <2> QED BY <2>1, Split
<1> HIDE DEF v
<1>3. TypeOK'
  <2>1. step' \in 0 .. 3
    BY <1>1, SMT
  <2>2. high' \in 0 .. Byte - 1 /\ low' \in 0 .. Byte - 1
    BY <1>1, <1>2, Types, Zenon DEF Inv
  <2> QED BY <1>1, <2>1, <2>2, Zenon DEF Inv, TypeOK
<1>4. Pending'
  BY <1>1 DEF Inv, Pending
<1>5. ASSUME ~hit' PROVE Faithful'
  <2>1. Faithful
    BY <1>1, <1>5 DEF Inv
  <2>2. index = "high" /\ high' = v /\ low' = low
    BY <1>1, <2>1 DEF Faithful
  <2>3. ideal' = Run(calls', screen')
    <3> DEFINE pos == Head(calls).pos
               t == Tail(calls)
               c == Head(calls)
               s == screen
               z == screen'
    <3>1. \A x : Run(calls, x) = Run(t, Do(c, x))
      BY <1>1, FirstCall DEF Inv
    <3>2. /\ s = [cells |-> cells, cursor |-> high * Byte + low]
          /\ z = [cells |-> cells, cursor |-> high' * Byte + low']
      BY <1>1 DEF screen
    <3>3. ideal' = Run(calls, s) /\ calls' = calls
      BY <1>1, <2>1 DEF Faithful
    <3>4. Do(c, s) = [s EXCEPT !.cursor = pos] /\ Do(c, z) = [z EXCEPT !.cursor = pos]
      BY <1>1, DoFields, Zenon
    <3> HIDE DEF pos, t, c, s, z
    <3>5. Do(c, s) = Do(c, z)
      <4>1. [s EXCEPT !.cursor = pos] = [cells |-> cells, cursor |-> pos]
        BY <3>2, RecordExcept
      <4>2. [z EXCEPT !.cursor = pos] = [cells |-> cells, cursor |-> pos]
        BY <3>2, RecordExcept
      <4> QED BY <3>4, <4>1, <4>2, Zenon
    <3>6. Run(calls, s) = Run(calls, z)
      BY <3>1, <3>5, Zenon
    <3> QED BY <3>3, <3>6, Zenon DEF z
  <2>4. step' # 1 /\ step' # 3 /\ Head(calls).do # "get" /\ ~UsesOffset(Head(calls))
    BY <1>1 DEF UsesOffset
  <2>5. 2 * high' < Byte
    BY <1>2, <2>2
  <2> QED BY <1>1, <2>2, <2>3, <2>4, <2>5, Zenon DEF Faithful, v
<1> QED BY <1>3, <1>4, <1>5 DEF Inv

LEMMA WriteLowInv ==
  ASSUME Inv, WriteLow
  PROVE  Inv'
<1> DEFINE pos == Head(calls).pos
           v == pos % Byte
<1>1. /\ calls # <<>> /\ Head(calls).do = "set" /\ step = 3 /\ step' = 0 /\ Expand(<<>>)
      /\ high' = (IF index = "high" THEN v ELSE high) /\ low' = (IF index = "low" THEN v ELSE low)
      /\ UNCHANGED <<index, cells, high_byte, offset, blink_counter, ideal, hit>>
  BY DEF WriteLow, WriteByte, Doing
<1>2. v \in 0 .. Byte - 1 /\ (pos \div Byte) * Byte + v = pos
  <2>1. Head(calls).pos \in Positions
    BY <1>1, FirstCall, CallFields DEF Inv
  <2> QED BY <2>1, Split
<1> HIDE DEF v
<1>3. TypeOK'
  <2>1. step' \in 0 .. 3
    BY <1>1, SMT
  <2>2. high' \in 0 .. Byte - 1 /\ low' \in 0 .. Byte - 1
    BY <1>1, <1>2, Types, Zenon DEF Inv
  <2> QED BY <1>1, <2>1, <2>2, Zenon DEF Inv, TypeOK
<1>4. /\ calls' = Tail(calls) /\ Pending'
      /\ ~(calls' # <<>> /\ UsesOffset(Head(calls')))
  BY <1>1, Finished DEF Inv
<1>5. ASSUME ~hit' PROVE Faithful'
  <2>1. Faithful
    BY <1>1, <1>5 DEF Inv
  <2>2. high' = high /\ low' = v /\ high = pos \div Byte /\ 2 * high < Byte
    BY <1>1, <2>1 DEF Faithful
  <2>3. ideal' = Run(calls', screen')
    <3> DEFINE s == screen
               c == Head(calls)
    <3>1. Run(calls, s) = Run(Tail(calls), Do(c, s))
      BY <1>1, FirstCall DEF Inv
    <3>2. Do(c, s) = [s EXCEPT !.cursor = pos]
      BY <1>1, DoFields, Zenon
    <3>3. s = [cells |-> cells, cursor |-> high * Byte + low]
      BY DEF screen
    <3>4. screen' = [cells |-> cells, cursor |-> pos]
      BY <1>1, <1>2, <2>2, Zenon DEF screen
    <3>5. ideal' = Run(calls, s)
      BY <1>1, <2>1 DEF Faithful
    <3> HIDE DEF s, c, pos
    <3>6. Do(c, s) = screen'
      BY <3>2, <3>3, <3>4, RecordExcept, Zenon
    <3> QED BY <1>4, <3>1, <3>5, <3>6, Zenon
  <2>4. step' # 1 /\ step' # 3 /\ ~(step' \in {2, 3})
    BY <1>1
  <2>5. 2 * high' < Byte
    BY <2>2, Zenon
  <2> QED BY <1>4, <2>3, <2>4, <2>5, Zenon DEF Faithful
<1> QED BY <1>3, <1>4, <1>5 DEF Inv

LEMMA TimerInv ==
  ASSUME Inv, apic_handler
  PROVE  Inv'
<1>1. CASE TimerCounts
  <2>1. /\ ~(blink_counter + 1 >= BLINK_INTERVAL) /\ blink_counter' = blink_counter + 1
        /\ UNCHANGED <<index, high, low, cells, calls, step, high_byte, offset, ideal, hit>>
    BY <1>1 DEF TimerCounts, Blinks, thread
  <2>2. blink_counter' \in 0 .. BLINK_INTERVAL
    BY <2>1, Types, ConsoleAssumption, SMT DEF Inv
  <2>3. TypeOK'
    BY <2>1, <2>2, Zenon DEF Inv, TypeOK
  <2>4. screen' = screen
    BY <2>1 DEF screen
  <2>5. Pending' /\ (Faithful => Faithful')
    BY <2>1, <2>4, Zenon DEF Inv, Pending, Faithful
  <2> QED BY <2>1, <2>3, <2>5, Zenon DEF Inv
<1>2. CASE TimerBlinks
  <2>1. /\ blink_counter' = 0 /\ high' = Rewritten \div Byte /\ low' = Rewritten % Byte
        /\ index' = "low" /\ hit' = (hit \/ step = 1)
        /\ UNCHANGED <<cells, calls, step, high_byte, offset, ideal>>
    BY <1>2 DEF TimerBlinks, thread
  <2>2. Rewritten \in Positions
    <3>1. high \in Nat /\ low \in Nat /\ Byte \in Nat
      BY Types, ByteEven, SMT DEF Inv
    <3>2. (high * Byte + low) * 2 \in Int
      BY <3>1, SMT
    <3> QED BY <3>2, CutToPosition DEF Rewritten
  <2>3. TypeOK'
    <3>1. high' \in 0 .. Byte - 1 /\ low' \in 0 .. Byte - 1
      BY <2>1, <2>2, Split
    <3>2. blink_counter' \in 0 .. BLINK_INTERVAL
      BY <2>1, ConsoleAssumption, SMT
    <3> QED BY <2>1, <3>1, <3>2, Zenon DEF Inv, TypeOK
  <2>4. Pending'
    BY <2>1, Zenon DEF Inv, Pending
  <2>5. ASSUME ~hit' PROVE Faithful'
    <3>1. Faithful /\ step # 1
      BY <2>1, <2>5, Zenon DEF Inv
    <3>2. high' = high /\ low' = low
      <4>1. high \in Nat /\ low \in 0 .. Byte - 1 /\ 2 * high < Byte
        BY <3>1, Types, SMT DEF Inv, Faithful
      <4>2. /\ (high * Byte + low) \div Byte = high /\ (high * Byte + low) % Byte = low
            /\ ((high * Byte + low) * 2) % Wide = (high * Byte + low) * 2
            /\ ((high * Byte + low) * 2) \div 2 = high * Byte + low
        BY <4>1, Join
      <4>3. Rewritten = high * Byte + low
        BY <4>2, Zenon DEF Rewritten
      <4> QED BY <2>1, <4>2, <4>3, Zenon
    <3>3. screen' = screen
      BY <2>1, <3>2 DEF screen
    <3> QED BY <2>1, <3>1, <3>2, <3>3, Zenon DEF Faithful
  <2> QED BY <2>3, <2>4, <2>5 DEF Inv
<1> QED BY <1>1, <1>2 DEF apic_handler

LEMMA StepInv == Inv /\ [Next]_vars => Inv'
<1> SUFFICES ASSUME Inv, [Next]_vars PROVE Inv'
  OBVIOUS
<1>1. CASE Thread
  <2>1. CASE \E ch \in Text : Output(ch)
    BY <2>1, OutputInv
  <2>2. CASE DoPut \/ DoMove \/ DoMemory
    BY <2>2, DoPutInv, DoMoveInv, DoMemoryInv
  <2>3. CASE Select \/ ReadHigh \/ ReadLow \/ WriteHigh \/ WriteLow
    BY <2>3, SelectInv, ReadHighInv, ReadLowInv, WriteHighInv, WriteLowInv
  <2> QED BY <1>1, <2>1, <2>2, <2>3, Zenon DEF Thread
<1>2. CASE apic_handler
  BY <1>2, TimerInv
<1>3. CASE UNCHANGED vars
  <2>1. UNCHANGED <<index, high, low, cells, calls, step, high_byte, offset, blink_counter, ideal, hit>>
    BY <1>3 DEF vars, thread
  <2>2. screen' = screen
    BY <2>1 DEF screen
  <2>3. TypeOK' /\ Pending' /\ (Faithful => Faithful')
    BY <2>1, <2>2, Zenon DEF Inv, TypeOK, Pending, Faithful
  <2> QED BY <2>1, <2>3, Zenon DEF Inv
<1> QED BY <1>1, <1>2, <1>3, Zenon DEF Next

\* The invariant holds of every behaviour of kputchar and the timer handler.
THEOREM ConsoleInv == Spec => []Inv
BY InitInv, StepInv, PTL DEF Spec

\* The registers and the locals of the thread keep their types, with timer
\* interrupts anywhere: bytes stay bytes and offsets stay in 16 bits (vga.c:86-102).
THEOREM ConsoleTypes == Spec => []TypeOK
<1>1. Inv => TypeOK
  BY DEF Inv
<1> QED BY <1>1, ConsoleInv, PTL

\* However many interrupts come, and wherever in kputchar: when none of them fell
\* between the select of the high byte and its access, the screen is the one that
\* printing without interrupts leaves (apic.c:63).
THEOREM ConsoleHarmless == Spec => []HarmlessUnlessHit
<1>1. Inv => HarmlessUnlessHit
  <2> SUFFICES ASSUME Inv, ~hit, calls = <<>> PROVE screen = ideal
    BY DEF HarmlessUnlessHit, BlinkingIsHarmless
  <2>1. ideal = Run(calls, screen)
    BY DEF Inv, Faithful
  <2> QED BY <2>1, RunNothing, Zenon
<1> QED BY <1>1, ConsoleInv, PTL

-----------------------------------------------------------------------------
(* What kputchar does to the screen that is due *)

\* In a window with room it does what a terminal does.
LEMMA PutReference ==
  ASSUME NEW s, IsScreen(s), NEW ch, HasRoom(s, ch)
  PROVE  kputchar(s, ch) = Reference(s, ch)
<1>1. PICK g : g = s.cells
  OBVIOUS
<1>2. PICK p : p = s.cursor
  OBVIOUS
<1>3. s = ScreenOf(g, p) /\ Grid(g) /\ p \in Positions
  BY <1>1, <1>2, ScreenParts
<1>4. /\ \A q : [s EXCEPT !.cursor = q] = ScreenOf(g, q)
      /\ \A h, q : [cells |-> h, cursor |-> q] = ScreenOf(h, q)
  BY <1>3 DEF ScreenOf
<1>5. p \in Nat /\ Window \in Nat
  BY <1>3, PositionsInNat, RowsAndColumns
<1>6. CASE ch = "NL"
  <2>1. p < Window
    BY <1>2, <1>6 DEF HasRoom
  <2>2. kputchar(s, ch) = NewLine(s)
    BY <1>6 DEF kputchar
  <2>3. Reference(s, ch) = IF p < Window - MAX_COLS
                           THEN ScreenOf(g, (p \div MAX_COLS + 1) * MAX_COLS)
                           ELSE ScreenOf(FirstRowRepeated(g), Window - MAX_COLS)
    BY <1>1, <1>2, <1>4, <1>6 DEF Reference
  <2>4. CASE p < Window - MAX_COLS
    BY <1>3, <2>2, <2>3, <2>4, NewLineIs
  <2>5. CASE ~(p < Window - MAX_COLS)
    BY <1>3, <2>1, <2>2, <2>3, <2>5, NewLineIs
  <2> QED BY <2>4, <2>5
<1>7. CASE ch = "BS"
  <2>1. p \in 1 .. Window
    BY <1>2, <1>7 DEF HasRoom
  <2>2. p > 0 /\ p # Window + 1
    BY <1>5, <2>1, SMT
  <2>3. kputchar(s, ch) = ScreenOf([g EXCEPT ![p - 1] = Space], p - 1)
    BY <1>3, <1>7, <2>2, BackspaceIs DEF kputchar
  <2>4. Reference(s, ch) = ScreenOf([g EXCEPT ![p - 1] = Space], p - 1)
    BY <1>1, <1>2, <1>4, <1>7 DEF Reference
  <2> QED BY <2>3, <2>4
<1>8. CASE ch # "NL" /\ ch # "BS"
  <2>1. p < Window
    BY <1>2, <1>8 DEF HasRoom
  <2>2. p # Window /\ p + 1 \in 0 .. Window + 1
    BY <1>5, <2>1, SMT
  <2>3. ((2 * p + 2) % Wide) \div 2 = p + 1
    BY <1>3, <2>2, WindowInside, Halves
  <2>4. kputchar(s, ch) = ScreenOf([g EXCEPT ![p] = ch], p + 1)
    BY <1>3, <1>8, <2>2, <2>3, TypeIs DEF kputchar
  <2>5. Reference(s, ch) = ScreenOf([g EXCEPT ![p] = ch], p + 1)
    BY <1>1, <1>2, <1>4, <1>8 DEF Reference
  <2> QED BY <2>4, <2>5
<1> QED BY <1>6, <1>7, <1>8

\* From the middle of the window the cursor stays within its ends.
LEMMA PutStays ==
  ASSUME NEW s, IsScreen(s), NEW ch, s.cursor \in 1 .. Window - 1
  PROVE  kputchar(s, ch).cursor <= Window
<1>1. PICK p : p = s.cursor
  OBVIOUS
<1>2. p \in 1 .. Window - 1 /\ Window \in Nat /\ MAX_COLS \in Nat /\ MAX_COLS > 0
  BY <1>1, RowsAndColumns
<1>3. p \in 1 .. Window /\ p < Window
  BY <1>2, SMT
<1>4. HasRoom(s, ch)
  BY <1>1, <1>3 DEF HasRoom
<1>5. kputchar(s, ch) = Reference(s, ch)
  BY <1>4, PutReference
<1>6. PICK q : q = (p \div MAX_COLS + 1) * MAX_COLS
  OBVIOUS
<1>7. p < Window - MAX_COLS => q \in 0 .. Window
  <2>1. Grid(s.cells) /\ p \in Positions
    BY <1>1, ScreenParts
  <2> QED BY <1>6, <2>1, NewLineIs
<1>8. kputchar(s, ch).cursor \in {q, Window - MAX_COLS, p - 1, p + 1}
  BY <1>1, <1>5, <1>6 DEF Reference, IsScreen
<1>9. kputchar(s, ch).cursor = q => p < Window - MAX_COLS \/ q \in {Window - MAX_COLS, p - 1, p + 1}
  <2>1. CASE p < Window - MAX_COLS
    BY <2>1
  <2>2. CASE ~(p < Window - MAX_COLS)
    <3>1. kputchar(s, ch).cursor \in {Window - MAX_COLS, p - 1, p + 1}
      BY <1>1, <1>5, <2>2 DEF Reference, IsScreen
    <3> QED BY <3>1
  <2> QED BY <2>1, <2>2
<1>10. PICK x : x = kputchar(s, ch).cursor
  OBVIOUS
<1>11. \A y \in {Window - MAX_COLS, p - 1, p + 1} : y <= Window
  BY <1>2, <1>3, SMT
<1>12. x <= Window
  BY <1>2, <1>7, <1>8, <1>9, <1>10, <1>11, SMT
<1> QED BY <1>10, <1>12

\* Behind the window it does not touch the window, with the exception of a
\* backspace one behind its end.
LEMMA PutBehind ==
  ASSUME NEW s, IsScreen(s), NEW ch, s.cursor > Window, s.cursor # Window + 1
  PROVE  \A i \in 0 .. Window - 1 : kputchar(s, ch).cells[i] = s.cells[i]
<1>1. PICK g : g = s.cells
  OBVIOUS
<1>2. PICK p : p = s.cursor
  OBVIOUS
<1>3. s = ScreenOf(g, p) /\ Grid(g) /\ p \in Positions
  BY <1>1, <1>2, ScreenParts
<1>4. p \in Nat /\ Window \in Nat /\ p > Window /\ p # Window + 1
  BY <1>2, <1>3, PositionsInNat, RowsAndColumns
<1>5. ~(p < Window) /\ p # Window /\ p > 0
  BY <1>4, SMT
<1>6. \A i \in 0 .. Window - 1 : i \in Positions /\ i # p /\ i # p - 1
  <2>1. \A i \in 0 .. Window - 1 : i \in 0 .. Window + 1 /\ i # p /\ i # p - 1
    BY <1>4, SMT
  <2> QED BY <2>1, WindowInside
<1>7. \A h, q : ScreenOf(h, q).cells = h
  BY DEF ScreenOf
<1>8. CASE ch = "NL"
  <2>1. PICK q \in Positions : NewLine(s) = ScreenOf(g, q)
    BY <1>3, <1>5, NewLineIs
  <2> QED BY <1>1, <1>7, <1>8, <2>1 DEF kputchar
<1>9. CASE ch = "BS"
  <2>1. PICK h : h = [g EXCEPT ![p - 1] = Space]
    OBVIOUS
  <2>2. kputchar(s, ch) = ScreenOf(h, p - 1)
    BY <1>3, <1>4, <1>5, <1>9, <2>1, BackspaceIs DEF kputchar
  <2>3. \A i \in Positions : i # p - 1 => h[i] = g[i]
    BY <1>3, <2>1, GridChanged
  <2>4. kputchar(s, ch).cells = h
    BY <1>7, <2>2
  <2> QED BY <1>1, <1>6, <2>3, <2>4, Zenon
<1>10. CASE ch # "NL" /\ ch # "BS"
  <2>1. PICK h : h = [g EXCEPT ![p] = ch]
    OBVIOUS
  <2>2. kputchar(s, ch) = ScreenOf(h, ((2 * p + 2) % Wide) \div 2)
    BY <1>3, <1>5, <1>10, <2>1, TypeIs DEF kputchar
  <2>3. \A i \in Positions : i # p => h[i] = g[i]
    BY <1>3, <2>1, GridChanged
  <2>4. kputchar(s, ch).cells = h
    BY <1>7, <2>2
  <2> QED BY <1>1, <1>6, <2>3, <2>4, Zenon
<1> QED BY <1>8, <1>9, <1>10

-----------------------------------------------------------------------------

\* What should be on the screen is a screen.
LEMMA IdealInit == Init => IsScreen(ideal)
<1> SUFFICES ASSUME Init PROVE IsScreen(ideal)
  OBVIOUS
<1>1. 0 \in Positions
  BY WindowInside, RowsAndColumns, SMT
<1>2. PICK g : ideal = ScreenOf(g, 0) /\ Grid(g)
  BY KclearIs DEF Init
<1> QED BY <1>1, <1>2, MadeScreen

\* It changes when a character is printed, and then as kputchar says.
LEMMA IdealStep ==
  ASSUME [Next]_vars
  PROVE  UNCHANGED ideal \/ \E ch \in Text : ideal' = kputchar(ideal, ch)
<1>1. CASE \E ch \in Text : Output(ch)
  BY <1>1 DEF Output
<1>2. CASE UNCHANGED vars
  BY <1>2 DEF vars
<1>3. CASE apic_handler
  BY <1>3 DEF apic_handler, TimerCounts, TimerBlinks
<1>4. CASE DoPut \/ DoMove \/ DoMemory \/ Select \/ ReadHigh \/ ReadLow \/ WriteHigh \/ WriteLow
  BY <1>4 DEF DoPut, DoMove, DoMemory, Select, ReadHigh, ReadLow, WriteHigh, WriteLow
<1> QED BY <1>1, <1>2, <1>3, <1>4 DEF Next, Thread

LEMMA IdealScreen == IsScreen(ideal) /\ [Next]_vars => IsScreen(ideal)'
<1> SUFFICES ASSUME IsScreen(ideal), [Next]_vars PROVE IsScreen(ideal')
  OBVIOUS
<1>1. CASE UNCHANGED ideal
  BY <1>1
<1>2. CASE \E ch \in Text : ideal' = kputchar(ideal, ch)
  BY <1>2, PutScreen
<1> QED BY <1>1, <1>2, IdealStep

\* kputchar does what a terminal does wherever the window has room, in windows
\* of every size: the three calls of a backspace, the row arithmetic of a
\* newline and the row by row copies of a scroll add up to it.
THEOREM ConsolePrints == Spec => PrintsWithinWindow
<1>1. ASSUME IsScreen(ideal), [Next]_vars, NEW ch \in Text, Output(ch), HasRoom(ideal, ch)
      PROVE  ideal' = Reference(ideal, ch)
  <2>1. ideal' = kputchar(ideal, ch)
    BY <1>1 DEF Output
  <2> QED BY <1>1, <2>1, PutReference
<1>2. IsScreen(ideal) /\ [Next]_vars
        => [\A ch \in Text : (Output(ch) /\ HasRoom(ideal, ch)) => ideal' = Reference(ideal, ch)]_vars
  BY <1>1
<1> QED BY <1>2, IdealInit, IdealScreen, PTL DEF Spec, PrintsWithinWindow

\* The cursor leaves the window from its ends only, and behind them the window is
\* not written until a backspace comes back to its end.
THEOREM ConsoleLoses == Spec => LostBehindEnds
<1> DEFINE Leaves == (ideal.cursor <= Window /\ ideal'.cursor > Window) => ideal.cursor \in {0, Window}
           Loses == (ideal.cursor > Window /\ \E i \in 0 .. Window - 1 : ideal'.cells[i] # ideal.cells[i])
                      => ideal.cursor = Window + 1
<1>1. ASSUME IsScreen(ideal), [Next]_vars PROVE Leaves /\ Loses
  <2>1. PICK p : p = ideal.cursor
    OBVIOUS
  <2>2. p \in Nat /\ Window \in Nat
    BY <1>1, <2>1, PositionsInNat, RowsAndColumns DEF IsScreen
  <2>3. CASE UNCHANGED ideal
    <3>1. ~(p <= Window /\ p > Window)
      BY <2>2, SMT
    <3> QED BY <2>1, <2>3, <3>1
  <2>4. ASSUME NEW ch \in Text, ideal' = kputchar(ideal, ch) PROVE Leaves /\ Loses
    <3>1. Leaves
      <4> SUFFICES ASSUME p <= Window, ideal'.cursor > Window, p \notin {0, Window} PROVE FALSE
        BY <2>1
      <4>1. p \in 1 .. Window - 1
        BY <2>2, SMT
      <4>2. ideal'.cursor <= Window
        BY <1>1, <2>1, <2>4, <4>1, PutStays
      <4>3. PICK q : q = ideal'.cursor
        OBVIOUS
      <4>4. q \in Nat
        <5>1. IsScreen(ideal')
          BY <1>1, IdealScreen
        <5> QED BY <4>3, <5>1, PositionsInNat DEF IsScreen
      <4> QED BY <2>2, <4>2, <4>3, <4>4, SMT
    <3>2. Loses
      BY <1>1, <2>1, <2>4, PutBehind
    <3> QED BY <3>1, <3>2
  <2> QED BY <1>1, <2>3, <2>4, IdealStep
<1>2. IsScreen(ideal) /\ [Next]_vars => [Leaves /\ Loses]_vars
  BY <1>1
<1> QED BY <1>2, IdealInit, IdealScreen, PTL DEF Spec, LostBehindEnds
=============================================================================
