---------------------------- MODULE KscanProofs ----------------------------
(***************************************************************************)
(* The line kscan edits, for every set of keys, any number of events and   *)
(* every window: its index arithmetic on kscan_buf and kscan_pos is that   *)
(* of an editor, it returns the line that Enter was pressed on, and the   *)
(* screen shows the line while it is edited.                               *)
(***************************************************************************)
EXTENDS Kscan, TerminalProofs

-----------------------------------------------------------------------------
(* Strings in a buffer *)

Index == 0 .. BufSize - 1
Buffers == [Index -> TableChars]
Chars == TableChars \ {NUL}

\* The string in buf has n chars.
IsString(buf, n) == n \in Index /\ buf[n] = NUL /\ \A i \in 0 .. n - 1 : buf[i] # NUL

LEMMA IndexIsNat == BufSize \in Nat /\ BufSize >= 1 /\ Index = 0 .. BufSize - 1
BY KscanAssumption DEF Index

\* strlen finds the first NUL, which there is only one of.
LEMMA StrlenIs ==
  ASSUME NEW buf \in Buffers, NEW n, IsString(buf, n)
  PROVE  strlen(buf) = n
<1>1. DOMAIN buf = Index /\ Index \subseteq Nat
  BY IndexIsNat DEF Buffers
<1> DEFINE First(m) == buf[m] = NUL /\ \A i \in 0 .. m - 1 : buf[i] # NUL
<1>2. n \in Index /\ First(n)
  BY DEF IsString
<1>3. ASSUME NEW m \in Index, First(m) PROVE m = n
  <2>1. m \in Nat /\ n \in Nat
    BY <1>1, <1>2
  <2>2. m < n => m \in 0 .. n - 1
    BY <2>1
  <2>3. n < m => n \in 0 .. m - 1
    BY <2>1
  <2>4. ~(m < n) /\ ~(n < m)
    BY <1>2, <1>3, <2>2, <2>3
  <2> QED BY <2>1, <2>4
<1>4. strlen(buf) = CHOOSE m \in Index : First(m)
  BY <1>1 DEF strlen
<1> HIDE DEF First
<1> QED BY <1>2, <1>3, <1>4

\* Line, and the parts of it before and behind a position.
LEMMA LineIs ==
  ASSUME NEW buf \in Buffers, NEW n, IsString(buf, n)
  PROVE  /\ Line(buf) \in Seq(Chars)
         /\ Len(Line(buf)) = n
         /\ \A i \in 1 .. n : Line(buf)[i] = buf[i - 1]
<1>1. n \in Nat /\ n \in Index /\ Index \subseteq Nat
  BY IndexIsNat DEF IsString
<1>2. Line(buf) = [i \in 1 .. n |-> buf[i - 1]]
  BY StrlenIs DEF Line
<1>3. ASSUME NEW i \in 1 .. n PROVE buf[i - 1] \in Chars
  <2>1. i - 1 \in 0 .. n - 1 /\ i - 1 \in Index
    BY <1>1, IndexIsNat
  <2> QED BY <2>1 DEF IsString, Buffers, Chars
<1>4. Line(buf) \in [1 .. n -> Chars]
  BY <1>2, <1>3
<1>5. Line(buf) \in Seq(Chars) /\ Len(Line(buf)) = n
  BY <1>1, <1>4
<1> QED BY <1>2, <1>5

Left(buf, pos) == SubSeq(Line(buf), 1, pos)
Right(buf, pos) == SubSeq(Line(buf), pos + 1, strlen(buf))

LEMMA LeftIs ==
  ASSUME NEW buf \in Buffers, NEW n, IsString(buf, n), NEW pos \in 0 .. n
  PROVE  /\ Left(buf, pos) \in Seq(Chars)
         /\ Len(Left(buf, pos)) = pos
         /\ \A i \in 1 .. pos : Left(buf, pos)[i] = buf[i - 1]
<1>1. n \in Nat /\ pos \in Nat /\ pos <= n /\ pos \in Int /\ 1 \in Int
  BY IndexIsNat DEF IsString
<1>2. /\ Line(buf) \in Seq(Chars)
      /\ Len(Line(buf)) = n
      /\ \A i \in 1 .. n : Line(buf)[i] = buf[i - 1]
  BY LineIs
<1> DEFINE l == Line(buf)
<1> HIDE DEF l
<1>3. \A i \in 1 .. pos : l[i] \in Chars
  BY <1>1, <1>2, ElementOfSeq DEF l
<1>4. /\ SubSeq(l, 1, pos) \in Seq(Chars)
      /\ Len(SubSeq(l, 1, pos)) = IF 1 <= pos THEN pos - 1 + 1 ELSE 0
      /\ \A i \in 1 .. pos - 1 + 1 : SubSeq(l, 1, pos)[i] = l[1 + i - 1]
  BY <1>1, <1>3, SubSeqProperties
<1>5. \A i \in 1 .. pos : SubSeq(l, 1, pos)[i] = buf[i - 1]
  BY <1>1, <1>2, <1>4 DEF l
<1>6. Len(SubSeq(l, 1, pos)) = pos
  BY <1>1, <1>4
<1> QED BY <1>4, <1>5, <1>6 DEF Left, l

LEMMA RightIs ==
  ASSUME NEW buf \in Buffers, NEW n, IsString(buf, n), NEW pos \in 0 .. n
  PROVE  /\ Right(buf, pos) \in Seq(Chars)
         /\ Len(Right(buf, pos)) = n - pos
         /\ \A i \in 1 .. n - pos : Right(buf, pos)[i] = buf[pos + i - 1]
<1>1. n \in Nat /\ pos \in Nat /\ pos <= n /\ pos + 1 \in Int /\ n \in Int
  BY IndexIsNat DEF IsString
<1>2. /\ Line(buf) \in Seq(Chars)
      /\ Len(Line(buf)) = n
      /\ \A i \in 1 .. n : Line(buf)[i] = buf[i - 1]
  BY LineIs
<1> DEFINE l == Line(buf)
<1> HIDE DEF l
<1>3. \A i \in pos + 1 .. n : l[i] \in Chars
  BY <1>1, <1>2, ElementOfSeq DEF l
<1>4. /\ SubSeq(l, pos + 1, n) \in Seq(Chars)
      /\ Len(SubSeq(l, pos + 1, n)) = IF pos + 1 <= n THEN n - (pos + 1) + 1 ELSE 0
      /\ \A i \in 1 .. n - (pos + 1) + 1 : SubSeq(l, pos + 1, n)[i] = l[pos + 1 + i - 1]
  BY <1>1, <1>3, SubSeqProperties
<1>5. ASSUME NEW i \in 1 .. n - pos PROVE SubSeq(l, pos + 1, n)[i] = buf[pos + i - 1]
  <2>1. i \in 1 .. n - (pos + 1) + 1 /\ pos + 1 + i - 1 = pos + i /\ pos + i \in 1 .. n
    BY <1>1
  <2> QED BY <1>2, <1>4, <2>1 DEF l
<1>6. Len(SubSeq(l, pos + 1, n)) = n - pos
  BY <1>1, <1>4
<1> QED BY <1>4, <1>5, <1>6, StrlenIs DEF Right, l

-----------------------------------------------------------------------------
(* What the handler does to the parts *)

LEMMA FrontIs ==
  ASSUME NEW S, NEW s \in Seq(S), Len(s) >= 1
  PROVE  /\ s # <<>>
         /\ Front(s) \in Seq(S)
         /\ Len(Front(s)) = Len(s) - 1
         /\ \A i \in 1 .. Len(s) - 1 : Front(s)[i] = s[i]
         /\ Last(s) = s[Len(s)] /\ Last(s) \in S
<1> DEFINE m == Len(s) - 1
<1>1. Len(s) \in Nat /\ m \in Nat /\ 1 \in Int /\ m \in Int /\ s # <<>>
  BY EmptySeq
<1>2. \A i \in 1 .. m : s[i] \in S
  BY <1>1, ElementOfSeq
<1>3. /\ SubSeq(s, 1, m) \in Seq(S)
      /\ Len(SubSeq(s, 1, m)) = IF 1 <= m THEN m - 1 + 1 ELSE 0
      /\ \A i \in 1 .. m - 1 + 1 : SubSeq(s, 1, m)[i] = s[1 + i - 1]
  <2> HIDE DEF m
  <2> QED BY <1>1, <1>2, SubSeqProperties
<1>4. Len(SubSeq(s, 1, m)) = m /\ \A i \in 1 .. m : SubSeq(s, 1, m)[i] = s[i]
  <2> HIDE DEF m
  <2>1. m - 1 + 1 = m /\ \A i \in 1 .. m : 1 + i - 1 = i
    BY <1>1
  <2>2. m = IF 1 <= m THEN m - 1 + 1 ELSE 0
    BY <1>1
  <2> QED BY <1>3, <2>1, <2>2
<1>5. Last(s) = s[Len(s)] /\ Last(s) \in S
  BY <1>1, ElementOfSeq DEF Last
<1> QED BY <1>1, <1>3, <1>4, <1>5 DEF Front, m

LEMMA MovedLeft ==
  ASSUME NEW buf \in Buffers, NEW n, IsString(buf, n), NEW pos \in 1 .. n
  PROVE  /\ Left(buf, pos) # <<>>
         /\ Left(buf, pos - 1) = Front(Left(buf, pos))
         /\ Right(buf, pos - 1) = <<Last(Left(buf, pos))>> \o Right(buf, pos)
<1> DEFINE l == Left(buf, pos)
           r == Right(buf, pos)
           k == Left(buf, pos - 1)
           q == Right(buf, pos - 1)
<1>1. n \in Nat /\ pos \in Nat /\ pos >= 1 /\ pos <= n
  BY IndexIsNat DEF IsString
<1>a. pos \in 0 .. n
  BY <1>1
<1>b. pos - 1 \in 0 .. n
  BY <1>1
<1>2. l \in Seq(Chars) /\ Len(l) = pos /\ \A i \in 1 .. pos : l[i] = buf[i - 1]
  BY <1>a, LeftIs
<1>3. k \in Seq(Chars) /\ Len(k) = pos - 1 /\ \A i \in 1 .. pos - 1 : k[i] = buf[i - 1]
  BY <1>b, LeftIs
<1>4. r \in Seq(Chars) /\ Len(r) = n - pos /\ \A i \in 1 .. n - pos : r[i] = buf[pos + i - 1]
  BY <1>a, RightIs
<1>5. /\ q \in Seq(Chars) /\ Len(q) = n - (pos - 1)
      /\ \A i \in 1 .. n - (pos - 1) : q[i] = buf[pos - 1 + i - 1]
  BY <1>b, RightIs
<1> HIDE DEF l, r, k, q
<1>6. /\ l # <<>> /\ Front(l) \in Seq(Chars)
      /\ Len(Front(l)) = Len(l) - 1
      /\ \A i \in 1 .. Len(l) - 1 : Front(l)[i] = l[i]
      /\ Last(l) = l[Len(l)] /\ Last(l) \in Chars
  BY <1>1, <1>2, FrontIs
<1>7. k = Front(l)
  BY <1>1, <1>2, <1>3, <1>6, SeqEqual
<1> DEFINE c == <<Last(l)>>
<1>8. c \in Seq(Chars) /\ Len(c) = 1 /\ c[1] = buf[pos - 1]
  BY <1>1, <1>2, <1>6
<1> HIDE DEF c
<1>9. /\ c \o r \in Seq(Chars) /\ Len(c \o r) = Len(c) + Len(r)
      /\ \A i \in 1 .. Len(c) + Len(r) : (c \o r)[i] = IF i <= Len(c) THEN c[i] ELSE r[i - Len(c)]
  BY <1>4, <1>8, ConcatProperties
<1>10. ASSUME NEW i \in 1 .. n - (pos - 1) PROVE q[i] = (c \o r)[i]
  <2>1. i \in 1 .. Len(c) + Len(r)
    BY <1>1, <1>4, <1>8
  <2>2. (c \o r)[i] = IF i <= 1 THEN c[i] ELSE r[i - 1]
    BY <1>8, <1>9, <2>1
  <2>3. CASE i = 1
    <3>1. pos - 1 + i - 1 = pos - 1
      BY <1>1, <2>3
    <3> QED BY <1>5, <1>8, <2>2, <2>3, <3>1
  <2>4. CASE i # 1
    <3>1. i - 1 \in 1 .. n - pos /\ pos + (i - 1) - 1 = pos - 1 + i - 1 /\ ~(i <= 1)
      BY <1>1, <2>4
    <3>2. r[i - 1] = buf[pos - 1 + i - 1]
      BY <1>4, <3>1
    <3> QED BY <1>5, <2>2, <3>1, <3>2
  <2> QED BY <2>3, <2>4
<1>11. q = c \o r
  <2>1. Len(q) = Len(c \o r)
    BY <1>1, <1>4, <1>5, <1>8, <1>9
  <2>2. \A i \in 1 .. Len(q) : q[i] = (c \o r)[i]
    BY <1>5, <1>10
  <2> QED BY <1>5, <1>9, <2>1, <2>2, SeqEqual
<1> QED BY <1>6, <1>7, <1>11 DEF l, r, k, q, c

LEMMA MovedRight ==
  ASSUME NEW buf \in Buffers, NEW n, IsString(buf, n), NEW pos \in 0 .. n - 1
  PROVE  /\ Right(buf, pos) # <<>>
         /\ Left(buf, pos + 1) = Append(Left(buf, pos), Head(Right(buf, pos)))
         /\ Right(buf, pos + 1) = Tail(Right(buf, pos))
<1> DEFINE l == Left(buf, pos)
           r == Right(buf, pos)
           k == Left(buf, pos + 1)
           q == Right(buf, pos + 1)
<1>1. n \in Nat /\ pos \in Nat /\ pos + 1 <= n
  BY IndexIsNat DEF IsString
<1>a. pos \in 0 .. n
  BY <1>1
<1>b. pos + 1 \in 0 .. n
  BY <1>1
<1>2. l \in Seq(Chars) /\ Len(l) = pos /\ \A i \in 1 .. pos : l[i] = buf[i - 1]
  BY <1>a, LeftIs
<1>3. k \in Seq(Chars) /\ Len(k) = pos + 1 /\ \A i \in 1 .. pos + 1 : k[i] = buf[i - 1]
  BY <1>b, LeftIs
<1>4. r \in Seq(Chars) /\ Len(r) = n - pos /\ \A i \in 1 .. n - pos : r[i] = buf[pos + i - 1]
  BY <1>a, RightIs
<1>5. /\ q \in Seq(Chars) /\ Len(q) = n - (pos + 1)
      /\ \A i \in 1 .. n - (pos + 1) : q[i] = buf[pos + 1 + i - 1]
  BY <1>b, RightIs
<1> HIDE DEF l, r, k, q
<1>6. r # <<>>
  BY <1>1, <1>4, EmptySeq
<1>7. /\ Head(r) = r[1] /\ Head(r) \in Chars
      /\ Tail(r) \in Seq(Chars) /\ Len(Tail(r)) = Len(r) - 1
      /\ \A i \in 1 .. Len(Tail(r)) : Tail(r)[i] = r[i + 1]
  BY <1>4, <1>6, HeadTailProperties
<1>8. Head(r) = buf[pos]
  BY <1>1, <1>4, <1>7
<1>9. /\ Append(l, Head(r)) \in Seq(Chars)
      /\ Len(Append(l, Head(r))) = Len(l) + 1
      /\ \A i \in 1 .. Len(l) : Append(l, Head(r))[i] = l[i]
      /\ Append(l, Head(r))[Len(l) + 1] = Head(r)
  BY <1>2, <1>7, AppendProperties
<1>10. k = Append(l, Head(r))
  BY <1>1, <1>2, <1>3, <1>8, <1>9, SeqEqual
<1>11. ASSUME NEW i \in 1 .. n - (pos + 1) PROVE q[i] = Tail(r)[i]
  <2>1. i + 1 \in 1 .. n - pos /\ pos + (i + 1) - 1 = pos + 1 + i - 1 /\ i \in 1 .. (n - pos) - 1
    BY <1>1
  <2> QED BY <1>4, <1>5, <1>7, <2>1
<1>12. q = Tail(r)
  <2>1. Len(q) = Len(Tail(r))
    BY <1>1, <1>4, <1>5, <1>7
  <2>2. \A i \in 1 .. Len(q) : q[i] = Tail(r)[i]
    BY <1>5, <1>11
  <2> QED BY <1>5, <1>7, <2>1, <2>2, SeqEqual
<1> QED BY <1>6, <1>10, <1>12 DEF l, r, k, q

LEMMA MovedHome ==
  ASSUME NEW buf \in Buffers, NEW n, IsString(buf, n), NEW pos \in 0 .. n
  PROVE  Left(buf, 0) = <<>> /\ Right(buf, 0) = Left(buf, pos) \o Right(buf, pos)
<1>1. n \in Nat /\ 0 \in 0 .. n /\ pos \in Nat /\ pos <= n
  BY IndexIsNat DEF IsString
<1>2. Left(buf, 0) \in Seq(Chars) /\ Len(Left(buf, 0)) = 0
  BY <1>1, LeftIs
<1>3. Left(buf, 0) = <<>>
  BY <1>2, EmptySeq
<1> DEFINE s == Line(buf)
<1>4. s \in Seq(Chars) /\ Len(s) = n /\ strlen(buf) = n
  BY LineIs, StrlenIs
<1>5. Right(buf, 0) = SubSeq(s, 1, n) /\ Left(buf, pos) = SubSeq(s, 1, pos)
      /\ Right(buf, pos) = SubSeq(s, pos + 1, n)
  BY <1>4 DEF Left, Right
<1> HIDE DEF s
<1>6. 1 \in 1 .. Len(s) + 1 /\ pos \in 1 - 1 .. Len(s) /\ n \in pos .. Len(s)
  BY <1>1, <1>4
<1>7. SubSeq(s, 1, pos) \o SubSeq(s, pos + 1, n) = SubSeq(s, 1, n)
  BY <1>4, <1>6, ConcatAdjacentSubSeq
<1> QED BY <1>3, <1>5, <1>7

LEMMA Inserted ==
  ASSUME NEW buf \in Buffers, NEW n, IsString(buf, n), n + 1 \in Index,
         NEW pos \in 0 .. n, NEW ch \in Chars
  PROVE  /\ strins(buf, ch, pos) \in Buffers
         /\ IsString(strins(buf, ch, pos), n + 1)
         /\ Left(strins(buf, ch, pos), pos + 1) = Append(Left(buf, pos), ch)
         /\ Right(strins(buf, ch, pos), pos + 1) = Right(buf, pos)
<1> DEFINE new == strins(buf, ch, pos)
<1>1. n \in Nat /\ pos \in Nat /\ pos <= n /\ Index \subseteq Nat /\ n \in Index /\ BufSize \in Nat
  BY IndexIsNat DEF IsString
<1>2. strlen(buf) = n /\ DOMAIN buf = Index
  BY StrlenIs DEF Buffers
<1>3. new = [i \in Index |->
               IF i = pos THEN ch
               ELSE IF i = n + 1 THEN NUL
               ELSE IF pos < i /\ i <= n THEN buf[i - 1] ELSE buf[i]]
  BY <1>1, <1>2 DEF strins
<1>4. ch \in TableChars /\ ch # NUL /\ NUL \in TableChars /\ \A i \in Index : buf[i] \in TableChars
  BY DEF Chars, TableChars, Buffers
<1>5. \A i \in Index : pos < i => i - 1 \in Index
  BY <1>1, IndexIsNat
<1>6. new \in Buffers
  BY <1>3, <1>4, <1>5 DEF Buffers
<1>7. new[n + 1] = NUL
  BY <1>1, <1>3
<1>8. ASSUME NEW i \in 0 .. n PROVE new[i] # NUL /\ new[i] = IF i = pos THEN ch ELSE IF i < pos THEN buf[i] ELSE buf[i - 1]
  <2>1. i \in Index /\ i # n + 1
    BY <1>1, IndexIsNat
  <2>2. CASE i = pos
    BY <1>3, <1>4, <2>1, <2>2
  <2>3. CASE i < pos
    <3>1. i \in 0 .. n - 1 /\ i # pos /\ ~(pos < i)
      BY <1>1, <2>3
    <3> QED BY <1>3, <2>1, <2>3, <3>1 DEF IsString
  <2>4. CASE pos < i
    <3>1. i - 1 \in 0 .. n - 1 /\ i # pos /\ ~(i < pos) /\ i <= n
      BY <1>1, <2>4
    <3> QED BY <1>3, <2>1, <2>4, <3>1 DEF IsString
  <2> QED BY <1>1, <2>2, <2>3, <2>4
<1>9. IsString(new, n + 1)
  BY <1>1, <1>7, <1>8 DEF IsString
<1> HIDE DEF new
<1>10. pos + 1 \in 0 .. n + 1
  BY <1>1
<1> DEFINE l == Left(buf, pos)
           r == Right(buf, pos)
           k == Left(new, pos + 1)
           q == Right(new, pos + 1)
<1>11. l \in Seq(Chars) /\ Len(l) = pos /\ \A i \in 1 .. pos : l[i] = buf[i - 1]
  BY LeftIs
<1>12. k \in Seq(Chars) /\ Len(k) = pos + 1 /\ \A i \in 1 .. pos + 1 : k[i] = new[i - 1]
  BY <1>6, <1>9, <1>10, LeftIs
<1>13. r \in Seq(Chars) /\ Len(r) = n - pos /\ \A i \in 1 .. n - pos : r[i] = buf[pos + i - 1]
  BY RightIs
<1>14. q \in Seq(Chars) /\ Len(q) = n - pos /\ \A i \in 1 .. n - pos : q[i] = new[pos + i]
  <2> DEFINE m == n + 1
             p == pos + 1
  <2>1. IsString(new, m) /\ p \in 0 .. m
    BY <1>9, <1>10
  <2> HIDE DEF m, p
  <2>2. /\ Right(new, p) \in Seq(Chars) /\ Len(Right(new, p)) = m - p
        /\ \A i \in 1 .. m - p : Right(new, p)[i] = new[p + i - 1]
    BY <1>6, <2>1, RightIs
  <2>3. m - p = n - pos /\ \A i \in 1 .. n - pos : p + i - 1 = pos + i
    BY <1>1 DEF m, p
  <2>4. q = Right(new, p)
    BY DEF p
  <2> HIDE DEF q
  <2> QED BY <2>2, <2>3, <2>4
<1> HIDE DEF l, r, k, q
<1>15. /\ Append(l, ch) \in Seq(Chars)
       /\ Len(Append(l, ch)) = Len(l) + 1
       /\ \A i \in 1 .. Len(l) : Append(l, ch)[i] = l[i]
       /\ Append(l, ch)[Len(l) + 1] = ch
  BY <1>11, AppendProperties
<1>16. ASSUME NEW i \in 1 .. pos + 1 PROVE k[i] = Append(l, ch)[i]
  <2>1. i - 1 \in 0 .. n
    BY <1>1
  <2>2. CASE i = pos + 1
    BY <1>1, <1>8, <1>11, <1>12, <1>15, <2>1, <2>2
  <2>3. CASE i # pos + 1
    <3>1. i \in 1 .. pos /\ i - 1 < pos /\ i - 1 # pos
      BY <1>1, <2>3
    <3> QED BY <1>8, <1>11, <1>12, <1>15, <2>1, <3>1
  <2> QED BY <2>2, <2>3
<1>17. k = Append(l, ch)
  BY <1>1, <1>11, <1>12, <1>15, <1>16, SeqEqual
<1>18. ASSUME NEW i \in 1 .. n - pos PROVE q[i] = r[i]
  <2>1. pos + i \in 0 .. n /\ ~(pos + i = pos) /\ ~(pos + i < pos)
    BY <1>1
  <2> QED BY <1>8, <1>13, <1>14, <2>1
<1>19. q = r
  BY <1>1, <1>13, <1>14, <1>18, SeqEqual
<1> QED BY <1>6, <1>9, <1>17, <1>19 DEF l, r, k, q, new

LEMMA ErasedOne ==
  ASSUME NEW buf \in Buffers, NEW n, IsString(buf, n), NEW pos \in 1 .. n
  PROVE  /\ Erased(buf, pos) \in Buffers
         /\ IsString(Erased(buf, pos), n - 1)
         /\ Left(buf, pos) # <<>>
         /\ Left(Erased(buf, pos), pos - 1) = Front(Left(buf, pos))
         /\ Right(Erased(buf, pos), pos - 1) = Right(buf, pos)
<1> DEFINE new == Erased(buf, pos)
<1>1. n \in Nat /\ pos \in Nat /\ pos <= n /\ pos >= 1 /\ Index \subseteq Nat /\ n \in Index /\ BufSize \in Nat
  BY IndexIsNat DEF IsString
<1>2. strlen(buf) = n /\ DOMAIN buf = Index
  BY StrlenIs DEF Buffers
<1>3. new = [i \in Index |->
               IF i = n - 1 THEN NUL
               ELSE IF pos - 1 <= i /\ i < n THEN buf[i + 1] ELSE buf[i]]
  BY <1>1, <1>2 DEF Erased
<1>4. NUL \in TableChars /\ \A i \in Index : buf[i] \in TableChars
  BY DEF TableChars, Buffers
<1>5. \A i \in Index : i < n => i + 1 \in Index
  BY <1>1, IndexIsNat
<1>6. new \in Buffers
  BY <1>3, <1>4, <1>5 DEF Buffers
<1>7. n - 1 \in Index /\ new[n - 1] = NUL
  BY <1>1, <1>3, IndexIsNat
<1>8. ASSUME NEW i \in 0 .. n - 2 PROVE new[i] # NUL /\ new[i] = IF i < pos - 1 THEN buf[i] ELSE buf[i + 1]
  <2>1. i \in Index /\ i # n - 1 /\ i < n /\ i \in 0 .. n - 1 /\ i + 1 \in 0 .. n - 1
    BY <1>1, IndexIsNat
  <2>2. CASE i < pos - 1
    <3>1. ~(pos - 1 <= i)
      BY <1>1, <2>2
    <3> QED BY <1>3, <2>1, <2>2, <3>1 DEF IsString
  <2>3. CASE ~(i < pos - 1)
    <3>1. pos - 1 <= i
      BY <1>1, <2>3
    <3> QED BY <1>3, <2>1, <2>3, <3>1 DEF IsString
  <2> QED BY <2>2, <2>3
<1>9. IsString(new, n - 1)
  <2>1. 0 .. (n - 1) - 1 = 0 .. n - 2
    BY <1>1
  <2> QED BY <1>7, <1>8, <2>1 DEF IsString
<1> HIDE DEF new
<1>10. pos - 1 \in 0 .. n - 1 /\ pos \in 0 .. n
  BY <1>1
<1> DEFINE l == Left(buf, pos)
           r == Right(buf, pos)
           k == Left(new, pos - 1)
           q == Right(new, pos - 1)
<1>11. l \in Seq(Chars) /\ Len(l) = pos /\ \A i \in 1 .. pos : l[i] = buf[i - 1]
  BY <1>10, LeftIs
<1>12. k \in Seq(Chars) /\ Len(k) = pos - 1 /\ \A i \in 1 .. pos - 1 : k[i] = new[i - 1]
  BY <1>6, <1>9, <1>10, LeftIs
<1>13. r \in Seq(Chars) /\ Len(r) = n - pos /\ \A i \in 1 .. n - pos : r[i] = buf[pos + i - 1]
  BY <1>10, RightIs
<1>14. /\ q \in Seq(Chars) /\ Len(q) = n - 1 - (pos - 1)
       /\ \A i \in 1 .. n - 1 - (pos - 1) : q[i] = new[pos - 1 + i - 1]
  BY <1>6, <1>9, <1>10, RightIs
<1> HIDE DEF l, r, k, q
<1>15. /\ l # <<>> /\ Front(l) \in Seq(Chars)
       /\ Len(Front(l)) = Len(l) - 1
       /\ \A i \in 1 .. Len(l) - 1 : Front(l)[i] = l[i]
  BY <1>1, <1>11, FrontIs
<1>16. ASSUME NEW i \in 1 .. pos - 1 PROVE k[i] = Front(l)[i]
  <2>1. i - 1 \in 0 .. n - 2 /\ i - 1 < pos - 1 /\ i \in 1 .. pos
    BY <1>1
  <2> QED BY <1>8, <1>11, <1>12, <1>15, <2>1
<1>17. k = Front(l)
  BY <1>1, <1>11, <1>12, <1>15, <1>16, SeqEqual
<1>18. ASSUME NEW i \in 1 .. n - pos PROVE q[i] = r[i]
  <2>1. /\ pos + i - 2 \in 0 .. n - 2 /\ ~(pos + i - 2 < pos - 1) /\ pos + i - 2 + 1 = pos + i - 1
        /\ i \in 1 .. n - 1 - (pos - 1) /\ pos - 1 + i - 1 = pos + i - 2
    BY <1>1
  <2> QED BY <1>8, <1>13, <1>14, <2>1
<1>19. q = r
  BY <1>1, <1>13, <1>14, <1>18, SeqEqual
<1> QED BY <1>6, <1>9, <1>15, <1>17, <1>19 DEF l, r, k, q, new

LEMMA Cleared ==
  ASSUME NEW buf \in Buffers
  PROVE  /\ strnone(buf) \in Buffers /\ IsString(strnone(buf), 0)
         /\ Left(strnone(buf), 0) = <<>> /\ Right(strnone(buf), 0) = <<>>
<1> DEFINE new == strnone(buf)
<1>1. 0 \in Index /\ NUL \in TableChars
  BY IndexIsNat DEF TableChars
<1>2. new \in Buffers /\ new[0] = NUL
  BY <1>1 DEF strnone, Buffers
<1>3. IsString(new, 0)
  BY <1>1, <1>2 DEF IsString
<1> HIDE DEF new
<1>4. Left(new, 0) \in Seq(Chars) /\ Len(Left(new, 0)) = 0
  BY <1>2, <1>3, 0 \in 0 .. 0, LeftIs
<1>5. Right(new, 0) \in Seq(Chars) /\ Len(Right(new, 0)) = 0
  BY <1>2, <1>3, 0 \in 0 .. 0, RightIs
<1> QED BY <1>2, <1>3, <1>4, <1>5, EmptySeq DEF new

-----------------------------------------------------------------------------
(* The line *)

\* kscan_buf holds a string, and kscan_pos is in it.
LineInv ==
  /\ kscan_buf \in Buffers
  /\ port \in Seq(0 .. 255)
  /\ events \in 0 .. MaxEvents
  /\ IsString(kscan_buf, strlen(kscan_buf))
  /\ kscan_pos \in 0 .. strlen(kscan_buf)

LEMMA LineNumbers ==
  LineInv => /\ strlen(kscan_buf) \in Nat /\ kscan_pos \in Nat /\ events \in Nat
             /\ Len(port) \in Nat /\ MaxEvents \in Nat
BY IndexIsNat, IrqAssumption DEF LineInv, IsString

Read == port' \in Seq(0 .. 255) /\ events' = events /\ Len(port') + 1 = Len(port)

LEMMA InbReads == LineInv /\ inb => Read
<1> SUFFICES ASSUME LineInv, inb PROVE Read
  OBVIOUS
<1>1. port \in Seq(0 .. 255) /\ port # <<>> /\ port' = Tail(port) /\ events' = events
  BY DEF LineInv, inb
<1>2. Tail(port) \in Seq(0 .. 255) /\ Len(Tail(port)) = Len(port) - 1 /\ Len(port) \in Nat
  BY <1>1, HeadTailProperties
<1> QED BY <1>1, <1>2 DEF Read

\* The line stays, while codes come or are read.
LEMMA LineStays ==
  ASSUME LineInv, UNCHANGED editVars,
         port' \in Seq(0 .. 255), events' \in 0 .. MaxEvents
  PROVE  LineInv' /\ UNCHANGED Editor!editorVars
<1>1. LineInv'
  BY LineNumbers DEF LineInv, editVars
<1>2. UNCHANGED Editor!editorVars
  BY DEF editVars, Editor!editorVars
<1> QED BY <1>1, <1>2

\* A new line of n chars.
LEMMA NewLineInv ==
  ASSUME kscan_buf' \in Buffers, NEW n, IsString(kscan_buf', n), kscan_pos' \in 0 .. n,
         port' \in Seq(0 .. 255), events' \in 0 .. MaxEvents
  PROVE  LineInv'
<1>1. strlen(kscan_buf') = n
  BY StrlenIs
<1> QED BY <1>1 DEF LineInv

before == Left(kscan_buf, kscan_pos)
behind == Right(kscan_buf, kscan_pos)

\* The steps of the editor, on the parts of the line.
EditorStep ==
  \/ (\E ch \in Chars : before' = Append(before, ch)) /\ behind' = behind
  \/ before # <<>> /\ before' = Front(before) /\ behind' = behind
  \/ before # <<>> /\ before' = Front(before) /\ behind' = <<Last(before)>> \o behind
  \/ behind # <<>> /\ before' = Append(before, Head(behind)) /\ behind' = Tail(behind)
  \/ before' = <<>> /\ behind' = before \o behind
  \/ before' = <<>> /\ behind' = <<>>

LEMMA EditorSteps == EditorStep => Editor!Next
BY DEF EditorStep, before, behind, Left, Right, Chars, Front, Last, Editor!Front, Editor!Last,
       Editor!Next, Editor!Insert, Editor!Erase, Editor!MoveLeft, Editor!MoveRight,
       Editor!Accept, Editor!Begin

LEMMA StepArrowLeft ==
  ASSUME LineInv, Read, ArrowLeft PROVE LineInv' /\ EditorStep
<1> DEFINE n == strlen(kscan_buf)
<1>1. kscan_buf \in Buffers /\ IsString(kscan_buf, n) /\ kscan_pos \in 1 .. n
  BY LineNumbers DEF LineInv, ArrowLeft
<1>2. kscan_buf' = kscan_buf /\ kscan_pos' = kscan_pos - 1
  BY DEF ArrowLeft
<1>3. kscan_pos' \in 0 .. n /\ events' \in 0 .. MaxEvents /\ port' \in Seq(0 .. 255)
  BY <1>1, <1>2, LineNumbers DEF LineInv, Read
<1> HIDE DEF n
<1>4. LineInv'
  BY <1>1, <1>2, <1>3, NewLineInv
<1>5. before # <<>> /\ before' = Front(before) /\ behind' = <<Last(before)>> \o behind
  BY <1>1, <1>2, MovedLeft DEF before, behind
<1> QED BY <1>4, <1>5 DEF EditorStep

LEMMA StepArrowRight ==
  ASSUME LineInv, Read, ArrowRight PROVE LineInv' /\ EditorStep
<1> DEFINE n == strlen(kscan_buf)
<1>1. kscan_buf \in Buffers /\ IsString(kscan_buf, n) /\ kscan_pos \in 0 .. n - 1
  BY LineNumbers DEF LineInv, ArrowRight
<1>2. kscan_buf' = kscan_buf /\ kscan_pos' = kscan_pos + 1
  BY DEF ArrowRight
<1>3. kscan_pos' \in 0 .. n /\ events' \in 0 .. MaxEvents /\ port' \in Seq(0 .. 255)
  BY <1>1, <1>2, LineNumbers DEF LineInv, Read
<1> HIDE DEF n
<1>4. LineInv'
  BY <1>1, <1>2, <1>3, NewLineInv
<1>5. behind # <<>> /\ before' = Append(before, Head(behind)) /\ behind' = Tail(behind)
  BY <1>1, <1>2, MovedRight DEF before, behind
<1> QED BY <1>4, <1>5 DEF EditorStep

LEMMA StepBackspace ==
  ASSUME LineInv, Read, BackspaceKey PROVE LineInv' /\ EditorStep
<1> DEFINE n == strlen(kscan_buf)
<1>1. kscan_buf \in Buffers /\ IsString(kscan_buf, n) /\ kscan_pos \in 1 .. n
  BY LineNumbers DEF LineInv, BackspaceKey
<1>2. kscan_buf' = Erased(kscan_buf, kscan_pos) /\ kscan_pos' = kscan_pos - 1
  BY DEF BackspaceKey
<1>3. /\ kscan_pos' \in 0 .. n - 1 /\ events' \in 0 .. MaxEvents /\ port' \in Seq(0 .. 255)
  BY <1>1, <1>2, LineNumbers DEF LineInv, Read
<1> HIDE DEF n
<1>4. /\ kscan_buf' \in Buffers /\ IsString(kscan_buf', n - 1)
      /\ before # <<>> /\ before' = Front(before) /\ behind' = behind
  BY <1>1, <1>2, ErasedOne DEF before, behind
<1>5. LineInv'
  BY <1>3, <1>4, NewLineInv
<1> QED BY <1>4, <1>5 DEF EditorStep

LEMMA StepChar ==
  ASSUME LineInv, Read, NEW ch \in TableChars, CharKey(ch) PROVE LineInv' /\ EditorStep
<1> DEFINE n == strlen(kscan_buf)
<1>1. kscan_buf \in Buffers /\ IsString(kscan_buf, n) /\ kscan_pos \in 0 .. n /\ ch \in Chars
  BY DEF LineInv, CharKey, Chars
<1>2. kscan_buf' = strins(kscan_buf, ch, kscan_pos) /\ kscan_pos' = kscan_pos + 1
  BY DEF CharKey
<1>3. /\ kscan_pos' \in 0 .. n + 1 /\ events' \in 0 .. MaxEvents /\ port' \in Seq(0 .. 255)
  BY <1>1, <1>2, LineNumbers DEF LineInv, Read
<1>4. n + 1 \in Index
  BY LineNumbers, IndexIsNat DEF CharKey, HasRoom
<1> HIDE DEF n
<1>5. /\ kscan_buf' \in Buffers /\ IsString(kscan_buf', n + 1)
      /\ before' = Append(before, ch) /\ behind' = behind
  BY <1>1, <1>2, <1>4, Inserted DEF before, behind
<1>6. LineInv'
  BY <1>3, <1>5, NewLineInv
<1> QED BY <1>1, <1>5, <1>6 DEF EditorStep

LEMMA StepEnter ==
  ASSUME LineInv, Read, EnterKey PROVE LineInv' /\ EditorStep
<1> DEFINE n == strlen(kscan_buf)
<1>1. kscan_buf \in Buffers /\ IsString(kscan_buf, n) /\ kscan_pos \in 0 .. n
  BY DEF LineInv
<1>2. kscan_buf' = kscan_buf /\ kscan_pos' = 0
  BY DEF EnterKey
<1>3. kscan_pos' \in 0 .. n /\ events' \in 0 .. MaxEvents /\ port' \in Seq(0 .. 255)
  BY <1>1, <1>2, LineNumbers DEF LineInv, Read
<1> HIDE DEF n
<1>4. LineInv'
  BY <1>1, <1>2, <1>3, NewLineInv
<1>5. before' = <<>> /\ behind' = before \o behind
  BY <1>1, <1>2, MovedHome DEF before, behind
<1> QED BY <1>4, <1>5 DEF EditorStep

LEMMA StepBegin ==
  ASSUME LineInv, Begin PROVE LineInv' /\ EditorStep
<1>1. kscan_buf' = strnone(kscan_buf) /\ kscan_pos' = 0 /\ port' = port /\ events' = events
  BY DEF Begin, irqVars, hardware
<1>2. /\ kscan_buf' \in Buffers /\ IsString(kscan_buf', 0)
      /\ before' = <<>> /\ behind' = <<>>
  BY <1>1, Cleared DEF before, behind, LineInv
<1>3. /\ kscan_pos' \in 0 .. 0 /\ events' \in 0 .. MaxEvents /\ port' \in Seq(0 .. 255)
  BY <1>1, LineNumbers DEF LineInv
<1>4. LineInv'
  BY <1>2, <1>3, NewLineInv
<1> QED BY <1>2, <1>4 DEF EditorStep

LEMMA ShiftedCharType == \A scancode : ShiftedChar(scancode) \in TableChars
BY DEF TableChars, Values, ShiftedChar, get_acsii_high, get_acsii_low, Lookup

EditorOrStutter == Editor!Next \/ UNCHANGED Editor!editorVars

LEMMA StepHandler ==
  ASSUME LineInv, kscan_handler PROVE LineInv' /\ EditorOrStutter
<1>1. Read
  BY InbReads DEF kscan_handler
<1>2. CASE UNCHANGED editVars
  <2>1. port' \in Seq(0 .. 255) /\ events' \in 0 .. MaxEvents
    BY <1>1, LineNumbers DEF LineInv, Read
  <2> QED BY <1>2, <2>1, LineStays DEF EditorOrStutter
<1>3. CASE \E scancode : EditKey(scancode)
  <2>1. PICK scancode : EditKey(scancode)
    BY <1>3
  <2>2. CharKey(ShiftedChar(scancode)) => LineInv' /\ EditorStep
    BY <1>1, ShiftedCharType, StepChar
  <2>3. LineInv' /\ EditorStep
    BY <1>1, <2>1, <2>2, StepArrowLeft, StepArrowRight, StepBackspace DEF EditKey
  <2> QED BY <2>3, EditorSteps DEF EditorOrStutter
<1>4. CASE EnterKey
  BY <1>1, <1>4, StepEnter, EditorSteps DEF EditorOrStutter
<1>5. UNCHANGED editVars \/ (\E scancode : EditKey(scancode)) \/ EnterKey
  BY DEF kscan_handler, PlainKey, CharOverruns, EditState
<1> QED BY <1>2, <1>3, <1>4, <1>5

LEMMA KeyboardPresents ==
  ASSUME LineInv, Keyboard
  PROVE  port' \in Seq(0 .. 255) /\ events' \in 0 .. MaxEvents
<1>1. PICK key \in KeysTyped : Press(key) \/ Release(key)
  BY DEF Keyboard
<1>2. PICK code \in 0 .. 255 : Present(code)
  <2>1. CASE Press(key)
    BY <1>1, <2>1, IrqAssumption DEF Press
  <2>2. CASE Release(key)
    <3>1. key + Break \in 0 .. 255
      BY <2>2, IrqAssumption DEF Release, Break
    <3> QED BY <2>2, <3>1 DEF Release
  <2> QED BY <1>1, <2>1, <2>2
<1>3. port' = Append(port, code) /\ events' = events + 1 /\ events < MaxEvents /\ port \in Seq(0 .. 255)
  BY <1>2 DEF Present, LineInv
<1>4. Append(port, code) \in Seq(0 .. 255) /\ Len(Append(port, code)) = Len(port) + 1
  BY <1>3, AppendProperties
<1> QED BY <1>3, <1>4, LineNumbers DEF LineInv

LEMMA LineStep ==
  ASSUME LineInv, [Next]_vars PROVE LineInv' /\ EditorOrStutter
<1>1. CASE Keyboard /\ UNCHANGED <<modifiers, EditState, pc, result>>
  BY <1>1, KeyboardPresents, LineStays DEF EditState, EditorOrStutter
<1>2. CASE kscan_handler
  BY <1>2, StepHandler
<1>3. CASE Begin
  BY <1>3, StepBegin, EditorSteps DEF EditorOrStutter
<1>4. CASE UNCHANGED <<editVars, port, events>>
  BY <1>4, LineNumbers, LineStays DEF EditorOrStutter, LineInv
<1>5. CASE isr_dispatch /\ ~kscan_handler
  BY <1>4, <1>5 DEF isr_dispatch, Interrupt, DispatchUnhandled, EndOfInterrupt, hardware, EditState
<1>6. CASE kscan /\ ~Begin
  BY <1>4, <1>6 DEF kscan, While, Register, If, Uninstall, Result, irqVars, hardware, EditState
<1>7. CASE UNCHANGED vars
  BY <1>4, <1>7 DEF vars, irqVars, hardware
<1> QED BY <1>1, <1>2, <1>3, <1>5, <1>6, <1>7 DEF Next

LEMMA LineInit == Init => LineInv /\ before = <<>> /\ behind = <<>>
<1> SUFFICES ASSUME Init PROVE LineInv /\ before = <<>> /\ behind = <<>>
  OBVIOUS
<1>1. /\ kscan_buf = [i \in 0 .. BufSize - 1 |-> NUL] /\ kscan_pos = 0
      /\ port = <<>> /\ events = 0
  BY DEF Init, IrqInit
<1>2. kscan_buf \in Buffers /\ IsString(kscan_buf, 0)
  BY <1>1, IndexIsNat DEF Buffers, IsString, Index, TableChars
<1>3. strlen(kscan_buf) = 0
  BY <1>2, StrlenIs
<1>4. port \in Seq(0 .. 255) /\ Len(port) = 0
  BY <1>1, EmptySeq
<1>5. LineInv
  BY <1>1, <1>2, <1>3, <1>4, IrqAssumption DEF LineInv
<1>6. before \in Seq(Chars) /\ Len(before) = 0
  BY <1>1, <1>2, 0 \in 0 .. 0, LeftIs DEF before
<1>7. behind \in Seq(Chars) /\ Len(behind) = 0 - 0
  BY <1>1, <1>2, 0 \in 0 .. 0, RightIs DEF behind
<1> QED BY <1>5, <1>6, <1>7, EmptySeq

\* The arrows, the backspace, the keys, Enter and the next call work on the line
\* as on a text with a cursor, however keys and the thread's steps interleave.
THEOREM KscanImplementsEditor == Spec => ImplementsEditor
<1>1. Init => Editor!Empty
  BY LineInit DEF Editor!Empty, before, behind, Left, Right
<1>2. LineInv /\ [Next]_vars => LineInv' /\ [Editor!Next]_(Editor!editorVars)
  BY LineStep DEF EditorOrStutter
<1>3. Init => LineInv
  BY LineInit
<1> QED BY <1>1, <1>2, <1>3, PTL DEF Spec, ImplementsEditor, Editor!Spec

-----------------------------------------------------------------------------
(* Types *)

Flags ==
  /\ held \subseteq KeysTyped
  /\ irr \in BOOLEAN /\ inService \in BOOLEAN /\ unhandled \in BOOLEAN
  /\ context \in {"thread", "dispatch", "eoi"}
  /\ handler \in {NULL, "kscan_handler"}
  /\ enter \in BOOLEAN /\ astray \in BOOLEAN /\ late \in BOOLEAN /\ overrun \in BOOLEAN
  /\ pc \in {"begin", "while", "register", "if", "uninstall", "result"}

LEMMA FlagsInit == Init => Flags
BY DEF Init, IrqInit, Flags

LEMMA FlagsKeyboard ==
  Flags /\ Keyboard /\ UNCHANGED <<modifiers, EditState, pc, result>> => Flags'
<1> SUFFICES ASSUME Flags, UNCHANGED <<modifiers, EditState, pc, result>>,
                    NEW key \in KeysTyped, Press(key) \/ Release(key)
             PROVE  Flags'
  BY DEF Keyboard
<1>1. irr' \in BOOLEAN /\ UNCHANGED <<inService, context, handler, unhandled>>
  BY DEF Press, Release, Present, Flags
<1>2. held' \subseteq KeysTyped
  BY DEF Press, Release, Flags
<1> QED BY <1>1, <1>2 DEF Flags, EditState, history

LEMMA FlagsHandler == Flags /\ kscan_handler => Flags'
<1> SUFFICES ASSUME Flags, kscan_handler PROVE Flags'
  OBVIOUS
<1>1. /\ irr' \in BOOLEAN /\ context' = "eoi"
      /\ UNCHANGED <<held, inService, handler, unhandled, pc>>
  BY DEF kscan_handler, inb, Flags
<1>2. enter' \in BOOLEAN /\ astray' \in BOOLEAN /\ late' \in BOOLEAN
  <2>1. CASE UNCHANGED EditState \/ UNCHANGED <<enter, history>>
    BY <2>1 DEF Flags, EditState, history
  <2>2. CASE EnterKey
    BY <2>2 DEF Flags, EnterKey
  <2>3. CASE (\E scancode : EditKey(scancode)) /\ Edited
    <3>1. astray' = TRUE \/ astray' = astray \/ astray' = (astray \/ ~InWindow(screen'))
      BY <2>3 DEF EditKey, ArrowLeft, ArrowRight, BackspaceKey, CharKey
    <3>2. enter' = enter /\ late' = (late \/ enter)
      BY <2>3 DEF Edited
    <3> QED BY <3>1, <3>2 DEF Flags
  <2> QED BY <2>1, <2>2, <2>3 DEF kscan_handler, PlainKey, CharOverruns
<1>3. overrun' \in BOOLEAN
  BY DEF kscan_handler, PlainKey, CharOverruns, EditState, Flags
<1> QED BY <1>1, <1>2, <1>3 DEF Flags

LEMMA FlagsNext == Flags /\ [Next]_vars => Flags'
<1> SUFFICES ASSUME Flags, [Next]_vars PROVE Flags'
  OBVIOUS
<1>1. CASE Keyboard /\ UNCHANGED <<modifiers, EditState, pc, result>>
  BY <1>1, FlagsKeyboard
<1>2. CASE kscan_handler
  BY <1>2, FlagsHandler
<1>3. CASE isr_dispatch /\ ~kscan_handler
  BY <1>3 DEF isr_dispatch, Interrupt, DispatchUnhandled, EndOfInterrupt, hardware, EditState, history, Flags
<1>4. CASE kscan
  BY <1>4 DEF kscan, Begin, While, Register, If, Uninstall, Result, idt_register_handler,
              idt_uninstall_handler, irqVars, hardware, EditState, history, Flags
<1>5. CASE UNCHANGED vars
  BY <1>5 DEF vars, irqVars, hardware, history, Flags
<1> QED BY <1>1, <1>2, <1>3, <1>4, <1>5 DEF Next

\* The variables stay within their types: as long as the line fits in kscan_buf
\* (it need not: CharOverruns), its NUL is inside the buffer, and the inserts, erases,
\* arrows and Enter leave kscan_pos at it or before it.
THEOREM KscanTypes == Spec => []TypeOK
<1>1. LineInv /\ Flags => TypeOK
  <2> SUFFICES ASSUME LineInv, Flags PROVE TypeOK
    OBVIOUS
  <2>1. \E i \in DOMAIN kscan_buf : kscan_buf[i] = NUL
    <3>1. strlen(kscan_buf) \in DOMAIN kscan_buf
      BY DEF LineInv, IsString, Buffers
    <3> QED BY <3>1 DEF LineInv, IsString
  <2>2. {irr, inService, unhandled} \subseteq BOOLEAN /\ {enter, astray, late, overrun} \subseteq BOOLEAN
    BY Zenon DEF Flags
  <2> QED BY <2>1, <2>2 DEF LineInv, Flags, Buffers, Index, IrqTypeOK, TypeOK
<1>2. Init => LineInv
  BY LineInit
<1>3. LineInv /\ [Next]_vars => LineInv'
  BY LineStep
<1> QED BY <1>1, <1>2, <1>3, FlagsInit, FlagsNext, PTL DEF Spec

-----------------------------------------------------------------------------
(* The result *)

\* Past its loop kscan has seen enter, and the line is the one that Enter was
\* pressed on until it is edited again.
CallInv ==
  /\ pc \in {"uninstall", "result"} => enter
  /\ enter /\ ~late => Line(kscan_buf) = typed

LEMMA CallInvInit == Init => CallInv
BY DEF Init, CallInv

LEMMA CallInvStays ==
  CallInv /\ UNCHANGED <<kscan_buf, enter, pc, typed, late>> => CallInv'
BY DEF CallInv

LEMMA CallInvHandler == CallInv /\ kscan_handler => CallInv'
<1> SUFFICES ASSUME CallInv, kscan_handler PROVE CallInv'
  OBVIOUS
<1>1. pc' = pc
  BY DEF kscan_handler
<1>2. CASE UNCHANGED EditState
  BY <1>1, <1>2, CallInvStays DEF EditState, editVars, history
<1>3. CASE EnterKey
  <2>1. kscan_buf' = kscan_buf /\ enter' = TRUE /\ late' = late
    BY <1>3 DEF EnterKey
  <2>2. typed' = IF enter THEN typed ELSE Line(kscan_buf)
    BY <1>3 DEF EnterKey
  <2> QED BY <1>1, <2>1, <2>2 DEF CallInv
<1>4. CASE Edited
  BY <1>1, <1>4 DEF Edited, CallInv
<1>5. CASE UNCHANGED <<editVars, enter, history>>
  BY <1>1, <1>5, CallInvStays DEF editVars, history
<1> QED BY <1>2, <1>3, <1>4, <1>5 DEF kscan_handler, PlainKey, CharOverruns

LEMMA CallInvThread == CallInv /\ kscan => CallInv'
<1> SUFFICES ASSUME CallInv, kscan PROVE CallInv'
  OBVIOUS
<1>1. CASE Begin
  BY <1>1 DEF Begin, CallInv
<1>2. CASE While \/ If
  BY <1>2 DEF While, If, CallInv, EditState, editVars, history
<1>3. CASE Register \/ Uninstall
  BY <1>3 DEF Register, Uninstall, At, CallInv, EditState, editVars, history
<1>4. CASE Result
  BY <1>4 DEF Result, CallInv, editVars, history
<1> QED BY <1>1, <1>2, <1>3, <1>4 DEF kscan

LEMMA CallInvNext == CallInv /\ [Next]_vars => CallInv'
<1> SUFFICES ASSUME CallInv, [Next]_vars PROVE CallInv'
  OBVIOUS
<1>1. CASE Keyboard /\ UNCHANGED <<modifiers, EditState, pc, result>>
  BY <1>1, CallInvStays DEF EditState, editVars, history
<1>2. CASE kscan_handler
  BY <1>2, CallInvHandler
<1>3. CASE isr_dispatch /\ ~kscan_handler
  BY <1>3, CallInvStays DEF isr_dispatch, EditState, editVars, history
<1>4. CASE kscan
  BY <1>4, CallInvThread
<1>5. CASE UNCHANGED vars
  BY <1>5, CallInvStays DEF vars, editVars, history
<1> QED BY <1>1, <1>2, <1>3, <1>4, <1>5 DEF Next

\* kscan returns the line that Enter was pressed on, whatever came before and
\* wherever between its steps the keys arrived, unless one was handled between
\* that interrupt and the uninstall.
THEOREM KscanReturnsTypedLine == Spec => ReturnsTypedLine
<1>1. CallInv /\ [Next]_vars => [pc = "result" /\ pc' # pc => result' = typed \/ late]_vars
  <2> SUFFICES ASSUME CallInv, Next, pc = "result", pc' # pc
               PROVE  result' = typed \/ late
    BY DEF vars
  <2>1. Result
    BY DEF Next, isr_dispatch, kscan_handler, kscan, Begin, While, Register, If, Uninstall, At
  <2> QED BY <2>1 DEF Result, CallInv
<1> QED BY CallInvInit, CallInvNext, <1>1, PTL DEF Spec, ReturnsTypedLine
-----------------------------------------------------------------------------
(* The chars that are drawn *)

\* No key but Enter stands for a newline, and none for a backspace.
PlainTable(table) == \A key \in DOMAIN table : key # KEY_ENTER => Plain(table[key])

LEMMA PlainRow ==
  ASSUME NEW first \in Nat, NEW n \in Nat, NEW chars, Len(chars) = n,
         \A i \in 1 .. n : first + i - 1 # KEY_ENTER => Plain(chars[i])
  PROVE  PlainTable(Row(first, chars))
<1>1. Row(first, chars) = [key \in first .. first + n - 1 |-> chars[key - first + 1]]
  BY DEF Row
<1>2. ASSUME NEW key \in first .. first + n - 1, key # KEY_ENTER PROVE Plain(chars[key - first + 1])
  <2>1. key - first + 1 \in 1 .. n /\ first + (key - first + 1) - 1 = key
    BY SMT
  <2> QED BY <1>2, <2>1
<1> QED BY <1>1, <1>2 DEF PlainTable

LEMMA PlainRows ==
  ASSUME NEW rows, \A row \in rows : PlainTable(row)
  PROVE  PlainTable(Table(rows))
BY DEF PlainTable, Table

\* Rows of one, eleven and twelve such chars.
LEMMA PlainOne ==
  ASSUME NEW first \in Nat,
         NEW a,
         Plain(a)
  PROVE  PlainTable(Row(first, <<a>>))
<1>1. PICK chars : chars = <<a>>
  OBVIOUS
<1>2. Len(chars) = 1 /\ \A x \in 1 .. 1 : Plain(chars[x])
  BY <1>1
<1>3. 1 \in Nat
  OBVIOUS
<1>4. PlainTable(Row(first, chars))
  BY <1>2, <1>3, PlainRow
<1> QED BY <1>1, <1>4, Zenon

LEMMA PlainEleven ==
  ASSUME NEW first \in Nat,
         NEW a, NEW b, NEW c, NEW d, NEW e, NEW f, NEW g, NEW h, NEW i, NEW j, NEW k,
         Plain(a), Plain(b), Plain(c), Plain(d), Plain(e), Plain(f), Plain(g),
         Plain(h), Plain(i), Plain(j), Plain(k)
  PROVE  PlainTable(Row(first, <<a, b, c, d, e, f, g, h, i, j, k>>))
<1>1. PICK chars : chars = <<a, b, c, d, e, f, g, h, i, j, k>>
  OBVIOUS
<1>2. Len(chars) = 11 /\ \A x \in 1 .. 11 : Plain(chars[x])
  BY <1>1
<1>3. 11 \in Nat
  OBVIOUS
<1>4. PlainTable(Row(first, chars))
  BY <1>2, <1>3, PlainRow
<1> QED BY <1>1, <1>4, Zenon

LEMMA PlainTwelve ==
  ASSUME NEW first \in Nat,
         NEW a, NEW b, NEW c, NEW d, NEW e, NEW f, NEW g, NEW h, NEW i, NEW j, NEW k, NEW l,
         Plain(a), Plain(b), Plain(c), Plain(d), Plain(e), Plain(f), Plain(g),
         Plain(h), Plain(i), Plain(j), Plain(k), Plain(l)
  PROVE  PlainTable(Row(first, <<a, b, c, d, e, f, g, h, i, j, k, l>>))
<1>1. PICK chars : chars = <<a, b, c, d, e, f, g, h, i, j, k, l>>
  OBVIOUS
<1>2. Len(chars) = 12 /\ \A x \in 1 .. 12 : Plain(chars[x])
  BY <1>1
<1>3. 12 \in Nat
  OBVIOUS
<1>4. PlainTable(Row(first, chars))
  BY <1>2, <1>3, PlainRow
<1> QED BY <1>1, <1>4, Zenon

LEMMA PlainLow == PlainTable(LowTable)
<1>0. {KEY_1, KEY_Q, KEY_A, KEY_BACKSLASH, KEY_SPACE} \subseteq Nat
  BY DEF KEY_1, KEY_Q, KEY_A, KEY_BACKSLASH, KEY_SPACE
<1>1. PlainTable(Row(KEY_1, <<"1", "2", "3", "4", "5", "6", "7", "8", "9", "0", "-", "=">>))
  BY <1>0, PlainTwelve, Zenon DEF Plain
<1>2. PlainTable(Row(KEY_Q, <<"q", "w", "e", "r", "t", "y", "u", "i", "o", "p", "[", "]", "NL">>))
  <2>1. PICK c : c = <<"q", "w", "e", "r", "t", "y", "u", "i", "o", "p", "[", "]", "NL">>
    OBVIOUS
  <2>2. Len(c) = 13 /\ \A i \in 1 .. 13 : KEY_Q + i - 1 # KEY_ENTER => Plain(c[i])
    BY <2>1 DEF KEY_Q, KEY_ENTER, Plain
  <2>3. PlainTable(Row(KEY_Q, c))
    BY <1>0, <2>2, PlainRow
  <2> QED BY <2>1, <2>3, Zenon
<1>3. PlainTable(Row(KEY_A, <<"a", "s", "d", "f", "g", "h", "j", "k", "l", ";", "'">>))
  BY <1>0, PlainEleven, Zenon DEF Plain
<1>4. PlainTable(Row(KEY_BACKSLASH, <<"\\", "z", "x", "c", "v", "b", "n", "m", ",", ".", "/">>))
  BY <1>0, PlainEleven, Zenon DEF Plain
<1>5. PlainTable(Row(KEY_SPACE, <<" ">>))
  BY <1>0, PlainOne, Zenon DEF Plain
<1> QED BY <1>1, <1>2, <1>3, <1>4, <1>5, PlainRows, Zenon DEF LowTable

LEMMA PlainHigh == PlainTable(HighTable)
<1>0. {KEY_1, KEY_Q, KEY_A, KEY_BACKSLASH, KEY_SPACE} \subseteq Nat
  BY DEF KEY_1, KEY_Q, KEY_A, KEY_BACKSLASH, KEY_SPACE
<1>1. PlainTable(Row(KEY_1, <<"!", "@", "#", "$", "%", "^", "&", "*", "(", ")", "_", "+">>))
  BY <1>0, PlainTwelve, Zenon DEF Plain
<1>2. PlainTable(Row(KEY_Q, <<"Q", "W", "E", "R", "T", "Y", "U", "I", "O", "P", "{", "}">>))
  BY <1>0, PlainTwelve, Zenon DEF Plain
<1>3. PlainTable(Row(KEY_A, <<"A", "S", "D", "F", "G", "H", "J", "K", "L", ":", "\"">>))
  BY <1>0, PlainEleven, Zenon DEF Plain
<1>4. PlainTable(Row(KEY_BACKSLASH, <<"|", "Z", "X", "C", "V", "B", "N", "M", "<", ">", "?">>))
  BY <1>0, PlainEleven, Zenon DEF Plain
<1>5. PlainTable(Row(KEY_SPACE, <<" ">>))
  BY <1>0, PlainOne, Zenon DEF Plain
<1> QED BY <1>1, <1>2, <1>3, <1>4, <1>5, PlainRows, Zenon DEF HighTable

LEMMA PlainKeys ==
  ASSUME NEW scancode, scancode # KEY_ENTER
  PROVE  Plain(ShiftedChar(scancode))
<1>1. Plain(NUL)
  BY DEF Plain, NUL
<1>2. \A table : PlainTable(table) => Plain(Lookup(table, scancode))
  BY <1>1 DEF PlainTable, Lookup
<1> QED BY <1>2, PlainLow, PlainHigh DEF ShiftedChar, get_acsii_low, get_acsii_high

-----------------------------------------------------------------------------
(* The screen *)

\* All that the line holds is drawn where the cursor is.
DrawnChars == \A i \in Index : Plain(kscan_buf[i])

\* What is drawn is the line, from origin on, and the window is clear behind it.
Drawn ==
  /\ kscan_pos = strlen(kscan_buf)
  /\ origin \in Nat
  /\ screen.cursor = origin + strlen(kscan_buf)
  /\ \A i \in 0 .. strlen(kscan_buf) - 1 : screen.cells[origin + i] = kscan_buf[i]
  /\ Clear(screen)

\* Between two lines the window is clear behind the cursor; no key is handled
\* after the uninstall.
DrawInv ==
  /\ IsScreen(screen)
  /\ DrawnChars
  /\ pc \in {"begin", "result"} => handler = NULL
  /\ Editing /\ ~astray => Drawn
  /\ ~Editing /\ ~astray /\ ~late => Clear(screen)

\* The chars of the line stay plain.
LEMMA InsertedPlain ==
  ASSUME NEW buf \in Buffers, NEW n, IsString(buf, n), NEW pos \in 0 .. n, NEW ch, Plain(ch),
         \A i \in Index : Plain(buf[i])
  PROVE  \A i \in Index : Plain(strins(buf, ch, pos)[i])
<1>1. n \in Nat /\ pos \in Nat /\ pos <= n /\ strlen(buf) = n /\ DOMAIN buf = Index
  BY IndexIsNat, StrlenIs DEF IsString, Buffers
<1>2. strins(buf, ch, pos) = [i \in Index |->
        IF i = pos THEN ch
        ELSE IF i = n + 1 THEN NUL
        ELSE IF pos < i /\ i <= n THEN buf[i - 1] ELSE buf[i]]
  BY <1>1 DEF strins
<1>3. \A i \in Index : pos < i => i - 1 \in Index
  BY <1>1, IndexIsNat
<1>4. Plain(NUL)
  BY Zenon DEF Plain, NUL
<1> QED BY <1>2, <1>3, <1>4

LEMMA ErasedPlain ==
  ASSUME NEW buf \in Buffers, NEW n, IsString(buf, n), NEW pos \in 1 .. n,
         \A i \in Index : Plain(buf[i])
  PROVE  \A i \in Index : Plain(Erased(buf, pos)[i])
<1>1. n \in Nat /\ n \in Index /\ strlen(buf) = n /\ DOMAIN buf = Index
  BY IndexIsNat, StrlenIs DEF IsString, Buffers
<1>2. Erased(buf, pos) = [i \in Index |->
        IF i = n - 1 THEN NUL
        ELSE IF pos - 1 <= i /\ i < n THEN buf[i + 1] ELSE buf[i]]
  BY <1>1 DEF Erased
<1>3. \A i \in Index : i < n => i + 1 \in Index
  BY <1>1, IndexIsNat
<1>4. Plain(NUL)
  BY Zenon DEF Plain, NUL
<1> QED BY <1>2, <1>3, <1>4

LEMMA ClearedPlain ==
  ASSUME NEW buf \in Buffers, \A i \in Index : Plain(buf[i])
  PROVE  \A i \in Index : Plain(strnone(buf)[i])
<1>1. DOMAIN buf = Index
  BY DEF Buffers
<1>2. Plain(NUL)
  BY Zenon DEF Plain, NUL
<1> QED BY <1>1, <1>2 DEF strnone

\* A char at the end of the line leaves what is before it.
LEMMA InsertedAtEnd ==
  ASSUME NEW buf \in Buffers, NEW n, IsString(buf, n), NEW ch
  PROVE  /\ \A i \in 0 .. n - 1 : strins(buf, ch, n)[i] = buf[i]
         /\ strins(buf, ch, n)[n] = ch
<1>1. n \in Nat /\ n \in Index /\ strlen(buf) = n /\ DOMAIN buf = Index /\ 0 .. n - 1 \subseteq Index
  BY IndexIsNat, StrlenIs DEF IsString, Buffers
<1>2. strins(buf, ch, n) = [i \in Index |->
        IF i = n THEN ch
        ELSE IF i = n + 1 THEN NUL
        ELSE IF n < i /\ i <= n THEN buf[i - 1] ELSE buf[i]]
  BY <1>1 DEF strins
<1> QED BY <1>1, <1>2

\* The texts that are printed.
LEMMA PromptIs ==
  /\ PromptLen \in Nat /\ DOMAIN Prompt = 1 .. PromptLen /\ Len(Prompt) = PromptLen
  /\ \A k \in 1 .. PromptLen : Plain(Prompt[k])
<1>1. PromptLen \in Nat
  BY KscanAssumption
<1>2. Plain(">")
  BY Zenon DEF Plain
<1> QED BY <1>1, <1>2 DEF Prompt

LEMMA LabelIs ==
  /\ LabelLen \in Nat /\ Label \in Seq({":"}) /\ Len(Label) = LabelLen
  /\ \A k \in 1 .. LabelLen : Plain(Label[k])
<1>1. LabelLen \in Nat
  BY KscanAssumption
<1>2. Plain(":")
  BY Zenon DEF Plain
<1> QED BY <1>1, <1>2 DEF Label

LEMMA TextIs ==
  ASSUME NEW S, NEW s \in Seq(S), NEW m \in Nat, Len(s) = m, NEW ch
  PROVE  /\ DOMAIN (s \o <<ch>>) = 1 .. m + 1
         /\ \A k \in 1 .. m : (s \o <<ch>>)[k] = s[k]
         /\ (s \o <<ch>>)[m + 1] = ch
<1> DEFINE c == <<ch>>
           T == S \cup {ch}
<1>1. c \in Seq(T) /\ Len(c) = 1 /\ c[1] = ch
  OBVIOUS
<1>2. s \in Seq(T)
  <2>1. S \subseteq T
    OBVIOUS
  <2> HIDE DEF T
  <2> QED BY <2>1
<1> HIDE DEF c, T
<1>3. /\ s \o c \in Seq(T) /\ Len(s \o c) = Len(s) + Len(c)
      /\ \A i \in 1 .. Len(s) + Len(c) : (s \o c)[i] = IF i <= Len(s) THEN s[i] ELSE c[i - Len(s)]
  BY <1>1, <1>2, ConcatProperties
<1>4. DOMAIN (s \o c) = 1 .. m + 1
  BY <1>1, <1>3
<1>5. \A k \in 1 .. m : (s \o c)[k] = s[k]
  BY <1>1, <1>3
<1>6. (s \o c)[m + 1] = ch
  <2>1. m + 1 \in 1 .. Len(s) + Len(c) /\ ~(m + 1 <= Len(s)) /\ m + 1 - Len(s) = 1
    BY <1>1
  <2> QED BY <1>1, <1>3, <2>1
<1> QED BY <1>4, <1>5, <1>6 DEF c

LEMMA RedrawnIs ==
  ASSUME NEW buf \in Buffers, NEW n \in Nat, n \in Index,
         \A i \in Index : Plain(buf[i])
  PROVE  \E text : /\ text = [i \in 1 .. n |-> buf[i - 1]] \o <<Space>>
                   /\ DOMAIN text = 1 .. n + 1
                   /\ \A k \in 1 .. n + 1 : Plain(text[k])
                   /\ \A i \in 0 .. n - 1 : text[i + 1] = buf[i]
                   /\ text[n + 1] = Space
<1>1. PICK s : s = [i \in 1 .. n |-> buf[i - 1]]
  OBVIOUS
<1>2. \A i \in 1 .. n : i - 1 \in Index
  BY IndexIsNat
<1>3. s \in Seq(TableChars) /\ Len(s) = n
  BY <1>1, <1>2 DEF Buffers
<1>4. PICK text : text = s \o <<Space>>
  OBVIOUS
<1>5. DOMAIN text = 1 .. n + 1 /\ (\A k \in 1 .. n : text[k] = s[k]) /\ text[n + 1] = Space
  BY <1>3, <1>4, TextIs
<1>6. Plain(Space)
  BY Zenon DEF Plain, Space
<1>7. ASSUME NEW k \in 1 .. n + 1 PROVE Plain(text[k])
  <2>1. CASE k \in 1 .. n
    BY <1>1, <1>2, <1>5, <2>1
  <2>2. CASE k = n + 1
    BY <1>5, <1>6, <2>2
  <2> QED BY <2>1, <2>2
<1>8. ASSUME NEW i \in 0 .. n - 1 PROVE text[i + 1] = buf[i]
  <2>1. i + 1 \in 1 .. n /\ i + 1 - 1 = i
    OBVIOUS
  <2> QED BY <1>1, <1>5, <2>1
<1> QED BY <1>1, <1>4, <1>5, <1>7, <1>8

\* Whatever the position, the line is drawn on a screen.
LEMMA RedrawScreen ==
  ASSUME IsScreen(screen), NEW buf \in Buffers, NEW n \in Nat, n \in Index, NEW pos \in Nat,
         \A i \in Index : Plain(buf[i])
  PROVE  IsScreen(Redraw(buf, n, pos))
<1>1. PICK g, p : g = screen.cells /\ p = screen.cursor
  OBVIOUS
<1>2. screen = ScreenOf(g, p) /\ Grid(g) /\ p \in Positions
  BY <1>1, ScreenParts
<1>3. PICK text : text = [i \in 1 .. n |-> buf[i - 1]] \o <<Space>> /\ DOMAIN text = 1 .. n + 1
  BY RedrawnIs
<1>4. PICK start : start = get_cursor(screen) - n * 2
  OBVIOUS
<1>5. start \in Int
  BY <1>2, <1>4, CursorIs, PositionsInNat
<1>6. PICK q : q = (start % Wide) \div 2
  OBVIOUS
<1>7. q \in Positions /\ set_cursor(screen, start) = ScreenOf(g, q)
  BY <1>2, <1>5, <1>6, CursorIs, CutToPosition
<1>8. PICK s : s = kprint(ScreenOf(g, q), text)
  OBVIOUS
<1>9. IsScreen(s)
  <2>1. n + 1 \in Nat
    OBVIOUS
  <2> QED BY <1>2, <1>3, <1>7, <1>8, <2>1, MadeScreen, KprintScreen
<1>10. IsScreen(set_cursor(s, start + pos * 2))
  <2>1. start + pos * 2 \in Int
    BY <1>5
  <2>2. PICK h, r : h = s.cells /\ r = s.cursor
    OBVIOUS
  <2>3. s = ScreenOf(h, r) /\ Grid(h) /\ r \in Positions
    BY <1>9, <2>2, ScreenParts
  <2>4. set_cursor(s, start + pos * 2) = ScreenOf(h, ((start + pos * 2) % Wide) \div 2)
    BY <2>3, CursorIs
  <2>5. ((start + pos * 2) % Wide) \div 2 \in Positions
    BY <2>1, CutToPosition
  <2> QED BY <2>3, <2>4, <2>5, MadeScreen
<1>11. Redraw(buf, n, pos) = set_cursor(s, start + pos * 2)
  BY <1>3, <1>4, <1>7, <1>8, Zenon DEF Redraw
<1> QED BY <1>10, <1>11

\* Erased at its end, the line is drawn where it was, one char shorter.
LEMMA RedrawAtEnd ==
  ASSUME IsScreen(screen), Clear(screen), NEW o \in Nat, NEW n \in Nat, n \in Index, n > 0,
         screen.cursor = o + n, NEW buf \in Buffers, \A i \in Index : Plain(buf[i]), buf[n - 1] = NUL
  PROVE  /\ Redraw(buf, n, n - 1).cursor = o + (n - 1)
         /\ \A i \in 0 .. n - 2 : Redraw(buf, n, n - 1).cells[o + i] = buf[i]
         /\ Clear(Redraw(buf, n, n - 1))
<1>1. PICK g : g = screen.cells
  OBVIOUS
<1>2. screen = ScreenOf(g, o + n) /\ Grid(g) /\ o + n \in Positions
  BY <1>1, ScreenParts
<1>3. PICK text : /\ text = [i \in 1 .. n |-> buf[i - 1]] \o <<Space>>
                  /\ DOMAIN text = 1 .. n + 1
                  /\ \A k \in 1 .. n + 1 : Plain(text[k])
                  /\ \A i \in 0 .. n - 1 : text[i + 1] = buf[i]
                  /\ text[n + 1] = Space
  BY RedrawnIs
<1>4. /\ Window \in Nat /\ o + n < Window
      /\ \A i \in o + n .. Window - 1 : g[i] \in {Space, Blank}
  BY <1>2, ClearIs, RowsAndColumns
<1>5. o \in Positions /\ o + (n - 1) \in Positions
  <2>1. o \in 0 .. Window + 1 /\ o + (n - 1) \in 0 .. Window + 1
    BY <1>4
  <2> QED BY <2>1, WindowInside
<1>6. get_cursor(screen) - n * 2 = 2 * o
  <2>1. get_cursor(screen) = 2 * (o + n)
    BY <1>2, CursorIs
  <2> QED BY <2>1
<1>7. set_cursor(screen, 2 * o) = ScreenOf(g, o)
  <2>1. set_cursor(screen, 2 * o) = ScreenOf(g, ((2 * o) % Wide) \div 2)
    BY <1>2, CursorIs
  <2>2. ((2 * o) % Wide) \div 2 = o
    BY <1>5, Halves
  <2> QED BY <2>1, <2>2
<1>8. PICK m \in Nat : m = n + 1
  OBVIOUS
<1>9. PICK h : h = Written(g, o, text, m)
  OBVIOUS
<1>10. Grid(h)
  BY <1>9, WrittenGrid
<1>11. kprint(ScreenOf(g, o), text) = ScreenOf(h, o + m)
  <2>1. o + m <= Window /\ DOMAIN text = 1 .. m /\ \A k \in 1 .. m : Plain(text[k])
    BY <1>3, <1>4, <1>8
  <2> QED BY <1>2, <1>9, <2>1, KprintPlain
<1>12. o + m \in Positions
  <2>1. o + m \in 0 .. Window + 1
    BY <1>4, <1>8
  <2> QED BY <2>1, WindowInside
<1>13. set_cursor(ScreenOf(h, o + m), 2 * o + (n - 1) * 2) = ScreenOf(h, o + (n - 1))
  <2>1. 2 * o + (n - 1) * 2 = 2 * (o + (n - 1))
    OBVIOUS
  <2>2. ((2 * (o + (n - 1))) % Wide) \div 2 = o + (n - 1)
    BY <1>5, Halves
  <2> QED BY <1>10, <1>12, <2>1, <2>2, CursorIs
<1>14. Redraw(buf, n, n - 1) = ScreenOf(h, o + (n - 1))
  BY <1>3, <1>6, <1>7, <1>11, <1>13, Zenon DEF Redraw
<1>15. ASSUME NEW i \in 0 .. n PROVE h[o + i] = text[i + 1]
  <2>1. o + i \in 0 .. Window + 1
    BY <1>4
  <2>2. o + i \in Positions /\ o <= o + i /\ o + i < o + m /\ o + i - o + 1 = i + 1
    BY <1>8, <2>1, WindowInside
  <2>3. h[o + i] = text[o + i - o + 1]
    BY <1>9, <2>2 DEF Written
  <2> QED BY <2>2, <2>3, Zenon
<1>16. ASSUME NEW i \in 0 .. n - 2 PROVE h[o + i] = buf[i]
  <2>1. i \in 0 .. n /\ i \in 0 .. n - 1
    OBVIOUS
  <2> QED BY <1>3, <1>15, <2>1, Zenon
<1>17. ASSUME NEW i \in o + (n - 1) .. Window - 1 PROVE h[i] \in {Space, Blank}
  <2>1. CASE i = o + (n - 1)
    <3>1. n - 1 \in 0 .. n /\ n - 1 \in 0 .. n - 1
      OBVIOUS
    <3>2. h[i] = NUL
      BY <1>3, <1>15, <2>1, <3>1
    <3> QED BY <3>2, Zenon DEF NUL, Blank
  <2>2. CASE i = o + n
    <3>1. n \in 0 .. n
      OBVIOUS
    <3> QED BY <1>3, <1>15, <2>2, <3>1
  <2>3. CASE o + n < i
    <3>1. i \in o + n .. Window - 1 /\ ~(i < o + m) /\ i \in 0 .. Window + 1
      BY <1>4, <1>8, <2>3
    <3>2. h[i] = g[i]
      BY <1>9, <3>1, WindowInside DEF Written
    <3> QED BY <1>4, <3>1, <3>2
  <2> QED BY <2>1, <2>2, <2>3
<1>18. Clear(ScreenOf(h, o + (n - 1)))
  <2>1. o + (n - 1) < Window
    BY <1>4
  <2> QED BY <1>17, <2>1, ClearIs
<1>19. ScreenOf(h, o + (n - 1)).cells = h /\ ScreenOf(h, o + (n - 1)).cursor = o + (n - 1)
  BY DEF ScreenOf
<1> QED BY <1>14, <1>16, <1>18, <1>19, Zenon

\* A char behind the line is drawn there.
LEMMA CharAtEnd ==
  ASSUME IsScreen(screen), Clear(screen), NEW ch, Plain(ch)
  PROVE  LET p == screen.cursor
             s == kputchar(screen, ch)
         IN  /\ s.cursor = p + 1
             /\ s.cells[p] = ch
             /\ \A i \in Positions : i # p => s.cells[i] = screen.cells[i]
             /\ InWindow(s) => Clear(s)
<1>1. PICK g, p : g = screen.cells /\ p = screen.cursor
  OBVIOUS
<1>2. screen = ScreenOf(g, p) /\ Grid(g) /\ p \in Positions
  BY <1>1, ScreenParts
<1>3. /\ Window \in Nat /\ p \in Nat /\ p < Window
      /\ \A i \in p .. Window - 1 : g[i] \in {Space, Blank}
  BY <1>2, ClearIs, RowsAndColumns, PositionsInNat
<1>4. PICK h : h = [g EXCEPT ![p] = ch]
  OBVIOUS
<1>5. kputchar(screen, ch) = ScreenOf(h, p + 1)
  BY <1>2, <1>3, <1>4, PlainIs
<1>6. h[p] = ch /\ \A i \in Positions : i # p => h[i] = g[i]
  BY <1>2, <1>4 DEF Grid
<1>7. ASSUME p + 1 < Window PROVE Clear(ScreenOf(h, p + 1))
  <2>1. ASSUME NEW i \in p + 1 .. Window - 1 PROVE h[i] \in {Space, Blank}
    <3>1. i \in p .. Window - 1 /\ i # p /\ i \in 0 .. Window + 1
      BY <1>3
    <3> QED BY <1>3, <1>6, <3>1, WindowInside
  <2> QED BY <1>7, <2>1, ClearIs
<1>8. ScreenOf(h, p + 1).cells = h /\ ScreenOf(h, p + 1).cursor = p + 1
  BY DEF ScreenOf
<1> QED BY <1>1, <1>5, <1>6, <1>7, <1>8, Zenon DEF InWindow

LEMMA DrawChar ==
  ASSUME LineInv, Read, IsScreen(screen), DrawnChars, NEW ch \in TableChars, Plain(ch), CharKey(ch)
  PROVE  IsScreen(screen') /\ DrawnChars' /\ (Drawn /\ ~astray' /\ origin' = origin => Drawn')
<1> DEFINE n == strlen(kscan_buf)
<1>1. kscan_buf \in Buffers /\ IsString(kscan_buf, n) /\ kscan_pos \in 0 .. n /\ n \in Nat /\ ch \in Chars
  BY LineNumbers DEF LineInv, CharKey, Chars
<1>2. /\ kscan_buf' = strins(kscan_buf, ch, kscan_pos) /\ kscan_pos' = kscan_pos + 1
      /\ screen' = kputchar(screen, ch) /\ astray' = (astray \/ ~InWindow(screen'))
  BY DEF CharKey
<1>3. n + 1 \in Index
  BY LineNumbers, IndexIsNat DEF CharKey, HasRoom
<1> HIDE DEF n
<1>4. IsScreen(screen')
  BY <1>2, PutScreen
<1>5. DrawnChars'
  BY <1>1, <1>2, InsertedPlain DEF DrawnChars
<1>6. ASSUME Drawn, ~astray', origin' = origin PROVE Drawn'
  <2>1. /\ kscan_pos = n /\ origin \in Nat /\ screen.cursor = origin + n /\ Clear(screen)
        /\ \A i \in 0 .. n - 1 : screen.cells[origin + i] = kscan_buf[i]
    BY <1>6 DEF Drawn, n
  <2>2. strlen(kscan_buf') = n + 1
    BY <1>1, <1>2, <1>3, Inserted, StrlenIs
  <2>3. /\ \A i \in 0 .. n - 1 : kscan_buf'[i] = kscan_buf[i]
        /\ kscan_buf'[n] = ch
    BY <1>1, <1>2, <2>1, InsertedAtEnd
  <2>4. /\ screen'.cursor = origin + n + 1 /\ screen'.cells[origin + n] = ch
        /\ \A i \in Positions : i # origin + n => screen'.cells[i] = screen.cells[i]
        /\ Clear(screen')
    BY <1>2, <1>6, <2>1, CharAtEnd
  <2>5. ASSUME NEW i \in 0 .. n PROVE screen'.cells[origin + i] = kscan_buf'[i]
    <3>1. CASE i = n
      BY <2>3, <2>4, <3>1
    <3>2. CASE i # n
      <4>1. origin + n < Window /\ Window \in Nat
        BY <2>1, RowsAndColumns DEF Clear, InWindow
      <4>2. i \in 0 .. n - 1 /\ origin + i # origin + n /\ origin + i \in 0 .. Window + 1
        BY <1>1, <2>1, <3>2, <4>1
      <4> QED BY <2>1, <2>3, <2>4, <4>2, WindowInside
    <3> QED BY <3>1, <3>2
  <2>6. kscan_pos' = n + 1 /\ (n + 1) - 1 = n /\ origin + n + 1 = origin + (n + 1)
    BY <1>1, <1>2, <2>1
  <2>7. \A i \in 0 .. strlen(kscan_buf') - 1 : screen'.cells[origin' + i] = kscan_buf'[i]
    BY <1>6, <2>2, <2>5, <2>6, Zenon
  <2>8. /\ kscan_pos' = strlen(kscan_buf') /\ origin' \in Nat
        /\ screen'.cursor = origin' + strlen(kscan_buf')
    BY <1>6, <2>1, <2>2, <2>4, <2>6, Zenon
  <2> QED BY <2>4, <2>7, <2>8, Zenon DEF Drawn
<1> QED BY <1>4, <1>5, <1>6

LEMMA DrawBackspace ==
  ASSUME LineInv, IsScreen(screen), DrawnChars, BackspaceKey
  PROVE  IsScreen(screen') /\ DrawnChars' /\ (Drawn /\ origin' = origin => Drawn')
<1> DEFINE n == strlen(kscan_buf)
<1>1. /\ kscan_buf \in Buffers /\ IsString(kscan_buf, n) /\ kscan_pos \in 1 .. n
      /\ n \in Nat /\ n \in Index /\ n > 0
  BY LineNumbers DEF LineInv, BackspaceKey, IsString
<1>2. /\ kscan_buf' = Erased(kscan_buf, kscan_pos) /\ kscan_pos' = kscan_pos - 1
      /\ screen' = Redraw(kscan_buf', n, kscan_pos')
  BY DEF BackspaceKey
<1> HIDE DEF n
<1>3. kscan_buf' \in Buffers /\ IsString(kscan_buf', n - 1)
  BY <1>1, <1>2, ErasedOne
<1>4. DrawnChars'
  BY <1>1, <1>2, ErasedPlain DEF DrawnChars
<1>5. IsScreen(screen')
  <2>1. kscan_pos' \in Nat
    BY <1>1, <1>2
  <2> QED BY <1>1, <1>2, <1>3, <1>4, <2>1, RedrawScreen DEF DrawnChars
<1>6. ASSUME Drawn, origin' = origin PROVE Drawn'
  <2>1. kscan_pos = n /\ origin \in Nat /\ screen.cursor = origin + n /\ Clear(screen)
    BY <1>6 DEF Drawn, n
  <2>2. strlen(kscan_buf') = n - 1 /\ kscan_buf'[n - 1] = NUL
    BY <1>3, StrlenIs DEF IsString
  <2>3. screen' = Redraw(kscan_buf', n, n - 1)
    BY <1>2, <2>1
  <2>4. /\ screen'.cursor = origin + (n - 1) /\ Clear(screen')
        /\ \A i \in 0 .. n - 2 : screen'.cells[origin + i] = kscan_buf'[i]
    BY <1>1, <1>3, <1>4, <2>1, <2>2, <2>3, RedrawAtEnd DEF DrawnChars
  <2>5. 0 .. n - 1 - 1 = 0 .. n - 2 /\ kscan_pos' = n - 1
    BY <1>1, <1>2, <2>1
  <2> QED BY <1>6, <2>1, <2>2, <2>4, <2>5 DEF Drawn
<1> QED BY <1>4, <1>5, <1>6

LEMMA DrawEnter ==
  ASSUME IsScreen(screen), EnterKey
  PROVE  IsScreen(screen') /\ (Clear(screen) => Clear(screen'))
<1>1. PICK g, p : g = screen.cells /\ p = screen.cursor
  OBVIOUS
<1>2. screen = ScreenOf(g, p) /\ Grid(g) /\ p \in Nat
  BY <1>1, ScreenParts, PositionsInNat
<1>3. screen' = kputchar(screen, "NL") /\ kputchar(screen, "NL") = NewLine(screen)
  BY DEF EnterKey, kputchar
<1> QED BY <1>2, <1>3, PutScreen, NewLineClear

\* The prompt, and the text of the result, for which the window has room.
LEMMA DrawBegin ==
  ASSUME LineInv, DrawInv, Begin
  PROVE  DrawInv'
<1>1. /\ enter' = FALSE /\ kscan_pos' = 0 /\ kscan_buf' = strnone(kscan_buf)
      /\ screen' = kprint(screen, Prompt) /\ origin' = screen'.cursor
      /\ astray' = ((astray \/ late \/ ~Fits(Prompt)) /\ ~Clear(screen'))
      /\ pc = "begin" /\ pc' = "while"
  BY DEF Begin, At
<1>2. IsScreen(screen')
  BY <1>1, PromptIs, KprintScreen DEF DrawInv
<1>3. kscan_buf \in Buffers
  BY DEF LineInv
<1>4. DrawnChars'
  BY <1>1, <1>3, ClearedPlain DEF DrawInv, DrawnChars
<1>5. strlen(kscan_buf') = 0
  BY <1>1, <1>3, Cleared, StrlenIs
<1>6. screen'.cursor \in Nat
  BY <1>2, ScreenParts, PositionsInNat
<1>7. ASSUME ~astray' PROVE Clear(screen')
  <2>1. CASE ~Clear(screen')
    <3>1. ~astray /\ ~late /\ Fits(Prompt)
      BY <1>1, <1>7, <2>1
    <3>2. Clear(screen)
      BY <1>1, <3>1 DEF DrawInv, Editing
    <3>3. PICK g, p : g = screen.cells /\ p = screen.cursor
      OBVIOUS
    <3>4. screen = ScreenOf(g, p) /\ Grid(g) /\ p \in Nat
      BY <3>3, ScreenParts, PositionsInNat DEF DrawInv
    <3>5. p + PromptLen < Window /\ p + PromptLen <= Window
      BY <3>1, <3>3, <3>4, PromptIs, RowsAndColumns DEF Fits
    <3>6. screen' = ScreenOf(Written(g, p, Prompt, PromptLen), p + PromptLen)
      BY <1>1, <3>4, <3>5, PromptIs, KprintPlain
    <3> QED BY <3>2, <3>4, <3>5, <3>6, PromptIs, WrittenClear
  <2> QED BY <2>1
<1>8. ~astray' => Drawn'
  <2>1. \A i \in 0 .. 0 - 1 : screen'.cells[origin' + i] = kscan_buf'[i]
    OBVIOUS
  <2>2. origin' \in Nat /\ screen'.cursor = origin' + 0 /\ kscan_pos' = 0
    BY <1>1, <1>6
  <2> QED BY <1>5, <1>7, <2>1, <2>2 DEF Drawn
<1>9. Editing' /\ ~(pc' \in {"begin", "result"})
  BY <1>1 DEF Editing
<1> QED BY <1>2, <1>4, <1>8, <1>9 DEF DrawInv

\* The label and the line.
LEMMA LabelledIs ==
  ASSUME NEW l \in Seq(Chars), \A k \in 1 .. Len(l) : Plain(l[k])
  PROVE  /\ Label \o l \in Seq(Chars \cup {":"}) /\ Len(Label \o l) = LabelLen + Len(l)
         /\ \A k \in 1 .. LabelLen + Len(l) : Plain((Label \o l)[k])
<1>1. PICK S : S = Chars \cup {":"}
  OBVIOUS
<1>2. Label \in Seq(S) /\ l \in Seq(S) /\ Len(l) \in Nat
  <2>1. {":"} \subseteq S /\ Chars \subseteq S
    BY <1>1
  <2> QED BY <2>1, LabelIs
<1>3. /\ Label \o l \in Seq(S) /\ Len(Label \o l) = LabelLen + Len(l)
      /\ \A k \in 1 .. LabelLen + Len(l) :
           (Label \o l)[k] = IF k <= LabelLen THEN Label[k] ELSE l[k - LabelLen]
  BY <1>2, LabelIs, ConcatProperties
<1>4. ASSUME NEW k \in 1 .. LabelLen + Len(l) PROVE Plain((Label \o l)[k])
  <2>1. CASE k <= LabelLen
    <3>1. k \in 1 .. LabelLen
      BY <2>1, LabelIs
    <3> QED BY <1>3, <2>1, <3>1, LabelIs
  <2>2. CASE ~(k <= LabelLen)
    <3>1. k - LabelLen \in 1 .. Len(l)
      BY <1>2, <2>2, LabelIs
    <3> QED BY <1>3, <2>2, <3>1
  <2> QED BY <2>1, <2>2
<1> QED BY <1>1, <1>3, <1>4

LEMMA DrawResult ==
  ASSUME LineInv, DrawInv, Result
  PROVE  DrawInv'
<1>1. /\ screen' = kprint(screen, Label \o Line(kscan_buf) \o <<"NL">>)
      /\ astray' = (astray \/ ~Fits(Label \o Line(kscan_buf)))
      /\ pc = "result" /\ pc' = "begin"
      /\ UNCHANGED <<handler, kscan_buf, late>>
  BY DEF Result, At, irqVars, editVars
<1>2. kscan_buf \in Buffers /\ IsString(kscan_buf, strlen(kscan_buf))
  BY DEF LineInv
<1>3. /\ Line(kscan_buf) \in Seq(Chars) /\ Len(Line(kscan_buf)) = strlen(kscan_buf)
      /\ \A i \in 1 .. strlen(kscan_buf) : Line(kscan_buf)[i] = kscan_buf[i - 1]
  BY <1>2, LineIs
<1>4. ASSUME NEW k \in 1 .. strlen(kscan_buf) PROVE Plain(Line(kscan_buf)[k])
  <2>1. k - 1 \in Index
    BY <1>2, IndexIsNat DEF IsString
  <2> QED BY <1>3, <2>1 DEF DrawInv, DrawnChars
<1>5. PICK l : l = Label \o Line(kscan_buf)
  OBVIOUS
<1>6. PICK n : n = LabelLen + strlen(kscan_buf)
  OBVIOUS
<1>7. n \in Nat /\ l \in Seq(Chars \cup {":"}) /\ Len(l) = n /\ \A k \in 1 .. n : Plain(l[k])
  <2>1. Label \o Line(kscan_buf) \in Seq(Chars \cup {":"})
    BY <1>3, <1>4, LabelledIs
  <2>2. /\ Len(Label \o Line(kscan_buf)) = LabelLen + strlen(kscan_buf)
        /\ \A k \in 1 .. LabelLen + strlen(kscan_buf) : Plain((Label \o Line(kscan_buf))[k])
    BY <1>3, <1>4, LabelledIs
  <2>3. n \in Nat
    BY <1>6, LabelIs, LineNumbers
  <2> QED BY <1>5, <1>6, <2>1, <2>2, <2>3, Zenon
<1>8. PICK text : text = l \o <<"NL">>
  OBVIOUS
<1>9. DOMAIN text = 1 .. n + 1 /\ (\A k \in 1 .. n : Plain(text[k])) /\ text[n + 1] = "NL"
  BY <1>7, <1>8, TextIs
<1>10. screen' = kprint(screen, text)
  BY <1>1, <1>5, <1>8
<1>11. IsScreen(screen')
  <2>1. n + 1 \in Nat
    BY <1>7
  <2> QED BY <1>9, <1>10, <2>1, KprintScreen DEF DrawInv
<1>12. ASSUME ~astray', ~late' PROVE Clear(screen')
  <2>1. ~astray /\ ~late /\ Fits(l)
    BY <1>1, <1>5, <1>12
  <2>2. Clear(screen)
    BY <1>1, <2>1 DEF DrawInv, Editing
  <2>3. PICK g, p : g = screen.cells /\ p = screen.cursor
    OBVIOUS
  <2>4. screen = ScreenOf(g, p) /\ Grid(g) /\ p \in Nat
    BY <2>3, ScreenParts, PositionsInNat DEF DrawInv
  <2>5. p + n < Window /\ p + n <= Window /\ p + n \in Nat
    BY <1>7, <2>1, <2>3, <2>4, RowsAndColumns DEF Fits
  <2>6. screen' = NewLine(ScreenOf(Written(g, p, text, n), p + n))
    BY <1>7, <1>9, <1>10, <2>4, <2>5, KprintLine
  <2>7. Clear(ScreenOf(Written(g, p, text, n), p + n))
    BY <1>7, <1>9, <2>2, <2>4, <2>5, WrittenClear
  <2> QED BY <2>5, <2>6, <2>7, WrittenGrid, NewLineClear
<1>13. handler' = NULL /\ ~Editing' /\ DrawnChars'
  BY <1>1 DEF DrawInv, DrawnChars, Editing
<1> QED BY <1>11, <1>12, <1>13 DEF DrawInv

\* The keys, while the thread waits.
LEMMA DrawHandler ==
  ASSUME LineInv, Flags, CallInv, DrawInv, kscan_handler
  PROVE  DrawInv'
<1>1. Read
  BY InbReads DEF kscan_handler
<1>2. pc' = pc /\ handler' = handler /\ pc \notin {"begin", "result"}
  <2>1. handler # NULL
    BY DEF kscan_handler, NULL
  <2> QED BY <2>1 DEF kscan_handler, inb, DrawInv
<1>3. Editing \/ enter
  BY <1>2 DEF Flags, CallInv, Editing
<1>4. CASE UNCHANGED <<editVars, enter, screen, origin, history>>
  <2>1. UNCHANGED <<kscan_buf, kscan_pos, enter, screen, origin, astray, late>>
    BY <1>4 DEF editVars, history
  <2> QED BY <1>2, <2>1 DEF DrawInv, DrawnChars, Drawn, Editing
<1>5. CASE EnterKey
  <2>1. enter' = TRUE /\ UNCHANGED <<kscan_buf, astray, late>>
    BY <1>5 DEF EnterKey
  <2>2. IsScreen(screen') /\ (Clear(screen) => Clear(screen'))
    BY <1>5, DrawEnter DEF DrawInv
  <2>3. ~astray /\ ~late => Clear(screen)
    BY DEF DrawInv, Drawn
  <2>4. ~Editing'
    BY <2>1 DEF Editing
  <2> QED BY <1>2, <2>1, <2>2, <2>3, <2>4 DEF DrawInv, DrawnChars
<1>6. ASSUME NEW scancode, EditKey(scancode), Edited PROVE DrawInv'
  <2>1. enter' = enter /\ origin' = origin /\ late' = (late \/ enter)
    BY <1>6 DEF Edited
  <2>2. Editing' = Editing
    BY <1>2, <2>1 DEF Editing
  <2>3. ~Editing' => late'
    BY <1>3, <2>1, <2>2
  <2>4. IsScreen(screen') /\ DrawnChars' /\ (Editing /\ ~astray' => Drawn')
    <3>1. IsScreen(screen) /\ DrawnChars /\ (Editing /\ ~astray => Drawn)
      BY DEF DrawInv
    <3>2. CASE ArrowLeft \/ ArrowRight
      BY <3>1, <3>2 DEF ArrowLeft, ArrowRight, DrawnChars
    <3>3. CASE BackspaceKey
      <4>1. astray' = astray
        BY <3>3 DEF BackspaceKey
      <4> QED BY <2>1, <3>1, <3>3, <4>1, DrawBackspace
    <3>4. CASE TypesChar(scancode) /\ CharKey(ShiftedChar(scancode))
      <4>1. PICK ch : ch = ShiftedChar(scancode)
        OBVIOUS
      <4>2. ch \in TableChars /\ Plain(ch) /\ CharKey(ch)
        BY <3>4, <4>1, ShiftedCharType, PlainKeys DEF TypesChar
      <4>3. astray' = (astray \/ ~InWindow(screen'))
        BY <4>2 DEF CharKey
      <4> QED BY <1>1, <2>1, <3>1, <4>2, <4>3, DrawChar
    <3> QED BY <1>6, <3>2, <3>3, <3>4 DEF EditKey
  <2> QED BY <1>2, <2>2, <2>3, <2>4 DEF DrawInv
<1> QED BY <1>4, <1>5, <1>6 DEF kscan_handler, PlainKey, CharOverruns, EditState

\* The screen and the line stay.
LEMMA DrawStays ==
  ASSUME DrawInv, UNCHANGED <<kscan_buf, kscan_pos, screen, origin, astray, late>>,
         Editing' = Editing, pc' \in {"begin", "result"} => handler' = NULL
  PROVE  DrawInv'
BY DEF DrawInv, DrawnChars, Drawn

LEMMA DrawThread ==
  ASSUME LineInv, DrawInv, kscan
  PROVE  DrawInv'
<1>1. CASE Begin
  BY <1>1, DrawBegin
<1>2. CASE While \/ If
  <2>1. UNCHANGED <<kscan_buf, kscan_pos, enter, screen, origin, astray, late>>
    BY <1>2 DEF While, If, EditState, editVars, history
  <2>2. Editing' = Editing /\ pc' \notin {"begin", "result"}
    BY <1>2, <2>1 DEF While, If, At, Editing
  <2> QED BY <2>1, <2>2, DrawStays
<1>3. CASE Register
  <2>1. UNCHANGED <<kscan_buf, kscan_pos, enter, screen, origin, astray, late>>
    BY <1>3 DEF Register, EditState, editVars, history
  <2>2. Editing' = Editing /\ pc' \notin {"begin", "result"}
    BY <1>3, <2>1 DEF Register, At, Editing
  <2> QED BY <2>1, <2>2, DrawStays
<1>4. CASE Uninstall
  <2>1. UNCHANGED <<kscan_buf, kscan_pos, enter, screen, origin, astray, late>>
    BY <1>4 DEF Uninstall, EditState, editVars, history
  <2>2. Editing' = Editing /\ handler' = NULL
    BY <1>4, <2>1 DEF Uninstall, At, Editing, idt_uninstall_handler
  <2> QED BY <2>1, <2>2, DrawStays
<1>5. CASE Result
  BY <1>5, DrawResult
<1> QED BY <1>1, <1>2, <1>3, <1>4, <1>5 DEF kscan

LEMMA DrawNext ==
  ASSUME LineInv, Flags, CallInv, DrawInv, [Next]_vars
  PROVE  DrawInv'
<1>1. CASE UNCHANGED <<EditState, pc>> /\ handler' = handler
  <2>1. UNCHANGED <<kscan_buf, kscan_pos, enter, screen, origin, astray, late>>
    BY <1>1 DEF EditState, editVars, history
  <2>2. Editing' = Editing
    BY <1>1, <2>1 DEF Editing
  <2>3. pc' \in {"begin", "result"} => handler' = NULL
    BY <1>1 DEF DrawInv
  <2> QED BY <2>1, <2>2, <2>3, DrawStays
<1>2. CASE Keyboard /\ UNCHANGED <<modifiers, EditState, pc, result>>
  <2>1. handler' = handler
    BY <1>2 DEF Keyboard, Press, Release, Present
  <2> QED BY <1>1, <1>2, <2>1
<1>3. CASE kscan_handler
  BY <1>3, DrawHandler
<1>4. CASE isr_dispatch /\ ~kscan_handler
  <2>1. UNCHANGED <<EditState, pc>>
    BY <1>4 DEF isr_dispatch
  <2>2. handler' = handler
    BY <1>4 DEF isr_dispatch, Interrupt, DispatchUnhandled, EndOfInterrupt
  <2> QED BY <1>1, <2>1, <2>2
<1>5. CASE kscan
  BY <1>5, DrawThread
<1>6. CASE UNCHANGED vars
  BY <1>1, <1>6 DEF vars, EditState, irqVars
<1> QED BY <1>2, <1>3, <1>4, <1>5, <1>6 DEF Next

LEMMA DrawInit == Init => DrawInv
<1> SUFFICES ASSUME Init PROVE DrawInv
  OBVIOUS
<1>1. PICK g : g = [i \in Positions |-> IF i < Window THEN Blank ELSE "?"]
  OBVIOUS
<1>2. screen = ScreenOf(g, 0) /\ Grid(g)
  BY <1>1, KclearIs, Zenon DEF Init
<1>3. 0 \in Positions /\ 0 < Window /\ Window \in Nat
  <2>1. 0 \in 0 .. Window + 1 /\ 0 < Window /\ Window \in Nat
    BY TerminalAssumption, SMT DEF Window
  <2> QED BY <2>1, WindowInside
<1>4. IsScreen(screen)
  BY <1>2, <1>3, MadeScreen
<1>5. ASSUME NEW i \in 0 .. Window - 1 PROVE g[i] \in {Space, Blank}
  <2>1. i \in 0 .. Window + 1 /\ i < Window
    BY <1>3
  <2>2. i \in Positions
    BY <2>1, WindowInside
  <2> QED BY <1>1, <2>1, <2>2
<1>6. Clear(screen)
  BY <1>2, <1>3, <1>5, ClearIs
<1>7. DrawnChars
  <2>1. Plain(NUL)
    BY Zenon DEF Plain, NUL
  <2> QED BY <2>1 DEF Init, Index, DrawnChars
<1>8. pc = "begin" /\ handler = NULL
  BY DEF Init, IrqInit
<1> QED BY <1>4, <1>6, <1>7, <1>8 DEF DrawInv, Editing

\* In every call the screen shows the line that is being edited, with the cursor
\* where the next char goes, as long as no arrow is used, no key comes between
\* Enter and the next call, and the window has room; and again as soon as a call
\* begins on a window that is clear behind its prompt.
THEOREM KscanShows == Spec => []ShownUnlessAstray
<1>1. LineInv /\ DrawInv => ShownUnlessAstray
  <2> SUFFICES ASSUME LineInv, DrawInv, Editing, ~astray PROVE Shown
    BY DEF ShownUnlessAstray
  <2> DEFINE n == strlen(kscan_buf)
             at == origin + n
  <2>1. /\ kscan_pos = n /\ origin \in Nat /\ screen.cursor = at /\ Clear(screen)
        /\ \A i \in 0 .. n - 1 : screen.cells[origin + i] = kscan_buf[i]
    BY DEF DrawInv, Drawn
  <2>2. kscan_buf \in Buffers /\ IsString(kscan_buf, n) /\ n \in Nat
    BY LineNumbers DEF LineInv
  <2>3. \A i \in 1 .. n : Line(kscan_buf)[i] = kscan_buf[i - 1]
    BY <2>2, LineIs
  <2> HIDE DEF n
  <2>4. ASSUME NEW i \in 1 .. n PROVE screen.cells[origin + i - 1] = Line(kscan_buf)[i]
    <3>1. i - 1 \in 0 .. n - 1 /\ origin + (i - 1) = origin + i - 1
      BY <2>1, <2>2
    <3> QED BY <2>1, <2>3, <3>1
  <2>5. screen.cells[at] \in {Space, Blank}
    <3>1. at \in at .. Window - 1
      BY <2>1, <2>2, RowsAndColumns DEF Clear, InWindow
    <3> QED BY <2>1, <3>1 DEF Clear
  <2> QED BY <2>1, <2>4, <2>5 DEF Shown, n
<1>2. Init => LineInv /\ Flags /\ CallInv /\ DrawInv
  BY LineInit, FlagsInit, CallInvInit, DrawInit
<1>3. LineInv /\ Flags /\ CallInv /\ DrawInv /\ [Next]_vars
        => (LineInv /\ Flags /\ CallInv /\ DrawInv)'
  BY LineStep, FlagsNext, CallInvNext, DrawNext
<1> QED BY <1>1, <1>2, <1>3, PTL DEF Spec
=============================================================================
