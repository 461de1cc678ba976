---------------------------- MODULE StringProofs ----------------------------
(***************************************************************************)
(* The string library, for all texts, delimiters, strings and heaps.       *)
(***************************************************************************)
EXTENDS Strings, SequenceTheorems, HeapProofs

-----------------------------------------------------------------------------
(* The first element that passes a test *)

\* k is the first index of seq whose element passes the test, of which I has
\* the indices, or 0.
IsFirst(k, I) ==
  \/ k = 0 /\ I = {}
  \/ k \in I /\ \A i \in I : k <= i

LEMMA FirstOf ==
  ASSUME NEW n \in Nat, NEW I, I \subseteq 1 .. n
  PROVE  IsFirst(IF I # {} THEN Min(I) ELSE 0, I)
<1>1. I \in SUBSET Nat
  OBVIOUS
<1> QED BY <1>1, MinOfNaturals, Zenon DEF IsFirst

LEMMA SelectEqual ==
  ASSUME NEW S, NEW seq \in Seq(S), NEW v
  PROVE  IsFirst(SelectInSeq(seq, LAMBDA c : c = v), {i \in 1 .. Len(seq) : seq[i] = v})
<1>1. SelectInSeq(seq, LAMBDA c : c = v)
        = IF {i \in 1 .. Len(seq) : seq[i] = v} # {} THEN Min({i \in 1 .. Len(seq) : seq[i] = v}) ELSE 0
  BY DEF SelectInSeq
<1>2. Len(seq) \in Nat /\ {i \in 1 .. Len(seq) : seq[i] = v} \subseteq 1 .. Len(seq)
  OBVIOUS
<1> QED BY <1>1, <1>2, FirstOf

LEMMA SelectIn ==
  ASSUME NEW S, NEW seq \in Seq(S), NEW V
  PROVE  IsFirst(SelectInSeq(seq, LAMBDA c : c \in V), {i \in 1 .. Len(seq) : seq[i] \in V})
<1>1. SelectInSeq(seq, LAMBDA c : c \in V)
        = IF {i \in 1 .. Len(seq) : seq[i] \in V} # {} THEN Min({i \in 1 .. Len(seq) : seq[i] \in V}) ELSE 0
  BY DEF SelectInSeq
<1>2. Len(seq) \in Nat /\ {i \in 1 .. Len(seq) : seq[i] \in V} \subseteq 1 .. Len(seq)
  OBVIOUS
<1> QED BY <1>1, <1>2, FirstOf

LEMMA SelectNotIn ==
  ASSUME NEW S, NEW seq \in Seq(S), NEW V
  PROVE  IsFirst(SelectInSeq(seq, LAMBDA c : c \notin V), {i \in 1 .. Len(seq) : seq[i] \notin V})
<1>1. SelectInSeq(seq, LAMBDA c : c \notin V)
        = IF {i \in 1 .. Len(seq) : seq[i] \notin V} # {} THEN Min({i \in 1 .. Len(seq) : seq[i] \notin V}) ELSE 0
  BY DEF SelectInSeq
<1>2. Len(seq) \in Nat /\ {i \in 1 .. Len(seq) : seq[i] \notin V} \subseteq 1 .. Len(seq)
  OBVIOUS
<1> QED BY <1>1, <1>2, FirstOf

-----------------------------------------------------------------------------
(* Parts of sequences *)

LEMMA SubSeqIs ==
  ASSUME NEW S, NEW a \in Seq(S), NEW m \in 1 .. Len(a) + 1, NEW n \in m - 1 .. Len(a)
  PROVE  /\ SubSeq(a, m, n) \in Seq(S)
         /\ Len(SubSeq(a, m, n)) = n - m + 1
         /\ \A i \in 1 .. n - m + 1 : SubSeq(a, m, n)[i] = a[m + i - 1]
<1>1. m \in Int /\ n \in Int /\ Len(a) \in Nat /\ m >= 1 /\ n <= Len(a) /\ m - 1 <= n
  BY LenProperties
<1>2. \A i \in m .. n : a[i] \in S
  BY <1>1, ElementOfSeq
<1>3. /\ SubSeq(a, m, n) \in Seq(S)
      /\ Len(SubSeq(a, m, n)) = IF m <= n THEN n - m + 1 ELSE 0
      /\ \A i \in 1 .. n - m + 1 : SubSeq(a, m, n)[i] = a[m + i - 1]
  BY <1>1, <1>2, SubSeqProperties
<1>4. (IF m <= n THEN n - m + 1 ELSE 0) = n - m + 1
  BY <1>1
<1> QED BY <1>3, <1>4

LEMMA SubSeqUnique ==
  ASSUME NEW S, NEW a \in Seq(S), NEW m \in 1 .. Len(a) + 1, NEW n \in m - 1 .. Len(a),
         NEW t \in Seq(S), Len(t) = n - m + 1, \A i \in 1 .. n - m + 1 : t[i] = a[m + i - 1]
  PROVE  t = SubSeq(a, m, n)
<1>1. /\ SubSeq(a, m, n) \in Seq(S)
      /\ Len(SubSeq(a, m, n)) = n - m + 1
      /\ \A i \in 1 .. n - m + 1 : SubSeq(a, m, n)[i] = a[m + i - 1]
  BY SubSeqIs
<1>2. Len(t) = Len(SubSeq(a, m, n)) /\ \A i \in 1 .. Len(t) : t[i] = SubSeq(a, m, n)[i]
  BY <1>1
<1> QED BY <1>1, <1>2, SeqEqual

\* A part of a part.
LEMMA SubSubSeq ==
  ASSUME NEW S, NEW a \in Seq(S), NEW m \in 1 .. Len(a) + 1, NEW n \in m - 1 .. Len(a),
         NEW p \in 1 .. n - m + 2, NEW q \in p - 1 .. n - m + 1
  PROVE  SubSeq(SubSeq(a, m, n), p, q) = SubSeq(a, m + p - 1, m + q - 1)
<1> DEFINE t == SubSeq(a, m, n)
           m2 == m + p - 1
           n2 == m + q - 1
<1>1. /\ t \in Seq(S) /\ Len(t) = n - m + 1
      /\ \A i \in 1 .. n - m + 1 : t[i] = a[m + i - 1]
  BY SubSeqIs
<1> HIDE DEF t
<1>2. Len(a) \in Nat /\ m \in Nat /\ n \in Int /\ p \in Nat /\ q \in Int
  BY LenProperties
<1>3. p \in 1 .. Len(t) + 1 /\ q \in p - 1 .. Len(t)
  BY <1>1, <1>2
<1>4. /\ SubSeq(t, p, q) \in Seq(S)
      /\ Len(SubSeq(t, p, q)) = q - p + 1
      /\ \A i \in 1 .. q - p + 1 : SubSeq(t, p, q)[i] = t[p + i - 1]
  BY <1>1, <1>3, SubSeqIs
<1>5. m2 \in 1 .. Len(a) + 1 /\ n2 \in m2 - 1 .. Len(a) /\ n2 - m2 + 1 = q - p + 1
  BY <1>2
<1>6. ASSUME NEW i \in 1 .. q - p + 1 PROVE SubSeq(t, p, q)[i] = a[m2 + i - 1]
  <2>1. p + i - 1 \in 1 .. n - m + 1 /\ m + (p + i - 1) - 1 = m2 + i - 1
    BY <1>2
  <2> QED BY <1>1, <1>4, <2>1
<1> HIDE DEF m2, n2
<1>7. SubSeq(t, p, q) = SubSeq(a, m2, n2)
  BY <1>4, <1>5, <1>6, SubSeqUnique
<1> QED BY <1>7 DEF t, m2, n2

-----------------------------------------------------------------------------
(* Arrays with a NUL at their end *)

Codes == 0 .. 255
Arrays == {a \in Seq(Codes) : Len(a) >= 1 /\ a[Len(a)] = NUL}

\* The text at position i of a ends before end.
IsEnd(a, i, end) == end \in i .. Len(a) /\ a[end] = NUL /\ \A k \in i .. end - 1 : a[k] # NUL

LEMMA ArrayIs ==
  ASSUME NEW a \in Arrays
  PROVE  a \in Seq(Codes) /\ Len(a) \in Nat /\ Len(a) >= 1 /\ a[Len(a)] = NUL
BY DEF Arrays

LEMMA EndExists ==
  ASSUME NEW a \in Arrays, NEW i \in 1 .. Len(a)
  PROVE  \E end \in i .. Len(a) : IsEnd(a, i, end)
<1> DEFINE S == {k \in i .. Len(a) : a[k] = NUL}
<1>1. S \in SUBSET Nat /\ S # {}
  BY ArrayIs
<1>2. Min(S) \in S /\ \A y \in S : Min(S) <= y
  BY <1>1, MinOfNaturals
<1> DEFINE end == Min(S)
<1> HIDE DEF end
<1>3. end \in i .. Len(a) /\ a[end] = NUL /\ \A y \in S : end <= y
  BY <1>2 DEF end
<1>4. ASSUME NEW k \in i .. end - 1 PROVE a[k] # NUL
  <2>1. k \in i .. Len(a) /\ ~(end <= k)
    BY <1>3, ArrayIs
  <2> QED BY <1>3, <2>1
<1> QED BY <1>3, <1>4 DEF IsEnd

LEMMA FromIs ==
  ASSUME NEW a \in Arrays, NEW i \in 1 .. Len(a)
  PROVE  /\ From(a, i) = SubSeq(a, i, Len(a))
         /\ From(a, i) \in Seq(Codes)
         /\ Len(From(a, i)) = Len(a) - i + 1
         /\ \A k \in 1 .. Len(a) - i + 1 : From(a, i)[k] = a[i + k - 1]
<1>1. a \in Seq(Codes) /\ i \in 1 .. Len(a) + 1 /\ Len(a) \in i - 1 .. Len(a)
  BY ArrayIs
<1> QED BY <1>1, SubSeqIs DEF From

\* The text at i.
LEMMA TextIs ==
  ASSUME NEW a \in Arrays, NEW i \in 1 .. Len(a), NEW end, IsEnd(a, i, end)
  PROVE  Chars(From(a, i)) = SubSeq(a, i, end - 1)
<1> DEFINE f == From(a, i)
           n == Len(a) - i + 1
           I == {k \in 1 .. Len(f) : f[k] = NUL}
           e == SelectInSeq(f, LAMBDA c : c = NUL)
<1>1. Len(a) \in Nat /\ i \in Nat /\ end \in Nat /\ i <= end /\ end <= Len(a) /\ a[end] = NUL
  BY ArrayIs DEF IsEnd
<1>2. f = SubSeq(a, i, Len(a)) /\ f \in Seq(Codes) /\ Len(f) = n /\ \A k \in 1 .. n : f[k] = a[i + k - 1]
  BY FromIs
<1>3. IsFirst(e, I)
  BY <1>2, SelectEqual
<1> HIDE DEF f, e
<1>4. end - i + 1 \in I
  <2>1. end - i + 1 \in 1 .. n /\ i + (end - i + 1) - 1 = end
    BY <1>1
  <2> QED BY <1>1, <1>2, <2>1
<1>5. ASSUME NEW k \in I PROVE end - i + 1 <= k
  <2>1. k \in 1 .. n /\ a[i + k - 1] = NUL
    BY <1>2
  <2>2. i + k - 1 \in Nat /\ i + k - 1 >= i /\ i + k - 1 \notin i .. end - 1
    BY <1>1, <2>1 DEF IsEnd
  <2> QED BY <1>1, <2>1, <2>2
<1>6. e = end - i + 1
  <2>1. e \in I /\ \A k \in I : e <= k
    BY <1>3, <1>4 DEF IsFirst
  <2>2. e <= end - i + 1 /\ end - i + 1 <= e /\ e \in Nat
    BY <1>4, <1>5, <2>1
  <2> QED BY <1>1, <2>2
<1>7. Chars(f) = SubSeq(f, 1, end - i)
  <2>1. e - 1 = end - i
    BY <1>1, <1>6
  <2> QED BY <2>1 DEF Chars, e
<1>8. SubSeq(f, 1, end - i) = SubSeq(a, i, end - 1)
  <2>1. /\ a \in Seq(Codes) /\ i \in 1 .. Len(a) + 1 /\ Len(a) \in i - 1 .. Len(a)
        /\ 1 \in 1 .. Len(a) - i + 2 /\ end - i \in 1 - 1 .. Len(a) - i + 1
    BY <1>1, ArrayIs
  <2>2. SubSeq(SubSeq(a, i, Len(a)), 1, end - i) = SubSeq(a, i + 1 - 1, i + (end - i) - 1)
    BY <2>1, SubSubSeq
  <2>3. i + 1 - 1 = i /\ i + (end - i) - 1 = end - 1
    BY <1>1
  <2> QED BY <1>2, <2>2, <2>3
<1> QED BY <1>7, <1>8 DEF f

\* A text is its chars up to its end, none of them the NUL.
LEMMA TextType ==
  ASSUME NEW a \in Arrays, NEW i \in 1 .. Len(a), NEW end, IsEnd(a, i, end)
  PROVE  /\ SubSeq(a, i, end - 1) \in Seq(1 .. 255)
         /\ Len(SubSeq(a, i, end - 1)) = end - i
         /\ \A k \in 1 .. end - i : SubSeq(a, i, end - 1)[k] = a[i + k - 1]
<1>1. a \in Seq(Codes) /\ Len(a) \in Nat /\ i \in Nat /\ i >= 1 /\ end \in Nat /\ i <= end /\ end <= Len(a)
  BY ArrayIs DEF IsEnd
<1>2. ASSUME NEW k \in i .. end - 1 PROVE a[k] \in 1 .. 255
  <2>1. k \in 1 .. Len(a) /\ a[k] # 0
    BY <1>1 DEF IsEnd, NUL
  <2>2. a[k] \in 0 .. 255
    BY <1>1, <2>1, ElementOfSeq DEF Codes
  <2> QED BY <2>1, <2>2
<1>3. i \in Int /\ end - 1 \in Int
  BY <1>1
<1>4. /\ SubSeq(a, i, end - 1) \in Seq(1 .. 255)
      /\ Len(SubSeq(a, i, end - 1)) = IF i <= end - 1 THEN end - 1 - i + 1 ELSE 0
      /\ \A k \in 1 .. end - 1 - i + 1 : SubSeq(a, i, end - 1)[k] = a[i + k - 1]
  BY <1>2, <1>3, SubSeqProperties
<1>5. end - 1 - i + 1 = end - i /\ (i <= end - 1 \/ end - i = 0)
  BY <1>1
<1> QED BY <1>4, <1>5

\* Where the characters of a set end that stand at i, NULs not among them.
SkipAt(a, i, D) == i - 1 + SelectInSeq(CString(Chars(From(a, i))), LAMBDA c : c \notin D)

LEMMA SkipIs ==
  ASSUME NEW a \in Arrays, NEW i \in 1 .. Len(a), NEW end, IsEnd(a, i, end),
         NEW D, NUL \notin D
  PROVE  /\ SkipAt(a, i, D) \in i .. end
         /\ a[SkipAt(a, i, D)] \notin D
         /\ \A m \in i .. SkipAt(a, i, D) - 1 : a[m] \in D
<1> DEFINE k == SkipAt(a, i, D)
           t == SubSeq(a, i, end - 1)
           s == CString(t)
           I == {m \in 1 .. Len(s) : s[m] \notin D}
           e == SelectInSeq(s, LAMBDA c : c \notin D)
<1>1. Len(a) \in Nat /\ i \in Nat /\ i >= 1 /\ end \in Nat /\ i <= end /\ end <= Len(a) /\ a[end] = NUL
  BY ArrayIs DEF IsEnd
<1>2. t \in Seq(1 .. 255) /\ Len(t) = end - i /\ \A m \in 1 .. end - i : t[m] = a[i + m - 1]
  BY TextType
<1>3. k = i - 1 + e
  BY TextIs DEF SkipAt
<1> HIDE DEF t, k
<1>4. t \in Seq(Codes) /\ NUL \in Codes
  BY <1>2, SeqMonotonic, 1 .. 255 \subseteq Codes DEF Codes, NUL
<1>5. /\ s \in Seq(Codes) /\ Len(s) = Len(t) + 1
      /\ \A m \in 1 .. Len(t) : s[m] = t[m]
      /\ s[Len(t) + 1] = NUL
  BY <1>4, AppendProperties DEF CString
<1> HIDE DEF s
<1>6. ASSUME NEW m \in 1 .. Len(s) PROVE s[m] = a[i + m - 1]
  <2>1. CASE m = Len(s)
    <3>1. i + m - 1 = end
      BY <1>1, <1>2, <1>5, <2>1
    <3> QED BY <1>1, <1>5, <2>1, <3>1
  <2>2. CASE m # Len(s)
    <3>1. m \in 1 .. Len(t) /\ m \in 1 .. end - i
      BY <1>1, <1>2, <1>5, <2>2
    <3> QED BY <1>2, <1>5, <3>1
  <2> QED BY <2>1, <2>2
<1>7. IsFirst(e, I)
  BY <1>5, SelectNotIn
<1> HIDE DEF e
<1>8. Len(s) = end - i + 1 /\ Len(s) \in 1 .. Len(s) /\ s[Len(s)] = NUL
  BY <1>1, <1>2, <1>5
<1>9. e \in 1 .. Len(s) /\ s[e] \notin D /\ \A m \in 1 .. e - 1 : s[m] \in D
  <2>1. Len(s) \in I
    BY <1>8
  <2>2. e \in I /\ \A m \in I : e <= m
    BY <1>7, <2>1 DEF IsFirst
  <2>3. ASSUME NEW m \in 1 .. e - 1 PROVE s[m] \in D
    <3>1. m \in 1 .. Len(s) /\ ~(e <= m)
      BY <1>1, <1>8, <2>2
    <3> QED BY <2>2, <3>1
  <2> QED BY <2>2, <2>3
<1>10. k \in i .. end /\ k = i + e - 1
  BY <1>1, <1>3, <1>8, <1>9
<1>11. a[k] \notin D
  BY <1>6, <1>9, <1>10
<1>12. ASSUME NEW m \in i .. k - 1 PROVE a[m] \in D
  <2>1. m - i + 1 \in 1 .. e - 1 /\ m - i + 1 \in 1 .. Len(s) /\ i + (m - i + 1) - 1 = m
    BY <1>1, <1>8, <1>9, <1>10
  <2> QED BY <1>6, <1>9, <2>1
<1> QED BY <1>10, <1>11, <1>12 DEF k

-----------------------------------------------------------------------------
(* A call of strtok *)

Cut(a, c) == [a EXCEPT ![c] = NUL]

LEMMA CutIs ==
  ASSUME NEW a \in Arrays, NEW c \in 1 .. Len(a)
  PROVE  /\ Cut(a, c) \in Arrays
         /\ Len(Cut(a, c)) = Len(a)
         /\ Cut(a, c)[c] = NUL
         /\ \A k \in 1 .. Len(a) : k # c => Cut(a, c)[k] = a[k]
<1>1. a \in Seq(Codes) /\ Len(a) \in Nat /\ Len(a) >= 1 /\ a[Len(a)] = NUL /\ NUL \in Codes
  BY ArrayIs DEF Codes, NUL
<1>2. /\ Cut(a, c) \in Seq(Codes)
      /\ Len(Cut(a, c)) = Len(a)
      /\ \A k \in 1 .. Len(a) : Cut(a, c)[k] = IF k = c THEN NUL ELSE a[k]
  BY <1>1, ExceptSeq DEF Cut
<1>3. Len(a) \in 1 .. Len(a)
  BY <1>1
<1> HIDE DEF Cut
<1> QED BY <1>1, <1>2, <1>3 DEF Arrays

\* A text that is not cut stays.
LEMMA CutElsewhere ==
  ASSUME NEW a \in Arrays, NEW i \in 1 .. Len(a), NEW end, IsEnd(a, i, end),
         NEW c \in 1 .. Len(a), c \notin i .. end
  PROVE  IsEnd(Cut(a, c), i, end) /\ SubSeq(Cut(a, c), i, end - 1) = SubSeq(a, i, end - 1)
<1> DEFINE b == Cut(a, c)
<1>1. Len(a) \in Nat /\ i \in Nat /\ end \in Nat /\ i <= end /\ end <= Len(a) /\ i >= 1
  BY ArrayIs DEF IsEnd
<1>2. b \in Arrays /\ Len(b) = Len(a) /\ \A k \in 1 .. Len(a) : k # c => b[k] = a[k]
  BY CutIs
<1> HIDE DEF b
<1>3. \A k \in i .. end : k \in 1 .. Len(a) /\ k # c
  BY <1>1
<1>4. IsEnd(b, i, end)
  BY <1>1, <1>2, <1>3 DEF IsEnd
<1>5. /\ SubSeq(b, i, end - 1) \in Seq(1 .. 255)
      /\ Len(SubSeq(b, i, end - 1)) = end - i
      /\ \A k \in 1 .. end - i : SubSeq(b, i, end - 1)[k] = b[i + k - 1]
  BY <1>2, <1>4, TextType
<1>6. /\ SubSeq(a, i, end - 1) \in Seq(1 .. 255)
      /\ Len(SubSeq(a, i, end - 1)) = end - i
      /\ \A k \in 1 .. end - i : SubSeq(a, i, end - 1)[k] = a[i + k - 1]
  BY TextType
<1>7. \A k \in 1 .. end - i : i + k - 1 \in i .. end
  BY <1>1
<1>8. Len(SubSeq(b, i, end - 1)) = Len(SubSeq(a, i, end - 1))
      /\ \A k \in 1 .. Len(SubSeq(b, i, end - 1)) : SubSeq(b, i, end - 1)[k] = SubSeq(a, i, end - 1)[k]
  BY <1>2, <1>3, <1>5, <1>6, <1>7
<1>9. SubSeq(b, i, end - 1) = SubSeq(a, i, end - 1)
  BY <1>5, <1>6, <1>8, SeqEqual
<1> QED BY <1>4, <1>9 DEF b

\* A text that is cut ends there.
LEMMA CutInside ==
  ASSUME NEW a \in Arrays, NEW i \in 1 .. Len(a), NEW end, IsEnd(a, i, end), NEW c \in i .. end
  PROVE  IsEnd(Cut(a, c), i, c) /\ SubSeq(Cut(a, c), i, c - 1) = SubSeq(a, i, c - 1)
<1> DEFINE b == Cut(a, c)
<1>1. /\ Len(a) \in Nat /\ i \in Nat /\ end \in Nat /\ i <= end /\ end <= Len(a) /\ i >= 1
      /\ c \in 1 .. Len(a) /\ i <= c /\ c <= end
  BY ArrayIs DEF IsEnd
<1>2. b \in Arrays /\ Len(b) = Len(a) /\ b[c] = NUL /\ \A k \in 1 .. Len(a) : k # c => b[k] = a[k]
  BY <1>1, CutIs
<1> HIDE DEF b
<1>3. \A k \in i .. c - 1 : k \in 1 .. Len(a) /\ k # c /\ k \in i .. end - 1
  BY <1>1
<1>4. IsEnd(b, i, c)
  BY <1>1, <1>2, <1>3 DEF IsEnd
<1>5. /\ SubSeq(b, i, c - 1) \in Seq(1 .. 255)
      /\ Len(SubSeq(b, i, c - 1)) = c - i
      /\ \A k \in 1 .. c - i : SubSeq(b, i, c - 1)[k] = b[i + k - 1]
  BY <1>1, <1>2, <1>4, TextType
<1>6. a \in Seq(Codes) /\ i \in 1 .. Len(a) + 1 /\ c - 1 \in i - 1 .. Len(a)
  BY <1>1, ArrayIs
<1>7. /\ SubSeq(a, i, c - 1) \in Seq(Codes)
      /\ Len(SubSeq(a, i, c - 1)) = c - 1 - i + 1
      /\ \A k \in 1 .. c - 1 - i + 1 : SubSeq(a, i, c - 1)[k] = a[i + k - 1]
  BY <1>6, SubSeqIs
<1>8. c - 1 - i + 1 = c - i /\ \A k \in 1 .. c - i : i + k - 1 \in i .. c - 1
  BY <1>1
<1>9. SubSeq(b, i, c - 1) \in Seq(Codes)
  BY <1>5, SeqMonotonic, 1 .. 255 \subseteq Codes DEF Codes
<1>10. Len(SubSeq(b, i, c - 1)) = Len(SubSeq(a, i, c - 1))
  BY <1>5, <1>7, <1>8
<1>11. \A k \in 1 .. Len(SubSeq(b, i, c - 1)) : SubSeq(b, i, c - 1)[k] = SubSeq(a, i, c - 1)[k]
  BY <1>2, <1>3, <1>5, <1>7, <1>8
<1>12. SubSeq(b, i, c - 1) = SubSeq(a, i, c - 1)
  BY <1>7, <1>9, <1>10, <1>11, SeqEqual
<1> QED BY <1>4, <1>12 DEF b

\* A text from a later position has the same end.
LEMMA EndBehind ==
  ASSUME NEW a \in Arrays, NEW i \in 1 .. Len(a), NEW end, IsEnd(a, i, end), NEW b \in i .. end
  PROVE  b \in 1 .. Len(a) /\ IsEnd(a, b, end) /\ (a[b] = NUL <=> b = end)
<1>1. Len(a) \in Nat /\ i \in Nat /\ end \in Nat /\ i <= end /\ end <= Len(a) /\ i >= 1
  BY ArrayIs DEF IsEnd
<1>2. b \in 1 .. Len(a) /\ end \in b .. Len(a) /\ \A k \in b .. end - 1 : k \in i .. end - 1
  BY <1>1
<1>3. b # end => b \in i .. end - 1
  BY <1>1
<1> QED BY <1>2, <1>3 DEF IsEnd

Memory == memory \in [Buffers -> Arrays]

LEMMA BehindPointer ==
  ASSUME Memory, NEW s \in Buffers, NEW i \in 1 .. Len(memory[s]), NEW end, IsEnd(memory[s], i, end),
         NEW D, NUL \notin D
  PROVE  \E b \in i .. end : /\ Behind(<<s, i>>, D) = <<s, b>>
                             /\ memory[s][b] \notin D
                             /\ \A m \in i .. b - 1 : memory[s][m] \in D
<1> DEFINE a == memory[s]
           b == SkipAt(a, i, D)
<1>1. a \in Arrays /\ i \in 1 .. Len(a) /\ IsEnd(a, i, end)
  BY DEF Memory
<1>2. Behind(<<s, i>>, D) = <<s, b>>
  BY DEF Behind, StringAt, SkipAt
<1> HIDE DEF a
<1>3. b \in i .. end /\ a[b] \notin D /\ \A m \in i .. b - 1 : a[m] \in D
  BY <1>1, SkipIs
<1> QED BY <1>2, <1>3 DEF a

\* What Scan does at position i of string s, whose text ends before end: the
\* token is the text from b to c.
TokenFound(s, i, end, b, c, D, old) ==
  LET a == memory[s]
      t == SubSeq(a, b, c - 1)
  IN  /\ b < end /\ a[b] \notin D
      /\ \A m \in b .. c - 1 : a[m] \notin D
      /\ c = end \/ a[c] \in D
      /\ memory' = [memory EXCEPT ![s] = Cut(a, c)]
      /\ last_token' = IF c = end THEN Nil ELSE <<s, c + 1>>
      /\ token' = t
      /\ tokens' = old \cup {<<<<s, b>>, t>>}

NothingFound(end, b, old) ==
  /\ b = end
  /\ memory' = memory /\ last_token' = Nil /\ token' = Nil /\ tokens' = old

Scanned(s, i, end, D, old, b, c) ==
  /\ b \in i .. end /\ c \in b .. end
  /\ \A m \in i .. b - 1 : memory[s][m] \in D
  /\ TokenFound(s, i, end, b, c, D, old) \/ NothingFound(end, b, old)

LEMMA ScanIs ==
  ASSUME Memory, NEW s \in Buffers, NEW i \in 1 .. Len(memory[s]), NEW end, IsEnd(memory[s], i, end),
         NEW D, D \subseteq 1 .. 255, NEW old, Scan(<<s, i>>, D, old)
  PROVE  \E b, c : Scanned(s, i, end, D, old, b, c)
<1> DEFINE a == memory[s]
           E == (1 .. 255) \ D
<1>1. NUL \notin D /\ NUL \notin E
  BY DEF NUL
<1>2. PICK b \in i .. end : /\ Behind(<<s, i>>, D) = <<s, b>>
                            /\ a[b] \notin D
                            /\ \A m \in i .. b - 1 : a[m] \in D
  BY <1>1, BehindPointer
<1>3. a \in Arrays /\ b \in 1 .. Len(a) /\ IsEnd(a, b, end) /\ (a[b] = NUL <=> b = end)
  BY EndBehind DEF Memory
<1> HIDE DEF E
<1>4. PICK c \in b .. end : /\ Behind(<<s, b>>, E) = <<s, c>>
                            /\ a[c] \notin E
                            /\ \A m \in b .. c - 1 : a[m] \in E
  <2>1. Memory /\ NUL \notin E /\ b \in 1 .. Len(memory[s]) /\ IsEnd(memory[s], b, end)
    BY <1>1, <1>3
  <2> QED BY <2>1, BehindPointer
<1>5. c \in 1 .. Len(a) /\ (a[c] = NUL <=> c = end)
  BY <1>3, EndBehind
<1>6. SkipLeading(<<s, i>>, D) = <<s, b>> /\ SkipToken(<<s, b>>, D) = <<s, c>>
  BY <1>2, <1>4 DEF SkipLeading, SkipToken, E
<1>7. (Ends(<<s, b>>) <=> b = end) /\ (Ends(<<s, c>>) <=> c = end)
  BY <1>3, <1>5 DEF Ends
<1>8. CASE b = end
  <2>1. NothingFound(end, b, old)
    BY <1>6, <1>7, <1>8 DEF Scan, NothingFound
  <2>2. end \in b .. end
    BY <1>3, <1>8, ArrayIs DEF IsEnd
  <2> QED BY <1>2, <1>8, <2>1, <2>2 DEF Scanned
<1>9. CASE b # end
  <2> DEFINE start == SkipLeading(<<s, i>>, D)
             stop == SkipToken(start, D)
  <2>a. start = <<s, b>> /\ stop = <<s, c>> /\ ~Ends(start)
    BY <1>6, <1>7, <1>9
  <2>b. /\ memory' = [memory EXCEPT ![stop[1]][stop[2]] = NUL]
        /\ last_token' = Resume(start, stop)
        /\ token' = StringAt(memory', start)
        /\ tokens' = old \cup {<<start, token'>>}
    BY <2>a, Zenon DEF Scan
  <2> HIDE DEF start, stop
  <2>1. /\ memory' = [memory EXCEPT ![s][c] = NUL]
        /\ last_token' = Resume(<<s, b>>, <<s, c>>)
        /\ token' = StringAt(memory', <<s, b>>)
        /\ tokens' = old \cup {<<<<s, b>>, token'>>}
    BY <2>a, <2>b
  <2>2. memory' = [memory EXCEPT ![s] = Cut(a, c)]
    BY <2>1 DEF Cut
  <2>3. memory'[s] = Cut(a, c)
    BY <2>2 DEF Memory
  <2>4. IsEnd(Cut(a, c), b, c) /\ SubSeq(Cut(a, c), b, c - 1) = SubSeq(a, b, c - 1)
    BY <1>3, CutInside
  <2>5. Cut(a, c) \in Arrays /\ b \in 1 .. Len(Cut(a, c))
    BY <1>3, <1>5, CutIs
  <2>6. token' = SubSeq(a, b, c - 1)
    <3>1. token' = Chars(From(Cut(a, c), b))
      BY <2>1, <2>3 DEF StringAt
    <3> QED BY <2>4, <2>5, <3>1, TextIs
  <2>7. last_token' = IF c = end THEN Nil ELSE <<s, c + 1>>
    BY <1>7, <2>1 DEF Resume
  <2>8. c = end \/ a[c] \in D
    <3>1. a[c] \in 0 .. 255
      BY <1>3, <1>5, ElementOfSeq, ArrayIs DEF Codes
    <3> QED BY <1>4, <1>5, <3>1 DEF E, NUL
  <2>9. \A m \in b .. c - 1 : a[m] \notin D
    BY <1>4 DEF E
  <2>10. b < end
    BY <1>3, <1>9, ArrayIs DEF IsEnd
  <2>11. TokenFound(s, i, end, b, c, D, old)
    BY <1>2, <2>1, <2>2, <2>6, <2>7, <2>8, <2>9, <2>10 DEF TokenFound
  <2> QED BY <1>2, <2>11 DEF Scanned
<1> QED BY <1>8, <1>9

-----------------------------------------------------------------------------
(* The tokens *)

\* t is the token from i to end of string s.
HoldsToken(t, s, i, end) ==
  /\ s \in Buffers /\ i \in 1 .. Len(memory[s]) /\ IsEnd(memory[s], i, end)
  /\ t = <<<<s, i>>, SubSeq(memory[s], i, end - 1)>>

AtPointer(p, s, i) == p = <<s, i>> /\ s \in Buffers /\ i \in 1 .. Len(memory[s])

\* The scan goes on behind the tokens of its string.
IsPast(p, s, end) == p # Nil /\ p[1] = s => end < p[2]

TokensInv ==
  /\ Memory
  /\ last_token = Nil \/ \E s, i : AtPointer(last_token, s, i)
  /\ \A t \in tokens : \E s, i, end : HoldsToken(t, s, i, end) /\ IsPast(last_token, s, end)

\* A scan from position i of s reaches no token that is before i or elsewhere.
LEMMA ScanKeepsTokens ==
  ASSUME TokensInv, NEW s \in Buffers, NEW i \in 1 .. Len(memory[s]), NEW end, IsEnd(memory[s], i, end),
         NEW D, D \subseteq 1 .. 255, NEW old, Scan(<<s, i>>, D, old),
         \A t \in old : \E s2, i2, e2 : HoldsToken(t, s2, i2, e2) /\ (s2 = s => e2 < i)
  PROVE  TokensInv'
<1> DEFINE a == memory[s]
<1>1. Memory /\ a \in Arrays /\ i \in Nat /\ end \in Nat /\ end <= Len(a) /\ Len(a) \in Nat /\ i >= 1
  BY ArrayIs DEF TokensInv, Memory, IsEnd
<1>2. PICK b, c : Scanned(s, i, end, D, old, b, c)
  BY <1>1, ScanIs
<1>2a. b \in i .. end /\ c \in b .. end /\ (TokenFound(s, i, end, b, c, D, old) \/ NothingFound(end, b, old))
  BY <1>2 DEF Scanned
<1>3. CASE NothingFound(end, b, old)
  <2>1. memory' = memory /\ last_token' = Nil /\ tokens' = old
    BY <1>3 DEF NothingFound
  <2>2. Memory'
    BY <1>1, <2>1 DEF Memory
  <2>3. ASSUME NEW t \in tokens' PROVE \E s2, i2, e2 : HoldsToken(t, s2, i2, e2)' /\ IsPast(last_token', s2, e2)
    BY <2>1 DEF HoldsToken, IsPast
  <2> QED BY <2>1, <2>2, <2>3 DEF TokensInv
<1>4. CASE TokenFound(s, i, end, b, c, D, old)
  <2>1. /\ b < end
        /\ memory' = [memory EXCEPT ![s] = Cut(a, c)]
        /\ last_token' = IF c = end THEN Nil ELSE <<s, c + 1>>
        /\ tokens' = old \cup {<<<<s, b>>, SubSeq(a, b, c - 1)>>}
    BY <1>4 DEF TokenFound
  <2>2. b \in Nat /\ i <= b /\ c \in Nat /\ b <= c /\ c <= end /\ c \in 1 .. Len(a) /\ b \in 1 .. Len(a)
    BY <1>1, <1>2a
  <2>3. Cut(a, c) \in Arrays /\ Len(Cut(a, c)) = Len(a)
    BY <1>1, <2>2, CutIs
  <2>4. /\ Memory'
        /\ memory'[s] = Cut(a, c)
        /\ \A s2 \in Buffers : s2 # s => memory'[s2] = memory[s2]
    BY <1>1, <2>1, <2>3 DEF Memory
  <2>5. last_token' = Nil \/ AtPointer(last_token, s, c + 1)'
    <3>1. c # end => c + 1 \in 1 .. Len(a)
      BY <1>1, <2>2
    <3> QED BY <2>1, <2>3, <2>4, <3>1 DEF AtPointer
  <2>6. ASSUME NEW e2 \in Nat, e2 <= c PROVE IsPast(last_token', s, e2)
    BY <2>1, <2>2, <2>6 DEF IsPast
  <2>7. \A s2, e2 : s2 # s => IsPast(last_token', s2, e2)
    BY <2>1 DEF IsPast
  <2>8. ASSUME NEW t \in old
        PROVE  \E s2, i2, e2 : HoldsToken(t, s2, i2, e2)' /\ IsPast(last_token', s2, e2)
    <3>1. PICK s2, i2, e2 : HoldsToken(t, s2, i2, e2) /\ (s2 = s => e2 < i)
      OBVIOUS
    <3>2. CASE s2 # s
      BY <2>4, <2>7, <3>1, <3>2 DEF HoldsToken
    <3>3. CASE s2 = s
      <4>1. i2 \in 1 .. Len(a) /\ IsEnd(a, i2, e2) /\ e2 < i /\ t = <<<<s, i2>>, SubSeq(a, i2, e2 - 1)>>
        BY <3>1, <3>3 DEF HoldsToken
      <4>2. e2 \in Nat /\ c \notin i2 .. e2 /\ e2 <= c
        BY <1>1, <2>2, <4>1 DEF IsEnd
      <4>3. IsEnd(Cut(a, c), i2, e2) /\ SubSeq(Cut(a, c), i2, e2 - 1) = SubSeq(a, i2, e2 - 1)
        BY <1>1, <2>2, <4>1, <4>2, CutElsewhere
      <4>4. HoldsToken(t, s, i2, e2)'
        BY <2>3, <2>4, <4>1, <4>3 DEF HoldsToken
      <4> QED BY <2>6, <4>2, <4>4
    <3> QED BY <3>2, <3>3
  <2>9. ASSUME NEW t, t = <<<<s, b>>, SubSeq(a, b, c - 1)>>
        PROVE  HoldsToken(t, s, b, c)' /\ IsPast(last_token', s, c)
    <3>1. IsEnd(a, b, end)
      BY <1>1, <1>2a, EndBehind
    <3>2. IsEnd(Cut(a, c), b, c) /\ SubSeq(Cut(a, c), b, c - 1) = SubSeq(a, b, c - 1)
      BY <1>1, <1>2a, <2>2, <3>1, CutInside
    <3>3. HoldsToken(t, s, b, c)'
      BY <2>2, <2>3, <2>4, <2>9, <3>2 DEF HoldsToken
    <3> QED BY <2>2, <2>6, <3>3
  <2>10. ASSUME NEW t \in tokens' PROVE \E s2, i2, e2 : HoldsToken(t, s2, i2, e2)' /\ IsPast(last_token', s2, e2)
    <3>1. CASE t \in old
      BY <2>8, <3>1
    <3>2. CASE t = <<<<s, b>>, SubSeq(a, b, c - 1)>>
      BY <2>9, <3>2
    <3> QED BY <2>1, <3>1, <3>2
  <2> QED BY <2>4, <2>5, <2>10 DEF TokensInv
<1> QED BY <1>2a, <1>3, <1>4

LEMMA StrtokKeepsTokens == TokensInv /\ strtok => TokensInv'
<1> SUFFICES ASSUME TokensInv, NEW D \in Delimiters, Continue(D) \/ \E s \in Buffers : Begin(s, D)
             PROVE  TokensInv'
  BY DEF strtok
<1>1. D \subseteq 1 .. 255
  BY StrtokAssumption
<1>2. CASE Continue(D) /\ last_token = Nil
  <2>1. UNCHANGED <<memory, last_token, tokens>>
    BY <1>2 DEF Continue
  <2> QED BY <2>1 DEF TokensInv, Memory, AtPointer, HoldsToken, IsPast
<1>3. CASE Continue(D) /\ last_token # Nil
  <2>1. PICK s, i : AtPointer(last_token, s, i)
    BY <1>3 DEF TokensInv
  <2>2. s \in Buffers /\ i \in 1 .. Len(memory[s]) /\ last_token = <<s, i>> /\ memory[s] \in Arrays
    BY <2>1 DEF AtPointer, TokensInv, Memory
  <2>3. PICK end \in i .. Len(memory[s]) : IsEnd(memory[s], i, end)
    BY <2>2, EndExists
  <2>4. Scan(<<s, i>>, D, tokens)
    BY <1>3, <2>2 DEF Continue
  <2>5. \A t \in tokens : \E s2, i2, e2 : HoldsToken(t, s2, i2, e2) /\ (s2 = s => e2 < i)
    BY <1>3, <2>2 DEF TokensInv, IsPast
  <2> QED BY <1>1, <2>2, <2>3, <2>4, <2>5, ScanKeepsTokens
<1>4. ASSUME NEW s \in Buffers, Begin(s, D) PROVE TokensInv'
  <2>1. 1 \in 1 .. Len(memory[s]) /\ memory[s] \in Arrays
    BY ArrayIs DEF TokensInv, Memory
  <2>2. PICK end \in 1 .. Len(memory[s]) : IsEnd(memory[s], 1, end)
    BY <2>1, EndExists
  <2>3. Scan(<<s, 1>>, D, Others(s))
    BY <1>4 DEF Begin
  <2>4. \A t \in Others(s) : \E s2, i2, e2 : HoldsToken(t, s2, i2, e2) /\ (s2 = s => e2 < 1)
    BY DEF TokensInv, Others, HoldsToken
  <2> QED BY <1>1, <2>1, <2>2, <2>3, <2>4, ScanKeepsTokens
<1> QED BY <1>2, <1>3, <1>4

LEMMA InitTokens == StrtokInit => TokensInv
<1> SUFFICES ASSUME StrtokInit PROVE TokensInv
  OBVIOUS
<1>1. ASSUME NEW t \in Texts PROVE CString(t) \in Arrays
  <2>1. t \in Seq(Codes) /\ NUL \in Codes /\ Len(t) \in Nat
    BY StrtokAssumption, SeqMonotonic, 1 .. 255 \subseteq Codes DEF Codes, NUL
  <2>2. /\ CString(t) \in Seq(Codes) /\ Len(CString(t)) = Len(t) + 1
        /\ CString(t)[Len(t) + 1] = NUL
    BY <2>1, AppendProperties DEF CString
  <2> QED BY <2>1, <2>2 DEF Arrays
<1>2. Memory
  BY <1>1 DEF StrtokInit, Memory
<1> QED BY <1>2 DEF StrtokInit, TokensInv

LEMMA NextTokens == TokensInv /\ [LibraryNext]_libraryVars => TokensInv'
<1>1. TokensInv /\ UNCHANGED strtokVars => TokensInv'
  BY DEF strtokVars, TokensInv, Memory, AtPointer, HoldsToken, IsPast
<1>2. [LibraryNext]_libraryVars => strtok \/ UNCHANGED strtokVars
  BY DEF LibraryNext, Scans, Splitting, Calls, Drops, Called, Converts, Compares, Moves, Prints,
         PrintsInColour, libraryVars
<1> QED BY <1>1, <1>2, StrtokKeepsTokens

\* A token stays what it was until its string is begun again, whatever is scanned
\* in between, with whatever delimiters: no later call reaches into it.
THEOREM StrtokTokensStay == LibrarySpec => []TokensStay
<1>1. TokensInv => TokensStay
  <2> SUFFICES ASSUME TokensInv, NEW t \in tokens PROVE StringAt(memory, t[1]) = t[2]
    BY DEF TokensStay
  <2>1. PICK s, i, end : HoldsToken(t, s, i, end)
    BY DEF TokensInv
  <2>2. memory[s] \in Arrays /\ i \in 1 .. Len(memory[s]) /\ IsEnd(memory[s], i, end)
    BY <2>1 DEF HoldsToken, TokensInv, Memory
  <2>3. Chars(From(memory[s], i)) = SubSeq(memory[s], i, end - 1)
    BY <2>2, TextIs
  <2> QED BY <2>1, <2>3 DEF HoldsToken, StringAt
<1>2. LibraryInit => TokensInv
  BY InitTokens DEF LibraryInit
<1> QED BY <1>1, <1>2, NextTokens, PTL DEF LibrarySpec

-----------------------------------------------------------------------------
(* What the tokenizer takes from a text *)

LEMMA FirstIs ==
  ASSUME NEW n \in Nat, NEW I, I \subseteq 1 .. n, NEW k \in I, \A m \in I : k <= m,
         NEW e, IsFirst(e, I)
  PROVE  e = k
<1>1. e \in I /\ e <= k /\ k <= e
  BY DEF IsFirst
<1>2. e \in Nat /\ k \in Nat
  BY <1>1
<1> QED BY <1>1, <1>2

LEMMA TokenizerMin == ASSUME NEW I PROVE Tokenizer!Min(I) = Min(I)
BY DEF Tokenizer!Min, Min

\* The positions Take looks for in a text.
StartIn(text, D) == Tokenizer!SelectInSeq(text, LAMBDA c : c \notin D)
StopIn(text, D) == Tokenizer!SelectInSeq(text, LAMBDA c : c \in D)

LEMMA StartInIs ==
  ASSUME NEW S, NEW text \in Seq(S), NEW D
  PROVE  IsFirst(StartIn(text, D), {m \in 1 .. Len(text) : text[m] \notin D})
<1> DEFINE I == {m \in 1 .. Len(text) : text[m] \notin D}
<1>1. StartIn(text, D) = IF I # {} THEN Tokenizer!Min(I) ELSE 0
  BY DEF StartIn, Tokenizer!SelectInSeq
<1>2. Len(text) \in Nat /\ I \subseteq 1 .. Len(text)
  OBVIOUS
<1> HIDE DEF I
<1>3. IsFirst(IF I # {} THEN Min(I) ELSE 0, I)
  BY <1>2, FirstOf
<1>4. IsFirst(StartIn(text, D), I)
  BY <1>1, <1>3, TokenizerMin
<1> QED BY <1>4 DEF I

LEMMA StopInIs ==
  ASSUME NEW S, NEW text \in Seq(S), NEW D
  PROVE  IsFirst(StopIn(text, D), {m \in 1 .. Len(text) : text[m] \in D})
<1> DEFINE I == {m \in 1 .. Len(text) : text[m] \in D}
<1>1. StopIn(text, D) = IF I # {} THEN Tokenizer!Min(I) ELSE 0
  BY DEF StopIn, Tokenizer!SelectInSeq
<1>2. Len(text) \in Nat /\ I \subseteq 1 .. Len(text)
  OBVIOUS
<1> HIDE DEF I
<1>3. IsFirst(IF I # {} THEN Min(I) ELSE 0, I)
  BY <1>2, FirstOf
<1>4. IsFirst(StopIn(text, D), I)
  BY <1>1, <1>3, TokenizerMin
<1> QED BY <1>4 DEF I

\* The text at i, of which delimiters up to b are skipped.
LEMMA TextStart ==
  ASSUME NEW a \in Arrays, NEW i \in 1 .. Len(a), NEW end, IsEnd(a, i, end),
         NEW D, NEW b \in i .. end, \A m \in i .. b - 1 : a[m] \in D
  PROVE  /\ b = end => StartIn(SubSeq(a, i, end - 1), D) = 0
         /\ b < end /\ a[b] \notin D => StartIn(SubSeq(a, i, end - 1), D) = b - i + 1
<1> DEFINE t == SubSeq(a, i, end - 1)
           e == StartIn(t, D)
           I == {m \in 1 .. Len(t) : t[m] \notin D}
<1>1. /\ i \in Nat /\ i >= 1 /\ end \in Nat /\ i <= end /\ b \in Nat /\ i <= b /\ b <= end
  BY ArrayIs DEF IsEnd
<1>2. t \in Seq(1 .. 255) /\ Len(t) = end - i /\ \A m \in 1 .. end - i : t[m] = a[i + m - 1]
  BY TextType
<1> HIDE DEF t
<1>3. IsFirst(e, I)
  BY <1>2, StartInIs
<1> HIDE DEF e
<1>4. ASSUME NEW m \in I PROVE b <= i + m - 1 /\ m \in 1 .. end - i
  <2>1. m \in 1 .. end - i /\ a[i + m - 1] \notin D
    BY <1>2
  <2>2. i + m - 1 \in Nat /\ i + m - 1 >= i /\ i + m - 1 \notin i .. b - 1
    BY <1>1, <2>1
  <2> QED BY <1>1, <2>1, <2>2
<1>5. CASE b = end
  <2>1. I = {}
    BY <1>1, <1>4, <1>5
  <2>2. e = 0
    BY <1>3, <2>1 DEF IsFirst
  <2> QED BY <1>5, <2>2 DEF e, t
<1>6. CASE b < end /\ a[b] \notin D
  <2> DEFINE k == b - i + 1
  <2>1. k \in 1 .. Len(t) /\ i + k - 1 = b /\ k \in 1 .. end - i
    BY <1>1, <1>2, <1>6
  <2>2. k \in I
    BY <1>2, <1>6, <2>1
  <2>3. \A m \in I : k <= m
    BY <1>1, <1>4
  <2>4. Len(t) \in Nat /\ I \subseteq 1 .. Len(t)
    BY <1>2
  <2> HIDE DEF k, I
  <2>5. e = k
    BY <1>3, <2>2, <2>3, <2>4, FirstIs
  <2> QED BY <1>1, <1>6, <2>5 DEF e, t, k
<1> QED BY <1>1, <1>5, <1>6

\* The token at b ends before c.
IsToken(a, b, end, D, c) ==
  c \in b .. end /\ (\A m \in b .. c - 1 : a[m] \notin D) /\ (c = end \/ a[c] \in D)

StopsAt(text, D, n) == StopIn(text, D) = n

LEMMA TextStop ==
  ASSUME NEW a \in Arrays, NEW b \in 1 .. Len(a), NEW end, IsEnd(a, b, end),
         NEW D, NEW c, IsToken(a, b, end, D, c)
  PROVE  StopsAt(SubSeq(a, b, end - 1), D, IF c = end THEN 0 ELSE c - b + 1)
<1> USE DEF StopsAt, IsToken
<1> DEFINE t == SubSeq(a, b, end - 1)
           e == StopIn(t, D)
           I == {m \in 1 .. Len(t) : t[m] \in D}
<1>1. /\ b \in Nat /\ b >= 1 /\ end \in Nat /\ b <= end /\ c \in Nat /\ b <= c /\ c <= end
  BY ArrayIs DEF IsEnd
<1>2. t \in Seq(1 .. 255) /\ Len(t) = end - b /\ \A m \in 1 .. end - b : t[m] = a[b + m - 1]
  BY TextType
<1> HIDE DEF t
<1>3. IsFirst(e, I)
  BY <1>2, StopInIs
<1> HIDE DEF e
<1>4. ASSUME NEW m \in I PROVE c <= b + m - 1 /\ m \in 1 .. end - b
  <2>1. m \in 1 .. end - b /\ a[b + m - 1] \in D
    BY <1>2
  <2>2. b + m - 1 \in Nat /\ b + m - 1 >= b /\ b + m - 1 \notin b .. c - 1
    BY <1>1, <2>1
  <2> QED BY <1>1, <2>1, <2>2
<1>5. CASE c = end
  <2>1. I = {}
    BY <1>1, <1>4, <1>5
  <2>2. e = 0
    BY <1>3, <2>1 DEF IsFirst
  <2> QED BY <1>5, <2>2 DEF e, t
<1>6. CASE c # end
  <2> DEFINE k == c - b + 1
  <2>1. k \in 1 .. Len(t) /\ b + k - 1 = c /\ k \in 1 .. end - b
    BY <1>1, <1>2, <1>6
  <2>2. k \in I
    BY <1>2, <1>6, <2>1
  <2>3. \A m \in I : k <= m
    BY <1>1, <1>4
  <2>4. Len(t) \in Nat /\ I \subseteq 1 .. Len(t)
    BY <1>2
  <2> HIDE DEF k, I
  <2>5. e = k
    BY <1>3, <2>2, <2>3, <2>4, FirstIs
  <2> QED BY <1>1, <1>6, <2>5 DEF e, t, k
<1> QED BY <1>1, <1>5, <1>6

\* What Take does, by the positions it looks for.
LEMMA TakeIs ==
  ASSUME NEW text, NEW D, NEW run, run = SubSeq(text, StartIn(text, D), Len(text))
  PROVE  Tokenizer!Take(text, D) <=>
           IF StartIn(text, D) = 0 THEN Unread' = <<>> /\ token' = Nil
           ELSE IF StopIn(run, D) = 0 THEN Unread' = <<>> /\ token' = run
           ELSE /\ Unread' = SubSeq(run, StopIn(run, D) + 1, Len(run))
                /\ token' = SubSeq(run, 1, StopIn(run, D) - 1)
BY DEF Tokenizer!Take, StartIn, StopIn

\* strtok's scan takes what the tokenizer takes from the text that is left.
LEMMA ScanTakes ==
  ASSUME Memory, NEW s \in Buffers, NEW i \in 1 .. Len(memory[s]),
         NEW D, D \subseteq 1 .. 255, NEW old, Scan(<<s, i>>, D, old)
  PROVE  Tokenizer!Take(StringAt(memory, <<s, i>>), D)
<1>0. PICK a : a = memory[s]
  OBVIOUS
<1>1. a \in Arrays /\ i \in 1 .. Len(a)
  BY <1>0 DEF Memory
<1>2. PICK end \in i .. Len(a) : IsEnd(a, i, end)
  BY <1>1, EndExists
<1>3. PICK b, c : Scanned(s, i, end, D, old, b, c)
  BY <1>0, <1>2, ScanIs
<1>4. /\ b \in i .. end /\ c \in b .. end
      /\ \A m \in i .. b - 1 : a[m] \in D
      /\ TokenFound(s, i, end, b, c, D, old) \/ NothingFound(end, b, old)
  BY <1>0, <1>3 DEF Scanned
<1> DEFINE text == SubSeq(a, i, end - 1)
           run == SubSeq(a, b, end - 1)
<1>5. StringAt(memory, <<s, i>>) = text
  BY <1>1, <1>2, <1>0, TextIs DEF StringAt
<1>6. /\ b = end => StartIn(text, D) = 0
      /\ b < end /\ a[b] \notin D => StartIn(text, D) = b - i + 1
  BY <1>1, <1>2, <1>4, TextStart
<1>7. /\ i \in Nat /\ i >= 1 /\ end \in Nat /\ end <= Len(a) /\ Len(a) \in Nat
      /\ b \in Nat /\ i <= b /\ b <= end /\ c \in Nat /\ b <= c /\ c <= end
  BY <1>1, <1>2, <1>4, ArrayIs
<1>8. text \in Seq(1 .. 255) /\ Len(text) = end - i
  BY <1>1, <1>2, TextType
<1>9. CASE NothingFound(end, b, old)
  <2>1. b = end /\ last_token' = Nil /\ token' = Nil
    BY <1>9 DEF NothingFound
  <2>2. StartIn(text, D) = 0 /\ Unread' = <<>>
    BY <1>6, <2>1 DEF Unread
  <2> QED BY <1>5, <2>1, <2>2, TakeIs
<1>10. CASE TokenFound(s, i, end, b, c, D, old)
  <2>1. /\ b < end /\ a[b] \notin D /\ \A m \in b .. c - 1 : a[m] \notin D
        /\ c = end \/ a[c] \in D
        /\ memory' = [memory EXCEPT ![s] = Cut(a, c)]
        /\ last_token' = IF c = end THEN Nil ELSE <<s, c + 1>>
        /\ token' = SubSeq(a, b, c - 1)
    BY <1>0, <1>10 DEF TokenFound
  <2>2. IsEnd(a, b, end) /\ b \in 1 .. Len(a) /\ c \in 1 .. Len(a)
    BY <1>1, <1>2, <1>4, <1>7, EndBehind
  <2>3. StopIn(run, D) = IF c = end THEN 0 ELSE c - b + 1
    <3>1. IsToken(a, b, end, D, c)
      BY <1>4, <2>1 DEF IsToken
    <3>2. a \in Arrays /\ b \in 1 .. Len(a) /\ IsEnd(a, b, end)
      BY <1>1, <2>2
    <3>3. StopsAt(SubSeq(a, b, end - 1), D, IF c = end THEN 0 ELSE c - b + 1)
      BY <3>1, <3>2, TextStop, Zenon
    <3> QED BY <3>3 DEF StopsAt
  <2>4. a \in Seq(Codes)
    BY <1>1, ArrayIs
  <2>5. SubSeq(text, b - i + 1, end - i) = run
    <3>1. /\ i \in 1 .. Len(a) + 1 /\ end - 1 \in i - 1 .. Len(a)
          /\ b - i + 1 \in 1 .. end - 1 - i + 2 /\ end - i \in b - i + 1 - 1 .. end - 1 - i + 1
          /\ i + (b - i + 1) - 1 = b /\ i + (end - i) - 1 = end - 1
      BY <1>7
    <3> QED BY <1>7, <2>4, <3>1, SubSubSeq
  <2>6. StartIn(text, D) = b - i + 1 /\ b - i + 1 # 0
    BY <1>6, <1>7, <2>1
  <2>7. run = SubSeq(text, StartIn(text, D), Len(text))
    BY <1>8, <2>5, <2>6
  <2>8. CASE c = end
    <3>1. StopIn(run, D) = 0 /\ Unread' = <<>> /\ token' = run
      BY <2>1, <2>3, <2>8 DEF Unread
    <3> HIDE DEF text, run
    <3>2. Tokenizer!Take(text, D)
      BY <2>6, <2>7, <3>1, TakeIs
    <3> QED BY <1>5, <3>2
  <2>9. CASE c # end
    <3>1. c < end /\ StopIn(run, D) = c - b + 1 /\ c - b + 1 # 0 /\ last_token' = <<s, c + 1>>
      BY <1>7, <2>1, <2>3, <2>9
    <3>2. run \in Seq(1 .. 255) /\ Len(run) = end - b
      BY <1>1, <2>2, TextType
    <3>3. SubSeq(run, c - b + 2, end - b) = SubSeq(a, c + 1, end - 1)
      <4>1. /\ b \in 1 .. Len(a) + 1 /\ end - 1 \in b - 1 .. Len(a)
            /\ c - b + 2 \in 1 .. end - 1 - b + 2 /\ end - b \in c - b + 2 - 1 .. end - 1 - b + 1
            /\ b + (c - b + 2) - 1 = c + 1 /\ b + (end - b) - 1 = end - 1
        BY <1>7, <3>1
      <4> QED BY <1>7, <2>4, <4>1, SubSubSeq
    <3>4. SubSeq(run, 1, c - b) = SubSeq(a, b, c - 1)
      <4>1. /\ b \in 1 .. Len(a) + 1 /\ end - 1 \in b - 1 .. Len(a)
            /\ 1 \in 1 .. end - 1 - b + 2 /\ c - b \in 1 - 1 .. end - 1 - b + 1
            /\ b + 1 - 1 = b /\ b + (c - b) - 1 = c - 1
        BY <1>7, <3>1
      <4> QED BY <1>7, <2>4, <4>1, SubSubSeq
    <3>5. Unread' = SubSeq(a, c + 1, end - 1)
      <4> DEFINE n == c + 1
      <4>1. n \in i .. end /\ n \in 1 .. Len(a) /\ c \notin n .. end
        BY <1>7, <3>1
      <4>2. last_token' = <<s, n>>
        BY <3>1
      <4> HIDE DEF n
      <4>3. IsEnd(a, n, end)
        BY <1>1, <1>2, <4>1, EndBehind
      <4>4. IsEnd(Cut(a, c), n, end) /\ SubSeq(Cut(a, c), n, end - 1) = SubSeq(a, n, end - 1)
        BY <1>1, <2>2, <4>1, <4>3, CutElsewhere
      <4>5. Cut(a, c) \in Arrays /\ Len(Cut(a, c)) = Len(a)
        BY <1>1, <2>2, CutIs
      <4>6. memory'[s] = Cut(a, c)
        BY <2>1 DEF Memory
      <4>7. Chars(From(Cut(a, c), n)) = SubSeq(a, n, end - 1)
        BY <4>1, <4>4, <4>5, TextIs
      <4>8. last_token' # Nil
        <5>1. n \in Nat
          BY <1>7, <4>1
        <5> QED BY <4>2, <5>1, StrtokAssumption
      <4>9. Unread' = SubSeq(a, n, end - 1)
        BY <4>2, <4>6, <4>7, <4>8 DEF Unread, StringAt
      <4> QED BY <4>9 DEF n
    <3>6. c - b + 1 + 1 = c - b + 2 /\ c - b + 1 - 1 = c - b
      BY <1>7
    <3>7. /\ Unread' = SubSeq(run, StopIn(run, D) + 1, Len(run))
          /\ token' = SubSeq(run, 1, StopIn(run, D) - 1)
      <4>1. token' = SubSeq(a, b, c - 1)
        BY <2>1
      <4> HIDE DEF run
      <4>2. StopIn(run, D) + 1 = c - b + 2 /\ StopIn(run, D) - 1 = c - b
        BY <1>7, <3>1, <3>6
      <4> QED BY <3>2, <3>3, <3>4, <3>5, <4>1, <4>2
    <3> HIDE DEF text, run
    <3>8. Tokenizer!Take(text, D)
      BY <2>6, <2>7, <3>1, <3>7, TakeIs
    <3> QED BY <1>5, <3>8
  <2> QED BY <2>8, <2>9
<1> QED BY <1>4, <1>9, <1>10

-----------------------------------------------------------------------------
(* strtok implements the tokenizer *)

TextOf(s) == StringAt(memory, <<s, 1>>)

\* A string holds one of the texts, however often it has been cut.
HoldTexts == \A s \in Buffers : TextOf(s) \in Texts

\* A string that is cut holds its text or the front of it.
LEMMA CutText ==
  ASSUME NEW a \in Arrays, Chars(From(a, 1)) \in Texts, NEW c \in 1 .. Len(a)
  PROVE  Chars(From(Cut(a, c), 1)) \in Texts
<1>1. 1 \in 1 .. Len(a)
  BY ArrayIs
<1>2. PICK end \in 1 .. Len(a) : IsEnd(a, 1, end)
  BY <1>1, EndExists
<1>3. Cut(a, c) \in Arrays /\ 1 \in 1 .. Len(Cut(a, c))
  BY <1>1, CutIs
<1> DEFINE text == SubSeq(a, 1, end - 1)
<1>4. text \in Texts
  BY <1>1, <1>2, TextIs
<1>5. CASE c \in 1 .. end
  <2>1. IsEnd(Cut(a, c), 1, c) /\ SubSeq(Cut(a, c), 1, c - 1) = SubSeq(a, 1, c - 1)
    BY <1>1, <1>2, <1>5, CutInside
  <2>2. Chars(From(Cut(a, c), 1)) = SubSeq(a, 1, c - 1)
    BY <1>3, <2>1, TextIs
  <2>3. SubSeq(text, 1, c - 1) = SubSeq(a, 1, c - 1)
    <3>1. /\ a \in Seq(Codes) /\ 1 \in 1 .. Len(a) + 1 /\ end - 1 \in 1 - 1 .. Len(a)
          /\ 1 \in 1 .. end - 1 - 1 + 2 /\ c - 1 \in 1 - 1 .. end - 1 - 1 + 1
          /\ 1 + 1 - 1 = 1 /\ 1 + (c - 1) - 1 = c - 1
      BY <1>2, <1>5, ArrayIs
    <3> QED BY <3>1, SubSubSeq
  <2>4. c - 1 \in 0 .. Len(text)
    <3>1. Len(text) = end - 1
      BY <1>1, <1>2, TextType
    <3> QED BY <1>5, <3>1
  <2>5. SubSeq(text, 1, c - 1) \in Texts
    <3> HIDE DEF text
    <3> QED BY <1>4, <2>4, StrtokAssumption
  <2> QED BY <2>2, <2>3, <2>5
<1>6. CASE c \notin 1 .. end
  <2>1. IsEnd(Cut(a, c), 1, end) /\ SubSeq(Cut(a, c), 1, end - 1) = text
    BY <1>1, <1>2, <1>6, CutElsewhere
  <2> QED BY <1>3, <1>4, <2>1, TextIs
<1> QED BY <1>5, <1>6

LEMMA ScanKeepsTexts ==
  ASSUME Memory, HoldTexts, NEW s \in Buffers, NEW i \in 1 .. Len(memory[s]),
         NEW D, D \subseteq 1 .. 255, NEW old, Scan(<<s, i>>, D, old)
  PROVE  HoldTexts'
<1>0. PICK a : a = memory[s]
  OBVIOUS
<1>1. a \in Arrays /\ i \in 1 .. Len(a)
  BY <1>0 DEF Memory
<1>2. PICK end \in i .. Len(a) : IsEnd(a, i, end)
  BY <1>1, EndExists
<1>3. PICK b, c : Scanned(s, i, end, D, old, b, c)
  BY <1>0, <1>2, ScanIs
<1>4. b \in i .. end /\ c \in b .. end /\ (TokenFound(s, i, end, b, c, D, old) \/ NothingFound(end, b, old))
  BY <1>3 DEF Scanned
<1>5. CASE NothingFound(end, b, old)
  BY <1>5 DEF NothingFound, HoldTexts, TextOf
<1>6. CASE TokenFound(s, i, end, b, c, D, old)
  <2>1. memory' = [memory EXCEPT ![s] = Cut(a, c)]
    BY <1>0, <1>6 DEF TokenFound
  <2>2. c \in 1 .. Len(a)
    BY <1>1, <1>2, <1>4, ArrayIs
  <2>3. Chars(From(a, 1)) \in Texts
    BY <1>0 DEF HoldTexts, TextOf, StringAt
  <2>4. Chars(From(Cut(a, c), 1)) \in Texts
    BY <1>1, <2>2, <2>3, CutText
  <2>5. memory'[s] = Cut(a, c) /\ \A s2 \in Buffers : s2 # s => memory'[s2] = memory[s2]
    BY <2>1 DEF Memory
  <2>6. ASSUME NEW s2 \in Buffers PROVE Chars(From(memory'[s2], 1)) \in Texts
    BY <2>4, <2>5 DEF HoldTexts, TextOf, StringAt
  <2> QED BY <2>6 DEF HoldTexts, TextOf, StringAt
<1> QED BY <1>4, <1>5, <1>6

TokenizerInv == TokensInv /\ HoldTexts

LEMMA InitTokenizer == StrtokInit => TokenizerInv /\ Tokenizer!Init
<1> SUFFICES ASSUME StrtokInit PROVE TokenizerInv /\ Tokenizer!Init
  OBVIOUS
<1>1. ASSUME NEW t \in Texts PROVE CString(t) \in Arrays /\ Chars(From(CString(t), 1)) = t
  <2> DEFINE a == CString(t)
             end == Len(t) + 1
  <2>1. t \in Seq(1 .. 255) /\ t \in Seq(Codes) /\ NUL \in Codes /\ Len(t) \in Nat
    BY StrtokAssumption, SeqMonotonic, 1 .. 255 \subseteq Codes DEF Codes, NUL
  <2>2. /\ a \in Seq(Codes) /\ Len(a) = Len(t) + 1
        /\ \A k \in 1 .. Len(t) : a[k] = t[k]
        /\ a[Len(t) + 1] = NUL
    BY <2>1, AppendProperties DEF CString
  <2> HIDE DEF a
  <2>3. a \in Arrays /\ 1 \in 1 .. Len(a)
    BY <2>1, <2>2 DEF Arrays
  <2>4. IsEnd(a, 1, end)
    <3>1. ASSUME NEW k \in 1 .. end - 1 PROVE a[k] # NUL
      <4>1. k \in 1 .. Len(t)
        BY <2>1
      <4>2. t[k] \in 1 .. 255
        BY <2>1, <4>1, ElementOfSeq
      <4>3. a[k] = t[k]
        BY <2>2, <4>1
      <4>4. \A n \in 1 .. 255 : n # NUL
        BY DEF NUL
      <4> QED BY <4>2, <4>3, <4>4, Zenon
    <3> QED BY <2>1, <2>2, <3>1 DEF IsEnd
  <2>5. Chars(From(a, 1)) = SubSeq(a, 1, end - 1)
    BY <2>3, <2>4, TextIs
  <2>6. t = SubSeq(a, 1, Len(t))
    <3>1. /\ 1 \in 1 .. Len(a) + 1 /\ Len(t) \in 1 - 1 .. Len(a) /\ Len(t) = Len(t) - 1 + 1
          /\ \A k \in 1 .. Len(t) - 1 + 1 : t[k] = a[1 + k - 1]
      BY <2>1, <2>2
    <3> QED BY <2>1, <2>2, <3>1, SubSeqUnique
  <2>7. end - 1 = Len(t)
    BY <2>1
  <2> QED BY <2>3, <2>5, <2>6, <2>7 DEF a
<1>2. HoldTexts
  BY <1>1 DEF StrtokInit, HoldTexts, TextOf, StringAt
<1>3. Tokenizer!Init
  BY DEF StrtokInit, Tokenizer!Init, Unread
<1> QED BY <1>2, <1>3, InitTokens DEF TokenizerInv

LEMMA TakeNothing ==
  ASSUME NEW D, Unread' = <<>>, token' = Nil
  PROVE  Tokenizer!Take(<<>>, D)
<1>1. <<>> \in Seq(Codes) /\ Len(<<>>) = 0
  BY EmptySeq
<1> DEFINE I == {m \in 1 .. Len(<<>>) : <<>>[m] \notin D}
<1>2. I = {}
  BY <1>1
<1>3. IsFirst(StartIn(<<>>, D), I)
  BY <1>1, StartInIs
<1> HIDE DEF I
<1>4. StartIn(<<>>, D) = 0
  BY <1>2, <1>3 DEF IsFirst
<1> QED BY <1>4, TakeIs

\* A call of strtok is a call of the tokenizer.
LEMMA StrtokStep ==
  ASSUME TokenizerInv, strtok
  PROVE  Tokenizer!Next /\ HoldTexts'
<1> USE DEF TokenizerInv
<1>1. PICK D \in Delimiters : Continue(D) \/ \E s \in Buffers : Begin(s, D)
  BY DEF strtok
<1>2. D \subseteq 1 .. 255 /\ Memory
  BY StrtokAssumption DEF TokensInv
<1>3. CASE Continue(D) /\ last_token = Nil
  <2>1. given' = Nil /\ token' = Nil /\ UNCHANGED <<memory, last_token, tokens>>
    BY <1>3 DEF Continue
  <2>2. Unread = <<>> /\ Unread' = <<>>
    BY <1>3, <2>1 DEF Unread
  <2>3. Tokenizer!Take(Unread, D)
    BY <2>1, <2>2, TakeNothing
  <2>4. HoldTexts'
    BY <2>1 DEF HoldTexts, TextOf, StringAt
  <2> QED BY <2>1, <2>3, <2>4 DEF Tokenizer!Next, Tokenizer!Continue
<1>4. CASE Continue(D) /\ last_token # Nil
  <2>1. PICK s, i : AtPointer(last_token, s, i)
    BY <1>4 DEF TokensInv
  <2>2. s \in Buffers /\ i \in 1 .. Len(memory[s]) /\ last_token = <<s, i>>
    BY <2>1 DEF AtPointer
  <2>3. Scan(<<s, i>>, D, tokens) /\ given' = Nil
    BY <1>4, <2>2 DEF Continue
  <2>4. Tokenizer!Take(StringAt(memory, <<s, i>>), D) /\ HoldTexts'
    BY <1>2, <2>2, <2>3, ScanTakes, ScanKeepsTexts
  <2>5. Unread = StringAt(memory, <<s, i>>)
    BY <1>4, <2>2 DEF Unread
  <2> QED BY <2>3, <2>4, <2>5 DEF Tokenizer!Next, Tokenizer!Continue
<1>5. ASSUME NEW s \in Buffers, Begin(s, D) PROVE Tokenizer!Next /\ HoldTexts'
  <2>1. 1 \in 1 .. Len(memory[s])
    BY <1>2, ArrayIs DEF Memory
  <2>2. Scan(<<s, 1>>, D, Others(s)) /\ given' = TextOf(s)
    BY <1>5 DEF Begin, TextOf
  <2>3. Tokenizer!Take(TextOf(s), D) /\ HoldTexts'
    BY <1>2, <2>1, <2>2, ScanTakes, ScanKeepsTexts DEF TextOf
  <2>4. TextOf(s) \in Texts
    BY DEF HoldTexts
  <2> QED BY <2>2, <2>3, <2>4 DEF Tokenizer!Next, Tokenizer!Begin
<1> QED BY <1>1, <1>3, <1>4, <1>5

\* strtok gives the tokens of the text it was last begun with, whatever texts,
\* delimiters and strings there are: the pointer it keeps, and the NULs it has
\* written into the string, stand for the rest of that text.
THEOREM StrtokImplementsTokenizer == LibrarySpec => ImplementsTokenizer
<1>1. LibraryInit => TokenizerInv /\ Tokenizer!Init
  BY InitTokenizer DEF LibraryInit
<1>2. [LibraryNext]_libraryVars => strtok \/ UNCHANGED strtokVars
  BY DEF LibraryNext, Scans, Splitting, Calls, Drops, Called, Converts, Compares, Moves, Prints,
         PrintsInColour, libraryVars
<1>3. TokenizerInv /\ [LibraryNext]_libraryVars => TokenizerInv' /\ [Tokenizer!Next]_<<given, Unread, token>>
  <2>1. TokenizerInv /\ UNCHANGED strtokVars => HoldTexts' /\ UNCHANGED <<given, Unread, token>>
    BY DEF TokenizerInv, strtokVars, HoldTexts, TextOf, StringAt, Unread
  <2> QED BY <1>2, <2>1, NextTokens, StrtokStep DEF TokenizerInv
<1> QED BY <1>1, <1>3, PTL DEF LibrarySpec, ImplementsTokenizer, Tokenizer!Spec

-----------------------------------------------------------------------------
(* splitString and split use the heap as clients of it: what HeapProofs    *)
(* proves of the heap holds for them.                                      *)

\* The words are numbered like the clients.
WordsInRange == index \in 0 .. MaxWords /\ j \in Nat

LEMMA InitWords == SplitInit => WordsInRange
BY SplitAssumption DEF SplitAssumption, SplitInit, WordsInRange

LEMMA StepWords ==
  ASSUME WordsInRange, [SplitNext]_splitVars
  PROVE  WordsInRange'
<1> USE SplitAssumption DEF SplitAssumption, WordsInRange, scan
<1>1. CASE UNCHANGED splitVars
  BY <1>1 DEF splitVars
<1>2. CASE \E s \in Strings : Call(s)
  BY <1>2 DEF Call
<1>3. CASE NoWords \/ AllocArray \/ UnwindArray \/ ReleaseWord \/ ReleaseArray \/ UseHeap
  BY <1>3 DEF NoWords, AllocArray, UnwindArray, ReleaseWord, ReleaseArray, UseHeap
<1>4. CASE AllocWord
  BY <1>4 DEF AllocWord, malloc
<1>5. CASE ReturnResult \/ UnwindWord
  BY <1>5 DEF ReturnResult, UnwindWord
<1> QED
  BY <1>1, <1>2, <1>3, <1>4, <1>5 DEF SplitNext, splitString, split, Program

\* Every step of Split is a step of the heap or leaves it alone.
LEMMA StepUsesHeap ==
  ASSUME WordsInRange, [SplitNext]_splitVars
  PROVE  [Next]_vars
<1> USE SplitAssumption DEF SplitAssumption, WordsInRange
<1>1. ASSUME NEW c, c \in Clients, NEW n, malloc(c, n) PROVE Next
  BY <1>1 DEF malloc, Next
<1>2. ASSUME NEW c \in Clients, kmfree(c) PROVE Next
  BY <1>2 DEF Next
<1>3. CASE UNCHANGED vars
  BY <1>3
<1>4. CASE AllocArray
  BY <1>4, <1>1, Array \in Clients DEF AllocArray, Array
<1>5. CASE AllocWord
  <2>1. index + 1 \in Clients
    BY <1>5 DEF AllocWord, malloc
  <2> QED
    BY <1>5, <1>1, <2>1 DEF AllocWord
<1>6. CASE UnwindWord
  <2>1. j + 1 \in Clients
    BY <1>6 DEF UnwindWord
  <2> QED
    BY <1>6, <1>2, <2>1 DEF UnwindWord
<1>7. CASE UnwindArray \/ ReleaseWord \/ ReleaseArray
  BY <1>7, <1>2 DEF UnwindArray, ReleaseWord, ReleaseArray, Array
<1>8. CASE UseHeap
  <2>1. Other \in Clients
    BY DEF Other
  <2> QED
    BY <1>8, <2>1 DEF UseHeap, Next
<1>9. CASE NoWords \/ ReturnResult \/ \E s \in Strings : Call(s)
  BY <1>9, <1>3 DEF NoWords, ReturnResult, Call
<1> QED
  BY <1>3, <1>4, <1>5, <1>6, <1>7, <1>8, <1>9 DEF SplitNext, splitString, split, Program, splitVars

\* The program and splitString are clients of the heap: every behaviour of
\* Split is one of Heap, and inherits its theorems.
THEOREM SplitUsesHeap == SplitSpec => Spec
<1>1. SplitInit => Init /\ WordsInRange
  BY InitWords DEF SplitInit
<1>2. WordsInRange /\ [SplitNext]_splitVars => [Next]_vars /\ WordsInRange'
  BY StepWords, StepUsesHeap
<1> QED
  BY <1>1, <1>2, PTL DEF SplitSpec, Spec

-----------------------------------------------------------------------------
(* The words of a string *)

IsString(s) == s \in Seq({"c", "d"})
IsWord(s, w) ==
  /\ w[1] <= w[2]
  /\ \A q \in w[1] .. w[2] : s[q] # "d"
  /\ w[1] = 1 \/ s[w[1] - 1] = "d"
  /\ w[2] = Len(s) \/ s[w[2] + 1] = "d"

LEMMA WordsAre ==
  ASSUME NEW s, NEW w
  PROVE  w \in WordsOf(s) <=> w \in (1 .. Len(s)) \X (1 .. Len(s)) /\ IsWord(s, w)
BY DEF WordsOf, IsWord

WordsFrom(s, p) == {w \in WordsOf(s) : w[1] >= p}
WordsBefore(s, p) == {w \in WordsOf(s) : w[1] < p}

LEMMA WordsFinite ==
  ASSUME NEW s, IsString(s), NEW W \in SUBSET WordsOf(s)
  PROVE  IsFiniteSet(W) /\ Cardinality(W) \in Nat
<1> DEFINE R == 1 .. Len(s)
<1>1. Len(s) \in Nat
  BY DEF IsString
<1>2. IsFiniteSet(R)
  BY <1>1, FS_Interval
<1> HIDE DEF R
<1>3. IsFiniteSet(R \X R)
  BY <1>2, FS_Product
<1>4. WordsOf(s) \subseteq R \X R
  BY DEF WordsOf, R
<1> QED BY <1>3, <1>4, FS_Subset, FS_CardinalityType

\* Where the scan may stand: at the start, behind a word, or at the end.
Boundary(s, p) == p \in 1 .. End(s) /\ (p = 1 \/ p = End(s) \/ s[p] = "d")

LEMMA SkipsDelimiters ==
  ASSUME NEW s, IsString(s), NEW p \in 1 .. End(s)
  PROVE  /\ SkipDelimiters(s, p) \in p .. End(s)
         /\ SkipDelimiters(s, p) = End(s) \/ s[SkipDelimiters(s, p)] # "d"
         /\ \A q \in p .. SkipDelimiters(s, p) - 1 : s[q] = "d"
<1> DEFINE S == {q \in p .. End(s) : q = End(s) \/ s[q] # "d"}
<1>1. Len(s) \in Nat /\ End(s) \in Nat
  BY DEF IsString, End
<1>2. S \in SUBSET Nat /\ S # {}
  <2>1. End(s) \in S
    BY <1>1
  <2> QED BY <1>1, <2>1
<1>3. Min(S) \in S /\ \A n \in S : Min(S) <= n
  BY <1>2, MinOfNaturals
<1>4. SkipDelimiters(s, p) = Min(S)
  BY DEF SkipDelimiters
<1> DEFINE m == Min(S)
<1> HIDE DEF m
<1>5. m \in p .. End(s) /\ (m = End(s) \/ s[m] # "d") /\ \A n \in S : m <= n
  BY <1>3 DEF m
<1>6. ASSUME NEW q \in p .. m - 1 PROVE s[q] = "d"
  <2>1. q \in p .. End(s) /\ q # End(s) /\ ~(m <= q)
    BY <1>1, <1>5
  <2> QED BY <1>5, <2>1
<1> QED BY <1>4, <1>5, <1>6 DEF m

LEMMA SkipsWord ==
  ASSUME NEW s, IsString(s), NEW p \in 1 .. End(s)
  PROVE  /\ SkipWord(s, p) \in p .. End(s)
         /\ SkipWord(s, p) = End(s) \/ s[SkipWord(s, p)] = "d"
         /\ \A q \in p .. SkipWord(s, p) - 1 : s[q] # "d"
<1> DEFINE S == {q \in p .. End(s) : q = End(s) \/ s[q] = "d"}
<1>1. Len(s) \in Nat /\ End(s) \in Nat
  BY DEF IsString, End
<1>2. S \in SUBSET Nat /\ S # {}
  <2>1. End(s) \in S
    BY <1>1
  <2> QED BY <1>1, <2>1
<1>3. Min(S) \in S /\ \A n \in S : Min(S) <= n
  BY <1>2, MinOfNaturals
<1>4. SkipWord(s, p) = Min(S)
  BY DEF SkipWord
<1> DEFINE m == Min(S)
<1> HIDE DEF m
<1>5. m \in p .. End(s) /\ (m = End(s) \/ s[m] = "d") /\ \A n \in S : m <= n
  BY <1>3 DEF m
<1>6. ASSUME NEW q \in p .. m - 1 PROVE s[q] # "d"
  <2>1. q \in p .. End(s) /\ q # End(s) /\ ~(m <= q)
    BY <1>1, <1>5
  <2> QED BY <1>5, <2>1
<1> QED BY <1>4, <1>5, <1>6 DEF m

\* The scan finds the next word, and passes over no other.
LEMMA NextWord ==
  ASSUME NEW s, IsString(s), NEW p, Boundary(s, p),
         NEW start, start = SkipDelimiters(s, p), start # End(s),
         NEW stop, stop = SkipWord(s, start)
  PROVE  /\ start \in p .. Len(s) /\ stop \in start + 1 .. End(s) /\ Boundary(s, stop)
         /\ <<start, stop - 1>> \in WordsOf(s)
         /\ \A v \in WordsOf(s) : v[1] >= p => v = <<start, stop - 1>> \/ v[1] >= stop
<1>1. Len(s) \in Nat /\ End(s) = Len(s) + 1 /\ p \in 1 .. End(s)
  BY DEF IsString, End, Boundary
<1>2. start \in p .. End(s) /\ s[start] # "d" /\ \A q \in p .. start - 1 : s[q] = "d"
  BY <1>1, SkipsDelimiters
<1>3. start \in 1 .. Len(s) /\ start \in 1 .. End(s)
  BY <1>1, <1>2
<1>4. /\ stop \in start .. End(s)
      /\ stop = End(s) \/ s[stop] = "d"
      /\ \A q \in start .. stop - 1 : s[q] # "d"
  BY <1>3, SkipsWord
<1>5. stop # start
  BY <1>2, <1>4
<1>6. stop \in start + 1 .. End(s) /\ start \in p .. Len(s)
  BY <1>1, <1>2, <1>3, <1>4, <1>5
<1>7. Boundary(s, stop)
  BY <1>1, <1>3, <1>4, <1>6 DEF Boundary
<1>8. <<start, stop - 1>> \in WordsOf(s)
  <2>1. start <= stop - 1 /\ stop - 1 \in 1 .. Len(s)
    BY <1>1, <1>3, <1>6
  <2>2. start = 1 \/ s[start - 1] = "d"
    <3>1. CASE start = p
      BY <1>1, <1>2, <3>1 DEF Boundary
    <3>2. CASE start # p
      <4>1. start - 1 \in p .. start - 1
        BY <1>1, <1>2, <3>2
      <4> QED BY <1>2, <4>1
    <3> QED BY <3>1, <3>2
  <2>3. stop - 1 = Len(s) \/ s[stop - 1 + 1] = "d"
    <3>1. stop - 1 + 1 = stop /\ (stop = End(s) => stop - 1 = Len(s))
      BY <1>1, <1>6
    <3> QED BY <1>4, <3>1
  <2> DEFINE w == <<start, stop - 1>>
  <2>4. w[1] = start /\ w[2] = stop - 1 /\ w \in (1 .. Len(s)) \X (1 .. Len(s))
    BY <1>3, <2>1
  <2> HIDE DEF w
  <2>5. IsWord(s, w)
    BY <1>4, <2>1, <2>2, <2>3, <2>4 DEF IsWord
  <2>6. w \in WordsOf(s)
    BY <2>4, <2>5, WordsAre
  <2> QED BY <2>6 DEF w
<1>9. ASSUME NEW v \in WordsOf(s), v[1] >= p, ~(v[1] >= stop) PROVE v = <<start, stop - 1>>
  <2> DEFINE x == v[1]
             y == v[2]
  <2>1. v \in (1 .. Len(s)) \X (1 .. Len(s)) /\ IsWord(s, v)
    BY WordsAre
  <2>2. /\ v = <<x, y>> /\ x \in 1 .. Len(s) /\ y \in 1 .. Len(s) /\ x <= y
        /\ \A q \in x .. y : s[q] # "d"
        /\ x = 1 \/ s[x - 1] = "d"
        /\ y = Len(s) \/ s[y + 1] = "d"
    BY <2>1 DEF IsWord
  <2>3. x >= p /\ x < stop
    BY <1>1, <1>6, <1>9, <2>2
  <2> HIDE DEF x, y
  <2>4. x \notin p .. start - 1
    <3>1. x \in x .. y
      BY <2>2
    <3> QED BY <1>2, <2>2, <3>1
  <2>5. x - 1 \notin start .. stop - 1
    <3>1. CASE x = 1
      BY <1>3, <3>1
    <3>2. CASE x # 1
      BY <1>4, <2>2, <3>2
    <3> QED BY <3>1, <3>2
  <2>6. x = start
    BY <1>1, <1>3, <1>6, <2>2, <2>3, <2>4, <2>5
  <2>7. ~(y < stop - 1)
    <3>1. y < stop - 1 => y + 1 \in start .. stop - 1 /\ y # Len(s)
      BY <1>1, <1>3, <1>6, <2>2, <2>6
    <3> QED BY <1>4, <2>2, <3>1
  <2>8. ~(y > stop - 1)
    <3>1. y > stop - 1 => stop \in x .. y /\ stop # End(s)
      BY <1>1, <1>3, <1>6, <2>2, <2>6
    <3> QED BY <1>4, <2>2, <3>1
  <2>9. y = stop - 1
    BY <1>1, <1>3, <1>6, <2>2, <2>7, <2>8
  <2> QED BY <2>2, <2>6, <2>9
<1> QED BY <1>6, <1>7, <1>8, <1>9

\* The word the scan finds from p on, as the positions of its first character
\* and of what is behind it.
NextStart(s, p) == SkipDelimiters(s, p)
NextStop(s, p) == SkipWord(s, NextStart(s, p))
NextPair(s, p) == <<NextStart(s, p), NextStop(s, p) - 1>>

\* The next word is one more.
LEMMA OneMoreWord ==
  ASSUME NEW s, IsString(s), NEW p, Boundary(s, p), NextStart(s, p) # End(s)
  PROVE  /\ Cardinality(WordsFrom(s, p)) = Cardinality(WordsFrom(s, NextStop(s, p))) + 1
         /\ WordsBefore(s, NextStop(s, p)) = WordsBefore(s, p) \cup {NextPair(s, p)}
         /\ Cardinality(WordsBefore(s, NextStop(s, p))) = Cardinality(WordsBefore(s, p)) + 1
         /\ Nth(NextPair(s, p), s) = Cardinality(WordsBefore(s, p)) + 1
<1>0. PICK start, stop : start = NextStart(s, p) /\ stop = NextStop(s, p)
  OBVIOUS
<1>1. /\ start \in p .. Len(s) /\ stop \in start + 1 .. End(s)
      /\ <<start, stop - 1>> \in WordsOf(s)
      /\ \A v \in WordsOf(s) : v[1] >= p => v = <<start, stop - 1>> \/ v[1] >= stop
  BY <1>0, NextWord DEF NextStart, NextStop
<1>2. Len(s) \in Nat /\ p \in Nat /\ start \in Nat /\ stop \in Nat /\ p <= start /\ start < stop
  BY <1>1 DEF IsString, Boundary
<1> DEFINE w == <<start, stop - 1>>
<1>3. w[1] = start /\ w \in WordsOf(s)
  BY <1>1
<1> HIDE DEF w
<1>4. \A v \in WordsOf(s) : v[1] \in Nat /\ (v[1] >= p => v = w \/ v[1] >= stop)
  BY <1>1, WordsAre DEF w
<1>5. WordsFrom(s, p) = WordsFrom(s, stop) \cup {w}
  BY <1>2, <1>3, <1>4 DEF WordsFrom
<1>6. w \notin WordsFrom(s, stop) /\ w \notin WordsBefore(s, p)
  BY <1>2, <1>3 DEF WordsFrom, WordsBefore
<1>7. WordsBefore(s, stop) = WordsBefore(s, p) \cup {w}
  BY <1>2, <1>3, <1>4 DEF WordsBefore
<1>8. IsFiniteSet(WordsFrom(s, stop)) /\ IsFiniteSet(WordsBefore(s, p))
  BY WordsFinite DEF WordsFrom, WordsBefore
<1>9. /\ Cardinality(WordsFrom(s, p)) = Cardinality(WordsFrom(s, stop)) + 1
      /\ Cardinality(WordsBefore(s, stop)) = Cardinality(WordsBefore(s, p)) + 1
  <2> \A W : IsFiniteSet(W) /\ w \notin W => Cardinality(W \cup {w}) = Cardinality(W) + 1
    BY FS_AddElement
  <2> QED BY <1>5, <1>6, <1>7, <1>8, Zenon
<1>10. {v \in WordsOf(s) : v[1] <= w[1]} = WordsBefore(s, stop)
  BY <1>2, <1>3, <1>4 DEF WordsBefore
<1>11. Nth(w, s) = Cardinality(WordsBefore(s, p)) + 1
  BY <1>9, <1>10 DEF Nth
<1> QED BY <1>0, <1>7, <1>9, <1>11 DEF w, NextPair

LEMMA NoMoreWords ==
  ASSUME NEW s, IsString(s), NEW p, Boundary(s, p), SkipDelimiters(s, p) = End(s)
  PROVE  WordsFrom(s, p) = {} /\ WordsBefore(s, p) = WordsOf(s)
<1>1. Len(s) \in Nat /\ End(s) = Len(s) + 1 /\ p \in 1 .. End(s)
  BY DEF IsString, End, Boundary
<1>2. \A q \in p .. End(s) - 1 : s[q] = "d"
  BY <1>1, SkipsDelimiters
<1>3. ASSUME NEW v \in WordsOf(s) PROVE v[1] \in Nat /\ ~(v[1] >= p)
  <2>1. v \in (1 .. Len(s)) \X (1 .. Len(s)) /\ IsWord(s, v)
    BY WordsAre
  <2>2. v[1] \in 1 .. Len(s) /\ v[2] \in 1 .. Len(s) /\ v[1] \in v[1] .. v[2]
    BY <1>1, <2>1 DEF IsWord
  <2>3. s[v[1]] # "d"
    BY <2>1, <2>2 DEF IsWord
  <2>4. v[1] \notin p .. End(s) - 1
    BY <1>2, <2>3
  <2> QED BY <1>1, <2>2, <2>4
<1> QED BY <1>1, <1>3 DEF WordsFrom, WordsBefore

\* The recursive function in CountWords counts the words from a boundary on.
CountFrom(s, n) ==
  [p \in 1 .. End(s) |->
     LET start == SkipDelimiters(s, p)
     IN  IF start = End(s) THEN 0 ELSE 1 + n[SkipWord(s, start)]]
Counting(s) == CHOOSE n : n = CountFrom(s, n)

\* Such a function exists: it is this one.
WordCount(s) ==
  [p \in 1 .. End(s) |->
     LET start == SkipDelimiters(s, p)
     IN  IF start = End(s) THEN 0 ELSE 1 + Cardinality(WordsFrom(s, SkipWord(s, start)))]

LEMMA WordCountIs ==
  ASSUME NEW s, IsString(s), NEW p, Boundary(s, p)
  PROVE  WordCount(s)[p] = Cardinality(WordsFrom(s, p))
<1>1. PICK start : start = NextStart(s, p)
  OBVIOUS
<1>2. PICK stop : stop = NextStop(s, p)
  OBVIOUS
<1>3. p \in 1 .. End(s)
  BY DEF Boundary
<1>4. WordCount(s)[p] = IF start = End(s) THEN 0 ELSE 1 + Cardinality(WordsFrom(s, stop))
  BY <1>1, <1>2, <1>3 DEF WordCount, NextStart, NextStop
<1>5. CASE start = End(s)
  <2>1. WordsFrom(s, p) = {}
    BY <1>1, <1>5, NoMoreWords DEF NextStart
  <2> QED BY <1>4, <1>5, <2>1, FS_EmptySet
<1>6. CASE start # End(s)
  <2>1. Cardinality(WordsFrom(s, p)) = Cardinality(WordsFrom(s, stop)) + 1
    BY <1>1, <1>2, <1>6, OneMoreWord
  <2>2. Cardinality(WordsFrom(s, stop)) \in Nat
    BY WordsFinite DEF WordsFrom
  <2> QED BY <1>4, <1>6, <2>1, <2>2
<1> QED BY <1>5, <1>6

\* Where the scan goes on is a boundary, behind where it was.
LEMMA SkipsAhead ==
  ASSUME NEW s, IsString(s), NEW p \in 1 .. End(s),
         NEW start, start = SkipDelimiters(s, p), start # End(s)
  PROVE  Boundary(s, SkipWord(s, start)) /\ SkipWord(s, start) > p
<1>1. End(s) \in Nat
  BY DEF IsString, End
<1>2. start \in p .. End(s) /\ s[start] # "d" /\ start \in 1 .. End(s)
  BY <1>1, SkipsDelimiters
<1> DEFINE stop == SkipWord(s, start)
<1>3. stop \in start .. End(s) /\ (stop = End(s) \/ s[stop] = "d")
  BY <1>2, SkipsWord
<1> HIDE DEF stop
<1>4. stop # start
  BY <1>2, <1>3
<1>5. Boundary(s, stop) /\ stop > p
  BY <1>1, <1>2, <1>3, <1>4 DEF Boundary
<1> QED BY <1>5 DEF stop

LEMMA CountingIs ==
  ASSUME NEW s, IsString(s), NEW n, n = CountFrom(s, n)
  PROVE  n = WordCount(s)
<1> DEFINE f == WordCount(s)
           E == End(s)
           Wrong == {m \in Nat : E - m \in 1 .. E /\ n[E - m] # f[E - m]}
<1>1. E \in Nat
  BY DEF IsString, End
<1>2. DOMAIN n = 1 .. E /\ DOMAIN f = 1 .. E
  BY DEF CountFrom, WordCount
<1>3. Wrong = {}
  <2> SUFFICES ASSUME Wrong # {} PROVE FALSE
    OBVIOUS
  <2>1. Wrong \in SUBSET Nat
    OBVIOUS
  <2>2. Min(Wrong) \in Wrong /\ \A m \in Wrong : Min(Wrong) <= m
    BY <2>1, MinOfNaturals
  <2> DEFINE least == Min(Wrong)
             p == E - least
  <2>3. least \in Nat /\ p \in 1 .. E /\ n[p] # f[p] /\ \A m \in Wrong : least <= m
    BY <2>2
  <2> HIDE DEF least, p, Wrong
  <2> DEFINE start == SkipDelimiters(s, p)
             stop == SkipWord(s, start)
  <2>4. n[p] = IF start = E THEN 0 ELSE 1 + n[stop]
    BY <2>3 DEF CountFrom
  <2>5. f[p] = IF start = E THEN 0 ELSE 1 + Cardinality(WordsFrom(s, stop))
    BY <2>3 DEF WordCount
  <2>6. start # E
    BY <2>3, <2>4, <2>5
  <2> HIDE DEF start, stop, f
  <2>7. Boundary(s, stop) /\ stop > p
    BY <2>3, <2>6, SkipsAhead DEF start, stop
  <2>8. f[stop] = Cardinality(WordsFrom(s, stop))
    BY <2>7, WordCountIs DEF f
  <2>9. stop \in 1 .. E
    BY <2>7 DEF Boundary
  <2>10. E - (E - stop) = stop /\ E - stop \in Nat /\ E - stop < least
    BY <1>1, <2>3, <2>7, <2>9 DEF p
  <2>11. n[stop] = f[stop]
    BY <2>3, <2>9, <2>10 DEF Wrong
  <2> QED BY <2>3, <2>4, <2>5, <2>6, <2>8, <2>11
<1>4. ASSUME NEW p \in 1 .. E PROVE n[p] = f[p]
  <2>1. E - p \in Nat /\ E - (E - p) = p
    BY <1>1
  <2> QED BY <1>3, <2>1
<1>5. n = [p \in 1 .. E |-> n[p]] /\ f = [p \in 1 .. E |-> f[p]]
  BY DEF CountFrom, WordCount
<1> QED BY <1>4, <1>5

LEMMA CountWordsIs ==
  ASSUME NEW s, IsString(s)
  PROVE  CountWords(s) = Cardinality(WordsOf(s))
<1> DEFINE f == WordCount(s)
<1>1. f = CountFrom(s, f)
  <2>1. ASSUME NEW p \in 1 .. End(s), SkipDelimiters(s, p) # End(s)
        PROVE  f[SkipWord(s, SkipDelimiters(s, p))]
                 = Cardinality(WordsFrom(s, SkipWord(s, SkipDelimiters(s, p))))
    BY <2>1, SkipsAhead, WordCountIs
  <2> QED BY <2>1 DEF CountFrom, WordCount
<1>2. Counting(s) = CountFrom(s, Counting(s))
  BY <1>1 DEF Counting
<1>3. Counting(s) = f
  BY <1>2, CountingIs
<1>4. CountWords(s) = Counting(s)[1]
  BY DEF CountWords, Counting, CountFrom
<1>5. Boundary(s, 1)
  BY DEF Boundary, IsString, End
<1>6. WordsFrom(s, 1) = WordsOf(s)
  <2>1. \A v \in WordsOf(s) : v[1] >= 1
    BY WordsAre
  <2> QED BY <2>1 DEF WordsFrom
<1> QED BY <1>3, <1>4, <1>5, <1>6, WordCountIs

-----------------------------------------------------------------------------
(* What a call of splitString holds *)

LEMMA KmallocDoes ==
  ASSUME TypeOK, NEW c \in Clients, NEW n \in Sizes, kmalloc(c, n)
  PROVE  /\ live[c] = None /\ used_blocks \in Nat
         /\ handedWhole => handedWhole'
         /\ \/ live' = live /\ used_blocks' = used_blocks
            \/ \E b : /\ live' = [live EXCEPT ![c] = [ptr |-> b, size |-> n]]
                      /\ live'[c] = [ptr |-> b, size |-> n] /\ live'[c] # None
                      /\ used_blocks' = used_blocks + 1
<1>1. live[c] = None /\ c \in DOMAIN live /\ n # 0 /\ used_blocks \in Nat
  BY HeapAssumption DEF HeapAssumption, TypeOK, kmalloc, KmallocFit, KmallocExpand,
     KmallocGrowsAndFails, KmallocOutOfMemory, MayCall
<1>2. CASE KmallocFit(c, n) \/ KmallocExpand(c, n)
  <2>1. PICK b : /\ live' = [live EXCEPT ![c] = [ptr |-> b, size |-> n]]
                 /\ used_blocks' = used_blocks + 1
                 /\ handedWhole => handedWhole'
    BY <1>2 DEF KmallocFit, KmallocExpand, Take
  <2>2. live'[c] = [ptr |-> b, size |-> n] /\ live'[c] # None
    BY <1>1, <2>1 DEF None
  <2> QED BY <1>1, <2>1, <2>2
<1>3. CASE KmallocGrowsAndFails(c, n) \/ KmallocOutOfMemory(c, n)
  <2>1. UNCHANGED <<live, used_blocks, handedWhole>>
    BY <1>3 DEF KmallocGrowsAndFails, KmallocOutOfMemory, vars
  <2> QED BY <1>1, <2>1
<1> QED BY <1>2, <1>3 DEF kmalloc

LEMMA KmfreeDoes ==
  ASSUME TypeOK, NEW c \in Clients, kmfree(c)
  PROVE  /\ live[c] # None /\ live' = [live EXCEPT ![c] = None]
         /\ handedWhole' = handedWhole
         /\ used_blocks \in Nat
         /\ ExclusiveUntilHandedWhole /\ ~handedWhole => used_blocks' = used_blocks - 1
<1>1. live[c] # None /\ used_blocks \in Nat
  BY DEF TypeOK, kmfree, KmfreeMarked, KmfreeRejected, Holds
<1>2. CASE KmfreeMarked(c)
  BY <1>1, <1>2 DEF KmfreeMarked
<1>3. CASE KmfreeRejected(c)
  <2>1. ~(ExclusiveUntilHandedWhole /\ ~handedWhole)
    BY <1>1, <1>3 DEF KmfreeRejected, ExclusiveUntilHandedWhole, ExclusiveBlocks, Owns
  <2> QED BY <1>1, <1>3, <2>1 DEF KmfreeRejected
<1> QED BY <1>2, <1>3 DEF kmfree

ScanInv ==
  /\ IsString(str) /\ Boundary(str, ptr)
  /\ pc = "array" => ptr = 1 /\ index = 0 /\ j = 0
  /\ pc = "words" => j = 0 /\ index = Cardinality(WordsBefore(str, ptr))

\* The clients of a call that hold nothing.
FreeAbove(n) == \A c \in Clients \ {Other} : c > n => live[c] = None

LiveInv ==
  /\ pc \in {"idle", "array"} => Freed
  /\ pc = "words" => FreeAbove(index)
  /\ pc = "unwind" => j <= index /\ FreeAbove(index) /\ \A c \in 1 .. j : live[c] = None
  /\ pc = "returned" => count \in Nat /\ FreeAbove(count)

StoredInv ==
  pc = "words" =>
    \A w \in WordsBefore(str, ptr) :
      Nth(w, str) \in 1 .. index /\ live[Nth(w, str)].size = Bytes(w[2] - w[1] + 1)

UsedInv ==
  ~handedWhole =>
    /\ pc = "array" => used_blocks = before
    /\ pc = "words" => used_blocks = before + 1 + index
    /\ pc = "unwind" => used_blocks = before + 1 + index - j

States == pc \in {"idle", "array", "words", "unwind", "returned"} /\ before \in Nat

CallInv == WordsInRange /\ States /\ ScanInv /\ LiveInv /\ StoredInv /\ UsedInv

LEMMA NoWordsBefore ==
  ASSUME NEW s, IsString(s)
  PROVE  Boundary(s, 1) /\ WordsBefore(s, 1) = {} /\ Cardinality(WordsBefore(s, 1)) = 0
<1>1. Boundary(s, 1)
  BY DEF Boundary, IsString, End
<1>2. \A v \in WordsOf(s) : v[1] \in Nat /\ v[1] >= 1
  BY WordsAre
<1>3. WordsBefore(s, 1) = {}
  BY <1>2 DEF WordsBefore
<1> QED BY <1>1, <1>3, FS_EmptySet

LEMMA InitCall == SplitInit => CallInv
<1> SUFFICES ASSUME SplitInit PROVE CallInv
  OBVIOUS
<1>1. IsString(<<>>) /\ Boundary(<<>>, 1)
  <2>1. IsString(<<>>)
    BY DEF IsString
  <2> QED BY <2>1, NoWordsBefore
<1>2. \A c \in Clients : live[c] = None
  BY DEF SplitInit, Init
<1> QED BY <1>1, <1>2, InitWords DEF SplitInit, CallInv, States, ScanInv, LiveInv, StoredInv, UsedInv, Freed

LEMMA CallStep ==
  ASSUME CallInv, TypeOK, NEW s \in Strings, Call(s)
  PROVE  CallInv'
<1>1. IsString(s) /\ Boundary(s, 1)
  BY SplitAssumption, NoWordsBefore DEF IsString
<1>2. used_blocks \in Nat
  BY DEF TypeOK
<1>3. WordsInRange'
  BY SplitAssumption DEF Call, WordsInRange
<1> QED BY <1>1, <1>2, <1>3 DEF Call, vars, CallInv, States, ScanInv, LiveInv, StoredInv, UsedInv, Freed

LEMMA NoWordsStep ==
  ASSUME CallInv, NoWords
  PROVE  CallInv'
<1> USE DEF NoWords, scan, vars
<1>1. WordsInRange' /\ States'
  BY DEF CallInv, States, WordsInRange
<1>2. ScanInv' /\ StoredInv' /\ UsedInv'
  BY DEF CallInv, ScanInv, StoredInv, UsedInv
<1>3. LiveInv'
  BY DEF CallInv, LiveInv, Freed
<1> QED BY <1>1, <1>2, <1>3 DEF CallInv

LEMMA AllocArrayStep ==
  ASSUME CallInv, TypeOK, AllocArray
  PROVE  CallInv'
<1>1. /\ pc = "array" /\ UNCHANGED <<scan, before>>
      /\ kmalloc(Array, Pointers(CountWords(str))) /\ Pointers(CountWords(str)) \in Sizes
      /\ pc' = IF live'[Array] = None THEN "idle" ELSE "words"
  BY DEF AllocArray, malloc
<1>2. Array \in Clients /\ Array # Other /\ Array = 0
  BY SplitAssumption DEF SplitAssumption, Array, Other
<1> DEFINE n == Pointers(CountWords(str))
<1> HIDE DEF n
<1>3. n \in Sizes /\ kmalloc(Array, n)
  BY <1>1 DEF n
<1>4. /\ live[Array] = None
      /\ handedWhole => handedWhole'
      /\ \/ live' = live /\ used_blocks' = used_blocks
         \/ \E b : /\ live' = [live EXCEPT ![Array] = [ptr |-> b, size |-> n]]
                   /\ live'[Array] = [ptr |-> b, size |-> n] /\ live'[Array] # None
                   /\ used_blocks' = used_blocks + 1
  BY <1>2, <1>3, KmallocDoes
<1>5. index = 0 /\ j = 0 /\ ptr = 1 /\ IsString(str) /\ Freed
  BY <1>1 DEF CallInv, ScanInv, LiveInv
<1>6. WordsInRange' /\ States'
  BY <1>1 DEF CallInv, WordsInRange, States, scan
<1>7. ScanInv' /\ StoredInv'
  <2>1. Boundary(str, 1) /\ WordsBefore(str, 1) = {} /\ Cardinality(WordsBefore(str, 1)) = 0
    BY <1>5, NoWordsBefore
  <2> QED BY <1>1, <1>5, <2>1 DEF CallInv, ScanInv, StoredInv, scan
<1>8. LiveInv'
  <2>1. \A c \in Clients \ {Other} : c > 0 => live'[c] = None
    <3>1. \A c \in Clients : c # Array => live'[c] = live[c]
      BY <1>4 DEF TypeOK
    <3> QED BY <1>2, <1>5, <3>1 DEF Freed
  <2>2. live'[Array] = None => \A c \in Clients \ {Other} : live'[c] = None
    BY <1>4, <1>5 DEF Freed
  <2> QED BY <1>1, <1>5, <2>1, <2>2 DEF LiveInv, FreeAbove, Freed, scan
<1>9. UsedInv'
  <2>1. before \in Nat
    BY DEF CallInv, States
  <2>2. live'[Array] # None => used_blocks' = used_blocks + 1
    BY <1>4
  <2> QED BY <1>1, <1>4, <1>5, <2>1, <2>2 DEF CallInv, UsedInv, scan
<1> QED BY <1>6, <1>7, <1>8, <1>9 DEF CallInv

LEMMA AllocWordStep ==
  ASSUME CallInv, TypeOK, AllocWord
  PROVE  CallInv'
<1> DEFINE c == index + 1
           start == NextStart(str, ptr)
           stop == NextStop(str, ptr)
           n == Bytes(stop - start)
           W == WordsBefore(str, ptr)
<1>1. /\ pc = "words" /\ start # End(str)
      /\ c <= MaxWords /\ n \in Sizes /\ kmalloc(c, n)
      /\ IF live'[c] = None THEN pc' = "unwind" /\ index' = index
                            ELSE pc' = "words" /\ index' = c
      /\ ptr' = stop
      /\ UNCHANGED <<str, j, count, before>>
  BY DEF AllocWord, malloc, WordStart, NextStart, NextStop
<1>2. index \in 0 .. MaxWords /\ MaxWords \in Nat /\ j = 0 /\ before \in Nat
  BY <1>1, SplitAssumption DEF SplitAssumption, CallInv, WordsInRange, ScanInv, States
<1>3. c \in Clients /\ c # Other /\ c \in Nat /\ c > index
  BY <1>1, <1>2, SplitAssumption DEF SplitAssumption, Other
<1>4. IsString(str) /\ Boundary(str, ptr) /\ index = Cardinality(W)
  BY <1>1 DEF CallInv, ScanInv
<1>5. /\ WordsBefore(str, stop) = W \cup {NextPair(str, ptr)}
      /\ Cardinality(WordsBefore(str, stop)) = c
      /\ Nth(NextPair(str, ptr), str) = c
  BY <1>1, <1>4, OneMoreWord
<1>6. Boundary(str, stop)
  <2>1. ptr \in 1 .. End(str)
    BY <1>4 DEF Boundary
  <2> QED BY <1>1, <1>4, <2>1, SkipsAhead DEF NextStart, NextStop
<1>7. NextPair(str, ptr)[2] - NextPair(str, ptr)[1] + 1 = stop - start
  <2>1. stop \in Int /\ start \in Int
    <3>1. ptr \in 1 .. End(str) /\ End(str) \in Nat
      BY <1>4 DEF Boundary, End, IsString
    <3>2. start \in ptr .. End(str)
      BY <1>4, <3>1, SkipsDelimiters DEF NextStart
    <3> QED BY <1>6, <3>1, <3>2 DEF Boundary
  <2> HIDE DEF start, stop
  <2>2. NextPair(str, ptr) = <<start, stop - 1>>
    BY DEF NextPair, start, stop
  <2> QED BY <2>1, <2>2
<1> HIDE DEF start, stop, c
<1>8. /\ live[c] = None
      /\ handedWhole => handedWhole'
      /\ \/ live' = live /\ used_blocks' = used_blocks
         \/ \E b : /\ live' = [live EXCEPT ![c] = [ptr |-> b, size |-> n]]
                   /\ live'[c] = [ptr |-> b, size |-> n] /\ live'[c] # None
                   /\ used_blocks' = used_blocks + 1
  BY <1>1, <1>3, KmallocDoes
<1> HIDE DEF n
<1>9. \A d \in Clients : d # c => live'[d] = live[d]
  BY <1>8 DEF TypeOK
<1>10. FreeAbove(index) /\ (\A w \in W : /\ Nth(w, str) \in 1 .. index
                                         /\ live[Nth(w, str)].size = Bytes(w[2] - w[1] + 1))
  BY <1>1 DEF CallInv, LiveInv, StoredInv
<1>11. WordsInRange' /\ States'
  <2>1. c \in 0 .. MaxWords
    BY <1>1, <1>2, <1>3
  <2> QED BY <1>1, <1>2, <2>1 DEF CallInv, WordsInRange, States
<1>12. ScanInv'
  BY <1>1, <1>2, <1>4, <1>5, <1>6 DEF ScanInv
<1>13. CASE live'[c] = None
  <2>1. pc' = "unwind" /\ index' = index /\ live' = live /\ used_blocks' = used_blocks
    BY <1>1, <1>8, <1>13
  <2>2. LiveInv'
    BY <1>1, <1>2, <1>10, <2>1 DEF LiveInv, FreeAbove
  <2>3. UsedInv'
    BY <1>1, <1>2, <1>8, <2>1 DEF CallInv, UsedInv
  <2>4. StoredInv'
    BY <2>1 DEF StoredInv
  <2> QED BY <1>11, <1>12, <2>2, <2>3, <2>4 DEF CallInv
<1>14. CASE live'[c] # None
  <2>1. pc' = "words" /\ index' = c /\ used_blocks' = used_blocks + 1 /\ live'[c].size = n
    <3>1. PICK b : live'[c] = [ptr |-> b, size |-> n] /\ used_blocks' = used_blocks + 1
      BY <1>8, <1>14
    <3> QED BY <1>1, <1>14, <3>1
  <2>2. LiveInv'
    <3>1. \A d \in Clients \ {Other} : d > c => d > index /\ d # c
      BY <1>2, <1>3, SplitAssumption DEF SplitAssumption
    <3>2. \A d \in Clients \ {Other} : d > c => live'[d] = None
      BY <1>9, <1>10, <3>1 DEF FreeAbove
    <3> QED BY <2>1, <3>2 DEF LiveInv, FreeAbove
  <2>3. UsedInv'
    BY <1>1, <1>2, <1>8, <2>1 DEF CallInv, UsedInv, c
  <2>4. StoredInv'
    <3>1. ASSUME NEW w \in W
          PROVE  Nth(w, str) \in 1 .. c /\ live'[Nth(w, str)].size = Bytes(w[2] - w[1] + 1)
      <4>1. Nth(w, str) \in 1 .. index /\ live[Nth(w, str)].size = Bytes(w[2] - w[1] + 1)
        BY <1>10
      <4>2. Nth(w, str) \in Clients /\ Nth(w, str) # c /\ Nth(w, str) \in 1 .. c
        BY <1>2, <1>3, <4>1, SplitAssumption DEF SplitAssumption, c
      <4> QED BY <1>9, <4>1, <4>2
    <3>2. c \in 1 .. c
      BY <1>2, <1>3
    <3> DEFINE v == NextPair(str, ptr)
    <3> HIDE DEF v
    <3>3. Nth(v, str) \in 1 .. c /\ live'[Nth(v, str)].size = Bytes(v[2] - v[1] + 1)
      BY <1>5, <1>7, <2>1, <3>2 DEF v, n
    <3>4. WordsBefore(str, stop) = W \cup {v}
      BY <1>5 DEF v
    <3> HIDE DEF W
    <3>5. \A w \in WordsBefore(str, stop) :
             Nth(w, str) \in 1 .. c /\ live'[Nth(w, str)].size = Bytes(w[2] - w[1] + 1)
      BY <3>1, <3>3, <3>4
    <3> QED BY <1>1, <2>1, <3>5 DEF StoredInv
  <2> QED BY <1>11, <1>12, <2>2, <2>3, <2>4 DEF CallInv
<1> QED BY <1>13, <1>14

LEMMA ReturnResultStep ==
  ASSUME CallInv, ReturnResult
  PROVE  /\ CallInv'
         /\ count' = Cardinality(WordsOf(str))
         /\ \A w \in WordsOf(str) : live[Nth(w, str)].size = Bytes(w[2] - w[1] + 1)
<1>1. /\ pc = "words" /\ WordStart = End(str) /\ count' = CountWords(str) /\ pc' = "returned"
      /\ UNCHANGED <<vars, str, ptr, index, j, before>>
  BY DEF ReturnResult
<1>2. IsString(str) /\ Boundary(str, ptr) /\ index = Cardinality(WordsBefore(str, ptr)) /\ index \in Nat
  BY <1>1 DEF CallInv, ScanInv, WordsInRange
<1>3. WordsBefore(str, ptr) = WordsOf(str)
  BY <1>1, <1>2, NoMoreWords DEF WordStart
<1>4. count' = Cardinality(WordsOf(str)) /\ count' = index
  BY <1>1, <1>2, <1>3, CountWordsIs
<1>5. \A w \in WordsOf(str) : live[Nth(w, str)].size = Bytes(w[2] - w[1] + 1)
  BY <1>1, <1>3 DEF CallInv, StoredInv
<1>6. FreeAbove(index)
  BY <1>1 DEF CallInv, LiveInv
<1>7. WordsInRange' /\ States' /\ ScanInv' /\ StoredInv' /\ UsedInv'
  BY <1>1 DEF CallInv, WordsInRange, States, ScanInv, StoredInv, UsedInv
<1>8. LiveInv'
  BY <1>1, <1>2, <1>4, <1>6 DEF LiveInv, FreeAbove, vars
<1> QED BY <1>4, <1>5, <1>7, <1>8 DEF CallInv

HeapSound == TypeOK /\ ExclusiveUntilHandedWhole

LEMMA UnwindWordStep ==
  ASSUME CallInv, HeapSound, UnwindWord
  PROVE  CallInv'
<1> DEFINE c == j + 1
<1>1. /\ pc = "unwind" /\ j < index /\ kmfree(c) /\ j' = c
      /\ UNCHANGED <<pc, str, ptr, index, count, before>>
  BY DEF UnwindWord
<1>2. index \in 0 .. MaxWords /\ MaxWords \in Nat /\ j \in Nat /\ before \in Nat
  BY SplitAssumption DEF SplitAssumption, CallInv, WordsInRange, States
<1>3. c \in Clients /\ c \in Nat /\ c <= index
  BY <1>1, <1>2, SplitAssumption DEF SplitAssumption
<1>4. FreeAbove(index) /\ \A d \in 1 .. j : live[d] = None
  BY <1>1 DEF CallInv, LiveInv
<1>5. \A d \in 1 .. c : d = c \/ d \in 1 .. j
  BY <1>2
<1>6. 1 .. c \subseteq Clients
  BY <1>2, <1>3, SplitAssumption DEF SplitAssumption
<1>7. WordsInRange' /\ States' /\ ScanInv' /\ StoredInv'
  BY <1>1, <1>3 DEF CallInv, WordsInRange, States, ScanInv, StoredInv
<1>8. UsedInv /\ c = j + 1
  BY DEF CallInv
<1> HIDE DEF c
<1>9. /\ live' = [live EXCEPT ![c] = None]
      /\ handedWhole' = handedWhole
      /\ used_blocks \in Nat
      /\ ~handedWhole => used_blocks' = used_blocks - 1
  BY <1>1, <1>3, KmfreeDoes DEF HeapSound
<1>10. \A d \in Clients : live'[d] = IF d = c THEN None ELSE live[d]
  BY <1>9 DEF HeapSound, TypeOK
<1>11. LiveInv'
  <2>1. \A d \in Clients \ {Other} : d > index => live'[d] = None
    BY <1>4, <1>10 DEF FreeAbove
  <2>2. \A d \in 1 .. c : live'[d] = None
    BY <1>4, <1>5, <1>6, <1>10
  <2> QED BY <1>1, <1>3, <2>1, <2>2 DEF LiveInv, FreeAbove
<1>12. UsedInv'
  BY <1>1, <1>2, <1>8, <1>9 DEF UsedInv
<1> QED BY <1>7, <1>11, <1>12 DEF CallInv

\* Once the last word is freed, so is the array, and nothing is left.
LEMMA UnwindArrayStep ==
  ASSUME CallInv, HeapSound, UnwindArray
  PROVE  CallInv' /\ Freed' /\ (handedWhole' \/ used_blocks' = before)
<1>1. /\ pc = "unwind" /\ j = index /\ kmfree(Array) /\ pc' = "idle"
      /\ UNCHANGED <<scan, before>>
  BY DEF UnwindArray
<1>2. index \in 0 .. MaxWords /\ MaxWords \in Nat /\ before \in Nat
  BY SplitAssumption DEF SplitAssumption, CallInv, WordsInRange, States
<1>3. Array \in Clients /\ Array = 0
  BY <1>2, SplitAssumption DEF SplitAssumption, Array
<1>4. /\ live' = [live EXCEPT ![Array] = None]
      /\ handedWhole' = handedWhole
      /\ used_blocks \in Nat
      /\ ~handedWhole => used_blocks' = used_blocks - 1
  BY <1>1, <1>3, KmfreeDoes DEF HeapSound
<1>5. \A d \in Clients : live'[d] = IF d = Array THEN None ELSE live[d]
  BY <1>4 DEF HeapSound, TypeOK
<1>6. FreeAbove(index) /\ \A d \in 1 .. index : live[d] = None
  BY <1>1 DEF CallInv, LiveInv
<1>7. \A d \in Clients : d = Array \/ d \in 1 .. index \/ d > index
  BY <1>2, <1>3, SplitAssumption DEF SplitAssumption
<1>8. Freed'
  BY <1>5, <1>6, <1>7 DEF Freed, FreeAbove
<1>9. WordsInRange' /\ States' /\ ScanInv' /\ StoredInv' /\ UsedInv'
  BY <1>1 DEF CallInv, WordsInRange, States, ScanInv, StoredInv, UsedInv, scan
<1>10. LiveInv'
  BY <1>1, <1>8 DEF LiveInv
<1>11. handedWhole' \/ used_blocks' = before
  <2>1. ~handedWhole => used_blocks = before + 1 + index - index
    BY <1>1 DEF CallInv, UsedInv
  <2> QED BY <1>2, <1>4, <2>1
<1> QED BY <1>8, <1>9, <1>10, <1>11 DEF CallInv

LEMMA ProgramStep ==
  ASSUME CallInv, TypeOK, ReleaseWord \/ ReleaseArray \/ UseHeap
  PROVE  CallInv'
<1>1. UNCHANGED <<scan, before>> /\ pc \in {"idle", "returned"} /\ pc' \in {"idle", "returned"}
  BY DEF ReleaseWord, ReleaseArray, UseHeap
<1>2. WordsInRange' /\ States' /\ ScanInv' /\ StoredInv' /\ UsedInv'
  BY <1>1 DEF CallInv, WordsInRange, States, ScanInv, StoredInv, UsedInv, scan
<1>3. MaxWords \in Nat /\ Clients = 0 .. MaxWords + 1
  BY SplitAssumption DEF SplitAssumption
<1>4. LiveInv /\ count' = count
  BY <1>1 DEF CallInv, scan
<1>5. CASE ReleaseWord
  <2>1. pc = "returned" /\ pc' = "returned" /\ count \in Nat /\ FreeAbove(count)
    BY <1>4, <1>5 DEF ReleaseWord, LiveInv
  <2>2. PICK i \in 1 .. MaxWords : kmfree(i)
    BY <1>5 DEF ReleaseWord
  <2>3. i \in Clients
    BY <1>3
  <2>4. live' = [live EXCEPT ![i] = None]
    BY <2>2, <2>3, KmfreeDoes
  <2>5. \A d \in Clients \ {Other} : d > count => live'[d] = None
    BY <2>1, <2>4 DEF FreeAbove, TypeOK
  <2>6. LiveInv'
    BY <1>4, <2>1, <2>5 DEF LiveInv, FreeAbove
  <2> QED BY <1>2, <2>6 DEF CallInv
<1>6. CASE ReleaseArray
  <2>1. /\ pc = "returned" /\ pc' = "idle" /\ count \in Nat /\ FreeAbove(count)
        /\ \A i \in 1 .. count : live[i] = None
        /\ kmfree(Array)
    BY <1>4, <1>6 DEF ReleaseArray, LiveInv
  <2>2. Array \in Clients /\ Array = 0
    BY <1>3 DEF Array
  <2>3. live' = [live EXCEPT ![Array] = None]
    BY <2>1, <2>2, KmfreeDoes
  <2>4. \A d \in Clients : live'[d] = IF d = Array THEN None ELSE live[d]
    BY <2>3 DEF TypeOK
  <2>5. \A d \in Clients : d = Array \/ d \in 1 .. count \/ d > count
    BY <1>3, <2>1, <2>2
  <2>6. Freed'
    BY <2>1, <2>4, <2>5 DEF Freed, FreeAbove
  <2>7. LiveInv'
    BY <2>1, <2>6 DEF LiveInv
  <2> QED BY <1>2, <2>7 DEF CallInv
<1>7. CASE UseHeap
  <2>1. pc' = pc /\ Other \in Clients
    BY <1>3, <1>7 DEF UseHeap, Other
  <2>2. \A d \in Clients \ {Other} : live'[d] = live[d]
    <3>1. CASE kmfree(Other)
      <4>1. live' = [live EXCEPT ![Other] = None]
        BY <2>1, <3>1, KmfreeDoes
      <4> QED BY <4>1 DEF TypeOK
    <3>2. CASE \E n \in Sizes : kmalloc(Other, n)
      <4>1. PICK n \in Sizes : kmalloc(Other, n)
        BY <3>2
      <4>2. live' = live \/ \E b : live' = [live EXCEPT ![Other] = [ptr |-> b, size |-> n]]
        <5> \/ live' = live /\ used_blocks' = used_blocks
            \/ \E b : /\ live' = [live EXCEPT ![Other] = [ptr |-> b, size |-> n]]
                      /\ live'[Other] = [ptr |-> b, size |-> n] /\ live'[Other] # None
                      /\ used_blocks' = used_blocks + 1
          BY <2>1, <4>1, KmallocDoes
        <5> QED OBVIOUS
      <4> QED BY <4>2 DEF TypeOK
    <3> QED BY <1>7, <3>1, <3>2 DEF UseHeap
  <2>3. LiveInv'
    BY <1>1, <1>4, <2>1, <2>2 DEF LiveInv, FreeAbove, Freed
  <2> QED BY <1>2, <2>3 DEF CallInv
<1> QED BY <1>5, <1>6, <1>7

\* What one step of Split keeps and, where a call ends, promises.
LEMMA SplitStep ==
  ASSUME CallInv, HeapSound, [SplitNext]_splitVars
  PROVE  /\ CallInv'
         /\ pc # "returned" /\ pc' = "returned"
              => /\ count' = Cardinality(WordsOf(str))
                 /\ \A w \in WordsOf(str) : live[Nth(w, str)].size = Bytes(w[2] - w[1] + 1)
         /\ pc \in {"array", "unwind"} /\ pc' = "idle"
              => Freed' /\ (handedWhole' \/ used_blocks' = before)
<1> USE DEF HeapSound
<1>1. CASE UNCHANGED splitVars
  <2>1. UNCHANGED <<vars, scan, pc, before>>
    BY <1>1 DEF splitVars
  <2>2. CallInv'
    BY <2>1 DEF CallInv, WordsInRange, States, ScanInv, LiveInv, StoredInv, UsedInv, FreeAbove, Freed, scan, vars
  <2> QED BY <2>1, <2>2
<1>2. CASE \E s \in Strings : Call(s)
  BY <1>2, CallStep DEF Call
<1>3. CASE NoWords
  <2>1. Freed' /\ (handedWhole' \/ used_blocks' = before)
    BY <1>3 DEF NoWords, vars, CallInv, LiveInv, UsedInv, Freed
  <2> QED BY <1>3, <2>1, NoWordsStep DEF NoWords
<1>4. CASE AllocArray
  <2>1. CallInv' /\ pc = "array" /\ pc' # "returned"
    BY <1>4, AllocArrayStep DEF AllocArray
  <2>2. ASSUME pc' = "idle" PROVE Freed' /\ (handedWhole' \/ used_blocks' = before)
    <3>1. Freed'
      BY <2>1, <2>2 DEF CallInv, LiveInv
    <3>2. Array \in Clients /\ live'[Array] = None
      BY <1>4, <2>2, SplitAssumption DEF AllocArray, SplitAssumption, Array
    <3>3. PICK n \in Sizes : kmalloc(Array, n)
      BY <1>4 DEF AllocArray, malloc
    <3>4. used_blocks' = used_blocks /\ (handedWhole => handedWhole')
      BY <3>2, <3>3, KmallocDoes
    <3>5. handedWhole \/ used_blocks = before
      BY <2>1 DEF CallInv, UsedInv
    <3> QED BY <3>1, <3>4, <3>5
  <2> QED BY <2>1, <2>2
<1>5. CASE AllocWord
  <2>1. pc = "words" /\ pc' # "returned"
    BY <1>5 DEF AllocWord
  <2> QED BY <1>5, <2>1, AllocWordStep
<1>6. CASE ReturnResult
  BY <1>6, ReturnResultStep DEF ReturnResult
<1>7. CASE UnwindWord
  <2>1. pc = "unwind" /\ pc' = "unwind"
    BY <1>7 DEF UnwindWord
  <2> QED BY <1>7, <2>1, UnwindWordStep
<1>8. CASE UnwindArray
  BY <1>8, UnwindArrayStep DEF UnwindArray
<1>9. CASE ReleaseWord \/ ReleaseArray \/ UseHeap
  <2>1. pc \in {"idle", "returned"} /\ (pc' = "returned" => pc = "returned")
    BY <1>9 DEF ReleaseWord, ReleaseArray, UseHeap
  <2> QED BY <1>9, <2>1, ProgramStep
<1> QED BY <1>1, <1>2, <1>3, <1>4, <1>5, <1>6, <1>7, <1>8, <1>9 DEF SplitNext, splitString, split, Program

LEMMA SplitInvariants == SplitSpec => [](CallInv /\ HeapSound)
<1>1. SplitSpec => [](TypeOK /\ ExclusiveUntilHandedWhole)
  BY SplitUsesHeap, HeapTypes, HeapExclusive, PTL
<1>2. CallInv /\ HeapSound /\ [SplitNext]_splitVars => CallInv'
  BY SplitStep
<1> QED BY <1>1, <1>2, InitCall, PTL DEF SplitSpec, HeapSound

\* The array has an entry for every word that was counted.
ArrayInv ==
  /\ pc = "words" => live[Array].size = Pointers(CountWords(str))
  /\ pc = "returned" => live[Array].size = Pointers(index)

\* The array stays as it is.
LEMMA ArrayStays ==
  ASSUME ArrayInv, live'[Array] = live[Array], UNCHANGED <<str, index>>, pc' = pc
  PROVE  ArrayInv'
BY DEF ArrayInv

LEMMA ArrayStep ==
  ASSUME CallInv, HeapSound, ArrayInv, [SplitNext]_splitVars
  PROVE  ArrayInv'
<1> USE DEF HeapSound
<1>1. MaxWords \in Nat /\ Clients = 0 .. MaxWords + 1 /\ Array = 0 /\ Other = MaxWords + 1
  BY SplitAssumption DEF SplitAssumption, Array, Other
<1>2. Array \in Clients /\ Other \in Clients /\ Other # Array
  BY <1>1
<1>3. ASSUME NEW c \in Clients, c # Array, kmfree(c) PROVE live'[Array] = live[Array]
  <2>1. live' = [live EXCEPT ![c] = None]
    BY <1>3, KmfreeDoes
  <2> QED BY <1>2, <1>3, <2>1 DEF TypeOK
<1>4. ASSUME NEW c \in Clients, NEW n \in Sizes, c # Array, kmalloc(c, n)
      PROVE  live'[Array] = live[Array]
  <2>1. live' = live \/ \E b : live' = [live EXCEPT ![c] = [ptr |-> b, size |-> n]]
    <3> \/ live' = live /\ used_blocks' = used_blocks
        \/ \E b : /\ live' = [live EXCEPT ![c] = [ptr |-> b, size |-> n]]
                  /\ live'[c] = [ptr |-> b, size |-> n] /\ live'[c] # None
                  /\ used_blocks' = used_blocks + 1
      BY <1>4, KmallocDoes
    <3> QED OBVIOUS
  <2> QED BY <1>2, <1>4, <2>1 DEF TypeOK
<1>5. CASE UNCHANGED splitVars
  BY <1>5, ArrayStays DEF splitVars, scan, vars
<1>6. CASE pc' \notin {"words", "returned"}
  BY <1>6 DEF ArrayInv
<1>7. CASE AllocArray
  <2>1. PICK n \in Sizes : n = Pointers(CountWords(str)) /\ kmalloc(Array, n)
    BY <1>7 DEF AllocArray, malloc
  <2>2. pc' # "idle" => live'[Array] # None /\ pc' = "words"
    BY <1>7 DEF AllocArray
  <2>3. live'[Array] # None => live'[Array].size = n
    <3>1. /\ live[Array] = None
          /\ \/ live' = live /\ used_blocks' = used_blocks
             \/ \E b : /\ live' = [live EXCEPT ![Array] = [ptr |-> b, size |-> n]]
                       /\ live'[Array] = [ptr |-> b, size |-> n] /\ live'[Array] # None
                       /\ used_blocks' = used_blocks + 1
      BY <1>2, <2>1, KmallocDoes
    <3>2. ASSUME live'[Array] # None PROVE live'[Array].size = n
      <4>1. PICK b : live'[Array] = [ptr |-> b, size |-> n]
        BY <3>1, <3>2
      <4>2. [ptr |-> b, size |-> n].size = n
        OBVIOUS
      <4> QED BY <4>1, <4>2, Zenon
    <3> QED BY <3>2, Zenon
  <2>4. str' = str
    BY <1>7 DEF AllocArray, scan
  <2>5. pc' = "words" => live'[Array].size = Pointers(CountWords(str))
    BY <2>1, <2>2, <2>3
  <2>6. pc' # "returned"
    BY <1>7 DEF AllocArray
  <2> QED BY <2>4, <2>5, <2>6, Zenon DEF ArrayInv
<1>8. CASE AllocWord
  <2>1. PICK n \in Sizes : kmalloc(index + 1, n) /\ index + 1 <= MaxWords
    BY <1>8 DEF AllocWord, malloc
  <2>2. index + 1 \in Clients /\ index + 1 # Array
    BY <1>1, <2>1 DEF CallInv, WordsInRange
  <2>3. live'[Array] = live[Array]
    BY <1>4, <2>1, <2>2
  <2> QED BY <1>8, <2>3 DEF AllocWord, ArrayInv
<1>9. CASE ReturnResult
  <2>1. count' = Cardinality(WordsOf(str)) /\ IsString(str) /\ live' = live /\ pc = "words" /\ pc' = "returned"
    BY <1>9, ReturnResultStep DEF ReturnResult, CallInv, ScanInv, vars
  <2>2. index = Cardinality(WordsOf(str)) /\ index' = index
    <3>1. WordStart = End(str) /\ Boundary(str, ptr) /\ index = Cardinality(WordsBefore(str, ptr))
      BY <1>9 DEF ReturnResult, CallInv, ScanInv
    <3> QED BY <1>9, <2>1, <3>1, NoMoreWords DEF WordStart, ReturnResult
  <2> QED BY <2>1, <2>2, CountWordsIs DEF ArrayInv
<1>10. CASE ReleaseWord
  <2>1. PICK i \in 1 .. MaxWords : kmfree(i)
    BY <1>10 DEF ReleaseWord
  <2> QED BY <1>1, <1>3, <1>10, <2>1, ArrayStays DEF ReleaseWord, scan
<1>11. CASE UseHeap
  <2>1. live'[Array] = live[Array]
    BY <1>2, <1>3, <1>4, <1>11 DEF UseHeap
  <2> QED BY <1>11, <2>1, ArrayStays DEF UseHeap, scan
<1>12. CASE (\E s \in Strings : Call(s)) \/ NoWords \/ UnwindWord \/ UnwindArray \/ ReleaseArray
  BY <1>6, <1>12 DEF Call, NoWords, UnwindWord, UnwindArray, ReleaseArray
<1> QED BY <1>5, <1>7, <1>8, <1>9, <1>10, <1>11, <1>12 DEF SplitNext, splitString, split, Program

\* Whatever strings are split on whatever heap: no pointer is stored behind the
\* array, and every entry of a result is.
THEOREM SplitStoresFitArray == SplitSpec => []StoresFitArray
<1>1. CallInv /\ ArrayInv => StoresFitArray
  <2> SUFFICES ASSUME CallInv, ArrayInv PROVE StoresFitArray
    OBVIOUS
  <2>1. ASSUME pc = "words", WordStart # End(str)
        PROVE  Pointers(index + 1) <= live[Array].size
    <3>1. IsString(str) /\ Boundary(str, ptr) /\ index = Cardinality(WordsBefore(str, ptr)) /\ index \in Nat
      BY <2>1 DEF CallInv, ScanInv, WordsInRange
    <3>2. PICK stop : stop = NextStop(str, ptr)
      OBVIOUS
    <3>3. Cardinality(WordsBefore(str, stop)) = index + 1
      BY <2>1, <3>1, <3>2, OneMoreWord DEF WordStart, NextStart
    <3>4. WordsBefore(str, stop) \subseteq WordsOf(str) /\ IsFiniteSet(WordsOf(str))
      BY <3>1, WordsFinite DEF WordsBefore
    <3>5. index + 1 <= Cardinality(WordsOf(str)) /\ Cardinality(WordsOf(str)) \in Nat
      BY <3>3, <3>4, FS_Subset, FS_CardinalityType
    <3>6. live[Array].size = Pointers(Cardinality(WordsOf(str)))
      BY <2>1, <3>1, CountWordsIs DEF ArrayInv
    <3> QED BY <3>1, <3>5, <3>6 DEF Pointers
  <2> QED BY <2>1 DEF ArrayInv, StoresFitArray
<1>2. SplitInit => ArrayInv
  BY DEF SplitInit, ArrayInv
<1>3. CallInv /\ HeapSound /\ ArrayInv /\ [SplitNext]_splitVars => ArrayInv'
  BY ArrayStep
<1> QED BY <1>1, <1>2, <1>3, SplitInvariants, PTL DEF SplitSpec

\* A result that splitString returns holds the words of the string, in order,
\* each in an allocation of its size, and count is their number: for all strings,
\* and a heap in any state.
THEOREM SplitReturnsWords == SplitSpec => ReturnsWords
<1>1. CallInv /\ HeapSound /\ [SplitNext]_splitVars =>
        [pc # "returned" /\ pc' = "returned" =>
           /\ count' = Cardinality(WordsOf(str))
           /\ \A w \in WordsOf(str) : live[Nth(w, str)].size = Bytes(w[2] - w[1] + 1)]_splitVars
  BY SplitStep
<1> QED BY <1>1, SplitInvariants, PTL DEF SplitSpec, ReturnsWords

\* A call that fails, at its first allocation or half way, leaves none of its
\* allocations behind, and as many used blocks as before.
THEOREM SplitFailureFreesAll == SplitSpec => FailureFreesAll
<1>1. CallInv /\ HeapSound /\ [SplitNext]_splitVars =>
        [(pc \in {"array", "unwind"} /\ pc' = "idle")
           => Freed' /\ (handedWhole' \/ used_blocks' = before)]_splitVars
  BY SplitStep
<1> QED BY <1>1, SplitInvariants, PTL DEF SplitSpec, FailureFreesAll

\* The library's program calls splitString as Split's does.
LEMMA LibraryUsesSplit == LibrarySpec => SplitSpec
<1>1. [LibraryNext]_libraryVars => [SplitNext]_splitVars
  BY DEF LibraryNext, Scans, Splitting, Calls, Drops, Called, Converts, Compares, Moves, Prints,
         PrintsInColour, libraryVars
<1>2. LibraryInit => SplitInit
  BY DEF LibraryInit
<1> QED BY <1>1, <1>2, PTL DEF LibrarySpec, SplitSpec

\* The three hold in the program that also scans and converts.
THEOREM LibrarySplits == LibrarySpec => []StoresFitArray /\ ReturnsWords /\ FailureFreesAll
BY LibraryUsesSplit, SplitStoresFitArray, SplitReturnsWords, SplitFailureFreesAll, PTL

-----------------------------------------------------------------------------
(* memmove *)

\* The fold of CopyBytes, over the sets of positions in offsets.
Copying(mem, d, s, offsets, f) ==
  [T \in SUBSET (DOMAIN offsets) |->
     IF T = {} THEN mem
     ELSE LET k == Max(T)
          IN  [f[T \ {k}] EXCEPT ![d + offsets[k]] = f[T \ {k}][s + offsets[k]]]]

LEMMA CopyIs ==
  ASSUME NEW mem, NEW d, NEW s, NEW offsets
  PROVE  CopyBytes(mem, d, s, offsets)
           = (CHOOSE f : f = Copying(mem, d, s, offsets, f))[DOMAIN offsets]
BY DEF CopyBytes, FoldLeft, MapThenFoldSet, Copying

\* o lists the n offsets so that no byte is written before it is read.
SafeOrder(d, s, n, o) ==
  /\ o \in [1 .. n -> 0 .. n - 1]
  /\ \A q \in 0 .. n - 1 : \E k \in 1 .. n : o[k] = q
  /\ \A k, l \in 1 .. n : l < k => d + o[l] # s + o[k]

LEMMA MaxOf ==
  ASSUME NEW n \in Nat, NEW T \in SUBSET (1 .. n), T # {}
  PROVE  Max(T) \in T /\ \A x \in T : x <= Max(T)
<1> DEFINE D == {m \in Nat : n - m \in T}
<1>1. D \in SUBSET Nat /\ D # {}
  <2>1. PICK k \in T : TRUE
    OBVIOUS
  <2>2. n - k \in Nat /\ n - (n - k) = k
    OBVIOUS
  <2> QED BY <2>2
<1>2. Min(D) \in D /\ \A m \in D : Min(D) <= m
  BY <1>1, MinOfNaturals
<1> DEFINE k == n - Min(D)
<1>3. k \in T /\ Min(D) \in Nat
  BY <1>2
<1>4. ASSUME NEW x \in T PROVE k >= x
  <2>1. n - x \in D
    <3>1. n - x \in Nat /\ n - (n - x) = x
      OBVIOUS
    <3> QED BY <3>1
  <2>2. Min(D) <= n - x
    BY <1>2, <2>1
  <2> HIDE DEF D
  <2> QED BY <1>3, <2>2
<1> HIDE DEF k
<1>5. \E m \in T : \A x \in T : m >= x
  BY <1>3, <1>4
<1>6. Max(T) \in T /\ \A x \in T : Max(T) >= x
  BY <1>5 DEF Max
<1>7. \A x \in T : x \in Int
  OBVIOUS
<1> QED BY <1>6, <1>7

\* The bytes of the positions T have been moved.
Moved(mem, d, s, o, T) ==
  [p \in DOMAIN mem |-> IF \E k \in T : p = d + o[k] THEN mem[s + (p - d)] ELSE mem[p]]

\* Copying one byte more: that of the last position of T.
NextMove(m, d, s, o, T) == [m EXCEPT ![d + o[Max(T)]] = m[s + o[Max(T)]]]

LEMMA MoveOne ==
  ASSUME NEW mem, NEW d \in Nat, NEW s \in Nat, NEW n \in Nat, NEW o, SafeOrder(d, s, n, o),
         d .. d + n - 1 \subseteq DOMAIN mem, s .. s + n - 1 \subseteq DOMAIN mem,
         NEW T \in SUBSET (1 .. n), T # {}
  PROVE  NextMove(Moved(mem, d, s, o, T \ {Max(T)}), d, s, o, T) = Moved(mem, d, s, o, T)
<1>0. PICK f : f = Moved(mem, d, s, o, T \ {Max(T)})
  OBVIOUS
<1>1. PICK k : k = Max(T)
  OBVIOUS
<1>2. k \in T /\ \A l \in T : l <= k
  BY <1>1, MaxOf
<1>3. \A l \in T \ {k} : l \in 1 .. n /\ k \in 1 .. n /\ l < k
  BY <1>2
<1>4. k \in 1 .. n /\ o[k] \in 0 .. n - 1
  BY <1>2 DEF SafeOrder
<1> DEFINE w == d + o[k]
           r == s + o[k]
<1>5. w \in DOMAIN mem /\ r \in DOMAIN mem /\ s + (w - d) = r
  <2>1. w \in d .. d + n - 1 /\ r \in s .. s + n - 1 /\ s + (w - d) = r
    BY <1>4
  <2> QED BY <2>1
<1>6. \A l \in T \ {k} : r # d + o[l]
  BY <1>3 DEF SafeOrder
<1> HIDE DEF w, r
<1>7. f[r] = mem[r]
  BY <1>0, <1>1, <1>5, <1>6 DEF Moved
<1>8. DOMAIN f = DOMAIN mem /\ DOMAIN Moved(mem, d, s, o, T) = DOMAIN mem
  BY <1>0 DEF Moved
<1>9. ASSUME NEW p \in DOMAIN mem
      PROVE  [f EXCEPT ![w] = f[r]][p] = Moved(mem, d, s, o, T)[p]
  <2>1. CASE p = w
    <3>1. Moved(mem, d, s, o, T)[p] = mem[r]
      BY <1>2, <1>5, <2>1 DEF Moved, w
    <3> QED BY <1>5, <1>7, <1>8, <2>1, <3>1
  <2>2. CASE p # w
    <3>1. (\E l \in T : p = d + o[l]) <=> (\E l \in T \ {k} : p = d + o[l])
      BY <1>2, <2>2 DEF w
    <3>2. f[p] = IF \E l \in T \ {k} : p = d + o[l] THEN mem[s + (p - d)] ELSE mem[p]
      BY <1>0, <1>1 DEF Moved
    <3>3. Moved(mem, d, s, o, T)[p] = IF \E l \in T : p = d + o[l] THEN mem[s + (p - d)] ELSE mem[p]
      BY DEF Moved
    <3>4. [f EXCEPT ![w] = f[r]][p] = f[p]
      BY <1>8, <2>2
    <3> QED BY <3>1, <3>2, <3>3, <3>4, Zenon
  <2> QED BY <2>1, <2>2
<1> DEFINE g == [f EXCEPT ![w] = f[r]]
           h == Moved(mem, d, s, o, T)
<1>10. g = [p \in DOMAIN mem |-> g[p]] /\ h = [p \in DOMAIN mem |-> h[p]]
  BY <1>8 DEF Moved
<1>11. g = h
  <2> HIDE DEF g, h
  <2>1. \A p \in DOMAIN mem : g[p] = h[p]
    BY <1>9 DEF g, h
  <2> QED BY <1>10, <2>1, Zenon
<1> QED BY <1>0, <1>1, <1>11 DEF w, r, NextMove

\* Whatever function satisfies the fold's equation moves the bytes.
LEMMA CopyingMoves ==
  ASSUME NEW mem, mem = [p \in DOMAIN mem |-> mem[p]],
         NEW d \in Nat, NEW s \in Nat, NEW n \in Nat, NEW o, SafeOrder(d, s, n, o),
         d .. d + n - 1 \subseteq DOMAIN mem, s .. s + n - 1 \subseteq DOMAIN mem,
         NEW f, f = Copying(mem, d, s, o, f)
  PROVE  f[1 .. n] = Moved(mem, d, s, o, 1 .. n)
<1> DEFINE g(T) == Moved(mem, d, s, o, T)
           Wrong == {m \in Nat : \E T \in SUBSET (1 .. n) : Cardinality(T) = m /\ f[T] # g(T)}
<1>1. DOMAIN o = 1 .. n
  BY DEF SafeOrder
<1>2. ASSUME NEW T \in SUBSET (1 .. n)
      PROVE  f[T] = IF T = {} THEN mem
                    ELSE NextMove(f[T \ {Max(T)}], d, s, o, T)
  BY <1>1 DEF Copying, NextMove
<1>3. Wrong = {}
  <2> SUFFICES ASSUME Wrong # {} PROVE FALSE
    OBVIOUS
  <2>1. Wrong \in SUBSET Nat
    OBVIOUS
  <2>2. Min(Wrong) \in Wrong /\ \A m \in Wrong : Min(Wrong) <= m
    BY <2>1, MinOfNaturals
  <2>3. PICK T \in SUBSET (1 .. n) : Cardinality(T) = Min(Wrong) /\ f[T] # g(T)
    BY <2>2
  <2>4. T # {}
    <3>1. g({}) = mem
      BY DEF Moved
    <3> QED BY <1>2, <2>3, <3>1
  <2>5. Max(T) \in T
    BY <2>4, MaxOf
  <2> DEFINE U == T \ {Max(T)}
  <2>6. U \in SUBSET (1 .. n) /\ Cardinality(U) \in Nat /\ Cardinality(U) < Cardinality(T)
    <3>1. IsFiniteSet(T)
      <4>1. IsFiniteSet(1 .. n)
        BY FS_Interval
      <4> QED BY <4>1, FS_Subset
    <3>2. Cardinality(U) = Cardinality(T) - 1 /\ IsFiniteSet(U)
      BY <2>5, <3>1, FS_RemoveElement
    <3>3. Cardinality(U) \in Nat /\ Cardinality(T) \in Nat
      BY <3>1, <3>2, FS_CardinalityType
    <3> QED BY <3>2, <3>3
  <2> HIDE DEF g
  <2>7. f[U] = g(U)
    <3> HIDE DEF U
    <3>1. Cardinality(U) \notin Wrong
      <4> HIDE DEF Wrong
      <4>1. Min(Wrong) \in Nat
        BY <2>2 DEF Wrong
      <4> QED BY <2>2, <2>3, <2>6, <4>1
    <3> QED BY <2>6, <3>1
  <2>8. NextMove(g(U), d, s, o, T) = g(T)
    BY <2>4, MoveOne DEF g
  <2>9. f[T] = NextMove(f[U], d, s, o, T)
    BY <1>2, <2>4
  <2> HIDE DEF U
  <2> QED BY <2>3, <2>7, <2>8, <2>9
<1>4. 1 .. n \in SUBSET (1 .. n) /\ Cardinality(1 .. n) \in Nat
  BY FS_Interval
<1> HIDE DEF g
<1>5. f[1 .. n] = g(1 .. n)
  BY <1>3, <1>4
<1> QED BY <1>5 DEF g

LEMMA CopyMoves ==
  ASSUME NEW mem, mem = [p \in DOMAIN mem |-> mem[p]],
         NEW d \in Nat, NEW s \in Nat, NEW n \in Nat, NEW o, SafeOrder(d, s, n, o),
         d .. d + n - 1 \subseteq DOMAIN mem, s .. s + n - 1 \subseteq DOMAIN mem
  PROVE  CopyBytes(mem, d, s, o)
           = [p \in DOMAIN mem |-> IF p \in d .. d + n - 1 THEN mem[s + (p - d)] ELSE mem[p]]
<1> DEFINE g == [T \in SUBSET (1 .. n) |-> Moved(mem, d, s, o, T)]
           f == CHOOSE f : f = Copying(mem, d, s, o, f)
<1>1. DOMAIN o = 1 .. n
  BY DEF SafeOrder
<1>2. g = Copying(mem, d, s, o, g)
  <2>1. ASSUME NEW T \in SUBSET (1 .. n), T # {}
        PROVE  g[T] = NextMove(g[T \ {Max(T)}], d, s, o, T)
    <3>1. g[T] = Moved(mem, d, s, o, T) /\ g[T \ {Max(T)}] = Moved(mem, d, s, o, T \ {Max(T)})
      OBVIOUS
    <3> HIDE DEF g
    <3> QED BY <2>1, <3>1, MoveOne
  <2>2. g[{}] = mem
    BY DEF Moved
  <2>3. g = [T \in SUBSET (1 .. n) |-> g[T]]
    OBVIOUS
  <2> HIDE DEF g
  <2> QED BY <1>1, <2>1, <2>2, <2>3 DEF Copying, NextMove
<1>3. f = Copying(mem, d, s, o, f)
  BY <1>2
<1> HIDE DEF f, g
<1>4. f[1 .. n] = Moved(mem, d, s, o, 1 .. n)
  BY <1>3, CopyingMoves
<1>5. CopyBytes(mem, d, s, o) = f[1 .. n]
  BY <1>1, CopyIs DEF f
<1>6. ASSUME NEW p \in DOMAIN mem
      PROVE  (\E k \in 1 .. n : p = d + o[k]) <=> p \in d .. d + n - 1
  <2>1. ASSUME NEW k \in 1 .. n, p = d + o[k] PROVE p \in d .. d + n - 1
    <3>1. o[k] \in 0 .. n - 1
      BY DEF SafeOrder
    <3> QED BY <2>1, <3>1
  <2>2. ASSUME p \in d .. d + n - 1 PROVE \E k \in 1 .. n : p = d + o[k]
    <3>1. p - d \in 0 .. n - 1 /\ d + (p - d) = p
      BY <2>2
    <3>2. PICK k \in 1 .. n : o[k] = p - d
      BY <3>1 DEF SafeOrder
    <3> QED BY <3>1, <3>2
  <2> QED BY <2>1, <2>2
<1>7. Moved(mem, d, s, o, 1 .. n)
        = [p \in DOMAIN mem |-> IF p \in d .. d + n - 1 THEN mem[s + (p - d)] ELSE mem[p]]
  BY <1>6, Zenon DEF Moved
<1> QED BY <1>4, <1>5, <1>7

\* memmove moves them as if it read them all first: of its two orders it takes
\* one in which no byte is written before it is read.
Movable(mem, d, s, n) ==
  /\ mem = [p \in DOMAIN mem |-> mem[p]] /\ {d, s, n} \subseteq Nat
  /\ d .. d + n - 1 \subseteq DOMAIN mem /\ s .. s + n - 1 \subseteq DOMAIN mem
AtOnce(mem, d, s, n) ==
  [p \in DOMAIN mem |-> IF p \in d .. d + n - 1 THEN mem[s + (p - d)] ELSE mem[p]]

LEMMA MemmoveMoves ==
  ASSUME NEW mem, NEW d, NEW s, NEW n, Movable(mem, d, s, n)
  PROVE  memmove(mem, d, s, n) = AtOnce(mem, d, s, n)
<1>0. /\ mem = [p \in DOMAIN mem |-> mem[p]] /\ d \in Nat /\ s \in Nat /\ n \in Nat
      /\ d .. d + n - 1 \subseteq DOMAIN mem /\ s .. s + n - 1 \subseteq DOMAIN mem
  BY DEF Movable
<1> DEFINE up == Upwards(n)
           down == Reverse(Upwards(n))
<1>1. up \in [1 .. n -> 0 .. n - 1] /\ \A k \in 1 .. n : up[k] = k - 1
  BY <1>0 DEF Upwards
<1>2. Len(up) = n
  <2>1. up \in Seq(0 .. n - 1)
    BY <1>0, <1>1
  <2> QED BY <1>0, <1>1, <2>1
<1>3. down = [k \in 1 .. n |-> up[n - k + 1]]
  BY <1>0, <1>2 DEF Reverse
<1>4. down \in [1 .. n -> 0 .. n - 1] /\ \A k \in 1 .. n : down[k] = n - k
  <2>1. \A k \in 1 .. n : n - k + 1 \in 1 .. n /\ n - k \in 0 .. n - 1 /\ up[n - k + 1] = n - k
    BY <1>0, <1>1
  <2> QED BY <1>3, <2>1
<1> HIDE DEF up, down
<1>5. CASE d < s \/ d >= s + n
  <2>1. SafeOrder(d, s, n, up)
    <3>1. ASSUME NEW q \in 0 .. n - 1 PROVE \E k \in 1 .. n : up[k] = q
      <4>1. q + 1 \in 1 .. n /\ up[q + 1] = q
        BY <1>0, <1>1
      <4> QED BY <4>1
    <3>2. ASSUME NEW k \in 1 .. n, NEW l \in 1 .. n, l < k PROVE d + up[l] # s + up[k]
      <4>1. d + (l - 1) # s + (k - 1)
        BY <1>0, <1>5, <3>2
      <4> QED BY <1>0, <1>1, <4>1
    <3> QED BY <1>0, <1>1, <3>1, <3>2 DEF SafeOrder
  <2>2. memmove(mem, d, s, n) = CopyBytes(mem, d, s, up)
    BY <1>0, <1>5 DEF memmove, up
  <2> QED BY <1>0, <2>1, <2>2, CopyMoves DEF AtOnce
<1>6. CASE ~(d < s \/ d >= s + n)
  <2>1. SafeOrder(d, s, n, down)
    <3>1. ASSUME NEW q \in 0 .. n - 1 PROVE \E k \in 1 .. n : down[k] = q
      <4>1. n - q \in 1 .. n /\ down[n - q] = q
        BY <1>0, <1>4
      <4> QED BY <4>1
    <3>2. ASSUME NEW k \in 1 .. n, NEW l \in 1 .. n, l < k PROVE d + down[l] # s + down[k]
      <4>1. d + (n - l) # s + (n - k)
        BY <1>0, <1>6, <3>2
      <4> QED BY <1>0, <1>4, <4>1
    <3> QED BY <1>0, <1>4, <3>1, <3>2 DEF SafeOrder
  <2>2. memmove(mem, d, s, n) = CopyBytes(mem, d, s, down)
    BY <1>0, <1>6 DEF memmove, down
  <2> QED BY <1>0, <2>1, <2>2, CopyMoves DEF AtOnce
<1> QED BY <1>5, <1>6

-----------------------------------------------------------------------------

\* One call of memmove on the bytes 1 .. MemorySize.
LEMMA MovesRight ==
  ASSUME StringsAssumption, Moves
  PROVE  MovesAsIfAtOnce'
<1>1. PICK d \in 1 .. MemorySize, s \in 1 .. MemorySize, n \in 0 .. MemorySize :
        /\ d + n <= MemorySize + 1 /\ s + n <= MemorySize + 1
        /\ Called("memmove", [d |-> d, s |-> s, n |-> n],
                  memmove([i \in 1 .. MemorySize |-> i], d, s, n))
  BY DEF Moves
<1> DEFINE mem == [i \in 1 .. MemorySize |-> i]
<1>2. MemorySize \in Nat
  BY DEF StringsAssumption
<1>3. d .. d + n - 1 \subseteq 1 .. MemorySize /\ s .. s + n - 1 \subseteq 1 .. MemorySize
  BY <1>1, <1>2
<1>4. d \in Nat /\ s \in Nat /\ n \in Nat /\ DOMAIN mem = 1 .. MemorySize
  BY <1>2
<1>5. mem = [p \in DOMAIN mem |-> mem[p]]
  OBVIOUS
<1>6. call' = [f |-> "memmove", arg |-> [d |-> d, s |-> s, n |-> n], result |-> memmove(mem, d, s, n)]
  BY <1>1 DEF Called
<1> HIDE DEF mem
<1>7. memmove(mem, d, s, n) = AtOnce(mem, d, s, n)
  <2>1. Movable(mem, d, s, n)
    BY <1>3, <1>4, <1>5 DEF Movable
  <2> QED BY <2>1, MemmoveMoves, Zenon
<1>8. ASSUME NEW i \in 1 .. MemorySize
      PROVE  memmove(mem, d, s, n)[i] = IF i \in d .. d + n - 1 THEN s + (i - d) ELSE i
  <2>1. memmove(mem, d, s, n)[i] = IF i \in d .. d + n - 1 THEN mem[s + (i - d)] ELSE mem[i]
    BY <1>4, <1>7 DEF AtOnce
  <2>2. ASSUME i \in d .. d + n - 1 PROVE s + (i - d) \in 1 .. MemorySize
    BY <1>3, <1>4, <2>2
  <2>3. \A p \in 1 .. MemorySize : mem[p] = p
    BY DEF mem
  <2> QED BY <2>1, <2>2, <2>3
<1>9. arg' = [d |-> d, s |-> s, n |-> n] /\ result' = memmove(mem, d, s, n)
  BY <1>6 DEF arg, result
<1>10. MemorySize' = MemorySize
  OBVIOUS
<1> QED BY <1>8, <1>9 DEF MovesAsIfAtOnce

\* memmove moves the bytes as if it read them all before it wrote one, for every
\* size of the memory and wherever the two ranges overlap: of its two orders it
\* takes one that writes no byte before it is read.
THEOREM MovesAtOnce == LibrarySpec => []MovesAsIfAtOnce
<1>1. LibraryInit => MovesAsIfAtOnce
  BY DEF LibraryInit, Nothing, MovesAsIfAtOnce
<1>2. MovesAsIfAtOnce /\ [LibraryNext]_libraryVars => MovesAsIfAtOnce'
  <2> SUFFICES ASSUME MovesAsIfAtOnce, [LibraryNext]_libraryVars PROVE MovesAsIfAtOnce'
    OBVIOUS
  <2>1. CASE UNCHANGED call
    BY <2>1 DEF MovesAsIfAtOnce, arg, result
  <2>2. CASE Drops
    <3>1. call'.f = "none"
      BY <2>2 DEF Drops, Nothing
    <3> QED BY <3>1 DEF MovesAsIfAtOnce
  <2>3. CASE Moves
    BY <2>3, StringsAssumption, MovesRight
  <2>4. CASE Converts \/ Compares \/ Prints \/ PrintsInColour
    <3>1. call'.f # "memmove"
      <4>1. CASE Converts
        BY <4>1 DEF Converts, Called
      <4>2. CASE Compares
        BY <4>2 DEF Compares, Called
      <4>3. CASE Prints
        BY <4>3 DEF Prints, Called
      <4>4. CASE PrintsInColour
        BY <4>4 DEF PrintsInColour, Called
      <4> QED BY <2>4, <4>1, <4>2, <4>3, <4>4
    <3> QED BY <3>1 DEF MovesAsIfAtOnce
  <2>5. Calls => Converts \/ Compares \/ Moves \/ Prints \/ PrintsInColour
    BY DEF Calls
  <2>6. Scans \/ Splitting \/ UNCHANGED libraryVars => UNCHANGED call
    BY DEF Scans, Splitting, libraryVars
  <2>7. Scans \/ Splitting \/ Calls \/ Drops \/ UNCHANGED libraryVars
    BY DEF LibraryNext
  <2> QED BY <2>1, <2>2, <2>3, <2>4, <2>5, <2>6, <2>7
<1> QED BY <1>1, <1>2, PTL DEF LibrarySpec

-----------------------------------------------------------------------------
(* Comparisons *)

\* The k-th character of a string, NUL behind it.
CharAt(x, k) == IF k <= Len(x) THEN x[k] ELSE NUL

\* The strings have the same characters before the k-th.
Shared(x, y, k) == \A i \in 1 .. k - 1 : i <= Len(x) /\ i <= Len(y) /\ x[i] = y[i]

LEMMA CStringIs ==
  ASSUME NEW a \in Seq(1 .. 255)
  PROVE  /\ Len(CString(a)) = Len(a) + 1 /\ CString(a) \in Seq(0 .. 255)
         /\ \A i \in 1 .. Len(a) + 1 : CString(a)[i] = CharAt(a, i)
<1>1. a \in Seq(0 .. 255) /\ 0 \in 0 .. 255
  OBVIOUS
<1>2. /\ CString(a) \in Seq(0 .. 255) /\ Len(CString(a)) = Len(a) + 1
      /\ \A i \in 1 .. Len(a) : CString(a)[i] = a[i]
      /\ CString(a)[Len(a) + 1] = 0
  BY <1>1, AppendProperties DEF CString, NUL
<1>3. ASSUME NEW i \in 1 .. Len(a) + 1 PROVE CString(a)[i] = CharAt(a, i)
  <2>1. Len(a) \in Nat
    OBVIOUS
  <2>2. CASE i <= Len(a)
    <3>1. i \in 1 .. Len(a)
      BY <2>1, <2>2
    <3> QED BY <1>2, <2>2, <3>1 DEF CharAt
  <2>3. CASE ~(i <= Len(a))
    <3>1. i = Len(a) + 1
      BY <2>1, <2>3
    <3> QED BY <1>2, <2>3, <3>1 DEF CharAt, NUL
  <2> QED BY <2>2, <2>3
<1> QED BY <1>2, <1>3

LEMMA CharCode ==
  ASSUME NEW a \in Seq(1 .. 255), NEW k \in Nat \ {0}
  PROVE  /\ CharAt(a, k) \in 0 .. 255
         /\ k <= Len(a) <=> CharAt(a, k) # 0
<1>1. CASE k <= Len(a)
  <2>1. k \in 1 .. Len(a)
    BY <1>1
  <2>2. a[k] \in 1 .. 255
    BY <2>1, ElementOfSeq
  <2>3. CharAt(a, k) = a[k]
    BY <1>1 DEF CharAt
  <2>4. CharAt(a, k) \in 1 .. 255
    BY <2>2, <2>3
  <2>5. \A v \in 1 .. 255 : v \in 0 .. 255 /\ v # 0
    OBVIOUS
  <2> QED BY <1>1, <2>4, <2>5, Zenon
<1>2. CASE ~(k <= Len(a))
  BY <1>2 DEF CharAt, NUL
<1> QED BY <1>1, <1>2

\* Position i decides.
Deciding(a, b, i) == CharAt(a, i) # CharAt(b, i) \/ CharAt(a, i) = 0

LEMMA DecidesIs ==
  ASSUME NEW a \in Seq(1 .. 255), NEW b \in Seq(1 .. 255), NEW n \in Nat
  PROVE  \A i : i \in Decides(CString(a), CString(b), n)
                  <=> /\ i \in 1 .. n /\ i <= Len(a) + 1 /\ i <= Len(b) + 1
                      /\ Deciding(a, b, i)
<1>1. Len(a) \in Nat /\ Len(b) \in Nat
  OBVIOUS
<1>2. ASSUME NEW i \in 1 .. n, i <= Len(a) + 1, i <= Len(b) + 1
      PROVE  CString(a)[i] = CharAt(a, i) /\ CString(b)[i] = CharAt(b, i)
  <2>1. i \in 1 .. Len(a) + 1 /\ i \in 1 .. Len(b) + 1
    BY <1>1, <1>2
  <2> QED BY <2>1, CStringIs
<1>3. Len(CString(a)) = Len(a) + 1 /\ Len(CString(b)) = Len(b) + 1
  BY CStringIs
<1> QED BY <1>2, <1>3 DEF Decides, Deciding, NUL

LEMMA Undecided ==
  ASSUME NEW a \in Seq(1 .. 255), NEW b \in Seq(1 .. 255), NEW n \in Nat,
         Decides(CString(a), CString(b), n) = {}
  PROVE  Shared(a, b, n + 1)
<1> DEFINE Wrong == {i \in 1 .. n : ~(i <= Len(a) /\ i <= Len(b) /\ a[i] = b[i])}
<1>1. SUFFICES ASSUME Wrong # {} PROVE FALSE
  BY DEF Shared
<1>2. Wrong \in SUBSET Nat
  OBVIOUS
<1>3. PICK k \in Wrong : \A i \in Wrong : k <= i
  BY <1>1, <1>2, MinOfNaturals
<1>4. k \in 1 .. n /\ Len(a) \in Nat /\ Len(b) \in Nat
  OBVIOUS
<1>5. \A i \in 1 .. n : i < k => i \notin Wrong
  <2> HIDE DEF Wrong
  <2> QED BY <1>3, <1>4
<1>6. k <= Len(a) + 1 /\ k <= Len(b) + 1
  <2>1. CASE k = 1
    BY <1>4, <2>1
  <2>2. CASE k # 1
    <3>1. k - 1 \in 1 .. n /\ k - 1 < k
      BY <1>4, <2>2
    <3>2. k - 1 <= Len(a) /\ k - 1 <= Len(b)
      BY <1>5, <3>1
    <3> QED BY <1>4, <3>2
  <2> QED BY <2>1, <2>2
<1>7. ~Deciding(a, b, k)
  BY <1>4, <1>6, DecidesIs
<1>8. k <= Len(a) /\ k <= Len(b)
  <2>1. k \in Nat \ {0}
    BY <1>4
  <2> QED BY <1>7, <2>1, CharCode DEF Deciding
<1>9. a[k] = b[k]
  BY <1>7, <1>8 DEF Deciding, CharAt
<1> QED BY <1>8, <1>9

\* What the first deciding position says.
Decision(a, b, n, k) ==
  /\ k \in 1 .. n /\ k <= Len(a) + 1 /\ k <= Len(b) + 1
  /\ Deciding(a, b, k) /\ Shared(a, b, k)
  /\ CString(a)[k] = CharAt(a, k) /\ CString(b)[k] = CharAt(b, k)

LEMMA Decided ==
  ASSUME NEW a \in Seq(1 .. 255), NEW b \in Seq(1 .. 255), NEW n \in Nat,
         Decides(CString(a), CString(b), n) # {}
  PROVE  Decision(a, b, n, Min(Decides(CString(a), CString(b), n)))
<1>1. PICK D : D = Decides(CString(a), CString(b), n)
  OBVIOUS
<1>2. \A i : i \in D <=> /\ i \in 1 .. n /\ i <= Len(a) + 1 /\ i <= Len(b) + 1
                         /\ Deciding(a, b, i)
  BY <1>1, DecidesIs
<1>3. D \in SUBSET Nat
  BY <1>2
<1>4. PICK k : k = Min(D) /\ k \in D /\ \A i \in D : k <= i
  BY <1>1, <1>3, MinOfNaturals
<1>5. k \in 1 .. n /\ k <= Len(a) + 1 /\ k <= Len(b) + 1 /\ Deciding(a, b, k)
  BY <1>2, <1>4
<1>6. Len(a) \in Nat /\ Len(b) \in Nat
  OBVIOUS
<1>7. CString(a)[k] = CharAt(a, k) /\ CString(b)[k] = CharAt(b, k)
  <2>1. k \in 1 .. Len(a) + 1 /\ k \in 1 .. Len(b) + 1
    BY <1>5, <1>6
  <2> QED BY <2>1, CStringIs
<1>8. Shared(a, b, k)
  <2> SUFFICES ASSUME NEW i \in 1 .. k - 1 PROVE i <= Len(a) /\ i <= Len(b) /\ a[i] = b[i]
    BY DEF Shared
  <2>1. i \in 1 .. n /\ i <= Len(a) /\ i <= Len(b) /\ i < k
    BY <1>5, <1>6
  <2>2. i \notin D
    BY <1>4, <1>5, <2>1
  <2>3. ~Deciding(a, b, i)
    BY <1>2, <1>6, <2>1, <2>2
  <2> QED BY <2>1, <2>3 DEF Deciding, CharAt
<1> QED BY <1>1, <1>4, <1>5, <1>7, <1>8 DEF Decision

-----------------------------------------------------------------------------
(* The order of a dictionary *)

LEMMA NotBefore ==
  ASSUME NEW x \in Seq(1 .. 255), NEW y \in Seq(1 .. 255), Shared(x, y, Len(y) + 1)
  PROVE  ~Before(x, y)
<1>1. \A i \in 1 .. Len(y) : i <= Len(x) /\ x[i] = y[i] /\ x[i] \in Int
  <2> TAKE i \in 1 .. Len(y)
  <2>1. i \in 1 .. (Len(y) + 1) - 1
    OBVIOUS
  <2>2. i <= Len(x) /\ x[i] = y[i]
    BY <2>1 DEF Shared
  <2>3. i \in 1 .. Len(x)
    BY <2>2
  <2>4. x[i] \in 1 .. 255
    BY <2>3, ElementOfSeq
  <2> QED BY <2>2, <2>4
<1>2. \A i \in 1 .. Len(y) : ~(i > Len(x)) /\ ~(x[i] < y[i])
  BY <1>1
<1> QED BY <1>2 DEF Before

LEMMA OrderAt ==
  ASSUME NEW x \in Seq(1 .. 255), NEW y \in Seq(1 .. 255), NEW k \in Nat \ {0},
         Shared(x, y, k), CharAt(x, k) # CharAt(y, k)
  PROVE  Before(x, y) <=> CharAt(x, k) < CharAt(y, k)
<1>1. Len(x) \in Nat /\ Len(y) \in Nat
  OBVIOUS
<1>2. ASSUME Before(x, y) PROVE CharAt(x, k) < CharAt(y, k)
  <2>1. PICK i \in 1 .. Len(y) : /\ i > Len(x) \/ x[i] < y[i]
                                 /\ \A m \in 1 .. i - 1 : m <= Len(x) /\ x[m] = y[m]
    BY <1>2 DEF Before
  <2>2. ~(i < k)
    <3> SUFFICES ASSUME i < k PROVE FALSE
      OBVIOUS
    <3>1. i \in 1 .. k - 1
      OBVIOUS
    <3>2. i <= Len(x) /\ x[i] = y[i]
      BY <3>1 DEF Shared
    <3>3. x[i] \in 1 .. 255
      <4>1. i \in 1 .. Len(x)
        BY <3>2
      <4> QED BY <4>1, ElementOfSeq
    <3>4. ~(i > Len(x)) /\ ~(x[i] < y[i])
      <4>1. ~(i > Len(x))
        BY <1>1, <3>2
      <4>2. PICK u : u = x[i]
        OBVIOUS
      <4>3. u \in 1 .. 255 /\ y[i] = u
        BY <3>2, <3>3, <4>2
      <4>4. ~(u < u)
        BY <4>3
      <4> QED BY <3>2, <4>1, <4>2, <4>4, Zenon
    <3> QED BY <2>1, <3>4, Zenon
  <2>3. ~(k < i)
    <3> SUFFICES ASSUME k < i PROVE FALSE
      OBVIOUS
    <3>1. k \in 1 .. i - 1 /\ k <= Len(y)
      BY <1>1
    <3>2. k <= Len(x) /\ x[k] = y[k]
      BY <2>1, <3>1
    <3> QED BY <3>1, <3>2 DEF CharAt
  <2>4. i = k
    BY <2>2, <2>3
  <2>5. CharAt(y, k) = y[k] /\ y[k] \in 1 .. 255
    <3>1. k \in 1 .. Len(y) /\ k <= Len(y)
      BY <1>1, <2>4
    <3>2. y[k] \in 1 .. 255
      BY <3>1, ElementOfSeq
    <3> QED BY <3>1, <3>2 DEF CharAt
  <2>6. CASE k > Len(x)
    <3>1. CharAt(x, k) = 0
      <4>1. ~(k <= Len(x))
        BY <1>1, <2>6
      <4> QED BY <4>1 DEF CharAt, NUL
    <3>2. \A v \in 1 .. 255 : 0 < v
      OBVIOUS
    <3>3. 0 < CharAt(y, k)
      BY <2>5, <3>2, Zenon
    <3> QED BY <3>1, <3>3, Zenon
  <2>7. CASE ~(k > Len(x))
    <3>1. CharAt(x, k) = x[k]
      BY <1>1, <2>7 DEF CharAt
    <3> QED BY <2>1, <2>4, <2>5, <2>7, <3>1
  <2> QED BY <2>6, <2>7
<1>3. ASSUME CharAt(x, k) < CharAt(y, k) PROVE Before(x, y)
  <2>1. k <= Len(y)
    <3>1. CharAt(x, k) \in 0 .. 255 /\ CharAt(y, k) \in 0 .. 255
      BY CharCode
    <3> DEFINE u == CharAt(x, k)
               v == CharAt(y, k)
    <3>2. v # 0
      <4>1. u \in 0 .. 255 /\ v \in 0 .. 255 /\ u < v
        BY <1>3, <3>1
      <4> HIDE DEF u, v
      <4> QED BY <4>1
    <3> QED BY <3>2, CharCode
  <2>2. k \in 1 .. Len(y)
    BY <1>1, <2>1
  <2>3. k > Len(x) \/ x[k] < y[k]
    BY <1>1, <1>3, <2>1 DEF CharAt
  <2> QED BY <2>2, <2>3 DEF Before, Shared
<1> QED BY <1>2, <1>3

\* The first n characters of a string.
Beginning(w, n) == SubSeq(w, 1, Min({n, Len(w)}))
IsBeginning(f, w, n) ==
  /\ f \in Seq(1 .. 255) /\ Len(f) <= n /\ Len(f) <= Len(w)
  /\ Len(f) = n \/ Len(f) = Len(w)
  /\ \A i \in 1 .. Len(f) : f[i] = w[i]

LEMMA StartIs ==
  ASSUME NEW w \in Seq(1 .. 255), NEW n \in Nat
  PROVE  IsBeginning(Beginning(w, n), w, n)
<1>1. Len(w) \in Nat
  OBVIOUS
<1>2. PICK m : m = Min({n, Len(w)})
  OBVIOUS
<1>3. m \in {n, Len(w)} /\ \A i \in {n, Len(w)} : m <= i
  <2>1. {n, Len(w)} \in SUBSET Nat /\ {n, Len(w)} # {}
    BY <1>1
  <2> QED BY <1>2, <2>1, MinOfNaturals
<1>4. m \in 0 .. Len(w) /\ m <= n /\ (m = n \/ m = Len(w))
  BY <1>1, <1>3
<1>5. /\ SubSeq(w, 1, m) \in Seq(1 .. 255) /\ Len(SubSeq(w, 1, m)) = m
      /\ \A i \in 1 .. m : SubSeq(w, 1, m)[i] = w[i]
  <2>1. \A i \in 1 .. m : w[i] \in 1 .. 255
    <3> SUFFICES ASSUME NEW i \in 1 .. m PROVE w[i] \in 1 .. 255
      OBVIOUS
    <3>1. i \in 1 .. Len(w)
      BY <1>1, <1>4
    <3> QED BY <3>1, ElementOfSeq
  <2> QED BY <1>4, <2>1
<1>6. PICK f : f = Beginning(w, n)
  OBVIOUS
<1>7. f = SubSeq(w, 1, m)
  BY <1>2, <1>6 DEF Beginning
<1>8. f \in Seq(1 .. 255) /\ Len(f) = m /\ \A i \in 1 .. m : f[i] = w[i]
  BY <1>5, <1>7, Zenon
<1>9. m <= Len(w)
  BY <1>1, <1>4
<1>10. IsBeginning(f, w, n)
  BY <1>4, <1>8, <1>9, Zenon DEF IsBeginning
<1> QED BY <1>6, <1>10

LEMMA StartChars ==
  ASSUME NEW w \in Seq(1 .. 255), NEW n \in Nat, NEW f, IsBeginning(f, w, n), NEW k \in 1 .. n
  PROVE  CharAt(f, k) = CharAt(w, k)
<1>1. Len(f) \in Nat /\ Len(w) \in Nat
  BY DEF IsBeginning
<1>2. CASE k <= Len(f)
  <2>1. k \in 1 .. Len(f) /\ k <= Len(w)
    BY <1>1, <1>2 DEF IsBeginning
  <2>2. f[k] = w[k]
    BY <2>1 DEF IsBeginning
  <2> QED BY <1>2, <2>1, <2>2 DEF CharAt
<1>3. CASE ~(k <= Len(f))
  <2>1. ~(k <= Len(w))
    BY <1>1, <1>3 DEF IsBeginning
  <2> QED BY <1>3, <2>1 DEF CharAt
<1> QED BY <1>2, <1>3

\* Strings that share what is before k share it in their starts, up to k.
LEMMA StartsShare ==
  ASSUME NEW a \in Seq(1 .. 255), NEW b \in Seq(1 .. 255), NEW n \in Nat,
         NEW f, IsBeginning(f, a, n), NEW g, IsBeginning(g, b, n),
         NEW k \in 1 .. n + 1, Shared(a, b, k)
  PROVE  Shared(f, g, k)
<1> SUFFICES ASSUME NEW i \in 1 .. k - 1 PROVE i <= Len(f) /\ i <= Len(g) /\ f[i] = g[i]
  BY DEF Shared
<1>1. Len(f) \in Nat /\ Len(g) \in Nat /\ i \in 1 .. n
  BY DEF IsBeginning
<1>2. i <= Len(a) /\ i <= Len(b) /\ a[i] = b[i]
  BY DEF Shared
<1>3. i <= Len(f) /\ i <= Len(g)
  BY <1>1, <1>2 DEF IsBeginning
<1>4. f[i] = a[i] /\ g[i] = b[i]
  <2>1. i \in 1 .. Len(f) /\ i \in 1 .. Len(g)
    BY <1>1, <1>3
  <2> QED BY <2>1 DEF IsBeginning
<1> QED BY <1>2, <1>3, <1>4

LEMMA SharedBackwards ==
  ASSUME NEW x, NEW y, NEW k, Shared(x, y, k)
  PROVE  Shared(y, x, k)
BY DEF Shared

\* If they are the same to the end of both, neither is before the other.
LEMMA SameToTheEnd ==
  ASSUME NEW a \in Seq(1 .. 255), NEW b \in Seq(1 .. 255), NEW k \in Nat \ {0},
         Shared(a, b, k), k > Len(a), k > Len(b)
  PROVE  Len(a) = Len(b) /\ Shared(a, b, Len(b) + 1) /\ Shared(b, a, Len(a) + 1)
<1>1. Len(a) \in Nat /\ Len(b) \in Nat
  OBVIOUS
<1>2. Len(b) <= Len(a)
  <2>1. CASE Len(b) = 0
    BY <1>1, <2>1
  <2>2. CASE Len(b) # 0
    <3>1. Len(b) \in 1 .. k - 1
      BY <1>1, <2>2
    <3> QED BY <3>1 DEF Shared
  <2> QED BY <2>1, <2>2
<1>3. Len(a) <= Len(b)
  <2>1. CASE Len(a) = 0
    BY <1>1, <2>1
  <2>2. CASE Len(a) # 0
    <3>1. Len(a) \in 1 .. k - 1
      BY <1>1, <2>2
    <3> QED BY <3>1 DEF Shared
  <2> QED BY <2>1, <2>2
<1>4. Len(a) = Len(b)
  BY <1>1, <1>2, <1>3
<1>5. \A i \in 1 .. Len(b) : i \in 1 .. k - 1
  BY <1>1
<1> QED BY <1>1, <1>4, <1>5 DEF Shared

LEMMA StrncmpOrders ==
  ASSUME NEW a \in Seq(1 .. 255), NEW b \in Seq(1 .. 255), NEW n \in Nat
  PROVE  /\ strncmp(CString(a), CString(b), n) < 0 <=> Before(Beginning(a, n), Beginning(b, n))
         /\ strncmp(CString(a), CString(b), n) > 0 <=> Before(Beginning(b, n), Beginning(a, n))
<1>1. PICK f : f = Beginning(a, n)
  OBVIOUS
<1>2. PICK g : g = Beginning(b, n)
  OBVIOUS
<1>3. IsBeginning(f, a, n) /\ IsBeginning(g, b, n)
  BY <1>1, <1>2, StartIs
<1>4. /\ f \in Seq(1 .. 255) /\ g \in Seq(1 .. 255)
      /\ Len(f) \in Nat /\ Len(g) \in Nat /\ Len(f) <= n /\ Len(g) <= n
  BY <1>3 DEF IsBeginning
<1>5. PICK r : r = strncmp(CString(a), CString(b), n)
  OBVIOUS
<1>6. CASE Decides(CString(a), CString(b), n) = {}
  <2>1. r = 0
    BY <1>5, <1>6 DEF strncmp
  <2>2. Shared(f, g, n + 1)
    <3>1. n + 1 \in 1 .. n + 1
      OBVIOUS
    <3> QED BY <1>3, <1>6, <3>1, Undecided, StartsShare
  <2>3. Shared(f, g, Len(g) + 1) /\ Shared(g, f, Len(f) + 1)
    <3>1. n + 1 \in Nat \ {0} /\ n + 1 > Len(f) /\ n + 1 > Len(g)
      BY <1>4
    <3> QED BY <1>4, <2>2, <3>1, SameToTheEnd
  <2>4. ~Before(f, g) /\ ~Before(g, f)
    BY <1>4, <2>3, NotBefore
  <2> QED BY <1>1, <1>2, <1>5, <2>1, <2>4
<1>7. CASE Decides(CString(a), CString(b), n) # {}
  <2>1. PICK k : k = Min(Decides(CString(a), CString(b), n))
    OBVIOUS
  <2>2. Decision(a, b, n, k)
    BY <1>7, <2>1, Decided
  <2>3. k \in 1 .. n /\ Deciding(a, b, k) /\ k \in Nat \ {0} /\ k \in 1 .. n + 1
    BY <2>2 DEF Decision
  <2>4. r = CharAt(a, k) - CharAt(b, k)
    BY <1>5, <1>7, <2>1, <2>2 DEF strncmp, Decision
  <2>5. /\ r = 0 <=> CharAt(a, k) = CharAt(b, k)
        /\ r < 0 <=> CharAt(a, k) < CharAt(b, k)
        /\ r > 0 <=> CharAt(b, k) < CharAt(a, k)
        /\ r = 0 => ~(r < 0) /\ ~(r > 0)
    <3>1. PICK u : u = CharAt(a, k)
      OBVIOUS
    <3>2. PICK v : v = CharAt(b, k)
      OBVIOUS
    <3>3. u \in 0 .. 255 /\ v \in 0 .. 255
      BY <2>3, <3>1, <3>2, CharCode
    <3>4. r = u - v
      BY <2>4, <3>1, <3>2
    <3>5. (r = 0 <=> u = v) /\ (r < 0 <=> u < v) /\ (r > 0 <=> v < u) /\ (r = 0 => ~(r < 0) /\ ~(r > 0))
      BY <3>3, <3>4
    <3> QED BY <3>1, <3>2, <3>5
  <2>6. Shared(f, g, k)
    BY <1>3, <2>2, <2>3, StartsShare DEF Decision
  <2>7. CharAt(f, k) = CharAt(a, k) /\ CharAt(g, k) = CharAt(b, k)
    BY <1>3, <2>3, StartChars
  <2>8. CASE CharAt(a, k) = CharAt(b, k)
    <3>1. CharAt(f, k) = 0 /\ CharAt(g, k) = 0
      BY <2>3, <2>7, <2>8 DEF Deciding
    <3>2. k > Len(f) /\ k > Len(g)
      <4>1. ~(k <= Len(f)) /\ ~(k <= Len(g))
        BY <1>4, <2>3, <3>1, CharCode
      <4> QED BY <1>4, <2>3, <4>1
    <3>3. Shared(f, g, Len(g) + 1) /\ Shared(g, f, Len(f) + 1)
      BY <1>4, <2>3, <2>6, <3>2, SameToTheEnd
    <3>4. ~Before(f, g) /\ ~Before(g, f)
      BY <1>4, <3>3, NotBefore
    <3> QED BY <1>1, <1>2, <1>5, <2>5, <2>8, <3>4, Zenon
  <2>9. CASE CharAt(a, k) # CharAt(b, k)
    <3>1. Before(f, g) <=> CharAt(a, k) < CharAt(b, k)
      BY <1>4, <2>3, <2>6, <2>7, <2>9, OrderAt
    <3>2. Before(g, f) <=> CharAt(b, k) < CharAt(a, k)
      <4>1. Shared(g, f, k)
        BY <2>6, SharedBackwards
      <4> QED BY <1>4, <2>3, <4>1, <2>7, <2>9, OrderAt
    <3> QED BY <1>1, <1>2, <1>5, <2>5, <3>1, <3>2, Zenon
  <2> QED BY <2>8, <2>9
<1> QED BY <1>6, <1>7

LEMMA SignedIs ==
  ASSUME NEW c \in 0 .. 255, NEW d \in 0 .. 255
  PROVE  /\ Signed(c) - Signed(d) \in Int
         /\ Signed(c) - Signed(d) = 0 <=> c = d
         /\ c <= 127 /\ d <= 127 => (Signed(c) - Signed(d) < 0 <=> c < d)
BY DEF Signed

LEMMA StrcmpOrders ==
  ASSUME NEW a \in Seq(1 .. 255), NEW b \in Seq(1 .. 255)
  PROVE  /\ strcmp(CString(a), CString(b)) = 0 <=> a = b
         /\ ToSet(a \o b) \subseteq 0 .. 127
              => (strcmp(CString(a), CString(b)) < 0 <=> Before(a, b))
<1>1. Len(a) \in Nat /\ Len(b) \in Nat /\ Len(CString(a)) = Len(a) + 1
  BY CStringIs
<1>2. PICK n \in Nat : n = Len(a) + 1
  BY <1>1
<1>3. Decides(CString(a), CString(b), n) # {}
  <2> SUFFICES ASSUME Decides(CString(a), CString(b), n) = {} PROVE FALSE
    OBVIOUS
  <2>1. Shared(a, b, n + 1)
    BY Undecided
  <2>2. Len(a) + 1 \in 1 .. (n + 1) - 1
    BY <1>1, <1>2
  <2>3. Len(a) + 1 <= Len(a)
    BY <2>1, <2>2 DEF Shared
  <2> QED BY <1>1, <2>3
<1>4. PICK k : k = Min(Decides(CString(a), CString(b), n))
  OBVIOUS
<1>5. Decision(a, b, n, k)
  BY <1>3, <1>4, Decided
<1>6. /\ Deciding(a, b, k) /\ Shared(a, b, k) /\ k \in Nat \ {0}
      /\ k <= Len(a) + 1 /\ k <= Len(b) + 1
  BY <1>5 DEF Decision
<1>7. PICK r : r = strcmp(CString(a), CString(b))
  OBVIOUS
<1>8. r = Signed(CharAt(a, k)) - Signed(CharAt(b, k))
  <2>1. CString(a)[k] = CharAt(a, k) /\ CString(b)[k] = CharAt(b, k)
    BY <1>5 DEF Decision
  <2> QED BY <1>1, <1>2, <1>4, <1>7, <2>1 DEF strcmp
<1>9. CharAt(a, k) \in 0 .. 255 /\ CharAt(b, k) \in 0 .. 255
  BY <1>6, CharCode
<1>10. CASE CharAt(a, k) = CharAt(b, k)
  <2>1. k > Len(a) /\ k > Len(b)
    <3>1. CharAt(a, k) = 0 /\ CharAt(b, k) = 0
      BY <1>6, <1>10 DEF Deciding
    <3>2. ~(k <= Len(a)) /\ ~(k <= Len(b))
      BY <1>6, <3>1, CharCode
    <3> QED BY <1>1, <1>6, <3>2
  <2>2. Len(a) = Len(b) /\ Shared(a, b, Len(b) + 1)
    BY <1>6, <2>1, SameToTheEnd
  <2>3. a = b
    <3>1. \A i \in 1 .. Len(a) : a[i] = b[i]
      <4>1. \A i \in 1 .. Len(a) : i \in 1 .. (Len(b) + 1) - 1
        BY <1>1, <2>2
      <4> QED BY <2>2, <4>1 DEF Shared
    <3> QED BY <2>2, <3>1, SeqEqual
  <2>4. ~Before(a, b)
    BY <2>2, NotBefore
  <2>5. r = 0
    BY <1>8, <1>9, <1>10, SignedIs
  <2> QED BY <1>7, <2>3, <2>4, <2>5
<1>11. CASE CharAt(a, k) # CharAt(b, k)
  <2>1. a # b
    BY <1>11
  <2>2. r # 0
    BY <1>8, <1>9, <1>11, SignedIs
  <2>3. Before(a, b) <=> CharAt(a, k) < CharAt(b, k)
    BY <1>6, <1>11, OrderAt
  <2>4. ASSUME ToSet(a \o b) \subseteq 0 .. 127
        PROVE  CharAt(a, k) <= 127 /\ CharAt(b, k) <= 127
    <3>1. \A i \in 1 .. Len(a \o b) : (a \o b)[i] \in 0 .. 127
      <4>1. PICK w : w = a \o b
        OBVIOUS
      <4>2. DOMAIN w = 1 .. Len(w)
        BY <4>1
      <4>3. \A i \in DOMAIN w : w[i] \in ToSet(w)
        BY DEF ToSet
      <4>4. \A i \in 1 .. Len(w) : w[i] \in 0 .. 127
        BY <2>4, <4>1, <4>2, <4>3, Zenon
      <4> QED BY <4>1, <4>4, Zenon
    <3>2. \A i \in 1 .. Len(a) : a[i] <= 127
      <4> TAKE i \in 1 .. Len(a)
      <4>1. i \in 1 .. Len(a \o b) /\ (a \o b)[i] = a[i]
        OBVIOUS
      <4>2. a[i] \in 0 .. 127
        BY <3>1, <4>1, Zenon
      <4>3. \A v \in 0 .. 127 : v <= 127
        OBVIOUS
      <4> QED BY <4>2, <4>3, Zenon
    <3>3. \A i \in 1 .. Len(b) : b[i] <= 127
      <4> TAKE i \in 1 .. Len(b)
      <4>1. Len(a) + i \in 1 .. Len(a \o b) /\ (a \o b)[Len(a) + i] = b[i]
        OBVIOUS
      <4>2. b[i] \in 0 .. 127
        BY <3>1, <4>1, Zenon
      <4>3. \A v \in 0 .. 127 : v <= 127
        OBVIOUS
      <4> QED BY <4>2, <4>3, Zenon
    <3>4. k <= Len(a) => k \in 1 .. Len(a)
      BY <1>1, <1>6
    <3>5. k <= Len(b) => k \in 1 .. Len(b)
      BY <1>1, <1>6
    <3> QED BY <3>2, <3>3, <3>4, <3>5 DEF CharAt, NUL
  <2>5. ToSet(a \o b) \subseteq 0 .. 127 => (r < 0 <=> CharAt(a, k) < CharAt(b, k))
    BY <1>8, <1>9, <2>4, SignedIs
  <2> QED BY <1>7, <2>1, <2>2, <2>3, <2>5
<1> QED BY <1>10, <1>11

-----------------------------------------------------------------------------
(* istrncmp *)

\* A string in small letters.
Small(w) == [i \in 1 .. Len(w) |-> tolower(w[i])]

LEMMA SameLetterIs ==
  ASSUME NEW c \in 1 .. 255, NEW d \in 1 .. 255
  PROVE  SameLetter(c, d) <=> tolower(c) = tolower(d)
<1>1. Min({c, d}) \in {c, d} /\ Min({c, d}) <= c /\ Min({c, d}) <= d
  <2>1. {c, d} \in SUBSET Nat /\ {c, d} # {}
    OBVIOUS
  <2> QED BY <2>1, MinOfNaturals
<1>2. PICK m : m = Min({c, d})
  OBVIOUS
<1>3. m \in {c, d} /\ m <= c /\ m <= d
  BY <1>1, <1>2
<1>4. SameLetter(c, d) <=> c = d \/ (c - d \in {32, -32} /\ m \in 64 .. 90)
  BY <1>2 DEF SameLetter
<1> QED BY <1>3, <1>4 DEF tolower

LEMMA SmallIs ==
  ASSUME NEW w \in Seq(1 .. 255)
  PROVE  /\ Small(w) \in Seq(1 .. 255) /\ Len(Small(w)) = Len(w)
         /\ \A i \in 1 .. Len(w) : Small(w)[i] = tolower(w[i])
         /\ [i \in 1 .. Len(CString(w)) |-> tolower(CString(w)[i])] = CString(Small(w))
<1>1. Len(w) \in Nat
  OBVIOUS
<1>2. \A c \in 1 .. 255 : tolower(c) \in 1 .. 255
  BY DEF tolower
<1>3. \A i \in 1 .. Len(w) : tolower(w[i]) \in 1 .. 255
  <2> TAKE i \in 1 .. Len(w)
  <2>1. w[i] \in 1 .. 255
    BY ElementOfSeq
  <2> QED BY <1>2, <2>1, Zenon
<1>4. PICK v : v = Small(w)
  OBVIOUS
<1>5. v \in [1 .. Len(w) -> 1 .. 255] /\ \A i \in 1 .. Len(w) : v[i] = tolower(w[i])
  BY <1>3, <1>4, Zenon DEF Small
<1>6. v \in Seq(1 .. 255) /\ Len(v) = Len(w)
  <2>1. PICK n \in Nat : n = Len(w)
    BY <1>1
  <2>2. v \in [1 .. n -> 1 .. 255]
    BY <1>5, <2>1, Zenon
  <2>3. v \in Seq(1 .. 255) /\ Len(v) = n
    BY <2>2
  <2> QED BY <2>1, <2>3
<1>7. PICK A : A = CString(w)
  OBVIOUS
<1>8. PICK B : B = CString(v)
  OBVIOUS
<1>9. /\ Len(A) = Len(w) + 1 /\ \A i \in 1 .. Len(w) + 1 : A[i] = CharAt(w, i)
      /\ Len(B) = Len(w) + 1 /\ \A i \in 1 .. Len(w) + 1 : B[i] = CharAt(v, i)
      /\ B \in Seq(0 .. 255)
  BY <1>6, <1>7, <1>8, CStringIs
<1>10. ASSUME NEW i \in 1 .. Len(w) + 1 PROVE tolower(A[i]) = B[i]
  <2>1. CASE i <= Len(w)
    <3>1. i \in 1 .. Len(w)
      BY <1>1, <2>1
    <3>2. CharAt(w, i) = w[i] /\ CharAt(v, i) = v[i]
      BY <1>6, <2>1 DEF CharAt
    <3> QED BY <1>5, <1>9, <3>1, <3>2, Zenon
  <2>2. CASE ~(i <= Len(w))
    <3>1. CharAt(w, i) = 0 /\ CharAt(v, i) = 0
      BY <1>6, <2>2 DEF CharAt, NUL
    <3>2. tolower(0) = 0
      BY DEF tolower
    <3> QED BY <1>9, <3>1, <3>2, Zenon
  <2> QED BY <2>1, <2>2
<1>11. [i \in 1 .. Len(A) |-> tolower(A[i])] = B
  <2>1. B = [i \in 1 .. Len(w) + 1 |-> B[i]]
    BY <1>9
  <2>2. [i \in 1 .. Len(w) + 1 |-> tolower(A[i])] = [i \in 1 .. Len(w) + 1 |-> B[i]]
    BY <1>10, Zenon
  <2> QED BY <1>9, <2>1, <2>2, Zenon
<1> QED BY <1>4, <1>5, <1>6, <1>7, <1>8, <1>11

\* The letters of the strings are the same, in capitals or not.
SameLetters(f, g, a, b) ==
  /\ Len(f) = Len(g)
  /\ \A i \in 1 .. Len(f) : SameLetter(a[i], b[i])

LEMMA IstrncmpEquates ==
  ASSUME NEW a \in Seq(1 .. 255), NEW b \in Seq(1 .. 255), NEW n \in Nat
  PROVE  istrncmp(CString(a), CString(b), n) = 0
           <=> SameLetters(Beginning(a, n), Beginning(b, n), a, b)
<1>1. PICK x : x = Small(a)
  OBVIOUS
<1>2. PICK y : y = Small(b)
  OBVIOUS
<1>3. /\ x \in Seq(1 .. 255) /\ Len(x) = Len(a) /\ \A i \in 1 .. Len(a) : x[i] = tolower(a[i])
      /\ y \in Seq(1 .. 255) /\ Len(y) = Len(b) /\ \A i \in 1 .. Len(b) : y[i] = tolower(b[i])
  BY <1>1, <1>2, SmallIs
<1>4. /\ [i \in 1 .. Len(CString(a)) |-> tolower(CString(a)[i])] = CString(x)
      /\ [i \in 1 .. Len(CString(b)) |-> tolower(CString(b)[i])] = CString(y)
  BY <1>1, <1>2, SmallIs
<1>5. PICK D : D = Decides(CString(x), CString(y), n)
  OBVIOUS
<1>6. PICK r : r = istrncmp(CString(a), CString(b), n)
  OBVIOUS
<1>7. r = IF D = {} THEN 0 ELSE CString(a)[Min(D)] - CString(b)[Min(D)]
  BY <1>4, <1>5, <1>6, Zenon DEF istrncmp
<1>8. PICK f : f = Beginning(a, n)
  OBVIOUS
<1>9. PICK g : g = Beginning(b, n)
  OBVIOUS
<1>10. IsBeginning(f, a, n) /\ IsBeginning(g, b, n)
  BY <1>8, <1>9, StartIs
<1>11. /\ Len(a) \in Nat /\ Len(b) \in Nat /\ Len(f) \in Nat /\ Len(g) \in Nat
       /\ Len(f) <= n /\ Len(g) <= n /\ Len(f) <= Len(a) /\ Len(g) <= Len(b)
       /\ Len(f) = n \/ Len(f) = Len(a)
       /\ Len(g) = n \/ Len(g) = Len(b)
  BY <1>10 DEF IsBeginning
<1>12. ASSUME NEW i \in 1 .. Len(a), i \in 1 .. Len(b)
       PROVE  SameLetter(a[i], b[i]) <=> x[i] = y[i]
  <2>1. a[i] \in 1 .. 255 /\ b[i] \in 1 .. 255
    BY <1>12, ElementOfSeq
  <2>2. SameLetter(a[i], b[i]) <=> tolower(a[i]) = tolower(b[i])
    BY <2>1, SameLetterIs
  <2> QED BY <1>3, <1>12, <2>2
<1>13. ASSUME NEW k \in 1 .. n + 1, Shared(x, y, k), Len(f) = Len(g), Len(f) < k
       PROVE  SameLetters(f, g, a, b)
  <2> SUFFICES ASSUME NEW i \in 1 .. Len(f) PROVE SameLetter(a[i], b[i])
    BY <1>13 DEF SameLetters
  <2>1. i \in 1 .. k - 1 /\ i \in 1 .. Len(a) /\ i \in 1 .. Len(b)
    BY <1>11, <1>13
  <2>2. x[i] = y[i]
    BY <1>13, <2>1 DEF Shared
  <2> QED BY <1>12, <2>1, <2>2
<1>14. CASE D = {}
  <2>1. r = 0
    BY <1>7, <1>14
  <2>2. Shared(x, y, n + 1)
    BY <1>3, <1>5, <1>14, Undecided
  <2>3. n <= Len(a) /\ n <= Len(b)
    <3>1. CASE n = 0
      BY <1>11, <3>1
    <3>2. CASE n # 0
      <4>1. n \in 1 .. (n + 1) - 1
        BY <3>2
      <4> QED BY <1>3, <2>2, <4>1 DEF Shared
    <3> QED BY <3>1, <3>2
  <2>4. Len(f) = n /\ Len(g) = n
    BY <1>11, <2>3
  <2>5. SameLetters(f, g, a, b)
    <3>1. n + 1 \in 1 .. n + 1 /\ Len(f) < n + 1
      BY <2>4
    <3> QED BY <1>13, <2>2, <2>4, <3>1
  <2> QED BY <1>6, <1>8, <1>9, <2>1, <2>5
<1>15. CASE D # {}
  <2>1. PICK k : k = Min(D)
    OBVIOUS
  <2>2. Decision(x, y, n, k)
    BY <1>3, <1>5, <1>15, <2>1, Decided
  <2>3. /\ k \in 1 .. n /\ k \in Nat \ {0} /\ k \in 1 .. n + 1 /\ Shared(x, y, k) /\ Deciding(x, y, k)
        /\ k <= Len(a) + 1 /\ k <= Len(b) + 1
    BY <1>3, <2>2 DEF Decision
  <2>4. r = CharAt(a, k) - CharAt(b, k)
    <3>1. k \in 1 .. Len(a) + 1 /\ k \in 1 .. Len(b) + 1
      BY <1>11, <2>3
    <3>2. CString(a)[k] = CharAt(a, k) /\ CString(b)[k] = CharAt(b, k)
      BY <3>1, CStringIs
    <3> QED BY <1>7, <1>15, <2>1, <3>2
  <2>5. r = 0 <=> CharAt(a, k) = CharAt(b, k)
    <3>1. CharAt(a, k) \in 0 .. 255 /\ CharAt(b, k) \in 0 .. 255
      BY <2>3, CharCode
    <3>2. \A u, v \in 0 .. 255 : u - v = 0 <=> u = v
      OBVIOUS
    <3> QED BY <2>4, <3>1, <3>2, Zenon
  <2>6. CharAt(x, k) = tolower(CharAt(a, k)) /\ CharAt(y, k) = tolower(CharAt(b, k))
    <3>1. tolower(0) = 0
      BY DEF tolower
    <3>2. k <= Len(a) => k \in 1 .. Len(a)
      BY <1>11, <2>3
    <3>3. k <= Len(b) => k \in 1 .. Len(b)
      BY <1>11, <2>3
    <3>4. CharAt(x, k) = tolower(CharAt(a, k))
      BY <1>3, <3>1, <3>2, Zenon DEF CharAt, NUL
    <3>5. CharAt(y, k) = tolower(CharAt(b, k))
      BY <1>3, <3>1, <3>3, Zenon DEF CharAt, NUL
    <3> QED BY <3>4, <3>5
  <2>7. CASE CharAt(x, k) = CharAt(y, k)
    <3>1. CharAt(x, k) = 0 /\ CharAt(y, k) = 0
      BY <2>3, <2>7 DEF Deciding
    <3>2. ~(k <= Len(a)) /\ ~(k <= Len(b))
      BY <1>3, <2>3, <3>1, CharCode
    <3>3. r = 0
      BY <2>5, <3>2 DEF CharAt
    <3>4. Len(a) = Len(b)
      BY <1>11, <2>3, <3>2
    <3>5. Len(f) = Len(g) /\ Len(f) < k
      BY <1>11, <2>3, <3>2, <3>4
    <3>6. SameLetters(f, g, a, b)
      BY <1>13, <2>3, <3>5
    <3> QED BY <1>6, <1>8, <1>9, <3>3, <3>6
  <2>8. CASE CharAt(x, k) # CharAt(y, k)
    <3>1. r # 0
      BY <2>5, <2>6, <2>8
    <3>2. ASSUME SameLetters(f, g, a, b) PROVE FALSE
      <4>1. Len(f) = Len(g)
        BY <3>2 DEF SameLetters
      <4>2. CASE k <= Len(f)
        <5>1. k \in 1 .. Len(f) /\ k \in 1 .. Len(a) /\ k \in 1 .. Len(b)
          BY <1>11, <2>3, <4>1, <4>2
        <5>2. SameLetter(a[k], b[k])
          BY <3>2, <5>1 DEF SameLetters
        <5>3. x[k] = y[k]
          BY <1>12, <5>1, <5>2
        <5>4. k <= Len(x) /\ k <= Len(y)
          BY <1>3, <5>1
        <5> QED BY <2>8, <5>3, <5>4 DEF CharAt
      <4>3. CASE ~(k <= Len(f))
        <5>1. ~(k <= Len(a)) /\ ~(k <= Len(b))
          BY <1>11, <2>3, <4>1, <4>3
        <5>2. ~(k <= Len(x)) /\ ~(k <= Len(y))
          BY <1>3, <5>1
        <5> QED BY <2>8, <5>2 DEF CharAt
      <4> QED BY <4>2, <4>3
    <3> QED BY <1>6, <1>8, <1>9, <3>1, <3>2
  <2> QED BY <2>7, <2>8
<1> QED BY <1>14, <1>15

-----------------------------------------------------------------------------

LEMMA WordsAreStrings ==
  ASSUME StringsAssumption
  PROVE  Words \subseteq Seq(1 .. 255)
<1> SUFFICES ASSUME NEW w \in Words PROVE w \in Seq(1 .. 255)
  OBVIOUS
<1>1. PICK m \in 0 .. MaxLength : w \in [1 .. m -> CharCodes]
  BY DEF Words, BoundedSeq, SeqOf
<1>2. CharCodes \subseteq 1 .. 255 /\ m \in Nat
  BY DEF StringsAssumption
<1>3. w \in [1 .. m -> 1 .. 255]
  BY <1>1, <1>2
<1> QED BY <1>2, <1>3

\* One call of a comparison.
LEMMA ComparesRight ==
  ASSUME StringsAssumption, Compares
  PROVE  ComparisonsOrder'
<1>1. PICK a \in Words, b \in Words, n \in 0 .. MaxLength + 1 :
        \/ Called("strcmp", [a |-> a, b |-> b, n |-> n], strcmp(CString(a), CString(b)))
        \/ Called("strncmp", [a |-> a, b |-> b, n |-> n], strncmp(CString(a), CString(b), n))
        \/ Called("istrncmp", [a |-> a, b |-> b, n |-> n], istrncmp(CString(a), CString(b), n))
  BY DEF Compares
<1>2. a \in Seq(1 .. 255) /\ b \in Seq(1 .. 255) /\ n \in Nat
  BY WordsAreStrings DEF StringsAssumption
<1>3. arg' = [a |-> a, b |-> b, n |-> n] /\ (arg.a)' = a /\ (arg.b)' = b /\ (arg.n)' = n
  BY <1>1 DEF Called, arg
<1>4. \A w : FirstN(w)' = Beginning(w, n)
  BY <1>3 DEF FirstN, Beginning
<1>5. CASE Called("strcmp", [a |-> a, b |-> b, n |-> n], strcmp(CString(a), CString(b)))
  <2>1. call'.f = "strcmp" /\ result' = strcmp(CString(a), CString(b))
    BY <1>5 DEF Called, result
  <2>2. /\ result' = 0 <=> a = b
        /\ ToSet(a \o b) \subseteq 0 .. 127 => (result' < 0 <=> Before(a, b))
    BY <1>2, <2>1, StrcmpOrders
  <2> QED BY <1>3, <2>1, <2>2 DEF ComparisonsOrder
<1>6. CASE Called("strncmp", [a |-> a, b |-> b, n |-> n], strncmp(CString(a), CString(b), n))
  <2>1. call'.f = "strncmp" /\ result' = strncmp(CString(a), CString(b), n)
    BY <1>6 DEF Called, result
  <2>2. /\ result' < 0 <=> Before(Beginning(a, n), Beginning(b, n))
        /\ result' > 0 <=> Before(Beginning(b, n), Beginning(a, n))
    BY <1>2, <2>1, StrncmpOrders
  <2> QED BY <1>3, <1>4, <2>1, <2>2 DEF ComparisonsOrder
<1>7. CASE Called("istrncmp", [a |-> a, b |-> b, n |-> n], istrncmp(CString(a), CString(b), n))
  <2>1. call'.f = "istrncmp" /\ result' = istrncmp(CString(a), CString(b), n)
    BY <1>7 DEF Called, result
  <2>2. result' = 0 <=> SameLetters(Beginning(a, n), Beginning(b, n), a, b)
    BY <1>2, <2>1, IstrncmpEquates
  <2> QED BY <1>3, <1>4, <2>1, <2>2 DEF ComparisonsOrder, SameLetters
<1> QED BY <1>1, <1>5, <1>6, <1>7

\* For all strings of codes 1 .. 255 and every n: strncmp orders the first n
\* characters as a dictionary does, strcmp returns 0 for equal strings only and
\* orders those below code 128, and istrncmp returns 0 just where the letters
\* are the same.
THEOREM ComparisonsRight == LibrarySpec => []ComparisonsOrder
<1>1. LibraryInit => ComparisonsOrder
  BY DEF LibraryInit, Nothing, ComparisonsOrder
<1>2. ComparisonsOrder /\ [LibraryNext]_libraryVars => ComparisonsOrder'
  <2> SUFFICES ASSUME ComparisonsOrder, [LibraryNext]_libraryVars PROVE ComparisonsOrder'
    OBVIOUS
  <2>1. CASE UNCHANGED call
    BY <2>1 DEF ComparisonsOrder, arg, result, FirstN
  <2>2. CASE Drops
    <3>1. call'.f = "none"
      BY <2>2 DEF Drops, Nothing
    <3> QED BY <3>1 DEF ComparisonsOrder
  <2>3. CASE Compares
    BY <2>3, StringsAssumption, ComparesRight
  <2>4. CASE Converts \/ Moves \/ Prints \/ PrintsInColour
    <3>1. call'.f \notin {"strcmp", "strncmp", "istrncmp"}
      <4>1. CASE Converts
        BY <4>1 DEF Converts, Called
      <4>2. CASE Moves
        BY <4>2 DEF Moves, Called
      <4>3. CASE Prints
        BY <4>3 DEF Prints, Called
      <4>4. CASE PrintsInColour
        BY <4>4 DEF PrintsInColour, Called
      <4> QED BY <2>4, <4>1, <4>2, <4>3, <4>4
    <3> QED BY <3>1 DEF ComparisonsOrder
  <2>5. Calls => Converts \/ Compares \/ Moves \/ Prints \/ PrintsInColour
    BY DEF Calls
  <2>6. Scans \/ Splitting \/ UNCHANGED libraryVars => UNCHANGED call
    BY DEF Scans, Splitting, libraryVars
  <2>7. Scans \/ Splitting \/ Calls \/ Drops \/ UNCHANGED libraryVars
    BY DEF LibraryNext
  <2> QED BY <2>1, <2>2, <2>3, <2>4, <2>5, <2>6, <2>7
<1> QED BY <1>1, <1>2, PTL DEF LibrarySpec

-----------------------------------------------------------------------------
(* Digits *)

Bases == {2, 10, 16}

LEMMA Division ==
  ASSUME NEW base \in Bases, NEW n \in Nat
  PROVE  /\ n \div base \in Nat /\ n % base \in Nat /\ n % base < base
         /\ n = base * (n \div base) + (n % base)
         /\ n < base => n \div base = 0 /\ n % base = n
         /\ n >= base => n \div base > 0 /\ n \div base < n
<1> DEFINE Divides(b) == /\ n \div b \in Nat /\ n % b \in Nat /\ n % b < b
                         /\ n = b * (n \div b) + (n % b)
                         /\ n < b => n \div b = 0 /\ n % b = n
                         /\ n >= b => n \div b > 0 /\ n \div b < n
<1>1. Divides(2) /\ Divides(10) /\ Divides(16)
  OBVIOUS
<1>2. Divides(base)
  <2> HIDE DEF Divides
  <2>1. base = 2 \/ base = 10 \/ base = 16
    BY DEF Bases
  <2> QED BY <1>1, <2>1, Zenon
<1> QED BY <1>2

\* q[k] is what is left of n when k digits have been taken off; nothing is when
\* all L have been.
Quotients(q, L, n, base) ==
  /\ L \in Nat /\ L > 0 /\ q \in [0 .. L -> Nat]
  /\ q[0] = n /\ q[L] = 0
  /\ \A k \in 0 .. L - 1 : q[k + 1] = q[k] \div base
  /\ \A k \in 1 .. L - 1 : q[k] > 0

LEMMA QuotientsExist ==
  ASSUME NEW base \in Bases, NEW m \in Nat
  PROVE  \E L, q : Quotients(q, L, m, base)
<1> DEFINE Without == {n \in Nat : ~ \E L, q : Quotients(q, L, n, base)}
<1> SUFFICES ASSUME Without # {} PROVE FALSE
  OBVIOUS
<1>1. PICK n \in Without : \A l \in Without : n <= l
  <2>1. Without \in SUBSET Nat
    OBVIOUS
  <2> HIDE DEF Without
  <2> QED BY <2>1, MinOfNaturals
<1>2. n \in Nat /\ ~ \E L, q : Quotients(q, L, n, base)
  OBVIOUS
<1>3. n >= base
  <2> SUFFICES ASSUME n < base PROVE FALSE
    BY <1>2 DEF Bases
  <2>1. n \div base = 0
    BY <1>2, Division
  <2>2. PICK q : q = [k \in 0 .. 1 |-> IF k = 0 THEN n ELSE 0]
    OBVIOUS
  <2>3. q \in [0 .. 1 -> Nat] /\ q[0] = n /\ q[1] = 0
    BY <1>2, <2>2
  <2>4. \A k \in 0 .. 1 - 1 : k = 0
    OBVIOUS
  <2>5. 1 .. 1 - 1 = {} /\ 0 + 1 = 1
    OBVIOUS
  <2>6. Quotients(q, 1, n, base)
    BY <2>1, <2>3, <2>4, <2>5 DEF Quotients
  <2> QED BY <1>2, <2>6
<1>4. PICK d : d = n \div base
  OBVIOUS
<1>5. d \in Nat /\ d > 0 /\ d < n
  BY <1>2, <1>3, <1>4, Division
<1>6. d \notin Without
  <2> HIDE DEF Without
  <2> QED BY <1>1, <1>2, <1>5
<1>7. PICK L, p : Quotients(p, L, d, base)
  BY <1>5, <1>6
<1>8. PICK q : q = [k \in 0 .. L + 1 |-> IF k = 0 THEN n ELSE p[k - 1]]
  OBVIOUS
<1>9. /\ L \in Nat /\ L > 0 /\ p \in [0 .. L -> Nat] /\ p[0] = d /\ p[L] = 0
      /\ \A k \in 0 .. L - 1 : p[k + 1] = p[k] \div base
      /\ \A k \in 1 .. L - 1 : p[k] > 0
  BY <1>7 DEF Quotients
<1>10. \A k \in 1 .. L + 1 : k - 1 \in 0 .. L /\ k \in 0 .. L + 1 /\ q[k] = p[k - 1]
  BY <1>8, <1>9
<1>11. q \in [0 .. L + 1 -> Nat] /\ q[0] = n /\ q[L + 1] = 0
  <2>1. \A k \in 0 .. L + 1 : (IF k = 0 THEN n ELSE p[k - 1]) \in Nat
    BY <1>2, <1>9
  <2>2. 0 \in 0 .. L + 1 /\ L + 1 \in 1 .. L + 1 /\ (L + 1) - 1 = L
    BY <1>9
  <2>3. q[L + 1] = 0
    BY <1>9, <1>10, <2>2
  <2> QED BY <1>8, <2>1, <2>2, <2>3
<1>12. \A k \in 0 .. (L + 1) - 1 : q[k + 1] = q[k] \div base
  <2> TAKE k \in 0 .. (L + 1) - 1
  <2>1. k + 1 \in 1 .. L + 1 /\ (k + 1) - 1 = k
    BY <1>9
  <2>2. q[k + 1] = p[k]
    BY <1>10, <2>1
  <2>3. CASE k = 0
    BY <1>4, <1>9, <1>11, <2>2, <2>3
  <2>4. CASE k # 0
    <3>1. PICK i : i = k - 1
      OBVIOUS
    <3>2. i \in 0 .. L - 1 /\ k \in 1 .. L + 1 /\ k = i + 1
      <4>1. k \in Nat /\ k <= L /\ L \in Nat
        BY <1>9
      <4> QED BY <2>4, <3>1, <4>1
    <3>3. q[k] = p[i] /\ p[k] = p[i] \div base
      BY <1>9, <1>10, <3>1, <3>2
    <3> QED BY <2>2, <3>3
  <2> QED BY <2>3, <2>4
<1>13. \A k \in 1 .. (L + 1) - 1 : q[k] > 0
  <2> TAKE k \in 1 .. (L + 1) - 1
  <2>1. k \in 1 .. L + 1 /\ (k - 1 = 0 \/ k - 1 \in 1 .. L - 1)
    BY <1>9
  <2> QED BY <1>5, <1>9, <1>10, <2>1
<1>14. L + 1 \in Nat /\ L + 1 > 0
  BY <1>9
<1>15. Quotients(q, L + 1, n, base)
  BY <1>11, <1>12, <1>13, <1>14 DEF Quotients
<1> QED BY <1>2, <1>15

\* Below the base one digit is all; from the base on, the rest has the others.
LEMMA OneQuotient ==
  ASSUME NEW base \in Bases, NEW n \in Nat, n < base, NEW L, NEW q, Quotients(q, L, n, base)
  PROVE  L = 1
<1>1. /\ L \in Nat /\ L > 0 /\ q[0] = n
      /\ \A k \in 0 .. L - 1 : q[k + 1] = q[k] \div base
      /\ \A k \in 1 .. L - 1 : q[k] > 0
  BY DEF Quotients
<1>2. q[1] = 0
  <2>1. 0 \in 0 .. L - 1 /\ 0 + 1 = 1
    BY <1>1
  <2>2. q[0 + 1] = n \div base
    BY <1>1, <2>1
  <2> QED BY <2>1, <2>2, Division
<1>3. ~(1 \in 1 .. L - 1)
  BY <1>1, <1>2
<1> QED BY <1>1, <1>3

LEMMA MoreQuotients ==
  ASSUME NEW base \in Bases, NEW n \in Nat, n >= base, NEW L, NEW q, Quotients(q, L, n, base)
  PROVE  L > 1 /\ Quotients([k \in 0 .. L - 1 |-> q[k + 1]], L - 1, n \div base, base)
<1>1. /\ L \in Nat /\ L > 0 /\ q \in [0 .. L -> Nat] /\ q[0] = n /\ q[L] = 0
      /\ \A k \in 0 .. L - 1 : q[k + 1] = q[k] \div base
      /\ \A k \in 1 .. L - 1 : q[k] > 0
  BY DEF Quotients
<1>2. q[1] = n \div base /\ q[1] > 0
  <2>1. 0 \in 0 .. L - 1 /\ 0 + 1 = 1
    BY <1>1
  <2>2. q[0 + 1] = n \div base
    BY <1>1, <2>1
  <2> QED BY <2>1, <2>2, Division
<1>3. L > 1
  BY <1>1, <1>2
<1>4. PICK p : p = [k \in 0 .. L - 1 |-> q[k + 1]]
  OBVIOUS
<1>5. PICK K : K = L - 1
  OBVIOUS
<1>6. K \in Nat /\ K > 0 /\ L = K + 1
  BY <1>1, <1>3, <1>5
<1>7. \A k \in 0 .. K : k + 1 \in 0 .. L /\ p[k] = q[k + 1]
  BY <1>4, <1>5, <1>6
<1>8. p \in [0 .. K -> Nat] /\ p[0] = n \div base /\ p[K] = 0
  <2>1. p \in [0 .. K -> Nat]
    BY <1>1, <1>4, <1>5, <1>7
  <2>2. p[0] = q[0 + 1] /\ p[K] = q[K + 1]
    BY <1>6, <1>7
  <2> QED BY <1>1, <1>2, <1>6, <2>1, <2>2
<1>9. \A k \in 0 .. K - 1 : p[k + 1] = p[k] \div base
  <2> TAKE k \in 0 .. K - 1
  <2>1. PICK i : i = k + 1
    OBVIOUS
  <2>2. i \in 0 .. L - 1 /\ k \in 0 .. K /\ i \in 0 .. K
    BY <1>6, <2>1
  <2>3. q[i + 1] = q[i] \div base
    BY <1>1, <2>2
  <2> QED BY <1>7, <2>1, <2>2, <2>3
<1>10. \A k \in 1 .. K - 1 : p[k] > 0
  <2> TAKE k \in 1 .. K - 1
  <2>1. k + 1 \in 1 .. L - 1 /\ k \in 0 .. K
    BY <1>6
  <2> QED BY <1>1, <1>7, <2>1
<1> QED BY <1>3, <1>4, <1>5, <1>6, <1>8, <1>9, <1>10 DEF Quotients

\* The equation of the loop that stores digits, for numbers up to m.
Digiting(base, ten, m, f) ==
  [v \in 0 .. m |-> IF v < base THEN <<DigitChar(v, ten)>>
                                ELSE <<DigitChar(v % base, ten)>> \o f[v \div base]]

LEMMA TenIsBase == 10 \in Bases
BY DEF Bases

LEMMA DigitingExists ==
  ASSUME NEW base \in Bases, NEW ten,NEW m \in Nat
  PROVE  \E f : f = Digiting(base, ten, m, f)
<1> DEFINE Without == {n \in Nat : ~ \E f : f = Digiting(base, ten, n, f)}
<1> SUFFICES ASSUME Without # {} PROVE FALSE
  OBVIOUS
<1>1. PICK n \in Without : \A l \in Without : n <= l
  <2>1. Without \in SUBSET Nat
    OBVIOUS
  <2> HIDE DEF Without
  <2> QED BY <2>1, MinOfNaturals
<1>2. n \in Nat /\ ~ \E f : f = Digiting(base, ten, n, f)
  OBVIOUS
<1>3. n # 0
  <2> SUFFICES ASSUME n = 0 PROVE FALSE
    OBVIOUS
  <2>1. PICK f : f = [v \in 0 .. 0 |-> <<DigitChar(v, ten)>>]
    OBVIOUS
  <2>2. \A v \in 0 .. 0 : v < base
    BY DEF Bases
  <2>3. f = Digiting(base, ten, 0, f)
    BY <2>1, <2>2, Zenon DEF Digiting
  <2> QED BY <1>2, <2>3
<1>4. n - 1 \in Nat /\ n > 0
  BY <1>2, <1>3
<1>5. n - 1 \notin Without
  <2> HIDE DEF Without
  <2> QED BY <1>1, <1>2, <1>4
<1>6. PICK g : g = Digiting(base, ten, n - 1, g)
  BY <1>4, <1>5
<1>7. PICK f : f = [v \in 0 .. n |-> IF v < base THEN <<DigitChar(v, ten)>> ELSE <<DigitChar(v % base, ten)>> \o g[v \div base]]
  OBVIOUS
<1>8. ASSUME NEW v \in 0 .. n, ~(v < base) PROVE f[v \div base] = g[v \div base]
  <2>1. PICK u : u = v \div base
    OBVIOUS
  <2>2. u \in Nat /\ u < v
    <3>1. v \in Nat /\ v >= base
      BY <1>8 DEF Bases
    <3> QED BY <2>1, <3>1, Division
  <2>3. u \in 0 .. n /\ u \in 0 .. n - 1
    BY <1>2, <2>2
  <2>4. f[u] = IF u < base THEN <<DigitChar(u, ten)>> ELSE <<DigitChar(u % base, ten)>> \o g[u \div base]
    BY <1>7, <2>3
  <2>5. g[u] = IF u < base THEN <<DigitChar(u, ten)>> ELSE <<DigitChar(u % base, ten)>> \o g[u \div base]
    BY <1>6, <2>3 DEF Digiting
  <2> QED BY <2>1, <2>4, <2>5, Zenon
<1>9. \A v \in 0 .. n : f[v] = IF v < base THEN <<DigitChar(v, ten)>> ELSE <<DigitChar(v % base, ten)>> \o f[v \div base]
  BY <1>7, <1>8, Zenon
<1>10. f = [v \in 0 .. n |-> f[v]]
  BY <1>7
<1>11. f = Digiting(base, ten, n, f)
  BY <1>9, <1>10, Zenon DEF Digiting
<1> QED BY <1>2, <1>11

\* The equation of the loop that counts digits.
DigitCounting(m, f) == [v \in 0 .. m |-> IF v < 10 THEN 1 ELSE 1 + f[v \div 10]]

LEMMA DigitCountingExists ==
  ASSUME NEW m \in Nat
  PROVE  \E f : f = DigitCounting(m, f)
<1> DEFINE Without == {n \in Nat : ~ \E f : f = DigitCounting(n, f)}
<1> SUFFICES ASSUME Without # {} PROVE FALSE
  OBVIOUS
<1>1. PICK n \in Without : \A l \in Without : n <= l
  <2>1. Without \in SUBSET Nat
    OBVIOUS
  <2> HIDE DEF Without
  <2> QED BY <2>1, MinOfNaturals
<1>2. n \in Nat /\ ~ \E f : f = DigitCounting(n, f)
  OBVIOUS
<1>3. n # 0
  <2> SUFFICES ASSUME n = 0 PROVE FALSE
    OBVIOUS
  <2>1. PICK f : f = [v \in 0 .. 0 |-> 1]
    OBVIOUS
  <2>2. \A v \in 0 .. 0 : v < 10
    BY DEF Bases
  <2>3. f = DigitCounting(0, f)
    BY <2>1, <2>2, Zenon DEF DigitCounting
  <2> QED BY <1>2, <2>3
<1>4. n - 1 \in Nat /\ n > 0
  BY <1>2, <1>3
<1>5. n - 1 \notin Without
  <2> HIDE DEF Without
  <2> QED BY <1>1, <1>2, <1>4
<1>6. PICK g : g = DigitCounting(n - 1, g)
  BY <1>4, <1>5
<1>7. PICK f : f = [v \in 0 .. n |-> IF v < 10 THEN 1 ELSE 1 + g[v \div 10]]
  OBVIOUS
<1>8. ASSUME NEW v \in 0 .. n, ~(v < 10) PROVE f[v \div 10] = g[v \div 10]
  <2>1. PICK u : u = v \div 10
    OBVIOUS
  <2>2. u \in Nat /\ u < v
    <3>1. v \in Nat /\ v >= 10
      BY <1>8 DEF Bases
    <3> QED BY <2>1, <3>1, Division, TenIsBase
  <2>3. u \in 0 .. n /\ u \in 0 .. n - 1
    BY <1>2, <2>2
  <2>4. f[u] = IF u < 10 THEN 1 ELSE 1 + g[u \div 10]
    BY <1>7, <2>3
  <2>5. g[u] = IF u < 10 THEN 1 ELSE 1 + g[u \div 10]
    BY <1>6, <2>3 DEF DigitCounting
  <2> QED BY <2>1, <2>4, <2>5, Zenon
<1>9. \A v \in 0 .. n : f[v] = IF v < 10 THEN 1 ELSE 1 + f[v \div 10]
  BY <1>7, <1>8, Zenon
<1>10. f = [v \in 0 .. n |-> f[v]]
  BY <1>7
<1>11. f = DigitCounting(n, f)
  BY <1>9, <1>10, Zenon DEF DigitCounting
<1> QED BY <1>2, <1>11

LEMMA Prepended ==
  ASSUME NEW S, NEW c \in S, NEW K \in Nat, NEW s \in [1 .. K -> S]
  PROVE  <<c>> \o s = [k \in 1 .. K + 1 |-> IF k = 1 THEN c ELSE s[k - 1]]
<1>1. s \in Seq(S) /\ Len(s) = K /\ <<c>> \in Seq(S)
  BY SMT
<1>2. PICK t : t = <<c>> \o s
  OBVIOUS
<1>3. t \in Seq(S) /\ Len(t) = K + 1
  BY <1>1, <1>2
<1>4. t[1] = c /\ \A k \in 2 .. K + 1 : t[k] = s[k - 1]
  BY <1>1, <1>2
<1>5. DOMAIN t = 1 .. K + 1 /\ t = [k \in 1 .. K + 1 |-> t[k]]
  BY <1>3
<1>6. \A k \in 1 .. K + 1 : t[k] = IF k = 1 THEN c ELSE s[k - 1]
  BY <1>4
<1> QED BY <1>2, <1>5, <1>6, Zenon

\* The digits of a number, the lowest first, are its remainders.
DigitsOf(q, L, base, ten) == [k \in 1 .. L |-> DigitChar(q[k - 1] % base, ten)]

LEMMA DigitCharType ==
  ASSUME NEW d \in Nat, NEW ten \in Nat
  PROVE  DigitChar(d, ten) \in Int
BY DEF DigitChar, Zero

LEMMA LowFirstIs ==
  ASSUME NEW base \in Bases, NEW ten \in Nat, NEW n \in Nat, NEW L, NEW q, Quotients(q, L, n, base)
  PROVE  LowFirst(n, base, ten) = DigitsOf(q, L, base, ten)
<1>1. PICK f : f = (CHOOSE g : g = Digiting(base, ten, n, g))
  OBVIOUS
<1>2. f = Digiting(base, ten, n, f)
  <2>1. \E g : g = Digiting(base, ten, n, g)
    BY DigitingExists
  <2> QED BY <1>1, <2>1
<1>3. LowFirst(n, base, ten) = f[n]
  BY <1>1 DEF LowFirst, Digiting
<1> DEFINE Fine(v) == \A K, p : Quotients(p, K, v, base) => f[v] = DigitsOf(p, K, base, ten)
           Off == {v \in 0 .. n : ~Fine(v)}
<1>4. Off = {}
  <2> SUFFICES ASSUME Off # {} PROVE FALSE
    OBVIOUS
  <2>1. PICK v \in Off : \A u \in Off : v <= u
    <3>1. Off \in SUBSET Nat
      OBVIOUS
    <3> HIDE DEF Off
    <3> QED BY <3>1, MinOfNaturals
  <2>2. v \in 0 .. n /\ v \in Nat
    OBVIOUS
  <2>3. PICK K, p : Quotients(p, K, v, base) /\ f[v] # DigitsOf(p, K, base, ten)
    OBVIOUS
  <2>4. K \in Nat /\ K > 0 /\ p \in [0 .. K -> Nat] /\ p[0] = v
    BY <2>3 DEF Quotients
  <2>5. f[v] = IF v < base THEN <<DigitChar(v, ten)>> ELSE <<DigitChar(v % base, ten)>> \o f[v \div base]
    BY <1>2, <2>2 DEF Digiting
  <2>6. CASE v < base
    <3>1. K = 1 /\ v % base = v
      BY <2>2, <2>3, <2>6, OneQuotient, Division
    <3>2. \A k \in 1 .. 1 : k = 1 /\ p[k - 1] = v
      BY <2>4
    <3>3. DigitsOf(p, 1, base, ten) = [k \in 1 .. 1 |-> DigitChar(v, ten)]
      BY <3>1, <3>2, Zenon DEF DigitsOf
    <3>4. <<DigitChar(v, ten)>> = [k \in 1 .. 1 |-> DigitChar(v, ten)]
      OBVIOUS
    <3> QED BY <2>3, <2>5, <2>6, <3>1, <3>3, <3>4
  <2>7. CASE ~(v < base)
    <3>1. v >= base
      BY <2>2, <2>7 DEF Bases
    <3>2. PICK r : r = [k \in 0 .. K - 1 |-> p[k + 1]]
      OBVIOUS
    <3>3. K > 1 /\ Quotients(r, K - 1, v \div base, base)
      BY <2>2, <2>3, <3>1, <3>2, MoreQuotients
    <3>4. v \div base \in Nat /\ v \div base < v
      BY <2>2, <3>1, Division
    <3>5. v \div base \notin Off
      <4> HIDE DEF Off
      <4> QED BY <2>1, <2>2, <3>4
    <3>6. Fine(v \div base)
      <4> HIDE DEF Fine
      <4> QED BY <2>2, <3>4, <3>5
    <3>7. PICK s : s = DigitsOf(r, K - 1, base, ten)
      OBVIOUS
    <3>8. f[v \div base] = s
      BY <3>3, <3>6, <3>7
    <3>9. PICK e : e = DigitChar(v % base, ten)
      OBVIOUS
    <3>10. \A k \in 0 .. K : p[k] % base \in Nat
      BY <2>4, Division
    <3>11. e \in Int
      BY <2>2, <3>9, Division, DigitCharType
    <3>12. \A k \in 1 .. K - 1 : k - 1 \in 0 .. K - 1 /\ r[k - 1] = p[k]
      <4> TAKE k \in 1 .. K - 1
      <4>1. PICK i : i = k - 1
        OBVIOUS
      <4>2. i \in 0 .. K - 1 /\ i + 1 = k
        BY <2>4, <4>1
      <4> QED BY <3>2, <4>1, <4>2
    <3>13. s = [k \in 1 .. K - 1 |-> DigitChar(p[k] % base, ten)]
      BY <3>7, <3>12, Zenon DEF DigitsOf
    <3>14. s \in [1 .. K - 1 -> Int]
      <4>1. \A k \in 1 .. K - 1 : DigitChar(p[k] % base, ten) \in Int
        <5> TAKE k \in 1 .. K - 1
        <5>1. p[k] % base \in Nat
          BY <2>4, <3>10
        <5> QED BY <5>1, DigitCharType
      <4> QED BY <3>13, <4>1
    <3>15. f[v] = <<e>> \o s
      BY <2>5, <2>7, <3>8, <3>9
    <3>16. <<e>> \o s = [k \in 1 .. K |-> IF k = 1 THEN e ELSE s[k - 1]]
      <4>1. PICK M : M = K - 1
        OBVIOUS
      <4>2. M \in Nat /\ M + 1 = K
        BY <2>4, <4>1
      <4> QED BY <3>11, <3>14, <4>1, <4>2, Prepended
    <3>17. \A k \in 1 .. K : (IF k = 1 THEN e ELSE s[k - 1]) = DigitChar(p[k - 1] % base, ten)
      <4> TAKE k \in 1 .. K
      <4>1. CASE k = 1
        BY <2>4, <3>9, <4>1
      <4>2. CASE k # 1
        <5>1. k - 1 \in 1 .. K - 1
          BY <2>4, <4>2
        <5> QED BY <3>13, <4>2, <5>1
      <4> QED BY <4>1, <4>2
    <3>18. f[v] = DigitsOf(p, K, base, ten)
      BY <3>15, <3>16, <3>17, Zenon DEF DigitsOf
    <3> QED BY <2>3, <3>18
  <2> QED BY <2>6, <2>7
<1>5. Fine(n)
  <2>1. n \in 0 .. n
    BY SMT
  <2> HIDE DEF Fine
  <2> QED BY <1>4, <2>1
<1> QED BY <1>3, <1>5

LEMMA NumDigitsIs ==
  ASSUME NEW n \in Nat, NEW L, NEW q, Quotients(q, L, n, 10)
  PROVE  NumDigits(n) = L
<1>1. PICK f : f = (CHOOSE g : g = DigitCounting(n, g))
  OBVIOUS
<1>2. f = DigitCounting(n, f)
  <2>1. \E g : g = DigitCounting(n, g)
    BY DigitCountingExists
  <2> QED BY <1>1, <2>1
<1>3. NumDigits(n) = f[n]
  BY <1>1 DEF NumDigits, DigitCounting
<1> DEFINE Fine(v) == \A K, p : Quotients(p, K, v, 10) => f[v] = K
           Off == {v \in 0 .. n : ~Fine(v)}
<1>4. Off = {}
  <2> SUFFICES ASSUME Off # {} PROVE FALSE
    OBVIOUS
  <2>1. PICK v \in Off : \A u \in Off : v <= u
    <3>1. Off \in SUBSET Nat
      OBVIOUS
    <3> HIDE DEF Off
    <3> QED BY <3>1, MinOfNaturals
  <2>2. v \in 0 .. n /\ v \in Nat
    OBVIOUS
  <2>3. PICK K, p : Quotients(p, K, v, 10) /\ f[v] # K
    OBVIOUS
  <2>4. K \in Nat
    BY <2>3 DEF Quotients
  <2>5. f[v] = IF v < 10 THEN 1 ELSE 1 + f[v \div 10]
    BY <1>2, <2>2 DEF DigitCounting
  <2>6. CASE v < 10
    BY <2>2, <2>3, <2>5, <2>6, TenIsBase, OneQuotient
  <2>7. CASE ~(v < 10)
    <3>1. v >= 10
      BY <2>2, <2>7
    <3>2. PICK r : r = [k \in 0 .. K - 1 |-> p[k + 1]]
      OBVIOUS
    <3>3. Quotients(r, K - 1, v \div 10, 10)
      BY <2>2, <2>3, <3>1, <3>2, TenIsBase, MoreQuotients
    <3>4. v \div 10 \in Nat /\ v \div 10 < v
      BY <2>2, <3>1, TenIsBase, Division
    <3>5. v \div 10 \notin Off
      <4> HIDE DEF Off
      <4> QED BY <2>1, <2>2, <3>4
    <3>6. Fine(v \div 10)
      <4> HIDE DEF Fine
      <4> QED BY <2>2, <3>4, <3>5
    <3>7. f[v \div 10] = K - 1
      BY <3>3, <3>6
    <3>8. f[v] = 1 + (K - 1)
      BY <2>5, <2>7, <3>7
    <3> QED BY <2>3, <2>4, <3>8
  <2> QED BY <2>6, <2>7
<1>5. Fine(n)
  <2>1. n \in 0 .. n
    BY SMT
  <2> HIDE DEF Fine
  <2> QED BY <1>4, <2>1
<1> QED BY <1>3, <1>5

\* The digits of a number as they are read, the highest first.
HighFirst(q, L, base, ten) == [k \in 1 .. L |-> DigitChar(q[L - k] % base, ten)]

LEMMA ReversedDigits ==
  ASSUME NEW base \in Bases, NEW ten \in Nat, NEW n \in Nat, NEW L, NEW q, Quotients(q, L, n, base)
  PROVE  /\ DigitsOf(q, L, base, ten) \in Seq(Int) /\ Len(DigitsOf(q, L, base, ten)) = L
         /\ Reverse(DigitsOf(q, L, base, ten)) = HighFirst(q, L, base, ten)
<1>1. L \in Nat /\ q \in [0 .. L -> Nat]
  BY DEF Quotients
<1>2. PICK s : s = DigitsOf(q, L, base, ten)
  OBVIOUS
<1>3. \A k \in 1 .. L : s[k] = DigitChar(q[k - 1] % base, ten)
  BY <1>2 DEF DigitsOf
<1>4. s \in [1 .. L -> Int]
  <2>1. \A k \in 1 .. L : DigitChar(q[k - 1] % base, ten) \in Int
    <3> TAKE k \in 1 .. L
    <3>1. q[k - 1] \in Nat
      BY <1>1
    <3>2. q[k - 1] % base \in Nat
      BY <3>1, Division
    <3> QED BY <3>2, DigitCharType
  <2> QED BY <1>2, <2>1 DEF DigitsOf
<1>5. s \in Seq(Int) /\ Len(s) = L
  BY <1>1, <1>4
<1>6. \A k \in 1 .. L : s[(L - k) + 1] = DigitChar(q[L - k] % base, ten)
  <2> TAKE k \in 1 .. L
  <2>1. PICK i : i = (L - k) + 1
    OBVIOUS
  <2>2. i \in 1 .. L /\ i - 1 = L - k
    BY <1>1, <2>1
  <2> QED BY <1>3, <2>1, <2>2
<1>7. Reverse(s) = [k \in 1 .. L |-> s[(L - k) + 1]]
  BY <1>5, Zenon DEF Reverse
<1>8. Reverse(s) = HighFirst(q, L, base, ten)
  BY <1>6, <1>7, Zenon DEF HighFirst
<1> QED BY <1>2, <1>5, <1>8

LEMMA DigitCharIs ==
  ASSUME NEW d \in Nat, d < 16
  PROVE  /\ DigitChar(d, UpperA) \in 1 .. 255 /\ DigitChar(d, UpperA) >= Zero
         /\ DigitValue(DigitChar(d, UpperA)) = d
         /\ d < 10 => DigitChar(d, UpperA) \in Zero .. Zero + 9 /\ DigitChar(d, UpperA) = Zero + d
         /\ DigitChar(d, UpperA) = Zero => d = 0
BY DEF DigitChar, DigitValue, UpperA, Zero

LEMMA HighFirstIs ==
  ASSUME NEW base \in Bases, NEW n \in Nat, NEW L, NEW q, Quotients(q, L, n, base),
         NEW d, d = HighFirst(q, L, base, UpperA)
  PROVE  /\ L \in Nat /\ L > 0 /\ d \in Seq(1 .. 255) /\ Len(d) = L /\ DOMAIN d = 1 .. L
         /\ \A k \in 1 .. L : /\ d[k] >= Zero /\ DigitValue(d[k]) \in 0 .. base - 1
                              /\ DigitValue(d[k]) = q[L - k] % base
                              /\ base = 10 => d[k] \in Zero .. Zero + 9 /\ d[k] - Zero = q[L - k] % base
         /\ d[1] = Zero => L = 1
<1>1. /\ L \in Nat /\ L > 0 /\ q \in [0 .. L -> Nat] /\ q[L] = 0
      /\ \A k \in 0 .. L - 1 : q[k + 1] = q[k] \div base
      /\ \A k \in 1 .. L - 1 : q[k] > 0
  BY DEF Quotients
<1>2. base \in Nat /\ base <= 16
  BY DEF Bases
<1>3. ASSUME NEW k \in 1 .. L
      PROVE  /\ L - k \in 0 .. L - 1 /\ q[L - k] % base \in Nat /\ q[L - k] % base < base
             /\ d[k] = DigitChar(q[L - k] % base, UpperA)
  <2>1. L - k \in 0 .. L - 1 /\ L - k \in 0 .. L
    BY <1>1
  <2>2. q[L - k] \in Nat
    BY <1>1, <2>1
  <2> QED BY <2>1, <2>2, Division DEF HighFirst
<1>4. ASSUME NEW k \in 1 .. L
      PROVE  /\ d[k] \in 1 .. 255 /\ d[k] >= Zero /\ DigitValue(d[k]) \in 0 .. base - 1
             /\ DigitValue(d[k]) = q[L - k] % base
             /\ base = 10 => d[k] \in Zero .. Zero + 9 /\ d[k] - Zero = q[L - k] % base
  <2>1. PICK r : r = q[L - k] % base
    OBVIOUS
  <2>2. r \in Nat /\ r < base /\ r < 16 /\ d[k] = DigitChar(r, UpperA)
    BY <1>2, <1>3, <2>1
  <2>3. d[k] \in 1 .. 255 /\ d[k] >= Zero /\ DigitValue(d[k]) = r
    BY <2>2, DigitCharIs
  <2>4. base = 10 => d[k] \in Zero .. Zero + 9 /\ d[k] - Zero = r
    BY <2>2, DigitCharIs DEF Zero
  <2> QED BY <1>2, <2>1, <2>2, <2>3, <2>4
<1>5. d \in [1 .. L -> 1 .. 255]
  BY <1>4 DEF HighFirst
<1>6. d \in Seq(1 .. 255) /\ Len(d) = L /\ DOMAIN d = 1 .. L
  BY <1>1, <1>5
<1>7. d[1] = Zero => L = 1
  <2> SUFFICES ASSUME d[1] = Zero, L # 1 PROVE FALSE
    OBVIOUS
  <2>1. PICK i : i = L - 1
    OBVIOUS
  <2>2. i \in 1 .. L - 1 /\ i \in 0 .. L - 1 /\ i + 1 = L /\ 1 \in 1 .. L
    BY <1>1, <2>1
  <2>3. q[i] \in Nat /\ q[i] > 0 /\ q[i] \div base = 0
    <3>1. q[i + 1] = q[i] \div base
      BY <1>1, <2>2
    <3>2. q[i] \in Nat /\ q[i] > 0
      BY <1>1, <2>2
    <3> QED BY <1>1, <2>2, <3>1, <3>2
  <2>4. q[i] < base
    BY <1>2, <2>3, Division
  <2>5. q[i] % base = q[i]
    BY <2>3, <2>4, Division
  <2>6. d[1] = DigitChar(q[i], UpperA)
    BY <1>3, <2>1, <2>2, <2>5
  <2>7. q[i] < 16
    BY <1>2, <2>3, <2>4
  <2> QED BY <2>3, <2>6, <2>7, DigitCharIs
<1> QED BY <1>1, <1>4, <1>6, <1>7

\* What has been read of the digits after k of them.
LEMMA ReadBack ==
  ASSUME NEW base \in Bases, NEW n \in Nat, NEW L, NEW q, Quotients(q, L, n, base), NEW k \in 1 .. L
  PROVE  q[L - k] = base * q[L - (k - 1)] + (q[L - k] % base)
<1>1. /\ L \in Nat /\ q \in [0 .. L -> Nat]
      /\ \A i \in 0 .. L - 1 : q[i + 1] = q[i] \div base
  BY DEF Quotients
<1>2. PICK i : i = L - k
  OBVIOUS
<1>3. i \in 0 .. L - 1 /\ i \in 0 .. L /\ i + 1 = L - (k - 1)
  BY <1>1, <1>2
<1>4. q[i] \in Nat /\ q[i + 1] = q[i] \div base
  BY <1>1, <1>3
<1>5. q[i] = base * (q[i] \div base) + (q[i] % base)
  BY <1>4, Division
<1> QED BY <1>2, <1>3, <1>4, <1>5

LEMMA WrittenIs ==
  ASSUME NEW base \in Bases, NEW n \in Nat, NEW L, NEW q, Quotients(q, L, n, base),
         NEW d, d = HighFirst(q, L, base, UpperA)
  PROVE  Written(d, base) = n
<1> DEFINE Reading(f) == [k \in 0 .. L |-> IF k = 0 THEN 0 ELSE base * f[k - 1] + DigitValue(d[k])]
<1>1. /\ L \in Nat /\ L > 0 /\ Len(d) = L
      /\ \A k \in 1 .. L : DigitValue(d[k]) = q[L - k] % base
  BY HighFirstIs
<1>2. PICK f : f = (CHOOSE g : g = Reading(g))
  OBVIOUS
<1>3. Written(d, base) = f[L]
  BY <1>1, <1>2, Zenon DEF Written
<1>4. q[0] = n /\ q[L] = 0
  BY DEF Quotients
<1>5. PICK v : v = [k \in 0 .. L |-> q[L - k]]
  OBVIOUS
<1>6. \A k \in 0 .. L : v[k] = IF k = 0 THEN 0 ELSE base * v[k - 1] + DigitValue(d[k])
  <2> TAKE k \in 0 .. L
  <2>1. CASE k = 0
    BY <1>1, <1>4, <1>5, <2>1
  <2>2. CASE k # 0
    <3>1. k \in 1 .. L /\ k - 1 \in 0 .. L
      BY <1>1, <2>2
    <3>2. v[k] = q[L - k] /\ v[k - 1] = q[L - (k - 1)] /\ DigitValue(d[k]) = q[L - k] % base
      BY <1>1, <1>5, <3>1
    <3>3. q[L - k] = base * q[L - (k - 1)] + (q[L - k] % base)
      BY <3>1, ReadBack
    <3> QED BY <2>2, <3>2, <3>3, Zenon
  <2> QED BY <2>1, <2>2
<1>7. v = Reading(v)
  <2>1. v = [k \in 0 .. L |-> v[k]]
    BY <1>5
  <2> QED BY <1>6, <2>1, Zenon
<1>8. f = Reading(f)
  <2> HIDE DEF Reading
  <2> QED BY <1>2, <1>7
<1> DEFINE Off == {k \in 0 .. L : f[k] # v[k]}
<1>9. Off = {}
  <2> SUFFICES ASSUME Off # {} PROVE FALSE
    OBVIOUS
  <2>1. PICK k \in Off : \A i \in Off : k <= i
    <3>1. Off \in SUBSET Nat
      OBVIOUS
    <3> HIDE DEF Off
    <3> QED BY <3>1, MinOfNaturals
  <2>2. k \in 0 .. L /\ f[k] # v[k]
    OBVIOUS
  <2>3. f[k] = IF k = 0 THEN 0 ELSE base * f[k - 1] + DigitValue(d[k])
    BY <1>8, <2>2, Zenon
  <2>4. k # 0
    BY <1>6, <2>2, <2>3, Zenon
  <2>5. k - 1 \in 0 .. L /\ k - 1 < k
    BY <1>1, <2>2, <2>4
  <2>6. k - 1 \notin Off
    <3> HIDE DEF Off
    <3> QED BY <2>1, <2>2, <2>5
  <2>7. f[k - 1] = v[k - 1]
    BY <2>5, <2>6
  <2> QED BY <1>6, <2>2, <2>3, <2>4, <2>7, Zenon
<1>10. f[L] = v[L]
  <2>1. L \in 0 .. L
    BY <1>1
  <2> QED BY <1>9, <2>1
<1>11. v[L] = q[L - L] /\ L - L = 0
  BY <1>1, <1>5
<1> QED BY <1>3, <1>4, <1>10, <1>11

\* Where the digits of a string end that has nothing else.
LEMMA DigitsEnd ==
  ASSUME NEW d \in Seq(1 .. 255), \A k \in 1 .. Len(d) : d[k] \in Zero .. Zero + 9
  PROVE  SelectInSeq(CString(d), LAMBDA c : ~Digit(c)) = Len(d) + 1
<1> DEFINE a == CString(d)
           I == {i \in 1 .. Len(a) : ~Digit(a[i])}
<1>1. Len(d) \in Nat /\ Len(a) = Len(d) + 1 /\ a[Len(d) + 1] = NUL /\ \A k \in 1 .. Len(d) : a[k] = d[k]
  BY DEF CString, NUL
<1>2. SelectInSeq(a, LAMBDA c : ~Digit(c)) = IF I # {} THEN Min(I) ELSE 0
  BY DEF SelectInSeq
<1> HIDE DEF a
<1>3. I = {Len(d) + 1}
  <2>1. ~Digit(a[Len(d) + 1])
    BY <1>1 DEF Digit, NUL, Zero
  <2>2. \A k \in 1 .. Len(d) : Digit(a[k])
    BY <1>1 DEF Digit
  <2> QED BY <1>1, <2>1, <2>2
<1>4. I # {} /\ Min(I) = Len(d) + 1
  <2>1. I \in SUBSET Nat /\ I # {}
    BY <1>1, <1>3
  <2>2. Min(I) \in I
    <3> HIDE DEF I
    <3> QED BY <2>1, MinOfNaturals
  <2> QED BY <1>3, <2>1, <2>2
<1> QED BY <1>2, <1>4 DEF a

LEMMA NumberIs ==
  ASSUME NEW n \in Nat, NEW L, NEW q, Quotients(q, L, n, 10), NEW d, d = HighFirst(q, L, 10, UpperA)
  PROVE  Number(d) = n
<1> DEFINE Reading(f, e) == [i \in 0 .. e - 1 |-> IF i = 0 THEN 0 ELSE f[i - 1] * 10 + (d[i] - Zero)]
<1>1. /\ L \in Nat /\ L > 0 /\ Len(d) = L /\ d \in Seq(1 .. 255)
      /\ \A k \in 1 .. L : d[k] \in Zero .. Zero + 9 /\ d[k] - Zero = q[L - k] % 10
  BY TenIsBase, HighFirstIs
<1>2. SelectInSeq(CString(d), LAMBDA c : ~Digit(c)) = L + 1
  BY <1>1, DigitsEnd
<1>3. PICK f : f = (CHOOSE g : g = Reading(g, L + 1))
  OBVIOUS
<1>4. (L + 1) - 1 = L
  BY <1>1
<1>5. Number(d) = f[(L + 1) - 1]
  BY <1>2, <1>3, Zenon DEF Number
<1>6. q \in [0 .. L -> Nat] /\ q[0] = n /\ q[L] = 0
  BY DEF Quotients
<1>7. PICK v : v = [k \in 0 .. L |-> q[L - k]]
  OBVIOUS
<1>8. \A k \in 0 .. L : v[k] = IF k = 0 THEN 0 ELSE v[k - 1] * 10 + (d[k] - Zero)
  <2> TAKE k \in 0 .. L
  <2>1. CASE k = 0
    BY <1>1, <1>6, <1>7, <2>1
  <2>2. CASE k # 0
    <3>1. k \in 1 .. L /\ k - 1 \in 0 .. L /\ L - (k - 1) \in 0 .. L
      BY <1>1, <2>2
    <3>2. v[k] = q[L - k] /\ v[k - 1] = q[L - (k - 1)] /\ d[k] - Zero = q[L - k] % 10
      BY <1>1, <1>7, <3>1
    <3>3. q[L - k] = 10 * q[L - (k - 1)] + (q[L - k] % 10)
      BY <3>1, TenIsBase, ReadBack
    <3>4. q[L - (k - 1)] \in Nat
      BY <1>6, <3>1
    <3>5. 10 * q[L - (k - 1)] = q[L - (k - 1)] * 10
      BY <3>4
    <3> QED BY <2>2, <3>2, <3>3, <3>5, Zenon
  <2> QED BY <2>1, <2>2
<1>9. v = Reading(v, L + 1)
  <2>1. v = [k \in 0 .. L |-> v[k]]
    BY <1>7
  <2> QED BY <1>4, <1>8, <2>1, Zenon
<1>10. f = Reading(f, L + 1)
  <2> HIDE DEF Reading
  <2> QED BY <1>3, <1>9
<1>11. \A k \in 0 .. L : f[k] = IF k = 0 THEN 0 ELSE f[k - 1] * 10 + (d[k] - Zero)
  BY <1>4, <1>10, Zenon
<1> DEFINE Off == {k \in 0 .. L : f[k] # v[k]}
<1>12. Off = {}
  <2> SUFFICES ASSUME Off # {} PROVE FALSE
    OBVIOUS
  <2>1. PICK k \in Off : \A i \in Off : k <= i
    <3>1. Off \in SUBSET Nat
      OBVIOUS
    <3> HIDE DEF Off
    <3> QED BY <3>1, MinOfNaturals
  <2>2. k \in 0 .. L /\ f[k] # v[k]
    OBVIOUS
  <2>3. k # 0
    BY <1>8, <1>11, <2>2, Zenon
  <2>4. k - 1 \in 0 .. L /\ k - 1 < k
    BY <1>1, <2>2, <2>3
  <2>5. k - 1 \notin Off
    <3> HIDE DEF Off
    <3> QED BY <2>1, <2>2, <2>4
  <2>6. f[k - 1] = v[k - 1]
    BY <2>4, <2>5
  <2> QED BY <1>8, <1>11, <2>2, <2>3, <2>6, Zenon
<1>13. L \in 0 .. L /\ L - L = 0
  BY <1>1
<1>14. f[L] = v[L] /\ v[L] = q[0]
  BY <1>7, <1>12, <1>13
<1> QED BY <1>4, <1>5, <1>6, <1>14

\* There is nothing to skip in front of a number.
LEMMA NothingSkipped ==
  ASSUME NEW s \in Seq(1 .. 255), Len(s) > 0, s[1] \notin {Space, 9, 10}
  PROVE  From(s, SelectInSeq(CString(s), LAMBDA c : c \notin {Space, 9, 10})) = s
<1> DEFINE a == CString(s)
           I == {i \in 1 .. Len(a) : a[i] \notin {Space, 9, 10}}
           e == SelectInSeq(a, LAMBDA c : c \notin {Space, 9, 10})
<1>1. Len(s) \in Nat /\ a \in Seq(0 .. 255) /\ Len(a) = Len(s) + 1 /\ a[1] = s[1]
  BY CStringIs DEF CharAt
<1>2. IsFirst(e, I)
  <2> HIDE DEF a
  <2> QED BY <1>1, SelectNotIn
<1>3. 1 \in I /\ \A m \in I : 1 <= m
  BY <1>1
<1>4. e = 1
  <2>1. Len(a) \in Nat /\ I \subseteq 1 .. Len(a)
    BY <1>1
  <2> HIDE DEF I, e, a
  <2> QED BY <1>2, <1>3, <2>1, FirstIs
<1>5. From(s, 1) = s
  <2>1. 1 \in 1 .. Len(s) + 1 /\ Len(s) \in 1 - 1 .. Len(s) /\ Len(s) = (Len(s) - 1) + 1
    BY <1>1
  <2>2. \A i \in 1 .. (Len(s) - 1) + 1 : s[i] = s[(1 + i) - 1]
    OBVIOUS
  <2> QED BY <2>1, <2>2, SubSeqUnique DEF From
<1> QED BY <1>4, <1>5

LEMMA DigitsShown ==
  ASSUME NEW base \in Bases, NEW n \in Nat, NEW L, NEW q, Quotients(q, L, n, base)
  PROVE  Shown(HighFirst(q, L, base, UpperA), n, base)
<1>1. PICK d : d = HighFirst(q, L, base, UpperA)
  OBVIOUS
<1>2. /\ L \in Nat /\ L > 0 /\ d \in Seq(1 .. 255) /\ Len(d) = L /\ DOMAIN d = 1 .. L
      /\ \A k \in 1 .. L : /\ d[k] >= Zero /\ DigitValue(d[k]) \in 0 .. base - 1
                           /\ base = 10 => d[k] \in Zero .. Zero + 9
      /\ d[1] = Zero => L = 1
  BY <1>1, HighFirstIs
<1>3. Written(d, base) = n /\ AbsValue(n) = n
  BY <1>1, WrittenIs DEF AbsValue
<1>4. base = 10 => atoi(d) = n
  <2> SUFFICES ASSUME base = 10 PROVE atoi(d) = n
    OBVIOUS
  <2>1. Number(d) = n
    BY <1>1, NumberIs
  <2>2. d[1] \in Zero .. Zero + 9
    BY <1>2
  <2>3. d[1] \notin {Space, 9, 10} /\ d[1] # Minus /\ d[1] # 43 /\ Len(d) > 0
    BY <1>2, <2>2 DEF Zero, Space, Minus
  <2>4. From(d, SelectInSeq(CString(d), LAMBDA c : c \notin {Space, 9, 10})) = d
    BY <1>2, <2>3, NothingSkipped
  <2> QED BY <2>1, <2>3, <2>4, Zenon DEF atoi
<1>5. ~(n < 0)
  OBVIOUS
<1> QED BY <1>1, <1>2, <1>3, <1>4, <1>5 DEF Shown

LEMMA MinusInFront ==
  ASSUME NEW d \in Seq(1 .. 255)
  PROVE  /\ <<Minus>> \o d \in Seq(1 .. 255) /\ Len(<<Minus>> \o d) = Len(d) + 1
         /\ (<<Minus>> \o d)[1] = Minus /\ Tail(<<Minus>> \o d) = d
         /\ \A i \in 2 .. Len(d) + 1 : (<<Minus>> \o d)[i] = d[i - 1]
<1>1. PICK s : s = <<Minus>> \o d
  OBVIOUS
<1>2. <<Minus>> \in Seq(1 .. 255) /\ Len(d) \in Nat
  BY DEF Minus
<1>3. s \in Seq(1 .. 255) /\ Len(s) = Len(d) + 1 /\ s[1] = Minus
  BY <1>1, <1>2
<1>4. \A i \in 2 .. Len(d) + 1 : s[i] = d[i - 1]
  BY <1>1, <1>2
<1>5. Tail(s) \in Seq(1 .. 255) /\ Len(Tail(s)) = Len(d) /\ \A i \in 1 .. Len(d) : Tail(s)[i] = s[i + 1]
  BY <1>2, <1>3
<1>6. \A i \in 1 .. Len(d) : Tail(s)[i] = d[i]
  <2> TAKE i \in 1 .. Len(d)
  <2>1. PICK k : k = i + 1
    OBVIOUS
  <2>2. k \in 2 .. Len(d) + 1 /\ k - 1 = i
    BY <1>2, <2>1
  <2> QED BY <1>4, <1>5, <2>1, <2>2
<1>7. Tail(s) = d
  BY <1>5, <1>6, SeqEqual
<1> QED BY <1>1, <1>3, <1>4, <1>7

LEMMA NegativeShown ==
  ASSUME NEW n \in Int, n < 0, NEW L, NEW q, Quotients(q, L, -n, 10)
  PROVE  Shown(<<Minus>> \o HighFirst(q, L, 10, UpperA), n, 10)
<1>1. PICK d : d = HighFirst(q, L, 10, UpperA)
  OBVIOUS
<1>2. -n \in Nat /\ -(-n) = n /\ AbsValue(n) = -n
  BY DEF AbsValue
<1>3. /\ L \in Nat /\ L > 0 /\ d \in Seq(1 .. 255) /\ Len(d) = L
      /\ \A k \in 1 .. L : d[k] >= Zero /\ DigitValue(d[k]) \in 0 .. 10 - 1
      /\ d[1] = Zero => L = 1
  <2>1. PICK m \in Nat : m = -n
    BY <1>2
  <2>2. PICK b \in Bases : b = 10
    BY TenIsBase
  <2>3. Quotients(q, L, m, b) /\ d = HighFirst(q, L, b, UpperA)
    BY <1>1, <2>1, <2>2
  <2>4. /\ L \in Nat /\ L > 0 /\ d \in Seq(1 .. 255) /\ Len(d) = L
        /\ \A k \in 1 .. L : d[k] >= Zero /\ DigitValue(d[k]) \in 0 .. b - 1
        /\ d[1] = Zero => L = 1
    BY <2>3, HighFirstIs
  <2> QED BY <2>2, <2>4
<1>4. Written(d, 10) = -n /\ Number(d) = -n
  BY <1>1, <1>2, TenIsBase, WrittenIs, NumberIs
<1>5. PICK s : s = <<Minus>> \o d
  OBVIOUS
<1>6. s \in Seq(1 .. 255) /\ Len(s) = Len(d) + 1 /\ s[1] = Minus /\ Tail(s) = d
  BY <1>3, <1>5, MinusInFront
<1>7. atoi(s) = n
  <2>1. s[1] \notin {Space, 9, 10} /\ Len(s) > 0 /\ s # <<>>
    BY <1>3, <1>6 DEF Space, Minus
  <2>2. From(s, SelectInSeq(CString(s), LAMBDA c : c \notin {Space, 9, 10})) = s
    BY <1>6, <2>1, NothingSkipped
  <2>3. atoi(s) = -Number(Tail(s))
    BY <1>6, <2>1, <2>2, Zenon DEF atoi
  <2> QED BY <1>2, <1>4, <1>6, <2>3
<1> QED BY <1>1, <1>2, <1>3, <1>4, <1>5, <1>6, <1>7 DEF Shown

LEMMA ReverseIs ==
  ASSUME NEW S, NEW s \in Seq(S)
  PROVE  /\ Reverse(s) \in Seq(S) /\ Len(Reverse(s)) = Len(s)
         /\ \A k \in 1 .. Len(s) : Reverse(s)[k] = s[(Len(s) - k) + 1]
<1>1. PICK L : L = Len(s)
  OBVIOUS
<1>2. L \in Nat /\ \A k \in 1 .. L : s[k] \in S /\ (L - k) + 1 \in 1 .. L
  BY <1>1
<1>3. Reverse(s) = [k \in 1 .. L |-> s[(L - k) + 1]]
  BY <1>1, Zenon DEF Reverse
<1>4. Reverse(s) \in [1 .. L -> S]
  BY <1>2, <1>3
<1>5. Reverse(s) \in Seq(S) /\ Len(Reverse(s)) = L
  BY <1>2, <1>4
<1> QED BY <1>1, <1>3, <1>5

\* What is stored last stands in front in the end.
LEMMA ReverseAppend ==
  ASSUME NEW S, NEW s \in Seq(S), NEW c \in S
  PROVE  Reverse(Append(s, c)) = <<c>> \o Reverse(s)
<1>1. PICK L : L = Len(s)
  OBVIOUS
<1>2. PICK a : a = Append(s, c)
  OBVIOUS
<1>3. L \in Nat /\ a \in Seq(S) /\ Len(a) = L + 1 /\ a[L + 1] = c /\ \A k \in 1 .. L : a[k] = s[k]
  BY <1>1, <1>2, AppendProperties
<1>4. PICK r : r = Reverse(s)
  OBVIOUS
<1>5. r \in Seq(S) /\ Len(r) = L /\ \A k \in 1 .. L : r[k] = s[(L - k) + 1]
  BY <1>1, <1>4, ReverseIs
<1>6. PICK b : b = Reverse(a)
  OBVIOUS
<1>7. b \in Seq(S) /\ Len(b) = L + 1 /\ \A k \in 1 .. L + 1 : b[k] = a[((L + 1) - k) + 1]
  BY <1>3, <1>6, ReverseIs
<1>8. PICK t : t = <<c>> \o r
  OBVIOUS
<1>9. t \in Seq(S) /\ Len(t) = L + 1 /\ t[1] = c /\ \A k \in 2 .. L + 1 : t[k] = r[k - 1]
  BY <1>3, <1>5, <1>8
<1>10. \A k \in 1 .. L + 1 : b[k] = t[k]
  <2> TAKE k \in 1 .. L + 1
  <2>1. CASE k = 1
    <3>1. ((L + 1) - 1) + 1 = L + 1 /\ 1 \in 1 .. L + 1
      BY <1>3
    <3> QED BY <1>3, <1>7, <1>9, <2>1, <3>1
  <2>2. CASE k # 1
    <3>1. PICK i : i = k - 1
      OBVIOUS
    <3>2. i \in 1 .. L /\ k \in 2 .. L + 1 /\ ((L + 1) - k) + 1 = (L - i) + 1 /\ (L - i) + 1 \in 1 .. L
      BY <1>3, <2>2, <3>1
    <3> QED BY <1>3, <1>5, <1>7, <1>9, <3>1, <3>2
  <2> QED BY <2>1, <2>2
<1>11. b = t
  BY <1>7, <1>9, <1>10, SeqEqual
<1> QED BY <1>2, <1>4, <1>6, <1>8, <1>11

LEMMA UnsignedIs ==
  ASSUME NEW base \in Bases, NEW n \in Nat, NEW L, NEW q, Quotients(q, L, n, base)
  PROVE  Unsigned(n, base, UpperA) = HighFirst(q, L, base, UpperA)
<1>1. UpperA \in Nat
  BY DEF UpperA
<1> QED BY <1>1, LowFirstIs, ReversedDigits DEF Unsigned

\* The decimal text of n, of the quotients of its absolute value.
DecimalText(q, L, n) ==
  IF n < 0 THEN <<Minus>> \o HighFirst(q, L, 10, UpperA) ELSE HighFirst(q, L, 10, UpperA)

LEMMA IntToStringIs ==
  ASSUME NEW n \in Int, NEW L, NEW q, Quotients(q, L, AbsValue(n), 10)
  PROVE  intToString(n) = DecimalText(q, L, n)
<1>1. PICK m \in Nat : m = AbsValue(n)
  BY DEF AbsValue
<1>2. UpperA \in Nat /\ Minus \in Int
  BY DEF UpperA, Minus
<1>3. PICK s : s = LowFirst(m, 10, UpperA)
  OBVIOUS
<1>4. s = DigitsOf(q, L, 10, UpperA)
  BY <1>1, <1>2, <1>3, TenIsBase, LowFirstIs
<1>5. s \in Seq(Int) /\ Reverse(s) = HighFirst(q, L, 10, UpperA)
  BY <1>1, <1>2, <1>4, TenIsBase, ReversedDigits
<1>6. Reverse(Append(s, Minus)) = <<Minus>> \o Reverse(s)
  BY <1>2, <1>5, ReverseAppend
<1>7. intToString(n) = Reverse(IF n < 0 THEN Append(s, Minus) ELSE s)
  BY <1>1, <1>3, Zenon DEF intToString
<1>8. CASE n < 0
  BY <1>5, <1>6, <1>7, <1>8, Zenon DEF DecimalText
<1>9. CASE ~(n < 0)
  BY <1>5, <1>7, <1>9, Zenon DEF DecimalText
<1> QED BY <1>8, <1>9

LEMMA CharsIs ==
  ASSUME NEW s \in Seq(1 .. 255), NEW a, a = CString(s)
  PROVE  Chars(a) = s
<1> DEFINE I == {i \in 1 .. Len(a) : a[i] = NUL}
           e == SelectInSeq(a, LAMBDA c : c = NUL)
<1>1. /\ Len(s) \in Nat /\ a \in Seq(0 .. 255) /\ Len(a) = Len(s) + 1
      /\ \A i \in 1 .. Len(a) : a[i] = CharAt(s, i)
  BY CStringIs
<1>2. \A i \in 1 .. Len(s) : a[i] = s[i] /\ a[i] # NUL
  <2> TAKE i \in 1 .. Len(s)
  <2>1. s[i] \in 1 .. 255
    BY ElementOfSeq
  <2>2. i \in 1 .. Len(a) /\ i <= Len(s)
    BY <1>1
  <2>3. a[i] = s[i]
    BY <1>1, <2>2 DEF CharAt
  <2>4. \A v \in 1 .. 255 : v # 0
    OBVIOUS
  <2> QED BY <2>1, <2>3, <2>4, Zenon DEF NUL
<1>3. a[Len(s) + 1] = NUL
  BY <1>1 DEF CharAt, NUL
<1>4. I = {Len(s) + 1}
  BY <1>1, <1>2, <1>3
<1>5. IsFirst(e, I)
  <2>1. a \in Seq(0 .. 255)
    BY <1>1
  <2> QED BY <2>1, SelectEqual, Zenon
<1>6. e = Len(s) + 1
  BY <1>4, <1>5 DEF IsFirst
<1>7. Chars(a) = SubSeq(a, 1, e - 1)
  BY Zenon DEF Chars
<1>8. s = SubSeq(a, 1, Len(s))
  <2>1. s \in Seq(0 .. 255) /\ 1 \in 1 .. Len(a) + 1 /\ Len(s) \in 1 - 1 .. Len(a) /\ Len(s) = (Len(s) - 1) + 1
    BY <1>1
  <2>2. \A i \in 1 .. (Len(s) - 1) + 1 : s[i] = a[(1 + i) - 1]
    BY <1>2
  <2> QED BY <1>1, <2>1, <2>2, SubSeqUnique
<1>9. e - 1 = Len(s)
  BY <1>1, <1>6
<1> QED BY <1>7, <1>8, <1>9

\* What tostr has left to store after k digits are the quotients.
Lefts(m, L, f) == [k \in 0 .. L |-> IF k = 0 THEN m ELSE f[k - 1] \div 10]

LEMMA LeftIs ==
  ASSUME NEW n \in Nat, NEW L, NEW q, Quotients(q, L, n, 10), NEW f, f = (CHOOSE g : g = Lefts(n, L, g))
  PROVE  f = q
<1>1. /\ L \in Nat /\ q \in [0 .. L -> Nat] /\ q[0] = n
      /\ \A k \in 0 .. L - 1 : q[k + 1] = q[k] \div 10
  BY DEF Quotients
<1>2. \A k \in 0 .. L : q[k] = IF k = 0 THEN n ELSE q[k - 1] \div 10
  <2> TAKE k \in 0 .. L
  <2>1. CASE k = 0
    BY <1>1, <2>1
  <2>2. CASE k # 0
    <3>1. PICK i : i = k - 1
      OBVIOUS
    <3>2. i \in 0 .. L - 1 /\ i + 1 = k
      BY <1>1, <2>2, <3>1
    <3>3. q[i + 1] = q[i] \div 10
      BY <1>1, <3>2
    <3> QED BY <2>2, <3>1, <3>2, <3>3
  <2> QED BY <2>1, <2>2
<1>3. q = [k \in 0 .. L |-> q[k]]
  BY <1>1
<1>4. q = Lefts(n, L, q)
  BY <1>2, <1>3, Zenon DEF Lefts
<1>5. f = Lefts(n, L, f)
  BY <1>4
<1>6. f = [k \in 0 .. L |-> f[k]] /\ \A k \in 0 .. L : f[k] = IF k = 0 THEN n ELSE f[k - 1] \div 10
  BY <1>5 DEF Lefts
<1> DEFINE Off == {k \in 0 .. L : f[k] # q[k]}
<1>7. Off = {}
  <2> SUFFICES ASSUME Off # {} PROVE FALSE
    OBVIOUS
  <2>1. PICK k \in Off : \A i \in Off : k <= i
    <3>1. Off \in SUBSET Nat
      OBVIOUS
    <3> HIDE DEF Off
    <3> QED BY <3>1, MinOfNaturals
  <2>2. k \in 0 .. L /\ f[k] # q[k]
    OBVIOUS
  <2>3. k # 0
    BY <1>2, <1>6, <2>2, Zenon
  <2>4. k - 1 \in 0 .. L /\ k - 1 < k
    BY <1>1, <2>2, <2>3
  <2>5. k - 1 \notin Off
    <3> HIDE DEF Off
    <3> QED BY <2>1, <2>2, <2>4
  <2>6. f[k - 1] = q[k - 1]
    BY <2>4, <2>5
  <2> QED BY <1>2, <1>6, <2>2, <2>3, <2>6, Zenon
<1>8. \A k \in 0 .. L : f[k] = q[k]
  BY <1>7
<1> QED BY <1>3, <1>6, <1>8, Zenon

\* The decimal text is a string of characters.
LEMMA DecimalTextIs ==
  ASSUME NEW n \in Int, NEW L, NEW q, Quotients(q, L, AbsValue(n), 10),
         NEW sign, sign = IF n < 0 THEN 1 ELSE 0
  PROVE  /\ L \in Nat /\ DecimalText(q, L, n) \in Seq(1 .. 255)
         /\ Len(DecimalText(q, L, n)) = L + sign
         /\ \A i \in 1 .. L + sign :
              DecimalText(q, L, n)[i] = IF i <= sign THEN Minus ELSE Zero + (q[(L + sign) - i] % 10)
<1>1. PICK m \in Nat : m = AbsValue(n)
  BY DEF AbsValue
<1>2. PICK d : d = HighFirst(q, L, 10, UpperA)
  OBVIOUS
<1>3. /\ L \in Nat /\ L > 0 /\ d \in Seq(1 .. 255) /\ Len(d) = L
      /\ \A k \in 1 .. L : d[k] \in Zero .. Zero + 9 /\ d[k] - Zero = q[L - k] % 10
  <2>1. PICK b \in Bases : b = 10
    BY TenIsBase
  <2>2. Quotients(q, L, m, b) /\ d = HighFirst(q, L, b, UpperA)
    BY <1>1, <1>2, <2>1
  <2>3. /\ L \in Nat /\ L > 0 /\ d \in Seq(1 .. 255) /\ Len(d) = L
        /\ \A k \in 1 .. L : b = 10 => d[k] \in Zero .. Zero + 9 /\ d[k] - Zero = q[L - k] % b
    BY <2>2, HighFirstIs
  <2> QED BY <2>1, <2>3
<1>4. \A k \in 1 .. L : d[k] = Zero + (q[L - k] % 10)
  <2> TAKE k \in 1 .. L
  <2>1. d[k] \in Int /\ d[k] - Zero = q[L - k] % 10
    BY <1>3 DEF Zero
  <2>2. \A x, y \in Int : x - Zero = y => x = Zero + y
    BY DEF Zero
  <2>3. d[k] - Zero \in Int
    BY <2>1 DEF Zero
  <2> QED BY <2>1, <2>2, <2>3
<1>5. CASE n < 0
  <2>1. PICK s : s = <<Minus>> \o d
    OBVIOUS
  <2>2. /\ s \in Seq(1 .. 255) /\ Len(s) = L + 1 /\ s[1] = Minus
        /\ \A i \in 2 .. L + 1 : s[i] = d[i - 1]
    BY <1>3, <2>1, MinusInFront
  <2>3. \A i \in 1 .. L + 1 : s[i] = IF i <= 1 THEN Minus ELSE Zero + (q[(L + 1) - i] % 10)
    <3> TAKE i \in 1 .. L + 1
    <3>1. CASE i <= 1
      BY <1>3, <2>2, <3>1
    <3>2. CASE ~(i <= 1)
      <4>1. PICK k : k = i - 1
        OBVIOUS
      <4>2. k \in 1 .. L /\ i \in 2 .. L + 1 /\ L - k = (L + 1) - i
        BY <1>3, <3>2, <4>1
      <4> QED BY <1>4, <2>2, <3>2, <4>1, <4>2
    <3> QED BY <3>1, <3>2
  <2>4. s = DecimalText(q, L, n)
    BY <1>2, <1>5, <2>1, Zenon DEF DecimalText
  <2> QED BY <1>3, <1>5, <2>2, <2>3, <2>4
<1>6. CASE ~(n < 0)
  <2>1. d = DecimalText(q, L, n)
    BY <1>2, <1>6, Zenon DEF DecimalText
  <2>2. L + sign = L /\ \A i \in 1 .. L : ~(i <= sign)
    BY <1>3, <1>6
  <2> QED BY <1>3, <1>4, <2>1, <2>2
<1> QED BY <1>5, <1>6

LEMMA TostrIs ==
  ASSUME NEW n \in Int, NEW L, NEW q, Quotients(q, L, AbsValue(n), 10)
  PROVE  Chars(Stored(n)) = DecimalText(q, L, n)
<1>1. PICK m \in Nat : m = AbsValue(n)
  BY DEF AbsValue
<1>2. PICK sign : sign = IF n < 0 THEN 1 ELSE 0
  OBVIOUS
<1>3. PICK t : t = DecimalText(q, L, n)
  OBVIOUS
<1>4. /\ L \in Nat /\ t \in Seq(1 .. 255) /\ Len(t) = L + sign
      /\ \A i \in 1 .. L + sign : t[i] = IF i <= sign THEN Minus ELSE Zero + (q[(L + sign) - i] % 10)
  BY <1>2, <1>3, DecimalTextIs
<1>5. NumDigits(m) = L
  BY <1>1, NumDigitsIs
<1>6. PICK f : f = (CHOOSE g : g = Lefts(m, L, g))
  OBVIOUS
<1>7. f = q
  BY <1>1, <1>6, LeftIs
<1> DEFINE Filled(D, h, g) == [i \in 1 .. D + h + 1 |->
                                 IF i = D + h + 1 THEN NUL
                                 ELSE IF i <= h THEN Minus
                                 ELSE Zero + (g[D + h - i] % 10)]
<1>8. Stored(n) = Filled(L, sign, f)
  <2>1. Stored(n) = Filled(NumDigits(AbsValue(n)), IF n < 0 THEN 1 ELSE 0,
                          CHOOSE g : g = Lefts(AbsValue(n), NumDigits(AbsValue(n)), g))
    BY DEF Stored, Lefts
  <2> HIDE DEF Filled
  <2> QED BY <1>1, <1>2, <1>5, <1>6, <2>1, Zenon
<1>9. PICK K : K = L + sign
  OBVIOUS
<1>10. PICK a : a = CString(t)
  OBVIOUS
<1>11. /\ K \in Nat /\ a \in Seq(0 .. 255) /\ Len(a) = K + 1
       /\ a[K + 1] = NUL /\ \A i \in 1 .. K : a[i] = t[i]
  <2>1. K \in Nat /\ K = Len(t)
    BY <1>2, <1>4, <1>9
  <2>2. a \in Seq(0 .. 255) /\ Len(a) = K + 1 /\ \A i \in 1 .. K + 1 : a[i] = CharAt(t, i)
    BY <1>4, <1>10, <2>1, CStringIs
  <2>3. CharAt(t, K + 1) = NUL /\ \A i \in 1 .. K : CharAt(t, i) = t[i]
    BY <2>1 DEF CharAt
  <2> QED BY <2>1, <2>2, <2>3
<1>12. Stored(n) = a
  <2>1. \A i \in 1 .. K + 1 : a[i] = IF i = K + 1 THEN NUL ELSE IF i <= sign THEN Minus ELSE Zero + (f[K - i] % 10)
    <3> TAKE i \in 1 .. K + 1
    <3>1. CASE i = K + 1
      BY <1>11, <3>1
    <3>2. CASE i # K + 1
      <4>1. i \in 1 .. K
        BY <1>11, <3>2
      <4> QED BY <1>4, <1>7, <1>9, <1>11, <3>2, <4>1
    <3> QED BY <3>1, <3>2
  <2>2. DOMAIN a = 1 .. L + sign + 1 /\ a = [i \in 1 .. L + sign + 1 |-> a[i]]
    <3>1. DOMAIN a = 1 .. K + 1 /\ a = [i \in 1 .. K + 1 |-> a[i]]
      BY <1>11
    <3> QED BY <1>9, <3>1
  <2>3. \A i \in 1 .. L + sign + 1 :
          a[i] = IF i = L + sign + 1 THEN NUL ELSE IF i <= sign THEN Minus ELSE Zero + (f[L + sign - i] % 10)
    <3> TAKE i \in 1 .. L + sign + 1
    <3>1. i \in 1 .. K + 1 /\ (i = K + 1 <=> i = L + sign + 1) /\ K - i = L + sign - i
      BY <1>2, <1>4, <1>9
    <3>2. a[i] = IF i = K + 1 THEN NUL ELSE IF i <= sign THEN Minus ELSE Zero + (f[K - i] % 10)
      BY <2>1, <3>1
    <3> QED BY <3>1, <3>2, Zenon
  <2>4. a = Filled(L, sign, f)
    BY <2>2, <2>3, Zenon
  <2> HIDE DEF Filled
  <2> QED BY <1>8, <2>4
<1> QED BY <1>3, <1>4, <1>10, <1>12, CharsIs

\* Every conversion to a text shows its number.
LEMMA DecimalShown ==
  ASSUME NEW n \in Int
  PROVE  Shown(intToString(n), n, 10) /\ Shown(Chars(Stored(n)), n, 10)
<1>1. AbsValue(n) \in Nat /\ (n < 0 => AbsValue(n) = -n) /\ (~(n < 0) => n \in Nat /\ AbsValue(n) = n)
  BY DEF AbsValue
<1>2. PICK m \in Nat : m = AbsValue(n)
  BY <1>1
<1>3. PICK L, q : Quotients(q, L, m, 10)
  BY TenIsBase, QuotientsExist
<1>4. Quotients(q, L, AbsValue(n), 10)
  BY <1>2, <1>3
<1>5. intToString(n) = DecimalText(q, L, n) /\ Chars(Stored(n)) = DecimalText(q, L, n)
  BY <1>4, IntToStringIs, TostrIs
<1>6. Shown(DecimalText(q, L, n), n, 10)
  <2>1. CASE n < 0
    <3>1. Quotients(q, L, -n, 10)
      BY <1>1, <1>4, <2>1
    <3>2. Shown(<<Minus>> \o HighFirst(q, L, 10, UpperA), n, 10)
      BY <2>1, <3>1, NegativeShown
    <3> QED BY <2>1, <3>2, Zenon DEF DecimalText
  <2>2. CASE ~(n < 0)
    <3>1. n \in Nat /\ Quotients(q, L, n, 10)
      BY <1>1, <1>4, <2>2
    <3>2. Shown(HighFirst(q, L, 10, UpperA), n, 10)
      BY <3>1, TenIsBase, DigitsShown
    <3> QED BY <2>2, <3>2, Zenon DEF DecimalText
  <2> QED BY <2>1, <2>2
<1> QED BY <1>5, <1>6

LEMMA UnsignedShown ==
  ASSUME NEW base \in Bases, NEW n \in Nat
  PROVE  Shown(Unsigned(n, base, UpperA), n, base)
<1>1. PICK L, q : Quotients(q, L, n, base)
  BY QuotientsExist
<1>2. Unsigned(n, base, UpperA) = HighFirst(q, L, base, UpperA)
  BY <1>1, UnsignedIs
<1> QED BY <1>1, <1>2, DigitsShown

\* One call of a conversion.
LEMMA ConvertsRight ==
  ASSUME StringsAssumption, Converts
  PROVE  NumbersShown'
<1>1. PICK n \in Values :
        \/ Called("intToString", [n |-> n, base |-> 10, ten |-> UpperA], intToString(n))
        \/ \E allocated \in BOOLEAN :
             Called("tostr", [n |-> n, base |-> 10, ten |-> UpperA, allocated |-> allocated], tostr(n, allocated))
        \/ \E base \in {2, 10, 16} :
             /\ n >= 0 \/ base = 10
             /\ Called("itoa", [n |-> n, base |-> base, ten |-> UpperA], itoa(n, base))
        \/ n >= 0 /\ Called("hex_to_str", [n |-> n, base |-> 16, ten |-> UpperA], hex_to_str(n))
  BY DEF Converts
<1>2. n \in Int
  BY DEF StringsAssumption
<1>3. Shown(intToString(n), n, 10) /\ Shown(Chars(Stored(n)), n, 10)
  BY <1>2, DecimalShown
<1>4. CASE \E allocated \in BOOLEAN :
             Called("tostr", [n |-> n, base |-> 10, ten |-> UpperA, allocated |-> allocated], tostr(n, allocated))
  <2>1. PICK allocated \in BOOLEAN :
             Called("tostr", [n |-> n, base |-> 10, ten |-> UpperA, allocated |-> allocated], tostr(n, allocated))
    BY <1>4
  <2>2. /\ call'.f = "tostr" /\ call'.arg.n = n /\ call'.arg.base = 10
        /\ call'.arg.allocated = allocated /\ call'.result = tostr(n, allocated)
    BY <2>1 DEF Called
  <2> QED BY <1>3, <2>2, Zenon DEF NumbersShown, tostr, arg, result
<1>5. CASE \E base, R, f : /\ Called(f, [n |-> n, base |-> base, ten |-> UpperA], R)
                         /\ f # "tostr" /\ Shown(R, n, base)
  <2>1. PICK base, R, f : /\ Called(f, [n |-> n, base |-> base, ten |-> UpperA], R)
                          /\ f # "tostr" /\ Shown(R, n, base)
    BY <1>5
  <2>2. /\ call'.f # "tostr" /\ call'.arg.n = n /\ call'.arg.base = base /\ call'.result = R
    BY <2>1 DEF Called
  <2> QED BY <2>1, <2>2, Zenon DEF NumbersShown, arg, result
<1>6. ASSUME NEW base \in {2, 10, 16}, n >= 0 \/ base = 10
      PROVE  Shown(itoa(n, base), n, base)
  <2>1. CASE base = 10
    BY <1>3, <2>1 DEF itoa
  <2>2. CASE base # 10
    <3>1. n \in Nat /\ base \in Bases
      BY <1>2, <1>6, <2>2 DEF Bases
    <3>2. itoa(n, base) = Unsigned(n, base, UpperA)
      BY <2>2 DEF itoa
    <3> QED BY <3>1, <3>2, UnsignedShown
  <2> QED BY <2>1, <2>2
<1>7. n >= 0 => Shown(hex_to_str(n), n, 16)
  <2> SUFFICES ASSUME n >= 0 PROVE Shown(hex_to_str(n), n, 16)
    OBVIOUS
  <2>1. n \in Nat /\ 16 \in Bases
    BY <1>2 DEF Bases
  <2> QED BY <2>1, UnsignedShown DEF hex_to_str
<1>8. "intToString" # "tostr" /\ "itoa" # "tostr" /\ "hex_to_str" # "tostr"
  OBVIOUS
<1> QED BY <1>1, <1>3, <1>4, <1>5, <1>6, <1>7, <1>8, Zenon

\* Every conversion writes the digits of its number in the base, the sign of a
\* decimal in front and no zero before them, and atoi reads a decimal back: for
\* all numbers of an int but the least, which has no negative.
THEOREM NumbersRight == LibrarySpec => []NumbersShown
<1>1. LibraryInit => NumbersShown
  BY DEF LibraryInit, Nothing, NumbersShown
<1>2. NumbersShown /\ [LibraryNext]_libraryVars => NumbersShown'
  <2> SUFFICES ASSUME NumbersShown, [LibraryNext]_libraryVars PROVE NumbersShown'
    OBVIOUS
  <2>1. CASE UNCHANGED call
    BY <2>1 DEF NumbersShown, arg, result
  <2>2. CASE Drops
    <3>1. call'.f = "none"
      BY <2>2 DEF Drops, Nothing
    <3> QED BY <3>1 DEF NumbersShown
  <2>3. CASE Converts
    BY <2>3, StringsAssumption, ConvertsRight
  <2>4. CASE Compares \/ Moves \/ Prints \/ PrintsInColour
    <3>1. call'.f \notin {"intToString", "tostr", "itoa", "hex_to_str"}
      <4>1. CASE Compares
        BY <4>1 DEF Compares, Called
      <4>2. CASE Moves
        BY <4>2 DEF Moves, Called
      <4>3. CASE Prints
        BY <4>3 DEF Prints, Called
      <4>4. CASE PrintsInColour
        BY <4>4 DEF PrintsInColour, Called
      <4> QED BY <2>4, <4>1, <4>2, <4>3, <4>4
    <3> QED BY <3>1 DEF NumbersShown
  <2>5. Calls => Converts \/ Compares \/ Moves \/ Prints \/ PrintsInColour
    BY DEF Calls
  <2>6. Scans \/ Splitting \/ UNCHANGED libraryVars => UNCHANGED call
    BY DEF Scans, Splitting, libraryVars
  <2>7. Scans \/ Splitting \/ Calls \/ Drops \/ UNCHANGED libraryVars
    BY DEF LibraryNext
  <2> QED BY <2>1, <2>2, <2>3, <2>4, <2>5, <2>6, <2>7
<1> QED BY <1>1, <1>2, PTL DEF LibrarySpec
=============================================================================
