--------------------------- MODULE TerminalProofs ---------------------------
(***************************************************************************)
(* What kputchar and kprint make of a screen, for every window and every   *)
(* text: the arithmetic of offsets, what a scroll leaves, and what is      *)
(* printed where.                                                          *)
(***************************************************************************)
EXTENDS Terminal, SequenceTheorems, WellFoundedInduction, NaturalsInduction, TLAPS

-----------------------------------------------------------------------------
(* Positions and offsets *)

Positions == 0 .. Wide \div 2 - 1

LEMMA ByteEven == Byte \in Nat /\ Byte > 0 /\ Byte = 2 * (Byte \div 2) /\ Byte \div 2 \in Nat
BY TerminalAssumption, SMT

LEMMA TimesByte ==
  ASSUME NEW a \in Nat, NEW b \in Nat, a <= b
  PROVE  a * Byte \in Nat /\ b * Byte \in Nat /\ a * Byte <= b * Byte
<1> DEFINE d == b - a
<1>1. d \in Nat /\ b = a + d /\ Byte \in Nat
  BY ByteEven, SMT
<1> HIDE DEF d
<1>2. d * Byte \in Nat /\ a * Byte \in Nat /\ b * Byte = a * Byte + d * Byte
  BY <1>1, SMT
<1> QED BY <1>2, SMT

LEMMA NextTimesByte ==
  ASSUME NEW a \in Nat, NEW b \in Nat, a < b
  PROVE  a * Byte \in Nat /\ b * Byte \in Nat /\ a * Byte + Byte <= b * Byte
<1>1. a + 1 <= b /\ a + 1 \in Nat
  BY SMT
<1>2. a * Byte \in Nat /\ b * Byte \in Nat /\ (a + 1) * Byte <= b * Byte
  BY <1>1, TimesByte, SMT
<1>3. (a + 1) * Byte = a * Byte + Byte
  BY ByteEven, SMT
<1> QED BY <1>2, <1>3, SMT

LEMMA HalfWide ==
  ASSUME NEW B \in Nat, Byte = 2 * B
  PROVE  Wide = 2 * (B * Byte) /\ Wide \div 2 = B * Byte /\ B * Byte \in Nat
<1>1. Wide = 2 * (B * Byte) /\ B * Byte \in Nat
  BY SMT DEF Wide
<1> DEFINE W == B * Byte
<1>2. W \in Nat /\ Wide = 2 * W
  BY <1>1
<1> HIDE DEF W
<1>3. Wide \div 2 = W
  BY <1>2, SMT
<1> QED BY <1>1, <1>3 DEF W

LEMMA WideRange == Wide \in Nat /\ Wide > 0 /\ Wide = 2 * (Wide \div 2)
<1> DEFINE B == Byte \div 2
           W == B * Byte
<1>1. Byte \in Nat /\ Byte > 0 /\ Byte = 2 * B /\ B \in Nat
  BY ByteEven
<1>2. Wide = 2 * W /\ Wide \div 2 = W /\ W \in Nat
  BY <1>1, HalfWide
<1>3. B > 0
  BY <1>1, SMT
<1>4. W > 0
  <2> HIDE DEF B
  <2> QED BY <1>1, <1>3, SMT
<1> HIDE DEF W
<1> QED BY <1>2, <1>4, SMT

LEMMA PositionsInNat == Positions \subseteq Nat
BY WideRange, SMT DEF Positions

LEMMA LastLineInInt == last_line \in Int
<1>1. MAX_COLS \in Nat /\ MAX_ROWS \in Nat
  BY TerminalAssumption, SMT
<1>2. RowBytes \in Nat
  BY <1>1, SMT DEF RowBytes
<1>3. MAX_ROWS - 1 \in Int
  BY <1>1, SMT
<1> QED BY <1>2, <1>3, SMT DEF last_line

LEMMA NextRowInInt ==
  ASSUME NEW o \in Int
  PROVE  NextRow(o) \in Int
<1>1. RowBytes \in Nat /\ RowBytes > 0
  BY TerminalAssumption, SMT DEF RowBytes
<1> QED BY <1>1, SMT DEF NextRow

\* A position as a program computes it, before it is cut to 16 bits.
LEMMA CutToPosition ==
  ASSUME NEW pos \in Int
  PROVE  (pos % Wide) \div 2 \in Positions
<1>1. pos % Wide \in Nat /\ pos % Wide < Wide
  BY WideRange, SMT
<1> QED BY <1>1, WideRange, SMT DEF Positions

LEMMA CutInInt == ASSUME NEW pos \in Int PROVE (pos % Wide) \div 2 \in Int
<1> DEFINE q == (pos % Wide) \div 2
<1>1. q \in Positions
  BY CutToPosition
<1>2. q \in Int
  <2> HIDE DEF q
  <2> QED BY <1>1, PositionsInNat, SMT
<1> QED BY <1>2

-----------------------------------------------------------------------------
(* Rows and columns *)

LEMMA TimesLess ==
  ASSUME NEW d \in Nat, NEW a \in Int, NEW b \in Int, a < b
  PROVE  a * d \in Int /\ b * d \in Int /\ a * d + d <= b * d
<1>1. PICK e \in Nat : b = a + 1 + e
  <2>1. b - a - 1 \in Nat /\ b = a + 1 + (b - a - 1)
    BY SMT
  <2> QED BY <2>1
<1>2. e * d \in Nat /\ a * d \in Int /\ b * d = a * d + d + e * d
  BY <1>1, SMT
<1> QED BY <1>2, SMT

LEMMA DivMod ==
  ASSUME NEW a \in Int, NEW d \in Nat, d > 0, NEW q \in Int, NEW r \in 0 .. d - 1, a = q * d + r
  PROVE  a \div d = q /\ a % d = r
<1> DEFINE q2 == a \div d
           r2 == a % d
<1>1. q2 \in Int /\ r2 \in 0 .. d - 1 /\ a = q2 * d + r2
  BY SMT
<1> HIDE DEF q2, r2
<1>2. ~(q2 < q)
  BY <1>1, TimesLess, SMT
<1>3. ~(q < q2)
  BY <1>1, TimesLess, SMT
<1>4. q2 = q
  BY <1>1, <1>2, <1>3, SMT
<1>5. q * d \in Int
  BY SMT
<1>6. r2 = r
  BY <1>1, <1>4, <1>5, SMT
<1> QED BY <1>4, <1>6 DEF q2, r2

LEMMA RowsAndColumns ==
  /\ MAX_COLS \in Nat /\ MAX_COLS > 0 /\ MAX_ROWS \in Nat /\ MAX_ROWS > 0
  /\ Window \in Nat /\ Window = MAX_ROWS * MAX_COLS /\ Window - MAX_COLS = (MAX_ROWS - 1) * MAX_COLS
  /\ Window - MAX_COLS \in Nat
  /\ Window + MAX_COLS < Wide \div 2
<1>1. MAX_COLS \in Nat /\ MAX_COLS > 0 /\ MAX_ROWS \in Nat /\ MAX_ROWS > 0
  BY TerminalAssumption, SMT
<1>2. Window \in Nat /\ Window = MAX_ROWS * MAX_COLS /\ Window - MAX_COLS = (MAX_ROWS - 1) * MAX_COLS
  BY <1>1, SMT DEF Window
<1>3. Window - MAX_COLS \in Nat
  <2>1. PICK k \in Nat : k = MAX_ROWS - 1
    BY <1>1, SMT
  <2>2. k * MAX_COLS \in Nat
    BY <1>1, SMT
  <2> QED BY <1>2, <2>1, <2>2
<1>4. MAX_COLS * (MAX_ROWS + 1) = Window + MAX_COLS
  BY <1>1, SMT DEF Window
<1>5. (Window + MAX_COLS) * 2 < Wide
  BY <1>4, TerminalAssumption, Zenon DEF Wide
<1>6. PICK W \in Nat : W = Wide \div 2 /\ Wide = 2 * W
  BY WideRange, SMT
<1>7. Window + MAX_COLS < W
  BY <1>1, <1>2, <1>5, <1>6, SMT
<1> QED BY <1>1, <1>2, <1>3, <1>6, <1>7

\* The row and the column of a cell.
LEMMA RowOf ==
  ASSUME NEW i \in Nat
  PROVE  /\ i \div MAX_COLS \in Nat /\ i % MAX_COLS \in 0 .. MAX_COLS - 1
         /\ i = ((i \div MAX_COLS) * MAX_COLS) + (i % MAX_COLS)
         /\ (i \div MAX_COLS) * MAX_COLS \in Nat
<1>1. MAX_COLS \in Nat /\ MAX_COLS > 0
  BY RowsAndColumns
<1> DEFINE q == i \div MAX_COLS
           m == i % MAX_COLS
<1>2. q \in Nat /\ m \in 0 .. MAX_COLS - 1 /\ (q * MAX_COLS) + m = i
  BY <1>1, SMT
<1> HIDE DEF q, m
<1>3. q * MAX_COLS \in Nat
  BY <1>1, <1>2, SMT
<1> QED BY <1>2, <1>3 DEF q, m

\* The last row is that of the last MAX_COLS cells.
LEMMA RowBounds ==
  ASSUME NEW i \in Nat, NEW r \in Nat
  PROVE  /\ r * MAX_COLS \in Nat
         /\ i < r * MAX_COLS <=> i \div MAX_COLS < r
<1> DEFINE q == i \div MAX_COLS
           m == i % MAX_COLS
<1>1. q \in Nat /\ m \in 0 .. MAX_COLS - 1 /\ i = (q * MAX_COLS) + m /\ q * MAX_COLS \in Nat
  BY RowOf
<1>2. MAX_COLS \in Nat /\ MAX_COLS > 0 /\ r * MAX_COLS \in Nat
  BY RowsAndColumns, SMT
<1> HIDE DEF q, m
<1>3. q < r => q * MAX_COLS + MAX_COLS <= r * MAX_COLS
  BY <1>1, <1>2, TimesLess
<1>4. r < q => r * MAX_COLS + MAX_COLS <= q * MAX_COLS
  BY <1>1, <1>2, TimesLess
<1>5. i < r * MAX_COLS <=> q < r
  BY <1>1, <1>2, <1>3, <1>4, SMT
<1> QED BY <1>2, <1>5 DEF q

\* The cell above another.
LEMMA RowAbove ==
  ASSUME NEW i \in Nat, i \div MAX_COLS > 0
  PROVE  /\ i - MAX_COLS \in Nat
         /\ (i - MAX_COLS) \div MAX_COLS = i \div MAX_COLS - 1
         /\ (i - MAX_COLS) % MAX_COLS = i % MAX_COLS
<1> DEFINE q == i \div MAX_COLS
           m == i % MAX_COLS
<1>1. q \in Nat /\ m \in 0 .. MAX_COLS - 1 /\ i = (q * MAX_COLS) + m /\ q * MAX_COLS \in Nat /\ q > 0
  BY RowOf
<1>2. MAX_COLS \in Nat /\ MAX_COLS > 0
  BY RowsAndColumns
<1> HIDE DEF q, m
<1>3. PICK k \in Nat : k = q - 1
  BY <1>1, SMT
<1>4. k * MAX_COLS \in Nat /\ i - MAX_COLS = k * MAX_COLS + m
  BY <1>1, <1>2, <1>3, SMT
<1>5. i - MAX_COLS \in Nat
  BY <1>1, <1>2, <1>4, SMT
<1>6. (i - MAX_COLS) \div MAX_COLS = k /\ (i - MAX_COLS) % MAX_COLS = m
  BY <1>1, <1>2, <1>4, <1>5, DivMod
<1> QED BY <1>3, <1>5, <1>6 DEF q, m

-----------------------------------------------------------------------------
(* Scrolling *)

LEMMA LeastNatural ==
  ASSUME NEW S \in SUBSET Nat, S # {}
  PROVE  \E m \in S : \A n \in S : m <= n
<1> DEFINE less == OpToRel(<, Nat)
<1>1. \A n, m \in Nat : n < m => <<n, m>> \in less
  BY Zenon DEF OpToRel
<1>2. IsWellFoundedOn(less, Nat)
  BY NatLessThanWellFounded, Zenon
<1> HIDE DEF less
<1>3. PICK m \in S : \A n \in S : ~(<<n, m>> \in less)
  BY <1>2, WFMin, Zenon
<1>4. \A n \in S : ~(n < m)
  BY <1>1, <1>3, Zenon
<1> QED BY <1>4, SMT

LEMMA LastOf ==
  ASSUME NEW n \in Nat, NEW T \in SUBSET (1 .. n), T # {}
  PROVE  Max(T) \in T /\ \A x \in T : x <= Max(T)
<1> DEFINE D == {m \in Nat : n - m \in T}
<1>1. D \in SUBSET Nat /\ D # {}
  <2>1. PICK k \in T : TRUE
    OBVIOUS
  <2>2. n - k \in Nat /\ n - (n - k) = k
    BY SMT
  <2> QED BY <2>2
<1>2. PICK m \in D : \A l \in D : m <= l
  BY <1>1, LeastNatural
<1>3. n - m \in T /\ m \in Nat
  OBVIOUS
<1>4. ASSUME NEW x \in T PROVE n - m >= x
  <2>1. n - x \in D
    <3>1. n - x \in Nat /\ n - (n - x) = x
      BY SMT
    <3> QED BY <3>1
  <2>2. m <= n - x
    BY <1>2, <2>1
  <2> HIDE DEF D
  <2> QED BY <1>3, <2>2, SMT
<1>5. \E y \in T : \A x \in T : y >= x
  BY <1>3, <1>4
<1>6. Max(T) \in T /\ \A x \in T : Max(T) >= x
  BY <1>5, Zenon DEF Max
<1>7. \A x \in T : x \in Int
  BY SMT
<1> QED BY <1>6, <1>7, SMT

\* When the rows T have been copied, in ascending order, row r is what row
\* Source(T, r) was: the nearest row above it, or itself, that is not copied.
Source(T, r) == Max({x \in 0 .. r : x \notin T})
Shifted(c, T) ==
  [i \in DOMAIN c |-> c[(Source(T, i \div MAX_COLS) * MAX_COLS) + (i % MAX_COLS)]]

LEMMA MaxIs ==
  ASSUME NEW S \in SUBSET Int, NEW m \in S, \A x \in S : x <= m
  PROVE  Max(S) = m
<1>1. \A x \in S : m >= x
  BY SMT
<1>2. Max(S) \in S /\ \A x \in S : Max(S) >= x
  BY <1>1, Zenon DEF Max
<1>3. PICK y : y = Max(S)
  OBVIOUS
<1>4. y \in Int /\ m \in Int /\ y <= m /\ y >= m
  BY <1>2, <1>3, Zenon
<1> QED BY <1>3, <1>4, SMT

LEMMA SourceOfCopied ==
  ASSUME NEW T, NEW k \in Nat, k > 0, k \in T
  PROVE  Source(T, k) = Source(T \ {k}, k - 1)
<1>1. {x \in 0 .. k : x \notin T} = {x \in 0 .. k - 1 : x \notin T \ {k}}
  BY SMT
<1> QED BY <1>1 DEF Source

LEMMA SourceOfOther ==
  ASSUME NEW T, NEW r \in Nat, r \notin T
  PROVE  Source(T, r) = r
<1>1. {x \in 0 .. r : x \notin T} \in SUBSET Int /\ r \in {x \in 0 .. r : x \notin T}
  BY SMT
<1>2. \A x \in {x \in 0 .. r : x \notin T} : x <= r
  BY SMT
<1> QED BY <1>1, <1>2, MaxIs DEF Source

LEMMA SourceBelow ==
  ASSUME NEW T, NEW k \in Nat, NEW r \in Nat, r < k
  PROVE  Source(T, r) = Source(T \ {k}, r)
<1>1. {x \in 0 .. r : x \notin T} = {x \in 0 .. r : x \notin T \ {k}}
  BY SMT
<1> QED BY <1>1 DEF Source

LEMMA SourceOfAll ==
  ASSUME NEW n \in Nat, NEW r \in 0 .. n
  PROVE  Source(1 .. n, r) = 0
<1>1. {x \in 0 .. r : x \notin 1 .. n} = {0}
  BY SMT
<1>2. Max({0}) = 0
  BY MaxIs, SMT
<1> QED BY <1>1, <1>2 DEF Source

\* Copying one row more.
LEMMA CopyOne ==
  ASSUME NEW c, DOMAIN c = Positions, NEW n \in Nat, NEW T \in SUBSET (1 .. n), T # {}
  PROVE  CopyRow(Shifted(c, T \ {Max(T)}), Max(T)) = Shifted(c, T)
<1>1. PICK k : k = Max(T)
  OBVIOUS
<1>2. k \in T /\ k \in Nat /\ k > 0 /\ \A x \in T : x <= k
  <2>1. k \in T /\ \A x \in T : x <= k
    BY <1>1, LastOf
  <2> QED BY <2>1, SMT
<1>3. PICK g : g = Shifted(c, T \ {k})
  OBVIOUS
<1>4. DOMAIN g = Positions
  BY <1>3 DEF Shifted
<1>5. ASSUME NEW i \in Positions
      PROVE  (IF i \div MAX_COLS = k THEN g[i - MAX_COLS] ELSE g[i])
               = c[(Source(T, i \div MAX_COLS) * MAX_COLS) + (i % MAX_COLS)]
  <2>1. i \in Nat /\ i \div MAX_COLS \in Nat
    BY PositionsInNat, RowOf
  <2>2. \A p \in Positions : g[p] = c[(Source(T \ {k}, p \div MAX_COLS) * MAX_COLS) + (p % MAX_COLS)]
    BY <1>3 DEF Shifted
  <2>3. CASE i \div MAX_COLS = k
    <3>1. /\ i - MAX_COLS \in Nat
          /\ (i - MAX_COLS) \div MAX_COLS = k - 1 /\ (i - MAX_COLS) % MAX_COLS = i % MAX_COLS
      BY <1>2, <2>1, <2>3, RowAbove
    <3>2. i - MAX_COLS \in Positions
      BY <2>1, <3>1, RowsAndColumns, WideRange, SMT DEF Positions
    <3>3. g[i - MAX_COLS] = c[(Source(T \ {k}, k - 1) * MAX_COLS) + (i % MAX_COLS)]
      BY <2>2, <3>1, <3>2, Zenon
    <3>4. Source(T \ {k}, k - 1) = Source(T, k)
      BY <1>2, SourceOfCopied
    <3> QED BY <2>3, <3>3, <3>4, Zenon
  <2>4. CASE i \div MAX_COLS # k
    <3>1. Source(T \ {k}, i \div MAX_COLS) = Source(T, i \div MAX_COLS)
      <4>1. CASE i \div MAX_COLS < k
        BY <1>2, <2>1, <4>1, SourceBelow
      <4>2. CASE ~(i \div MAX_COLS < k)
        <5>1. i \div MAX_COLS \notin T
          <6>1. PICK r : r = i \div MAX_COLS
            OBVIOUS
          <6>2. r \in Nat /\ k < r
            BY <1>2, <2>1, <2>4, <4>2, <6>1, SMT
          <6>3. r \notin T
            BY <1>2, <6>2, SMT
          <6> QED BY <6>1, <6>3
        <5>2. i \div MAX_COLS \notin T \ {k}
          BY <5>1
        <5> QED BY <2>1, <5>1, <5>2, SourceOfOther
      <4> QED BY <4>1, <4>2
    <3>2. g[i] = c[(Source(T \ {k}, i \div MAX_COLS) * MAX_COLS) + (i % MAX_COLS)]
      BY <2>2
    <3> QED BY <2>4, <3>1, <3>2, Zenon
  <2> QED BY <2>3, <2>4
<1>6. CopyRow(g, k) = Shifted(c, T)
  BY <1>4, <1>5, Zenon DEF CopyRow, Shifted
<1> QED BY <1>1, <1>3, <1>6

\* The fold of Scrolled, over the sets of positions in rows.
CopyingRows(c, rows, f) ==
  [T \in SUBSET (DOMAIN rows) |->
     IF T = {} THEN c
     ELSE LET k == Max(T)
          IN  CopyRow(f[T \ {k}], rows[k])]

LEMMA CopiedRows ==
  ASSUME NEW c, NEW rows
  PROVE  FoldLeft(CopyRow, c, rows) = (CHOOSE f : f = CopyingRows(c, rows, f))[DOMAIN rows]
BY DEF FoldLeft, MapThenFoldSet, CopyingRows

\* Whatever function satisfies the fold's equation copies the rows.
LEMMA CopyingShifts ==
  ASSUME NEW c, c = [i \in Positions |-> c[i]], NEW n \in Nat,
         NEW rows, rows = [row \in 1 .. n |-> row],
         NEW f, f = CopyingRows(c, rows, f)
  PROVE  f[1 .. n] = Shifted(c, 1 .. n)
<1> DEFINE Wrong == {m \in 0 .. n : \E T \in SUBSET (1 .. m) : f[T] # Shifted(c, T)}
<1>1. DOMAIN c = Positions /\ DOMAIN rows = 1 .. n
  OBVIOUS
<1>2. ASSUME NEW T \in SUBSET (1 .. n)
      PROVE  f[T] = IF T = {} THEN c ELSE CopyRow(f[T \ {Max(T)}], rows[Max(T)])
  BY <1>1 DEF CopyingRows
<1>3. Shifted(c, {}) = c
  <2>1. ASSUME NEW i \in Positions
        PROVE  c[(Source({}, i \div MAX_COLS) * MAX_COLS) + (i % MAX_COLS)] = c[i]
    <3>1. i \in Nat /\ i \div MAX_COLS \in Nat /\ i = ((i \div MAX_COLS) * MAX_COLS) + (i % MAX_COLS)
      BY PositionsInNat, RowOf
    <3>2. Source({}, i \div MAX_COLS) = i \div MAX_COLS
      BY <3>1, SourceOfOther
    <3> QED BY <3>1, <3>2, Zenon
  <2> QED BY <1>1, <2>1, Zenon DEF Shifted
<1>4. Wrong = {}
  <2> SUFFICES ASSUME Wrong # {} PROVE FALSE
    OBVIOUS
  <2>1. PICK m \in Wrong : \A l \in Wrong : m <= l
    <3>1. Wrong \in SUBSET Nat
      BY SMT
    <3> HIDE DEF Wrong
    <3> QED BY <3>1, LeastNatural
  <2>2. PICK T \in SUBSET (1 .. m) : f[T] # Shifted(c, T)
    OBVIOUS
  <2>3. m \in 0 .. n
    OBVIOUS
  <2>4. T \in SUBSET (1 .. n)
    BY <2>2, <2>3, SMT
  <2>5. T # {}
    BY <1>2, <1>3, <2>2, <2>4
  <2>6. PICK k : k = Max(T)
    OBVIOUS
  <2>7. k \in T /\ \A x \in T : x <= k
    BY <2>4, <2>5, <2>6, LastOf
  <2>8. k \in 1 .. n /\ k - 1 \in 0 .. n /\ k - 1 < m /\ T \ {k} \in SUBSET (1 .. k - 1)
    BY <2>3, <2>4, <2>7, SMT
  <2>9. f[T \ {k}] = Shifted(c, T \ {k})
    <3>1. k - 1 \notin Wrong
      <4> HIDE DEF Wrong
      <4> QED BY <2>1, <2>3, <2>8, SMT
    <3> QED BY <2>8, <3>1
  <2>10. f[T] = CopyRow(f[T \ {k}], rows[k])
    BY <1>2, <2>4, <2>5, <2>6
  <2>11. rows[k] = k
    BY <2>8
  <2>12. CopyRow(Shifted(c, T \ {k}), k) = Shifted(c, T)
    BY <1>1, <2>4, <2>5, <2>6, CopyOne
  <2> QED BY <2>2, <2>9, <2>10, <2>11, <2>12, Zenon
<1>5. n \in 0 .. n /\ 1 .. n \in SUBSET (1 .. n)
  BY SMT
<1> QED BY <1>4, <1>5

LEMMA RowsCopied ==
  ASSUME NEW c, c = [i \in Positions |-> c[i]], NEW n \in Nat
  PROVE  FoldLeft(CopyRow, c, [row \in 1 .. n |-> row]) = Shifted(c, 1 .. n)
<1>1. PICK rows : rows = [row \in 1 .. n |-> row]
  OBVIOUS
<1>2. DOMAIN c = Positions /\ DOMAIN rows = 1 .. n
  BY <1>1
<1> DEFINE g == [T \in SUBSET (1 .. n) |-> Shifted(c, T)]
           f == CHOOSE f : f = CopyingRows(c, rows, f)
<1>3. g = CopyingRows(c, rows, g)
  <2>1. ASSUME NEW T \in SUBSET (1 .. n), T # {}
        PROVE  g[T] = CopyRow(g[T \ {Max(T)}], rows[Max(T)])
    <3>1. Max(T) \in T
      BY <2>1, LastOf
    <3>2. Max(T) \in 1 .. n /\ rows[Max(T)] = Max(T)
      BY <1>1, <3>1
    <3>3. T \ {Max(T)} \in SUBSET (1 .. n)
      OBVIOUS
    <3>4. g[T] = Shifted(c, T) /\ g[T \ {Max(T)}] = Shifted(c, T \ {Max(T)})
      BY <3>3
    <3>5. CopyRow(Shifted(c, T \ {Max(T)}), Max(T)) = Shifted(c, T)
      BY <1>2, <2>1, CopyOne
    <3> HIDE DEF g
    <3> QED BY <3>2, <3>4, <3>5, Zenon
  <2>2. g[{}] = c
    <3>1. ASSUME NEW i \in Positions
          PROVE  c[(Source({}, i \div MAX_COLS) * MAX_COLS) + (i % MAX_COLS)] = c[i]
      <4>1. i \in Nat /\ i \div MAX_COLS \in Nat /\ i = ((i \div MAX_COLS) * MAX_COLS) + (i % MAX_COLS)
        BY PositionsInNat, RowOf
      <4>2. Source({}, i \div MAX_COLS) = i \div MAX_COLS
        BY <4>1, SourceOfOther
      <4> QED BY <4>1, <4>2, Zenon
    <3>2. Shifted(c, {}) = c
      BY <1>2, <3>1, Zenon DEF Shifted
    <3> QED BY <3>2
  <2>3. g = [T \in SUBSET (1 .. n) |-> g[T]]
    OBVIOUS
  <2> HIDE DEF g
  <2> QED BY <1>2, <2>1, <2>2, <2>3, Zenon DEF CopyingRows
<1>4. f = CopyingRows(c, rows, f)
  BY <1>3
<1> HIDE DEF f, g
<1>5. f[1 .. n] = Shifted(c, 1 .. n)
  BY <1>1, <1>4, CopyingShifts
<1>6. FoldLeft(CopyRow, c, rows) = f[1 .. n]
  BY <1>2, CopiedRows DEF f
<1> QED BY <1>1, <1>5, <1>6

\* A scroll copies each row over the next before that was read.
LEMMA ScrollRepeats ==
  ASSUME NEW c, c = [i \in Positions |-> c[i]]
  PROVE  Scrolled(c) = FirstRowRepeated(c)
<1>1. PICK n \in Nat : n = MAX_ROWS - 1
  BY RowsAndColumns, SMT
<1>2. PICK copied : copied = FoldLeft(CopyRow, c, [row \in 1 .. n |-> row])
  OBVIOUS
<1>3. copied = Shifted(c, 1 .. n)
  BY <1>2, RowsCopied
<1>4. DOMAIN c = Positions
  OBVIOUS
<1>5. ASSUME NEW i \in Positions
      PROVE  (IF i \div MAX_COLS = n THEN Blank ELSE copied[i])
               = (IF i < Window - MAX_COLS THEN c[i % MAX_COLS]
                  ELSE IF i < Window THEN Blank ELSE c[i])
  <2>1. /\ i \in Nat /\ i \div MAX_COLS \in Nat /\ i % MAX_COLS \in 0 .. MAX_COLS - 1
        /\ i = ((i \div MAX_COLS) * MAX_COLS) + (i % MAX_COLS)
    BY PositionsInNat, RowOf
  <2>2. PICK q \in Nat : q = i \div MAX_COLS
    BY <2>1
  <2>3. (i < Window - MAX_COLS <=> q < n) /\ (i < Window <=> q < n + 1)
    <3>1. Window - MAX_COLS = n * MAX_COLS /\ Window = (n + 1) * MAX_COLS
      <4>1. n + 1 = MAX_ROWS
        BY <1>1, RowsAndColumns, SMT
      <4> QED BY <1>1, <4>1, RowsAndColumns, Zenon
    <3>2. n + 1 \in Nat
      BY SMT
    <3> QED BY <2>1, <2>2, <3>1, <3>2, RowBounds, Zenon
  <2>4. copied[i] = c[(Source(1 .. n, q) * MAX_COLS) + (i % MAX_COLS)]
    BY <1>3, <1>4, <2>2, Zenon DEF Shifted
  <2>5. CASE q < n + 1
    <3>1. q \in 0 .. n
      BY <2>5, SMT
    <3>2. Source(1 .. n, q) = 0
      BY <3>1, SourceOfAll
    <3>3. (0 * MAX_COLS) + (i % MAX_COLS) = i % MAX_COLS
      BY <2>1, RowsAndColumns, SMT
    <3>4. copied[i] = c[i % MAX_COLS]
      BY <2>4, <3>2, <3>3, Zenon
    <3>5. q = n \/ q < n
      BY <3>1, SMT
    <3>6. q = n => ~(q < n)
      BY SMT
    <3> QED BY <2>2, <2>3, <2>5, <3>4, <3>5, <3>6, Zenon
  <2>6. CASE ~(q < n + 1)
    <3>1. q \notin 1 .. n /\ q # n /\ ~(q < n)
      BY <2>6, SMT
    <3>2. Source(1 .. n, q) = q
      BY <3>1, SourceOfOther
    <3>3. copied[i] = c[i]
      BY <2>1, <2>2, <2>4, <3>2, Zenon
    <3> QED BY <2>2, <2>3, <2>6, <3>1, <3>3, Zenon
  <2> QED BY <2>5, <2>6
<1>6. Scrolled(c) = [i \in Positions |-> IF i \div MAX_COLS = n THEN Blank ELSE copied[i]]
  BY <1>1, <1>2, <1>4, Zenon DEF Scrolled
<1>7. FirstRowRepeated(c)
        = [i \in Positions |-> IF i < Window - MAX_COLS THEN c[i % MAX_COLS]
                               ELSE IF i < Window THEN Blank ELSE c[i]]
  BY <1>4, Zenon DEF FirstRowRepeated
<1>8. [i \in Positions |-> IF i \div MAX_COLS = n THEN Blank ELSE copied[i]]
        = [i \in Positions |-> IF i < Window - MAX_COLS THEN c[i % MAX_COLS]
                               ELSE IF i < Window THEN Blank ELSE c[i]]
  BY <1>5, Zenon
<1> QED BY <1>6, <1>7, <1>8

-----------------------------------------------------------------------------
(* What kputchar does to a screen *)

IsScreen(s) ==
  /\ s = [cells |-> s.cells, cursor |-> s.cursor]
  /\ s.cells = [i \in Positions |-> s.cells[i]]
  /\ s.cursor \in Positions

LEMMA Halves ==
  ASSUME NEW p \in Positions
  PROVE  /\ p \in Nat /\ 2 * p + 1 < Wide
         /\ (p * 2) % Wide = 2 * p
         /\ ((2 * p) % Wide) \div 2 = p
         /\ p + 1 \in Positions => ((2 * p + 2) % Wide) \div 2 = p + 1
         /\ p > 0 => p - 1 \in Positions /\ ((2 * p - 1) % Wide) \div 2 = p - 1
                     /\ ((2 * p - 2) % Wide) \div 2 = p - 1
<1>1. PICK W \in Nat : Wide = 2 * W /\ W = Wide \div 2 /\ W > 0
  BY WideRange, SMT
<1>2. p \in 0 .. W - 1
  BY <1>1 DEF Positions
<1>3. p \in Nat /\ 2 * p + 1 < Wide
  BY <1>1, <1>2, SMT
<1>4. (p * 2) % Wide = 2 * p /\ ((2 * p) % Wide) \div 2 = p
  BY <1>1, <1>2, SMT
<1>5. p + 1 <= W - 1 => ((2 * p + 2) % Wide) \div 2 = p + 1
  BY <1>1, <1>2, SMT
<1>6. p > 0 => p - 1 \in 0 .. W - 1 /\ ((2 * p - 1) % Wide) \div 2 = p - 1
               /\ ((2 * p - 2) % Wide) \div 2 = p - 1
  BY <1>1, <1>2, SMT
<1>7. p + 1 \in Positions => p + 1 <= W - 1
  BY <1>1, <1>2, SMT DEF Positions
<1>8. Positions = 0 .. W - 1
  BY <1>1 DEF Positions
<1> QED BY <1>3, <1>4, <1>5, <1>6, <1>7, <1>8

\* The arithmetic of a newline is on rows.
LEMMA RowOfOffset ==
  ASSUME NEW p \in Nat
  PROVE  /\ (2 * p) \div RowBytes = p \div MAX_COLS
         /\ NextRow(2 * p) = 2 * ((p \div MAX_COLS + 1) * MAX_COLS)
<1> DEFINE q == p \div MAX_COLS
           m == p % MAX_COLS
<1>1. q \in Nat /\ m \in 0 .. MAX_COLS - 1 /\ p = (q * MAX_COLS) + m /\ q * MAX_COLS \in Nat
  BY RowOf
<1>2. MAX_COLS \in Nat /\ MAX_COLS > 0
  BY RowsAndColumns
<1> HIDE DEF q, m
<1>3. RowBytes \in Nat /\ RowBytes > 0 /\ RowBytes = 2 * MAX_COLS
  BY <1>2, SMT DEF RowBytes
<1>4. q * RowBytes = 2 * (q * MAX_COLS)
  BY <1>1, <1>2, <1>3, SMT
<1>5. 2 * p = (q * RowBytes) + 2 * m /\ 2 * m \in 0 .. RowBytes - 1 /\ 2 * p \in Int
  BY <1>1, <1>2, <1>3, <1>4, SMT
<1>6. (2 * p) \div RowBytes = q /\ (2 * p) % RowBytes = 2 * m
  <2>1. PICK a \in Int : a = 2 * p
    BY <1>5
  <2>2. PICK r : r = 2 * m
    OBVIOUS
  <2>3. PICK d \in Nat : d = RowBytes /\ d > 0
    BY <1>3
  <2>4. a = (q * d) + r /\ r \in 0 .. d - 1
    BY <1>5, <2>1, <2>2, <2>3
  <2>5. a \div d = q /\ a % d = r
    BY <1>1, <2>3, <2>4, DivMod
  <2> QED BY <2>1, <2>2, <2>3, <2>5
<1>7. (q + 1) * MAX_COLS = (q * MAX_COLS) + MAX_COLS
  BY <1>1, <1>2, SMT
<1>8. NextRow(2 * p) = 2 * ((q + 1) * MAX_COLS)
  <2>1. NextRow(2 * p) = 2 * p - 2 * m + RowBytes
    BY <1>6 DEF NextRow
  <2> QED BY <1>1, <1>2, <1>3, <1>7, <2>1, SMT
<1> QED BY <1>6, <1>8 DEF q

ScreenOf(g, p) == [cells |-> g, cursor |-> p]
Grid(g) == g = [i \in Positions |-> g[i]]

LEMMA ScreenParts ==
  ASSUME NEW s, IsScreen(s)
  PROVE  s = ScreenOf(s.cells, s.cursor) /\ Grid(s.cells) /\ s.cursor \in Positions
BY DEF IsScreen, ScreenOf, Grid

LEMMA MadeScreen ==
  ASSUME NEW g, Grid(g), NEW p \in Positions
  PROVE  IsScreen(ScreenOf(g, p)) /\ ScreenOf(g, p).cells = g /\ ScreenOf(g, p).cursor = p
BY DEF IsScreen, ScreenOf, Grid

LEMMA CursorIs ==
  ASSUME NEW g, NEW p \in Positions
  PROVE  /\ get_cursor(ScreenOf(g, p)) = 2 * p
         /\ \A pos : set_cursor(ScreenOf(g, p), pos) = ScreenOf(g, (pos % Wide) \div 2)
<1>1. ScreenOf(g, p).cursor = p
  BY DEF ScreenOf
<1>2. (p * 2) % Wide = 2 * p
  BY Halves
<1>3. get_cursor(ScreenOf(g, p)) = 2 * p
  BY <1>1, <1>2 DEF get_cursor
<1>4. \A pos : set_cursor(ScreenOf(g, p), pos) = ScreenOf(g, (pos % Wide) \div 2)
  BY DEF set_cursor, ScreenOf
<1> QED BY <1>3, <1>4

LEMMA GridChanged ==
  ASSUME NEW g, Grid(g), NEW p, NEW ch
  PROVE  /\ Grid([g EXCEPT ![p] = ch])
         /\ \A i \in Positions : i # p => [g EXCEPT ![p] = ch][i] = g[i]
<1>1. DOMAIN g = Positions
  BY DEF Grid
<1> QED BY <1>1 DEF Grid

LEMMA GridScrolled ==
  ASSUME NEW g, Grid(g)
  PROVE  Grid(Scrolled(g)) /\ Scrolled(g) = FirstRowRepeated(g)
<1>1. DOMAIN g = Positions
  BY DEF Grid
<1>2. Scrolled(g) = FirstRowRepeated(g)
  BY ScrollRepeats DEF Grid
<1>3. Grid(FirstRowRepeated(g))
  BY <1>1, Zenon DEF Grid, FirstRowRepeated
<1> QED BY <1>2, <1>3

LEMMA LastLine == last_line = 2 * (Window - MAX_COLS)
<1>1. MAX_COLS \in Nat /\ MAX_ROWS \in Nat /\ Window - MAX_COLS = (MAX_ROWS - 1) * MAX_COLS
  BY RowsAndColumns
<1>2. PICK n \in Int : n = MAX_ROWS - 1
  BY <1>1, SMT
<1>3. RowBytes = 2 * MAX_COLS
  BY <1>1, SMT DEF RowBytes
<1>4. (2 * MAX_COLS) * n = 2 * (n * MAX_COLS)
  BY <1>1, SMT
<1> QED BY <1>1, <1>2, <1>3, <1>4, Zenon DEF last_line

LEMMA WindowInside == \A p \in 0 .. Window + 1 : p \in Positions
<1>1. PICK W \in Nat : W = Wide \div 2 /\ Window + MAX_COLS < W
  BY RowsAndColumns, WideRange, SMT
<1>2. Window \in Nat /\ MAX_COLS \in Nat /\ MAX_COLS > 0
  BY RowsAndColumns
<1>3. Positions = 0 .. W - 1
  BY <1>1 DEF Positions
<1> QED BY <1>1, <1>2, <1>3, SMT

LEMMA ScrollLine ==
  ASSUME NEW g, Grid(g), NEW p \in Positions
  PROVE  scroll_line(ScreenOf(g, p)) = ScreenOf(FirstRowRepeated(g), Window - MAX_COLS)
<1>1. [ScreenOf(g, p) EXCEPT !.cells = Scrolled(g)] = ScreenOf(Scrolled(g), p) /\ ScreenOf(g, p).cells = g
  BY DEF ScreenOf
<1>2. scroll_line(ScreenOf(g, p)) = ScreenOf(Scrolled(g), (last_line % Wide) \div 2)
  BY <1>1, CursorIs DEF scroll_line
<1>3. Window - MAX_COLS \in Positions
  <2>1. Window - MAX_COLS \in 0 .. Window + 1
    BY RowsAndColumns, SMT
  <2> QED BY <2>1, WindowInside
<1>4. (last_line % Wide) \div 2 = Window - MAX_COLS
  BY <1>3, LastLine, Halves
<1> QED BY <1>2, <1>4, GridScrolled

LEMMA NewLineIs ==
  ASSUME NEW g, Grid(g), NEW p \in Positions
  PROVE  /\ p < Window - MAX_COLS
              => NewLine(ScreenOf(g, p)) = ScreenOf(g, (p \div MAX_COLS + 1) * MAX_COLS)
                 /\ (p \div MAX_COLS + 1) * MAX_COLS \in 0 .. Window
         /\ ~(p < Window - MAX_COLS) /\ p < Window
              => NewLine(ScreenOf(g, p)) = ScreenOf(FirstRowRepeated(g), Window - MAX_COLS)
         /\ ~(p < Window) => \E q \in Positions : NewLine(ScreenOf(g, p)) = ScreenOf(g, q)
<1>1. p \in Nat /\ p \div MAX_COLS \in Nat
  BY PositionsInNat, RowOf
<1>2. PICK q \in Nat : q = p \div MAX_COLS
  BY <1>1
<1>3. PICK n \in Nat : n = MAX_ROWS - 1
  BY RowsAndColumns, SMT
<1>4. Window - MAX_COLS = n * MAX_COLS /\ Window = (n + 1) * MAX_COLS /\ n + 1 \in Nat
  <2>1. n + 1 = MAX_ROWS /\ n + 1 \in Nat
    BY <1>3, RowsAndColumns, SMT
  <2> QED BY <1>3, <2>1, RowsAndColumns, Zenon
<1>5. (p < Window - MAX_COLS <=> q < n) /\ (p < Window <=> q < n + 1)
  BY <1>1, <1>2, <1>4, RowBounds, Zenon
<1>6. LastRow(2 * p) <=> q = n
  BY <1>1, <1>2, <1>3, RowOfOffset DEF LastRow
<1>7. NextRow(2 * p) = 2 * ((q + 1) * MAX_COLS)
  BY <1>1, <1>2, RowOfOffset
<1>8. NewLine(ScreenOf(g, p)) = IF q = n THEN scroll_line(ScreenOf(g, p))
                                ELSE ScreenOf(g, (NextRow(2 * p) % Wide) \div 2)
  BY <1>6, CursorIs, Zenon DEF NewLine
<1>9. ASSUME p < Window - MAX_COLS
      PROVE  NewLine(ScreenOf(g, p)) = ScreenOf(g, (q + 1) * MAX_COLS) /\ (q + 1) * MAX_COLS \in 0 .. Window
  <2>1. q < n
    BY <1>5, <1>9
  <2>2. (q + 1) * MAX_COLS \in 0 .. Window
    <3>1. q + 1 < n + 1 /\ q + 1 \in Nat /\ MAX_COLS \in Nat
      BY <2>1, RowsAndColumns, SMT
    <3>2. ((q + 1) * MAX_COLS) + MAX_COLS <= (n + 1) * MAX_COLS
      BY <3>1, TimesLess
    <3>3. (q + 1) * MAX_COLS \in Nat
      BY <3>1, SMT
    <3> QED BY <1>4, <3>1, <3>2, <3>3, RowsAndColumns, SMT
  <2>3. (q + 1) * MAX_COLS \in Positions
    <3>1. \A x \in 0 .. Window : x \in 0 .. Window + 1
      BY RowsAndColumns, SMT
    <3> QED BY <2>2, <3>1, WindowInside
  <2>4. (NextRow(2 * p) % Wide) \div 2 = (q + 1) * MAX_COLS
    BY <1>7, <2>3, Halves
  <2>5. q # n
    BY <2>1, SMT
  <2> QED BY <1>8, <2>2, <2>4, <2>5
<1>10. ASSUME ~(p < Window - MAX_COLS), p < Window
       PROVE  NewLine(ScreenOf(g, p)) = ScreenOf(FirstRowRepeated(g), Window - MAX_COLS)
  <2>1. ~(q < n) /\ q < n + 1
    BY <1>5, <1>10
  <2>2. q = n
    BY <2>1, SMT
  <2> QED BY <1>8, <2>2, ScrollLine
<1>11. ASSUME ~(p < Window)
       PROVE  \E x \in Positions : NewLine(ScreenOf(g, p)) = ScreenOf(g, x)
  <2>1. ~(q < n + 1)
    BY <1>5, <1>11
  <2>2. q # n
    BY <2>1, SMT
  <2>3. (NextRow(2 * p) % Wide) \div 2 \in Positions
    <3>1. 2 * p \in Int
      BY <1>1, SMT
    <3>2. NextRow(2 * p) \in Int
      BY <3>1, NextRowInInt
    <3> QED BY <3>2, CutToPosition
  <2> QED BY <1>8, <2>2, <2>3
<1> QED BY <1>2, <1>9, <1>10, <1>11

LEMMA TypeIs ==
  ASSUME NEW g, Grid(g), NEW p \in Positions, NEW ch
  PROVE  /\ p # Window => Type(ScreenOf(g, p), ch)
                            = ScreenOf([g EXCEPT ![p] = ch], ((2 * p + 2) % Wide) \div 2)
         /\ p = Window => Type(ScreenOf(g, p), ch)
                            = ScreenOf([FirstRowRepeated(g) EXCEPT ![p] = ch], Window + 1)
<1>1. p \in Nat /\ (2 * p) \div 2 = p /\ (2 * p = Window * 2 <=> p = Window)
  <2>1. p \in Nat /\ Window \in Nat
    BY PositionsInNat, RowsAndColumns
  <2> QED BY <2>1, SMT
<1>2. get_cursor(ScreenOf(g, p)) = 2 * p
  BY CursorIs
<1>3. \A h, q, x : [ScreenOf(h, q) EXCEPT !.cells[x] = ch] = ScreenOf([h EXCEPT ![x] = ch], q)
  BY DEF ScreenOf
<1>4. CASE p # Window
  <2>1. Type(ScreenOf(g, p), ch) = set_cursor([ScreenOf(g, p) EXCEPT !.cells[p] = ch], 2 * p + 2)
    BY <1>1, <1>2, <1>4, Zenon DEF Type
  <2>2. Type(ScreenOf(g, p), ch) = set_cursor(ScreenOf([g EXCEPT ![p] = ch], p), 2 * p + 2)
    BY <1>3, <2>1
  <2> QED BY <1>4, <2>2, CursorIs
<1>5. CASE p = Window
  <2>1. scroll_line(ScreenOf(g, p)) = ScreenOf(FirstRowRepeated(g), Window - MAX_COLS)
    BY ScrollLine
  <2>2. Type(ScreenOf(g, p), ch) = set_cursor([scroll_line(ScreenOf(g, p)) EXCEPT !.cells[p] = ch], 2 * p + 2)
    BY <1>1, <1>2, <1>5, Zenon DEF Type
  <2>3. Type(ScreenOf(g, p), ch)
          = set_cursor(ScreenOf([FirstRowRepeated(g) EXCEPT ![p] = ch], Window - MAX_COLS), 2 * p + 2)
    BY <1>3, <2>1, <2>2
  <2>4. Window - MAX_COLS \in Positions /\ Window + 1 \in Positions
    <3>1. Window - MAX_COLS \in 0 .. Window + 1 /\ Window + 1 \in 0 .. Window + 1
      BY RowsAndColumns, SMT
    <3> QED BY <3>1, WindowInside
  <2>5. ((2 * p + 2) % Wide) \div 2 = Window + 1
    BY <1>5, <2>4, Halves
  <2> QED BY <1>5, <2>3, <2>4, <2>5, CursorIs
<1> QED BY <1>4, <1>5

LEMMA TypeScreen ==
  ASSUME NEW g, Grid(g), NEW p \in Positions, NEW ch
  PROVE  \E h, q : Grid(h) /\ q \in Positions /\ Type(ScreenOf(g, p), ch) = ScreenOf(h, q)
<1>1. CASE p # Window
  <2>1. ((2 * p + 2) % Wide) \div 2 \in Positions
    <3>1. 2 * p + 2 \in Int
      BY PositionsInNat, SMT
    <3> QED BY <3>1, CutToPosition
  <2>2. PICK h : h = [g EXCEPT ![p] = ch]
    OBVIOUS
  <2>3. PICK q : q = ((2 * p + 2) % Wide) \div 2
    OBVIOUS
  <2>4. Grid(h)
    BY <2>2, GridChanged
  <2>5. Type(ScreenOf(g, p), ch) = ScreenOf(h, q)
    BY <1>1, <2>2, <2>3, TypeIs
  <2> QED BY <2>1, <2>3, <2>4, <2>5
<1>2. CASE p = Window
  <2>1. Window + 1 \in Positions
    <3>1. Window + 1 \in 0 .. Window + 1
      BY RowsAndColumns, SMT
    <3> QED BY <3>1, WindowInside
  <2>2. Grid([FirstRowRepeated(g) EXCEPT ![p] = ch])
    <3>1. Grid(FirstRowRepeated(g))
      BY GridScrolled
    <3> QED BY <3>1, GridChanged
  <2>3. PICK h : h = [FirstRowRepeated(g) EXCEPT ![p] = ch]
    OBVIOUS
  <2>4. Type(ScreenOf(g, p), ch) = ScreenOf(h, Window + 1)
    BY <1>2, <2>3, TypeIs
  <2> QED BY <2>1, <2>2, <2>3, <2>4
<1> QED BY <1>1, <1>2

LEMMA BackspaceIs ==
  ASSUME NEW g, Grid(g), NEW p \in Positions
  PROVE  /\ \E h, q : Grid(h) /\ q \in Positions /\ Backspace(ScreenOf(g, p)) = ScreenOf(h, q)
         /\ p > 0 /\ p # Window + 1
              => p - 1 \in Positions
                 /\ Backspace(ScreenOf(g, p)) = ScreenOf([g EXCEPT ![p - 1] = Space], p - 1)
<1>1. p \in Nat
  BY PositionsInNat
<1> DEFINE t == ((2 * p - 1) % Wide) \div 2
           erased == Type(ScreenOf(g, t), Space)
<1>2. t \in Positions
  <2>1. 2 * p - 1 \in Int
    BY <1>1, SMT
  <2> QED BY <2>1, CutToPosition
<1>3. set_cursor(ScreenOf(g, p), get_cursor(ScreenOf(g, p)) - 1) = ScreenOf(g, t)
  BY CursorIs
<1>4. Backspace(ScreenOf(g, p)) = set_cursor(erased, get_cursor(erased) - 2)
  BY <1>3, Zenon DEF Backspace
<1> HIDE DEF t
<1>5. \E h, q : Grid(h) /\ q \in Positions /\ Backspace(ScreenOf(g, p)) = ScreenOf(h, q)
  <2>1. PICK h, q : Grid(h) /\ q \in Positions /\ erased = ScreenOf(h, q)
    BY <1>2, TypeScreen
  <2>2. Backspace(ScreenOf(g, p)) = ScreenOf(h, ((2 * q - 2) % Wide) \div 2)
    BY <1>4, <2>1, CursorIs
  <2>3. ((2 * q - 2) % Wide) \div 2 \in Positions
    <3>1. 2 * q - 2 \in Int
      BY <2>1, PositionsInNat, SMT
    <3> QED BY <3>1, CutToPosition
  <2> QED BY <2>1, <2>2, <2>3
<1>6. ASSUME p > 0, p # Window + 1
      PROVE  /\ p - 1 \in Positions
             /\ Backspace(ScreenOf(g, p)) = ScreenOf([g EXCEPT ![p - 1] = Space], p - 1)
  <2>1. p - 1 \in Positions /\ t = p - 1 /\ ((2 * p - 2) % Wide) \div 2 = p - 1
    BY <1>6, Halves DEF t
  <2>2. p - 1 # Window /\ p - 1 \in Nat /\ (p - 1) + 1 = p
    BY <1>1, <1>6, RowsAndColumns, SMT
  <2>3. ((2 * (p - 1) + 2) % Wide) \div 2 = p
    BY <2>1, <2>2, Halves
  <2>4. erased = ScreenOf([g EXCEPT ![p - 1] = Space], p)
    BY <2>1, <2>2, <2>3, TypeIs
  <2>5. Backspace(ScreenOf(g, p)) = ScreenOf([g EXCEPT ![p - 1] = Space], ((2 * p - 2) % Wide) \div 2)
    BY <1>4, <2>4, CursorIs
  <2> QED BY <2>1, <2>5
<1> QED BY <1>5, <1>6

\* kputchar makes a screen of a screen.
LEMMA PutScreen ==
  ASSUME NEW s, IsScreen(s), NEW ch
  PROVE  IsScreen(kputchar(s, ch))
<1>1. PICK g : g = s.cells
  OBVIOUS
<1>2. PICK p : p = s.cursor
  OBVIOUS
<1>3. s = ScreenOf(g, p) /\ Grid(g) /\ p \in Positions
  BY <1>1, <1>2, ScreenParts
<1>4. CASE ch = "NL"
  <2>1. \E h, q : Grid(h) /\ q \in Positions /\ NewLine(s) = ScreenOf(h, q)
    <3>1. CASE p < Window - MAX_COLS
      <4>1. \A x \in 0 .. Window : x \in 0 .. Window + 1
        BY RowsAndColumns, SMT
      <4> QED BY <1>3, <3>1, <4>1, NewLineIs, WindowInside
    <3>2. CASE ~(p < Window - MAX_COLS) /\ p < Window
      <4>1. Window - MAX_COLS \in 0 .. Window + 1
        BY RowsAndColumns, SMT
      <4>2. Grid(FirstRowRepeated(g))
        BY <1>3, GridScrolled
      <4> QED BY <1>3, <3>2, <4>1, <4>2, NewLineIs, WindowInside
    <3>3. CASE ~(p < Window)
      BY <1>3, <3>3, NewLineIs
    <3> QED BY <3>1, <3>2, <3>3
  <2> QED BY <1>4, <2>1, MadeScreen DEF kputchar
<1>5. CASE ch = "BS"
  <2>1. kputchar(s, ch) = Backspace(s)
    BY <1>5 DEF kputchar
  <2>2. PICK h, q : Grid(h) /\ q \in Positions /\ Backspace(ScreenOf(g, p)) = ScreenOf(h, q)
    BY <1>3, BackspaceIs, Zenon
  <2> QED BY <1>3, <2>1, <2>2, MadeScreen
<1>6. CASE ch # "NL" /\ ch # "BS"
  <2>1. kputchar(s, ch) = Type(s, ch)
    BY <1>6 DEF kputchar
  <2> QED BY <1>3, <2>1, TypeScreen, MadeScreen
<1> QED BY <1>4, <1>5, <1>6

-----------------------------------------------------------------------------
(* What kprint does to a screen *)

\* The fold of kprint, over the sets of positions among the first n of text.
Printing(s, text, n, f) ==
  [T \in SUBSET (1 .. n) |->
     IF T = {} THEN s
     ELSE LET k == Max(T)
          IN  kputchar(f[T \ {k}], text[k])]

LEMMA KprintIs ==
  ASSUME NEW s, NEW text, NEW m, DOMAIN text = 1 .. m
  PROVE  kprint(s, text) = (CHOOSE f : f = Printing(s, text, m, f))[1 .. m]
BY DEF kprint, FoldLeft, MapThenFoldSet, Printing

\* Some function satisfies the fold's equation: one for n - 1 positions extends to n.
LEMMA PrintingExtends ==
  ASSUME NEW s, NEW text, NEW n \in Nat, n > 0, NEW f, f = Printing(s, text, n - 1, f)
  PROVE  \E h : h = Printing(s, text, n, h)
<1>1. PICK h : h = [T \in SUBSET (1 .. n) |->
                      IF n \in T THEN kputchar(f[T \ {n}], text[n]) ELSE f[T]]
  OBVIOUS
<1>2. \A T \in SUBSET (1 .. n) : n \notin T => T \in SUBSET (1 .. n - 1)
  BY SMT
<1>3. \A T \in SUBSET (1 .. n - 1) : T \in SUBSET (1 .. n) /\ n \notin T
  BY SMT
<1>4. ASSUME NEW T \in SUBSET (1 .. n), T # {}
      PROVE  h[T] = kputchar(h[T \ {Max(T)}], text[Max(T)])
  <2>1. Max(T) \in T /\ \A x \in T : x <= Max(T)
    BY <1>4, LastOf
  <2>2. PICK k : k = Max(T)
    OBVIOUS
  <2>3. T \ {k} \in SUBSET (1 .. n)
    OBVIOUS
  <2>4. CASE n \in T
    <3>1. n <= k /\ k \in 1 .. n
      BY <2>1, <2>2, <2>4
    <3>2. k = n
      BY <3>1, SMT
    <3>3. h[T] = kputchar(f[T \ {k}], text[k])
      BY <1>1, <2>4, <3>2
    <3>4. h[T \ {k}] = f[T \ {k}]
      BY <1>1, <2>3, <3>2
    <3> QED BY <2>2, <3>3, <3>4, Zenon
  <2>5. CASE n \notin T
    <3>1. T \in SUBSET (1 .. n - 1)
      BY <1>2, <2>5
    <3>2. f[T] = kputchar(f[T \ {k}], text[k])
      BY <1>4, <2>2, <3>1 DEF Printing
    <3>3. h[T] = f[T] /\ h[T \ {k}] = f[T \ {k}]
      BY <1>1, <2>3, <2>5
    <3> QED BY <2>2, <3>2, <3>3, Zenon
  <2> QED BY <2>4, <2>5
<1>5. h[{}] = s
  <2>1. {} \in SUBSET (1 .. n - 1)
    OBVIOUS
  <2>2. f[{}] = s
    BY <2>1 DEF Printing
  <2>3. {} \in SUBSET (1 .. n) /\ n \notin {}
    OBVIOUS
  <2> QED BY <1>1, <2>2, <2>3
<1>6. h = [T \in SUBSET (1 .. n) |-> h[T]]
  BY <1>1
<1>7. h = Printing(s, text, n, h)
  BY <1>4, <1>5, <1>6, Zenon DEF Printing
<1> QED BY <1>7

LEMMA PrintingExists ==
  ASSUME NEW s, NEW text, NEW m \in Nat
  PROVE  \E f : f = Printing(s, text, m, f)
<1> DEFINE Without == {n \in Nat : ~ \E f : f = Printing(s, text, n, f)}
<1> SUFFICES ASSUME Without # {} PROVE FALSE
  OBVIOUS
<1>1. PICK n \in Without : \A l \in Without : n <= l
  <2>1. Without \in SUBSET Nat
    OBVIOUS
  <2> HIDE DEF Without
  <2> QED BY <2>1, LeastNatural
<1>2. n \in Nat /\ ~ \E f : f = Printing(s, text, n, f)
  OBVIOUS
<1>3. n # 0
  <2> SUFFICES ASSUME n = 0 PROVE FALSE
    OBVIOUS
  <2>1. PICK f : f = [T \in SUBSET (1 .. 0) |-> s]
    OBVIOUS
  <2>2. \A T \in SUBSET (1 .. 0) : T = {}
    BY SMT
  <2>3. f = Printing(s, text, 0, f)
    BY <2>1, <2>2, Zenon DEF Printing
  <2> QED BY <1>2, <2>3
<1>4. n - 1 \in Nat /\ n > 0
  BY <1>2, <1>3, SMT
<1>5. n - 1 \notin Without
  <2> HIDE DEF Without
  <2> QED BY <1>1, <1>2, <1>4, SMT
<1>6. \E f : f = Printing(s, text, n - 1, f)
  BY <1>4, <1>5
<1> QED BY <1>2, <1>4, <1>6, PrintingExtends

\* F[k] is the screen when k characters of text have been printed.
Prints(F, s, text, m) ==
  /\ F[0] = s
  /\ \A k \in 1 .. m : F[k] = kputchar(F[k - 1], text[k])

LEMMA KprintSteps ==
  ASSUME NEW s, NEW text, NEW m \in Nat, DOMAIN text = 1 .. m
  PROVE  \E F : Prints(F, s, text, m) /\ kprint(s, text) = F[m]
<1>1. PICK f : f = (CHOOSE h : h = Printing(s, text, m, h))
  OBVIOUS
<1>2. f = Printing(s, text, m, f)
  <2>1. \E h : h = Printing(s, text, m, h)
    BY PrintingExists
  <2> QED BY <1>1, <2>1
<1>3. kprint(s, text) = f[1 .. m]
  BY <1>1, KprintIs
<1>4. PICK F : F = [k \in 0 .. m |-> f[1 .. k]]
  OBVIOUS
<1>5. F[0] = s
  <2>1. 1 .. 0 = {} /\ 0 \in 0 .. m
    BY SMT
  <2>2. {} \in SUBSET (1 .. m)
    OBVIOUS
  <2>3. f[{}] = s
    BY <1>2, <2>2 DEF Printing
  <2> QED BY <1>4, <2>1, <2>3
<1>6. ASSUME NEW k \in 1 .. m PROVE F[k] = kputchar(F[k - 1], text[k])
  <2>1. 1 .. k \in SUBSET (1 .. m) /\ 1 .. k # {} /\ k \in 0 .. m /\ k - 1 \in 0 .. m /\ k \in Nat
    BY SMT
  <2>2. Max(1 .. k) = k
    <3>1. 1 .. k \in SUBSET Int /\ k \in 1 .. k /\ \A x \in 1 .. k : x <= k
      BY SMT
    <3> QED BY <3>1, MaxIs
  <2>3. (1 .. k) \ {k} = 1 .. k - 1
    BY SMT
  <2>4. f[1 .. k] = kputchar(f[1 .. k - 1], text[k])
    BY <1>2, <2>1, <2>2, <2>3 DEF Printing
  <2>5. F[k] = f[1 .. k] /\ F[k - 1] = f[1 .. k - 1]
    BY <1>4, <2>1
  <2> QED BY <2>4, <2>5, Zenon
<1>7. F[m] = f[1 .. m]
  BY <1>4
<1> QED BY <1>3, <1>5, <1>6, <1>7 DEF Prints

\* What holds of s and is kept by each character holds of what is printed on s.
LEMMA KprintScreen ==
  ASSUME NEW s, IsScreen(s), NEW text, NEW m \in Nat, DOMAIN text = 1 .. m
  PROVE  IsScreen(kprint(s, text))
<1>1. PICK F : Prints(F, s, text, m) /\ kprint(s, text) = F[m]
  BY KprintSteps
<1> DEFINE Others == {k \in 0 .. m : ~IsScreen(F[k])}
<1>2. Others = {}
  <2> SUFFICES ASSUME Others # {} PROVE FALSE
    OBVIOUS
  <2>1. PICK k \in Others : \A l \in Others : k <= l
    <3>1. Others \in SUBSET Nat
      BY SMT
    <3> HIDE DEF Others
    <3> QED BY <3>1, LeastNatural
  <2>2. k \in 0 .. m /\ ~IsScreen(F[k])
    OBVIOUS
  <2>3. k # 0
    BY <1>1, <2>2 DEF Prints
  <2>4. k \in 1 .. m /\ k - 1 \in 0 .. m /\ k - 1 < k
    BY <2>2, <2>3, SMT
  <2>5. k - 1 \notin Others
    <3> HIDE DEF Others
    <3> QED BY <2>1, <2>2, <2>4, SMT
  <2>6. IsScreen(F[k - 1])
    BY <2>4, <2>5
  <2>7. F[k] = kputchar(F[k - 1], text[k])
    BY <1>1, <2>4 DEF Prints
  <2> QED BY <2>2, <2>6, <2>7, PutScreen
<1>3. m \in 0 .. m
  BY SMT
<1> QED BY <1>1, <1>2, <1>3

\* A plain character is put where the cursor is.
Plain(ch) == ch # "NL" /\ ch # "BS"

LEMMA PlainIs ==
  ASSUME NEW g, Grid(g), NEW p \in Nat, p < Window, NEW ch, Plain(ch)
  PROVE  kputchar(ScreenOf(g, p), ch) = ScreenOf([g EXCEPT ![p] = ch], p + 1)
<1>1. p \in 0 .. Window + 1 /\ p + 1 \in 0 .. Window + 1 /\ p # Window
  BY RowsAndColumns, SMT
<1>2. p \in Positions /\ p + 1 \in Positions
  BY <1>1, WindowInside
<1>3. kputchar(ScreenOf(g, p), ch) = Type(ScreenOf(g, p), ch)
  BY DEF kputchar, Plain
<1>4. ((2 * p + 2) % Wide) \div 2 = p + 1
  BY <1>2, Halves
<1> QED BY <1>1, <1>2, <1>3, <1>4, TypeIs

\* The grid when k characters of text have been written from p on.
Written(g, p, text, k) ==
  [i \in Positions |-> IF p <= i /\ i < p + k THEN text[i - p + 1] ELSE g[i]]

LEMMA WriteOne ==
  ASSUME NEW g, Grid(g), NEW text, NEW p \in Nat, NEW k \in Nat
  PROVE  [Written(g, p, text, k) EXCEPT ![p + k] = text[k + 1]] = Written(g, p, text, k + 1)
<1>1. PICK w : w = Written(g, p, text, k)
  OBVIOUS
<1>2. PICK h : h = [w EXCEPT ![p + k] = text[k + 1]]
  OBVIOUS
<1>3. DOMAIN w = Positions /\ h = [i \in Positions |-> h[i]]
  BY <1>1, <1>2 DEF Written
<1>4. ASSUME NEW i \in Positions
      PROVE  h[i] = IF p <= i /\ i < p + (k + 1) THEN text[i - p + 1] ELSE g[i]
  <2>1. i \in Nat
    BY PositionsInNat
  <2>2. CASE i = p + k
    <3>1. p <= i /\ i < p + (k + 1) /\ i - p + 1 = k + 1
      BY <2>1, <2>2, SMT
    <3>2. h[i] = text[k + 1]
      BY <1>2, <1>3, <2>2
    <3> QED BY <3>1, <3>2
  <2>3. CASE i # p + k
    <3>1. h[i] = w[i]
      BY <1>2, <1>3, <2>3
    <3>2. i < p + k <=> i < p + (k + 1)
      BY <2>1, <2>3, SMT
    <3>3. w[i] = IF p <= i /\ i < p + k THEN text[i - p + 1] ELSE g[i]
      BY <1>1 DEF Written
    <3> QED BY <3>1, <3>2, <3>3
  <2> QED BY <2>2, <2>3
<1>5. h = Written(g, p, text, k + 1)
  BY <1>3, <1>4, Zenon DEF Written
<1> QED BY <1>1, <1>2, <1>5

LEMMA WrittenGrid ==
  ASSUME NEW g, NEW text, NEW p, NEW k
  PROVE  Grid(Written(g, p, text, k))
BY DEF Grid, Written

\* Plain text for which the window has room is written behind the cursor.
LEMMA PlainSteps ==
  ASSUME NEW g, Grid(g), NEW p \in Nat, NEW text, NEW m \in Nat, NEW n \in 0 .. m,
         \A k \in 1 .. n : Plain(text[k]), p + n <= Window,
         NEW F, Prints(F, ScreenOf(g, p), text, m)
  PROVE  F[n] = ScreenOf(Written(g, p, text, n), p + n)
<1> DEFINE Wrong == {k \in 0 .. n : F[k] # ScreenOf(Written(g, p, text, k), p + k)}
<1>1. Wrong = {}
  <2> SUFFICES ASSUME Wrong # {} PROVE FALSE
    OBVIOUS
  <2>1. PICK k \in Wrong : \A l \in Wrong : k <= l
    <3>1. Wrong \in SUBSET Nat
      BY SMT
    <3> HIDE DEF Wrong
    <3> QED BY <3>1, LeastNatural
  <2>2. k \in 0 .. n /\ F[k] # ScreenOf(Written(g, p, text, k), p + k)
    OBVIOUS
  <2>3. k # 0
    <3> SUFFICES ASSUME k = 0 PROVE FALSE
      OBVIOUS
    <3>1. Written(g, p, text, 0) = g
      <4>1. \A i \in Positions : ~(p <= i /\ i < p + 0)
        BY PositionsInNat, SMT
      <4> QED BY <4>1, Zenon DEF Written, Grid
    <3>2. p + 0 = p
      BY SMT
    <3>3. F[0] = ScreenOf(g, p)
      BY DEF Prints
    <3> QED BY <2>2, <3>1, <3>2, <3>3, Zenon
  <2>4. PICK l \in Nat : k = l + 1
    <3>1. k - 1 \in Nat /\ k = (k - 1) + 1
      BY <2>2, <2>3, SMT
    <3> QED BY <3>1
  <2>5. l \in 0 .. n /\ l < k /\ k \in 1 .. m /\ k \in 1 .. n /\ k - 1 = l /\ p + l < Window /\ p + l \in Nat
    BY <2>2, <2>4, RowsAndColumns, SMT
  <2>6. l \notin Wrong
    <3> HIDE DEF Wrong
    <3> QED BY <2>1, <2>2, <2>5, SMT
  <2>7. F[l] = ScreenOf(Written(g, p, text, l), p + l)
    BY <2>5, <2>6
  <2>8. F[k] = kputchar(F[l], text[k])
    BY <2>5 DEF Prints
  <2>9. kputchar(ScreenOf(Written(g, p, text, l), p + l), text[k])
          = ScreenOf([Written(g, p, text, l) EXCEPT ![p + l] = text[k]], p + l + 1)
    BY <2>5, WrittenGrid, PlainIs
  <2>10. [Written(g, p, text, l) EXCEPT ![p + l] = text[k]] = Written(g, p, text, k)
    BY <2>4, WriteOne
  <2>11. p + l + 1 = p + k
    BY <2>4, SMT
  <2> QED BY <2>2, <2>7, <2>8, <2>9, <2>10, <2>11, Zenon
<1>2. n \in 0 .. n
  BY SMT
<1> QED BY <1>1, <1>2

LEMMA KprintPlain ==
  ASSUME NEW g, Grid(g), NEW p \in Nat, NEW text, NEW m \in Nat, DOMAIN text = 1 .. m,
         \A k \in 1 .. m : Plain(text[k]), p + m <= Window
  PROVE  kprint(ScreenOf(g, p), text) = ScreenOf(Written(g, p, text, m), p + m)
<1>1. PICK F : Prints(F, ScreenOf(g, p), text, m) /\ kprint(ScreenOf(g, p), text) = F[m]
  BY KprintSteps
<1>2. m \in 0 .. m
  BY SMT
<1> QED BY <1>1, <1>2, PlainSteps

\* A newline behind plain text.
LEMMA KprintLine ==
  ASSUME NEW g, Grid(g), NEW p \in Nat, NEW text, NEW m \in Nat, DOMAIN text = 1 .. m + 1,
         \A k \in 1 .. m : Plain(text[k]), text[m + 1] = "NL", p + m <= Window
  PROVE  kprint(ScreenOf(g, p), text) = NewLine(ScreenOf(Written(g, p, text, m), p + m))
<1>1. m + 1 \in Nat /\ m \in 0 .. m + 1 /\ m + 1 \in 1 .. m + 1 /\ m + 1 - 1 = m
  BY SMT
<1>2. PICK F : Prints(F, ScreenOf(g, p), text, m + 1) /\ kprint(ScreenOf(g, p), text) = F[m + 1]
  BY <1>1, KprintSteps
<1>3. F[m] = ScreenOf(Written(g, p, text, m), p + m)
  BY <1>1, <1>2, PlainSteps
<1>4. F[m + 1] = kputchar(F[m], text[m + 1])
  BY <1>1, <1>2 DEF Prints
<1> QED BY <1>2, <1>3, <1>4 DEF kputchar

-----------------------------------------------------------------------------
(* Clear windows *)

LEMMA ClearIs ==
  ASSUME NEW g, NEW p
  PROVE  Clear(ScreenOf(g, p)) <=> p < Window /\ \A i \in p .. Window - 1 : g[i] \in {Space, Blank}
BY DEF Clear, InWindow, ScreenOf

LEMMA WrittenClear ==
  ASSUME NEW g, NEW p \in Nat, NEW text, NEW m \in Nat, p + m < Window, Clear(ScreenOf(g, p))
  PROVE  Clear(ScreenOf(Written(g, p, text, m), p + m))
<1>1. Window \in Nat
  BY RowsAndColumns
<1>2. ASSUME NEW i \in p + m .. Window - 1 PROVE Written(g, p, text, m)[i] \in {Space, Blank}
  <2>1. i \in p .. Window - 1 /\ ~(i < p + m) /\ i \in 0 .. Window + 1
    BY <1>1, SMT
  <2>2. i \in Positions
    BY <2>1, WindowInside
  <2>3. Written(g, p, text, m)[i] = g[i]
    BY <2>1, <2>2 DEF Written
  <2> QED BY <2>1, <2>3, ClearIs
<1> QED BY <1>2, ClearIs

\* A newline leaves a clear window clear: a scroll clears the row it comes to.
LEMMA NewLineClear ==
  ASSUME NEW g, Grid(g), NEW p \in Nat, Clear(ScreenOf(g, p))
  PROVE  Clear(NewLine(ScreenOf(g, p)))
<1>1. p < Window /\ \A i \in p .. Window - 1 : g[i] \in {Space, Blank}
  BY ClearIs
<1>2. /\ Window \in Nat /\ MAX_COLS \in Nat /\ MAX_COLS > 0 /\ Window - MAX_COLS \in Nat
      /\ MAX_ROWS \in Nat /\ Window - MAX_COLS = (MAX_ROWS - 1) * MAX_COLS
  BY RowsAndColumns
<1>3. p \in Positions
  <2>1. p \in 0 .. Window + 1
    BY <1>1, <1>2, SMT
  <2> QED BY <2>1, WindowInside
<1>4. CASE p < Window - MAX_COLS
  <2>1. PICK q \in Nat : q = p \div MAX_COLS
    BY RowOf
  <2>2. PICK r \in 0 .. MAX_COLS - 1 : p = (q * MAX_COLS) + r
    BY <2>1, RowOf
  <2>3. PICK x : x = (q + 1) * MAX_COLS
    OBVIOUS
  <2>4. q * MAX_COLS \in Nat /\ x = (q * MAX_COLS) + MAX_COLS
    BY <1>2, <2>3, SMT
  <2>5. p < x /\ x \in Nat
    BY <1>2, <2>2, <2>4, SMT
  <2>6. x < Window
    <3>1. PICK n \in Int : n = MAX_ROWS - 1
      BY <1>2, SMT
    <3>2. n \in Nat /\ q < n
      <4>1. n \in Nat
        BY <3>1, RowsAndColumns, SMT
      <4> QED BY <1>2, <1>4, <2>1, <3>1, <4>1, RowBounds
    <3>3. (q * MAX_COLS) + MAX_COLS <= n * MAX_COLS
      BY <1>2, <3>1, <3>2, TimesLess
    <3>4. n * MAX_COLS = Window - MAX_COLS
      BY <1>2, <3>1
    <3> QED BY <1>2, <2>4, <2>5, <3>3, <3>4, SMT
  <2>7. NewLine(ScreenOf(g, p)) = ScreenOf(g, x)
    BY <1>3, <1>4, <2>1, <2>3, NewLineIs
  <2>8. \A i \in x .. Window - 1 : i \in p .. Window - 1
    BY <2>5, SMT
  <2> QED BY <1>1, <2>6, <2>7, <2>8, ClearIs
<1>5. CASE ~(p < Window - MAX_COLS)
  <2>1. PICK x \in Nat : x = Window - MAX_COLS
    BY <1>2
  <2>2. NewLine(ScreenOf(g, p)) = ScreenOf(FirstRowRepeated(g), x)
    BY <1>1, <1>3, <1>5, <2>1, NewLineIs
  <2>3. ASSUME NEW i \in x .. Window - 1 PROVE FirstRowRepeated(g)[i] = Blank
    <3>1. ~(i < x) /\ i < Window /\ i \in 0 .. Window + 1
      BY <1>2, <2>1, SMT
    <3>2. i \in DOMAIN g
      BY <3>1, WindowInside DEF Grid
    <3> QED BY <2>1, <3>1, <3>2 DEF FirstRowRepeated
  <2>4. x < Window
    BY <1>2, <2>1, SMT
  <2> QED BY <2>2, <2>3, <2>4, ClearIs
<1> QED BY <1>4, <1>5

\* At power-on the window is cleared, and what is behind it stays.
LEMMA KclearIs ==
  LET g == [i \in Positions |-> IF i < Window THEN Blank ELSE "?"]
  IN  kclear(PowerOn) = ScreenOf(g, 0) /\ Grid(g)
<1>1. PowerOn.cells = [i \in Positions |-> "?"]
  BY DEF PowerOn, Positions
<1>2. PICK g : g = [i \in Positions |-> IF i < Window THEN Blank ELSE "?"]
  OBVIOUS
<1>3. g = [i \in DOMAIN PowerOn.cells |-> IF i < Window THEN Blank ELSE PowerOn.cells[i]]
  BY <1>1, <1>2
<1>4. 0 \in Positions /\ PowerOn.cursor = 0
  BY WindowInside, RowsAndColumns, SMT DEF PowerOn
<1>5. kclear(PowerOn) = set_cursor(ScreenOf(g, 0), 0)
  BY <1>3, <1>4, Zenon DEF kclear, ScreenOf
<1>6. ((2 * 0) % Wide) \div 2 = 0
  BY <1>4, Halves
<1>7. set_cursor(ScreenOf(g, 0), 0) = ScreenOf(g, 0)
  BY <1>4, <1>6, CursorIs
<1> QED BY <1>2, <1>5, <1>7 DEF Grid
=============================================================================
