----------------------------- MODULE HeapProofs -----------------------------
(***************************************************************************)
(* The heap, proved for every start, size and request.  First each list    *)
(* operation of Heap: what it leaves of the headers, field by field, and   *)
(* that it keeps the blocks a tiling.  Then the inductive invariant IInv,  *)
(* one lemma per action, and the theorems that follow from it.             *)
(***************************************************************************)
EXTENDS HeapWalk, FiniteSetTheorems, WellFoundedInduction, TLAPS

Links(S) == S \cup {NULL}
HeaderMaps(N, S) == [N -> HeaderType(S)]

LEMMA TotalSizeBounds ==
  ASSUME NEW size \in Nat
  PROVE  TotalSize(size) \in Nat /\ TotalSize(size) >= size + Header
BY HeapAssumption DEF HeapAssumption, TotalSize, HEAP_ALIGN

LEMMA MinOfNaturals ==
  ASSUME NEW S \in SUBSET Nat, S # {}
  PROVE  Min(S) \in S /\ \A n \in S : Min(S) <= n
<1> DEFINE less == OpToRel(<, Nat)
<1>1. \A n, m \in Nat : n < m => <<n, m>> \in less
  BY Zenon DEF OpToRel
<1>2. IsWellFoundedOn(less, Nat)
  BY NatLessThanWellFounded, Zenon
<1> HIDE DEF less
<1>3. PICK m \in S : \A n \in S : ~(<<n, m>> \in less)
  BY <1>2, WFMin, Zenon
<1>4. \A n \in S : ~(n < m)
  BY <1>1, <1>3, Zenon
<1>5. \E x \in S : \A y \in S : x <= y
  BY <1>4
<1> QED
  BY <1>5, Zenon DEF Min

LEMMA FindFindsFit ==
  ASSUME NEW h, HeadersOK(h), NEW size \in Nat, heap_find_free_block(h, size) # NULL
  PROVE  /\ heap_find_free_block(h, size) \in DOMAIN h
         /\ Fits(h, heap_find_free_block(h, size), size)
<1> DEFINE fits == {b \in DOMAIN h : Fits(h, b, size)}
<1>1. fits # {} /\ heap_find_free_block(h, size) = Min(fits)
  BY DEF heap_find_free_block
<1>2. fits \in SUBSET Nat
  BY DEF HeadersOK
<1>3. Min(fits) \in fits
  BY <1>1, <1>2, MinOfNaturals
<1> QED
  BY <1>1, <1>3

\* Headers keep their type when nodes are added.
LEMMA HeaderTypeGrows ==
  ASSUME NEW S, NEW T, S \subseteq T, NEW r \in HeaderType(S)
  PROVE  r \in HeaderType(T)
BY DEF HeaderType, NULL

\* What the three list writes leave of a header map.
LEMMA SetPrevFacts ==
  ASSUME NEW S, NEW N, NEW h \in HeaderMaps(N, S), NEW a, NEW p \in Links(S)
  PROVE  /\ SetPrev(h, a, p) \in HeaderMaps(N, S)
         /\ \A x \in N : /\ SetPrev(h, a, p)[x].prev = IF x = a THEN p ELSE h[x].prev
                         /\ SetPrev(h, a, p)[x].next = h[x].next
                         /\ SetPrev(h, a, p)[x].size = h[x].size
                         /\ SetPrev(h, a, p)[x].used = h[x].used
<1>1. \A x \in N : SetPrev(h, a, p)[x] = IF x = a THEN [h[x] EXCEPT !.prev = p] ELSE h[x]
  BY DEF SetPrev, HeaderMaps
<1>2. \A x \in N : h[x] \in HeaderType(S)
  BY DEF HeaderMaps
<1>3. \A x \in N : /\ SetPrev(h, a, p)[x] \in HeaderType(S)
                   /\ SetPrev(h, a, p)[x].prev = IF x = a THEN p ELSE h[x].prev
                   /\ SetPrev(h, a, p)[x].next = h[x].next
                   /\ SetPrev(h, a, p)[x].size = h[x].size
                   /\ SetPrev(h, a, p)[x].used = h[x].used
  BY <1>1, <1>2 DEF HeaderType, HeaderMaps, Links
<1>4. SetPrev(h, a, p) = [x \in N |-> SetPrev(h, a, p)[x]]
  BY DEF SetPrev, HeaderMaps
<1> QED
  BY <1>3, <1>4 DEF HeaderMaps

LEMMA AddBlockFacts ==
  ASSUME NEW S, NEW N, NEW h \in HeaderMaps(N, S), NEW a, NEW header \in HeaderType(S),
         NEW M, M = N \cup {a}
  PROVE  /\ AddBlock(h, a, header) \in HeaderMaps(M, S)
         /\ AddBlock(h, a, header)[a] = header
         /\ \A x \in N \ {a} : AddBlock(h, a, header)[x] = h[x]
BY DEF AddBlock, HeaderMaps

LEMMA RemoveBlockFacts ==
  ASSUME NEW S, NEW N, NEW h \in HeaderMaps(N, S), NEW b, NEW M, M = N \ {b}
  PROVE  /\ RemoveBlock(h, b) \in HeaderMaps(M, S)
         /\ \A x \in N \ {b} : RemoveBlock(h, b)[x] = h[x]
BY DEF RemoveBlock, HeaderMaps

\* The list after a split, field by field: g is h with b cut at rest.
SplitFields(h, g, b, rest, total) ==
  LET N == DOMAIN h
  IN  /\ g \in HeaderMaps(N \cup {rest}, N \cup {rest})
      /\ g[rest].size = h[b].size - total /\ g[rest].used = 0
      /\ g[rest].next = h[b].next /\ g[rest].prev = b
      /\ g[b].size = total /\ g[b].used = 1
      /\ g[b].next = rest /\ g[b].prev = h[b].prev
      /\ \A a \in N \ {b} :
           /\ g[a].size = h[a].size /\ g[a].used = h[a].used /\ g[a].next = h[a].next
           /\ g[a].prev = IF a = h[b].next THEN rest ELSE h[a].prev

LEMMA SplitHasFields ==
  ASSUME NEW h, HeadersOK(h), NEW b \in DOMAIN h, NEW size \in Nat,
         b + TotalSize(size) \notin DOMAIN h, h[b].next # b,
         TotalSize(size) \in Nat, TotalSize(size) <= h[b].size
  PROVE  SplitFields(h, SplitAt(h, b, size), b, b + TotalSize(size), TotalSize(size))
<1> DEFINE rest == b + TotalSize(size)
           N == DOMAIN h
           S == N \cup {rest}
           cut == [h EXCEPT ![b] = [@ EXCEPT !.size = TotalSize(size), !.used = 1,
                                             !.next = rest]]
           linked == SetPrev(cut, h[b].next, rest)
<1>1. h \in HeaderMaps(N, N) /\ h \in HeaderMaps(N, S)
  BY HeaderTypeGrows DEF HeadersOK, HeaderMaps
<1>2. /\ cut \in HeaderMaps(N, S)
      /\ cut[b].size = TotalSize(size) /\ cut[b].used = 1
      /\ cut[b].next = rest /\ cut[b].prev = h[b].prev
      /\ \A a \in N \ {b} : cut[a] = h[a]
  BY <1>1 DEF HeaderType, HeaderMaps
<1>3. Rest(h, b, size) \in HeaderType(S)
  BY <1>1 DEF Rest, HeaderType, HeaderMaps
<1> HIDE DEF cut
<1>4. rest \in S \cup {NULL} /\ b \in N /\ rest \notin N /\ S = N \cup {rest}
  OBVIOUS
<1> HIDE DEF S, N, rest
<1>5. /\ linked \in HeaderMaps(N, S)
      /\ \A x \in N : /\ linked[x].prev = IF x = h[b].next THEN rest ELSE cut[x].prev
                      /\ linked[x].next = cut[x].next
                      /\ linked[x].size = cut[x].size
                      /\ linked[x].used = cut[x].used
  <2>1. cut \in HeaderMaps(N, S) /\ rest \in Links(S)
    BY <1>2, <1>4 DEF Links
  <2> QED
    BY <2>1, SetPrevFacts
<1>6. SplitAt(h, b, size) = AddBlock(linked, rest, Rest(h, b, size))
  BY DEF SplitAt, cut, rest
<1> HIDE DEF linked
<1>7. /\ SplitAt(h, b, size) \in HeaderMaps(S, S)
      /\ SplitAt(h, b, size)[rest] = Rest(h, b, size)
      /\ \A x \in N : SplitAt(h, b, size)[x] = linked[x]
  <2>1. linked \in HeaderMaps(N, S) /\ Rest(h, b, size) \in HeaderType(S) /\ S = N \cup {rest}
    BY <1>3, <1>4, <1>5
  <2> DEFINE added == AddBlock(linked, rest, Rest(h, b, size))
  <2>2. /\ added \in HeaderMaps(S, S)
        /\ added[rest] = Rest(h, b, size)
        /\ \A x \in N \ {rest} : added[x] = linked[x]
    BY <2>1, AddBlockFacts
  <2> HIDE DEF added
  <2>3. SplitAt(h, b, size) = added
    BY <1>6 DEF added
  <2> QED
    BY <1>4, <2>2, <2>3
<1> DEFINE g == SplitAt(h, b, size)
<1>8. /\ g[b].size = TotalSize(size) /\ g[b].used = 1
      /\ g[b].next = rest /\ g[b].prev = h[b].prev
  BY <1>2, <1>4, <1>5, <1>7
<1>9. ASSUME NEW a \in N \ {b}
      PROVE  /\ g[a].size = h[a].size /\ g[a].used = h[a].used /\ g[a].next = h[a].next
             /\ g[a].prev = IF a = h[b].next THEN rest ELSE h[a].prev
  BY <1>2, <1>5, <1>7
<1>10. /\ g[rest].size = h[b].size - TotalSize(size) /\ g[rest].used = 0
       /\ g[rest].next = h[b].next /\ g[rest].prev = b
  BY <1>7 DEF Rest
<1> HIDE DEF g
<1> QED
  BY <1>4, <1>7, <1>8, <1>9, <1>10 DEF g, rest, N, S, SplitFields

LEMMA BlockFacts ==
  ASSUME NEW h, NEW end, HeadersOK(h)
  PROVE  /\ IsFiniteSet(DOMAIN h)
         /\ \A b \in DOMAIN h : /\ b \in Nat /\ b > 0
                                /\ h[b].size \in Nat /\ h[b].used \in {0, 1}
                                /\ h[b].next \in DOMAIN h \cup {NULL}
                                /\ h[b].prev \in DOMAIN h \cup {NULL}
BY DEF HeadersOK, HeaderType, NULL

\* Cutting a block in two keeps the blocks a tiling of the heap.
LEMMA SplitWellFormed ==
  ASSUME NEW h, NEW end \in Nat, HeadersOK(h), Tiled(h, end), NEW b \in DOMAIN h,
         NEW size \in Nat, Splits(h, b, size)
  PROVE  /\ HeadersOK(SplitAt(h, b, size))
         /\ Tiled(SplitAt(h, b, size), end)
         /\ b + TotalSize(size) \notin DOMAIN h
         /\ DOMAIN SplitAt(h, b, size) = DOMAIN h \cup {b + TotalSize(size)}
<1> DEFINE rest == b + TotalSize(size)
           g == SplitAt(h, b, size)
           N == DOMAIN h
           total == TotalSize(size)
<1>1. \A a \in N : /\ a \in Nat /\ a > 0
                   /\ h[a].size \in Nat
                   /\ h[a].next \in N \cup {0}
                   /\ h[a].prev \in N \cup {0}
  BY BlockFacts DEF NULL
<1>2. /\ total \in Nat /\ total > 0
      /\ total < h[b].size
  BY <1>1, TotalSizeBounds, HeapAssumption DEF HeapAssumption, Splits
<1>3. /\ rest \in Nat /\ b < rest /\ rest < EndOf(h, b) /\ rest > 0
  BY <1>1, <1>2 DEF EndOf
<1>4. rest \notin N
  BY <1>1, <1>3 DEF Tiled, NoOverlap, EndOf
<1>5. h[b].next # b
  BY <1>1, <1>2 DEF Tiled, NextIsAdjacent, EndOf, NULL
<1>6. /\ g \in HeaderMaps(N \cup {rest}, N \cup {rest})
      /\ g[rest].size = h[b].size - total
      /\ g[rest].next = h[b].next /\ g[rest].prev = b
      /\ g[b].size = total
      /\ g[b].next = rest /\ g[b].prev = h[b].prev
      /\ \A a \in N \ {b} : /\ g[a].size = h[a].size /\ g[a].next = h[a].next
                            /\ g[a].prev = IF a = h[b].next THEN rest ELSE h[a].prev
  <2>1. total <= h[b].size
    BY <1>1, <1>2
  <2>2. SplitFields(h, g, b, rest, total)
    BY <1>2, <1>4, <1>5, <2>1, SplitHasFields, Zenon
  <2> QED
    BY <2>2 DEF SplitFields
<1>7. DOMAIN g = N \cup {rest}
  BY <1>6 DEF HeaderMaps
<1>8. HeadersOK(g)
  <2>1. IsFiniteSet(N \cup {rest})
    BY BlockFacts, FS_AddElement
  <2>2. g \in [DOMAIN g -> HeaderType(DOMAIN g)]
    BY <1>6, <1>7 DEF HeaderMaps
  <2>3. DOMAIN g \subseteq Nat \ {NULL}
    BY <1>1, <1>3, <1>7 DEF NULL
  <2> QED
    BY <1>7, <2>1, <2>2, <2>3 DEF HeadersOK
<1> HIDE DEF g
<1>9. \A a \in N : EndOf(g, a) = IF a = b THEN rest ELSE EndOf(h, a)
  BY <1>6 DEF EndOf
<1>10. EndOf(g, rest) = EndOf(h, b)
  BY <1>1, <1>2, <1>6 DEF EndOf
<1> HIDE DEF rest, total
<1>11. h[b].next # 0 => h[b].next # Start
  BY <1>1 DEF Tiled, StartsAtStart, PrevInvertsNext, NULL
<1>12. StartsAtStart(g)
  <2>1. rest # Start
    BY <1>4 DEF Tiled, StartsAtStart
  <2> QED
    BY <1>1, <1>3, <1>6, <1>7, <1>11, <2>1 DEF Tiled, StartsAtStart, NULL
<1>13. EndsAtEnd(g, end)
  BY <1>1, <1>2, <1>3, <1>6, <1>7, <1>9, <1>10 DEF Tiled, EndsAtEnd, EndOf
<1>14. NextIsAdjacent(g, end)
  BY <1>1, <1>3, <1>6, <1>7, <1>9, <1>10 DEF Tiled, NextIsAdjacent, EndsAtEnd, EndOf
<1>15. PrevInvertsNext(g)
  BY <1>1, <1>3, <1>4, <1>5, <1>6, <1>7 DEF Tiled, PrevInvertsNext, NextInvertsPrev, NULL
<1>16. NextInvertsPrev(g)
  BY <1>1, <1>3, <1>4, <1>5, <1>6, <1>7 DEF Tiled, PrevInvertsNext, NextInvertsPrev, NULL
<1>17. NoOverlap(g)
  BY <1>1, <1>3, <1>4, <1>7, <1>9, <1>10 DEF Tiled, NoOverlap, EndOf
<1> QED
  BY <1>4, <1>7, <1>8, <1>12, <1>13, <1>14, <1>15, <1>16, <1>17 DEF Tiled, g, rest, total

\* The list after a absorbed its successor b, field by field.
AbsorbFields(h, g, a, b) ==
  LET N == DOMAIN h
  IN  /\ g \in HeaderMaps(N \ {b}, N)
      /\ g[a].size = h[a].size + h[b].size /\ g[a].used = h[a].used
      /\ g[a].next = h[b].next /\ g[a].prev = h[a].prev
      /\ \A x \in N \ {a, b} :
           /\ g[x].size = h[x].size /\ g[x].used = h[x].used /\ g[x].next = h[x].next
           /\ g[x].prev = IF x = h[b].next THEN a ELSE h[x].prev

LEMMA AbsorbHasFields ==
  ASSUME NEW h, HeadersOK(h), NEW a \in DOMAIN h, NEW b \in DOMAIN h, a # b, h[b].next # a
  PROVE  AbsorbFields(h, Absorb(h, a, b), a, b)
<1> DEFINE N == DOMAIN h
           M == N \ {b}
           joined == [h EXCEPT ![a] = [@ EXCEPT !.size = h[a].size + h[b].size, !.next = h[b].next]]
           linked == SetPrev(joined, h[b].next, a)
           g == Absorb(h, a, b)
<1>1. h \in HeaderMaps(N, N)
  BY DEF HeadersOK, HeaderMaps
<1>2. /\ joined \in HeaderMaps(N, N)
      /\ joined[a].size = h[a].size + h[b].size /\ joined[a].used = h[a].used
      /\ joined[a].next = h[b].next /\ joined[a].prev = h[a].prev
      /\ \A x \in N \ {a} : joined[x] = h[x]
  <2> DEFINE s == h[a].size + h[b].size
             n == h[b].next
             head == [h[a] EXCEPT !.size = s, !.next = n]
  <2>1. h[a] \in HeaderType(N) /\ s \in Nat /\ n \in N \cup {NULL}
    BY <1>1 DEF HeaderMaps, HeaderType
  <2> HIDE DEF s, n
  <2>2. /\ head.size = s /\ head.used = h[a].used
        /\ head.next = n /\ head.prev = h[a].prev
        /\ head \in HeaderType(N)
    BY <2>1 DEF HeaderType, NULL
  <2>3. joined = [h EXCEPT ![a] = head]
    BY DEF s, n
  <2> HIDE DEF head, joined
  <2> QED
    BY <1>1, <2>2, <2>3 DEF HeaderMaps, s, n
<1>3. a \in Links(N) /\ M = N \ {b} /\ a \in N /\ b \in N
  BY DEF Links
<1> HIDE DEF joined, N, M
<1>4. /\ linked \in HeaderMaps(N, N)
      /\ \A x \in N : /\ linked[x].prev = IF x = h[b].next THEN a ELSE joined[x].prev
                      /\ linked[x].next = joined[x].next
                      /\ linked[x].size = joined[x].size
                      /\ linked[x].used = joined[x].used
  <2>1. joined \in HeaderMaps(N, N) /\ a \in Links(N)
    BY <1>2, <1>3
  <2> QED
    BY <2>1, SetPrevFacts
<1>5. g = RemoveBlock(linked, b)
  BY DEF Absorb, joined
<1> HIDE DEF linked, g
<1>6. /\ g \in HeaderMaps(M, N)
      /\ \A x \in N \ {b} : g[x] = linked[x]
  <2>1. linked \in HeaderMaps(N, N) /\ M = N \ {b}
    BY <1>3, <1>4
  <2> QED
    BY <1>5, <2>1, RemoveBlockFacts
<1>7. /\ g[a].size = h[a].size + h[b].size /\ g[a].used = h[a].used
      /\ g[a].next = h[b].next /\ g[a].prev = h[a].prev
  BY <1>2, <1>3, <1>4, <1>6
<1>8. ASSUME NEW x \in N \ {a, b}
      PROVE  /\ g[x].size = h[x].size /\ g[x].used = h[x].used /\ g[x].next = h[x].next
             /\ g[x].prev = IF x = h[b].next THEN a ELSE h[x].prev
  BY <1>2, <1>4, <1>6
<1> QED
  BY <1>3, <1>6, <1>7, <1>8 DEF AbsorbFields, g, N, M

\* Joining a block with its successor keeps the blocks a tiling of the heap.
LEMMA AbsorbWellFormed ==
  ASSUME NEW h, NEW end \in Nat, HeadersOK(h), Tiled(h, end),
         NEW a \in DOMAIN h, NEW b \in DOMAIN h, h[a].next = b
  PROVE  /\ HeadersOK(Absorb(h, a, b))
         /\ Tiled(Absorb(h, a, b), end)
         /\ DOMAIN Absorb(h, a, b) = DOMAIN h \ {b}
         /\ AbsorbFields(h, Absorb(h, a, b), a, b)
<1> DEFINE g == Absorb(h, a, b)
           N == DOMAIN h
<1>1. \A x \in N : /\ x \in Nat /\ x > 0
                   /\ h[x].size \in Nat /\ h[x].size > 0
                   /\ h[x].next \in N \cup {0}
                   /\ h[x].prev \in N \cup {0}
  BY BlockFacts DEF NULL, Tiled, EndsAtEnd
<1>2. EndOf(h, a) = b /\ a < b /\ EndOf(h, a) # end
  BY <1>1 DEF Tiled, NextIsAdjacent, EndOf, NULL
<1>3. h[b].next # a /\ h[b].next # b
  BY <1>1, <1>2 DEF Tiled, NextIsAdjacent, EndOf, NULL
<1>4. AbsorbFields(h, g, a, b)
  BY <1>2, <1>3, AbsorbHasFields
<1>5. h[b].prev = a
  BY <1>1 DEF Tiled, PrevInvertsNext, NULL
<1>6. \A x \in N : h[x].next = b => x = a
  BY <1>1, <1>5 DEF Tiled, PrevInvertsNext, NULL
<1>7. \A x \in N : h[x].prev = b => x = h[b].next
  BY <1>1 DEF Tiled, NextInvertsPrev, NULL
<1> HIDE DEF g
<1>8. /\ DOMAIN g = N \ {b} /\ g \in HeaderMaps(N \ {b}, N)
      /\ g[a].size = h[a].size + h[b].size
      /\ g[a].next = h[b].next /\ g[a].prev = h[a].prev
      /\ \A x \in N \ {a, b} : /\ g[x].size = h[x].size /\ g[x].next = h[x].next
                               /\ g[x].prev = IF x = h[b].next THEN a ELSE h[x].prev
  BY <1>4 DEF AbsorbFields, HeaderMaps
<1>9. HeadersOK(g)
  <2>1. IsFiniteSet(N \ {b})
    BY BlockFacts, FS_RemoveElement
  <2>2. \A x \in N \ {b} : /\ g[x] \in HeaderType(N)
                           /\ g[x].next # b /\ g[x].prev # b
    BY <1>1, <1>2, <1>3, <1>5, <1>6, <1>7, <1>8 DEF HeaderMaps
  <2>3. \A x \in N \ {b} : g[x] \in HeaderType(N \ {b})
    BY <2>2 DEF HeaderType
  <2>4. g \in [N \ {b} -> HeaderType(N \ {b})]
    BY <1>8, <2>3 DEF HeaderMaps
  <2> QED
    BY <1>1, <1>8, <2>1, <2>4 DEF HeadersOK, NULL
<1>10. \A x \in N \ {b} : EndOf(g, x) = IF x = a THEN EndOf(h, b) ELSE EndOf(h, x)
  BY <1>1, <1>2, <1>8 DEF EndOf
<1>11. b # Start /\ h[b].next # Start
  BY <1>1, <1>5 DEF Tiled, StartsAtStart, PrevInvertsNext, NULL
<1>12. StartsAtStart(g)
  BY <1>1, <1>8, <1>11 DEF Tiled, StartsAtStart, NULL
<1>13. EndsAtEnd(g, end)
  BY <1>1, <1>2, <1>8, <1>10 DEF Tiled, EndsAtEnd, EndOf
<1>14. NextIsAdjacent(g, end)
  BY <1>1, <1>2, <1>6, <1>8, <1>10 DEF Tiled, NextIsAdjacent, EndOf
<1>15. PrevInvertsNext(g)
  BY <1>1, <1>2, <1>3, <1>5, <1>6, <1>7, <1>8 DEF Tiled, PrevInvertsNext, NextInvertsPrev, NULL
<1>16. NextInvertsPrev(g)
  BY <1>1, <1>2, <1>3, <1>5, <1>6, <1>7, <1>8 DEF Tiled, PrevInvertsNext, NextInvertsPrev, NULL
<1>17. NoOverlap(g)
  BY <1>1, <1>2, <1>8, <1>10 DEF Tiled, NoOverlap, EndOf
<1> QED
  BY <1>4, <1>8, <1>9, <1>12, <1>13, <1>14, <1>15, <1>16, <1>17 DEF Tiled, g

\* Appending a free block at the end keeps the blocks a tiling of the larger heap.
LEMMA ExpandWellFormed ==
  ASSUME NEW h, end_address \in Nat, end_address > 0, HeadersOK(h), Tiled(h, end_address),
         NEW size \in Nat
  PROVE  LET g == heap_expand_heap(h, size)
         IN  /\ HeadersOK(g)
             /\ Tiled(g, end_address + ExpandSize(size))
             /\ end_address \notin DOMAIN h
             /\ DOMAIN g = DOMAIN h \cup {end_address}
             /\ g[end_address].used = 0
             /\ \A x \in DOMAIN h : g[x].size = h[x].size /\ g[x].used = h[x].used
<1> DEFINE N == DOMAIN h
           new == end_address
           last == CHOOSE b \in N : h[b].next = NULL
           tail == [size |-> ExpandSize(size), used |-> 0, next |-> NULL, prev |-> last]
           S == N \cup {new}
           linked == [h EXCEPT ![last] = [@ EXCEPT !.next = new]]
           g == heap_expand_heap(h, size)
           more == ExpandSize(size)
<1>1. \A x \in N : /\ x \in Nat /\ x > 0
                   /\ h[x].size \in Nat /\ h[x].size > 0
                   /\ h[x].next \in N \cup {0}
                   /\ h[x].prev \in N \cup {0}
  BY BlockFacts DEF NULL, Tiled, EndsAtEnd
<1>2. more \in Nat /\ more > 0
  BY HeapAssumption DEF HeapAssumption, ExpandSize, HEAP_ALIGN
<1>3. new \notin N
  BY <1>1 DEF Tiled, EndsAtEnd, EndOf
<1>4. last \in N /\ h[last].next = NULL
  <2>1. \E b \in N : h[b].next = NULL
    BY DEF Tiled, EndsAtEnd, NextIsAdjacent
  <2> QED
    BY <2>1
<1>5. EndOf(h, last) = new
  BY <1>1, <1>4 DEF Tiled, NextIsAdjacent, EndOf, NULL
<1> HIDE DEF last
<1>6. /\ linked \in HeaderMaps(N, S)
      /\ linked[last].size = h[last].size /\ linked[last].used = h[last].used
      /\ linked[last].next = new /\ linked[last].prev = h[last].prev
      /\ \A x \in N \ {last} : linked[x] = h[x]
  <2>1. h \in HeaderMaps(N, S)
    BY HeaderTypeGrows DEF HeadersOK, HeaderMaps
  <2> QED
    BY <1>4, <2>1 DEF HeaderMaps, HeaderType
<1>7. tail \in HeaderType(S)
  BY <1>2, <1>4 DEF HeaderType
<1>8. g = AddBlock(linked, new, tail)
  BY DEF heap_expand_heap, last
<1> HIDE DEF linked
<1>9. /\ g \in HeaderMaps(S, S)
      /\ g[new] = tail
      /\ \A x \in N : g[x] = linked[x]
  <2> DEFINE added == AddBlock(linked, new, tail)
  <2>1. linked \in HeaderMaps(N, S) /\ tail \in HeaderType(S) /\ S = N \cup {new}
    BY <1>6, <1>7
  <2> HIDE DEF S, tail
  <2>2. /\ added \in HeaderMaps(S, S)
        /\ added[new] = tail
        /\ \A x \in N \ {new} : added[x] = linked[x]
    BY <2>1, AddBlockFacts
  <2> HIDE DEF added
  <2>3. g = added
    BY <1>8 DEF added
  <2> QED
    BY <1>3, <2>2, <2>3
<1> HIDE DEF g, more
<1>10. /\ DOMAIN g = S
       /\ g[new].size = more /\ g[new].used = 0
       /\ g[new].next = 0 /\ g[new].prev = last
  BY <1>9 DEF HeaderMaps, more, NULL
<1>11. \A x \in N : /\ g[x].size = h[x].size /\ g[x].used = h[x].used
                    /\ g[x].prev = h[x].prev
                    /\ g[x].next = IF x = last THEN new ELSE h[x].next
  BY <1>6, <1>9
<1>12. HeadersOK(g)
  <2>1. IsFiniteSet(S)
    BY BlockFacts, FS_AddElement
  <2>2. g \in [DOMAIN g -> HeaderType(DOMAIN g)]
    BY <1>9, <1>10 DEF HeaderMaps
  <2>3. DOMAIN g \subseteq Nat \ {NULL}
    BY <1>1, <1>10 DEF NULL
  <2> QED
    BY <1>10, <2>1, <2>2, <2>3 DEF HeadersOK
<1>13. /\ \A x \in N : EndOf(g, x) = EndOf(h, x) /\ EndOf(h, x) <= new
       /\ EndOf(g, new) = new + more
  BY <1>10, <1>11 DEF EndOf, Tiled, EndsAtEnd
<1>14. \A x \in N : x # last => EndOf(h, x) # new
  BY <1>1, <1>4, <1>5 DEF Tiled, NoOverlap, EndOf
<1>15. StartsAtStart(g)
  BY <1>1, <1>3, <1>4, <1>10, <1>11 DEF Tiled, StartsAtStart, NULL
<1>16. EndsAtEnd(g, new + more)
  BY <1>1, <1>2, <1>10, <1>11, <1>13 DEF EndsAtEnd, EndOf
<1>17. NextIsAdjacent(g, new + more)
  BY <1>1, <1>2, <1>5, <1>10, <1>11, <1>13, <1>14 DEF Tiled, NextIsAdjacent, EndOf, NULL
<1>18. PrevInvertsNext(g)
  BY <1>1, <1>3, <1>4, <1>10, <1>11 DEF Tiled, PrevInvertsNext, NULL
<1>19. NextInvertsPrev(g)
  BY <1>1, <1>3, <1>4, <1>10, <1>11 DEF Tiled, NextInvertsPrev, NULL
<1>20. NoOverlap(g)
  BY <1>1, <1>10, <1>13 DEF Tiled, NoOverlap, EndOf
<1> QED
  BY <1>3, <1>10, <1>11, <1>12, <1>15, <1>16, <1>17, <1>18, <1>19, <1>20 DEF Tiled, g, more

\* kmfree's merge: tiling and used blocks are kept, and the list loses exactly
\* the free neighbours of b.
LEMMA MergeWellFormed ==
  ASSUME NEW h, NEW end \in Nat, HeadersOK(h), Tiled(h, end),
         NEW b \in DOMAIN h, h[b].used = 0
  PROVE  LET g == heap_merge_adjacent_blocks(h, b)
             merges == (IF IsFree(h, h[b].next) THEN 1 ELSE 0)
                         + (IF IsFree(h, h[b].prev) THEN 1 ELSE 0)
         IN  /\ HeadersOK(g)
             /\ Tiled(g, end)
             /\ Cardinality(DOMAIN g) = Cardinality(DOMAIN h) - merges
             /\ DOMAIN g \subseteq DOMAIN h
             /\ \A x \in DOMAIN h : h[x].used = 1 =>
                  x \in DOMAIN g /\ g[x].used = 1 /\ g[x].size = h[x].size
             /\ \A x \in DOMAIN g : g[x].used = 1 => h[x].used = 1
<1> DEFINE N == DOMAIN h
           n == h[b].next
           p == h[b].prev
           f == MergeNext(h, b)
           g == MergePrev(f, b)
<1>1. \A x \in N : /\ x \in Nat /\ x > 0
                   /\ h[x].size \in Nat /\ h[x].size > 0
                   /\ h[x].next \in N \cup {0}
                   /\ h[x].prev \in N \cup {0}
  BY BlockFacts DEF NULL, Tiled, EndsAtEnd
<1>2. n # NULL => n \in N /\ h[n].prev = b /\ n # b
  BY <1>1 DEF NULL, Tiled, PrevInvertsNext, NextIsAdjacent, EndOf
<1>3. p # NULL => p \in N /\ h[p].next = b /\ p # b /\ p # n
  <2>1. p # NULL => p \in N /\ h[p].next = b
    BY <1>1 DEF NULL, Tiled, NextInvertsPrev
  <2>2. p # NULL => p < b
    BY <1>1, <2>1 DEF NULL, Tiled, NextIsAdjacent, EndOf
  <2>3. n # NULL => b < n
    BY <1>1 DEF NULL, Tiled, NextIsAdjacent, EndOf
  <2> QED
    BY <1>1, <2>1, <2>2, <2>3 DEF NULL
<1>4. IsFiniteSet(N) /\ Cardinality(N) \in Nat
  BY BlockFacts, FS_CardinalityType
<1>5. /\ HeadersOK(f) /\ Tiled(f, end)
      /\ DOMAIN f = IF IsFree(h, n) THEN N \ {n} ELSE N
      /\ Cardinality(DOMAIN f) = Cardinality(N) - (IF IsFree(h, n) THEN 1 ELSE 0)
      /\ f[b].prev = p
      /\ \A x \in DOMAIN f : /\ f[x].used = h[x].used
                             /\ x # b => f[x].size = h[x].size
  <2>1. CASE IsFree(h, n)
    <3>1. n \in N /\ n # b
      BY <1>2, <2>1 DEF IsFree
    <3>2. f = Absorb(h, b, n)
      BY <2>1 DEF MergeNext
    <3>3. /\ HeadersOK(f) /\ Tiled(f, end) /\ DOMAIN f = N \ {n}
          /\ AbsorbFields(h, f, b, n)
      BY <3>1, <3>2, AbsorbWellFormed
    <3> HIDE DEF f
    <3>4. Cardinality(N \ {n}) = Cardinality(N) - 1
      BY <1>4, <3>1, FS_RemoveElement
    <3>5. /\ f[b].prev = p
          /\ \A x \in DOMAIN f : /\ f[x].used = h[x].used
                                 /\ x # b => f[x].size = h[x].size
      BY <3>1, <3>3 DEF AbsorbFields
    <3> QED
      BY <2>1, <3>3, <3>4, <3>5
  <2>2. CASE ~IsFree(h, n)
    BY <1>4, <2>2 DEF MergeNext
  <2> QED
    BY <2>1, <2>2
<1> HIDE DEF f
<1>6. b \in DOMAIN f /\ f[b].used = 0
  BY <1>2, <1>5 DEF IsFree
<1>7. IsFree(f, p) <=> IsFree(h, p)
  BY <1>3, <1>5 DEF IsFree
<1>8. IsFiniteSet(DOMAIN f) /\ Cardinality(DOMAIN f) \in Nat
  BY <1>5, BlockFacts, FS_CardinalityType
<1>9. /\ HeadersOK(g) /\ Tiled(g, end)
      /\ DOMAIN g = IF IsFree(h, p) THEN DOMAIN f \ {b} ELSE DOMAIN f
      /\ Cardinality(DOMAIN g) = Cardinality(DOMAIN f) - (IF IsFree(h, p) THEN 1 ELSE 0)
      /\ \A x \in DOMAIN g : /\ g[x].used = f[x].used
                             /\ x # p => g[x].size = f[x].size
  <2>1. CASE IsFree(h, p)
    <3>1. p \in DOMAIN f /\ f[p].next = b /\ p # b
      BY <1>2, <1>3, <1>5, <1>6, <2>1 DEF IsFree, Tiled, NextInvertsPrev, HeadersOK, HeaderType
    <3>2. g = Absorb(f, p, b)
      BY <1>5, <1>7, <2>1 DEF MergePrev
    <3>3. /\ HeadersOK(g) /\ Tiled(g, end) /\ DOMAIN g = DOMAIN f \ {b}
          /\ AbsorbFields(f, g, p, b)
      <4>1. /\ HeadersOK(f) /\ Tiled(f, end) /\ b \in DOMAIN f
            /\ p \in DOMAIN f /\ f[p].next = b
        BY <1>5, <1>6, <3>1
      <4> HIDE DEF g, p
      <4> QED
        BY <3>2, <4>1, AbsorbWellFormed
    <3> HIDE DEF g
    <3>4. Cardinality(DOMAIN f \ {b}) = Cardinality(DOMAIN f) - 1
      BY <1>6, <1>8, FS_RemoveElement
    <3>5. \A x \in DOMAIN g : /\ g[x].used = f[x].used
                              /\ x # p => g[x].size = f[x].size
      BY <3>1, <3>3 DEF AbsorbFields
    <3> QED
      BY <2>1, <3>3, <3>4, <3>5
  <2>2. CASE ~IsFree(h, p)
    BY <1>5, <1>7, <1>8, <2>2 DEF MergePrev
  <2> QED
    BY <2>1, <2>2
<1> HIDE DEF g
<1>10. Cardinality(DOMAIN g) = Cardinality(N) - ((IF IsFree(h, n) THEN 1 ELSE 0)
                                                   + (IF IsFree(h, p) THEN 1 ELSE 0))
  BY <1>4, <1>5, <1>8, <1>9
<1>11. ASSUME NEW x \in N, h[x].used = 1
       PROVE  x \in DOMAIN g /\ g[x].used = 1 /\ g[x].size = h[x].size
  <2>1. x # b /\ (IsFree(h, n) => x # n) /\ (IsFree(h, p) => x # p)
    BY <1>11 DEF IsFree
  <2>2. x \in DOMAIN f /\ f[x].used = 1 /\ f[x].size = h[x].size
    BY <1>5, <1>11, <2>1
  <2>3. CASE IsFree(h, p)
    BY <1>9, <2>1, <2>2, <2>3
  <2>4. CASE ~IsFree(h, p)
    <3>1. g = f
      BY <1>5, <1>7, <2>4 DEF g, MergePrev
    <3> QED
      BY <2>2, <3>1
  <2> QED
    BY <2>3, <2>4
<1>12. DOMAIN g \subseteq N /\ \A x \in DOMAIN g : g[x].used = 1 => h[x].used = 1
  BY <1>5, <1>9
<1>13. heap_merge_adjacent_blocks(h, b) = g
  BY DEF heap_merge_adjacent_blocks, f, g
<1> QED
  BY <1>9, <1>10, <1>11, <1>12, <1>13

-----------------------------------------------------------------------------
(* The inductive invariant: types, the tiling, and the count of used blocks, *)
(* which is exact until a block is handed out whole and never too small      *)
(* afterwards (that is what keeps kmfree from counting below zero).          *)

UsedCovered == Cardinality(UsedNow) <= used_blocks

IInv == TypeOK /\ HeapTiled /\ UsedCovered /\ ExclusiveUntilHandedWhole /\ UsedBlocksExact

LEMMA UsedOfFinite ==
  ASSUME NEW h, HeadersOK(h)
  PROVE  /\ IsFiniteSet(UsedOf(h)) /\ Cardinality(UsedOf(h)) \in Nat
         /\ IsFiniteSet(DOMAIN h) /\ Cardinality(DOMAIN h) \in Nat
  BY FS_Subset, FS_CardinalityType DEF UsedOf, HeadersOK

LEMMA InitIInv == Init => IInv
<1> SUFFICES ASSUME Init PROVE IInv
  OBVIOUS
<1>1. /\ DOMAIN hdr = {Start} /\ hdr[Start].size = InitialSize /\ hdr[Start].used = 0
      /\ hdr[Start].next = NULL /\ hdr[Start].prev = NULL
      /\ hdr[Start] \in HeaderType({Start})
  BY HeapAssumption DEF Init, HeapAssumption, HeaderType
<1>2. /\ Start \in Nat /\ Start > 0 /\ InitialSize \in Nat /\ InitialSize > 0
      /\ InitialSize <= MaxSize /\ MaxSize \in Nat /\ UsedCap \in Nat
  BY HeapAssumption DEF HeapAssumption
<1>3. HeadersOK(hdr)
  <2>1. IsFiniteSet({Start})
    BY FS_Singleton
  <2>2. hdr \in [{Start} -> HeaderType({Start})]
    BY <1>1 DEF Init
  <2> QED
    BY <1>1, <1>2, <2>1, <2>2 DEF HeadersOK, NULL
<1>4. UsedNow = {}
  BY <1>1 DEF UsedNow, UsedOf
<1>5. Cardinality(UsedNow) = 0 /\ Cardinality(DOMAIN hdr) = 1
  BY <1>1, <1>4, FS_EmptySet, FS_Singleton
<1>6. TypeOK
  <2>1. live \in [Clients -> {None} \cup [ptr : Nat \ {NULL}, size : Nat \ {0}]]
    BY DEF Init
  <2>2. end_address \in Nat /\ total_blocks \in Nat /\ used_blocks \in 0 .. UsedCap
    BY <1>2 DEF Init
  <2>3. clobbered \subseteq Nat /\ handedWhole \in BOOLEAN
    BY DEF Init
  <2> QED
    BY <1>3, <2>1, <2>2, <2>3 DEF TypeOK
<1>7. HeapTiled
  <2>1. end_address = Start + InitialSize
    BY DEF Init
  <2>2. StartsAtStart(hdr) /\ EndsAtEnd(hdr, end_address) /\ NextIsAdjacent(hdr, end_address)
    BY <1>1, <1>2, <2>1 DEF StartsAtStart, EndsAtEnd, NextIsAdjacent, EndOf
  <2>3. PrevInvertsNext(hdr) /\ NextInvertsPrev(hdr) /\ NoOverlap(hdr)
    BY <1>1, <1>2 DEF PrevInvertsNext, NextInvertsPrev, NoOverlap, EndOf
  <2> QED
    BY <1>2, <1>5, <2>1, <2>2, <2>3 DEF HeapTiled, Tiled, MaxAddress, Init
<1>8. UsedCovered /\ UsedBlocksExact
  BY <1>4, <1>5 DEF UsedCovered, UsedBlocksExact, Init
<1>9. ExclusiveUntilHandedWhole
  BY DEF Init, ExclusiveUntilHandedWhole, ExclusiveBlocks, Owns
<1> QED
  BY <1>6, <1>7, <1>8, <1>9 DEF IInv

\* The tail of kmalloc on a well formed list h in which every block of hdr kept
\* its size and its mark: the part KmallocFit and KmallocExpand share.
LEMMA TakePreserves ==
  ASSUME IInv, NEW c \in Clients, NEW size \in Sizes, MayCall(c),
         NEW h, NEW blocks, HeadersOK(h), end_address' \in Nat, Tiled(h, end_address'),
         end_address' <= MaxAddress, blocks = Cardinality(DOMAIN h),
         DOMAIN hdr \subseteq DOMAIN h,
         \A x \in DOMAIN hdr : h[x].size = hdr[x].size /\ h[x].used = hdr[x].used,
         UsedOf(h) = UsedNow,
         heap_find_free_block(h, size) # NULL,
         Take(c, size, h, heap_find_free_block(h, size), blocks)
  PROVE  IInv'
<1> DEFINE b == heap_find_free_block(h, size)
           rest == b + TotalSize(size)
<1>0. size \in Nat \ {0} /\ UsedCap \in Nat
  BY HeapAssumption DEF HeapAssumption
<1>1. b \in DOMAIN h /\ h[b].used = 0 /\ b \notin UsedNow
  BY <1>0, FindFindsFit DEF Fits, UsedOf
<1>1a. b \in Nat \ {NULL}
  BY <1>1 DEF HeadersOK
<1>2. /\ hdr' = heap_split_block(h, b, size)
      /\ total_blocks' = IF Splits(h, b, size) THEN blocks + 1 ELSE blocks
      /\ used_blocks' = used_blocks + 1
      /\ live' = [live EXCEPT ![c] = [ptr |-> b, size |-> size]]
      /\ handedWhole' = (handedWhole \/ ~Splits(h, b, size))
      /\ clobbered' = clobbered
      /\ used_blocks < UsedCap
      /\ live[c] = None /\ clobbered = {}
  BY DEF Take, MayCall
<1>3. /\ IsFiniteSet(UsedNow) /\ Cardinality(UsedNow) \in Nat
      /\ IsFiniteSet(DOMAIN h) /\ Cardinality(DOMAIN h) \in Nat
      /\ used_blocks \in Nat /\ used_blocks <= UsedCap
      /\ Cardinality(UsedNow) <= used_blocks
  BY UsedOfFinite, <1>0 DEF IInv, TypeOK, UsedNow, UsedCovered
<1>4. live' \in [Clients -> {None} \cup [ptr : Nat \ {NULL}, size : Nat \ {0}]]
  BY <1>0, <1>1a, <1>2 DEF IInv, TypeOK
<1>5. used_blocks' \in 0 .. UsedCap /\ handedWhole' \in BOOLEAN /\ clobbered' \subseteq Nat
  BY <1>0, <1>2, <1>3 DEF IInv, TypeOK
<1> HIDE DEF b
<1>6. CASE Splits(h, b, size)
  <2>1. hdr' = SplitAt(h, b, size)
    BY <1>2, <1>6 DEF heap_split_block
  <2>2. /\ HeadersOK(hdr') /\ Tiled(hdr', end_address')
        /\ rest \notin DOMAIN h /\ DOMAIN hdr' = DOMAIN h \cup {rest}
    BY <1>0, <1>1, <1>6, <2>1, SplitWellFormed
  <2>3. SplitFields(h, hdr', b, rest, TotalSize(size))
    <3>1. TotalSize(size) \in Nat /\ TotalSize(size) > 0
      BY <1>0, TotalSizeBounds, HeapAssumption DEF HeapAssumption
    <3>2. h[b].size \in Nat /\ TotalSize(size) < h[b].size
      BY <1>1, <1>6, <3>1, BlockFacts, HeapAssumption DEF HeapAssumption, Splits
    <3>3. h[b].next # b
      BY <1>1, <1>1a, <3>1, <3>2 DEF Tiled, NextIsAdjacent, EndOf, NULL
    <3> QED
      BY <1>0, <1>1, <2>1, <2>2, <3>1, <3>2, <3>3, SplitHasFields
  <2> HIDE DEF rest
  <2>4. Cardinality(DOMAIN hdr') = Cardinality(DOMAIN h) + 1
    <3>1. Cardinality(DOMAIN h \cup {rest}) = Cardinality(DOMAIN h) + 1
      <4>1. IsFiniteSet(DOMAIN h) /\ rest \notin DOMAIN h
        BY <1>3, <2>2
      <4> QED
        BY <4>1, FS_AddElement
    <3> QED
      BY <2>2, <3>1
  <2>5. UsedNow' = UsedNow \cup {b}
    BY <1>1, <2>2, <2>3 DEF SplitFields, UsedNow, UsedOf
  <2>6. Cardinality(UsedNow') = Cardinality(UsedNow) + 1
    BY <1>1, <1>3, <2>5, FS_AddElement
  <2>7. TypeOK'
    BY <1>3, <1>4, <1>5, <1>2, <1>6, <2>2 DEF TypeOK
  <2>8. HeapTiled'
    BY <1>2, <1>3, <1>6, <2>2, <2>4 DEF HeapTiled, MaxAddress
  <2>9. UsedCovered' /\ UsedBlocksExact'
    <3>1. handedWhole' = handedWhole /\ used_blocks' = used_blocks + 1
      BY <1>2, <1>6 DEF IInv, TypeOK
    <3>2. \A x \in UsedNow : live[c].ptr # x
      BY <1>2 DEF None, NULL, UsedNow, UsedOf, IInv, TypeOK, HeadersOK
    <3>3. live'[c].ptr = b /\ \A d \in Clients \ {c} : live'[d] = live[d]
      BY <1>2 DEF IInv, TypeOK
    <3> QED
      BY <1>3, <2>5, <2>6, <3>1, <3>2, <3>3 DEF UsedCovered, UsedBlocksExact, IInv
  <2>10. ExclusiveUntilHandedWhole'
    <3> SUFFICES ASSUME ~handedWhole' PROVE ExclusiveBlocks'
      BY DEF ExclusiveUntilHandedWhole
    <3>1. ExclusiveBlocks
      BY <1>2 DEF IInv, ExclusiveUntilHandedWhole
    <3>2. live'[c] = [ptr |-> b, size |-> size] /\ \A d \in Clients \ {c} : live'[d] = live[d]
      BY <1>2 DEF IInv, TypeOK
    <3>3. ASSUME NEW d \in Clients, Owns(d)'
          PROVE  /\ Marked(live[d].ptr)'
                 /\ Header + live'[d].size <= hdr'[live'[d].ptr].size
                 /\ d # c => live'[d].ptr # b
      <4>1. CASE d = c
        <5>1. TotalSize(size) >= size + Header /\ Header \in Nat
          BY <1>0, TotalSizeBounds, HeapAssumption DEF HeapAssumption
        <5>2. live'[d].ptr = b /\ live'[d].size = size
          BY <3>2, <4>1
        <5>3. hdr'[b].used = 1 /\ hdr'[b].size = TotalSize(size) /\ b \in DOMAIN hdr'
          BY <1>1, <2>2, <2>3 DEF SplitFields
        <5> QED
          BY <1>0, <4>1, <5>1, <5>2, <5>3 DEF Marked
      <4>2. CASE d # c
        <5>1. Owns(d) /\ live'[d] = live[d]
          BY <3>2, <3>3, <4>2 DEF Owns
        <5>2. Marked(live[d].ptr) /\ Header + live[d].size <= hdr[live[d].ptr].size
          BY <3>1, <5>1 DEF ExclusiveBlocks
        <5>3. live[d].ptr \in DOMAIN h /\ live[d].ptr # b /\ h[live[d].ptr].used = 1
              /\ h[live[d].ptr].size = hdr[live[d].ptr].size
          BY <1>1, <5>2 DEF Marked
        <5>4. /\ live[d].ptr \in DOMAIN hdr'
              /\ hdr'[live[d].ptr].used = 1
              /\ hdr'[live[d].ptr].size = hdr[live[d].ptr].size
          BY <2>2, <2>3, <5>3 DEF SplitFields
        <5> QED
          BY <5>1, <5>2, <5>3, <5>4 DEF Marked
      <4> QED
        BY <4>1, <4>2
    <3>4. ASSUME NEW d \in Clients, NEW e \in Clients, d # e, Owns(d)', Owns(e)'
          PROVE  live'[d].ptr # live'[e].ptr
      <4>1. CASE d # c /\ e # c
        BY <3>1, <3>2, <3>4, <4>1 DEF Owns, ExclusiveBlocks
      <4>2. CASE d = c \/ e = c
        BY <3>2, <3>3, <3>4, <4>2
      <4> QED
        BY <4>1, <4>2
    <3> QED
      BY <1>2, <3>3, <3>4 DEF ExclusiveBlocks
  <2> QED
    BY <2>7, <2>8, <2>9, <2>10 DEF IInv
<1>7. CASE ~Splits(h, b, size)
  <2>1. hdr' = h /\ handedWhole'
    BY <1>2, <1>7 DEF heap_split_block
  <2>2. UsedNow' = UsedNow
    BY <2>1 DEF UsedNow
  <2>3. TypeOK'
    BY <1>2, <1>3, <1>4, <1>5, <1>7, <2>1 DEF TypeOK
  <2>4. HeapTiled'
    BY <1>2, <1>7, <2>1 DEF HeapTiled, MaxAddress
  <2>5. UsedCovered' /\ UsedBlocksExact' /\ ExclusiveUntilHandedWhole'
    BY <1>2, <1>3, <2>1, <2>2 DEF UsedCovered, UsedBlocksExact, ExclusiveUntilHandedWhole
  <2> QED
    BY <2>3, <2>4, <2>5 DEF IInv
<1> QED
  BY <1>6, <1>7

LEMMA EndBeyondBlocks ==
  ASSUME IInv
  PROVE  end_address \in Nat /\ end_address > 0
<1>1. PICK b \in DOMAIN hdr : EndOf(hdr, b) = end_address
  BY DEF IInv, HeapTiled, Tiled, EndsAtEnd
<1>2. b \in Nat /\ b > 0 /\ hdr[b].size \in Nat
  BY BlockFacts DEF IInv, TypeOK
<1> QED
  BY <1>1, <1>2 DEF EndOf, IInv, TypeOK

LEMMA MaxIsNat == MaxAddress \in Nat
  BY HeapAssumption DEF HeapAssumption, MaxAddress

LEMMA KmallocFitPreserves ==
  ASSUME IInv, NEW c \in Clients, NEW size \in Sizes, KmallocFit(c, size)
  PROVE  IInv'
<1>1. /\ HeadersOK(hdr) /\ end_address' = end_address /\ end_address \in Nat
      /\ Tiled(hdr, end_address') /\ end_address' <= MaxAddress
      /\ total_blocks = Cardinality(DOMAIN hdr)
  BY DEF IInv, TypeOK, HeapTiled, KmallocFit
<1>2. /\ MayCall(c) /\ heap_find_free_block(hdr, size) # NULL
      /\ Take(c, size, hdr, heap_find_free_block(hdr, size), total_blocks)
  BY DEF KmallocFit
<1> QED
  BY <1>1, <1>2, TakePreserves DEF UsedNow

\* The list after heap_expand_heap, as the two actions that expand see it.
LEMMA ExpandedList ==
  ASSUME IInv, NEW size \in Sizes, CanExpand(size),
         end_address' = end_address + ExpandSize(size)
  PROVE  LET h == heap_expand_heap(hdr, size)
         IN  /\ HeadersOK(h) /\ end_address' \in Nat /\ Tiled(h, end_address')
             /\ end_address' <= MaxAddress
             /\ total_blocks + 1 = Cardinality(DOMAIN h)
             /\ DOMAIN hdr \subseteq DOMAIN h
             /\ \A x \in DOMAIN hdr : h[x].size = hdr[x].size /\ h[x].used = hdr[x].used
             /\ UsedOf(h) = UsedNow
<1> DEFINE h == heap_expand_heap(hdr, size)
<1>1. size \in Nat /\ ExpandSize(size) \in Nat
  BY HeapAssumption DEF HeapAssumption, ExpandSize, HEAP_ALIGN
<1>2. HeadersOK(hdr) /\ Tiled(hdr, end_address) /\ total_blocks = Cardinality(DOMAIN hdr)
  BY DEF IInv, TypeOK, HeapTiled
<1>3. /\ HeadersOK(h)
      /\ Tiled(h, end_address + ExpandSize(size))
      /\ end_address \notin DOMAIN hdr
      /\ DOMAIN h = DOMAIN hdr \cup {end_address}
      /\ h[end_address].used = 0
      /\ \A x \in DOMAIN hdr : h[x].size = hdr[x].size /\ h[x].used = hdr[x].used
  BY <1>1, <1>2, EndBeyondBlocks, ExpandWellFormed
<1> HIDE DEF h
<1>4. Cardinality(DOMAIN h) = Cardinality(DOMAIN hdr) + 1
  <2>1. IsFiniteSet(DOMAIN hdr) /\ end_address \notin DOMAIN hdr
    BY <1>2, <1>3, UsedOfFinite
  <2>2. Cardinality(DOMAIN hdr \cup {end_address}) = Cardinality(DOMAIN hdr) + 1
    BY <2>1, FS_AddElement
  <2> QED
    BY <1>3, <2>2
<1>5. UsedOf(h) = UsedNow
  BY <1>3 DEF UsedOf, UsedNow
<1>6. end_address' \in Nat /\ end_address' <= MaxAddress
  BY <1>1, EndBeyondBlocks DEF CanExpand
<1> QED
  BY <1>2, <1>3, <1>4, <1>5, <1>6 DEF h

LEMMA KmallocExpandPreserves ==
  ASSUME IInv, NEW c \in Clients, NEW size \in Sizes, KmallocExpand(c, size)
  PROVE  IInv'
<1> DEFINE h == heap_expand_heap(hdr, size)
<1>1. /\ MayCall(c) /\ CanExpand(size) /\ heap_find_free_block(h, size) # NULL
      /\ Take(c, size, h, heap_find_free_block(h, size), total_blocks + 1)
      /\ end_address' = end_address + ExpandSize(size)
  BY DEF KmallocExpand
<1>2. /\ HeadersOK(h) /\ end_address' \in Nat /\ Tiled(h, end_address')
      /\ end_address' <= MaxAddress
      /\ total_blocks + 1 = Cardinality(DOMAIN h)
      /\ DOMAIN hdr \subseteq DOMAIN h
      /\ \A x \in DOMAIN hdr : h[x].size = hdr[x].size /\ h[x].used = hdr[x].used
      /\ UsedOf(h) = UsedNow
  BY <1>1, ExpandedList
<1> HIDE DEF h
<1> QED
  BY <1>1, <1>2, TakePreserves

\* ExclusiveBlocks survives a step that leaves the allocations alone and every
\* used block as it was.
LEMMA ExclusiveKept ==
  ASSUME ExclusiveUntilHandedWhole, handedWhole' = handedWhole,
         clobbered' = clobbered, live' = live,
         \A x \in DOMAIN hdr : hdr[x].used = 1 =>
           x \in DOMAIN hdr' /\ hdr'[x].used = 1 /\ hdr'[x].size = hdr[x].size
  PROVE  ExclusiveUntilHandedWhole'
<1> SUFFICES ASSUME ~handedWhole' PROVE ExclusiveBlocks'
  BY DEF ExclusiveUntilHandedWhole
<1>1. ExclusiveBlocks
  BY DEF ExclusiveUntilHandedWhole
<1>2. ASSUME NEW d \in Clients, Owns(d)'
      PROVE  Marked(live[d].ptr)' /\ Header + live'[d].size <= hdr'[live'[d].ptr].size
  BY <1>1, <1>2 DEF ExclusiveBlocks, Marked, Owns
<1> QED
  BY <1>1, <1>2 DEF ExclusiveBlocks, Owns

LEMMA KmallocGrowsAndFailsPreserves ==
  ASSUME IInv, NEW c \in Clients, NEW size \in Sizes, KmallocGrowsAndFails(c, size)
  PROVE  IInv'
<1>1. /\ hdr' = heap_expand_heap(hdr, size) /\ CanExpand(size)
      /\ end_address' = end_address + ExpandSize(size)
      /\ total_blocks' = total_blocks + 1
      /\ UNCHANGED <<used_blocks, live, clobbered, handedWhole>>
  BY DEF KmallocGrowsAndFails
<1>2. /\ HeadersOK(hdr') /\ end_address' \in Nat /\ Tiled(hdr', end_address')
      /\ end_address' <= MaxAddress
      /\ total_blocks + 1 = Cardinality(DOMAIN hdr')
      /\ DOMAIN hdr \subseteq DOMAIN hdr'
      /\ \A x \in DOMAIN hdr : hdr'[x].size = hdr[x].size /\ hdr'[x].used = hdr[x].used
      /\ UsedOf(hdr') = UsedNow
  BY <1>1, ExpandedList
<1>3. UsedNow' = UsedNow
  BY <1>2 DEF UsedNow
<1>4. TypeOK'
  BY <1>1, <1>2 DEF IInv, TypeOK
<1>5. HeapTiled'
  BY <1>1, <1>2 DEF HeapTiled, MaxAddress
<1>6. UsedCovered' /\ UsedBlocksExact'
  BY <1>1, <1>3 DEF IInv, UsedCovered, UsedBlocksExact
<1>7. ExclusiveUntilHandedWhole'
  BY <1>1, <1>2, ExclusiveKept DEF IInv
<1> QED
  BY <1>4, <1>5, <1>6, <1>7 DEF IInv

LEMMA KmfreeMarkedPreserves ==
  ASSUME IInv, NEW c \in Clients, KmfreeMarked(c)
  PROVE  IInv'
<1> DEFINE b == live[c].ptr
           h == [hdr EXCEPT ![b].used = 0]
           merges == (IF IsFree(hdr, hdr[b].next) THEN 1 ELSE 0)
                       + (IF IsFree(hdr, hdr[b].prev) THEN 1 ELSE 0)
<1>1. /\ Owns(c) /\ b \in DOMAIN hdr /\ hdr[b].used = 1
      /\ hdr' = heap_merge_adjacent_blocks(h, b)
      /\ total_blocks' = total_blocks - merges
      /\ used_blocks' = used_blocks - 1
      /\ live' = [live EXCEPT ![c] = None]
      /\ end_address' = end_address /\ clobbered' = clobbered /\ handedWhole' = handedWhole
      /\ clobbered = {}
  BY DEF KmfreeMarked, Holds, Marked, Owns
<1>2. /\ HeadersOK(hdr) /\ Tiled(hdr, end_address) /\ end_address \in Nat
      /\ end_address <= MaxAddress /\ total_blocks = Cardinality(DOMAIN hdr)
  BY DEF IInv, TypeOK, HeapTiled
<1>3. /\ DOMAIN h = DOMAIN hdr
      /\ \A x \in DOMAIN hdr : /\ h[x].size = hdr[x].size
                               /\ h[x].next = hdr[x].next /\ h[x].prev = hdr[x].prev
                               /\ h[x].used = IF x = b THEN 0 ELSE hdr[x].used
      /\ HeadersOK(h)
  BY <1>1, <1>2 DEF HeadersOK, HeaderType
<1> HIDE DEF h
<1>4. Tiled(h, end_address)
  <2>1. StartsAtStart(h) /\ EndsAtEnd(h, end_address)
    BY <1>2, <1>3 DEF Tiled, StartsAtStart, EndsAtEnd, EndOf
  <2>2. NextIsAdjacent(h, end_address)
    BY <1>2, <1>3 DEF Tiled, NextIsAdjacent, EndOf
  <2>3. PrevInvertsNext(h) /\ NextInvertsPrev(h)
    <3>1. \A x \in DOMAIN hdr : /\ hdr[x].next \in DOMAIN hdr \cup {NULL}
                                /\ hdr[x].prev \in DOMAIN hdr \cup {NULL}
      BY <1>2, BlockFacts
    <3> QED
      BY <1>2, <1>3, <3>1 DEF Tiled, PrevInvertsNext, NextInvertsPrev
  <2>4. NoOverlap(h)
    BY <1>2, <1>3 DEF Tiled, NoOverlap, EndOf
  <2> QED
    BY <2>1, <2>2, <2>3, <2>4 DEF Tiled
<1>5. hdr[b].next # b /\ hdr[b].prev # b
  <2>1. \A x \in DOMAIN hdr : x \in Nat /\ x > 0 /\ hdr[x].size \in Nat /\ hdr[x].size > 0
    BY <1>2, BlockFacts DEF Tiled, EndsAtEnd
  <2>2. hdr[b].next # b
    BY <1>1, <1>2, <2>1 DEF Tiled, NextIsAdjacent, EndOf, NULL
  <2> QED
    BY <1>1, <1>2, <2>1, <2>2 DEF Tiled, NextInvertsPrev, NULL
<1>6. /\ IsFree(h, h[b].next) <=> IsFree(hdr, hdr[b].next)
      /\ IsFree(h, h[b].prev) <=> IsFree(hdr, hdr[b].prev)
  BY <1>1, <1>2, <1>3, <1>5, BlockFacts DEF IsFree
<1>7. /\ HeadersOK(hdr') /\ Tiled(hdr', end_address)
      /\ Cardinality(DOMAIN hdr') = Cardinality(DOMAIN h) - merges
      /\ DOMAIN hdr' \subseteq DOMAIN h
      /\ \A x \in DOMAIN h : h[x].used = 1 =>
           x \in DOMAIN hdr' /\ hdr'[x].used = 1 /\ hdr'[x].size = h[x].size
      /\ \A x \in DOMAIN hdr' : hdr'[x].used = 1 => h[x].used = 1
  <2>1. b \in DOMAIN h /\ h[b].used = 0
    BY <1>1, <1>3
  <2> DEFINE g == heap_merge_adjacent_blocks(h, b)
             m == (IF IsFree(h, h[b].next) THEN 1 ELSE 0)
                    + (IF IsFree(h, h[b].prev) THEN 1 ELSE 0)
  <2>2. /\ HeadersOK(g) /\ Tiled(g, end_address)
        /\ Cardinality(DOMAIN g) = Cardinality(DOMAIN h) - m
        /\ DOMAIN g \subseteq DOMAIN h
        /\ \A x \in DOMAIN h : h[x].used = 1 =>
             x \in DOMAIN g /\ g[x].used = 1 /\ g[x].size = h[x].size
        /\ \A x \in DOMAIN g : g[x].used = 1 => h[x].used = 1
    <3> HIDE DEF b
    <3> QED
      BY <1>2, <1>3, <1>4, <2>1, MergeWellFormed
  <2>3. m = merges
    BY <1>6
  <2> HIDE DEF g, m, merges
  <2>4. g = hdr'
    BY <1>1 DEF g
  <2> QED
    BY <2>2, <2>3, <2>4
<1>8. UsedNow' = UsedNow \ {b}
  BY <1>1, <1>3, <1>7 DEF UsedNow, UsedOf
<1>9. /\ IsFiniteSet(UsedNow) /\ Cardinality(UsedNow) \in Nat /\ b \in UsedNow
  BY <1>1, <1>2, UsedOfFinite DEF UsedNow, UsedOf
<1>10. Cardinality(UsedNow') = Cardinality(UsedNow) - 1 /\ Cardinality(UsedNow') \in Nat
  <2>1. Cardinality(UsedNow \ {b}) = Cardinality(UsedNow) - 1
    BY <1>9, FS_RemoveElement
  <2>2. Cardinality(UsedNow') \in Nat
    BY <1>7, UsedOfFinite DEF UsedNow
  <2> QED
    BY <1>8, <2>1, <2>2
<1>11. used_blocks \in 0 .. UsedCap /\ Cardinality(UsedNow) <= used_blocks /\ UsedCap \in Nat
  BY HeapAssumption DEF IInv, TypeOK, UsedCovered, HeapAssumption
<1>12. live'[c] = None /\ \A d \in Clients \ {c} : live'[d] = live[d]
  BY <1>1 DEF IInv, TypeOK
<1>13. TypeOK'
  <2>1. Cardinality(DOMAIN hdr') \in Nat
    BY <1>7, UsedOfFinite
  <2>2. total_blocks' \in Nat
    BY <1>1, <1>2, <1>3, <1>7, <2>1
  <2>3. used_blocks' \in 0 .. UsedCap
    BY <1>1, <1>10, <1>9, <1>11
  <2>4. live' \in [Clients -> {None} \cup [ptr : Nat \ {NULL}, size : Nat \ {0}]]
    BY <1>1 DEF IInv, TypeOK
  <2>5. end_address' \in Nat /\ clobbered' \subseteq Nat /\ handedWhole' \in BOOLEAN
    BY <1>1 DEF IInv, TypeOK
  <2> QED
    BY <1>7, <2>2, <2>3, <2>4, <2>5 DEF TypeOK
<1>14. HeapTiled'
  BY <1>1, <1>2, <1>3, <1>7 DEF HeapTiled, MaxAddress
<1>15. UsedCovered'
  BY <1>1, <1>9, <1>10, <1>11 DEF UsedCovered
<1>16. ExclusiveUntilHandedWhole'
  <2> SUFFICES ASSUME ~handedWhole' PROVE ExclusiveBlocks'
    BY DEF ExclusiveUntilHandedWhole
  <2>1. ExclusiveBlocks
    BY <1>1 DEF IInv, ExclusiveUntilHandedWhole
  <2>2. ASSUME NEW d \in Clients, Owns(d)'
        PROVE  /\ Owns(d) /\ live'[d] = live[d] /\ Marked(live[d].ptr)'
               /\ Header + live[d].size <= hdr'[live[d].ptr].size
    <3>1. d # c /\ live'[d] = live[d] /\ Owns(d)
      BY <1>12, <2>2 DEF Owns
    <3>2. live[d].ptr # b
      BY <1>1, <2>1, <3>1 DEF ExclusiveBlocks
    <3>3. Marked(live[d].ptr) /\ Header + live[d].size <= hdr[live[d].ptr].size
      BY <2>1, <3>1 DEF ExclusiveBlocks
    <3> QED
      BY <1>3, <1>7, <3>1, <3>2, <3>3 DEF Marked
  <2>3. Marked(live[c].ptr)
    BY <1>1 DEF Marked
  <2> QED
    BY <1>1, <2>1, <2>2 DEF ExclusiveBlocks, Marked
<1>17. UsedBlocksExact'
  <2> SUFFICES ASSUME ~handedWhole'
               PROVE  /\ used_blocks' = Cardinality(UsedNow')
                      /\ \A x \in UsedNow' : \E d \in Clients : live'[d].ptr = x
    BY DEF UsedBlocksExact
  <2>1. used_blocks = Cardinality(UsedNow)
        /\ \A x \in UsedNow : \E d \in Clients : live[d].ptr = x
    BY <1>1 DEF IInv, UsedBlocksExact
  <2>2. \A x \in UsedNow' : \E d \in Clients : live'[d].ptr = x
    BY <1>8, <1>12, <2>1
  <2> QED
    BY <1>1, <1>10, <2>1, <2>2
<1> QED
  BY <1>13, <1>14, <1>15, <1>16, <1>17 DEF IInv

LEMMA KmfreeRejectedPreserves ==
  ASSUME IInv, NEW c \in Clients, KmfreeRejected(c)
  PROVE  IInv'
<1>1. /\ Owns(c) /\ ~Marked(live[c].ptr)
      /\ live' = [live EXCEPT ![c] = None]
      /\ UNCHANGED <<hdr, end_address, total_blocks, used_blocks, clobbered, handedWhole>>
  BY DEF KmfreeRejected, Holds, Owns
<1>2. handedWhole
  BY <1>1 DEF IInv, ExclusiveUntilHandedWhole, ExclusiveBlocks
<1>3. TypeOK'
  BY <1>1 DEF IInv, TypeOK
<1>4. HeapTiled' /\ UsedCovered'
  BY <1>1 DEF IInv, HeapTiled, UsedCovered, UsedNow, MaxAddress
<1> QED
  BY <1>1, <1>2, <1>3, <1>4 DEF IInv, ExclusiveUntilHandedWhole, UsedBlocksExact

LEMMA WritePayloadPreserves ==
  ASSUME IInv, NEW c \in Clients, WritePayload(c)
  PROVE  IInv'
<1>1. /\ Owns(c)
      /\ clobbered' = clobbered \cup HeadersInPayload(live[c])
      /\ UNCHANGED <<hdr, end_address, total_blocks, used_blocks, live, handedWhole>>
  BY DEF WritePayload, Owns
<1>2. TypeOK'
  <2>1. HeadersInPayload(live[c]) \subseteq Nat
    BY DEF HeadersInPayload, IInv, TypeOK, HeadersOK
  <2> QED
    BY <1>1, <2>1 DEF IInv, TypeOK
<1>3. HeapTiled' /\ UsedCovered' /\ UsedBlocksExact'
  BY <1>1 DEF IInv, HeapTiled, UsedCovered, UsedBlocksExact, UsedNow, MaxAddress
<1>4. ~handedWhole => HeadersInPayload(live[c]) = {}
  <2> SUFFICES ASSUME ~handedWhole, NEW b \in DOMAIN hdr, live[c].ptr < b,
                      b < live[c].ptr + Header + live[c].size
               PROVE  FALSE
    BY DEF HeadersInPayload
  <2>1. /\ live[c].ptr \in DOMAIN hdr
        /\ Header + live[c].size <= hdr[live[c].ptr].size
    BY <1>1 DEF IInv, ExclusiveUntilHandedWhole, ExclusiveBlocks, Marked
  <2>2. live[c].ptr + hdr[live[c].ptr].size <= b
    BY <2>1 DEF IInv, HeapTiled, Tiled, NoOverlap, EndOf
  <2>3. /\ live[c].ptr \in Nat /\ hdr[live[c].ptr].size \in Nat /\ b \in Nat
    BY <2>1, BlockFacts DEF IInv, TypeOK
  <2>4. live[c].size \in Nat /\ Header \in Nat
    BY <1>1, HeapAssumption DEF HeapAssumption, IInv, TypeOK, Owns
  <2> QED
    BY <2>1, <2>2, <2>3, <2>4
<1>5. ExclusiveUntilHandedWhole'
  BY <1>1, <1>4 DEF IInv, ExclusiveUntilHandedWhole, ExclusiveBlocks, Marked, Owns
<1> QED
  BY <1>2, <1>3, <1>5 DEF IInv

LEMMA NextIInv == IInv /\ [Next]_vars => IInv'
<1> SUFFICES ASSUME IInv, [Next]_vars PROVE IInv'
  OBVIOUS
<1>1. ASSUME NEW c \in Clients, NEW size \in Sizes, KmallocFit(c, size) PROVE IInv'
  BY <1>1, KmallocFitPreserves
<1>2. ASSUME NEW c \in Clients, NEW size \in Sizes, KmallocExpand(c, size) PROVE IInv'
  BY <1>2, KmallocExpandPreserves
<1>3. ASSUME NEW c \in Clients, NEW size \in Sizes, KmallocGrowsAndFails(c, size) PROVE IInv'
  BY <1>3, KmallocGrowsAndFailsPreserves
<1>4. ASSUME NEW c \in Clients, KmfreeMarked(c) PROVE IInv'
  BY <1>4, KmfreeMarkedPreserves
<1>5. ASSUME NEW c \in Clients, KmfreeRejected(c) PROVE IInv'
  BY <1>5, KmfreeRejectedPreserves
<1>6. ASSUME NEW c \in Clients, WritePayload(c) PROVE IInv'
  BY <1>6, WritePayloadPreserves
<1>7. CASE UNCHANGED vars
  BY <1>7 DEF vars, IInv, TypeOK, HeapTiled, UsedCovered, UsedNow, UsedBlocksExact,
              ExclusiveUntilHandedWhole, ExclusiveBlocks, Marked, Owns, MaxAddress
<1>8. ASSUME NEW c \in Clients, NEW size \in Sizes, KmallocOutOfMemory(c, size) PROVE IInv'
  BY <1>7, <1>8 DEF KmallocOutOfMemory
<1> QED
  BY <1>1, <1>2, <1>3, <1>4, <1>5, <1>6, <1>7, <1>8 DEF Next, kmalloc, kmfree

\* Every reachable state of the heap satisfies the inductive invariant.
LEMMA SpecIInv == Spec => []IInv
<1>1. Init => IInv
  BY InitIInv
<1>2. IInv /\ [Next]_vars => IInv'
  BY NextIInv
<1> QED
  BY <1>1, <1>2, PTL DEF Spec

\* For any heap sizes and any requests: the headers stay typed and linked to
\* listed blocks only, and used_blocks never counts below zero.
THEOREM HeapTypes == Spec => []TypeOK
<1>1. IInv => TypeOK
  BY DEF IInv
<1> QED
  BY <1>1, SpecIInv, PTL

\* The blocks tile the heap and total_blocks is their number, whatever the
\* order of kmalloc and kmfree, splits, merges and expansions.
THEOREM HeapStaysTiled == Spec => []HeapTiled
<1>1. IInv => HeapTiled
  BY DEF IInv
<1> QED
  BY <1>1, SpecIInv, PTL

\* Until a block is handed out whole, live allocations never share a byte and
\* no payload write destroys a header: the defect of heap_split_block's early
\* return is the only way to lose exclusivity.
THEOREM HeapExclusive == Spec => []ExclusiveUntilHandedWhole
<1>1. IInv => ExclusiveUntilHandedWhole
  BY DEF IInv
<1> QED
  BY <1>1, SpecIInv, PTL

\* Until a block is handed out whole, used_blocks is exact and nothing leaks.
THEOREM HeapUsedExact == Spec => []UsedBlocksExact
<1>1. IInv => UsedBlocksExact
  BY DEF IInv
<1> QED
  BY <1>1, SpecIInv, PTL

\* A request that fits in the least expansion, header included, is served as
\* long as the heap may grow: one expansion makes room for it.
THEOREM HeapServesSmallRequests == Spec => []SmallRequestsServed
<1>1. ASSUME IInv, NEW size \in Sizes, TotalSize(size) <= BlockMin, CanExpand(size)
      PROVE  heap_find_free_block(heap_expand_heap(hdr, size), size) # NULL
  <2> DEFINE h == heap_expand_heap(hdr, size)
             fits == {b \in DOMAIN h : Fits(h, b, size)}
  <2>1. size \in Nat /\ TotalSize(size) \in Nat /\ BlockMin \in Nat
    BY TotalSizeBounds, HeapAssumption DEF HeapAssumption
  <2>2. /\ HeadersOK(h) /\ DOMAIN h = DOMAIN hdr \cup {end_address} /\ h[end_address].used = 0
        /\ h[end_address].size = ExpandSize(size)
    <3>1. HeadersOK(hdr) /\ Tiled(hdr, end_address)
      BY <1>1 DEF IInv, TypeOK, HeapTiled
    <3>2. /\ HeadersOK(h) /\ DOMAIN h = DOMAIN hdr \cup {end_address}
          /\ h[end_address].used = 0
      BY <1>1, <2>1, <3>1, EndBeyondBlocks, ExpandWellFormed
    <3>3. h[end_address].size = ExpandSize(size)
      BY DEF heap_expand_heap, AddBlock
    <3> QED
      BY <3>2, <3>3
  <2>3. ExpandSize(size) \in Nat /\ ExpandSize(size) >= BlockMin
    BY <2>1 DEF ExpandSize, HEAP_ALIGN
  <2>4. end_address \in fits
    BY <1>1, <2>1, <2>2, <2>3 DEF Fits
  <2>5. fits \in SUBSET Nat /\ fits # {} /\ NULL \notin fits
    BY <2>2, <2>4 DEF HeadersOK
  <2>6. heap_find_free_block(h, size) = Min(fits)
    BY <2>5 DEF heap_find_free_block
  <2>7. Min(fits) \in fits
    BY <2>5, MinOfNaturals
  <2> QED
    BY <2>5, <2>6, <2>7
<1>2. IInv => SmallRequestsServed
  BY <1>1 DEF SmallRequestsServed
<1> QED
  BY <1>2, SpecIInv, PTL

-----------------------------------------------------------------------------
(* Pairs of adjacent free blocks, named by the first of the two: how many    *)
(* there are after each list operation.                                      *)

\* A set that trades at most one element for another does not grow.
LEMMA Traded ==
  ASSUME NEW S, IsFiniteSet(S), NEW T, NEW x, NEW y,
         T \ {x} \subseteq S \ {y}, x \in T => y \in S
  PROVE  IsFiniteSet(T) /\ Cardinality(T) <= Cardinality(S)
<1>1. IsFiniteSet(S \ {y}) /\ Cardinality(S \ {y}) \in Nat /\ Cardinality(S) \in Nat
  BY FS_RemoveElement, FS_CardinalityType
<1>2. IsFiniteSet(T \ {x}) /\ Cardinality(T \ {x}) <= Cardinality(S \ {y})
  BY <1>1, FS_Subset
<1>3. CASE x \in T
  <2>1. Cardinality(S \ {y}) = Cardinality(S) - 1
    BY <1>3, FS_RemoveElement
  <2>2. T = (T \ {x}) \cup {x}
    BY <1>3
  <2>3. IsFiniteSet(T) /\ Cardinality(T) = Cardinality(T \ {x}) + 1
    <3> DEFINE U == T \ {x}
    <3>1. IsFiniteSet(U) /\ x \notin U
      BY <1>2
    <3> HIDE DEF U
    <3>2. IsFiniteSet(U \cup {x}) /\ Cardinality(U \cup {x}) = Cardinality(U) + 1
      BY <3>1, FS_AddElement
    <3> QED
      BY <2>2, <3>2, Zenon DEF U
  <2>4. Cardinality(T \ {x}) \in Nat
    BY <1>2, FS_CardinalityType
  <2> QED
    BY <1>1, <1>2, <2>1, <2>3, <2>4
<1>4. CASE x \notin T
  <2>1. T = T \ {x} /\ T \subseteq S
    BY <1>4
  <2> QED
    BY <2>1, FS_Subset
<1> QED
  BY <1>3, <1>4

\* A set has at most one element more than a set that covers it but for one.
LEMMA OneMore ==
  ASSUME NEW S, IsFiniteSet(S), NEW T, NEW x, T \subseteq S \cup {x}
  PROVE  IsFiniteSet(T) /\ Cardinality(T) <= Cardinality(S) + 1
<1> DEFINE U == S \cup {x}
<1>1. /\ IsFiniteSet(U)
      /\ Cardinality(U) = IF x \in S THEN Cardinality(S) ELSE Cardinality(S) + 1
  BY FS_AddElement
<1>2. Cardinality(S) \in Nat
  BY FS_CardinalityType
<1> HIDE DEF U
<1>3. IsFiniteSet(T) /\ Cardinality(T) <= Cardinality(U)
  <2>1. T \subseteq U
    BY DEF U
  <2> QED
    BY <1>1, <2>1, FS_Subset
<1>4. Cardinality(U) \in Nat /\ Cardinality(T) \in Nat
  BY <1>1, <1>3, FS_CardinalityType
<1> QED
  BY <1>1, <1>2, <1>3, <1>4

LEMMA PairsFinite ==
  ASSUME NEW h, HeadersOK(h)
  PROVE  IsFiniteSet(FreePairs(h)) /\ Cardinality(FreePairs(h)) \in Nat
BY FS_Subset, FS_CardinalityType DEF FreePairs, HeadersOK

\* Joining two free blocks ends at least one pair.
LEMMA AbsorbPairs ==
  ASSUME NEW h, NEW end \in Nat, HeadersOK(h), Tiled(h, end),
         NEW a \in DOMAIN h, NEW b \in DOMAIN h, h[a].next = b,
         h[a].used = 0, h[b].used = 0
  PROVE  Cardinality(FreePairs(Absorb(h, a, b))) <= Cardinality(FreePairs(h)) - 1
<1> DEFINE g == Absorb(h, a, b)
           N == DOMAIN h
<1>1. \A x \in N : /\ x # NULL
                   /\ h[x].next \in N \cup {NULL}
                   /\ h[x].next # NULL => h[h[x].next].prev = x
  BY BlockFacts DEF NULL, Tiled, PrevInvertsNext
<1>2. /\ DOMAIN g = N \ {b}
      /\ g[a].used = h[a].used /\ g[a].next = h[b].next
      /\ \A x \in N \ {a, b} : g[x].used = h[x].used /\ g[x].next = h[x].next
  BY AbsorbWellFormed DEF AbsorbFields
<1>3. a # b /\ h[b].next # b
  <2>1. \A x \in N : x \in Nat /\ h[x].size \in Nat /\ h[x].size > 0
    BY BlockFacts DEF Tiled, EndsAtEnd
  <2> QED
    BY <1>1, <2>1 DEF Tiled, NextIsAdjacent, EndOf
<1> HIDE DEF g
<1>4. FreePairs(g) \ {a} \subseteq (FreePairs(h) \ {a}) \ {b}
  BY <1>1, <1>2, <1>3 DEF FreePairs, IsFree
<1>5. a \in FreePairs(g) => b \in FreePairs(h) \ {a}
  BY <1>1, <1>2, <1>3 DEF FreePairs, IsFree
<1>6. a \in FreePairs(h)
  BY <1>1 DEF FreePairs, IsFree
<1>7. /\ IsFiniteSet(FreePairs(h) \ {a})
      /\ Cardinality(FreePairs(h) \ {a}) = Cardinality(FreePairs(h)) - 1
  BY <1>6, PairsFinite, FS_RemoveElement
<1>8. Cardinality(FreePairs(g)) <= Cardinality(FreePairs(h) \ {a})
  <2> DEFINE S == FreePairs(h) \ {a}
             T == FreePairs(g)
  <2>1. IsFiniteSet(S) /\ T \ {a} \subseteq S \ {b} /\ (a \in T => b \in S)
    BY <1>4, <1>5, <1>7
  <2> HIDE DEF S, T
  <2>2. Cardinality(T) <= Cardinality(S)
    BY <2>1, Traded
  <2> QED
    BY <2>2 DEF S, T
<1> QED
  BY <1>7, <1>8 DEF g

\* Splitting a free block off makes no pair: the block handed out is used, and
\* the rest is free where the block was.
LEMMA SplitPairs ==
  ASSUME NEW h, NEW end \in Nat, HeadersOK(h), Tiled(h, end),
         NEW b \in DOMAIN h, h[b].used = 0, NEW size \in Nat
  PROVE  Cardinality(FreePairs(heap_split_block(h, b, size))) <= Cardinality(FreePairs(h))
<1>1. CASE ~Splits(h, b, size)
  <2>1. heap_split_block(h, b, size) = h
    BY <1>1 DEF heap_split_block
  <2> QED
    BY <2>1, PairsFinite
<1>2. CASE Splits(h, b, size)
  <2>0. /\ b + TotalSize(size) \notin DOMAIN h
        /\ DOMAIN SplitAt(h, b, size) = DOMAIN h \cup {b + TotalSize(size)}
    <3>1. /\ HeadersOK(SplitAt(h, b, size))
          /\ Tiled(SplitAt(h, b, size), end)
          /\ b + TotalSize(size) \notin DOMAIN h
          /\ DOMAIN SplitAt(h, b, size) = DOMAIN h \cup {b + TotalSize(size)}
      BY <1>2, SplitWellFormed
    <3> QED
      BY <3>1, Zenon
  <2> DEFINE g == SplitAt(h, b, size)
             N == DOMAIN h
             rest == b + TotalSize(size)
  <2>1. \A x \in N : /\ x \in Nat /\ x > 0
                     /\ h[x].size \in Nat /\ h[x].size > 0
                     /\ h[x].next \in N \cup {NULL}
    BY BlockFacts DEF NULL, Tiled, EndsAtEnd
  <2>2. h[b].next # b
    BY <2>1 DEF Tiled, NextIsAdjacent, EndOf, NULL
  <2>3. rest \notin N /\ DOMAIN g = N \cup {rest}
    BY <2>0, Zenon
  <2>4. TotalSize(size) \in Nat /\ TotalSize(size) <= h[b].size
    BY <1>2, <2>1, TotalSizeBounds, HeapAssumption DEF HeapAssumption, Splits
  <2>5. SplitFields(h, g, b, rest, TotalSize(size))
    BY <2>2, <2>3, <2>4, SplitHasFields
  <2>6. /\ g[rest].used = 0 /\ g[rest].next = h[b].next /\ g[b].used = 1
        /\ \A x \in N \ {b} : g[x].used = h[x].used /\ g[x].next = h[x].next
    BY <2>5 DEF SplitFields
  <2>7. \A x \in N : x # rest
    BY <2>3
  <2> HIDE DEF g, rest
  <2>8. FreePairs(g) \ {rest} \subseteq FreePairs(h) \ {b}
    BY <2>1, <2>3, <2>6, <2>7 DEF FreePairs, IsFree, NULL
  <2>9. rest \in FreePairs(g) => b \in FreePairs(h)
    BY <2>1, <2>2, <2>3, <2>6, <2>7 DEF FreePairs, IsFree, NULL
  <2>10. Cardinality(FreePairs(g)) <= Cardinality(FreePairs(h))
    <3> DEFINE S == FreePairs(h)
               T == FreePairs(g)
    <3>1. IsFiniteSet(S) /\ T \ {rest} \subseteq S \ {b} /\ (rest \in T => b \in S)
      BY <2>8, <2>9, PairsFinite
    <3> HIDE DEF S, T
    <3>2. Cardinality(T) <= Cardinality(S)
      BY <3>1, Traded
    <3> QED
      BY <3>2 DEF S, T
  <2>11. heap_split_block(h, b, size) = g
    BY <1>2 DEF heap_split_block, g
  <2> QED
    BY <2>10, <2>11
<1> QED
  BY <1>1, <1>2

\* kmfree's merge ends a pair with each neighbour it joins, and makes none.
LEMMA MergePairs ==
  ASSUME NEW h, NEW end \in Nat, HeadersOK(h), Tiled(h, end),
         NEW b \in DOMAIN h, h[b].used = 0
  PROVE  Cardinality(FreePairs(heap_merge_adjacent_blocks(h, b)))
           <= Cardinality(FreePairs(h)) - ((IF IsFree(h, h[b].next) THEN 1 ELSE 0)
                                             + (IF IsFree(h, h[b].prev) THEN 1 ELSE 0))
<1> DEFINE N == DOMAIN h
           n == h[b].next
           p == h[b].prev
           f == MergeNext(h, b)
           g == MergePrev(f, b)
<1>1. \A x \in N : /\ x \in Nat /\ x > 0
                   /\ h[x].size \in Nat /\ h[x].size > 0
                   /\ h[x].next \in N \cup {NULL}
                   /\ h[x].prev \in N \cup {NULL}
  BY BlockFacts DEF NULL, Tiled, EndsAtEnd
<1>2. n # NULL => n \in N /\ n # b
  BY <1>1 DEF NULL, Tiled, NextIsAdjacent, EndOf
<1>3. p # NULL => p \in N /\ p # b /\ p # n
  <2>1. p # NULL => p \in N /\ h[p].next = b
    BY <1>1 DEF NULL, Tiled, NextInvertsPrev
  <2>2. p # NULL => p < b
    BY <1>1, <2>1 DEF NULL, Tiled, NextIsAdjacent, EndOf
  <2>3. n # NULL => b < n
    BY <1>1 DEF NULL, Tiled, NextIsAdjacent, EndOf
  <2> QED
    BY <1>1, <2>1, <2>2, <2>3 DEF NULL
<1>4. Cardinality(FreePairs(h)) \in Nat
  BY PairsFinite
<1>5. /\ HeadersOK(f) /\ Tiled(f, end)
      /\ DOMAIN f = IF IsFree(h, n) THEN N \ {n} ELSE N
      /\ f[b].prev = p
      /\ \A x \in DOMAIN f : f[x].used = h[x].used
      /\ Cardinality(FreePairs(f))
           <= Cardinality(FreePairs(h)) - (IF IsFree(h, n) THEN 1 ELSE 0)
  <2>1. CASE IsFree(h, n)
    <3>1. n \in N /\ n # b /\ h[n].used = 0
      BY <1>2, <2>1 DEF IsFree
    <3>2. f = Absorb(h, b, n)
      BY <2>1 DEF MergeNext
    <3>3. /\ HeadersOK(f) /\ Tiled(f, end) /\ DOMAIN f = N \ {n}
          /\ AbsorbFields(h, f, b, n)
      BY <3>1, <3>2, AbsorbWellFormed
    <3>4. Cardinality(FreePairs(f)) <= Cardinality(FreePairs(h)) - 1
      BY <3>1, <3>2, AbsorbPairs
    <3> HIDE DEF f
    <3>5. f[b].prev = p /\ \A x \in DOMAIN f : f[x].used = h[x].used
      BY <3>1, <3>3 DEF AbsorbFields
    <3> QED
      BY <2>1, <3>3, <3>4, <3>5
  <2>2. CASE ~IsFree(h, n)
    BY <1>4, <2>2 DEF MergeNext
  <2> QED
    BY <2>1, <2>2
<1> HIDE DEF f
<1>6. b \in DOMAIN f /\ f[b].used = 0
  BY <1>2, <1>5 DEF IsFree
<1>7. IsFree(f, p) <=> IsFree(h, p)
  BY <1>3, <1>5 DEF IsFree
<1>8. Cardinality(FreePairs(f)) \in Nat
  BY <1>5, PairsFinite
<1>9. Cardinality(FreePairs(g))
        <= Cardinality(FreePairs(f)) - (IF IsFree(h, p) THEN 1 ELSE 0)
  <2>1. CASE IsFree(h, p)
    <3>1. p \in DOMAIN f /\ f[p].next = b /\ f[p].used = 0
      BY <1>3, <1>5, <1>6, <1>7, <2>1
      DEF IsFree, Tiled, NextInvertsPrev, HeadersOK, HeaderType
    <3>2. g = Absorb(f, p, b)
      BY <1>5, <1>7, <2>1 DEF MergePrev
    <3>3. HeadersOK(f) /\ Tiled(f, end) /\ b \in DOMAIN f /\ f[b].used = 0
      BY <1>5, <1>6
    <3> HIDE DEF g, p
    <3>4. Cardinality(FreePairs(g)) <= Cardinality(FreePairs(f)) - 1
      BY <3>1, <3>2, <3>3, AbsorbPairs
    <3> QED
      BY <2>1, <3>4
  <2>2. CASE ~IsFree(h, p)
    BY <1>5, <1>7, <1>8, <2>2 DEF MergePrev
  <2> QED
    BY <2>1, <2>2
<1>10. IsFiniteSet(FreePairs(g)) /\ Cardinality(FreePairs(g)) \in Nat
  <2> DEFINE m == heap_merge_adjacent_blocks(h, b)
  <2>1. HeadersOK(m)
    BY MergeWellFormed
  <2>2. m = g
    BY DEF heap_merge_adjacent_blocks, f
  <2> HIDE DEF m, g
  <2>3. HeadersOK(g)
    BY <2>1, <2>2
  <2> QED
    BY <2>3, PairsFinite
<1>11. heap_merge_adjacent_blocks(h, b) = g
  BY DEF heap_merge_adjacent_blocks, f, g
<1> HIDE DEF g
<1> QED
  BY <1>4, <1>5, <1>8, <1>9, <1>10, <1>11

\* Marking a block free makes one pair with each free neighbour: as many as the
\* merge then ends.
LEMMA KmfreeMarkedPairs ==
  ASSUME IInv, NEW c \in Clients, KmfreeMarked(c)
  PROVE  Cardinality(FreePairs(hdr')) <= Cardinality(FreePairs(hdr))
<1> DEFINE b == live[c].ptr
           h == [hdr EXCEPT ![b].used = 0]
           n == hdr[b].next
           p == hdr[b].prev
<1>1. /\ b \in DOMAIN hdr /\ hdr[b].used = 1
      /\ hdr' = heap_merge_adjacent_blocks(h, b)
  BY DEF KmfreeMarked, Marked
<1>2. HeadersOK(hdr) /\ Tiled(hdr, end_address) /\ end_address \in Nat
  BY DEF IInv, TypeOK, HeapTiled
<1>3. /\ DOMAIN h = DOMAIN hdr
      /\ \A x \in DOMAIN hdr : /\ h[x].size = hdr[x].size
                               /\ h[x].next = hdr[x].next /\ h[x].prev = hdr[x].prev
                               /\ h[x].used = IF x = b THEN 0 ELSE hdr[x].used
      /\ HeadersOK(h)
  BY <1>1, <1>2 DEF HeadersOK, HeaderType
<1> HIDE DEF h
<1>4. \A x \in DOMAIN hdr : /\ x \in Nat /\ x > 0
                            /\ hdr[x].size \in Nat /\ hdr[x].size > 0
                            /\ hdr[x].next \in DOMAIN hdr \cup {NULL}
                            /\ hdr[x].prev \in DOMAIN hdr \cup {NULL}
  BY <1>2, BlockFacts DEF NULL, Tiled, EndsAtEnd
<1>5. Tiled(h, end_address)
  <2>1. StartsAtStart(h) /\ EndsAtEnd(h, end_address)
    BY <1>2, <1>3 DEF Tiled, StartsAtStart, EndsAtEnd, EndOf
  <2>2. NextIsAdjacent(h, end_address)
    BY <1>2, <1>3 DEF Tiled, NextIsAdjacent, EndOf
  <2>3. PrevInvertsNext(h) /\ NextInvertsPrev(h)
    BY <1>2, <1>3, <1>4 DEF Tiled, PrevInvertsNext, NextInvertsPrev
  <2>4. NoOverlap(h)
    BY <1>2, <1>3 DEF Tiled, NoOverlap, EndOf
  <2> QED
    BY <2>1, <2>2, <2>3, <2>4 DEF Tiled
<1>6. \A x \in DOMAIN hdr : hdr[x].next = b => x = p
  BY <1>1, <1>2, <1>4 DEF Tiled, PrevInvertsNext, NULL
<1>7. n # b /\ p # b
  <2>1. n # b
    BY <1>1, <1>2, <1>4 DEF Tiled, NextIsAdjacent, EndOf, NULL
  <2> QED
    BY <1>1, <1>2, <1>4, <2>1 DEF Tiled, NextInvertsPrev, NULL
<1>8. /\ h[b].next = n /\ h[b].prev = p /\ h[b].used = 0
      /\ IsFree(h, n) <=> IsFree(hdr, n)
      /\ IsFree(h, p) <=> IsFree(hdr, p)
  BY <1>1, <1>3, <1>4, <1>7 DEF IsFree
<1>9. \A x \in FreePairs(h) : \/ x \in FreePairs(hdr)
                              \/ x = b /\ IsFree(h, n)
                              \/ x = p /\ IsFree(h, p)
  <2> SUFFICES ASSUME NEW x \in FreePairs(h), x # b, x \notin FreePairs(hdr)
               PROVE  x = p /\ IsFree(h, p)
    BY <1>8 DEF FreePairs
  <2>1. /\ x \in DOMAIN hdr /\ hdr[x].used = 0 /\ h[x].used = 0
        /\ h[x].next = hdr[x].next /\ IsFree(h, hdr[x].next)
    BY <1>3 DEF FreePairs
  <2>2. ~IsFree(hdr, hdr[x].next)
    BY <2>1 DEF FreePairs
  <2>3. hdr[x].next = b
    BY <1>3, <1>4, <2>1, <2>2 DEF IsFree
  <2> QED
    BY <1>4, <1>6, <2>1, <2>3 DEF IsFree, NULL
<1> DEFINE A == IF IsFree(h, n) THEN FreePairs(hdr) \cup {b} ELSE FreePairs(hdr)
<1>10. /\ IsFiniteSet(FreePairs(hdr)) /\ Cardinality(FreePairs(hdr)) \in Nat
       /\ IsFiniteSet(FreePairs(h)) /\ Cardinality(FreePairs(h)) \in Nat
  BY <1>2, <1>3, PairsFinite
<1>11. /\ IsFiniteSet(A) /\ Cardinality(A) \in Nat
       /\ Cardinality(A) <= Cardinality(FreePairs(hdr)) + (IF IsFree(h, n) THEN 1 ELSE 0)
  <2>1. CASE IsFree(h, n)
    <3>1. IsFiniteSet(FreePairs(hdr) \cup {b})
          /\ Cardinality(FreePairs(hdr) \cup {b}) <= Cardinality(FreePairs(hdr)) + 1
      BY <1>10, OneMore
    <3> QED
      BY <2>1, <3>1, FS_CardinalityType
  <2>2. CASE ~IsFree(h, n)
    BY <1>10, <2>2
  <2> QED
    BY <2>1, <2>2
<1>12. Cardinality(FreePairs(h)) <= Cardinality(A) + (IF IsFree(h, p) THEN 1 ELSE 0)
  <2>1. CASE IsFree(h, p)
    <3>1. FreePairs(h) \subseteq A \cup {p}
      BY <1>9
    <3> HIDE DEF A
    <3>2. Cardinality(FreePairs(h)) <= Cardinality(A) + 1
      BY <1>11, <3>1, OneMore
    <3> QED
      BY <2>1, <3>2
  <2>2. CASE ~IsFree(h, p)
    <3>1. FreePairs(h) \subseteq A
      BY <1>9, <2>2
    <3> HIDE DEF A
    <3>2. Cardinality(FreePairs(h)) <= Cardinality(A)
      BY <1>11, <3>1, FS_Subset
    <3> QED
      BY <1>11, <2>2, <3>2
  <2> QED
    BY <2>1, <2>2
<1>13. Cardinality(FreePairs(heap_merge_adjacent_blocks(h, b)))
         <= Cardinality(FreePairs(h)) - ((IF IsFree(h, h[b].next) THEN 1 ELSE 0)
                                           + (IF IsFree(h, h[b].prev) THEN 1 ELSE 0))
  <2>1. b \in DOMAIN h /\ h[b].used = 0
    BY <1>1, <1>3
  <2> HIDE DEF b
  <2> QED
    BY <1>2, <1>3, <1>5, <2>1, MergePairs
<1>14. HeadersOK(hdr')
  <2>1. b \in DOMAIN h /\ h[b].used = 0
    BY <1>1, <1>3
  <2> HIDE DEF b
  <2>2. HeadersOK(heap_merge_adjacent_blocks(h, b))
    BY <1>2, <1>3, <1>5, <2>1, MergeWellFormed
  <2> QED
    BY <1>1, <2>2
<1>15. Cardinality(FreePairs(hdr')) \in Nat
  BY <1>14, PairsFinite
<1> HIDE DEF A
<1> QED
  BY <1>1, <1>8, <1>10, <1>11, <1>12, <1>13, <1>15

\* An expansion moves the end of the heap.
LEMMA ExpansionMovesEnd ==
  ASSUME IInv, NEW size \in Sizes, end_address' = end_address + ExpandSize(size)
  PROVE  end_address' # end_address
<1>1. size \in Nat /\ BlockMin \in Nat /\ BlockMin > 0
  BY HeapAssumption DEF HeapAssumption
<1>2. ExpandSize(size) \in Nat /\ ExpandSize(size) > 0
  BY <1>1 DEF ExpandSize, HEAP_ALIGN
<1> QED
  BY <1>2, EndBeyondBlocks

\* kmfree, and kmalloc on a heap it need not expand, never leave more pairs of
\* adjacent free blocks than they found: only an expansion does.
THEOREM HeapFragments == Spec => FragmentsOnlyByGrowth
<1> DEFINE NoMore == Cardinality(FreePairs(hdr')) > Cardinality(FreePairs(hdr))
                       => end_address' # end_address
<1>1. ASSUME IInv PROVE /\ HeadersOK(hdr) /\ Tiled(hdr, end_address) /\ end_address \in Nat
                        /\ Cardinality(FreePairs(hdr)) \in Nat
  BY <1>1, PairsFinite DEF IInv, TypeOK, HeapTiled
<1>2. ASSUME IInv, hdr' = hdr PROVE NoMore
  BY <1>1, <1>2
<1>3. ASSUME IInv, NEW c \in Clients, NEW size \in Sizes, KmallocFit(c, size) PROVE NoMore
  <2> DEFINE b == heap_find_free_block(hdr, size)
  <2>1. size \in Nat /\ b # NULL /\ hdr' = heap_split_block(hdr, b, size)
    BY <1>3, HeapAssumption DEF HeapAssumption, KmallocFit, Take
  <2>2. b \in DOMAIN hdr /\ hdr[b].used = 0
    BY <1>1, <1>3, <2>1, FindFindsFit DEF Fits
  <2> HIDE DEF b
  <2>3. Cardinality(FreePairs(heap_split_block(hdr, b, size))) <= Cardinality(FreePairs(hdr))
    BY <1>1, <1>3, <2>1, <2>2, SplitPairs
  <2>4. IInv'
    BY <1>3, KmallocFitPreserves
  <2>5. Cardinality(FreePairs(hdr')) \in Nat
    BY <2>4, PairsFinite DEF IInv, TypeOK
  <2> QED
    BY <1>1, <1>3, <2>1, <2>3, <2>5
<1>4. ASSUME IInv, NEW c \in Clients, NEW size \in Sizes, KmallocExpand(c, size) PROVE NoMore
  BY <1>4, ExpansionMovesEnd DEF KmallocExpand
<1>5. ASSUME IInv, NEW c \in Clients, NEW size \in Sizes, KmallocGrowsAndFails(c, size)
      PROVE  NoMore
  BY <1>5, ExpansionMovesEnd DEF KmallocGrowsAndFails
<1>6. ASSUME IInv, NEW c \in Clients, KmfreeMarked(c) PROVE NoMore
  <2>1. IInv'
    BY <1>6, KmfreeMarkedPreserves
  <2>2. Cardinality(FreePairs(hdr')) \in Nat
    BY <2>1, PairsFinite DEF IInv, TypeOK
  <2>3. Cardinality(FreePairs(hdr')) <= Cardinality(FreePairs(hdr))
    BY <1>6, KmfreeMarkedPairs
  <2> QED
    BY <1>1, <1>6, <2>2, <2>3
<1>7. ASSUME IInv, [Next]_vars PROVE NoMore
  <2>1. ASSUME NEW c \in Clients, NEW size \in Sizes, KmallocOutOfMemory(c, size)
        PROVE  hdr' = hdr
    BY <2>1 DEF KmallocOutOfMemory, vars
  <2>2. ASSUME NEW c \in Clients, KmfreeRejected(c) \/ WritePayload(c) PROVE hdr' = hdr
    BY <2>2 DEF KmfreeRejected, WritePayload
  <2>3. UNCHANGED vars => hdr' = hdr
    BY DEF vars
  <2> HIDE DEF NoMore
  <2> QED
    BY <1>2, <1>3, <1>4, <1>5, <1>6, <1>7, <2>1, <2>2, <2>3 DEF Next, kmalloc, kmfree
<1>8. IInv /\ [Next]_vars => [NoMore]_vars
  BY <1>7
<1> QED
  BY <1>8, SpecIInv, PTL DEF Spec, FragmentsOnlyByGrowth

-----------------------------------------------------------------------------
(* Sums: what SumFunction computes for a function on a finite set. *)

AnyOf(s) == CHOOSE x \in s : TRUE
UpTo(S, n) == {s \in SUBSET S : Cardinality(s) <= n}

\* The fold of SumFunction, over the sets of at most n elements of S.
Summing(f, S, n, g) ==
  [s \in UpTo(S, n) |-> IF s = {} THEN 0 ELSE f[AnyOf(s)] + g[s \ {AnyOf(s)}]]

LEMMA SumFunctionIs ==
  ASSUME NEW f, NEW S, DOMAIN f = S, IsFiniteSet(S)
  PROVE  SumFunction(f) = (CHOOSE g : g = Summing(f, S, Cardinality(S), g))[S]
<1>1. UpTo(S, Cardinality(S)) = SUBSET S
  BY FS_Subset DEF UpTo
<1> QED
  BY <1>1 DEF SumFunction, SumFunctionOnSet, FoldFunctionOnSet, MapThenFoldSet, Summing, AnyOf

LEMMA Shrinks ==
  ASSUME NEW S, IsFiniteSet(S), NEW s \in SUBSET S, NEW x \in s
  PROVE  /\ Cardinality(s) \in Nat /\ Cardinality(s \ {x}) \in Nat
         /\ Cardinality(s \ {x}) = Cardinality(s) - 1
<1>1. IsFiniteSet(s)
  BY FS_Subset
<1>2. Cardinality(s) \in Nat
  BY <1>1, FS_CardinalityType
<1>3. IsFiniteSet(s \ {x}) /\ Cardinality(s \ {x}) = Cardinality(s) - 1
  BY <1>1, FS_RemoveElement
<1>4. Cardinality(s \ {x}) \in Nat
  BY <1>3, FS_CardinalityType
<1> QED
  BY <1>2, <1>3, <1>4

LEMMA AnyIsMember ==
  ASSUME NEW s, s # {}
  PROVE  AnyOf(s) \in s
BY DEF AnyOf

\* A table for n - 1 elements extends to one for n.
LEMMA SummingExtends ==
  ASSUME NEW S, IsFiniteSet(S), NEW f, NEW n \in Nat, n > 0,
         NEW g, g = Summing(f, S, n - 1, g)
  PROVE  \E h : h = Summing(f, S, n, h)
<1>1. PICK h : h = [s \in UpTo(S, n) |-> IF s = {} THEN 0 ELSE f[AnyOf(s)] + g[s \ {AnyOf(s)}]]
  OBVIOUS
<1>2. ASSUME NEW s \in UpTo(S, n), s # {}
      PROVE  h[s \ {AnyOf(s)}] = g[s \ {AnyOf(s)}]
  <2>1. PICK t : t = s \ {AnyOf(s)}
    OBVIOUS
  <2>2. /\ AnyOf(s) \in s /\ s \in SUBSET S /\ Cardinality(s) <= n
        /\ Cardinality(s) \in Nat /\ Cardinality(t) \in Nat /\ Cardinality(t) = Cardinality(s) - 1
    BY <1>2, <2>1, AnyIsMember, Shrinks DEF UpTo
  <2>3. t \in SUBSET S
    BY <2>1, <2>2
  <2>4. Cardinality(t) <= n - 1 /\ Cardinality(t) <= n
    BY <2>2
  <2>5. t \in UpTo(S, n) /\ t \in UpTo(S, n - 1)
    BY <2>3, <2>4 DEF UpTo
  <2>6. g[t] = IF t = {} THEN 0 ELSE f[AnyOf(t)] + g[t \ {AnyOf(t)}]
    BY <2>5 DEF Summing
  <2>7. h[t] = IF t = {} THEN 0 ELSE f[AnyOf(t)] + g[t \ {AnyOf(t)}]
    BY <1>1, <2>5
  <2> QED
    BY <2>1, <2>6, <2>7
<1>3. \A s \in UpTo(S, n) : h[s] = IF s = {} THEN 0 ELSE f[AnyOf(s)] + h[s \ {AnyOf(s)}]
  BY <1>1, <1>2
<1>4. h = [s \in UpTo(S, n) |-> h[s]]
  BY <1>1
<1> QED
  BY <1>3, <1>4, Zenon DEF Summing

LEMMA SummingExists ==
  ASSUME NEW S, IsFiniteSet(S), NEW f, NEW m \in Nat
  PROVE  \E g : g = Summing(f, S, m, g)
<1> DEFINE Without == {n \in Nat : ~ \E g : g = Summing(f, S, n, g)}
<1> SUFFICES ASSUME Without # {} PROVE FALSE
  OBVIOUS
<1>1. PICK n \in Without : \A l \in Without : n <= l
  <2>1. Without \in SUBSET Nat
    OBVIOUS
  <2> HIDE DEF Without
  <2> QED
    BY <2>1, MinOfNaturals
<1>2. n \in Nat /\ ~ \E g : g = Summing(f, S, n, g)
  OBVIOUS
<1>3. n # 0
  <2> SUFFICES ASSUME n = 0 PROVE FALSE
    OBVIOUS
  <2>1. PICK g : g = [s \in UpTo(S, 0) |-> 0]
    OBVIOUS
  <2>2. ASSUME NEW s \in UpTo(S, 0) PROVE s = {}
    <3>1. IsFiniteSet(s) /\ Cardinality(s) <= 0
      BY FS_Subset DEF UpTo
    <3>2. Cardinality(s) \in Nat
      BY <3>1, FS_CardinalityType
    <3>3. Cardinality(s) = 0
      BY <3>1, <3>2
    <3> QED
      BY <3>1, <3>3, FS_EmptySet
  <2>3. g = Summing(f, S, 0, g)
    BY <2>1, <2>2, Zenon DEF Summing
  <2> QED
    BY <1>2, <2>3
<1>4. n - 1 \in Nat /\ n > 0
  BY <1>2, <1>3
<1>5. n - 1 \notin Without
  <2> HIDE DEF Without
  <2> QED
    BY <1>1, <1>2, <1>4
<1>6. \E g : g = Summing(f, S, n - 1, g)
  BY <1>4, <1>5
<1> QED
  BY <1>2, <1>4, <1>6, SummingExtends

\* g has the sums of f over the subsets of S: whichever element is split off first.
Sums(g, f, S) ==
  /\ g[{}] = 0
  /\ \A s \in SUBSET S : g[s] \in Nat
  /\ \A s \in SUBSET S : \A x \in s : g[s] = f[x] + g[s \ {x}]

LEMMA SumsExist ==
  ASSUME NEW S, IsFiniteSet(S), NEW f \in [S -> Nat]
  PROVE  \E g : Sums(g, f, S) /\ SumFunction(f) = g[S]
<1>1. PICK m : m = Cardinality(S)
  OBVIOUS
<1>2. m \in Nat
  BY <1>1, FS_CardinalityType
<1>3. PICK g : g = (CHOOSE h : h = Summing(f, S, m, h))
  OBVIOUS
<1>4. g = Summing(f, S, m, g)
  <2>1. \E h : h = Summing(f, S, m, h)
    BY <1>2, SummingExists
  <2> QED
    BY <1>3, <2>1
<1>5. SumFunction(f) = g[S]
  <2>1. DOMAIN f = S
    OBVIOUS
  <2> QED
    BY <1>1, <1>3, <2>1, SumFunctionIs
<1>6. UpTo(S, m) = SUBSET S
  BY <1>1, FS_Subset DEF UpTo
<1>7. \A s \in SUBSET S : g[s] = IF s = {} THEN 0 ELSE f[AnyOf(s)] + g[s \ {AnyOf(s)}]
  BY <1>4, <1>6 DEF Summing
<1>8. g[{}] = 0
  BY <1>7
<1>9. \A s \in SUBSET S : g[s] \in Nat /\ \A x \in s : g[s] = f[x] + g[s \ {x}]
  <2> DEFINE Fine(s) == g[s] \in Nat /\ \A x \in s : g[s] = f[x] + g[s \ {x}]
  <2> DEFINE Bad == {n \in Nat : \E s \in SUBSET S : Cardinality(s) = n /\ ~Fine(s)}
  <2>1. ASSUME NEW s \in SUBSET S, NEW k \in Nat, k = Cardinality(s),
               \A t \in SUBSET S : Cardinality(t) < k => Fine(t)
        PROVE  Fine(s)
    <3>1. CASE s = {}
      BY <1>8, <3>1
    <3>2. CASE s # {}
      <4>1. PICK c : c = AnyOf(s)
        OBVIOUS
      <4>2. c \in s
        BY <3>2, <4>1, AnyIsMember
      <4>3. g[s] = f[c] + g[s \ {c}]
        BY <1>7, <3>2, <4>1
      <4>4. \A x \in s : /\ s \ {x} \in SUBSET S /\ Cardinality(s \ {x}) < k
        <5> TAKE x \in s
        <5>1. Cardinality(s \ {x}) = Cardinality(s) - 1 /\ Cardinality(s \ {x}) \in Nat
          BY Shrinks
        <5> QED
          BY <2>1, <5>1
      <4>5. \A x \in s : Fine(s \ {x})
        <5> HIDE DEF Fine
        <5> QED
          BY <2>1, <4>4
      <4>6. f[c] \in Nat /\ g[s \ {c}] \in Nat
        BY <4>2, <4>5
      <4>7. g[s] \in Nat
        BY <4>3, <4>6
      <4>8. ASSUME NEW x \in s PROVE g[s] = f[x] + g[s \ {x}]
        <5>1. CASE x = c
          BY <4>3, <5>1
        <5>2. CASE x # c
          <6>1. g[s \ {c}] = f[x] + g[(s \ {c}) \ {x}]
            BY <4>2, <4>5, <5>2
          <6>2. g[s \ {x}] = f[c] + g[(s \ {x}) \ {c}]
            BY <4>2, <4>5, <5>2
          <6>3. PICK u : u = g[(s \ {c}) \ {x}]
            OBVIOUS
          <6>4. (s \ {c}) \ {x} = (s \ {x}) \ {c}
            OBVIOUS
          <6>5. u \in Nat
            <7>1. (s \ {c}) \ {x} \in SUBSET S /\ Cardinality((s \ {c}) \ {x}) < k
              <8>1. Cardinality((s \ {c}) \ {x}) = Cardinality(s \ {c}) - 1 /\ Cardinality(s \ {c}) \in Nat
                <9>1. s \ {c} \in SUBSET S /\ x \in s \ {c}
                  BY <5>2
                <9> QED
                  BY <9>1, Shrinks
              <8> QED
                BY <4>2, <4>4, <8>1
            <7>2. Fine((s \ {c}) \ {x})
              <8> HIDE DEF Fine
              <8> QED
                BY <2>1, <7>1
            <7> QED
              BY <6>3, <7>2
          <6>6. g[s] = f[c] + (f[x] + u) /\ g[s \ {x}] = f[c] + u
            BY <4>3, <6>1, <6>2, <6>3, <6>4
          <6>7. f[x] \in Nat
            OBVIOUS
          <6> QED
            BY <4>6, <6>5, <6>6, <6>7
        <5> QED
          BY <5>1, <5>2
      <4> QED
        BY <4>7, <4>8
    <3> QED
      BY <3>1, <3>2
  <2>2. Bad = {}
    <3> SUFFICES ASSUME Bad # {} PROVE FALSE
      OBVIOUS
    <3>1. PICK k \in Bad : \A l \in Bad : k <= l
      <4>1. Bad \in SUBSET Nat
        OBVIOUS
      <4> HIDE DEF Bad
      <4> QED
        BY <4>1, MinOfNaturals
    <3>2. k \in Nat
      OBVIOUS
    <3>3. PICK s \in SUBSET S : Cardinality(s) = k /\ ~Fine(s)
      OBVIOUS
    <3>4. ASSUME NEW t \in SUBSET S, Cardinality(t) < k PROVE Fine(t)
      <4>1. Cardinality(t) \in Nat
        BY FS_Subset, FS_CardinalityType
      <4>2. Cardinality(t) \notin Bad
        <5> HIDE DEF Bad
        <5> QED
          BY <3>1, <3>2, <3>4, <4>1
      <4> HIDE DEF Fine
      <4> QED
        BY <4>1, <4>2
    <3> HIDE DEF Fine
    <3> QED
      BY <2>1, <3>2, <3>3, <3>4
  <2>3. ASSUME NEW s \in SUBSET S PROVE Fine(s)
    <3>1. Cardinality(s) \in Nat
      BY FS_Subset, FS_CardinalityType
    <3> HIDE DEF Fine
    <3> QED
      BY <2>2, <3>1
  <2> QED
    BY <2>3
<1>10. Sums(g, f, S)
  BY <1>8, <1>9 DEF Sums
<1> QED
  BY <1>5, <1>10

-----------------------------------------------------------------------------
(* The walk along the next pointers *)

\* The equation of current, for the first m steps.
Walking(m, w) ==
  [k \in 0 .. m |-> IF k = 0 THEN Start
                    ELSE LET before == w[k - 1] IN IF before = NULL THEN NULL ELSE hdr[before].next]

LEMMA WalkingExists ==
  ASSUME NEW m \in Nat
  PROVE  \E w : w = Walking(m, w)
<1> DEFINE Without == {n \in Nat : ~ \E w : w = Walking(n, w)}
<1> SUFFICES ASSUME Without # {} PROVE FALSE
  OBVIOUS
<1>1. PICK n \in Without : \A l \in Without : n <= l
  <2>1. Without \in SUBSET Nat
    OBVIOUS
  <2> HIDE DEF Without
  <2> QED
    BY <2>1, MinOfNaturals
<1>2. n \in Nat /\ ~ \E w : w = Walking(n, w)
  OBVIOUS
<1>3. n # 0
  <2> SUFFICES ASSUME n = 0 PROVE FALSE
    OBVIOUS
  <2>1. PICK w : w = [k \in 0 .. 0 |-> Start]
    OBVIOUS
  <2>2. \A k \in 0 .. 0 : k = 0
    OBVIOUS
  <2>3. w = Walking(0, w)
    BY <2>1, <2>2, Zenon DEF Walking
  <2> QED
    BY <1>2, <2>3
<1>4. n - 1 \in Nat /\ n > 0
  BY <1>2, <1>3
<1>5. n - 1 \notin Without
  <2> HIDE DEF Without
  <2> QED
    BY <1>1, <1>2, <1>4
<1>6. PICK v : v = Walking(n - 1, v)
  BY <1>4, <1>5
<1>7. PICK w : w = [k \in 0 .. n |-> IF k = 0 THEN Start
                                    ELSE IF v[k - 1] = NULL THEN NULL ELSE hdr[v[k - 1]].next]
  OBVIOUS
<1>8. ASSUME NEW k \in 0 .. n, k # 0 PROVE w[k - 1] = v[k - 1]
  <2>1. PICK j : j = k - 1
    OBVIOUS
  <2>2. j \in 0 .. n /\ j \in 0 .. n - 1
    BY <1>2, <1>8, <2>1
  <2>3. w[j] = IF j = 0 THEN Start ELSE IF v[j - 1] = NULL THEN NULL ELSE hdr[v[j - 1]].next
    BY <1>7, <2>2
  <2>4. v[j] = IF j = 0 THEN Start ELSE IF v[j - 1] = NULL THEN NULL ELSE hdr[v[j - 1]].next
    BY <1>6, <2>2 DEF Walking
  <2> QED
    BY <2>1, <2>3, <2>4, Zenon
<1>9. \A k \in 0 .. n : w[k] = IF k = 0 THEN Start
                               ELSE LET before == w[k - 1] IN IF before = NULL THEN NULL ELSE hdr[before].next
  BY <1>7, <1>8
<1>10. w = [k \in 0 .. n |-> w[k]]
  BY <1>7
<1>11. w = Walking(n, w)
  BY <1>9, <1>10, Zenon DEF Walking
<1> QED
  BY <1>2, <1>11

LEMMA CurrentIs ==
  ASSUME NEW n \in Nat, n = Cardinality(DOMAIN hdr)
  PROVE  /\ DOMAIN current = 0 .. n
         /\ current[0] = Start
         /\ \A k \in 1 .. n : current[k] = IF current[k - 1] = NULL THEN NULL ELSE hdr[current[k - 1]].next
<1>1. PICK w : w = current
  OBVIOUS
<1>2. w = (CHOOSE v : v = Walking(n, v))
  BY <1>1 DEF current, Walking
<1>3. w = Walking(n, w)
  <2>1. \E v : v = Walking(n, v)
    BY WalkingExists
  <2> QED
    BY <1>2, <2>1
<1>4. DOMAIN w = 0 .. n /\ w[0] = Start
  BY <1>3 DEF Walking
<1>5. ASSUME NEW k \in 1 .. n
      PROVE  w[k] = IF w[k - 1] = NULL THEN NULL ELSE hdr[w[k - 1]].next
  <2>1. k \in 0 .. n /\ k # 0
    OBVIOUS
  <2> QED
    BY <1>3, <2>1 DEF Walking
<1> QED
  BY <1>1, <1>4, <1>5, Zenon

\* Where the next pointer of a block leads in a tiled list.
LEMMA NextLeads ==
  ASSUME TypeOK, HeapTiled, NEW b \in DOMAIN hdr
  PROVE  /\ b \in Nat /\ b # NULL /\ hdr[b].size \in Nat /\ EndOf(hdr, b) \in Nat
         /\ b < EndOf(hdr, b) /\ EndOf(hdr, b) <= end_address
         /\ hdr[b].next # NULL => hdr[b].next \in DOMAIN hdr /\ hdr[b].next = EndOf(hdr, b)
         /\ hdr[b].next = NULL => EndOf(hdr, b) = end_address
<1>1. b \in Nat /\ b # NULL /\ hdr[b] \in HeaderType(DOMAIN hdr)
  BY DEF TypeOK, HeadersOK
<1>2. hdr[b].size \in Nat /\ hdr[b].next \in DOMAIN hdr \cup {NULL}
  BY <1>1 DEF HeaderType
<1>3. hdr[b].size > 0 /\ EndOf(hdr, b) <= end_address
  BY DEF HeapTiled, Tiled, EndsAtEnd
<1>4. hdr[b].next = IF EndOf(hdr, b) = end_address THEN NULL ELSE EndOf(hdr, b)
  BY DEF HeapTiled, Tiled, NextIsAdjacent
<1>5. EndOf(hdr, b) \in Nat /\ b < EndOf(hdr, b)
  BY <1>1, <1>2, <1>3 DEF EndOf
<1> QED
  BY <1>1, <1>2, <1>3, <1>4, <1>5 DEF NULL

\* The first n steps visit the n blocks one by one, from the start to the end.
Walked(n) ==
  /\ n \in Nat /\ n > 0 /\ n = Cardinality(DOMAIN hdr) /\ Steps = 0 .. n - 1
  /\ current[0] = Start
  /\ \A k \in 0 .. n - 1 : current[k] \in DOMAIN hdr
  /\ \A k \in 1 .. n - 1 : current[k] = EndOf(hdr, current[k - 1])
  /\ \A j, k \in 0 .. n - 1 : j < k => current[j] < current[k]
  /\ hdr[current[n - 1]].next = NULL /\ EndOf(hdr, current[n - 1]) = end_address
  /\ \A b \in DOMAIN hdr : \E k \in 0 .. n - 1 : current[k] = b

\* A sequence of numbers that rises at each step rises over any distance.
LEMMA Ascends ==
  ASSUME NEW n \in Nat, NEW w, \A k \in 0 .. n : w[k] \in Nat, \A k \in 1 .. n : w[k - 1] < w[k]
  PROVE  \A j, k \in 0 .. n : j < k => w[j] < w[k]
<1> SUFFICES ASSUME NEW j \in 0 .. n PROVE \A k \in 0 .. n : j < k => w[j] < w[k]
  OBVIOUS
<1> DEFINE Off == {k \in 0 .. n : j < k /\ ~(w[j] < w[k])}
<1> SUFFICES ASSUME Off # {} PROVE FALSE
  OBVIOUS
<1>1. PICK k \in Off : \A l \in Off : k <= l
  <2>1. Off \in SUBSET Nat
    OBVIOUS
  <2> HIDE DEF Off
  <2> QED
    BY <2>1, MinOfNaturals
<1>2. k \in 0 .. n /\ j < k /\ ~(w[j] < w[k])
  OBVIOUS
<1>3. k \in 1 .. n /\ k - 1 \in 0 .. n
  BY <1>2
<1>4. w[k - 1] < w[k] /\ w[k - 1] \in Nat /\ w[k] \in Nat /\ w[j] \in Nat
  BY <1>2, <1>3
<1>5. k - 1 \notin Off
  <2> HIDE DEF Off
  <2> QED
    BY <1>1, <1>3
<1>6. j = k - 1 \/ w[j] < w[k - 1]
  BY <1>2, <1>3, <1>5
<1> QED
  BY <1>2, <1>4, <1>6

LEMMA ListWalked ==
  ASSUME TypeOK, HeapTiled
  PROVE  Walked(Cardinality(DOMAIN hdr))
<1>1. PICK n : n = Cardinality(DOMAIN hdr)
  OBVIOUS
<1>2. n \in Nat /\ IsFiniteSet(DOMAIN hdr)
  BY <1>1, UsedOfFinite DEF TypeOK
<1>3. PICK w : w = current
  OBVIOUS
<1>4. /\ DOMAIN w = 0 .. n /\ w[0] = Start
      /\ \A k \in 1 .. n : w[k] = IF w[k - 1] = NULL THEN NULL ELSE hdr[w[k - 1]].next
  BY <1>1, <1>2, <1>3, CurrentIs, Zenon
<1>5. Start \in DOMAIN hdr
  BY DEF HeapTiled, Tiled, StartsAtStart
<1>6. \A k \in 0 .. n : w[k] \in DOMAIN hdr \cup {NULL}
  <2> DEFINE Off == {k \in 0 .. n : w[k] \notin DOMAIN hdr \cup {NULL}}
  <2> SUFFICES ASSUME Off # {} PROVE FALSE
    OBVIOUS
  <2>1. PICK k \in Off : \A l \in Off : k <= l
    <3>1. Off \in SUBSET Nat
      OBVIOUS
    <3> HIDE DEF Off
    <3> QED
      BY <3>1, MinOfNaturals
  <2>2. k \in 0 .. n /\ w[k] \notin DOMAIN hdr \cup {NULL}
    OBVIOUS
  <2>3. k # 0
    BY <1>4, <1>5, <2>2
  <2>4. k \in 1 .. n /\ k - 1 \in 0 .. n
    BY <1>2, <2>2, <2>3
  <2>5. k - 1 \notin Off
    <3> HIDE DEF Off
    <3> QED
      BY <2>1, <2>4
  <2>6. w[k - 1] \in DOMAIN hdr \cup {NULL}
    BY <2>4, <2>5
  <2>7. w[k] = IF w[k - 1] = NULL THEN NULL ELSE hdr[w[k - 1]].next
    BY <1>4, <2>4
  <2> QED
    BY <2>2, <2>6, <2>7, NextLeads
<1>7. ASSUME NEW k \in 1 .. n, w[k] # NULL
      PROVE  /\ w[k - 1] \in DOMAIN hdr /\ w[k] \in DOMAIN hdr
             /\ w[k] = EndOf(hdr, w[k - 1]) /\ w[k - 1] < w[k]
  <2>1. k \in 0 .. n /\ k - 1 \in 0 .. n
    BY <1>2
  <2>2. w[k - 1] # NULL /\ w[k] = hdr[w[k - 1]].next
    BY <1>4, <1>7
  <2>3. w[k - 1] \in DOMAIN hdr
    BY <1>6, <2>1, <2>2
  <2> QED
    BY <1>7, <2>2, <2>3, NextLeads
<1>8. \E k \in 0 .. n : w[k] = NULL
  <2> SUFFICES ASSUME \A k \in 0 .. n : w[k] # NULL PROVE FALSE
    OBVIOUS
  <2>1. \A k \in 1 .. n : w[k - 1] < w[k]
    BY <1>7
  <2>2. \A k \in 0 .. n : w[k] \in DOMAIN hdr
    BY <1>6
  <2>3. \A j, k \in 0 .. n : j < k => w[j] < w[k]
    BY <1>2, <2>1, <2>2, Ascends DEF TypeOK, HeadersOK
  <2>4. PICK v : v = [k \in 0 .. n |-> w[k]]
    OBVIOUS
  <2>5. v \in Injection(0 .. n, DOMAIN hdr)
    <3>1. v \in [0 .. n -> DOMAIN hdr]
      BY <2>2, <2>4
    <3>2. \A j, k \in 0 .. n : v[j] = v[k] => j = k
      <4> SUFFICES ASSUME NEW j \in 0 .. n, NEW k \in 0 .. n, j # k PROVE w[j] # w[k]
        BY <2>4
      <4>1. w[j] \in Nat /\ w[k] \in Nat
        BY <2>2 DEF TypeOK, HeadersOK
      <4>2. j < k \/ k < j
        OBVIOUS
      <4>3. w[j] < w[k] \/ w[k] < w[j]
        BY <2>3, <4>2
      <4> QED
        BY <4>1, <4>3
    <3> QED
      BY <3>1, <3>2 DEF Injection, IsInjective
  <2>6. Cardinality(0 .. n) <= n
    BY <1>1, <1>2, <2>5, FS_Injection
  <2>7. Cardinality(0 .. n) = n + 1
    BY <1>2, FS_Interval
  <2> QED
    BY <1>2, <2>6, <2>7
<1>9. PICK m \in {k \in 0 .. n : w[k] = NULL} : \A l \in {k \in 0 .. n : w[k] = NULL} : m <= l
  <2> DEFINE Left == {k \in 0 .. n : w[k] = NULL}
  <2>1. Left \in SUBSET Nat /\ Left # {}
    BY <1>8
  <2> HIDE DEF Left
  <2>2. \E k \in Left : \A l \in Left : k <= l
    BY <2>1, MinOfNaturals
  <2> QED
    BY <2>2 DEF Left
<1>10. m \in 1 .. n /\ w[m] = NULL
  <2>1. m \in 0 .. n /\ w[m] = NULL
    BY <1>9
  <2>2. Start # NULL
    BY HeapAssumption DEF HeapAssumption, NULL
  <2>3. m # 0
    BY <1>4, <2>1, <2>2
  <2> QED
    BY <1>2, <2>1, <2>3
<1>11. \A k \in 0 .. m - 1 : k \in 0 .. n /\ w[k] # NULL /\ w[k] \in DOMAIN hdr
  <2> TAKE k \in 0 .. m - 1
  <2>1. k \in 0 .. n /\ ~(m <= k)
    BY <1>2, <1>10
  <2>2. w[k] # NULL
    BY <1>9, <2>1
  <2> QED
    BY <1>6, <2>1, <2>2
<1>12. \A k \in 1 .. m - 1 : w[k] = EndOf(hdr, w[k - 1]) /\ w[k - 1] < w[k]
  <2> TAKE k \in 1 .. m - 1
  <2>1. k \in 1 .. n /\ k \in 0 .. m - 1
    BY <1>2, <1>10
  <2>2. w[k] # NULL
    BY <1>11, <2>1
  <2> QED
    BY <1>7, <2>1, <2>2
<1>13. \A j, k \in 0 .. m - 1 : j < k => w[j] < w[k]
  <2>1. m - 1 \in Nat
    BY <1>2, <1>10
  <2>2. \A k \in 0 .. m - 1 : w[k] \in Nat
    BY <1>11 DEF TypeOK, HeadersOK
  <2>3. PICK l : l = m - 1
    OBVIOUS
  <2> QED
    BY <1>12, <2>1, <2>2, <2>3, Ascends
<1>14. \A k \in m .. n : w[k] = NULL
  <2> DEFINE Back == {k \in m .. n : w[k] # NULL}
  <2> SUFFICES ASSUME Back # {} PROVE FALSE
    OBVIOUS
  <2>1. PICK k \in Back : \A l \in Back : k <= l
    <3>1. Back \in SUBSET Nat
      BY <1>10
    <3> HIDE DEF Back
    <3> QED
      BY <3>1, MinOfNaturals
  <2>2. k \in m .. n /\ w[k] # NULL
    OBVIOUS
  <2>3. k # m
    BY <1>10, <2>2
  <2>4. k - 1 \in m .. n /\ k \in 1 .. n
    BY <1>2, <1>10, <2>2, <2>3
  <2>5. k - 1 \notin Back
    <3> HIDE DEF Back
    <3> QED
      BY <2>1, <2>4
  <2>6. w[k - 1] = NULL
    BY <2>4, <2>5
  <2> QED
    BY <1>4, <2>2, <2>4, <2>6
<1>15. {k \in 0 .. n : w[k] # NULL} = 0 .. m - 1
  <2>1. \A k \in 0 .. n : k \in 0 .. m - 1 \/ k \in m .. n
    BY <1>2, <1>10
  <2>2. \A k \in 0 .. n : w[k] # NULL <=> k \in 0 .. m - 1
    BY <1>11, <1>14, <2>1
  <2>3. 0 .. m - 1 \subseteq 0 .. n
    BY <1>11
  <2> QED
    BY <2>2, <2>3
<1>16. PICK z : z = w[m - 1]
  OBVIOUS
<1>17. z \in DOMAIN hdr /\ hdr[z].next = NULL /\ EndOf(hdr, z) = end_address
  <2>1. m - 1 \in 0 .. m - 1
    BY <1>2, <1>10
  <2>2. z \in DOMAIN hdr /\ z # NULL
    BY <1>11, <1>16, <2>1
  <2>3. w[m] = hdr[z].next
    BY <1>4, <1>10, <1>16, <2>2
  <2> QED
    BY <1>10, <2>2, <2>3, NextLeads
<1>18. \A b \in DOMAIN hdr : \E k \in 0 .. m - 1 : w[k] = b
  <2> DEFINE Missed == {b \in DOMAIN hdr : \A k \in 0 .. m - 1 : w[k] # b}
  <2> SUFFICES ASSUME Missed # {} PROVE FALSE
    OBVIOUS
  <2>1. PICK b \in Missed : \A c \in Missed : b <= c
    <3>1. Missed \in SUBSET Nat
      BY DEF TypeOK, HeadersOK
    <3> HIDE DEF Missed
    <3> QED
      BY <3>1, MinOfNaturals
  <2>2. b \in DOMAIN hdr /\ \A k \in 0 .. m - 1 : w[k] # b
    OBVIOUS
  <2>3. b # Start
    <3>1. 0 \in 0 .. m - 1
      BY <1>2, <1>10
    <3> QED
      BY <1>4, <2>2, <3>1
  <2>4. PICK p : p = hdr[b].prev
    OBVIOUS
  <2>5. p # NULL
    BY <2>2, <2>3, <2>4 DEF HeapTiled, Tiled, StartsAtStart
  <2>6. p \in DOMAIN hdr
    BY <2>2, <2>4, <2>5 DEF TypeOK, HeadersOK, HeaderType
  <2>7. hdr[p].next = b
    BY <2>2, <2>4, <2>5 DEF HeapTiled, Tiled, NextInvertsPrev
  <2>8. b # NULL /\ p < b /\ p \in Nat /\ b \in Nat
    BY <2>2, <2>6, <2>7, NextLeads
  <2>9. p \notin Missed
    <3> HIDE DEF Missed
    <3> QED
      BY <2>1, <2>8
  <2>10. PICK k \in 0 .. m - 1 : w[k] = p
    BY <2>6, <2>9
  <2>11. k + 1 \in 1 .. n /\ k \in 0 .. n /\ (k + 1) - 1 = k
    BY <1>2, <1>10
  <2>12. w[k + 1] = b
    <3>1. PICK l : l = k + 1
      OBVIOUS
    <3>2. l \in 1 .. n /\ l - 1 = k
      BY <2>11, <3>1
    <3>3. w[l] = IF w[l - 1] = NULL THEN NULL ELSE hdr[w[l - 1]].next
      BY <1>4, <3>2
    <3>4. p # NULL
      BY <2>6, NextLeads
    <3> QED
      BY <2>7, <2>10, <3>1, <3>2, <3>3, <3>4
  <2>13. k + 1 \in 0 .. m - 1
    <3>1. w[k + 1] # NULL
      BY <2>8, <2>12
    <3>2. k + 1 \in 0 .. n
      BY <2>11
    <3> QED
      BY <1>15, <3>1, <3>2
  <2> QED
    BY <2>2, <2>12, <2>13
<1>19. m = n
  <2>1. PICK v : v = [k \in 0 .. m - 1 |-> w[k]]
    OBVIOUS
  <2>2. v \in [0 .. m - 1 -> DOMAIN hdr]
    BY <1>11, <2>1
  <2>3. \A j, k \in 0 .. m - 1 : v[j] = v[k] => j = k
    <3> SUFFICES ASSUME NEW j \in 0 .. m - 1, NEW k \in 0 .. m - 1, j # k PROVE w[j] # w[k]
      BY <2>1
    <3>1. w[j] \in Nat /\ w[k] \in Nat
      BY <1>11 DEF TypeOK, HeadersOK
    <3>2. j < k \/ k < j
      OBVIOUS
    <3>3. w[j] < w[k] \/ w[k] < w[j]
      BY <1>13, <3>2
    <3> QED
      BY <3>1, <3>3
  <2>4. \A b \in DOMAIN hdr : \E k \in 0 .. m - 1 : v[k] = b
    BY <1>18, <2>1
  <2>5. v \in Bijection(0 .. m - 1, DOMAIN hdr)
    BY <2>2, <2>3, <2>4 DEF Bijection, Injection, Surjection, IsInjective
  <2>6. m \in Nat /\ IsFiniteSet(0 .. m - 1) /\ Cardinality(0 .. m - 1) = m
    <3>1. m \in Nat /\ m > 0
      BY <1>2, <1>10
    <3>2. PICK l : l = m - 1
      OBVIOUS
    <3>3. l \in Int /\ 0 \in Int /\ ~(0 > l) /\ l - 0 + 1 = m
      BY <3>1, <3>2
    <3>4. IsFiniteSet(0 .. l) /\ Cardinality(0 .. l) = l - 0 + 1
      BY <3>3, FS_Interval
    <3> QED
      BY <3>1, <3>2, <3>3, <3>4
  <2>7. Cardinality(DOMAIN hdr) = Cardinality(0 .. m - 1)
    BY <2>5, <2>6, FS_Bijection DEF ExistsBijection
  <2> QED
    BY <1>1, <2>6, <2>7
<1>20. Steps = 0 .. m - 1
  BY <1>3, <1>4, <1>15, Zenon DEF Steps
<1>21. n > 0
  BY <1>2, <1>10
<1> QED
  BY <1>1, <1>2, <1>3, <1>4, <1>11, <1>12, <1>13, <1>16, <1>17, <1>18, <1>19, <1>20, <1>21 DEF Walked

\* The walk that stops at the first fit returns the lowest block that fits.
LEMMA WalkFindsLowest ==
  ASSUME TypeOK, NEW n, Walked(n), NEW size
  PROVE  WalkFind(size) = heap_find_free_block(hdr, size)
<1>1. PICK w : w = current
  OBVIOUS
<1>2. PICK at : at = {k \in Steps : Fits(hdr, w[k], size)}
  OBVIOUS
<1>3. PICK fits : fits = {b \in DOMAIN hdr : Fits(hdr, b, size)}
  OBVIOUS
<1>4. WalkFind(size) = IF at = {} THEN NULL ELSE w[Min(at)]
  BY <1>1, <1>2 DEF WalkFind
<1>5. heap_find_free_block(hdr, size) = IF fits = {} THEN NULL ELSE Min(fits)
  BY <1>3 DEF heap_find_free_block
<1>6. /\ n \in Nat /\ Steps = 0 .. n - 1
      /\ \A k \in 0 .. n - 1 : w[k] \in DOMAIN hdr
      /\ \A j, k \in 0 .. n - 1 : j < k => w[j] < w[k]
      /\ \A b \in DOMAIN hdr : \E k \in 0 .. n - 1 : w[k] = b
  BY <1>1 DEF Walked
<1>7. at \in SUBSET Nat /\ fits \in SUBSET Nat
  BY <1>2, <1>3, <1>6 DEF TypeOK, HeadersOK
<1>8. \A k \in at : w[k] \in fits
  BY <1>2, <1>3, <1>6
<1>9. \A b \in fits : \E k \in at : w[k] = b
  BY <1>2, <1>3, <1>6
<1>10. CASE at = {}
  BY <1>4, <1>5, <1>9, <1>10
<1>11. CASE at # {}
  <2>1. PICK k : k = Min(at)
    OBVIOUS
  <2>2. k \in at /\ \A l \in at : k <= l
    BY <1>7, <1>11, <2>1, MinOfNaturals
  <2>3. w[k] \in fits /\ fits # {}
    BY <1>8, <2>2
  <2>4. PICK b : b = Min(fits)
    OBVIOUS
  <2>5. b \in fits /\ \A c \in fits : b <= c
    BY <1>7, <2>3, <2>4, MinOfNaturals
  <2>6. PICK l \in at : w[l] = b
    BY <1>9, <2>5
  <2>7. k = l \/ w[k] < w[l]
    BY <1>2, <1>6, <2>2, <2>6
  <2>8. w[k] = b
    <3>1. w[k] \in Nat /\ b \in Nat /\ b <= w[k]
      BY <1>7, <2>3, <2>5
    <3> QED
      BY <2>6, <2>7, <3>1
  <2> QED
    BY <1>4, <1>5, <1>11, <2>1, <2>3, <2>4, <2>8
<1> QED
  BY <1>10, <1>11

\* Used bytes seen by the walk and free bytes of the blocks add up to the heap:
\* with each step both sides grow by the size of one block.
LEMMA SizesAddUp ==
  ASSUME TypeOK, HeapTiled, NEW n, Walked(n)
  PROVE  FreeSizeExact
<1>1. PICK w : w = current
  OBVIOUS
<1>2. /\ n \in Nat /\ n > 0 /\ Steps = 0 .. n - 1 /\ w[0] = Start
      /\ \A k \in 0 .. n - 1 : w[k] \in DOMAIN hdr
      /\ \A k \in 1 .. n - 1 : w[k] = EndOf(hdr, w[k - 1])
      /\ \A j, k \in 0 .. n - 1 : j < k => w[j] < w[k]
      /\ EndOf(hdr, w[n - 1]) = end_address
      /\ \A b \in DOMAIN hdr : \E k \in 0 .. n - 1 : w[k] = b
  BY <1>1 DEF Walked
<1>3. PICK used : used = [k \in Steps |-> IF hdr[w[k]].used = 1 THEN hdr[w[k]].size ELSE 0]
  OBVIOUS
<1>4. PICK Free : Free = DOMAIN hdr \ UsedNow
  OBVIOUS
<1>5. PICK free : free = [b \in Free |-> hdr[b].size]
  OBVIOUS
<1>6. \A b \in DOMAIN hdr : b \in Nat /\ hdr[b].size \in Nat /\ hdr[b].used \in {0, 1} /\ EndOf(hdr, b) = b + hdr[b].size
  BY DEF TypeOK, HeadersOK, HeaderType, EndOf
<1>7. \A b \in DOMAIN hdr : b \in Free <=> hdr[b].used # 1
  BY <1>4 DEF UsedNow, UsedOf
<1>8. IsFiniteSet(Steps) /\ used \in [Steps -> Nat]
  <2>1. IsFiniteSet(Steps)
    <3>1. PICK l : l = n - 1
      OBVIOUS
    <3>2. l \in Int /\ 0 \in Int
      BY <1>2, <3>1
    <3>3. IsFiniteSet(0 .. l)
      BY <3>2, FS_Interval
    <3> QED
      BY <1>2, <3>1, <3>3
  <2>2. \A k \in Steps : (IF hdr[w[k]].used = 1 THEN hdr[w[k]].size ELSE 0) \in Nat
    BY <1>2, <1>6
  <2> QED
    BY <1>3, <2>1, <2>2
<1>9. IsFiniteSet(Free) /\ free \in [Free -> Nat]
  <2>1. IsFiniteSet(DOMAIN hdr) /\ Free \in SUBSET DOMAIN hdr
    BY <1>4 DEF TypeOK, HeadersOK
  <2>2. IsFiniteSet(Free)
    BY <2>1, FS_Subset
  <2> QED
    BY <1>5, <1>6, <2>1, <2>2
<1>10. PICK g : Sums(g, used, Steps) /\ SumFunction(used) = g[Steps]
  BY <1>8, SumsExist
<1>11. PICK h : Sums(h, free, Free) /\ SumFunction(free) = h[Free]
  BY <1>9, SumsExist
<1> DEFINE Below(k) == {b \in Free : b < w[k]}
\* What lies before the k-th block of the walk: steps made, free blocks passed.
<1> DEFINE Adds(k) == g[0 .. k - 1] + h[Below(k)] = w[k] - Start
<1>12. ASSUME NEW k \in 0 .. n - 1
       PROVE  g[0 .. k] + h[Below(k) \cup ({w[k]} \cap Free)]
                = g[0 .. k - 1] + h[Below(k)] + hdr[w[k]].size
  <2>1. PICK b : b = w[k]
    OBVIOUS
  <2>2. b \in DOMAIN hdr /\ b \in Nat /\ hdr[b].size \in Nat
    BY <1>2, <1>6, <2>1
  <2>3. g[0 .. k] = used[k] + g[0 .. k - 1]
    <3>1. 0 .. k \in SUBSET Steps /\ k \in 0 .. k
      BY <1>2
    <3>2. (0 .. k) \ {k} = 0 .. k - 1
      OBVIOUS
    <3> QED
      BY <1>10, <3>1, <3>2 DEF Sums
  <2>4. used[k] = IF hdr[b].used = 1 THEN hdr[b].size ELSE 0
    BY <1>2, <1>3, <2>1
  <2>5. PICK S : S = Below(k)
    OBVIOUS
  <2>6. S \in SUBSET Free /\ b \notin S
    BY <2>1, <2>2, <2>5
  <2>7. h[S] \in Nat
    BY <1>11, <2>6 DEF Sums
  <2>8. g[0 .. k - 1] \in Nat
    <3>1. 0 .. k - 1 \in SUBSET Steps
      BY <1>2
    <3> QED
      BY <1>10, <3>1 DEF Sums
  <2>9. PICK x : x = g[0 .. k - 1]
    OBVIOUS
  <2>10. PICK y : y = g[0 .. k]
    OBVIOUS
  <2>11. CASE b \in Free
    <3>1. S \cup ({b} \cap Free) = S \cup {b} /\ S \cup {b} \in SUBSET Free
      BY <2>6, <2>11
    <3>2. (S \cup {b}) \ {b} = S /\ b \in S \cup {b}
      BY <2>6
    <3>3. h[S \cup {b}] = free[b] + h[S]
      <4>1. h[S \cup {b}] = free[b] + h[(S \cup {b}) \ {b}]
        BY <1>11, <3>1, <3>2 DEF Sums
      <4> QED
        BY <3>2, <4>1
    <3>4. free[b] = hdr[b].size /\ used[k] = 0
      BY <1>5, <1>7, <2>2, <2>4, <2>11
    <3>5. y = x
      BY <2>3, <2>8, <2>9, <2>10, <3>4
    <3>6. y + h[S \cup {b}] = x + h[S] + hdr[b].size
      BY <2>2, <2>7, <2>8, <2>9, <3>3, <3>4, <3>5
    <3> QED
      BY <2>1, <2>5, <2>9, <2>10, <3>1, <3>6
  <2>12. CASE b \notin Free
    <3>1. S \cup ({b} \cap Free) = S
      BY <2>12
    <3>2. used[k] = hdr[b].size
      BY <1>7, <2>2, <2>4, <2>12
    <3>3. y + h[S] = x + h[S] + hdr[b].size
      BY <2>2, <2>3, <2>7, <2>8, <2>9, <2>10, <3>2
    <3> QED
      BY <2>1, <2>5, <2>9, <2>10, <3>1, <3>3
  <2> QED
    BY <2>11, <2>12
<1>13. \A j, k \in 0 .. n - 1 : w[j] < w[k] <=> j < k
  <2> TAKE j, k \in 0 .. n - 1
  <2>1. w[j] \in Nat /\ w[k] \in Nat
    BY <1>2, <1>6
  <2>2. j < k \/ j = k \/ k < j
    OBVIOUS
  <2>3. j < k => w[j] < w[k]
    BY <1>2
  <2>4. k < j => w[k] < w[j]
    BY <1>2
  <2> QED
    BY <2>1, <2>2, <2>3, <2>4
<1>14. \A b \in Free : \E k \in 0 .. n - 1 : w[k] = b
  BY <1>2, <1>4
<1>15. \A k \in 0 .. n - 1 : Adds(k)
  <2> DEFINE Off == {k \in 0 .. n - 1 : ~Adds(k)}
  <2> SUFFICES ASSUME Off # {} PROVE FALSE
    OBVIOUS
  <2>1. PICK k \in Off : \A l \in Off : k <= l
    <3>1. Off \in SUBSET Nat
      OBVIOUS
    <3> HIDE DEF Off
    <3> QED
      BY <3>1, MinOfNaturals
  <2>2. k \in 0 .. n - 1 /\ ~Adds(k)
    OBVIOUS
  <2>3. CASE k = 0
    <3>1. Below(0) = {}
      <4> SUFFICES ASSUME NEW b \in Free, b < w[0] PROVE FALSE
        OBVIOUS
      <4>1. PICK j \in 0 .. n - 1 : w[j] = b
        BY <1>14
      <4>2. 0 \in 0 .. n - 1 /\ ~(j < 0)
        BY <1>2
      <4> QED
        BY <1>13, <4>1, <4>2
    <3>2. 0 .. k - 1 = {}
      BY <2>3
    <3>3. g[{}] = 0 /\ h[{}] = 0 /\ w[0] - Start = 0
      BY <1>2, <1>10, <1>11, HeapAssumption DEF Sums, HeapAssumption
    <3>4. g[0 .. k - 1] = 0
      BY <3>2, <3>3
    <3>5. h[Below(k)] = 0 /\ w[k] - Start = 0
      BY <2>3, <3>1, <3>3
    <3>6. Adds(k)
      BY <3>4, <3>5
    <3> QED
      BY <2>2, <3>6
  <2>4. CASE k # 0
    <3>1. PICK l : l = k - 1
      OBVIOUS
    <3>2. l \in 0 .. n - 1 /\ k \in 1 .. n - 1 /\ l < k /\ k = l + 1
      BY <1>2, <2>2, <2>4, <3>1
    <3>3. l \notin Off
      <4> HIDE DEF Off
      <4> QED
        BY <2>1, <3>2
    <3>4. Adds(l)
      <4> HIDE DEF Adds
      <4> QED
        BY <3>2, <3>3
    <3>5. Below(k) = Below(l) \cup ({w[l]} \cap Free)
      <4> SUFFICES ASSUME NEW b \in Free PROVE b < w[k] <=> b < w[l] \/ b = w[l]
        BY Zenon
      <4>1. PICK j \in 0 .. n - 1 : w[j] = b
        BY <1>14
      <4>2. b < w[k] <=> j < k
        BY <1>13, <2>2, <4>1
      <4>3. b < w[l] <=> j < l
        BY <1>13, <3>2, <4>1
      <4>4. b = w[l] <=> j = l
        <5>1. b = w[l] => ~(w[j] < w[l]) /\ ~(w[l] < w[j])
          <6>1. w[j] \in Nat /\ w[l] \in Nat
            BY <1>2, <1>6, <3>2
          <6> QED
            BY <4>1, <6>1
        <5>2. b = w[l] => ~(j < l) /\ ~(l < j)
          BY <1>13, <3>2, <5>1
        <5> QED
          BY <3>2, <4>1, <5>2
      <4> QED
        BY <3>2, <4>2, <4>3, <4>4
    <3>6. PICK x : x = g[0 .. l] + h[Below(k)]
      OBVIOUS
    <3>7. x = g[0 .. l - 1] + h[Below(l)] + hdr[w[l]].size
      BY <1>12, <3>2, <3>5, <3>6
    <3>8. x = (w[l] - Start) + hdr[w[l]].size
      BY <3>4, <3>7
    <3>9. w[k] = w[l] + hdr[w[l]].size /\ w[l] \in Nat /\ hdr[w[l]].size \in Nat
      BY <1>2, <1>6, <3>1, <3>2
    <3>10. x = w[k] - Start
      BY <3>8, <3>9, HeapAssumption DEF HeapAssumption
    <3>11. Adds(k)
      BY <3>1, <3>6, <3>10
    <3> QED
      BY <2>2, <3>11
  <2> QED
    BY <2>3, <2>4
<1>16. PICK l : l = n - 1
  OBVIOUS
<1>17. l \in 0 .. n - 1 /\ l \in Nat
  BY <1>2, <1>16
<1>18. Below(l) \cup ({w[l]} \cap Free) = Free
  <2> SUFFICES ASSUME NEW b \in Free PROVE b < w[l] \/ b = w[l]
    OBVIOUS
  <2>1. PICK j \in 0 .. n - 1 : w[j] = b
    BY <1>14
  <2>2. j < l \/ j = l
    BY <1>2, <1>16
  <2> QED
    BY <1>13, <1>17, <2>1, <2>2
<1>19. g[Steps] + h[Free] = end_address - Start
  <2>1. g[0 .. l] + h[Free] = g[0 .. l - 1] + h[Below(l)] + hdr[w[l]].size
    BY <1>12, <1>17, <1>18
  <2>2. g[0 .. l - 1] + h[Below(l)] = w[l] - Start
    BY <1>15, <1>17
  <2>3. end_address = w[l] + hdr[w[l]].size /\ w[l] \in Nat /\ hdr[w[l]].size \in Nat
    BY <1>2, <1>6, <1>16, <1>17
  <2>4. Steps = 0 .. l
    BY <1>2, <1>16
  <2>5. g[0 .. l] + h[Free] = (w[l] - Start) + hdr[w[l]].size
    BY <2>1, <2>2
  <2> QED
    BY <2>3, <2>4, <2>5, HeapAssumption DEF HeapAssumption
<1>20. heap_get_used_size = g[Steps]
  BY <1>1, <1>3, <1>10, Zenon DEF heap_get_used_size
<1>21. SumFunction([b \in DOMAIN hdr \ UsedNow |-> hdr[b].size]) = h[Free]
  BY <1>4, <1>5, <1>11, Zenon
<1>22. heap_get_free_size = h[Free]
  <2>1. g[Steps] \in Nat /\ h[Free] \in Nat
    BY <1>10, <1>11 DEF Sums
  <2>2. heap_get_free_size = (end_address - Start) - g[Steps]
    BY <1>20 DEF heap_get_free_size, heap_get_total_size
  <2> QED
    BY <1>19, <2>1, <2>2, HeapAssumption DEF HeapAssumption, TypeOK
<1> QED
  BY <1>21, <1>22 DEF FreeSizeExact

LEMMA ListReadsRight == IInv => ListFunctionsAgree
<1> SUFFICES ASSUME IInv PROVE ListFunctionsAgree
  OBVIOUS
<1>1. TypeOK /\ HeapTiled
  BY DEF IInv
<1>2. PICK n : n = Cardinality(DOMAIN hdr)
  OBVIOUS
<1>3. Walked(n)
  BY <1>1, <1>2, ListWalked
<1>4. block_count = n
  <2>1. PICK l : l = n - 1
    OBVIOUS
  <2>2. 0 \in Int /\ l \in Int /\ ~(0 > l) /\ l - 0 + 1 = n /\ Steps = 0 .. l
    BY <1>3, <2>1 DEF Walked
  <2>3. Cardinality(0 .. l) = l - 0 + 1
    BY <2>2, FS_Interval
  <2> QED
    BY <2>2, <2>3 DEF block_count
<1>5. WalksAgree
  <2>1. \A k \in Steps \ {0} : current[k - 1] < current[k]
    <3> TAKE k \in Steps \ {0}
    <3>1. k \in 0 .. n - 1 /\ k - 1 \in 0 .. n - 1 /\ k - 1 < k
      BY <1>3 DEF Walked
    <3> QED
      BY <1>3, <3>1 DEF Walked
  <2>2. hdr[current[block_count - 1]].next = NULL
    BY <1>3, <1>4 DEF Walked
  <2>3. \A size \in Sizes : WalkFind(size) = heap_find_free_block(hdr, size)
    BY <1>1, <1>3, WalkFindsLowest
  <2> QED
    BY <1>2, <1>4, <2>1, <2>2, <2>3 DEF WalksAgree
<1>6. FreeSizeExact
  BY <1>1, <1>3, SizesAddUp
<1>7. IntegrityClean
  <2> SUFFICES ASSUME ~handedWhole PROVE heap_validate_integrity = "ok"
    BY DEF IntegrityClean
  <2>1. clobbered = {}
    BY DEF IInv, ExclusiveUntilHandedWhole, ExclusiveBlocks
  <2>2. block_count = total_blocks
    BY <1>1, <1>2, <1>4 DEF HeapTiled
  <2> QED
    BY <2>1, <2>2, Zenon DEF heap_validate_integrity
<1> QED
  BY <1>5, <1>6, <1>7 DEF ListFunctionsAgree

\* For any heap and any requests, in every state: the loops over the list see
\* every block once and in order, find the lowest fit and the last block, the
\* three size functions add up, and heap_validate_integrity reports nothing
\* until a block was handed out whole.
THEOREM HeapListFunctions == Spec => []ListFunctionsAgree
<1>1. IInv => ListFunctionsAgree
  BY ListReadsRight
<1> QED
  BY <1>1, SpecIInv, PTL
=============================================================================
