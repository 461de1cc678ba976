------------------------------- MODULE Split -------------------------------
(***************************************************************************)
(* splitString and split of libc/string.c over the heap: the same function *)
(* twice, once with ' ' for the delimiter and once with an argument.  It   *)
(* counts the words, allocates an array for them, then allocates and       *)
(* copies one word after the other; when an allocation fails it frees what *)
(* it has.  The clients of the heap are the array, the words by their      *)
(* number, and Other, what else the program keeps on the heap.             *)
(*                                                                         *)
(* Nothing else runs during a call.  A string is the characters before its *)
(* NUL: delimiters "d", and "c" for a run of Run characters that are none. *)
(***************************************************************************)
EXTENDS Heap, Sequences

CONSTANTS
  Strings,   \* the strings that are split
  Run,       \* the characters a "c" stands for
  MaxWords   \* the most words a string of Strings has

ASSUME SplitAssumption ==
  /\ Strings \subseteq Seq({"c", "d"})
  /\ Run \in Nat \ {0}
  /\ MaxWords \in Nat
  /\ Clients = 0 .. MaxWords + 1

VARIABLES
  str,     \* the argument
  pc,      \* "idle", "array", "words", "unwind", or "returned" (a result is in use)
  ptr,     \* the position in str
  index,   \* the words stored in result
  j,       \* the words freed after a failure
  count,   \* *count
  before   \* history: used_blocks at the call

scan == <<str, ptr, index, j, count>>
splitVars == <<vars, scan, pc, before>>

Array == 0
Other == MaxWords + 1

SplitInit ==
  /\ Init
  /\ str = <<>> /\ pc = "idle" /\ ptr = 1 /\ index = 0 /\ j = 0
  /\ count = 0 /\ before = 0

-----------------------------------------------------------------------------
(* The scan *)

End(s) == Len(s) + 1  \* where the NUL is
SkipDelimiters(s, p) == Min({q \in p .. End(s) : q = End(s) \/ s[q] # "d"})
SkipWord(s, p) == Min({q \in p .. End(s) : q = End(s) \/ s[q] = "d"})

\* Variant: a word is counted at the delimiter behind it.
CountWords_Ended(s) ==
  LET n[p \in 1 .. End(s)] ==
        LET start == SkipDelimiters(s, p)
            stop == SkipWord(s, start)
        IN  IF start = End(s) THEN 0
            ELSE (IF stop = End(s) THEN 0 ELSE 1) + n[stop]
  IN  n[1]

CountWords(s) ==
  LET n[p \in 1 .. End(s)] ==
        LET start == SkipDelimiters(s, p)
        IN  IF start = End(s) THEN 0 ELSE 1 + n[SkipWord(s, start)]
  IN  n[1]

WordStart == SkipDelimiters(str, ptr)
Bytes(length) == length * Run + 1
Pointers(n) == 8 * n

-----------------------------------------------------------------------------
(* The call *)

Call(s) ==
  /\ pc = "idle"
  /\ str' = s /\ ptr' = 1 /\ index' = 0 /\ j' = 0
  /\ pc' = "array"
  /\ before' = used_blocks
  /\ UNCHANGED <<vars, count>>

\* malloc: MaxWords and Sizes bound what is asked for.
malloc(c, n) == c <= MaxWords /\ n \in Sizes /\ kmalloc(c, n)

\* kmalloc(0) returns NULL, which splitString takes for a failure.
NoWords ==
  /\ pc = "array" /\ CountWords(str) = 0
  /\ pc' = "idle"
  /\ UNCHANGED <<vars, scan, before>>

AllocArray ==
  /\ pc = "array" /\ CountWords(str) > 0
  /\ malloc(Array, Pointers(CountWords(str)))
  /\ pc' = IF live'[Array] = None THEN "idle" ELSE "words"
  /\ UNCHANGED <<scan, before>>

\* Variant: the word begins where the scan stood, delimiters and all.
AllocWord_FromPtr ==
  /\ pc = "words" /\ WordStart # End(str)
  /\ malloc(index + 1, Bytes(SkipWord(str, WordStart) - ptr))
  /\ IF live'[index + 1] = None
     THEN pc' = "unwind" /\ index' = index
     ELSE pc' = "words" /\ index' = index + 1
  /\ ptr' = SkipWord(str, WordStart)
  /\ UNCHANGED <<str, j, count, before>>

AllocWord ==
  /\ pc = "words" /\ WordStart # End(str)
  /\ malloc(index + 1, Bytes(SkipWord(str, WordStart) - WordStart))
  /\ IF live'[index + 1] = None
     THEN pc' = "unwind" /\ index' = index
     ELSE pc' = "words" /\ index' = index + 1
  /\ ptr' = SkipWord(str, WordStart)
  /\ UNCHANGED <<str, j, count, before>>

ReturnResult ==
  /\ pc = "words" /\ WordStart = End(str)
  /\ count' = CountWords(str)
  /\ pc' = "returned"
  /\ UNCHANGED <<vars, str, ptr, index, j, before>>

\* Variant: the word before the one that failed is forgotten.
UnwindArray_Early ==
  /\ pc = "unwind" /\ j + 1 >= index
  /\ kmfree(Array)
  /\ pc' = "idle"
  /\ UNCHANGED <<scan, before>>

UnwindWord ==
  /\ pc = "unwind" /\ j < index
  /\ kmfree(j + 1)
  /\ j' = j + 1
  /\ UNCHANGED <<pc, str, ptr, index, count, before>>

UnwindArray ==
  /\ pc = "unwind" /\ j = index
  /\ kmfree(Array)
  /\ pc' = "idle"
  /\ UNCHANGED <<scan, before>>

split == NoWords \/ AllocArray \/ AllocWord \/ ReturnResult \/ UnwindWord \/ UnwindArray
splitString == split

-----------------------------------------------------------------------------
(* The program that calls it *)

\* Once two of its allocations overlap, a program reads what it did not write.
Payload(a) == a.ptr + Header .. a.ptr + Header + a.size - 1
Overlap == \E c, d \in Clients : /\ c # d /\ live[c] # None /\ live[d] # None
                                 /\ Payload(live[c]) \cap Payload(live[d]) # {}

\* It frees a result: the words and then the array.
ReleaseWord ==
  /\ pc = "returned"
  /\ \E i \in 1 .. MaxWords : i <= count /\ kmfree(i)
  /\ UNCHANGED <<scan, pc, before>>

ReleaseArray ==
  /\ pc = "returned"
  /\ \A i \in 1 .. count : live[i] = None
  /\ kmfree(Array)
  /\ pc' = "idle"
  /\ UNCHANGED <<scan, before>>

UseHeap ==
  /\ pc \in {"idle", "returned"}
  /\ kmfree(Other) \/ \E n \in Sizes : kmalloc(Other, n)
  /\ UNCHANGED <<scan, pc, before>>

Program == (\E s \in Strings : Call(s)) \/ ReleaseWord \/ ReleaseArray \/ UseHeap

SplitNext == ~Overlap /\ (splitString \/ Program)

SplitSpec == SplitInit /\ [][SplitNext]_splitVars

-----------------------------------------------------------------------------
(* Properties *)

\* The words of s as maximal runs of characters that are not delimiters.
WordsOf(s) ==
  {w \in (1 .. Len(s)) \X (1 .. Len(s)) :
     /\ w[1] <= w[2]
     /\ \A q \in w[1] .. w[2] : s[q] # "d"
     /\ w[1] = 1 \/ s[w[1] - 1] = "d"
     /\ w[2] = Len(s) \/ s[w[2] + 1] = "d"}
Nth(w, s) == Cardinality({v \in WordsOf(s) : v[1] <= w[1]})

\* A result that is returned holds the words of the string, in order and each
\* in an allocation of its size, and count is their number.
ReturnsWords ==
  [][pc # "returned" /\ pc' = "returned" =>
       /\ count' = Cardinality(WordsOf(str))
       /\ \A w \in WordsOf(str) : live[Nth(w, str)].size = Bytes(w[2] - w[1] + 1)]_splitVars

\* A call that fails half way leaves nothing behind: no allocation of it is
\* live, and as long as kmalloc split every block the heap counts as many
\* blocks in use as before the call.
Freed == \A c \in Clients \ {Other} : live[c] = None
FailureFreesAll ==
  [][(pc \in {"array", "unwind"} /\ pc' = "idle")
       => Freed' /\ (handedWhole' \/ used_blocks' = before)]_splitVars

\* No pointer is stored behind the array, the NULL of a failed allocation
\* included, and every entry of a result was stored: the scan that stores the
\* words finds those that the scan before it counted.
StoresFitArray ==
  /\ pc = "words" /\ WordStart # End(str) => Pointers(index + 1) <= live[Array].size
  /\ pc = "returned" => Pointers(index) = live[Array].size
=============================================================================
