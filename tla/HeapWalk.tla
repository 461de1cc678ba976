------------------------------ MODULE HeapWalk ------------------------------
(***************************************************************************)
(* The loops of mem/heap.c that walk the block list from first_block along *)
(* the next pointers, as the code runs them.  Heap states what the walks   *)
(* find in terms of the set of blocks (the lowest block that fits, the     *)
(* block without a successor, the number of blocks); here the walks go     *)
(* from block to block and are compared with it.                           *)
(***************************************************************************)
EXTENDS Heap

\* The block a walk looks at after k steps, NULL when it has left the list.  Who
\* takes as many steps as there are blocks and is still in the list goes round.
current[k \in 0 .. Cardinality(DOMAIN hdr)] ==
  IF k = 0 THEN Start
  ELSE LET before == current[k - 1] IN IF before = NULL THEN NULL ELSE hdr[before].next

Steps == {k \in DOMAIN current : current[k] # NULL}
block_count == Cardinality(Steps)

\* The walk of heap_find_free_block: it stops at the first block that fits.
WalkFind(size) ==
  LET fits == {k \in Steps : Fits(hdr, current[k], size)}
  IN  IF fits = {} THEN NULL ELSE current[Min(fits)]

\* The three size functions of the diagnostics.
heap_get_used_size ==
  SumFunction([k \in Steps |-> IF hdr[current[k]].used = 1 THEN hdr[current[k]].size ELSE 0])
heap_get_total_size == end_address - Start
heap_get_free_size == heap_get_total_size - heap_get_used_size

\* heap_validate_integrity: what it prints, "ok" when it prints nothing.
heap_validate_integrity ==
  IF \E k \in Steps : current[k] \in clobbered THEN "heap corruption detected"
  ELSE IF block_count # total_blocks THEN "heap block count mismatch"
  ELSE "ok"

-----------------------------------------------------------------------------
(* Properties *)

\* The list walk visits every block once, in address order, and so returns the
\* lowest block that fits; the walk of heap_expand_heap ends at the last block.
WalksAgree ==
  /\ block_count = Cardinality(DOMAIN hdr)
  /\ \A k \in Steps \ {0} : current[k - 1] < current[k]
  /\ hdr[current[block_count - 1]].next = NULL
  /\ \A size \in Sizes : WalkFind(size) = heap_find_free_block(hdr, size)

\* The three size functions agree with the blocks: the free size, computed as
\* total minus used, is the sum of the free blocks, whatever was split, merged
\* or appended before.
FreeSizeExact ==
  heap_get_free_size = SumFunction([b \in DOMAIN hdr \ UsedNow |-> hdr[b].size])

\* heap_validate_integrity has nothing to report as long as every block that
\* kmalloc returned was split off.
IntegrityClean == ~handedWhole => heap_validate_integrity = "ok"

\* What the functions that read the list say of it is true of the blocks: the
\* walks, the sizes and the integrity check.
ListFunctionsAgree == WalksAgree /\ FreeSizeExact /\ IntegrityClean
=============================================================================
