-------------------------------- MODULE Heap --------------------------------
(***************************************************************************)
(* The kernel heap of mem/heap.c: a doubly linked list of blocks, each a   *)
(* header followed by its payload, that covers the heap from its start to  *)
(* its current end.  hdr maps the address of every block in the list to    *)
(* its header; the clients are the callers of kmalloc and kmfree (through  *)
(* malloc and mfree, the functions of libc/string.c).  An allocation is    *)
(* named by the address of its header; kmalloc returns that address plus   *)
(* Header and kmfree subtracts it again.                                   *)
(*                                                                         *)
(* Every request in the source is an int times at most 8, so size_t sums   *)
(* do not wrap, and sizes are plain naturals here.  kmalloc(0) and         *)
(* kmfree(NULL) return at once and change nothing.                         *)
(***************************************************************************)
EXTENDS Integers, FiniteSets, FiniteSetsExt, TLC

CONSTANTS
  Clients,      \* the holders of allocations, at most one allocation each
  Sizes,        \* the payload sizes they request
  Start,        \* HEAP_START_ADDRESS
  InitialSize,  \* HEAP_INITIAL_SIZE
  MaxSize,      \* HEAP_MAX_SIZE
  BlockMin,     \* HEAP_BLOCK_SIZE, the least expansion
  Header,       \* sizeof(heap_block_t)
  SplitMin,     \* what must remain for a block to be split
  UsedCap       \* bound on used_blocks, a uint32_t that is never reset

ASSUME HeapAssumption ==
  /\ IsFiniteSet(Clients)
  /\ Sizes \subseteq Nat \ {0}
  /\ {Start, InitialSize, BlockMin, Header, SplitMin} \subseteq Nat \ {0}
  /\ {MaxSize, UsedCap} \subseteq Nat
  /\ InitialSize <= MaxSize

VARIABLES
  hdr,           \* block address -> header, for the blocks in the list
  end_address,   \* kernel_heap.end_address
  total_blocks,  \* kernel_heap.total_blocks
  used_blocks,   \* kernel_heap.used_blocks
  live,          \* client -> the allocation it holds, or None
  clobbered,     \* blocks in the list whose header a payload write destroyed
  handedWhole    \* has kmalloc ever returned a block that was not split?

vars == <<hdr, end_address, total_blocks, used_blocks, live, clobbered, handedWhole>>

NULL == 0
None == [ptr |-> NULL, size |-> 0]
MaxAddress == Start + MaxSize

HEAP_ALIGN(n) == ((n + 7) \div 8) * 8
TotalSize(size) == HEAP_ALIGN(size + Header)

-----------------------------------------------------------------------------
(* The list operations, as functions of the header map h. *)

Fits(h, b, size) == h[b].used = 0 /\ h[b].size >= TotalSize(size)

\* The walk from first_block returns the first block that fits.  The list is
\* in address order, so that is the lowest one.
heap_find_free_block(h, size) ==
  LET fits == {b \in DOMAIN h : Fits(h, b, size)}
  IN  IF fits = {} THEN NULL ELSE Min(fits)

Splits(h, b, size) == h[b].size >= TotalSize(size) + SplitMin

\* The writes the list operations are made of: give a block another prev (no
\* block when a = NULL), put a header into the list, take one out.
SetPrev(h, a, p) == [x \in DOMAIN h |-> IF x = a THEN [h[x] EXCEPT !.prev = p] ELSE h[x]]
AddBlock(h, a, header) == [x \in DOMAIN h \cup {a} |-> IF x = a THEN header ELSE h[x]]
RemoveBlock(h, b) == [x \in DOMAIN h \ {b} |-> h[x]]

Rest(h, b, size) == [size |-> h[b].size - TotalSize(size), used |-> 0,
                     next |-> h[b].next, prev |-> b]

\* Variant: the block handed out is not marked.
SplitAt_NotMarked(h, b, size) ==
  LET rest == b + TotalSize(size)
      cut  == [h EXCEPT ![b].size = TotalSize(size), ![b].next = rest]
  IN  AddBlock(SetPrev(cut, h[b].next, rest), rest, Rest(h, b, size))

\* Cut b after TotalSize(size) bytes; the rest becomes a free block behind it.
SplitAt(h, b, size) ==
  LET rest == b + TotalSize(size)
      cut  == [h EXCEPT ![b] = [@ EXCEPT !.size = TotalSize(size), !.used = 1, !.next = rest]]
  IN  AddBlock(SetPrev(cut, h[b].next, rest), rest, Rest(h, b, size))

\* A block too small to split is returned as it is: its used field stays 0.
heap_split_block(h, b, size) == IF Splits(h, b, size) THEN SplitAt(h, b, size) ELSE h

\* Variant: the successor keeps its prev pointer to the absorbed block.
Absorb_StalePrev(h, a, b) ==
  RemoveBlock([h EXCEPT ![a] = [@ EXCEPT !.size = h[a].size + h[b].size, !.next = h[b].next]], b)

\* Variant: the absorbed block's bytes are not added.
Absorb_LosesSize(h, a, b) ==
  RemoveBlock(SetPrev([h EXCEPT ![a] = [@ EXCEPT !.next = h[b].next]], h[b].next, a), b)

\* b, the list successor of a, becomes part of a.
Absorb(h, a, b) ==
  LET joined == [h EXCEPT ![a] = [@ EXCEPT !.size = h[a].size + h[b].size, !.next = h[b].next]]
  IN  RemoveBlock(SetPrev(joined, h[b].next, a), b)

IsFree(h, b) == b # NULL /\ h[b].used = 0

MergeNext(h, b) == IF IsFree(h, h[b].next) THEN Absorb(h, b, h[b].next) ELSE h
MergePrev(h, b) == IF IsFree(h, h[b].prev) THEN Absorb(h, h[b].prev, b) ELSE h

\* Variant: only the next block is considered.
heap_merge_adjacent_blocks_NextOnly(h, b) == MergeNext(h, b)
heap_merge_adjacent_blocks(h, b) == MergePrev(MergeNext(h, b), b)

\* Variant: the 4096-byte minimum is forgotten.
ExpandSize_NoMinimum(size) == HEAP_ALIGN(size)
ExpandSize(size) == LET n == HEAP_ALIGN(size) IN IF n < BlockMin THEN BlockMin ELSE n
CanExpand(size) == end_address + ExpandSize(size) <= MaxAddress

\* A free block at the end of the heap, linked behind the last block.
heap_expand_heap(h, size) ==
  LET last == CHOOSE b \in DOMAIN h : h[b].next = NULL
  IN  AddBlock([h EXCEPT ![last] = [@ EXCEPT !.next = end_address]], end_address,
               [size |-> ExpandSize(size), used |-> 0, next |-> NULL, prev |-> last])

-----------------------------------------------------------------------------
(* heap_init *)
Init ==
  /\ hdr = [b \in {Start} |->
              [size |-> InitialSize, used |-> 0, next |-> NULL, prev |-> NULL]]
  /\ end_address = Start + InitialSize
  /\ total_blocks = 1
  /\ used_blocks = 0
  /\ live = [c \in Clients |-> None]
  /\ clobbered = {}
  /\ handedWhole = FALSE

\* The tail of kmalloc: split block b of the list h, count it, return it to c.
Take(c, size, h, b, blocks) ==
  /\ hdr' = heap_split_block(h, b, size)
  /\ total_blocks' = IF Splits(h, b, size) THEN blocks + 1 ELSE blocks
  /\ used_blocks' = used_blocks + 1
  /\ live' = [live EXCEPT ![c] = [ptr |-> b, size |-> size]]
  /\ handedWhole' = (handedWhole \/ ~Splits(h, b, size))
  /\ UNCHANGED clobbered

\* A caller without an allocation, on a heap whose headers are intact.
MayCall(c) == live[c] = None /\ clobbered = {} /\ used_blocks < UsedCap

KmallocFit(c, size) ==
  /\ MayCall(c)
  /\ heap_find_free_block(hdr, size) # NULL
  /\ Take(c, size, hdr, heap_find_free_block(hdr, size), total_blocks)
  /\ UNCHANGED end_address

KmallocExpand(c, size) ==
  LET h == heap_expand_heap(hdr, size)
  IN  /\ MayCall(c)
      /\ heap_find_free_block(hdr, size) = NULL
      /\ CanExpand(size)
      /\ heap_find_free_block(h, size) # NULL
      /\ Take(c, size, h, heap_find_free_block(h, size), total_blocks + 1)
      /\ end_address' = end_address + ExpandSize(size)

\* The heap was expanded and the request still fits nowhere: the new block is
\* ExpandSize(size) bytes long, header included.  kmalloc returns NULL.
KmallocGrowsAndFails(c, size) ==
  LET h == heap_expand_heap(hdr, size)
  IN  /\ MayCall(c)
      /\ heap_find_free_block(hdr, size) = NULL
      /\ CanExpand(size)
      /\ heap_find_free_block(h, size) = NULL
      /\ hdr' = h
      /\ end_address' = end_address + ExpandSize(size)
      /\ total_blocks' = total_blocks + 1
      /\ UNCHANGED <<used_blocks, live, clobbered, handedWhole>>

KmallocOutOfMemory(c, size) ==
  /\ MayCall(c)
  /\ heap_find_free_block(hdr, size) = NULL
  /\ ~CanExpand(size)
  /\ UNCHANGED vars

kmalloc(c, size) ==
  \/ KmallocFit(c, size)
  \/ KmallocExpand(c, size)
  \/ KmallocGrowsAndFails(c, size)
  \/ KmallocOutOfMemory(c, size)

Holds(c) == live[c] # None /\ clobbered = {}
Marked(p) == p \in DOMAIN hdr /\ hdr[p].used = 1

\* Variant: the merge updates the counter for the next block only.
KmfreeMarked_CountsOneMerge(c) ==
  LET b == live[c].ptr
  IN  /\ Holds(c)
      /\ Marked(b)
      /\ hdr' = heap_merge_adjacent_blocks([hdr EXCEPT ![b].used = 0], b)
      /\ total_blocks' = IF IsFree(hdr, hdr[b].next) THEN total_blocks - 1 ELSE total_blocks
      /\ used_blocks' = used_blocks - 1
      /\ live' = [live EXCEPT ![c] = None]
      /\ UNCHANGED <<end_address, clobbered, handedWhole>>

\* Variant: used_blocks is not counted down.
KmfreeMarked_KeepsUsed(c) ==
  LET b == live[c].ptr
      merges == (IF IsFree(hdr, hdr[b].next) THEN 1 ELSE 0)
                  + (IF IsFree(hdr, hdr[b].prev) THEN 1 ELSE 0)
  IN  /\ Holds(c)
      /\ Marked(b)
      /\ hdr' = heap_merge_adjacent_blocks([hdr EXCEPT ![b].used = 0], b)
      /\ total_blocks' = total_blocks - merges
      /\ live' = [live EXCEPT ![c] = None]
      /\ UNCHANGED <<end_address, used_blocks, clobbered, handedWhole>>

KmfreeMarked(c) ==
  LET b == live[c].ptr
      merges == (IF IsFree(hdr, hdr[b].next) THEN 1 ELSE 0)
                  + (IF IsFree(hdr, hdr[b].prev) THEN 1 ELSE 0)
  IN  /\ Holds(c)
      /\ Marked(b)
      /\ hdr' = heap_merge_adjacent_blocks([hdr EXCEPT ![b].used = 0], b)
      /\ total_blocks' = total_blocks - merges
      /\ used_blocks' = used_blocks - 1
      /\ live' = [live EXCEPT ![c] = None]
      /\ UNCHANGED <<end_address, clobbered, handedWhole>>

\* "double free detected": the block was never marked, or it has been merged
\* into another one and what is left of its header says used = 0.
KmfreeRejected(c) ==
  /\ Holds(c)
  /\ ~Marked(live[c].ptr)
  /\ live' = [live EXCEPT ![c] = None]
  /\ UNCHANGED <<hdr, end_address, total_blocks, used_blocks, clobbered, handedWhole>>

kmfree(c) == KmfreeMarked(c) \/ KmfreeRejected(c)

\* A client fills its payload: the headers that lie in it are gone.
HeadersInPayload(a) == {b \in DOMAIN hdr : a.ptr < b /\ b < a.ptr + Header + a.size}

WritePayload(c) ==
  /\ live[c] # None
  /\ clobbered' = clobbered \cup HeadersInPayload(live[c])
  /\ UNCHANGED <<hdr, end_address, total_blocks, used_blocks, live, handedWhole>>

Next == \E c \in Clients :
          \/ \E size \in Sizes : kmalloc(c, size)
          \/ kmfree(c)
          \/ WritePayload(c)

Spec == Init /\ [][Next]_vars

-----------------------------------------------------------------------------
(* Properties *)

HeaderType(nodes) == [size : Nat, used : {0, 1},
                   next : nodes \cup {NULL}, prev : nodes \cup {NULL}]

HeadersOK(h) == /\ IsFiniteSet(DOMAIN h)
                /\ DOMAIN h \subseteq Nat \ {NULL}
                /\ h \in [DOMAIN h -> HeaderType(DOMAIN h)]

\* Types: in particular every next and prev of a listed block is NULL or the
\* address of a listed block; kmfree's merges leave no dangling link.
TypeOK ==
  /\ HeadersOK(hdr)
  /\ end_address \in Nat
  /\ total_blocks \in Nat
  /\ used_blocks \in 0 .. UsedCap
  /\ live \in [Clients -> {None} \cup [ptr : Nat \ {NULL}, size : Nat \ {0}]]
  /\ clobbered \subseteq Nat
  /\ handedWhole \in BOOLEAN

\* The list of h: its blocks follow one another without gap or overlap from
\* Start to end, and next and prev are inverse.
EndOf(h, b) == b + h[b].size
StartsAtStart(h) == Start \in DOMAIN h /\ \A b \in DOMAIN h : h[b].prev = NULL <=> b = Start
EndsAtEnd(h, end) == /\ \E b \in DOMAIN h : EndOf(h, b) = end
                     /\ \A b \in DOMAIN h : h[b].size > 0 /\ EndOf(h, b) <= end
NextIsAdjacent(h, end) ==
  \A b \in DOMAIN h : h[b].next = IF EndOf(h, b) = end THEN NULL ELSE EndOf(h, b)
PrevInvertsNext(h) == \A b \in DOMAIN h : h[b].next # NULL => h[h[b].next].prev = b
NextInvertsPrev(h) == \A b \in DOMAIN h : h[b].prev # NULL => h[h[b].prev].next = b
NoOverlap(h) == \A b, c \in DOMAIN h : b < c => EndOf(h, b) <= c

Tiled(h, end) ==
  /\ StartsAtStart(h)
  /\ EndsAtEnd(h, end)
  /\ NextIsAdjacent(h, end)
  /\ PrevInvertsNext(h)
  /\ NextInvertsPrev(h)
  /\ NoOverlap(h)

\* After any sequence of kmalloc and kmfree, splits, merges and expansions the
\* blocks tile the heap and total_blocks counts them, as
\* heap_validate_integrity expects, even once blocks are handed out twice.
HeapTiled ==
  /\ Tiled(hdr, end_address)
  /\ end_address <= MaxAddress
  /\ total_blocks = Cardinality(DOMAIN hdr)

Owns(c) == live[c] # None

\* As long as every block kmalloc returned was split off, each live allocation
\* has a block of its own, marked used and large enough, and payload writes
\* destroy no header.
ExclusiveBlocks ==
  /\ clobbered = {}
  /\ \A c \in Clients : Owns(c) =>
       /\ Marked(live[c].ptr)
       /\ Header + live[c].size <= hdr[live[c].ptr].size
  /\ \A c, d \in Clients : c # d /\ Owns(c) /\ Owns(d) => live[c].ptr # live[d].ptr
ExclusiveUntilHandedWhole == ~handedWhole => ExclusiveBlocks

UsedOf(h) == {b \in DOMAIN h : h[b].used = 1}
UsedNow == UsedOf(hdr)

\* As long as every block was split off, used_blocks is the number of blocks
\* marked used, and each of those belongs to a client: nothing leaks.
UsedBlocksExact ==
  ~handedWhole => /\ used_blocks = Cardinality(UsedNow)
                  /\ \A b \in UsedNow : \E c \in Clients : live[c].ptr = b

FreePairs(h) == {b \in DOMAIN h : h[b].used = 0 /\ IsFree(h, h[b].next)}

\* kmfree merges as far as it can reach: two adjacent free blocks arise only
\* when heap_expand_heap appends a block behind a free one.
FragmentsOnlyByGrowth ==
  [][Cardinality(FreePairs(hdr')) > Cardinality(FreePairs(hdr))
       => end_address' # end_address]_vars

\* A request that fits, header included, in the least expansion never fails
\* while the heap may still grow: one expansion serves it.
SmallRequestsServed ==
  \A size \in Sizes :
    TotalSize(size) <= BlockMin /\ CanExpand(size)
      => \/ heap_find_free_block(hdr, size) # NULL
         \/ heap_find_free_block(heap_expand_heap(hdr, size), size) # NULL

\* heap.h:19, "1 if block is used, 0 if free", and heap.c:226, the corruption
\* heap_validate_integrity looks for: no payload write of a client, within the
\* bytes it asked for, destroys a header of the list.
HeadersIntact == clobbered = {}
=============================================================================
