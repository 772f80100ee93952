--------------------------- MODULE HeapAllocator ---------------------------
(***************************************************************************)
(* The heap of the validation layer (val/src/val_malloc.c): one buffer cut *)
(* into blocks, each a header followed by its payload, kept in a doubly    *)
(* linked list in address order.  An allocation takes the first free block *)
(* that is large enough and splits off what it does not need; a free joins *)
(* the block with its free neighbours.                                     *)
(*                                                                         *)
(* Addresses and sizes are counted in units of ALIGNMENT (8) bytes, so     *)
(* rounding a size up to ALIGNMENT has been done already and BLOCK_SIZE is *)
(* 4.  The list is the sequence heap.  The magic words are kept apart from *)
(* it, as the set of addresses that hold BLOCK_VALID_MAGIC: a header that  *)
(* leaves the list, or that a client writes over, is in memory still.      *)
(*                                                                         *)
(* A client frees and reallocates what it was given; live holds that.      *)
(***************************************************************************)
EXTENDS Integers, Sequences, FiniteSets, FiniteSetsExt

CONSTANTS HeapSize,        \* PLATFORM_HEAP_BUF_SIZE, in units
          BlockSize,       \* BLOCK_SIZE, in units
          MallocSizes,     \* the sizes clients ask of val_malloc
          MaxMembers,      \* the nmemb asked of val_calloc at most
          AlignedRequests, \* the <<alignment, size>> asked of val_aligned_alloc
          ReallocSizes,    \* the sizes asked of val_realloc
          MaxLive          \* the allocations the clients hold at most

(* val_malloc, val_calloc and val_realloc deal with a size of 0 by itself. *)
(* val_aligned_alloc does not, and no client asks it for 0: the leading    *)
(* block would then not be split where the space is just enough, and the   *)
(* block after it, in use, be handed out.                                  *)
ASSUME HeapAssumption ==
    /\ BlockSize \in Nat \ {0}
    /\ HeapSize \in Nat /\ HeapSize > BlockSize
    /\ MallocSizes \subseteq Nat \ {0}
    /\ ReallocSizes \subseteq Nat \ {0}
    /\ \A r \in AlignedRequests :
           r[1] \in Nat \ {0} /\ r[2] \in Nat \ {0} /\ r[2] % r[1] = 0
    /\ MaxMembers \in Nat /\ MaxLive \in Nat

VARIABLES heap,  \* the list from free_list on: address, payload size, free
          magic, \* the addresses that hold BLOCK_VALID_MAGIC
          live,  \* what the clients hold: pointer and requested size
          fault  \* a null pointer was dereferenced

vars == <<heap, magic, live, fault>>

Units == 0 .. HeapSize

Block == [addr : Units, size : Units, free : BOOLEAN]

TypeOK ==
    /\ \A k \in DOMAIN heap : heap[k] \in Block
    /\ magic \subseteq Units
    /\ live \subseteq [ptr : Units, size : Units]
    /\ fault \in BOOLEAN

Init ==
    /\ heap = << [addr |-> 0, size |-> HeapSize - BlockSize, free |-> TRUE] >>
    /\ magic = {0}
    /\ live = {}
    /\ fault = FALSE

-----------------------------------------------------------------------------
(***************************************************************************)
(* The list operations.                                                    *)
(***************************************************************************)
Headers(h) == { h[k].addr : k \in DOMAIN h }

(* Mutation: a block is split whether or not the rest can hold a header.   *)
SplitUnchecked(h, k, n) ==
    SubSeq(h, 1, k - 1)
        \o << [h[k] EXCEPT !.size = n],
              [addr |-> h[k].addr + BlockSize + n,
               size |-> h[k].size - n - BlockSize,
               free |-> TRUE] >>
        \o SubSeq(h, k + 1, Len(h))

(* Mutation: the new block's size counts its own header.                   *)
SplitForgetsHeader(h, k, n) ==
    IF h[k].size >= n + BlockSize + 1
      THEN SubSeq(h, 1, k - 1)
               \o << [h[k] EXCEPT !.size = n],
                     [addr |-> h[k].addr + BlockSize + n,
                      size |-> h[k].size - n,
                      free |-> TRUE] >>
               \o SubSeq(h, k + 1, Len(h))
      ELSE h

(* val_split: the rest becomes a free block when it can hold a header and  *)
(* one unit.                                                               *)
Split(h, k, n) ==
    IF h[k].size >= n + BlockSize + 1
      THEN SubSeq(h, 1, k - 1)
               \o << [h[k] EXCEPT !.size = n],
                     [addr |-> h[k].addr + BlockSize + n,
                      size |-> h[k].size - n - BlockSize,
                      free |-> TRUE] >>
               \o SubSeq(h, k + 1, Len(h))
      ELSE h

(* Mutation: a free predecessor is not joined.                             *)
RunForwardOnly(h, k) ==
    k .. Max({ j \in k .. Len(h) : \A m \in k + 1 .. j : h[m].free })

(* The blocks val_coalesce joins with block k: the free ones that follow   *)
(* it without a gap in the list, and the free ones before it.              *)
Run(h, k) ==
    Min({ j \in 1 .. k : \A m \in j .. k - 1 : h[m].free })
        .. Max({ j \in k .. Len(h) : \A m \in k + 1 .. j : h[m].free })

(* The size of the blocks from lo to hi as one, their headers but the first *)
(* counted in.                                                             *)
JoinedSize(h, lo, hi) ==
    LET size[j \in lo .. hi] ==
            IF j = lo THEN h[lo].size ELSE size[j - 1] + BlockSize + h[j].size
    IN  size[hi]

(* The block the caller is left with keeps the header of the first.        *)
Coalesce(h, k) ==
    LET lo == Min(Run(h, k))
        hi == Max(Run(h, k))
    IN  SubSeq(h, 1, lo - 1)
            \o << [h[lo] EXCEPT !.size = JoinedSize(h, lo, hi)] >>
            \o SubSeq(h, hi + 1, Len(h))

(* Mutation: the headers that leave the list keep their magic.             *)
InvalidatedNone(h, k) == {}

(* The headers val_coalesce takes out of the list and marks invalid.       *)
Invalidated(h, k) == { h[j].addr : j \in Run(h, k) \ {Min(Run(h, k))} }

(* The magic words after the list h became g and the client was handed     *)
(* size units at ptr, which it writes: the new headers are valid, and what *)
(* the client writes over is not.                                          *)
Stamped(words, h, g, ptr, size) ==
    (words \cup (Headers(g) \ Headers(h))) \ (ptr .. ptr + size - 1)

IndexOf(h, a) == CHOOSE k \in DOMAIN h : h[k].addr = a

-----------------------------------------------------------------------------
(***************************************************************************)
(* The operations.  One that returns NULL or VAL_ERROR changes nothing.    *)
(***************************************************************************)
Fitting(n) == { k \in DOMAIN heap : heap[k].free /\ heap[k].size >= n }

(* val_malloc: first fit.                                                  *)
Malloc(n) ==
    /\ Fitting(n) # {}
    /\ LET k == Min(Fitting(n))
           ptr == heap[k].addr + BlockSize
       IN  /\ heap' = [Split(heap, k, n) EXCEPT ![k].free = FALSE]
           /\ magic' = Stamped(magic, heap, heap', ptr, n)
           /\ live' = live \cup {[ptr |-> ptr, size |-> n]}
    /\ UNCHANGED fault

(* val_calloc; the memset stays inside the block.                          *)
Calloc(nmemb, size) == Malloc(nmemb * size)

(* val_free of a pointer the client holds.                                 *)
Free(c) ==
    LET header == c.ptr - BlockSize
        k == IndexOf(heap, header)
        h == [heap EXCEPT ![k].free = TRUE]
    IN  /\ header \in magic
        /\ header \in Headers(heap)
        /\ ~heap[k].free
        /\ heap' = Coalesce(h, k)
        /\ magic' = magic \ Invalidated(h, k)
        /\ live' = live \ {c}
        /\ UNCHANGED fault

(* Mutation: the mask is applied without adding alignment - 1 first.       *)
AlignDown(a, alignment) == (a \div alignment) * alignment

AlignTo(a, alignment) == ((a + alignment - 1) \div alignment) * alignment

FittingAligned(alignment, n) ==
    { k \in DOMAIN heap :
        /\ heap[k].free
        /\ heap[k].size + BlockSize
               >= AlignTo(heap[k].addr + BlockSize, alignment) + n - heap[k].addr }

(* val_aligned_alloc: the space before the aligned payload is split off    *)
(* when it can hold a header, the space after it when it exceeds one; the  *)
(* block's size is set to what was asked in every case.                    *)
AlignedAlloc(alignment, n) ==
    /\ FittingAligned(alignment, n) # {}
    /\ LET k == Min(FittingAligned(alignment, n))
           ptr == AlignTo(heap[k].addr + BlockSize, alignment)
           lead == ptr - BlockSize - heap[k].addr
           h == IF lead >= BlockSize THEN Split(heap, k, lead - BlockSize)
                                     ELSE heap
           b == IF lead >= BlockSize THEN k + 1 ELSE k
           g == IF h[b].size > n + BlockSize + 1 THEN Split(h, b, n) ELSE h
       IN  /\ heap' = [g EXCEPT ![b].size = n, ![b].free = FALSE]
           /\ magic' = Stamped(magic, heap, heap', ptr, n)
           /\ live' = live \cup {[ptr |-> ptr, size |-> n]}
    /\ UNCHANGED fault

(* val_realloc to no more than the block's size: split in place, and join  *)
(* the successor with what follows it.  The last block has no successor,   *)
(* and val_coalesce dereferences the null pointer.                         *)
ReallocShrink(c, n) ==
    LET k == IndexOf(heap, c.ptr - BlockSize)
        h == Split(heap, k, n)
    IN  /\ heap[k].size >= n
        /\ IF k < Len(h)
             THEN /\ heap' = Coalesce(h, k + 1)
                  /\ magic' = (magic \cup (Headers(h) \ Headers(heap)))
                                  \ Invalidated(h, k + 1)
                  /\ live' = (live \ {c}) \cup {[c EXCEPT !.size = n]}
                  /\ UNCHANGED fault
             ELSE fault' = TRUE /\ UNCHANGED <<heap, magic, live>>

GrowsInPlace(k, n) ==
    \E j \in {k - 1, k + 1} \cap DOMAIN heap :
        /\ heap[j].free
        /\ heap[k].size + BlockSize + heap[j].size >= n

(* val_realloc to more, with room next to the block: join with every free  *)
(* neighbour, move the contents to the joined block and split it.          *)
ReallocInPlace(c, n) ==
    LET k == IndexOf(heap, c.ptr - BlockSize)
        lo == Min(Run(heap, k))
        joined == Coalesce(heap, k)
        ptr == joined[lo].addr + BlockSize
    IN  /\ heap[k].size < n
        /\ GrowsInPlace(k, n)
        /\ heap' = [Split(joined, lo, n) EXCEPT ![lo].free = FALSE]
        /\ magic' = Stamped(magic \ Invalidated(heap, k), joined, heap', ptr, n)
        /\ live' = (live \ {c}) \cup {[ptr |-> ptr, size |-> n]}
        /\ UNCHANGED fault

(* val_realloc to more, without: allocate, copy, free the old block.       *)
ReallocMove(c, n) ==
    LET old == IndexOf(heap, c.ptr - BlockSize)
        k == Min(Fitting(n))
        ptr == heap[k].addr + BlockSize
        g == [Split(heap, k, n) EXCEPT ![k].free = FALSE]
        o == IndexOf(g, c.ptr - BlockSize)
        h == [g EXCEPT ![o].free = TRUE]
    IN  /\ heap[old].size < n
        /\ ~GrowsInPlace(old, n)
        /\ Fitting(n) # {}
        /\ heap' = Coalesce(h, o)
        /\ magic' = Stamped(magic, heap, g, ptr, n) \ Invalidated(h, o)
        /\ live' = (live \ {c}) \cup {[ptr |-> ptr, size |-> n]}
        /\ UNCHANGED fault

(* val_realloc of a pointer the client holds, with a header before it.     *)
Realloc(c, n) ==
    /\ c.ptr - BlockSize \in magic \cap Headers(heap)
    /\ \/ ReallocShrink(c, n)
       \/ ReallocInPlace(c, n)
       \/ ReallocMove(c, n)

Allocate ==
    /\ Cardinality(live) < MaxLive
    /\ \/ \E n \in MallocSizes : Malloc(n)
       \/ \E nmemb \in 1 .. MaxMembers, n \in MallocSizes : Calloc(nmemb, n)
       \/ \E r \in AlignedRequests : AlignedAlloc(r[1], r[2])

Next ==
    /\ ~fault
    /\ \/ Allocate
       \/ \E c \in live : Free(c)
       \/ \E c \in live, n \in ReallocSizes : Realloc(c, n)

Spec == Init /\ [][Next]_vars

-----------------------------------------------------------------------------
(***************************************************************************)
(* Properties.                                                             *)
(***************************************************************************)
Region(c) == c.ptr .. c.ptr + c.size - 1

HeaderAt(a) == a .. a + BlockSize - 1

(* Whatever sequence of allocations, frees and reallocations led here, all *)
(* of sizes that are multiples of the header's where aligned memory is     *)
(* asked for, the memory the clients hold lies in the heap, no two of them *)
(* share any of it, and none of it is a header the allocator will read or  *)
(* write.                                                                  *)
NoOverlap ==
    \A c \in live :
        /\ Region(c) \subseteq 0 .. HeapSize - 1
        /\ \A d \in live \ {c} : Region(c) \cap Region(d) = {}
        /\ \A a \in Headers(heap) : Region(c) \cap HeaderAt(a) = {}

(* Every pointer a client holds has the header of its own block, in use    *)
(* and large enough, right before it, and every block in use belongs to a  *)
(* client: val_free and val_realloc find the block of whatever val_malloc, *)
(* val_realloc or val_aligned_alloc returned, and no block is lost.        *)
PointersHaveBlocks ==
    /\ { heap[k].addr + BlockSize : k \in { j \in DOMAIN heap : ~heap[j].free } }
           = { c.ptr : c \in live }
    /\ \A c \in live : \E k \in DOMAIN heap :
           heap[k].addr + BlockSize = c.ptr /\ heap[k].size >= c.size

(* The valid magic words are exactly those of the blocks in the list, so   *)
(* that val_free refuses a pointer it was given before: the header there   *)
(* is invalid, or is that of a free block.                                 *)
MagicMatchesList == magic = Headers(heap)

(* No two neighbours of the list are both free: val_free, and the splits   *)
(* of the other operations, leave nothing to join.                         *)
Coalesced ==
    \A k \in 1 .. Len(heap) - 1 : ~(heap[k].free /\ heap[k + 1].free)

Total(h) == MapThenSumSet(LAMBDA k : BlockSize + h[k].size, DOMAIN h)

(* No operation creates memory, and only val_aligned_alloc loses any: the  *)
(* rest it does not split off, at most a header and ALIGNMENT, in a step   *)
(* that hands out a new pointer.  What is lost in one step stays lost: the *)
(* loss over many allocations is not bounded.                              *)
BoundedLoss ==
    [][ \/ Total(heap') = Total(heap)
        \/ /\ Total(heap') < Total(heap)
           /\ Total(heap') >= Total(heap) - (BlockSize + 1)
           /\ live \subseteq live' /\ live' # live ]_vars

(* val_realloc returns: no operation on memory a client holds dereferences *)
(* a null pointer.                                                         *)
NeverFaults == ~fault
=============================================================================
