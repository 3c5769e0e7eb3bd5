------------------------------- MODULE Kheap --------------------------------
(***************************************************************************)
(* The kernel heap: kmalloc, kfree and krealloc, over a slab for small     *)
(* objects and a list of blocks for the others.                            *)
(* Sources: kernel/mm/heap.c, kernel/mm/slab.c and kmalloc, kfree and      *)
(* krealloc in kernel/mm/memory.c.  Each runs under kmalloc_lock, but for  *)
(* krealloc, which calls the other two.                                    *)
(*                                                                         *)
(* Sizes include the alloc_hdr of kmalloc.  The slab has one cache.  Only  *)
(* pointers that kmalloc returned are freed, each once.  krealloc is a     *)
(* Kmalloc and, if that got memory, a Kfree, with other calls in between.  *)
(***************************************************************************)
EXTENDS Integers, FiniteSets

CONSTANTS
    HeapSize,   \* HEAP_SIZE
    HdrSize,    \* sizeof(heap_block_t)
    MinRest,    \* what a split must leave: 16
    SlabMax,    \* the object size of the cache
    SlabPages,  \* the pages that it may get from alloc_page
    PerPage,    \* the objects in one
    Requests    \* the sizes that are asked for

ASSUME HeapAssumption    == HeapSize \in Nat /\ HdrSize \in Nat \ {0} /\ HdrSize <= HeapSize
ASSUME RestAssumption    == MinRest \in Nat
ASSUME SlabPagesAssumption == SlabPages \subseteq Nat \ {0}
ASSUME RequestAssumption == Requests \subseteq Nat \ {0}

Bytes == 0..HeapSize
SlabSlots == SlabPages \X (1..PerPage)

\* The place of an object: a slot, or an address in the heap, which is page 0.
InHeap(a) == <<0, a>>

VARIABLES
    blocks,    \* the heap_block_t at an address; the list goes on at the end of each
    slab,      \* the pages of the cache and its free slots
    live,      \* what kmalloc has given: the size, the magic that says from which, and where
    refused     \* the size that the last call could not get, 0 when it got it

heapListVars == <<blocks, slab, live, refused>>

HeapInit ==
    /\ blocks = [a \in {0} |-> [size |-> HeapSize - HdrSize, used |-> FALSE]]
    /\ slab = [pages |-> {}, free |-> {}]
    /\ live = {}
    /\ refused = 0

----------------------------------------------------------------------------
(* The list of blocks.                                                      *)

\* Where a block ends, which is where the next begins.
End(bs, a) == a + HdrSize + bs[a].size

IsFree(bs, a) == ~bs[a].used

\* The blocks that no free block comes before.
FollowsFree(bs, a) == \E b \in DOMAIN bs : IsFree(bs, b) /\ End(bs, b) = a
Heads(bs) == {a \in DOMAIN bs : IsFree(bs, a) /\ ~FollowsFree(bs, a)}

\* Where the free memory that starts at a ends.
RunEnd(bs, a) ==
    CHOOSE e \in Bytes :
       /\ e = HeapSize \/ (e \in DOMAIN bs /\ bs[e].used)
       /\ e > a /\ \A f \in DOMAIN bs : a < f /\ f < e => IsFree(bs, f)

RunSize(bs, a) == RunEnd(bs, a) - a - HdrSize

\* Mutant: the walk merges nothing, as before; only kfree does.
CoalescedNot(bs, limit) == bs

\* The list when every run that starts at or before limit is one block.
Coalesced(bs, limit) ==
    LET inner == {a \in DOMAIN bs : \E h \in Heads(bs) : h <= limit /\ h < a /\ a < RunEnd(bs, h)}
    IN  [a \in DOMAIN bs \ inner |->
           IF a \in Heads(bs) /\ a <= limit THEN [bs[a] EXCEPT !.size = RunSize(bs, a)]
           ELSE bs[a]]

\* The runs of free blocks that have room.
Fitting(bs, size) ==
    LET merged == Coalesced(bs, HeapSize)
    IN  {a \in DOMAIN merged : IsFree(merged, a) /\ merged[a].size >= size}

\* Block a is taken; what is left over becomes a block if it is large enough.
TakeBlock(bs, a, size) ==
    LET rest == bs[a].size - size - HdrSize
    IN  IF bs[a].size > size + HdrSize + MinRest
        THEN [b \in DOMAIN bs \cup {a + HdrSize + size} |->
                IF b = a THEN [size |-> size, used |-> TRUE]
                ELSE IF b = a + HdrSize + size THEN [size |-> rest, used |-> FALSE]
                ELSE bs[b]]
        ELSE [bs EXCEPT ![a].used = TRUE]

\* Mutant: the merged block forgets the header of the one that it absorbs.
FreeBlkShort(bs, a) ==
    LET next == End(bs, a)
    IN  IF next \in DOMAIN bs /\ IsFree(bs, next)
        THEN [b \in DOMAIN bs \ {next} |->
                IF b = a THEN [size |-> bs[a].size + bs[next].size, used |-> FALSE] ELSE bs[b]]
        ELSE [bs EXCEPT ![a].used = FALSE]

\* heap_free: one merge, with what follows.
FreeBlk(bs, a) ==
    LET next == End(bs, a)
    IN  IF next \in DOMAIN bs /\ IsFree(bs, next)
        THEN [b \in DOMAIN bs \ {next} |->
                IF b = a THEN [size |-> End(bs, next) - a - HdrSize, used |-> FALSE] ELSE bs[b]]
        ELSE [bs EXCEPT ![a].used = FALSE]
----------------------------------------------------------------------------
(* The calls.                                                               *)

Given(size, from, at) == [size |-> size, from |-> from, at |-> at]

Gets(size, from, at) == live' = live \cup {Given(size, from, at)} /\ refused' = 0

\* slab_alloc from a page that the cache has, or from a new one.
SlabAlloc(size) ==
    /\ size <= SlabMax
    /\ \/ \E s \in slab.free :
             slab' = [slab EXCEPT !.free = @ \ {s}] /\ Gets(size, "slab", s)
       \/ /\ slab.free = {}
          /\ \E page \in SlabPages \ slab.pages, k \in 1..PerPage :
                /\ slab' = [pages |-> slab.pages \cup {page},
                            free |-> ({page} \X (1..PerPage)) \ {<<page, k>>}]
                /\ Gets(size, "slab", <<page, k>>)
    /\ UNCHANGED blocks

\* heap_alloc: first fit, merging on the way.  Small objects come here when no page is to be had.
HeapAlloc(size) ==
    /\ size <= SlabMax => slab.free = {}
    /\ LET fits == Fitting(blocks, size)
       IN  \/ \E a \in fits :
                 /\ \A b \in fits : a <= b
                 /\ blocks' = TakeBlock(Coalesced(blocks, a), a, size)
                 /\ Gets(size, "heap", InHeap(a))
           \/ /\ fits = {}
              /\ blocks' = Coalesced(blocks, HeapSize)
              /\ refused' = size
              /\ UNCHANGED live
    /\ UNCHANGED slab

\* Mutant: the size decides, as before there were two magics.
KfreeBySize(l) ==
    /\ live' = live \ {l} /\ refused' = 0
    /\ IF l.size <= SlabMax
       THEN slab' = [slab EXCEPT !.free = @ \cup {l.at}] /\ UNCHANGED blocks
       ELSE blocks' = FreeBlk(blocks, l.at[2]) /\ UNCHANGED slab

\* kfree.
Kfree(l) ==
    /\ live' = live \ {l} /\ refused' = 0
    /\ IF l.from = "slab"
       THEN slab' = [slab EXCEPT !.free = @ \cup {l.at}] /\ UNCHANGED blocks
       ELSE blocks' = FreeBlk(blocks, l.at[2]) /\ UNCHANGED slab

HeapNext ==
    \/ \E size \in Requests : SlabAlloc(size) \/ HeapAlloc(size)
    \/ \E l \in live : Kfree(l)

HeapSpec == HeapInit /\ [][HeapNext]_heapListVars
=============================================================================
