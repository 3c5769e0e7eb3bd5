----------------------------- MODULE KheapProps -----------------------------
(***************************************************************************)
(* What the kernel heap has to guarantee.                                  *)
(***************************************************************************)
EXTENDS Kheap

\* The types of the variables.
HeapTypeOK ==
    /\ DOMAIN blocks \subseteq Bytes
    /\ \A a \in DOMAIN blocks : blocks[a] \in [size : Bytes, used : BOOLEAN]
    /\ slab.pages \subseteq SlabPages /\ slab.free \subseteq SlabSlots
    /\ \A l \in live : l.size \in Requests /\ l.at \in SlabSlots \cup {InHeap(a) : a \in Bytes}
    /\ refused \in Requests \cup {0}

\* The blocks cover the heap from one end to the other, each next to the one before, through every
\* split and every merge: none is lost, and no two overlap.
BlocksTile ==
    /\ 0 \in DOMAIN blocks
    /\ \A a \in DOMAIN blocks :
          /\ End(blocks, a) \in (DOMAIN blocks) \cup {HeapSize}
          /\ \A b \in DOMAIN blocks : a < b => End(blocks, a) <= b

\* What is given out is there, large enough, and given out once: a used block holds one object, a
\* slot that is not free holds one, and an object goes back where it came from.
GivenOnce ==
    /\ \A a \in DOMAIN blocks :
          blocks[a].used <=> \E l \in live : l.from = "heap" /\ l.at = InHeap(a)
    /\ \A s \in slab.pages \X (1..PerPage) :
          s \in slab.free <=> ~ \E l \in live : l.from = "slab" /\ l.at = s
    /\ \A l \in live :
          /\ \A k \in live : k.from = l.from /\ k.at = l.at => k = l
          /\ l.from = "heap" => l.at[2] \in DOMAIN blocks /\ blocks[l.at[2]].size >= l.size
          /\ l.from = "slab" => l.size <= SlabMax /\ l.at[1] \in slab.pages

\* The bytes that belong to no used block.
FreeBytes ==
    (0..(HeapSize - 1)) \ UNION {a..(End(blocks, a) - 1) : a \in {b \in DOMAIN blocks : blocks[b].used}}

\* A request is refused only when there is no room for it: no stretch of free memory, in whatever
\* order its pieces were freed, could hold the object and its header.
RefusedOnlyWhenFull ==
    refused # 0 =>
    \A a \in 0..(HeapSize - HdrSize - refused) :
       ~ (a..(a + HdrSize + refused - 1) \subseteq FreeBytes)
=============================================================================
