------------------------- MODULE AddressSpace_proofs -------------------------
(***************************************************************************)
(* What is proved about AddressSpace, for any number of spaces, pages and  *)
(* frames: the counts of the frame allocator are exact, the libc stays     *)
(* read-only, a writable page is private, and copy-on-write implements     *)
(* PrivateMemory.                                                          *)
(***************************************************************************)
EXTENDS AddressSpaceProps, FiniteSetTheorems, FunctionTheorems, TLAPS

----------------------------------------------------------------------------
(* The shape of a space, by where the kernel code is that works on it.      *)

Faulting == {"cowKeep", "cowAlloc", "cowCopy", "cowDrop", "cowMap"}
Holding  == {"cowCopy", "cowDrop", "cowMap"}
Cloning(p) == pc[p] \in {"clone", "cloneRef"}

\* What is known of a space from where its kernel code is.
Shape(p) ==
    /\ pc[p] = "none" => /\ root[p] = 0 /\ tab[p] = 0
                         /\ \A v \in Pages : pte[p][v].frame = 0
    /\ pc[p] # "none" => root[p] # 0
    /\ pc[p] \in {"spawn", "libRef"} => \A v \in Pages : pte[p][v].frame \in Libc \cup {0}
    /\ pc[p] = "libRef" => page[p] \in Libc
    /\ pc[p] \in {"fault", "unmap", "cloneRef"} \cup Faulting => page[p] \in Pages
    /\ pc[p] = "fault" => ~Present(p, page[p])
    /\ pc[p] \in {"cloneRef"} \cup Faulting => Present(p, page[p])
    /\ hold[p] # 0 <=> pc[p] \in Holding
    /\ hold[p] \notin Libc

\* What fork has not reached yet in the child's directory.
Ahead(p) == {v \in Pages : v > page[p] \/ (v = page[p] /\ At(p, "clone"))}

\* A fork builds a space that nobody else works on, and has copied it up to page[p].
Fork(p) ==
    Cloning(p) =>
    /\ child[p] # p
    /\ At(child[p], "embryo")
    /\ \A v \in Ahead(p) : ~Present(child[p], v)
    /\ At(p, "cloneRef") => pte[child[p]][page[p]].frame = pte[p][page[p]].frame

ShapeInv ==
    /\ TypeOK
    /\ Libc \cap free = {}
    /\ \A p \in Spaces : Shape(p) /\ Fork(p)
    /\ \A p, q \in Spaces : Cloning(p) /\ Cloning(q) /\ p # q => child[p] # child[q]

----------------------------------------------------------------------------
(* The libc.                                                                *)

LibcUnmarked ==
    \A p \in Spaces, v \in Pages :
        pte[p][v].frame \in Libc => ~pte[p][v].w /\ ~pte[p][v].cow

----------------------------------------------------------------------------
(* The counts.                                                              *)

Entries == Spaces \X Pages

\* The entry of the child that fork has installed and not counted yet.
Uncounts(d) == \E p \in Spaces : At(p, "cloneRef") /\ d = <<child[p], page[p]>>

\* The frame whose count an entry is part of.
Counted == [d \in Entries |-> IF Dropped(d[1], d[2]) \/ Uncounts(d) THEN 0
                              ELSE pte[d[1]][d[2]].frame]

Num(D, F, f) == Cardinality({d \in D : F[d] = f})
Refs(f) == Num(Entries, Counted, f) + Num(Spaces, tab, f) + Num(Spaces, root, f) + Num(Spaces, hold, f)

CountInv ==
    \A f \in Frames \ Libc : ref[f] = Refs(f) /\ (f \in free <=> ref[f] = 0)

\* A frame with leaf entries is one page of the program, the same in every space, and nothing else;
\* a frame that a handler holds is nobody else's.
KindInv ==
    \A f \in Frames \ Libc :
       /\ \A d \in Leaves(f) : /\ \A e \in Leaves(f) : e[2] = d[2]
                              /\ \A q \in Spaces : tab[q] # f /\ root[q] # f /\ hold[q] # f
       /\ \A p \in Spaces : hold[p] = f => \A q \in Spaces : tab[q] # f /\ root[q] # f /\ (hold[q] = f => q = p)

----------------------------------------------------------------------------
(* What makes a page private.                                               *)

Sole(p, v) == Leaves(pte[p][v].frame) = {<<p, v>>}

\* Where mprotect can make a page writable, every page is writable or copy-on-write already.
ReadyInv ==
    "rw" \in Prots =>
    \A p \in Spaces :
       /\ \A v \in Pages : Present(p, v) => pte[p][v].w \/ pte[p][v].cow
       /\ \A v \in Pages : prot[p][v] # "ro"
       /\ At(p, "fault") => prot[p][page[p]] = "rw"

\* A writable page is the only one of its frame, and so is the one that a handler goes on using.
PrivateInv ==
    /\ \A p \in Spaces, v \in Pages : pte[p][v].w => Present(p, v)
    /\ \A p \in Spaces, v \in Pages : pte[p][v].w /\ ~Dropped(p, v) => Sole(p, v)
    /\ \A p \in Spaces : At(p, "cowKeep") => Sole(p, page[p])

----------------------------------------------------------------------------
(* Lemmas about the operators.                                              *)

AllPc == {"none", "spawn", "libRef", "user", "fault", "cowKeep", "cowAlloc", "cowCopy",
          "cowDrop", "cowMap", "unmap", "clone", "cloneRef", "unfork", "embryo", "dying"}

\* Page 1 exists, where every walk over a space begins.
LEMMA SizeFacts == /\ NPages \in Nat /\ NFrames \in Nat /\ MaxRef \in Nat /\ NPages > 0
                   /\ MaxRef > 0 /\ 1 \in Pages /\ Pages \subseteq 1..(NPages + 1)
                   /\ 0 \notin Frames /\ Frames \subseteq 0..NFrames
                   /\ Libc \subseteq Pages /\ Libc \subseteq Frames
  BY SizeAssumption, LibcAssumption DEF Pages, Frames

\* The entry of a page is written by map_page or a handler: a directory keeps its shape.
LEMMA EntryWritten ==
    ASSUME NEW P \in [Spaces -> [Pages -> Entry]], NEW p \in Spaces, NEW v \in Pages, NEW e \in Entry
    PROVE  /\ [P EXCEPT ![p][v] = e] \in [Spaces -> [Pages -> Entry]]
           /\ \A q \in Spaces, u \in Pages :
                 [P EXCEPT ![p][v] = e][q][u] = IF q = p /\ u = v THEN e ELSE P[q][u]
<1> DEFINE row == [P[p] EXCEPT ![v] = e]
<1>1. row \in [Pages -> Entry] /\ \A u \in Pages : row[u] = IF u = v THEN e ELSE P[p][u]
  OBVIOUS
<1>2. [P EXCEPT ![p][v] = e] = [P EXCEPT ![p] = row]
  OBVIOUS
<1> HIDE DEF row
<1> QED
  BY <1>1, <1>2

\* alloc_page hands out a frame that is free; the libc stays out of the pool.
LEMMA Allocated ==
    ASSUME TypeOK, Libc \cap free = {}, NEW f \in Frames, Allocate(f)
    PROVE  /\ f \in free /\ f \notin Libc
           /\ (free \subseteq Frames)' /\ (ref \in [Frames -> 0..MaxRef])' /\ (Libc \cap free = {})'
  BY SizeFacts DEF TypeOK, Allocate, Lowest

\* free_page gives nothing of the libc back.
LEMMA Freed ==
    ASSUME TypeOK, Libc \cap free = {}, NEW f \in Frames, FreePage(f)
    PROVE  (free \subseteq Frames)' /\ (ref \in [Frames -> 0..MaxRef])' /\ (Libc \cap free = {})'
  BY SizeFacts DEF TypeOK, FreePage

\* page_incref changes no more than the count.
LEMMA Shared ==
    ASSUME TypeOK, Libc \cap free = {}, NEW f \in Frames, IncRef(f)
    PROVE  (free \subseteq Frames)' /\ (ref \in [Frames -> 0..MaxRef])' /\ (Libc \cap free = {})'
  BY SizeFacts DEF TypeOK, IncRef

\* The next page to work on is one of those asked for, and not behind.
LEMMA NextIsOne ==
    ASSUME NEW p \in Spaces, NEW S, NEW v \in NextOf(p, S)
    PROVE  v \in S /\ v >= page[p] /\ \A u \in S : u >= page[p] => v <= u
  BY DEF NextOf, Lowest

\* An entry that is there names a frame.
LEMMA PresentFrame ==
    ASSUME TypeOK, NEW p \in Spaces, NEW v \in Pages
    PROVE  /\ pte[p][v] \in Entry
           /\ pte[p][v].frame \in 0..NFrames
           /\ Present(p, v) <=> pte[p][v].frame \in Frames
  BY SizeFacts DEF TypeOK, Entry, Present, Frames

----------------------------------------------------------------------------
(* The shape of the spaces.                                                 *)

\* The part of a space that its shape is about.
Untouched(q) ==
    /\ root'[q] = root[q] /\ tab'[q] = tab[q] /\ pte'[q] = pte[q] /\ pc'[q] = pc[q]
    /\ page'[q] = page[q] /\ hold'[q] = hold[q] /\ child'[q] = child[q]

\* The kernel code that works on p touches the directory of p only, and p is no fork's child.
LEMMA LocalStep ==
    ASSUME ShapeInv, NEW p \in Spaces, TypeOK', (Libc \cap free = {})',
           \A q \in Spaces \ {p} : Untouched(q),
           pc[p] # "embryo", Shape(p)', Fork(p)',
           Cloning(p)' => Cloning(p) /\ child'[p] = child[p]
    PROVE  ShapeInv'
<1>1. ASSUME NEW q \in Spaces, q # p
      PROVE  Shape(q)' /\ Fork(q)'
  <2>1. Untouched(q) /\ Shape(q) /\ Fork(q)
    BY <1>1 DEF ShapeInv
  <2>2. Shape(q)'
    BY <2>1 DEF Untouched, Shape, Present
  <2>3. Cloning(q) => child[q] \in Spaces /\ child[q] # p
    BY <2>1 DEF ShapeInv, TypeOK, Fork, At
  <2>4. Cloning(q) => Untouched(child[q])
    BY <2>3
  <2>5. Fork(q)'
    BY <2>1, <2>3, <2>4 DEF Untouched, Fork, Cloning, At, Ahead, Present
  <2> QED
    BY <2>2, <2>5
<1>2. ASSUME NEW q \in Spaces, NEW r \in Spaces, (Cloning(q) /\ Cloning(r) /\ q # r)'
      PROVE  (child[q] # child[r])'
  BY <1>2 DEF ShapeInv, Untouched, Cloning
<1> QED
  BY <1>1, <1>2 DEF ShapeInv

\* elf_load_image begins with a cleared PML4.
LEMMA SpawnBeginShape ==
    ASSUME ShapeInv, NEW p \in Spaces, NEW f \in Frames, SpawnBegin(p, f)
    PROVE  ShapeInv'
<1> USE SizeFacts, ValueAssumption
<1>1. Allocate(f) /\ f # 0
  BY DEF SpawnBegin, AllocateZeroed
<1>2. (free \subseteq Frames)' /\ (ref \in [Frames -> 0..MaxRef])' /\ (Libc \cap free = {})'
  BY <1>1, Allocated DEF ShapeInv
<1>3. TypeOK'
  BY <1>2 DEF ShapeInv, TypeOK, SpawnBegin, AllocateZeroed, Goto
<1>4. \A q \in Spaces \ {p} : Untouched(q)
  BY DEF ShapeInv, TypeOK, SpawnBegin, Goto, Untouched
<1>5. Shape(p) /\ At(p, "none")
  BY DEF ShapeInv, SpawnBegin, Starts
<1>6. Shape(p)' /\ ~Cloning(p)'
  BY <1>1, <1>5 DEF ShapeInv, TypeOK, SpawnBegin, Goto, Shape, At, Present, Cloning, Faulting, Holding
<1> QED
  BY <1>2, <1>3, <1>4, <1>5, <1>6, LocalStep DEF At, Fork

\* map_page_ro makes the table.
LEMMA LibGrowShape ==
    ASSUME ShapeInv, NEW p \in Spaces, NEW f \in Frames, LibGrow(p, f)
    PROVE  ShapeInv'
<1> USE SizeFacts, ValueAssumption
<1>1. Allocate(f) /\ f # 0
  BY DEF LibGrow, AllocateZeroed
<1>2. (free \subseteq Frames)' /\ (ref \in [Frames -> 0..MaxRef])' /\ (Libc \cap free = {})'
  BY <1>1, Allocated DEF ShapeInv
<1>3. TypeOK'
  BY <1>2 DEF ShapeInv, TypeOK, LibGrow, AllocateZeroed
<1>4. \A q \in Spaces \ {p} : Untouched(q)
  BY DEF ShapeInv, TypeOK, LibGrow, Untouched
<1>5. Shape(p) /\ At(p, "spawn")
  BY DEF ShapeInv, LibGrow
<1>6. Shape(p)' /\ ~Cloning(p)'
  BY <1>1, <1>5 DEF ShapeInv, TypeOK, LibGrow, Shape, At, Present, Cloning, Faulting, Holding
<1> QED
  BY <1>2, <1>3, <1>4, <1>5, <1>6, LocalStep DEF At, Fork

\* map_page_ro puts the frame of the libc in.
LEMMA LibMapShape ==
    ASSUME ShapeInv, NEW p \in Spaces, LibMap(p)
    PROVE  ShapeInv'
<1> USE SizeFacts
<1>1. PICK v \in NextOf(p, Libc) :
          /\ pte' = IF tab[p] = 0 THEN pte
                    ELSE [pte EXCEPT ![p][v] = [frame |-> v, w |-> FALSE, cow |-> FALSE]]
          /\ prot' = [prot EXCEPT ![p][v] = "lib"]
          /\ page' = [page EXCEPT ![p] = v]
  BY DEF LibMap
<1> DEFINE e == [frame |-> v, w |-> FALSE, cow |-> FALSE]
<1>2. v \in Libc /\ v \in Pages /\ v \in Frames
  BY <1>1, NextIsOne
<1>3. e \in Entry /\ e.frame = v
  BY <1>2 DEF Entry
<1>4. /\ pte' \in [Spaces -> [Pages -> Entry]]
      /\ \A q \in Spaces, u \in Pages : q # p \/ u # v => pte'[q][u] = pte[q][u]
      /\ pte'[p][v] \in {pte[p][v], e}
  <2> HIDE DEF e
  <2>1. pte' = IF tab[p] = 0 THEN pte ELSE [pte EXCEPT ![p][v] = e]
    BY <1>1 DEF e
  <2> QED
    BY <2>1, <1>2, <1>3, EntryWritten DEF ShapeInv, TypeOK
<1>5. Shape(p) /\ At(p, "spawn")
  BY DEF ShapeInv, LibMap
<1> HIDE DEF e
<1>6. TypeOK'
  <2>1. prot' \in [Spaces -> [Pages -> {"none", "ro", "rw", "lib", "libw", "gone"}]]
    BY <1>1, <1>2 DEF ShapeInv, TypeOK
  <2> QED
    BY <1>1, <1>2, <1>4, <2>1 DEF ShapeInv, TypeOK, LibMap, Goto, allocVars
<1>7. \A q \in Spaces \ {p} : Untouched(q)
  <2>1. \A q \in Spaces \ {p} : pte'[q] = pte[q]
    BY <1>1 DEF ShapeInv, TypeOK
  <2> QED
    BY <1>1, <2>1 DEF ShapeInv, TypeOK, LibMap, Goto, Untouched
<1>8. Shape(p)' /\ ~Cloning(p)'
  <2>1. \A u \in Pages : pte'[p][u].frame \in Libc \cup {0}
    BY <1>2, <1>3, <1>4, <1>5 DEF Shape, At
  <2>2. pc'[p] = "libRef" /\ page'[p] = v /\ root'[p] = root[p] /\ hold'[p] = hold[p]
    BY <1>1 DEF ShapeInv, TypeOK, LibMap, Goto
  <2> QED
    BY <1>2, <1>5, <2>1, <2>2 DEF Shape, At, Cloning, Faulting, Holding
<1> QED
  BY <1>5, <1>6, <1>7, <1>8, LocalStep DEF ShapeInv, At, Fork, LibMap, allocVars

\* shared_libc_map counts the reference.
LEMMA LibRefShape ==
    ASSUME ShapeInv, NEW p \in Spaces, LibRef(p)
    PROVE  ShapeInv'
<1> USE SizeFacts
<1>1. Shape(p) /\ At(p, "libRef") /\ page[p] \in Libc
  BY DEF ShapeInv, LibRef, Shape, At
<1>2. (free \subseteq Frames)' /\ (ref \in [Frames -> 0..MaxRef])' /\ (Libc \cap free = {})'
  BY <1>1, Shared DEF ShapeInv, LibRef
<1>3. page' \in [Spaces -> 1..(NPages + 1)]
  BY <1>1 DEF ShapeInv, TypeOK, LibRef, Pages
<1>4. TypeOK'
  BY <1>2, <1>3 DEF ShapeInv, TypeOK, LibRef, Goto, spaceVars
<1>5. \A q \in Spaces \ {p} : Untouched(q)
  BY DEF ShapeInv, TypeOK, LibRef, Goto, Untouched, spaceVars
<1>6. Shape(p)' /\ ~Cloning(p)'
  BY <1>1 DEF ShapeInv, TypeOK, LibRef, Goto, Shape, At, Cloning, Faulting, Holding, spaceVars
<1> QED
  BY <1>1, <1>2, <1>4, <1>5, <1>6, LocalStep DEF At, Fork

\* What a step that leaves a space alone but for pc, page, prot and the entries keeps.
LEMMA SpawnDoneShape ==
    ASSUME ShapeInv, NEW p \in Spaces, SpawnDone(p)
    PROVE  ShapeInv'
<1> USE SizeFacts
<1>1. Shape(p) /\ At(p, "spawn")
  BY DEF ShapeInv, SpawnDone
<1>2. TypeOK'
  BY DEF ShapeInv, TypeOK, SpawnDone, Leave, Goto, spaceVars, allocVars
<1>3. \A q \in Spaces \ {p} : Untouched(q)
  BY DEF ShapeInv, TypeOK, SpawnDone, Leave, Goto, Untouched, spaceVars
<1>4. Shape(p)' /\ ~Cloning(p)'
  BY <1>1 DEF ShapeInv, TypeOK, SpawnDone, Leave, Goto, Shape, At, Cloning, Faulting, Holding, spaceVars
<1> QED
  BY <1>1, <1>2, <1>3, <1>4, LocalStep DEF ShapeInv, At, Fork, SpawnDone, allocVars

\* A store by the program changes the contents of a frame.
LEMMA WriteShape ==
    ASSUME ShapeInv, NEW p \in Spaces, NEW v \in Pages, NEW x \in Values, Write(p, v, x)
    PROVE  ShapeInv'
<1>1. TypeOK'
  BY DEF ShapeInv, TypeOK, Write, allocVars, spaceVars
<1> QED
  BY <1>1 DEF ShapeInv, Write, allocVars, spaceVars, Shape, Fork, Cloning, At, Ahead, Present

\* mmap only makes a region.
LEMMA MmapShape ==
    ASSUME ShapeInv, NEW p \in Spaces, NEW v \in Pages, NEW r \in MmapProts, Mmap(p, v, r)
    PROVE  ShapeInv'
<1>1. TypeOK'
  BY ProtAssumption DEF ShapeInv, TypeOK, Mmap, allocVars
<1> QED
  BY <1>1 DEF ShapeInv, Mmap, allocVars, Shape, Fork, Cloning, At, Ahead, Present

\* vm_handle_fault, a page that is not there.
LEMMA FaultShape ==
    ASSUME ShapeInv, NEW p \in Spaces, NEW v \in Pages, Fault(p, v)
    PROVE  ShapeInv'
<1> USE SizeFacts
<1>1. Shape(p) /\ At(p, "user")
  BY DEF ShapeInv, Fault, Starts
<1>2. TypeOK'
  BY DEF ShapeInv, TypeOK, Fault, Goto, spaceVars, allocVars
<1>3. \A q \in Spaces \ {p} : Untouched(q)
  BY DEF ShapeInv, TypeOK, Fault, Goto, Untouched, spaceVars
<1>4. Shape(p)' /\ ~Cloning(p)'
  BY <1>1 DEF ShapeInv, TypeOK, Fault, Goto, Shape, At, Cloning, Faulting, Holding, spaceVars, Present
<1> QED
  BY <1>1, <1>2, <1>3, <1>4, LocalStep DEF ShapeInv, At, Fork, Fault, allocVars

\* pte_ptr makes the table.
LEMMA FaultGrowShape ==
    ASSUME ShapeInv, NEW p \in Spaces, NEW f \in Frames, FaultGrow(p, f)
    PROVE  ShapeInv'
<1> USE SizeFacts, ValueAssumption
<1>1. Allocate(f) /\ f # 0
  BY DEF FaultGrow, AllocateZeroed
<1>2. (free \subseteq Frames)' /\ (ref \in [Frames -> 0..MaxRef])' /\ (Libc \cap free = {})'
  BY <1>1, Allocated DEF ShapeInv
<1>3. TypeOK'
  BY <1>2 DEF ShapeInv, TypeOK, FaultGrow, AllocateZeroed
<1>4. \A q \in Spaces \ {p} : Untouched(q)
  BY DEF ShapeInv, TypeOK, FaultGrow, Untouched
<1>5. Shape(p) /\ At(p, "fault")
  BY DEF ShapeInv, FaultGrow
<1>6. Shape(p)' /\ ~Cloning(p)'
  BY <1>1, <1>5 DEF ShapeInv, TypeOK, FaultGrow, Shape, At, Present, Cloning, Faulting, Holding
<1> QED
  BY <1>2, <1>3, <1>4, <1>5, <1>6, LocalStep DEF At, Fork

\* One entry of p is written, and p's kernel code is done.
LEMMA EntryShape ==
    ASSUME ShapeInv, NEW p \in Spaces, NEW e \in Entry,
           pc[p] \in {"fault", "unmap"} \cup Faulting,
           pte' = [pte EXCEPT ![p][page[p]] = e],
           Leave(p, "user"),
           UNCHANGED <<root, tab, child>>,
           hold' = [hold EXCEPT ![p] = 0],
           free' \subseteq Frames, ref' \in [Frames -> 0..MaxRef], Libc \cap free' = {},
           content' \in [Frames -> Values],
           prot' \in [Spaces -> [Pages -> {"none", "ro", "rw", "lib", "libw", "gone"}]]
    PROVE  ShapeInv'
<1> USE SizeFacts
<1>1. Shape(p) /\ page[p] \in Pages
  BY DEF ShapeInv, Shape
<1>2. pte' \in [Spaces -> [Pages -> Entry]]
  BY <1>1, EntryWritten DEF ShapeInv, TypeOK
<1>3. TypeOK'
  BY <1>2 DEF ShapeInv, TypeOK, Leave, Goto
<1>4. \A q \in Spaces \ {p} : Untouched(q)
  BY DEF ShapeInv, TypeOK, Leave, Goto, Untouched
<1>5. Shape(p)' /\ ~Cloning(p)' /\ pc[p] # "embryo"
  BY <1>1 DEF ShapeInv, TypeOK, Leave, Goto, Shape, Cloning, Faulting, Holding
<1> QED
  BY <1>3, <1>4, <1>5, LocalStep DEF Fork

\* pte_ptr and alloc_page give a page that was not there.
LEMMA FaultMapShape ==
    ASSUME ShapeInv, NEW p \in Spaces, NEW f \in Frames, FaultMap(p, f)
    PROVE  ShapeInv'
<1> USE SizeFacts, ValueAssumption
<1> DEFINE e == [frame |-> f, w |-> prot[p][page[p]] = "rw", cow |-> FALSE]
<1>1. Allocate(f) /\ e \in Entry /\ Shape(p) /\ At(p, "fault")
  BY DEF ShapeInv, FaultMap, AllocateZeroed, Entry
<1>2. (free \subseteq Frames)' /\ (ref \in [Frames -> 0..MaxRef])' /\ (Libc \cap free = {})'
  BY <1>1, Allocated DEF ShapeInv
<1>3. pte' = [pte EXCEPT ![p][page[p]] = e]
  BY DEF FaultMap
<1> HIDE DEF e
<1>4. content' \in [Frames -> Values] /\ Leave(p, "user") /\ hold[p] = 0
  BY <1>1 DEF ShapeInv, TypeOK, FaultMap, AllocateZeroed, Shape, At, Holding
<1>5. hold' = [hold EXCEPT ![p] = 0] /\ UNCHANGED <<root, tab, child, prot>>
  BY <1>4 DEF ShapeInv, TypeOK, FaultMap
<1> QED
  BY <1>1, <1>2, <1>3, <1>4, <1>5, EntryShape DEF ShapeInv, TypeOK, At

\* The handler gives up: nothing was allocated.
LEMMA FaultFailsShape ==
    ASSUME ShapeInv, NEW p \in Spaces, FaultFails(p)
    PROVE  ShapeInv'
<1> USE SizeFacts
<1>1. Shape(p) /\ pc[p] \in {"fault", "cowAlloc"}
  BY DEF ShapeInv, FaultFails
<1>2. TypeOK'
  BY DEF ShapeInv, TypeOK, FaultFails, Leave, Goto, spaceVars, allocVars
<1>3. \A q \in Spaces \ {p} : Untouched(q)
  BY DEF ShapeInv, TypeOK, FaultFails, Leave, Goto, Untouched, spaceVars
<1>4. Shape(p)' /\ ~Cloning(p)'
  BY <1>1 DEF ShapeInv, TypeOK, FaultFails, Leave, Goto, Shape, At, Cloning, Faulting, Holding, spaceVars
<1> QED
  BY <1>1, <1>2, <1>3, <1>4, LocalStep DEF ShapeInv, At, Fork, FaultFails, allocVars

\* vm_handle_fault, a copy-on-write page.
LEMMA CowFaultShape ==
    ASSUME ShapeInv, NEW p \in Spaces, NEW v \in Pages, CowFault(p, v)
    PROVE  ShapeInv'
<1> USE SizeFacts
<1>1. Shape(p) /\ At(p, "user")
  BY DEF ShapeInv, CowFault, Starts
<1>2. TypeOK'
  BY DEF ShapeInv, TypeOK, CowFault, Goto, spaceVars, allocVars
<1>3. \A q \in Spaces \ {p} : Untouched(q)
  BY DEF ShapeInv, TypeOK, CowFault, Goto, Untouched, spaceVars
<1>4. Shape(p)' /\ ~Cloning(p)'
  BY <1>1 DEF ShapeInv, TypeOK, CowFault, Goto, Shape, At, Cloning, Faulting, Holding, spaceVars, Present
<1> QED
  BY <1>1, <1>2, <1>3, <1>4, LocalStep DEF ShapeInv, At, Fork, CowFault, allocVars

\* The sole owner keeps the frame.
LEMMA CowKeepShape ==
    ASSUME ShapeInv, NEW p \in Spaces, CowKeep(p)
    PROVE  ShapeInv'
<1> DEFINE e == [frame |-> pte[p][page[p]].frame, w |-> TRUE, cow |-> FALSE]
<1>1. Shape(p) /\ At(p, "cowKeep") /\ page[p] \in Pages /\ hold[p] = 0
  BY DEF ShapeInv, CowKeep, Shape, At, Faulting, Holding
<1>2. e \in Entry
  BY <1>1, PresentFrame DEF ShapeInv, Entry
<1>3. pte' = [pte EXCEPT ![p][page[p]] = e]
  BY DEF CowKeep, MapsWritable
<1> HIDE DEF e
<1>4. hold' = [hold EXCEPT ![p] = 0]
  BY <1>1 DEF ShapeInv, TypeOK, CowKeep
<1>5. /\ free' \subseteq Frames /\ ref' \in [Frames -> 0..MaxRef] /\ Libc \cap free' = {}
      /\ content' \in [Frames -> Values]
      /\ prot' \in [Spaces -> [Pages -> {"none", "ro", "rw", "lib", "libw", "gone"}]]
  BY DEF ShapeInv, TypeOK, CowKeep, allocVars
<1> QED
  BY <1>1, <1>2, <1>3, <1>4, <1>5, EntryShape DEF CowKeep, At, Faulting

\* A frame for the copy.
LEMMA CowAllocShape ==
    ASSUME ShapeInv, NEW p \in Spaces, NEW f \in Frames, CowAlloc(p, f)
    PROVE  ShapeInv'
<1> USE SizeFacts
<1>1. Allocate(f) /\ f # 0 /\ Shape(p) /\ At(p, "cowAlloc")
  BY DEF ShapeInv, CowAlloc
<1>2. f \notin Libc
  BY <1>1, Allocated DEF ShapeInv
<1>3. (free \subseteq Frames)' /\ (ref \in [Frames -> 0..MaxRef])' /\ (Libc \cap free = {})'
  BY <1>1, Allocated DEF ShapeInv
<1>4. TypeOK'
  BY <1>3 DEF ShapeInv, TypeOK, CowAlloc, Goto, spaceVars
<1>5. \A q \in Spaces \ {p} : Untouched(q)
  BY DEF ShapeInv, TypeOK, CowAlloc, Goto, Untouched, spaceVars
<1>6. Shape(p)' /\ ~Cloning(p)'
  BY <1>1, <1>2 DEF ShapeInv, TypeOK, CowAlloc, Goto, Shape, At, Cloning, Faulting, Holding, spaceVars, Present
<1> QED
  BY <1>1, <1>3, <1>4, <1>5, <1>6, LocalStep DEF At, Fork

\* The copy.
LEMMA CowCopyShape ==
    ASSUME ShapeInv, NEW p \in Spaces, CowCopy(p)
    PROVE  ShapeInv'
<1> USE SizeFacts
<1>1. Shape(p) /\ At(p, "cowCopy") /\ page[p] \in Pages /\ pte[p][page[p]].frame \in Frames
  BY PresentFrame DEF ShapeInv, CowCopy, Shape, At, Faulting
<1>2. content' \in [Frames -> Values]
  BY <1>1 DEF ShapeInv, TypeOK, CowCopy
<1>3. TypeOK'
  BY <1>2 DEF ShapeInv, TypeOK, CowCopy, Goto, spaceVars, allocVars
<1>4. \A q \in Spaces \ {p} : Untouched(q)
  BY DEF ShapeInv, TypeOK, CowCopy, Goto, Untouched, spaceVars
<1>5. Shape(p)' /\ ~Cloning(p)'
  BY <1>1 DEF ShapeInv, TypeOK, CowCopy, Goto, Shape, At, Cloning, Faulting, Holding, spaceVars, Present
<1> QED
  BY <1>1, <1>3, <1>4, <1>5, LocalStep DEF ShapeInv, At, Fork, CowCopy, allocVars

\* The reference to the shared frame is given back.
LEMMA CowDropShape ==
    ASSUME ShapeInv, NEW p \in Spaces, CowDrop(p)
    PROVE  ShapeInv'
<1> USE SizeFacts
<1>1. Shape(p) /\ At(p, "cowDrop") /\ page[p] \in Pages /\ pte[p][page[p]].frame \in Frames
  BY PresentFrame DEF ShapeInv, CowDrop, Shape, At, Faulting
<1>2. (free \subseteq Frames)' /\ (ref \in [Frames -> 0..MaxRef])' /\ (Libc \cap free = {})'
  BY <1>1, Freed DEF ShapeInv, CowDrop
<1>3. TypeOK'
  BY <1>2 DEF ShapeInv, TypeOK, CowDrop, Goto, spaceVars
<1>4. \A q \in Spaces \ {p} : Untouched(q)
  BY DEF ShapeInv, TypeOK, CowDrop, Goto, Untouched, spaceVars
<1>5. Shape(p)' /\ ~Cloning(p)'
  BY <1>1 DEF ShapeInv, TypeOK, CowDrop, Goto, Shape, At, Cloning, Faulting, Holding, spaceVars, Present
<1> QED
  BY <1>1, <1>2, <1>3, <1>4, <1>5, LocalStep DEF At, Fork

\* The copy is mapped.
LEMMA CowMapShape ==
    ASSUME ShapeInv, NEW p \in Spaces, CowMap(p)
    PROVE  ShapeInv'
<1> DEFINE e == [frame |-> hold[p], w |-> TRUE, cow |-> FALSE]
<1>1. At(p, "cowMap")
  BY DEF CowMap
<1>2. e \in Entry
  BY DEF ShapeInv, TypeOK, Entry
<1>3. pte' = [pte EXCEPT ![p][page[p]] = e]
  BY DEF CowMap, MapsWritable
<1> HIDE DEF e
<1>4. /\ free' \subseteq Frames /\ ref' \in [Frames -> 0..MaxRef] /\ Libc \cap free' = {}
      /\ content' \in [Frames -> Values]
      /\ prot' \in [Spaces -> [Pages -> {"none", "ro", "rw", "lib", "libw", "gone"}]]
  BY DEF ShapeInv, TypeOK, CowMap, allocVars
<1> QED
  BY <1>1, <1>2, <1>3, <1>4, EntryShape DEF CowMap, At, Faulting

\* do_munmap gives the reference back.
LEMMA MunmapShape ==
    ASSUME ShapeInv, NEW p \in Spaces, NEW v \in Pages, Munmap(p, v)
    PROVE  ShapeInv'
<1> USE SizeFacts
<1>1. Shape(p) /\ At(p, "user") /\ (Present(p, v) => pte[p][v].frame \in Frames)
  BY PresentFrame DEF ShapeInv, Munmap, Starts
<1>2. (free \subseteq Frames)' /\ (ref \in [Frames -> 0..MaxRef])' /\ (Libc \cap free = {})'
  BY <1>1, Freed DEF ShapeInv, TypeOK, Munmap, allocVars
<1>3. TypeOK'
  BY <1>2 DEF ShapeInv, TypeOK, Munmap, Goto, spaceVars
<1>4. \A q \in Spaces \ {p} : Untouched(q)
  BY DEF ShapeInv, TypeOK, Munmap, Goto, Untouched, spaceVars
<1>5. Shape(p)' /\ ~Cloning(p)'
  BY <1>1 DEF ShapeInv, TypeOK, Munmap, Goto, Shape, At, Cloning, Faulting, Holding, spaceVars, Present
<1> QED
  BY <1>1, <1>2, <1>3, <1>4, <1>5, LocalStep DEF At, Fork

\* The entry is cleared.
LEMMA UnmapClearsShape ==
    ASSUME ShapeInv, NEW p \in Spaces, UnmapClears(p)
    PROVE  ShapeInv'
<1>1. At(p, "unmap") /\ Shape(p) /\ hold[p] = 0 /\ page[p] \in Pages
  BY DEF ShapeInv, UnmapClears, Shape, At, Holding
<1>2. Absent \in Entry
  BY SizeFacts DEF Absent, Entry
<1>3. pte' = [pte EXCEPT ![p][page[p]] = Absent]
  BY DEF UnmapClears
<1>4. /\ free' \subseteq Frames /\ ref' \in [Frames -> 0..MaxRef] /\ Libc \cap free' = {}
      /\ content' \in [Frames -> Values]
      /\ prot' \in [Spaces -> [Pages -> {"none", "ro", "rw", "lib", "libw", "gone"}]]
  BY <1>1 DEF ShapeInv, TypeOK, UnmapClears, allocVars
<1>5. hold' = [hold EXCEPT ![p] = 0]
  BY <1>1 DEF ShapeInv, TypeOK, UnmapClears
<1> QED
  BY <1>1, <1>2, <1>3, <1>4, <1>5, EntryShape DEF UnmapClears, At

\* do_mprotect changes the bits of an entry and not its frame.
LEMMA MprotectEntry ==
    ASSUME TypeOK, NEW p \in Spaces, NEW v \in Pages, NEW r \in Prots, Mprotect(p, v, r)
    PROVE  /\ pte' \in [Spaces -> [Pages -> Entry]]
           /\ \A q \in Spaces, u \in Pages :
                 /\ pte'[q][u].frame = pte[q][u].frame
                 /\ pte'[q][u].cow = pte[q][u].cow
                 /\ pte'[q][u].w = IF q = p /\ u = v /\ Present(p, v)
                                   THEN r = "rw" /\ ~pte[p][v].cow ELSE pte[q][u].w
<1> DEFINE e == [pte[p][v] EXCEPT !.w = r = "rw" /\ ~pte[p][v].cow]
<1>1. pte[p][v] \in Entry
  BY DEF TypeOK
<1>2. e \in Entry /\ e.frame = pte[p][v].frame /\ e.cow = pte[p][v].cow /\ e.w = (r = "rw" /\ ~pte[p][v].cow)
  BY <1>1 DEF Entry
<1>3. pte' = IF ~Present(p, v) THEN pte ELSE [pte EXCEPT ![p][v] = e]
  BY DEF Mprotect
<1> HIDE DEF e
<1>4. CASE Present(p, v)
  <2>1. /\ pte' \in [Spaces -> [Pages -> Entry]]
        /\ \A q \in Spaces, u \in Pages : pte'[q][u] = IF q = p /\ u = v THEN e ELSE pte[q][u]
    BY <1>2, <1>3, <1>4, EntryWritten DEF TypeOK
  <2> QED
    BY <2>1, <1>2, <1>4
<1>5. CASE ~Present(p, v)
  BY <1>3, <1>5 DEF TypeOK
<1> QED
  BY <1>4, <1>5

\* do_mprotect.
LEMMA MprotectShape ==
    ASSUME ShapeInv, NEW p \in Spaces, NEW v \in Pages, NEW r \in Prots, Mprotect(p, v, r)
    PROVE  ShapeInv'
<1>1. /\ pte' \in [Spaces -> [Pages -> Entry]]
      /\ \A q \in Spaces, u \in Pages : pte'[q][u].frame = pte[q][u].frame
  BY MprotectEntry DEF ShapeInv
<1>2. prot' \in [Spaces -> [Pages -> {"none", "ro", "rw", "lib", "libw", "gone"}]]
  BY ProtAssumption DEF ShapeInv, TypeOK, Mprotect, AfterMprotect, LibcProts
<1>3. TypeOK'
  BY <1>1, <1>2 DEF ShapeInv, TypeOK, Mprotect, allocVars
<1>4. UNCHANGED <<root, tab, pc, page, hold, child, free>>
  BY DEF Mprotect, allocVars
<1>5. \A q \in Spaces : Shape(q)'
  <2> TAKE q \in Spaces
  <2>1. Shape(q) /\ (page[q] \in Pages => pte'[q][page[q]].frame = pte[q][page[q]].frame)
    BY <1>1 DEF ShapeInv
  <2> QED
    BY <1>1, <1>4, <2>1 DEF Shape, Present
<1>6. \A q \in Spaces : Fork(q)'
  <2> TAKE q \in Spaces
  <2>1. Fork(q) /\ child[q] \in Spaces /\ (At(q, "cloneRef") => page[q] \in Pages)
    BY DEF ShapeInv, TypeOK, Shape, At
  <2> QED
    BY <1>1, <1>4, <2>1 DEF Fork, Cloning, At, Ahead, Present
<1> QED
  BY <1>3, <1>4, <1>5, <1>6 DEF ShapeInv, Cloning

\* clone_page_directory_cow begins with a cleared PML4 for the child.
LEMMA ForkBeginShape ==
    ASSUME ShapeInv, NEW p \in Spaces, NEW q \in Spaces, NEW f \in Frames, ForkBegin(p, q, f)
    PROVE  ShapeInv'
<1> USE SizeFacts, ValueAssumption
<1>1. Allocate(f) /\ f # 0 /\ At(p, "user") /\ At(q, "none") /\ p # q
  BY DEF ForkBegin, AllocateZeroed, Starts, At
<1>2. (free \subseteq Frames)' /\ (ref \in [Frames -> 0..MaxRef])' /\ (Libc \cap free = {})'
  BY <1>1, Allocated DEF ShapeInv
<1>3. TypeOK'
  BY <1>2 DEF ShapeInv, TypeOK, ForkBegin, AllocateZeroed
<1>4. \A r \in Spaces \ {p, q} : Untouched(r)
  BY DEF ShapeInv, TypeOK, ForkBegin, Untouched
<1>5. /\ pc'[p] = "clone" /\ pc'[q] = "embryo" /\ child'[p] = q /\ page'[p] = 1
      /\ root'[p] = root[p] /\ root'[q] = f /\ page'[q] = page[q] /\ child'[q] = child[q]
      /\ UNCHANGED <<tab, pte, hold>>
  BY <1>1 DEF ShapeInv, TypeOK, ForkBegin
<1>6. Shape(p) /\ Shape(q)
  BY DEF ShapeInv
<1>7. \A r \in Spaces : Shape(r)'
  <2>1. Shape(p)' /\ Shape(q)'
    BY <1>1, <1>5, <1>6 DEF Shape, At, Faulting, Holding
  <2>2. ASSUME NEW r \in Spaces \ {p, q} PROVE Shape(r)'
    BY <1>4 DEF ShapeInv, Untouched, Shape, Present
  <2> QED
    BY <2>1, <2>2
<1>8. \A r \in Spaces \ {p, q} : Cloning(r) => child[r] \in Spaces \ {p, q}
  BY <1>1 DEF ShapeInv, TypeOK, Fork, At
<1>9. \A r \in Spaces : Fork(r)'
  <2>1. Fork(p)'
    BY <1>1, <1>5, <1>6 DEF Fork, Cloning, At, Ahead, Present, Shape
  <2>2. Fork(q)'
    BY <1>5 DEF Fork, Cloning
  <2>3. ASSUME NEW r \in Spaces \ {p, q} PROVE Fork(r)'
    <3>1. Fork(r) /\ Untouched(r) /\ (Cloning(r) => Untouched(child[r]))
      BY <1>4, <1>8 DEF ShapeInv
    <3> QED
      BY <3>1 DEF Untouched, Fork, Cloning, At, Ahead, Present
  <2> QED
    BY <2>1, <2>2, <2>3
<1>10. ASSUME NEW r \in Spaces, NEW s \in Spaces, (Cloning(r) /\ Cloning(s) /\ r # s)'
       PROVE  (child[r] # child[s])'
  <2>1. r # q /\ s # q
    BY <1>5, <1>10 DEF Cloning
  <2> QED
    BY <2>1, <1>4, <1>5, <1>8, <1>10 DEF ShapeInv, Untouched, Cloning
<1> QED
  BY <1>2, <1>3, <1>7, <1>9, <1>10 DEF ShapeInv

\* pte_ptr makes a table in the child.
LEMMA CloneGrowShape ==
    ASSUME ShapeInv, NEW p \in Spaces, NEW f \in Frames, CloneGrow(p, f)
    PROVE  ShapeInv'
<1> USE SizeFacts, ValueAssumption
<1>1. Allocate(f) /\ At(p, "clone") /\ At(child[p], "embryo")
  BY DEF ShapeInv, CloneGrow, AllocateZeroed, Fork, Cloning, At
<1>2. (free \subseteq Frames)' /\ (ref \in [Frames -> 0..MaxRef])' /\ (Libc \cap free = {})'
  BY <1>1, Allocated DEF ShapeInv
<1>3. TypeOK'
  BY <1>2 DEF ShapeInv, TypeOK, CloneGrow, AllocateZeroed
<1>4. \A q \in Spaces : pc[q] = "none" => tab'[q] = tab[q]
  BY <1>1 DEF ShapeInv, TypeOK, CloneGrow, At
<1>5. \A q \in Spaces : Shape(q)'
  BY <1>4 DEF ShapeInv, CloneGrow, Shape, Present
<1>6. \A q \in Spaces : Fork(q)'
  BY DEF ShapeInv, CloneGrow, Fork, Cloning, At, Ahead, Present
<1> QED
  BY <1>2, <1>3, <1>5, <1>6 DEF ShapeInv, CloneGrow, Cloning

\* What CloneShare does to the entries.
LEMMA CloneShareEntries ==
    ASSUME ShapeInv, NEW p \in Spaces, CloneShare(p)
    PROVE  \E v \in Pages :
              /\ v \in NextLeaf(p) /\ Present(p, v) /\ v \in Ahead(p)
              /\ page' = [page EXCEPT ![p] = v]
              /\ pte' \in [Spaces -> [Pages -> Entry]]
              /\ \A q \in Spaces, u \in Pages :
                    LET e == pte[p][v]
                    IN  IF q \in {p, child[p]} /\ u = v
                        THEN pte'[q][u].frame = e.frame /\ ~pte'[q][u].w /\ pte'[q][u].cow = (e.w \/ e.cow)
                        ELSE pte'[q][u] = pte[q][u]
<1>1. PICK v \in NextLeaf(p) :
          /\ pte' = [pte EXCEPT ![p][v] = [pte[p][v] EXCEPT !.w = FALSE, !.cow = pte[p][v].w \/ pte[p][v].cow],
                                ![child[p]][v] = [pte[p][v] EXCEPT !.w = FALSE, !.cow = pte[p][v].w \/ pte[p][v].cow]]
          /\ page' = [page EXCEPT ![p] = v]
  BY DEF CloneShare
<1> DEFINE e == [pte[p][v] EXCEPT !.w = FALSE, !.cow = pte[p][v].w \/ pte[p][v].cow]
<1>2. v \in Pages /\ Present(p, v) /\ v >= page[p] /\ child[p] \in Spaces /\ At(p, "clone")
  BY NextIsOne DEF ShapeInv, TypeOK, NextLeaf, CloneShare
<1>3. pte[p][v] \in Entry /\ page[p] \in Int /\ v \in Int
  BY <1>2, SizeFacts DEF ShapeInv, TypeOK, Pages
<1>4. e \in Entry /\ e.frame = pte[p][v].frame /\ ~e.w /\ e.cow = (pte[p][v].w \/ pte[p][v].cow)
  BY <1>3 DEF Entry
<1>5. pte' = [pte EXCEPT ![p][v] = e, ![child[p]][v] = e]
  BY <1>1
<1> HIDE DEF e
<1>6. /\ pte' \in [Spaces -> [Pages -> Entry]]
      /\ \A q \in Spaces, u \in Pages : pte'[q][u] = IF q \in {p, child[p]} /\ u = v THEN e ELSE pte[q][u]
  <2>1. PICK c \in Spaces : c = child[p]
    BY <1>2
  <2>2. PICK d \in Entry : d = e
    BY <1>4
  <2>3. PICK u \in Pages : u = v
    BY <1>2
  <2> DEFINE one == [pte EXCEPT ![p][u] = d]
  <2>4. pte' = [one EXCEPT ![c][u] = d]
    BY <1>5, <2>1, <2>2, <2>3
  <2>5. /\ one \in [Spaces -> [Pages -> Entry]]
        /\ \A q \in Spaces, x \in Pages : one[q][x] = IF q = p /\ x = u THEN d ELSE pte[q][x]
    BY EntryWritten DEF ShapeInv, TypeOK
  <2> HIDE DEF one
  <2>6. /\ pte' \in [Spaces -> [Pages -> Entry]]
        /\ \A q \in Spaces, x \in Pages : pte'[q][x] = IF q = c /\ x = u THEN d ELSE one[q][x]
    BY <2>4, <2>5, EntryWritten
  <2> QED
    BY <2>1, <2>2, <2>3, <2>5, <2>6
<1>7. v \in Ahead(p)
  BY <1>2, <1>3 DEF Ahead
<1>8. \A q \in Spaces, u \in Pages :
         IF q \in {p, child[p]} /\ u = v
         THEN pte'[q][u].frame = pte[p][v].frame /\ ~pte'[q][u].w /\ pte'[q][u].cow = (pte[p][v].w \/ pte[p][v].cow)
         ELSE pte'[q][u] = pte[q][u]
  BY <1>4, <1>6
<1> QED
  BY <1>1, <1>2, <1>6, <1>7, <1>8

\* clone_page_directory_cow shares a page.
LEMMA CloneShareShape ==
    ASSUME ShapeInv, NEW p \in Spaces, CloneShare(p)
    PROVE  ShapeInv'
<1> USE SizeFacts
<1>1. PICK v \in Pages :
              /\ v \in NextLeaf(p) /\ Present(p, v) /\ v \in Ahead(p)
              /\ page' = [page EXCEPT ![p] = v]
              /\ pte' \in [Spaces -> [Pages -> Entry]]
              /\ \A q \in Spaces, u \in Pages :
                    LET e == pte[p][v]
                    IN  IF q \in {p, child[p]} /\ u = v
                        THEN pte'[q][u].frame = e.frame /\ ~pte'[q][u].w /\ pte'[q][u].cow = (e.w \/ e.cow)
                        ELSE pte'[q][u] = pte[q][u]
  BY CloneShareEntries
<1>c. PICK c \in Spaces : c = child[p]
  BY DEF ShapeInv, TypeOK
<1>2. At(p, "clone") /\ Cloning(p) /\ c # p /\ At(c, "embryo") /\ Shape(p) /\ Shape(c) /\ Fork(p)
  BY <1>c DEF ShapeInv, TypeOK, CloneShare, Cloning, Fork, At
<1>3. /\ pc' = [pc EXCEPT ![p] = "cloneRef"] /\ UNCHANGED <<free, ref, content, root, tab, prot, hold, child>>
  BY DEF CloneShare, Goto, allocVars
<1>4. TypeOK'
  BY <1>1, <1>3 DEF ShapeInv, TypeOK
<1>5. /\ pc'[p] = "cloneRef" /\ page'[p] = v /\ pc'[c] = "embryo" /\ page'[c] = page[c]
      /\ \A r \in Spaces \ {p} : pc'[r] = pc[r] /\ page'[r] = page[r]
  BY <1>1, <1>2, <1>3 DEF ShapeInv, TypeOK, At
<1>6. pte'[p][v].frame = pte[p][v].frame /\ pte'[c][v].frame = pte[p][v].frame
  BY <1>1, <1>2, <1>c
<1>7. \A r \in Spaces \ {p, c}, u \in Pages : pte'[r][u] = pte[r][u]
  BY <1>1, <1>c
<1>8. \A r \in Spaces : Shape(r)'
  <2>1. Shape(p)'
    BY <1>1, <1>2, <1>3, <1>5, <1>6 DEF Shape, At, Faulting, Holding, Present
  <2>2. Shape(c)'
    BY <1>2, <1>3, <1>5 DEF Shape, At, Faulting, Holding
  <2>3. ASSUME NEW r \in Spaces \ {p, c} PROVE Shape(r)'
    <3>1. Shape(r) /\ pc'[r] = pc[r] /\ page'[r] = page[r]
      BY <1>5 DEF ShapeInv
    <3>2. page[r] \in Pages => pte'[r][page[r]] = pte[r][page[r]]
      BY <1>7
    <3> QED
      BY <1>3, <1>7, <3>1, <3>2 DEF Shape, Present
  <2> QED
    BY <2>1, <2>2, <2>3
<1>9. \A r \in Spaces \ {p} : Cloning(r) => child[r] \in Spaces \ {p, c}
  BY <1>2, <1>c DEF ShapeInv, TypeOK, Fork, At
<1>10. \A r \in Spaces : Fork(r)'
  <2>1. Fork(p)'
    <3>1. \A u \in Ahead(p)' : u \in Ahead(p) /\ u # v
      BY <1>1, <1>2, <1>5 DEF Ahead, At, ShapeInv, TypeOK, Pages
    <3>2. \A u \in Ahead(p)' : u \in Pages /\ ~Present(c, u) /\ pte'[c][u] = pte[c][u]
      BY <3>1, <1>1, <1>2, <1>c DEF Fork, Ahead
    <3> QED
      BY <1>2, <1>3, <1>5, <1>6, <3>2, <1>c DEF Fork, At, Present
  <2>2. Fork(c)'
    BY <1>5 DEF Fork, Cloning
  <2>3. ASSUME NEW r \in Spaces \ {p, c} PROVE Fork(r)'
    <3>1. Fork(r) /\ pc'[r] = pc[r] /\ page'[r] = page[r] /\ Shape(r)
      BY <1>5 DEF ShapeInv
    <3>2. \A u \in Pages : pte'[r][u] = pte[r][u] /\ (Cloning(r) => pte'[child[r]][u] = pte[child[r]][u])
      BY <1>7, <1>9
    <3>3. Cloning(r) => pc'[child[r]] = pc[child[r]]
      BY <1>5, <1>9
    <3> QED
      BY <1>3, <3>1, <3>2, <3>3 DEF Fork, Cloning, At, Ahead, Present, Shape
  <2> QED
    BY <2>1, <2>2, <2>3
<1>11. \A r \in Spaces : Cloning(r)' => Cloning(r)
  BY <1>2, <1>5 DEF Cloning
<1> QED
  BY <1>3, <1>4, <1>8, <1>10, <1>11 DEF ShapeInv

\* page_incref counts what was shared.
LEMMA CloneRefShape ==
    ASSUME ShapeInv, NEW p \in Spaces, CloneRef(p)
    PROVE  ShapeInv'
<1> USE SizeFacts
<1>1. /\ Shape(p) /\ Fork(p) /\ At(p, "cloneRef") /\ page[p] \in Pages
      /\ pte[p][page[p]].frame \in Frames
  BY PresentFrame DEF ShapeInv, CloneRef, Shape, At, Faulting
<1>2. (free \subseteq Frames)' /\ (ref \in [Frames -> 0..MaxRef])' /\ (Libc \cap free = {})'
  BY <1>1, Shared DEF ShapeInv, CloneRef
<1>3. page' \in [Spaces -> 1..(NPages + 1)] /\ page'[p] = page[p] + 1
  BY <1>1 DEF ShapeInv, TypeOK, CloneRef, Pages
<1>4. TypeOK'
  BY <1>2, <1>3 DEF ShapeInv, TypeOK, CloneRef, Goto, spaceVars
<1>5. \A q \in Spaces \ {p} : Untouched(q)
  BY DEF ShapeInv, TypeOK, CloneRef, Goto, Untouched, spaceVars
<1>6. Shape(p)' /\ pc'[p] = "clone"
  BY <1>1 DEF ShapeInv, TypeOK, CloneRef, Goto, Shape, At, Cloning, Faulting, Holding, spaceVars
<1>7. Fork(p)'
  <2>1. child[p] # p /\ At(child[p], "embryo") /\ child[p] \in Spaces
    BY <1>1 DEF ShapeInv, TypeOK, Fork, Cloning, At
  <2>2. Ahead(p)' \subseteq Ahead(p)
    BY <1>1, <1>3, <1>6 DEF Ahead, At, Pages
  <2>3. child' = child /\ pte' = pte /\ pc'[child[p]] = pc[child[p]]
    BY <2>1 DEF ShapeInv, TypeOK, CloneRef, Goto, spaceVars
  <2> QED
    BY <1>1, <1>6, <2>1, <2>2, <2>3 DEF Fork, Cloning, At, Present
<1> QED
  BY <1>1, <1>2, <1>4, <1>5, <1>6, <1>7, LocalStep DEF At, Cloning, CloneRef, Goto

\* Two spaces change only where their kernel code is, and neither is in a fork any more.
LEMMA PairStep ==
    ASSUME ShapeInv, NEW p \in Spaces, NEW c \in Spaces, TypeOK', c = child[p], Cloning(p),
           UNCHANGED <<free, root, tab, pte, hold>>,
           pc'[p] \in {"user", "unfork"}, pc'[c] \in {"user", "dying"},
           \A q \in Spaces \ {p, c} : Untouched(q)
    PROVE  ShapeInv'
<1>1. /\ Fork(p) /\ Shape(p) /\ Shape(c) /\ c # p /\ At(c, "embryo")
  BY DEF ShapeInv, Fork
<1>2. \A q \in Spaces \ {p} : Cloning(q) => child[q] \in Spaces \ {p, c}
  BY <1>1 DEF ShapeInv, TypeOK, Fork, At, Cloning
<1>3. \A q \in Spaces : Cloning(q)' => q \notin {p, c} /\ Cloning(q)
  BY DEF Cloning, Untouched
<1>4. ASSUME NEW q \in Spaces PROVE Shape(q)' /\ Fork(q)'
  <2>1. CASE q \in {p, c}
    <3>1. Shape(q)'
      BY <1>1, <2>1 DEF Shape, At, Cloning, Faulting, Holding
    <3> QED
      BY <1>3, <2>1, <3>1 DEF Fork
  <2>2. CASE q \notin {p, c}
    <3>1. Shape(q) /\ Fork(q) /\ Untouched(q) /\ (Cloning(q) => Untouched(child[q]))
      BY <1>2, <2>2 DEF ShapeInv
    <3> QED
      BY <3>1 DEF Untouched, Shape, Fork, Cloning, At, Ahead, Present
  <2> QED
    BY <2>1, <2>2
<1>5. ASSUME NEW q \in Spaces, NEW r \in Spaces, (Cloning(q) /\ Cloning(r) /\ q # r)'
      PROVE  (child[q] # child[r])'
  BY <1>3, <1>5 DEF ShapeInv, Untouched
<1> QED
  BY <1>4, <1>5 DEF ShapeInv

\* The child is scheduled.
LEMMA ForkDoneShape ==
    ASSUME ShapeInv, NEW p \in Spaces, ForkDone(p)
    PROVE  ShapeInv'
<1> USE SizeFacts
<1>1. PICK c \in Spaces : c = child[p]
  BY DEF ShapeInv, TypeOK
<1>2. Cloning(p) /\ c # p
  BY <1>1 DEF ShapeInv, Fork, ForkDone, At, Cloning
<1>3. TypeOK'
  BY <1>1 DEF ShapeInv, TypeOK, ForkDone, allocVars
<1>4. pc'[p] = "user" /\ pc'[c] = "user" /\ \A q \in Spaces \ {p, c} : Untouched(q)
  BY <1>1, <1>2 DEF ShapeInv, TypeOK, ForkDone, Untouched
<1> QED
  BY <1>1, <1>2, <1>3, <1>4, PairStep DEF ForkDone, allocVars

\* What fork has built is given to free_page_directory.
LEMMA ForkFailsShape ==
    ASSUME ShapeInv, NEW p \in Spaces, ForkFails(p)
    PROVE  ShapeInv'
<1> USE SizeFacts
<1>1. PICK c \in Spaces : c = child[p]
  BY DEF ShapeInv, TypeOK
<1>2. Cloning(p) /\ c # p
  BY <1>1 DEF ShapeInv, Fork, ForkFails, At, Cloning
<1>3. TypeOK'
  BY <1>1 DEF ShapeInv, TypeOK, ForkFails, allocVars, spaceVars
<1>4. pc'[p] = "unfork" /\ pc'[c] = "dying" /\ \A q \in Spaces \ {p, c} : Untouched(q)
  BY <1>1, <1>2 DEF ShapeInv, TypeOK, ForkFails, Untouched, spaceVars
<1> QED
  BY <1>1, <1>2, <1>3, <1>4, PairStep DEF ForkFails, allocVars, spaceVars

\* fork returns an error.
LEMMA ForkUndoneShape ==
    ASSUME ShapeInv, NEW p \in Spaces, ForkUndone(p)
    PROVE  ShapeInv'
<1> USE SizeFacts
<1>1. Shape(p) /\ At(p, "unfork")
  BY DEF ShapeInv, ForkUndone
<1>2. TypeOK'
  BY DEF ShapeInv, TypeOK, ForkUndone, Goto, spaceVars, allocVars
<1>3. \A q \in Spaces \ {p} : Untouched(q)
  BY DEF ShapeInv, TypeOK, ForkUndone, Goto, Untouched, spaceVars
<1>4. Shape(p)' /\ ~Cloning(p)'
  BY <1>1 DEF ShapeInv, TypeOK, ForkUndone, Goto, Shape, At, Cloning, Faulting, Holding, spaceVars
<1> QED
  BY <1>1, <1>2, <1>3, <1>4, LocalStep DEF ShapeInv, At, Fork, ForkUndone, allocVars

\* do_exit.
LEMMA ExitShape ==
    ASSUME ShapeInv, NEW p \in Spaces, Exit(p)
    PROVE  ShapeInv'
<1> USE SizeFacts
<1>1. Shape(p) /\ At(p, "user")
  BY DEF ShapeInv, Exit, Starts
<1>2. TypeOK'
  BY DEF ShapeInv, TypeOK, Exit, Goto, spaceVars, allocVars
<1>3. \A q \in Spaces \ {p} : Untouched(q)
  BY DEF ShapeInv, TypeOK, Exit, Goto, Untouched, spaceVars
<1>4. Shape(p)' /\ ~Cloning(p)'
  BY <1>1 DEF ShapeInv, TypeOK, Exit, Goto, Shape, At, Cloning, Faulting, Holding, spaceVars
<1> QED
  BY <1>1, <1>2, <1>3, <1>4, LocalStep DEF ShapeInv, At, Fork, Exit, allocVars

\* What FreeLeaf does to the entries.
LEMMA FreeLeafEntries ==
    ASSUME ShapeInv, NEW p \in Spaces, FreeLeaf(p)
    PROVE  \E v \in Pages :
              /\ Present(p, v) /\ FreePage(pte[p][v].frame) /\ pte[p][v].frame \in Frames
              /\ pte' \in [Spaces -> [Pages -> Entry]]
              /\ \A q \in Spaces \ {p} : pte'[q] = pte[q]
              /\ \A q \in Spaces, u \in Pages :
                    pte'[q][u] = IF q = p /\ u = v THEN Absent ELSE pte[q][u]
<1>1. PICK v \in Lowest({v \in Pages : Present(p, v)}) :
          FreePage(pte[p][v].frame) /\ pte' = [pte EXCEPT ![p][v] = Absent]
  BY DEF FreeLeaf
<1>2. v \in Pages /\ Present(p, v) /\ Absent \in Entry
  BY SizeFacts DEF Lowest, Absent, Entry
<1>3. pte[p][v].frame \in Frames
  BY <1>2, PresentFrame DEF ShapeInv
<1> HIDE DEF Absent
<1>4. /\ pte' \in [Spaces -> [Pages -> Entry]]
      /\ \A q \in Spaces, u \in Pages : pte'[q][u] = IF q = p /\ u = v THEN Absent ELSE pte[q][u]
  BY <1>1, <1>2, EntryWritten DEF ShapeInv, TypeOK
<1>5. \A q \in Spaces \ {p} : pte'[q] = pte[q]
  BY <1>1 DEF ShapeInv, TypeOK
<1> QED
  BY <1>1, <1>2, <1>3, <1>4, <1>5

\* free_page_directory, a page.
LEMMA FreeLeafShape ==
    ASSUME ShapeInv, NEW p \in Spaces, FreeLeaf(p)
    PROVE  ShapeInv'
<1> USE SizeFacts
<1>1. PICK v \in Pages :
              /\ Present(p, v) /\ FreePage(pte[p][v].frame) /\ pte[p][v].frame \in Frames
              /\ pte' \in [Spaces -> [Pages -> Entry]]
              /\ \A q \in Spaces \ {p} : pte'[q] = pte[q]
              /\ \A q \in Spaces, u \in Pages :
                    pte'[q][u] = IF q = p /\ u = v THEN Absent ELSE pte[q][u]
  BY FreeLeafEntries
<1>2. Shape(p) /\ At(p, "dying")
  BY DEF ShapeInv, FreeLeaf
<1>3. (free \subseteq Frames)' /\ (ref \in [Frames -> 0..MaxRef])' /\ (Libc \cap free = {})'
  BY <1>1, Freed DEF ShapeInv
<1>4. TypeOK'
  BY <1>1, <1>3 DEF ShapeInv, TypeOK, FreeLeaf
<1>5. \A q \in Spaces \ {p} : Untouched(q)
  BY <1>1 DEF FreeLeaf, Untouched
<1>6. Shape(p)' /\ ~Cloning(p)'
  BY <1>2 DEF FreeLeaf, Shape, At, Cloning, Faulting, Holding
<1> QED
  BY <1>2, <1>3, <1>4, <1>5, <1>6, LocalStep DEF At, Fork

\* A table.
LEMMA FreeTableShape ==
    ASSUME ShapeInv, NEW p \in Spaces, FreeTable(p)
    PROVE  ShapeInv'
<1> USE SizeFacts
<1>1. Shape(p) /\ At(p, "dying") /\ tab[p] \in Frames
  BY DEF ShapeInv, TypeOK, FreeTable, Frames
<1>2. (free \subseteq Frames)' /\ (ref \in [Frames -> 0..MaxRef])' /\ (Libc \cap free = {})'
  BY <1>1, Freed DEF ShapeInv, FreeTable
<1>3. TypeOK'
  BY <1>2 DEF ShapeInv, TypeOK, FreeTable
<1>4. \A q \in Spaces \ {p} : Untouched(q)
  BY DEF ShapeInv, TypeOK, FreeTable, Untouched
<1>5. Shape(p)' /\ ~Cloning(p)'
  BY <1>1 DEF FreeTable, Shape, At, Cloning, Faulting, Holding
<1> QED
  BY <1>1, <1>2, <1>3, <1>4, <1>5, LocalStep DEF At, Fork

\* The PML4.
LEMMA FreeRootShape ==
    ASSUME ShapeInv, NEW p \in Spaces, FreeRoot(p)
    PROVE  ShapeInv'
<1> USE SizeFacts
<1>1. Shape(p) /\ At(p, "dying")
  BY DEF ShapeInv, FreeRoot
<1>2. root[p] \in Frames /\ \A v \in Pages : pte[p][v].frame = 0
  BY <1>1 DEF ShapeInv, TypeOK, FreeRoot, Shape, At, Frames, Present
<1>3. (free \subseteq Frames)' /\ (ref \in [Frames -> 0..MaxRef])' /\ (Libc \cap free = {})'
  BY <1>2, Freed DEF ShapeInv, FreeRoot
<1>4. TypeOK'
  BY <1>3 DEF ShapeInv, TypeOK, FreeRoot, Goto
<1>5. \A q \in Spaces \ {p} : Untouched(q)
  BY DEF ShapeInv, TypeOK, FreeRoot, Goto, Untouched
<1>6. Shape(p)' /\ ~Cloning(p)'
  BY <1>1, <1>2 DEF ShapeInv, TypeOK, FreeRoot, Goto, Shape, At, Cloning, Faulting, Holding
<1> QED
  BY <1>1, <1>3, <1>4, <1>5, <1>6, LocalStep DEF At, Fork

\* Nobody has a space.
LEMMA InitShape == Init => ShapeInv
<1> SUFFICES ASSUME Init PROVE ShapeInv
  OBVIOUS
<1> USE SizeFacts
<1>1. TypeOK
  BY ValueAssumption DEF Init, TypeOK, Absent, Entry
<1>2. ASSUME NEW p \in Spaces PROVE Shape(p) /\ ~Cloning(p)
  BY DEF Init, Shape, Cloning, Absent, Faulting, Holding
<1> QED
  BY <1>1, <1>2 DEF Init, ShapeInv, Fork

\* Every step keeps the shape of every space.
LEMMA NextShape == ShapeInv /\ [Next]_vars => ShapeInv'
<1> SUFFICES ASSUME ShapeInv, [Next]_vars PROVE ShapeInv'
  OBVIOUS
<1>1. CASE UNCHANGED vars
  BY <1>1 DEF vars, allocVars, spaceVars, ShapeInv, TypeOK, Shape, Fork, Cloning, At, Ahead, Present
<1>2. ASSUME NEW p \in Spaces, NEW f \in Frames, SpawnBegin(p, f) PROVE ShapeInv'
  BY <1>2, SpawnBeginShape
<1>3. ASSUME NEW p \in Spaces, UserStep(p) PROVE ShapeInv'
  BY <1>3, ExitShape, FaultShape, CowFaultShape, MunmapShape, WriteShape, MmapShape, MprotectShape,
     ForkBeginShape DEF UserStep
<1>4. ASSUME NEW p \in Spaces, SpawnStep(p) PROVE ShapeInv'
  BY <1>4, LibMapShape, LibRefShape, SpawnDoneShape, LibGrowShape DEF SpawnStep
<1>5. ASSUME NEW p \in Spaces, FaultStep(p) PROVE ShapeInv'
  BY <1>5, FaultFailsShape, FaultGrowShape, FaultMapShape DEF FaultStep
<1>6. ASSUME NEW p \in Spaces, CowStep(p) PROVE ShapeInv'
  BY <1>6, CowKeepShape, CowCopyShape, CowDropShape, CowMapShape, CowAllocShape DEF CowStep
<1>7. ASSUME NEW p \in Spaces, UnmapClears(p) PROVE ShapeInv'
  BY <1>7, UnmapClearsShape
<1>8. ASSUME NEW p \in Spaces, ForkStep(p) PROVE ShapeInv'
  BY <1>8, CloneShareShape, CloneRefShape, ForkDoneShape, ForkFailsShape, ForkUndoneShape,
     CloneGrowShape DEF ForkStep
<1>9. ASSUME NEW p \in Spaces, FreeStep(p) PROVE ShapeInv'
  BY <1>9, FreeLeafShape, FreeTableShape, FreeRootShape DEF FreeStep
<1> QED
  BY <1>1, <1>2, <1>3, <1>4, <1>5, <1>6, <1>7, <1>8, <1>9 DEF Next

\* Whatever fork, the faults, munmap, spawn and teardown do, on any number of cores and with any
\* amount of memory: a space that is being built is built by one task only, what a handler
\* works on is there, and no frame of the libc is in the pool.
THEOREM ShapeInvariance == Spec => []ShapeInv
  BY InitShape, NextShape, PTL DEF Spec

\* The directories, the counts and the places of the kernel code keep their types: no entry, table
\* or held frame is ever out of the range of the frames.
THEOREM TypeCorrect == Spec => []TypeOK
<1>1. ShapeInv => TypeOK
  BY DEF ShapeInv
<1> QED
  BY <1>1, ShapeInvariance, PTL

----------------------------------------------------------------------------
(* What the other steps that write entries do to them.                      *)

\* Only the entry of page v in p changes: its frame, and its two bits.
OneEntry(p, v, f, w, cow) ==
    /\ pte'[p][v].frame = f /\ pte'[p][v].w = w /\ pte'[p][v].cow = cow
    /\ \A q \in Spaces, u \in Pages : q # p \/ u # v => pte'[q][u] = pte[q][u]

\* An entry is written and nothing else of the directories.
LEMMA OneEntryWritten ==
    ASSUME ShapeInv, NEW p \in Spaces, NEW v \in Pages, NEW f \in 0..NFrames, NEW w \in BOOLEAN, NEW cow \in BOOLEAN,
           pte' = [pte EXCEPT ![p][v] = [frame |-> f, w |-> w, cow |-> cow]]
    PROVE  OneEntry(p, v, f, w, cow)
<1> DEFINE e == [frame |-> f, w |-> w, cow |-> cow]
<1>1. e \in Entry /\ e.frame = f /\ e.w = w /\ e.cow = cow
  BY DEF Entry
<1>2. pte' = [pte EXCEPT ![p][v] = e]
  OBVIOUS
<1> HIDE DEF e
<1>3. \A q \in Spaces, u \in Pages : pte'[q][u] = IF q = p /\ u = v THEN e ELSE pte[q][u]
  BY <1>1, <1>2, EntryWritten DEF ShapeInv, TypeOK
<1> QED
  BY <1>1, <1>3 DEF OneEntry

\* map_page_ro: nothing without a table, the page of the libc otherwise.
LEMMA LibMapEntries ==
    ASSUME ShapeInv, NEW p \in Spaces, LibMap(p)
    PROVE  \E v \in Libc : /\ page' = [page EXCEPT ![p] = v]
                           /\ pte' = pte \/ OneEntry(p, v, v, FALSE, FALSE)
<1>1. PICK v \in NextOf(p, Libc) :
          /\ pte' = IF tab[p] = 0 THEN pte
                    ELSE [pte EXCEPT ![p][v] = [frame |-> v, w |-> FALSE, cow |-> FALSE]]
          /\ page' = [page EXCEPT ![p] = v]
  BY DEF LibMap
<1>2. v \in Libc /\ v \in Pages /\ v \in 0..NFrames
  BY NextIsOne, SizeFacts
<1>3. pte' = pte \/ OneEntry(p, v, v, FALSE, FALSE)
  BY <1>1, <1>2, OneEntryWritten
<1> QED
  BY <1>1, <1>2, <1>3

\* A zeroed frame, writable as the region says.
LEMMA FaultMapEntries ==
    ASSUME ShapeInv, NEW p \in Spaces, NEW f \in Frames, FaultMap(p, f)
    PROVE  page[p] \in Pages /\ OneEntry(p, page[p], f, prot[p][page[p]] = "rw", FALSE)
<1>1. page[p] \in Pages /\ f \in 0..NFrames
  BY SizeFacts DEF ShapeInv, FaultMap, Shape, At
<1>2. PICK w \in BOOLEAN : w = (prot[p][page[p]] = "rw")
  OBVIOUS
<1>3. pte' = [pte EXCEPT ![p][page[p]] = [frame |-> f, w |-> w, cow |-> FALSE]]
  BY <1>2 DEF FaultMap
<1> QED
  BY <1>1, <1>2, <1>3, OneEntryWritten

\* The sole owner's entry becomes writable.
LEMMA CowKeepEntries ==
    ASSUME ShapeInv, NEW p \in Spaces, CowKeep(p)
    PROVE  page[p] \in Pages /\ OneEntry(p, page[p], pte[p][page[p]].frame, TRUE, FALSE)
<1>1. page[p] \in Pages /\ pte[p][page[p]].frame \in 0..NFrames
  BY PresentFrame DEF ShapeInv, CowKeep, Shape, At, Faulting
<1>2. pte' = [pte EXCEPT ![p][page[p]] = [frame |-> pte[p][page[p]].frame, w |-> TRUE, cow |-> FALSE]]
  BY DEF CowKeep, MapsWritable
<1> QED
  BY <1>1, <1>2, OneEntryWritten

\* The copy is mapped.
LEMMA CowMapEntries ==
    ASSUME ShapeInv, NEW p \in Spaces, CowMap(p)
    PROVE  page[p] \in Pages /\ OneEntry(p, page[p], hold[p], TRUE, FALSE)
<1>1. page[p] \in Pages /\ hold[p] \in 0..NFrames
  BY DEF ShapeInv, TypeOK, CowMap, Shape, At, Faulting
<1>2. pte' = [pte EXCEPT ![p][page[p]] = [frame |-> hold[p], w |-> TRUE, cow |-> FALSE]]
  BY DEF CowMap, MapsWritable
<1> QED
  BY <1>1, <1>2, OneEntryWritten

\* The entry is cleared.
LEMMA UnmapClearsEntries ==
    ASSUME ShapeInv, NEW p \in Spaces, UnmapClears(p)
    PROVE  page[p] \in Pages /\ OneEntry(p, page[p], 0, FALSE, FALSE)
<1>1. page[p] \in Pages /\ 0 \in 0..NFrames
  BY SizeFacts DEF ShapeInv, UnmapClears, Shape, At
<1>2. pte' = [pte EXCEPT ![p][page[p]] = [frame |-> 0, w |-> FALSE, cow |-> FALSE]]
  BY DEF UnmapClears, Absent
<1> QED
  BY <1>1, <1>2, OneEntryWritten

\* A page is given back.
LEMMA FreeLeafOne ==
    ASSUME ShapeInv, NEW p \in Spaces, FreeLeaf(p)
    PROVE  \E v \in Pages : /\ Present(p, v) /\ FreePage(pte[p][v].frame) /\ pte[p][v].frame \in Frames
                            /\ OneEntry(p, v, 0, FALSE, FALSE)
  BY FreeLeafEntries DEF OneEntry, Absent

\* The steps that write no entry.
LEMMA EntriesKept ==
    ASSUME NEW p \in Spaces,
           \/ \E f \in Frames : \/ SpawnBegin(p, f) \/ LibGrow(p, f) \/ FaultGrow(p, f) \/ CowAlloc(p, f)
                                \/ CloneGrow(p, f) \/ \E q \in Spaces : ForkBegin(p, q, f)
           \/ LibRef(p) \/ SpawnDone(p) \/ FaultFails(p) \/ CowCopy(p) \/ CowDrop(p) \/ CloneRef(p)
           \/ ForkDone(p) \/ ForkFails(p) \/ ForkUndone(p) \/ Exit(p) \/ FreeTable(p) \/ FreeRoot(p)
           \/ \E v \in Pages : \/ Fault(p, v) \/ CowFault(p, v) \/ Munmap(p, v)
                               \/ (\E x \in Values : Write(p, v, x)) \/ (\E r \in MmapProts : Mmap(p, v, r))
    PROVE  pte' = pte
  BY DEF SpawnBegin, LibGrow, FaultGrow, CowAlloc, CloneGrow, ForkBegin, LibRef, SpawnDone, FaultFails,
         CowCopy, CowDrop, CloneRef, ForkDone, ForkFails, ForkUndone, Exit, FreeTable, FreeRoot, Fault,
         CowFault, Munmap, Write, Mmap, spaceVars

----------------------------------------------------------------------------
(* The libc is never writable.                                              *)

\* The handler makes writable only what is marked copy-on-write, and the libc never is.
LibcInv ==
    /\ LibcUnmarked
    /\ \A p \in Spaces : At(p, "cowKeep") => pte[p][page[p]].cow

\* No directory changes, and a handler begins only with a page that is marked.
LEMMA LibcKept ==
    ASSUME LibcInv, pte' = pte,
           \A p \in Spaces : pc'[p] = "cowKeep" =>
              (pc[p] = "cowKeep" /\ page'[p] = page[p]) \/ pte[p][page'[p]].cow
    PROVE  LibcInv'
  BY DEF LibcInv, LibcUnmarked, At

\* One entry changes, to one that is not a writable page of the libc.
LEMMA LibcOneEntry ==
    ASSUME LibcInv, NEW p \in Spaces, NEW v \in Pages, NEW f, NEW w, NEW cow,
           OneEntry(p, v, f, w, cow), f \in Libc => ~w /\ ~cow,
           pc'[p] # "cowKeep",
           \A q \in Spaces \ {p} : pc'[q] = pc[q] /\ page'[q] = page[q],
           \A q \in Spaces : At(q, "cowKeep") => page[q] \in Pages
    PROVE  LibcInv'
<1>1. LibcUnmarked'
  BY DEF LibcInv, LibcUnmarked, OneEntry
<1>2. ASSUME NEW q \in Spaces, At(q, "cowKeep")' PROVE (pte[q][page[q]].cow)'
  <2>1. q # p /\ At(q, "cowKeep") /\ page'[q] = page[q] /\ page[q] \in Pages
    BY <1>2 DEF At
  <2> QED
    BY <2>1 DEF LibcInv, OneEntry
<1> QED
  BY <1>1, <1>2 DEF LibcInv

\* Every step keeps the libc, if mprotect is not asked to make anything writable.
LEMMA LibcNext ==
    ASSUME "rw" \notin Prots \/ Libc = {}, ShapeInv, LibcInv, [Next]_vars
    PROVE  LibcInv'
<1> USE SizeFacts
<1>0. \A q \in Spaces : At(q, "cowKeep") => page[q] \in Pages
  BY DEF ShapeInv, Shape, At, Faulting
<1>1. CASE UNCHANGED vars
  BY <1>1 DEF vars, spaceVars, LibcInv, LibcUnmarked, At
<1>2. ASSUME NEW p \in Spaces, NEW f \in Frames, SpawnBegin(p, f) PROVE LibcInv'
  BY <1>2, LibcKept DEF SpawnBegin, Goto, ShapeInv, TypeOK
<1>3. ASSUME NEW p \in Spaces, UserStep(p) PROVE LibcInv'
  <2>1. CASE Exit(p)
    BY <2>1, LibcKept DEF Exit, Goto, spaceVars, ShapeInv, TypeOK
  <2>2. ASSUME NEW v \in Pages, Fault(p, v) PROVE LibcInv'
    BY <2>2, LibcKept DEF Fault, Goto, spaceVars, ShapeInv, TypeOK
  <2>3. ASSUME NEW v \in Pages, CowFault(p, v) PROVE LibcInv'
    <3>1. page'[p] = v /\ pte[p][v].cow /\ pte' = pte
      BY <2>3 DEF CowFault, spaceVars, ShapeInv, TypeOK
    <3>2. \A q \in Spaces \ {p} : pc'[q] = pc[q] /\ page'[q] = page[q]
      BY <2>3 DEF CowFault, Goto, ShapeInv, TypeOK
    <3> QED
      BY <3>1, <3>2, LibcKept
  <2>4. ASSUME NEW v \in Pages, Munmap(p, v) PROVE LibcInv'
    BY <2>4, LibcKept DEF Munmap, Goto, spaceVars, ShapeInv, TypeOK
  <2>5. ASSUME NEW v \in Pages, NEW x \in Values, Write(p, v, x) PROVE LibcInv'
    BY <2>5, LibcKept DEF Write, spaceVars
  <2>6. ASSUME NEW v \in Pages, NEW r \in MmapProts, Mmap(p, v, r) PROVE LibcInv'
    BY <2>6, LibcKept DEF Mmap
  <2>7. ASSUME NEW v \in Pages, NEW r \in Prots, Mprotect(p, v, r) PROVE LibcInv'
    <3>1. \A q \in Spaces, u \in Pages :
                 /\ pte'[q][u].frame = pte[q][u].frame
                 /\ pte'[q][u].cow = pte[q][u].cow
                 /\ pte'[q][u].w = IF q = p /\ u = v /\ Present(p, v)
                                   THEN r = "rw" /\ ~pte[p][v].cow ELSE pte[q][u].w
      BY <2>7, MprotectEntry DEF ShapeInv
    <3>2. ASSUME NEW q \in Spaces, NEW u \in Pages, pte'[q][u].frame \in Libc
          PROVE  ~pte'[q][u].w /\ ~pte'[q][u].cow
      <4>1. pte[q][u].frame \in Libc /\ ~pte[q][u].w /\ ~pte[q][u].cow
        BY <3>1, <3>2 DEF LibcInv, LibcUnmarked
      <4>2. ~pte'[q][u].cow
        BY <3>1, <4>1, Zenon
      <4>3. r # "rw"
        BY <4>1
      <4>4. ~pte'[q][u].w
        BY <3>1, <4>1, <4>3, Zenon
      <4> QED
        BY <4>2, <4>4
    <3>3. pc' = pc /\ page' = page
      BY <2>7 DEF Mprotect
    <3> QED
      <4>1. LibcUnmarked'
        BY <3>2 DEF LibcUnmarked
      <4>2. ASSUME NEW q \in Spaces, At(q, "cowKeep")' PROVE (pte[q][page[q]].cow)'
        <5>1. At(q, "cowKeep") /\ page'[q] = page[q]
          BY <3>3, <4>2 DEF At
        <5>2. pte[q][page[q]].cow /\ page[q] \in Pages
          BY <1>0, <5>1 DEF LibcInv
        <5> QED
          BY <3>1, <5>1, <5>2, Zenon
      <4> QED
        BY <4>1, <4>2 DEF LibcInv
  <2>8. ASSUME NEW q \in Spaces, NEW f \in Frames, ForkBegin(p, q, f) PROVE LibcInv'
    BY <2>8, LibcKept DEF ForkBegin, ShapeInv, TypeOK
  <2> QED
    BY <1>3, <2>1, <2>2, <2>3, <2>4, <2>5, <2>6, <2>7, <2>8 DEF UserStep
<1>4. ASSUME NEW p \in Spaces, SpawnStep(p) PROVE LibcInv'
  <2>1. CASE LibMap(p)
    <3>1. PICK v \in Libc : /\ page' = [page EXCEPT ![p] = v]
                            /\ pte' = pte \/ OneEntry(p, v, v, FALSE, FALSE)
      BY <2>1, LibMapEntries
    <3>2. pc' = [pc EXCEPT ![p] = "libRef"]
      BY <2>1 DEF LibMap, Goto
    <3>3. \A q \in Spaces \ {p} : pc'[q] = pc[q] /\ page'[q] = page[q]
      BY <3>1, <3>2 DEF ShapeInv, TypeOK
    <3>4. pc'[p] # "cowKeep"
      BY <3>2 DEF ShapeInv, TypeOK
    <3>5. CASE pte' = pte
      BY <3>3, <3>4, <3>5, LibcKept
    <3>6. CASE OneEntry(p, v, v, FALSE, FALSE)
      BY <1>0, <3>3, <3>4, <3>6, LibcOneEntry
    <3> QED
      BY <3>1, <3>5, <3>6
  <2>2. CASE LibRef(p)
    BY <2>2, LibcKept DEF LibRef, Goto, spaceVars, ShapeInv, TypeOK
  <2>3. CASE SpawnDone(p)
    BY <2>3, LibcKept DEF SpawnDone, Leave, Goto, spaceVars, ShapeInv, TypeOK
  <2>4. ASSUME NEW f \in Frames, LibGrow(p, f) PROVE LibcInv'
    BY <2>4, LibcKept DEF LibGrow
  <2> QED
    BY <1>4, <2>1, <2>2, <2>3, <2>4 DEF SpawnStep
<1>5. ASSUME NEW p \in Spaces, FaultStep(p) PROVE LibcInv'
  <2>1. CASE FaultFails(p)
    BY <2>1, LibcKept DEF FaultFails, Leave, Goto, spaceVars, ShapeInv, TypeOK
  <2>2. ASSUME NEW f \in Frames, FaultGrow(p, f) PROVE LibcInv'
    BY <2>2, LibcKept DEF FaultGrow
  <2>3. ASSUME NEW f \in Frames, FaultMap(p, f) PROVE LibcInv'
    <3>1. page[p] \in Pages /\ OneEntry(p, page[p], f, prot[p][page[p]] = "rw", FALSE)
      BY <2>3, FaultMapEntries
    <3>2. f \notin Libc
      BY <2>3, Allocated DEF ShapeInv, FaultMap, AllocateZeroed
    <3>3. pc'[p] = "user" /\ \A q \in Spaces \ {p} : pc'[q] = pc[q] /\ page'[q] = page[q]
      BY <2>3 DEF FaultMap, Leave, Goto, ShapeInv, TypeOK
    <3> QED
      BY <1>0, <3>1, <3>2, <3>3, LibcOneEntry
  <2> QED
    BY <1>5, <2>1, <2>2, <2>3 DEF FaultStep
<1>6. ASSUME NEW p \in Spaces, CowStep(p) PROVE LibcInv'
  <2>1. CASE CowKeep(p)
    <3>1. page[p] \in Pages /\ OneEntry(p, page[p], pte[p][page[p]].frame, TRUE, FALSE)
      BY <2>1, CowKeepEntries
    <3>2. pte[p][page[p]].frame \notin Libc
      BY <2>1, <3>1 DEF CowKeep, LibcInv, LibcUnmarked
    <3>3. pc'[p] = "user" /\ \A q \in Spaces \ {p} : pc'[q] = pc[q] /\ page'[q] = page[q]
      BY <2>1 DEF CowKeep, Leave, Goto, ShapeInv, TypeOK
    <3> QED
      BY <1>0, <3>1, <3>2, <3>3, LibcOneEntry
  <2>2. CASE CowCopy(p)
    BY <2>2, LibcKept DEF CowCopy, Goto, spaceVars, ShapeInv, TypeOK
  <2>3. CASE CowDrop(p)
    BY <2>3, LibcKept DEF CowDrop, Goto, spaceVars, ShapeInv, TypeOK
  <2>4. CASE CowMap(p)
    <3>1. page[p] \in Pages /\ OneEntry(p, page[p], hold[p], TRUE, FALSE)
      BY <2>4, CowMapEntries
    <3>2. hold[p] \notin Libc
      BY DEF ShapeInv, Shape
    <3>3. pc'[p] = "user" /\ \A q \in Spaces \ {p} : pc'[q] = pc[q] /\ page'[q] = page[q]
      BY <2>4 DEF CowMap, Leave, Goto, ShapeInv, TypeOK
    <3> QED
      BY <1>0, <3>1, <3>2, <3>3, LibcOneEntry
  <2>5. ASSUME NEW f \in Frames, CowAlloc(p, f) PROVE LibcInv'
    BY <2>5, LibcKept DEF CowAlloc, Goto, spaceVars, ShapeInv, TypeOK
  <2> QED
    BY <1>6, <2>1, <2>2, <2>3, <2>4, <2>5 DEF CowStep
<1>7. ASSUME NEW p \in Spaces, UnmapClears(p) PROVE LibcInv'
  <2>1. page[p] \in Pages /\ OneEntry(p, page[p], 0, FALSE, FALSE)
    BY <1>7, UnmapClearsEntries
  <2>2. pc'[p] = "user" /\ \A q \in Spaces \ {p} : pc'[q] = pc[q] /\ page'[q] = page[q]
    BY <1>7 DEF UnmapClears, Leave, Goto, ShapeInv, TypeOK
  <2> QED
    BY <1>0, <2>1, <2>2, LibcOneEntry
<1>8. ASSUME NEW p \in Spaces, ForkStep(p) PROVE LibcInv'
  <2>1. CASE CloneShare(p)
    <3>1. PICK v \in Pages :
              /\ \A q \in Spaces, u \in Pages :
                    LET e == pte[p][v]
                    IN  IF q \in {p, child[p]} /\ u = v
                        THEN pte'[q][u].frame = e.frame /\ ~pte'[q][u].w /\ pte'[q][u].cow = (e.w \/ e.cow)
                        ELSE pte'[q][u] = pte[q][u]
              /\ page' = [page EXCEPT ![p] = v]
      BY <2>1, CloneShareEntries
    <3>2. ASSUME NEW q \in Spaces, NEW u \in Pages, pte'[q][u].frame \in Libc
          PROVE  ~pte'[q][u].w /\ ~pte'[q][u].cow
      <4>1. CASE q \in {p, child[p]} /\ u = v
        <5>1. pte[p][v].frame \in Libc
          BY <3>1, <3>2, <4>1
        <5>2. ~pte[p][v].w /\ ~pte[p][v].cow
          BY <5>1 DEF LibcInv, LibcUnmarked
        <5> QED
          BY <3>1, <4>1, <5>2, Zenon
      <4>2. CASE ~(q \in {p, child[p]} /\ u = v)
        BY <3>1, <3>2, <4>2 DEF LibcInv, LibcUnmarked
      <4> QED
        BY <4>1, <4>2
    <3>3. \A q \in Spaces : pc'[q] = "cowKeep" => q # p /\ pc[q] = "cowKeep" /\ page'[q] = page[q]
      BY <2>1, <3>1 DEF CloneShare, Goto, ShapeInv, TypeOK
    <3>4. At(child[p], "embryo")
      BY <2>1 DEF CloneShare, ShapeInv, Fork, Cloning, At
    <3>5. \A q \in Spaces : pc'[q] = "cowKeep" => pte'[q][page[q]] = pte[q][page[q]]
      BY <1>0, <3>1, <3>3, <3>4 DEF At
    <3> QED
      BY <3>2, <3>3, <3>5 DEF LibcInv, LibcUnmarked, At
  <2>2. CASE CloneRef(p)
    BY <2>2, LibcKept DEF CloneRef, Goto, spaceVars, ShapeInv, TypeOK
  <2>3. CASE ForkDone(p)
    BY <2>3, LibcKept DEF ForkDone, ShapeInv, TypeOK
  <2>4. CASE ForkFails(p)
    BY <2>4, LibcKept DEF ForkFails, spaceVars, ShapeInv, TypeOK
  <2>5. CASE ForkUndone(p)
    BY <2>5, LibcKept DEF ForkUndone, Goto, spaceVars, ShapeInv, TypeOK
  <2>6. ASSUME NEW f \in Frames, CloneGrow(p, f) PROVE LibcInv'
    BY <2>6, LibcKept DEF CloneGrow
  <2> QED
    BY <1>8, <2>1, <2>2, <2>3, <2>4, <2>5, <2>6 DEF ForkStep
<1>9. ASSUME NEW p \in Spaces, FreeStep(p) PROVE LibcInv'
  <2>1. CASE FreeLeaf(p)
    <3>1. PICK v \in Pages : OneEntry(p, v, 0, FALSE, FALSE)
      BY <2>1, FreeLeafOne
    <3>2. pc' = pc /\ page' = page /\ pc[p] = "dying"
      BY <2>1 DEF FreeLeaf, At
    <3> QED
      BY <1>0, <3>1, <3>2, LibcOneEntry
  <2>2. CASE FreeTable(p)
    BY <2>2, LibcKept DEF FreeTable
  <2>3. CASE FreeRoot(p)
    BY <2>3, LibcKept DEF FreeRoot, Goto, ShapeInv, TypeOK
  <2> QED
    BY <1>9, <2>1, <2>2, <2>3 DEF FreeStep
<1> QED
  BY <1>1, <1>2, <1>3, <1>4, <1>5, <1>6, <1>7, <1>8, <1>9 DEF Next

----------------------------------------------------------------------------
(* The libc with an mprotect that may make its pages writable.              *)

Unborn == {"none", "embryo", "dying"}
Building == {"spawn", "libRef"}

OfLibc(p, v) == pte[p][v].frame \in Libc
Exposed(p, v) == OfLibc(p, v) /\ (pte[p][v].w \/ pte[p][v].cow)

\* A page of the libc is under a mark of the libc, and "libw" if the page is writable or may become so.
AskedPage(p, v) ==
    /\ OfLibc(p, v) /\ pte[p][v].w => prot[p][v] = "libw"
    /\ OfLibc(p, v) /\ pc[p] \notin Unborn => prot[p][v] \in LibcProts
    /\ Exposed(p, v) /\ pc[p] \notin Unborn => prot[p][v] = "libw"
    /\ pc[p] \in Building => ~Exposed(p, v)

\* What fork has copied is under the marks of the parent, which the child is going to have.
AskedCopy(p, v) ==
    Cloning(p) /\ OfLibc(child[p], v) =>
    prot[p][v] \in LibcProts /\ (Exposed(child[p], v) => prot[p][v] = "libw")

AskedInv ==
    /\ \A p \in Spaces, v \in Pages : AskedPage(p, v) /\ AskedCopy(p, v)
    /\ \A p \in Spaces : At(p, "cowKeep") => pte[p][page[p]].cow

\* No entry and no mark changes, and nobody takes over a directory that has pages of the libc.
LEMMA AskedKept ==
    ASSUME AskedInv, pte' = pte, prot' = prot,
           \A q \in Spaces :
              /\ \/ pc'[q] = pc[q]
                 \/ pc'[q] \in Unborn
                 \/ pc[q] \notin Unborn /\ (pc'[q] \in Building => pc[q] \in Building)
                 \/ \A v \in Pages : ~OfLibc(q, v)
              /\ pc'[q] = "cowKeep" => (pc[q] = "cowKeep" /\ page'[q] = page[q]) \/ pte[q][page'[q]].cow
              /\ pc'[q] \in {"clone", "cloneRef"} =>
                   \/ Cloning(q) /\ child'[q] = child[q]
                   \/ \A v \in Pages : ~OfLibc(child'[q], v)
    PROVE  AskedInv'
<1>1. ASSUME NEW q \in Spaces, NEW v \in Pages PROVE AskedPage(q, v)'
  <2>1. AskedPage(q, v)
    BY DEF AskedInv
  <2> QED
    BY <2>1 DEF AskedPage, OfLibc, Exposed, Unborn, Building
<1>2. ASSUME NEW q \in Spaces, NEW v \in Pages PROVE AskedCopy(q, v)'
  <2>1. AskedCopy(q, v)
    BY DEF AskedInv
  <2> QED
    BY <2>1 DEF AskedCopy, OfLibc, Exposed, Cloning
<1>3. \A q \in Spaces : At(q, "cowKeep")' => (pte[q][page[q]].cow)'
  BY DEF AskedInv, At
<1> QED
  BY <1>1, <1>2, <1>3 DEF AskedInv

\* One entry changes, in a space that nobody is copying from or to.
LEMMA AskedOneEntry ==
    ASSUME ShapeInv, AskedInv, NEW p \in Spaces, NEW v \in Pages, NEW f, NEW w, NEW cow,
           OneEntry(p, v, f, w, cow), child' = child,
           f \in Libc => /\ prot'[p][v] \in LibcProts
                         /\ w \/ cow => prot'[p][v] = "libw" /\ pc'[p] \notin Building,
           \A q \in Spaces, u \in Pages : q # p \/ u # v => prot'[q][u] = prot[q][u],
           pc[p] \notin {"none", "embryo", "clone", "cloneRef"},
           pc'[p] \in Building => pc[p] \in Building,
           pc[p] = "dying" => pc'[p] = "dying",
           pc'[p] \notin {"cowKeep", "clone", "cloneRef"},
           \A q \in Spaces \ {p} : pc'[q] = pc[q] /\ page'[q] = page[q]
    PROVE  AskedInv'
<1>1. ASSUME NEW q \in Spaces, NEW u \in Pages PROVE AskedPage(q, u)'
  <2>1. AskedPage(q, u)
    BY DEF AskedInv
  <2>2. CASE q = p /\ u = v
    BY <2>2 DEF AskedPage, OfLibc, Exposed, OneEntry
  <2>3. CASE q # p \/ u # v
    <3>1. pte'[q][u] = pte[q][u] /\ prot'[q][u] = prot[q][u]
      BY <2>3 DEF OneEntry
    <3>2. pc'[q] = pc[q] \/ q = p
      OBVIOUS
    <3> QED
      BY <2>1, <3>1, <3>2 DEF AskedPage, OfLibc, Exposed, Unborn, Building
  <2> QED
    BY <2>2, <2>3
<1>2. ASSUME NEW q \in Spaces, NEW u \in Pages PROVE AskedCopy(q, u)'
  <2>1. AskedCopy(q, u)
    BY DEF AskedInv
  <2> SUFFICES ASSUME Cloning(q)' PROVE AskedCopy(q, u)'
    BY DEF AskedCopy
  <2>2. q # p /\ pc'[q] = pc[q] /\ Cloning(q)
    BY DEF Cloning
  <2>3. child[q] \in Spaces /\ At(child[q], "embryo")
    BY <2>2 DEF ShapeInv, TypeOK, Fork
  <2>4. child[q] # p
    BY <2>3 DEF At
  <2>5. pte'[child[q]][u] = pte[child[q]][u] /\ prot'[q][u] = prot[q][u]
    BY <2>2, <2>3, <2>4 DEF OneEntry
  <2> QED
    BY <2>1, <2>2, <2>5 DEF AskedCopy, OfLibc, Exposed
<1>3. ASSUME NEW q \in Spaces, At(q, "cowKeep")' PROVE (pte[q][page[q]].cow)'
  <2>1. q # p /\ At(q, "cowKeep") /\ page'[q] = page[q]
    BY <1>3 DEF At
  <2>2. page[q] \in Pages
    BY <2>1 DEF ShapeInv, Shape, At, Faulting
  <2>3. pte'[q][page[q]] = pte[q][page[q]]
    BY <2>1, <2>2 DEF OneEntry
  <2> QED
    BY <2>1, <2>3 DEF AskedInv
<1> QED
  BY <1>1, <1>2, <1>3 DEF AskedInv

\* Every step keeps the marks of the libc true.
LEMMA AskedNext == ASSUME ShapeInv, AskedInv, [Next]_vars PROVE AskedInv'
<1> USE SizeFacts
<1>0. \A q \in Spaces : At(q, "cowKeep") => page[q] \in Pages
  BY DEF ShapeInv, Shape, At, Faulting
<1>a. \A q \in Spaces : pc[q] = "none" => \A v \in Pages : ~OfLibc(q, v)
  BY DEF ShapeInv, Shape, OfLibc
<1>b. child \in [Spaces -> Spaces] /\ pc \in [Spaces -> AllPc] /\ page \in [Spaces -> 1..(NPages + 1)]
  BY DEF ShapeInv, TypeOK, AllPc
<1> USE DEF Unborn, Building
<1>1. CASE UNCHANGED vars
  BY <1>1, AskedKept DEF vars, spaceVars, Cloning
<1>2. ASSUME NEW p \in Spaces, NEW f \in Frames, SpawnBegin(p, f) PROVE AskedInv'
  BY <1>2, <1>a, <1>b, AskedKept DEF SpawnBegin, Starts, At, Goto, Cloning
<1>3. ASSUME NEW p \in Spaces, UserStep(p) PROVE AskedInv'
  <2>1. CASE Exit(p)
    BY <2>1, <1>b, AskedKept DEF Exit, Starts, At, Goto, spaceVars, Cloning
  <2>2. ASSUME NEW v \in Pages, Fault(p, v) PROVE AskedInv'
    BY <2>2, <1>b, AskedKept DEF Fault, Starts, At, Goto, spaceVars, Cloning
  <2>3. ASSUME NEW v \in Pages, CowFault(p, v) PROVE AskedInv'
    <3>1. page'[p] = v /\ pte[p][v].cow /\ pte' = pte /\ prot' = prot /\ child' = child
      BY <2>3, <1>b DEF CowFault, spaceVars
    <3>2. \A q \in Spaces \ {p} : pc'[q] = pc[q] /\ page'[q] = page[q]
      BY <2>3, <1>b DEF CowFault, Goto
    <3>3. pc[p] = "user" /\ pc'[p] \in {"cowKeep", "cowAlloc"}
      BY <2>3, <1>b DEF CowFault, Starts, At, Goto
    <3> QED
      BY <3>1, <3>2, <3>3, AskedKept DEF Cloning
  <2>4. ASSUME NEW v \in Pages, Munmap(p, v) PROVE AskedInv'
    BY <2>4, <1>b, AskedKept DEF Munmap, Starts, At, Goto, spaceVars, Cloning
  <2>5. ASSUME NEW v \in Pages, NEW x \in Values, Write(p, v, x) PROVE AskedInv'
    BY <2>5, AskedKept DEF Write, spaceVars, Cloning
  <2>6. ASSUME NEW v \in Pages, NEW r \in MmapProts, Mmap(p, v, r) PROVE AskedInv'
    <3>1. /\ pc[p] = "user" /\ prot[p][v] = "none" /\ pte' = pte /\ pc' = pc /\ page' = page /\ child' = child
          /\ \A q \in Spaces, u \in Pages : q # p \/ u # v => prot'[q][u] = prot[q][u]
      BY <2>6 DEF Mmap, At, ShapeInv, TypeOK
    <3>2. ~OfLibc(p, v)
      BY <3>1 DEF AskedInv, AskedPage, LibcProts
    <3>3. ASSUME NEW q \in Spaces, NEW u \in Pages PROVE AskedPage(q, u)' /\ AskedCopy(q, u)'
      <4>1. AskedPage(q, u) /\ AskedCopy(q, u)
        BY DEF AskedInv
      <4>2. Cloning(q) => q # p
        BY <3>1 DEF Cloning
      <4> QED
        BY <3>1, <3>2, <4>1, <4>2 DEF AskedPage, AskedCopy, OfLibc, Exposed, Cloning
    <3> QED
      BY <3>1, <3>3 DEF AskedInv, At
  <2>7. ASSUME NEW v \in Pages, NEW r \in Prots, Mprotect(p, v, r) PROVE AskedInv'
    <3>1. \A q \in Spaces, u \in Pages :
                 /\ pte'[q][u].frame = pte[q][u].frame
                 /\ pte'[q][u].cow = pte[q][u].cow
                 /\ pte'[q][u].w = IF q = p /\ u = v /\ Present(p, v)
                                   THEN r = "rw" /\ ~pte[p][v].cow ELSE pte[q][u].w
      BY <2>7, MprotectEntry DEF ShapeInv
    <3>2. /\ pc[p] = "user" /\ pc' = pc /\ page' = page /\ child' = child
          /\ prot'[p][v] = AfterMprotect(prot[p][v], r)
          /\ \A q \in Spaces, u \in Pages : q # p \/ u # v => prot'[q][u] = prot[q][u]
      BY <2>7 DEF Mprotect, At, ShapeInv, TypeOK
    <3>3. ASSUME NEW q \in Spaces, NEW u \in Pages PROVE AskedPage(q, u)' /\ AskedCopy(q, u)'
      <4>1. AskedPage(q, u) /\ AskedCopy(q, u)
        BY DEF AskedInv
      <4>2. CASE q = p /\ u = v
        <5>1. pte'[p][v].frame = pte[p][v].frame /\ pte'[p][v].cow = pte[p][v].cow
          BY <3>1, Zenon
        <5>2. pte'[p][v].w => r = "rw" \/ pte[p][v].w
          BY <3>1, Zenon
        <5>3. OfLibc(p, v) => /\ prot[p][v] \in LibcProts
                              /\ pte[p][v].w \/ pte[p][v].cow => prot[p][v] = "libw"
          BY <3>2, <4>1, <4>2 DEF AskedPage, Exposed
        <5>4. OfLibc(p, v) => /\ prot'[p][v] \in LibcProts
                              /\ pte'[p][v].w \/ pte'[p][v].cow => prot'[p][v] = "libw"
          BY <3>2, <5>1, <5>2, <5>3 DEF AfterMprotect, LibcProts
        <5> QED
          BY <3>2, <4>2, <5>1, <5>4 DEF AskedPage, AskedCopy, OfLibc, Exposed, Cloning
      <4>3. CASE q # p \/ u # v
        <5>1. pte'[q][u].frame = pte[q][u].frame /\ pte'[q][u].cow = pte[q][u].cow /\ pte'[q][u].w = pte[q][u].w
          BY <3>1, <4>3, Zenon
        <5>2. AskedPage(q, u)'
          BY <3>2, <4>1, <4>3, <5>1 DEF AskedPage, OfLibc, Exposed
        <5>3. CASE Cloning(q)
          <6>1. child[q] \in Spaces /\ child[q] # p /\ q # p
            BY <3>2, <5>3 DEF ShapeInv, TypeOK, Fork, Cloning, At
          <6>2. /\ pte'[child[q]][u].frame = pte[child[q]][u].frame
                /\ pte'[child[q]][u].cow = pte[child[q]][u].cow
                /\ pte'[child[q]][u].w = pte[child[q]][u].w
            BY <3>1, <6>1, Zenon
          <6> QED
            BY <3>2, <4>1, <4>3, <5>2, <6>2 DEF AskedCopy, OfLibc, Exposed, Cloning
        <5>4. CASE ~Cloning(q)
          BY <3>2, <5>2, <5>4 DEF AskedCopy, Cloning
        <5> QED
          BY <5>3, <5>4
      <4> QED
        BY <4>2, <4>3
    <3>4. ASSUME NEW q \in Spaces, At(q, "cowKeep")' PROVE (pte[q][page[q]].cow)'
      <4>1. At(q, "cowKeep") /\ page'[q] = page[q]
        BY <3>2, <3>4 DEF At
      <4>2. pte[q][page[q]].cow /\ page[q] \in Pages
        BY <1>0, <4>1 DEF AskedInv
      <4> QED
        BY <3>1, <4>1, <4>2, Zenon
    <3> QED
      BY <3>3, <3>4 DEF AskedInv
  <2>8. ASSUME NEW q \in Spaces, NEW f \in Frames, ForkBegin(p, q, f) PROVE AskedInv'
    <3>1. /\ pc[p] = "user" /\ pc[q] = "none" /\ pte' = pte /\ prot' = prot
          /\ pc' = [pc EXCEPT ![p] = "clone", ![q] = "embryo"] /\ child' = [child EXCEPT ![p] = q]
          /\ page' = [page EXCEPT ![p] = 1]
      BY <2>8 DEF ForkBegin, Starts, At
    <3> QED
      BY <3>1, <1>a, <1>b, AskedKept DEF Cloning
  <2> QED
    BY <1>3, <2>1, <2>2, <2>3, <2>4, <2>5, <2>6, <2>7, <2>8 DEF UserStep
<1>4. ASSUME NEW p \in Spaces, SpawnStep(p) PROVE AskedInv'
  <2>1. CASE LibMap(p)
    <3>1. PICK v \in NextOf(p, Libc) :
              /\ page' = [page EXCEPT ![p] = v]
              /\ prot' = [prot EXCEPT ![p][v] = "lib"]
              /\ pte' = IF tab[p] = 0 THEN pte
                        ELSE [pte EXCEPT ![p][v] = [frame |-> v, w |-> FALSE, cow |-> FALSE]]
      BY <2>1 DEF LibMap
    <3>2. v \in Pages /\ v \in 0..NFrames
      BY NextIsOne
    <3>3. /\ pc[p] = "spawn" /\ pc' = [pc EXCEPT ![p] = "libRef"] /\ child' = child
      BY <2>1 DEF LibMap, At, Goto
    <3>4. /\ prot'[p][v] = "lib"
          /\ \A q \in Spaces, u \in Pages : q # p \/ u # v => prot'[q][u] = prot[q][u]
      BY <3>1, <3>2 DEF ShapeInv, TypeOK
    <3>5. CASE pte' = pte
      <4>1. ASSUME NEW q \in Spaces, NEW u \in Pages PROVE AskedPage(q, u)'
        <5>1. AskedPage(q, u)
          BY DEF AskedInv
        <5> QED
          BY <1>b, <3>3, <3>4, <3>5, <5>1 DEF AskedPage, OfLibc, Exposed, LibcProts
      <4>2. ASSUME NEW q \in Spaces, NEW u \in Pages PROVE AskedCopy(q, u)'
        <5>1. AskedCopy(q, u)
          BY DEF AskedInv
        <5>2. Cloning(q)' => q # p /\ Cloning(q)
          BY <1>b, <3>3 DEF Cloning
        <5> QED
          BY <3>3, <3>4, <3>5, <5>1, <5>2 DEF AskedCopy, OfLibc, Exposed
      <4>3. \A q \in Spaces : At(q, "cowKeep")' => (pte[q][page[q]].cow)'
        BY <1>b, <3>1, <3>3, <3>5 DEF AskedInv, At
      <4> QED
        BY <4>1, <4>2, <4>3 DEF AskedInv
    <3>6. CASE pte' # pte
      <4>1. OneEntry(p, v, v, FALSE, FALSE)
        BY <3>1, <3>2, <3>6, OneEntryWritten
      <4>2. /\ pc'[p] = "libRef"
            /\ \A q \in Spaces \ {p} : pc'[q] = pc[q] /\ page'[q] = page[q]
        BY <1>b, <3>1, <3>3
      <4>4. pc[p] = "spawn" /\ child' = child /\ pc'[p] = "libRef"
        BY <3>3, <4>2
      <4> HIDE DEF Building
      <4>5. /\ pc'[p] \in Building => pc[p] \in Building
            /\ pc[p] = "dying" => pc'[p] = "dying"
            /\ pc'[p] \notin {"cowKeep", "clone", "cloneRef"}
            /\ pc[p] \notin {"none", "embryo", "clone", "cloneRef"}
        BY <4>4 DEF Building
      <4> DEFINE no == FALSE
      <4>6. OneEntry(p, v, v, no, no) /\ ~no
        BY <4>1
      <4> HIDE DEF no
      <4>7. v \in Libc => /\ prot'[p][v] \in LibcProts
                          /\ no \/ no => prot'[p][v] = "libw" /\ pc'[p] \notin Building
        BY <3>4, <4>6 DEF LibcProts
      <4> QED
        BY <3>2, <3>4, <4>2, <4>4, <4>5, <4>6, <4>7, AskedOneEntry
    <3> QED
      BY <3>5, <3>6
  <2>2. CASE LibRef(p)
    BY <2>2, <1>b, AskedKept DEF LibRef, At, Goto, spaceVars, Cloning
  <2>3. CASE SpawnDone(p)
    BY <2>3, <1>b, AskedKept DEF SpawnDone, Leave, At, Goto, spaceVars, Cloning
  <2>4. ASSUME NEW f \in Frames, LibGrow(p, f) PROVE AskedInv'
    BY <2>4, AskedKept DEF LibGrow, Cloning
  <2> QED
    BY <1>4, <2>1, <2>2, <2>3, <2>4 DEF SpawnStep
<1>5. ASSUME NEW p \in Spaces, FaultStep(p) PROVE AskedInv'
  <2>1. CASE FaultFails(p)
    BY <2>1, <1>b, AskedKept DEF FaultFails, Leave, Goto, spaceVars, Cloning
  <2>2. ASSUME NEW f \in Frames, FaultGrow(p, f) PROVE AskedInv'
    BY <2>2, AskedKept DEF FaultGrow, Cloning
  <2>3. ASSUME NEW f \in Frames, FaultMap(p, f) PROVE AskedInv'
    <3>1. page[p] \in Pages /\ OneEntry(p, page[p], f, prot[p][page[p]] = "rw", FALSE)
      BY <2>3, FaultMapEntries
    <3>2. f \notin Libc
      BY <2>3, Allocated DEF ShapeInv, FaultMap, AllocateZeroed
    <3>3. /\ pc[p] = "fault" /\ pc'[p] = "user" /\ child' = child /\ prot' = prot
          /\ \A q \in Spaces \ {p} : pc'[q] = pc[q] /\ page'[q] = page[q]
      BY <2>3, <1>b DEF FaultMap, Leave, At, Goto
    <3> QED
      BY <3>1, <3>2, <3>3, AskedOneEntry
  <2> QED
    BY <1>5, <2>1, <2>2, <2>3 DEF FaultStep
<1>6. ASSUME NEW p \in Spaces, CowStep(p) PROVE AskedInv'
  <2>1. CASE CowKeep(p)
    <3>1. page[p] \in Pages /\ OneEntry(p, page[p], pte[p][page[p]].frame, TRUE, FALSE)
      BY <2>1, CowKeepEntries
    <3>2. /\ pc[p] = "cowKeep" /\ pc'[p] = "user" /\ child' = child /\ prot' = prot
          /\ \A q \in Spaces \ {p} : pc'[q] = pc[q] /\ page'[q] = page[q]
      BY <2>1, <1>b DEF CowKeep, Leave, At, Goto
    <3>3. OfLibc(p, page[p]) => prot[p][page[p]] = "libw"
      BY <3>1, <3>2 DEF AskedInv, AskedPage, Exposed, At
    <3>4. pte[p][page[p]].frame \in Libc => prot'[p][page[p]] \in LibcProts /\ prot'[p][page[p]] = "libw"
      BY <3>2, <3>3 DEF OfLibc, LibcProts
    <3> QED
      BY <3>1, <3>2, <3>4, AskedOneEntry
  <2>2. CASE CowCopy(p)
    BY <2>2, <1>b, AskedKept DEF CowCopy, At, Goto, spaceVars, Cloning
  <2>3. CASE CowDrop(p)
    BY <2>3, <1>b, AskedKept DEF CowDrop, At, Goto, spaceVars, Cloning
  <2>4. CASE CowMap(p)
    <3>1. page[p] \in Pages /\ OneEntry(p, page[p], hold[p], TRUE, FALSE)
      BY <2>4, CowMapEntries
    <3>2. hold[p] \notin Libc
      BY DEF ShapeInv, Shape
    <3>3. /\ pc[p] = "cowMap" /\ pc'[p] = "user" /\ child' = child /\ prot' = prot
          /\ \A q \in Spaces \ {p} : pc'[q] = pc[q] /\ page'[q] = page[q]
      BY <2>4, <1>b DEF CowMap, Leave, At, Goto
    <3> QED
      BY <3>1, <3>2, <3>3, AskedOneEntry
  <2>5. ASSUME NEW f \in Frames, CowAlloc(p, f) PROVE AskedInv'
    BY <2>5, <1>b, AskedKept DEF CowAlloc, At, Goto, spaceVars, Cloning
  <2> QED
    BY <1>6, <2>1, <2>2, <2>3, <2>4, <2>5 DEF CowStep
<1>7. ASSUME NEW p \in Spaces, UnmapClears(p) PROVE AskedInv'
  <2>1. page[p] \in Pages /\ OneEntry(p, page[p], 0, FALSE, FALSE)
    BY <1>7, UnmapClearsEntries
  <2>2. /\ pc[p] = "unmap" /\ pc'[p] = "user" /\ child' = child
        /\ \A q \in Spaces \ {p} : pc'[q] = pc[q] /\ page'[q] = page[q]
    BY <1>7, <1>b DEF UnmapClears, Leave, At, Goto
  <2>3. \A q \in Spaces, u \in Pages : q # p \/ u # page[p] => prot'[q][u] = prot[q][u]
    BY <1>7, <2>1 DEF UnmapClears, ShapeInv, TypeOK
  <2>4. 0 \notin Libc
    OBVIOUS
  <2> QED
    BY <2>1, <2>2, <2>3, <2>4, AskedOneEntry
<1>8. ASSUME NEW p \in Spaces, ForkStep(p) PROVE AskedInv'
  <2>1. CASE CloneShare(p)
    <3>1. PICK v \in Pages :
              /\ \A q \in Spaces, u \in Pages :
                    LET e == pte[p][v]
                    IN  IF q \in {p, child[p]} /\ u = v
                        THEN pte'[q][u].frame = e.frame /\ ~pte'[q][u].w /\ pte'[q][u].cow = (e.w \/ e.cow)
                        ELSE pte'[q][u] = pte[q][u]
              /\ page' = [page EXCEPT ![p] = v]
      BY <2>1, CloneShareEntries
    <3>2. /\ pc[p] = "clone" /\ pc' = [pc EXCEPT ![p] = "cloneRef"] /\ child' = child /\ prot' = prot
      BY <2>1 DEF CloneShare, At, Goto
    <3>3. child[p] \in Spaces /\ child[p] # p /\ pc[child[p]] = "embryo"
      BY <1>b, <3>2 DEF ShapeInv, Fork, Cloning, At
    <3>4. OfLibc(p, v) => prot[p][v] \in LibcProts /\ (Exposed(p, v) => prot[p][v] = "libw")
      BY <3>2 DEF AskedInv, AskedPage
    <3>5. ASSUME NEW q \in Spaces, NEW u \in Pages
          PROVE  /\ AskedPage(q, u)'
                 /\ (OfLibc(q, u)' /\ pc[q] = "embryo" /\ q # child[p] => OfLibc(q, u) /\ pte'[q][u] = pte[q][u])
      <4>1. AskedPage(q, u)
        BY DEF AskedInv
      <4>2. CASE q \in {p, child[p]} /\ u = v
        <5>1. pte'[q][u].frame = pte[p][v].frame /\ ~pte'[q][u].w /\ pte'[q][u].cow = (pte[p][v].w \/ pte[p][v].cow)
          BY <3>1, <4>2
        <5>2. q = p \/ pc'[q] = "embryo"
          BY <1>b, <3>2, <3>3, <4>2
        <5>3. Exposed(q, u)' => Exposed(p, v)
          BY <5>1, Zenon DEF Exposed, OfLibc
        <5>4. OfLibc(q, u)' => OfLibc(p, v)
          BY <5>1, Zenon DEF OfLibc
        <5>5. pc'[p] = "cloneRef"
          BY <1>b, <3>2
        <5>6. AskedPage(q, u)'
          <6>1. ~(OfLibc(q, u)' /\ pte'[q][u].w)
            BY <5>1
          <6> QED
            <7>1. CASE q = p
              <8>1. OfLibc(q, u)' => prot'[q][u] \in LibcProts /\ (Exposed(q, u)' => prot'[q][u] = "libw")
                BY <3>2, <3>4, <4>2, <5>3, <5>4, <7>1
              <8>2. pc'[q] = "cloneRef"
                BY <5>5, <7>1
              <8>3. Exposed(q, u)' => OfLibc(q, u)'
                BY DEF Exposed
              <8> QED
                BY <6>1, <8>1, <8>2, <8>3 DEF AskedPage
            <7>2. CASE pc'[q] = "embryo"
              BY <6>1, <7>2 DEF AskedPage
            <7> QED
              BY <5>2, <7>1, <7>2
        <5> QED
          BY <3>2, <4>2, <5>6
      <4>3. CASE ~(q \in {p, child[p]} /\ u = v)
        <5>1. pte'[q][u] = pte[q][u]
          BY <3>1, <4>3
        <5>2. pc'[q] = pc[q] \/ q = p
          BY <1>b, <3>2
        <5> QED
          BY <1>b, <3>2, <4>1, <5>1, <5>2 DEF AskedPage, OfLibc, Exposed
      <4> QED
        BY <4>2, <4>3
    <3>6. ASSUME NEW q \in Spaces, NEW u \in Pages PROVE AskedCopy(q, u)'
      <4>1. AskedCopy(q, u)
        BY DEF AskedInv
      <4>2. Cloning(q)' => Cloning(q) /\ child[q] \in Spaces /\ (q # p => child[q] \notin {p, child[p]})
        BY <1>b, <3>2 DEF ShapeInv, Fork, Cloning, At
      <4>3. CASE q = p /\ u = v
        <5>1. /\ pte'[child[p]][v].frame = pte[p][v].frame
              /\ pte'[child[p]][v].cow = (pte[p][v].w \/ pte[p][v].cow) /\ ~pte'[child[p]][v].w
          BY <3>1, <3>3
        <5>2. Exposed(child[p], v)' => Exposed(p, v)
          BY <5>1, <3>2, Zenon DEF Exposed, OfLibc
        <5>3. OfLibc(child[p], v)' => OfLibc(p, v)
          BY <5>1, <3>2, Zenon DEF OfLibc
        <5> QED
          BY <3>2, <3>4, <4>3, <5>1, <5>2, <5>3 DEF AskedCopy, Exposed, OfLibc
      <4>4. CASE ~(q = p /\ u = v) /\ Cloning(q)'
        <5>1. pte'[child[q]][u] = pte[child[q]][u]
          BY <3>1, <3>3, <4>2, <4>4
        <5> QED
          BY <3>2, <4>1, <4>2, <4>4, <5>1 DEF AskedCopy, Exposed, OfLibc
      <4>5. CASE ~Cloning(q)'
        BY <4>5 DEF AskedCopy
      <4> QED
        BY <4>3, <4>4, <4>5
    <3>7. ASSUME NEW q \in Spaces, At(q, "cowKeep")' PROVE (pte[q][page[q]].cow)'
      <4>1. q # p /\ q # child[p] /\ At(q, "cowKeep") /\ page'[q] = page[q]
        BY <1>b, <3>1, <3>2, <3>3, <3>7 DEF At
      <4>2. pte[q][page[q]].cow /\ page[q] \in Pages
        BY <1>0, <4>1 DEF AskedInv
      <4>3. pte'[q][page[q]] = pte[q][page[q]]
        BY <3>1, <4>1, <4>2
      <4> QED
        BY <4>1, <4>2, <4>3
    <3> QED
      BY <3>5, <3>6, <3>7 DEF AskedInv
  <2>2. CASE CloneRef(p)
    BY <2>2, <1>b, AskedKept DEF CloneRef, At, Goto, spaceVars, Cloning
  <2>3. CASE ForkDone(p)
    <3>1. /\ pc[p] = "clone" /\ pte' = pte /\ prot' = [prot EXCEPT ![child[p]] = prot[p]]
          /\ pc' = [pc EXCEPT ![p] = "user", ![child[p]] = "user"]
          /\ child' = [child EXCEPT ![p] = p] /\ page' = [page EXCEPT ![p] = 1]
      BY <2>3 DEF ForkDone, At
    <3>2. child[p] \in Spaces /\ child[p] # p /\ pc[child[p]] = "embryo"
      BY <1>b, <3>1 DEF ShapeInv, Fork, Cloning, At
    <3>3. \A q \in Spaces : prot'[q] = IF q = child[p] THEN prot[p] ELSE prot[q]
      BY <3>1, <3>2 DEF ShapeInv, TypeOK
    <3>4. \A q \in Spaces : pc'[q] = IF q \in {p, child[p]} THEN "user" ELSE pc[q]
      BY <1>b, <3>1, <3>2
    <3>5. ASSUME NEW q \in Spaces, NEW u \in Pages PROVE AskedPage(q, u)'
      <4>1. AskedPage(q, u) /\ AskedCopy(p, u)
        BY DEF AskedInv
      <4>2. CASE q = child[p]
        <5>1. OfLibc(q, u) => prot'[q][u] \in LibcProts /\ (Exposed(q, u) => prot'[q][u] = "libw")
          BY <3>1, <3>3, <4>1, <4>2 DEF AskedCopy, Cloning
        <5>2. pte' = pte /\ pc'[q] = "user"
          BY <3>1, <3>4, <4>2
        <5> QED
          BY <5>1, <5>2 DEF AskedPage, Exposed, OfLibc
      <4>3. CASE q # child[p]
        <5>1. pte' = pte /\ prot'[q] = prot[q]
          BY <3>1, <3>3, <4>3
        <5>2. CASE q = p
          <6>1. pc[q] = "clone" /\ pc'[q] = "user"
            BY <3>1, <3>4, <5>2
          <6> QED
            BY <4>1, <5>1, <6>1 DEF AskedPage, Exposed, OfLibc
        <5>3. CASE q # p
          <6>1. pc'[q] = pc[q]
            BY <3>4, <4>3, <5>3
          <6> QED
            BY <4>1, <5>1, <6>1 DEF AskedPage, Exposed, OfLibc
        <5> QED
          BY <5>2, <5>3
      <4> QED
        BY <4>2, <4>3
    <3>6. ASSUME NEW q \in Spaces, NEW u \in Pages PROVE AskedCopy(q, u)'
      <4>1. AskedCopy(q, u)
        BY DEF AskedInv
      <4>2. Cloning(q)' => q \notin {p, child[p]} /\ Cloning(q) /\ child'[q] = child[q]
        BY <1>b, <3>1, <3>4 DEF Cloning
      <4> QED
        BY <3>1, <3>3, <4>1, <4>2 DEF AskedCopy, Exposed, OfLibc
    <3>7. \A q \in Spaces : At(q, "cowKeep")' => (pte[q][page[q]].cow)'
      BY <1>b, <3>1, <3>4 DEF AskedInv, At
    <3> QED
      BY <3>5, <3>6, <3>7 DEF AskedInv
  <2>4. CASE ForkFails(p)
    BY <2>4, <1>b, AskedKept DEF ForkFails, At, spaceVars, Cloning
  <2>5. CASE ForkUndone(p)
    BY <2>5, <1>b, AskedKept DEF ForkUndone, At, Goto, spaceVars, Cloning
  <2>6. ASSUME NEW f \in Frames, CloneGrow(p, f) PROVE AskedInv'
    BY <2>6, AskedKept DEF CloneGrow, Cloning
  <2> QED
    BY <1>8, <2>1, <2>2, <2>3, <2>4, <2>5, <2>6 DEF ForkStep
<1>9. ASSUME NEW p \in Spaces, FreeStep(p) PROVE AskedInv'
  <2>1. CASE FreeLeaf(p)
    <3>1. PICK v \in Pages : OneEntry(p, v, 0, FALSE, FALSE)
      BY <2>1, FreeLeafOne
    <3>2. pc' = pc /\ page' = page /\ pc[p] = "dying" /\ child' = child /\ prot' = prot
      BY <2>1 DEF FreeLeaf, At
    <3>3. 0 \notin Libc
      OBVIOUS
    <3>4. /\ pc[p] = "dying" /\ pc'[p] = "dying" /\ child' = child
          /\ \A q \in Spaces \ {p} : pc'[q] = pc[q] /\ page'[q] = page[q]
          /\ \A q \in Spaces, u \in Pages : prot'[q][u] = prot[q][u]
      BY <3>2
    <3> HIDE DEF Building
    <3>5. /\ pc'[p] \in Building => pc[p] \in Building
          /\ pc[p] = "dying" => pc'[p] = "dying"
          /\ pc'[p] \notin {"cowKeep", "clone", "cloneRef"}
          /\ pc[p] \notin {"none", "embryo", "clone", "cloneRef"}
      BY <3>4 DEF Building
    <3> DEFINE no == FALSE
    <3>6. OneEntry(p, v, 0, no, no) /\ ~no
      BY <3>1
    <3> HIDE DEF no
    <3> QED
      BY <3>3, <3>4, <3>5, <3>6, AskedOneEntry
  <2>2. CASE FreeTable(p)
    BY <2>2, AskedKept DEF FreeTable, Cloning
  <2>3. CASE FreeRoot(p)
    <3>1. /\ pc[p] = "dying" /\ pte' = pte /\ page' = page /\ child' = child
          /\ \A v \in Pages : ~Present(p, v)
          /\ pc' = [pc EXCEPT ![p] = "none"]
          /\ \A q \in Spaces \ {p} : prot'[q] = prot[q]
      BY <2>3 DEF FreeRoot, At, Goto, ShapeInv, TypeOK
    <3>2. \A v \in Pages : ~OfLibc(p, v)
      BY <3>1 DEF OfLibc, Present
    <3>3. ASSUME NEW q \in Spaces, NEW u \in Pages PROVE AskedPage(q, u)' /\ AskedCopy(q, u)'
      <4>1. AskedPage(q, u) /\ AskedCopy(q, u)
        BY DEF AskedInv
      <4>2. Cloning(q)' => q # p /\ Cloning(q)
        BY <1>b, <3>1 DEF Cloning
      <4>3. pc'[q] = pc[q] \/ q = p
        BY <1>b, <3>1
      <4> QED
        BY <3>1, <3>2, <4>1, <4>2, <4>3 DEF AskedPage, AskedCopy, OfLibc, Exposed
    <3>4. \A q \in Spaces : At(q, "cowKeep")' => (pte[q][page[q]].cow)'
      BY <1>b, <3>1 DEF AskedInv, At
    <3> QED
      BY <3>3, <3>4 DEF AskedInv
  <2> QED
    BY <1>9, <2>1, <2>2, <2>3 DEF FreeStep
<1> QED
  BY <1>1, <1>2, <1>3, <1>4, <1>5, <1>6, <1>7, <1>8, <1>9 DEF Next

\* The frames of the libc are never given back, and an entry of them is writable only where
\* mprotect has been asked for it, in the process or in one it was forked from: not through
\* map_page_ro, fork, the copy-on-write handler or a failed allocation anywhere.
THEOREM LibcStaysIntact == Spec => []LibcIntact
<1>1. Init => AskedInv
  BY SizeFacts DEF Init, AskedInv, AskedPage, AskedCopy, OfLibc, Exposed, Unborn, Building, Cloning, Absent, At
<1>2. ShapeInv /\ AskedInv /\ [Next]_vars => AskedInv'
  BY AskedNext
<1>3. ShapeInv /\ AskedInv => LibcIntact
  BY DEF ShapeInv, AskedInv, AskedPage, OfLibc, LibcIntact
<1> QED
  BY <1>1, <1>2, <1>3, ShapeInvariance, PTL DEF Spec

----------------------------------------------------------------------------
(* Counting.                                                                *)

\* There are finitely many entries.
LEMMA EntriesFinite == IsFiniteSet(Entries) /\ IsFiniteSet(Spaces) /\ IsFiniteSet(Pages)
<1>1. IsFiniteSet(Pages)
  BY FS_Interval, SizeFacts DEF Pages
<1> QED
  BY <1>1, SpacesAssumption, FS_Product DEF Entries

\* A count is a number.
LEMMA NumType == ASSUME NEW D, IsFiniteSet(D), NEW F, NEW f PROVE Num(D, F, f) \in Nat
<1>1. {d \in D : F[d] = f} \in SUBSET D
  OBVIOUS
<1> QED
  BY <1>1, FS_Subset, FS_CardinalityType DEF Num

\* So is the number of references to a frame.
LEMMA RefsType == ASSUME NEW f PROVE /\ Num(Entries, Counted, f) \in Nat /\ Num(Spaces, tab, f) \in Nat
                                     /\ Num(Spaces, root, f) \in Nat /\ Num(Spaces, hold, f) \in Nat
                                     /\ Refs(f) \in Nat
  BY NumType, EntriesFinite DEF Refs

\* And after a step.
LEMMA RefsTypeNext == ASSUME NEW f PROVE /\ Num(Entries, Counted, f)' \in Nat /\ Num(Spaces, tab, f)' \in Nat
                                         /\ Num(Spaces, root, f)' \in Nat /\ Num(Spaces, hold, f)' \in Nat
                                         /\ Refs(f)' \in Nat
<1>1. /\ Num(Entries, Counted', f) \in Nat /\ Num(Spaces, tab', f) \in Nat
      /\ Num(Spaces, root', f) \in Nat /\ Num(Spaces, hold', f) \in Nat
  BY NumType, EntriesFinite
<1> QED
  BY <1>1 DEF Refs, Num, Entries

\* Nobody begins or stops to refer to f.
LEMMA NumSame ==
    ASSUME NEW D, NEW F, NEW G, NEW f, \A d \in D : G[d] = f <=> F[d] = f
    PROVE  Num(D, G, f) = Num(D, F, f)
<1>1. {d \in D : G[d] = f} = {d \in D : F[d] = f}
  OBVIOUS
<1> QED
  BY <1>1 DEF Num

\* x begins to.
LEMMA NumGain ==
    ASSUME NEW D, IsFiniteSet(D), NEW F, NEW G, NEW f, NEW x \in D, F[x] # f, G[x] = f,
           \A d \in D : d # x => (G[d] = f <=> F[d] = f)
    PROVE  Num(D, G, f) = Num(D, F, f) + 1
<1> DEFINE S == {d \in D : F[d] = f}
<1>1. S \in SUBSET D /\ x \notin S /\ {d \in D : G[d] = f} = S \cup {x}
  OBVIOUS
<1>2. IsFiniteSet(S)
  BY <1>1, FS_Subset
<1> HIDE DEF S
<1>3. Cardinality(S \cup {x}) = Cardinality(S) + 1
  BY <1>1, <1>2, FS_AddElement
<1> QED
  BY <1>1, <1>3 DEF Num, S

\* F and G differ at x only.
OnlyAt(D, F, G, x) == x \in D /\ \A d \in D : d # x => G[d] = F[d]

\* How many refer to a frame, when at one place only the frame changes.
LEMMA NumMoves ==
    ASSUME NEW D, IsFiniteSet(D), NEW F, NEW G, NEW x, OnlyAt(D, F, G, x), NEW f
    PROVE  /\ F[x] # f /\ G[x] = f => Num(D, G, f) = Num(D, F, f) + 1
           /\ F[x] = f /\ G[x] # f => Num(D, F, f) = Num(D, G, f) + 1
           /\ (F[x] = f <=> G[x] = f) => Num(D, G, f) = Num(D, F, f)
<1>1. CASE F[x] # f /\ G[x] = f
  BY <1>1, NumGain DEF OnlyAt
<1>2. CASE F[x] = f /\ G[x] # f
  BY <1>2, NumGain DEF OnlyAt
<1>3. CASE F[x] = f <=> G[x] = f
  <2>1. \A d \in D : G[d] = f <=> F[d] = f
    BY <1>3 DEF OnlyAt
  <2> QED
    BY <1>3, <2>1, NumSame
<1> QED
  BY <1>1, <1>2, <1>3

\* A number is at least one where somebody refers to the frame.
LEMMA NumPositive ==
    ASSUME NEW D, IsFiniteSet(D), NEW F, NEW f, NEW x \in D, F[x] = f
    PROVE  Num(D, F, f) > 0
<1> DEFINE S == {d \in D : F[d] = f}
<1>1. S \in SUBSET D /\ x \in S
  OBVIOUS
<1>2. IsFiniteSet(S)
  BY <1>1, FS_Subset
<1>3. Cardinality(S) # 0
  BY <1>1, <1>2, FS_EmptySet
<1>4. Cardinality(S) \in Nat
  BY <1>2, FS_CardinalityType
<1> QED
  BY <1>3, <1>4 DEF Num

----------------------------------------------------------------------------
(* References that come and go.                                             *)

SameTables == tab' = tab /\ root' = root /\ hold' = hold

\* Whether an entry counts depends on three places of the kernel code only.
Marked == {"cowMap", "unmap", "cloneRef"}

\* What an entry is counted for.
LEMMA CountedIs ==
    ASSUME NEW p \in Spaces, NEW v \in Pages
    PROVE  /\ <<p, v>> \in Entries
           /\ Counted[<<p, v>>] = IF Dropped(p, v) \/ Uncounts(<<p, v>>) THEN 0 ELSE pte[p][v].frame
  BY DEF Entries, Counted

\* And after a step.
LEMMA CountedNextIs ==
    ASSUME NEW p \in Spaces, NEW v \in Pages
    PROVE  Counted'[<<p, v>>] = IF Dropped(p, v)' \/ Uncounts(<<p, v>>)' THEN 0 ELSE pte'[p][v].frame
  BY DEF Entries, Counted

\* Every entry is of a space and a page.
LEMMA EntryIs == ASSUME NEW d \in Entries PROVE \E p \in Spaces, v \in Pages : d = <<p, v>>
  BY DEF Entries

\* Only the child of a fork has entries that are not counted yet.
LEMMA OnlyEmbryos ==
    ASSUME ShapeInv, NEW p \in Spaces, NEW v, pc[p] # "embryo"
    PROVE  ~Uncounts(<<p, v>>)
<1> SUFFICES ASSUME NEW q \in Spaces, At(q, "cloneRef"), <<p, v>> = <<child[q], page[q]>> PROVE FALSE
  BY DEF Uncounts
<1>1. At(child[q], "embryo") /\ child[q] = p
  BY DEF ShapeInv, Fork, Cloning, At
<1> QED
  BY <1>1 DEF At

\* And after a step.
LEMMA OnlyEmbryosNext ==
    ASSUME ShapeInv', NEW p \in Spaces, NEW v, pc'[p] # "embryo"
    PROVE  ~Uncounts(<<p, v>>)'
<1> SUFFICES ASSUME NEW q \in Spaces, At(q, "cloneRef")', <<p, v>> = <<child'[q], page'[q]>> PROVE FALSE
  BY DEF Uncounts
<1>1. At(child[q], "embryo")' /\ child'[q] = p
  BY DEF ShapeInv, Fork, Cloning, At
<1> QED
  BY <1>1 DEF At

\* Where no marked place is entered, left or moved, the same entries count.
LEMMA MarksSame ==
    ASSUME \A p \in Spaces : (pc[p] \in Marked \/ pc'[p] \in Marked)
                             => pc'[p] = pc[p] /\ page'[p] = page[p] /\ child'[p] = child[p]
    PROVE  \A p \in Spaces, v \in Pages : /\ Dropped(p, v)' <=> Dropped(p, v)
                                          /\ Uncounts(<<p, v>>)' <=> Uncounts(<<p, v>>)
  BY DEF Dropped, Uncounts, At, Marked

\* Where no marked place is touched and no entry is written, the same entries count for the same frames.
LEMMA CountedSame ==
    ASSUME pte' = pte,
           \A p \in Spaces : (pc[p] \in Marked \/ pc'[p] \in Marked)
                             => pc'[p] = pc[p] /\ page'[p] = page[p] /\ child'[p] = child[p]
    PROVE  Counted' = Counted
<1>1. \A p \in Spaces, v \in Pages : /\ Dropped(p, v)' <=> Dropped(p, v)
                                     /\ Uncounts(<<p, v>>)' <=> Uncounts(<<p, v>>)
  BY MarksSame
<1>2. \A d \in Entries : Counted'[d] = Counted[d]
  <2> TAKE d \in Entries
  <2>1. PICK p \in Spaces, v \in Pages : d = <<p, v>>
    BY EntryIs
  <2>2. /\ Counted[<<p, v>>] = IF Dropped(p, v) \/ Uncounts(<<p, v>>) THEN 0 ELSE pte[p][v].frame
        /\ Counted'[<<p, v>>] = IF Dropped(p, v)' \/ Uncounts(<<p, v>>)' THEN 0 ELSE pte'[p][v].frame
    BY CountedIs, CountedNextIs
  <2> QED
    BY <1>1, <2>1, <2>2
<1>3. Counted = [d \in Entries |-> Counted[d]] /\ Counted' = [d \in Entries |-> Counted'[d]]
  BY DEF Counted, Entries
<1> QED
  BY <1>2, <1>3

\* One entry begins or stops to count, or counts for another frame.
LEMMA CountedOne ==
    ASSUME NEW p \in Spaces, NEW v \in Pages,
           \A q \in Spaces, u \in Pages : q # p \/ u # v =>
              /\ Dropped(q, u)' <=> Dropped(q, u)
              /\ Uncounts(<<q, u>>)' <=> Uncounts(<<q, u>>)
              /\ pte'[q][u].frame = pte[q][u].frame
    PROVE  \A d \in Entries : d # <<p, v>> => Counted'[d] = Counted[d]
<1> TAKE d \in Entries
<1>1. PICK q \in Spaces, u \in Pages : d = <<q, u>>
  BY EntryIs
<1>2. /\ Counted[<<q, u>>] = IF Dropped(q, u) \/ Uncounts(<<q, u>>) THEN 0 ELSE pte[q][u].frame
      /\ Counted'[<<q, u>>] = IF Dropped(q, u)' \/ Uncounts(<<q, u>>)' THEN 0 ELSE pte'[q][u].frame
  BY CountedIs, CountedNextIs
<1> QED
  BY <1>1, <1>2

\* Frame x has one reference more, one less, or nothing changes; 0 is no frame.
Gains(x) == \A f \in Frames \ Libc : Refs(f)' = IF f = x THEN Refs(f) + 1 ELSE Refs(f)
Loses(x) == \A f \in Frames \ Libc : Refs(f) = IF f = x THEN Refs(f)' + 1 ELSE Refs(f)'

\* The four numbers after a step.
LEMMA RefsNext ==
    ASSUME NEW f
    PROVE  Refs(f)' = Num(Entries, Counted', f) + Num(Spaces, tab', f) + Num(Spaces, root', f)
                      + Num(Spaces, hold', f)
  BY DEF Refs, Num, Entries

\* Everything refers to what it did.
LEMMA SameRefs ==
    ASSUME SameTables, \A d \in Entries, f \in Frames \ Libc : Counted'[d] = f <=> Counted[d] = f
    PROVE  Gains(0) /\ Loses(0)
<1>1. ASSUME NEW f \in Frames \ Libc PROVE Refs(f)' = Refs(f)
  <2>1. Num(Entries, Counted', f) = Num(Entries, Counted, f)
    BY NumSame
  <2> QED
    BY <2>1, RefsNext DEF Refs, SameTables
<1> QED
  BY <1>1, SizeFacts DEF Gains, Loses

\* What the entries refer to changes at one of them, from a to b.
LEMMA LeafMoves ==
    ASSUME SameTables, NEW x \in Entries, \A d \in Entries : d # x => Counted'[d] = Counted[d]
    PROVE  /\ Counted[x] \notin Frames \ Libc => Gains(Counted'[x])
           /\ Counted'[x] \notin Frames \ Libc => Loses(Counted[x])
<1>1. ASSUME NEW f \in Frames \ Libc
      PROVE  /\ Counted[x] # f /\ Counted'[x] = f => Refs(f)' = Refs(f) + 1
             /\ Counted[x] = f /\ Counted'[x] # f => Refs(f) = Refs(f)' + 1
             /\ (Counted[x] = f <=> Counted'[x] = f) => Refs(f)' = Refs(f)
  <2> DEFINE a == Num(Entries, Counted, f)
             b == Num(Entries, Counted', f)
             c == Num(Spaces, tab, f) + Num(Spaces, root, f) + Num(Spaces, hold, f)
  <2>0. OnlyAt(Entries, Counted, Counted', x)
    BY DEF OnlyAt
  <2>1. /\ Counted[x] # f /\ Counted'[x] = f => b = a + 1
        /\ Counted[x] = f /\ Counted'[x] # f => a = b + 1
        /\ (Counted[x] = f <=> Counted'[x] = f) => b = a
    BY <2>0, NumMoves, EntriesFinite
  <2>2. a \in Nat /\ b \in Nat /\ c \in Nat
    BY NumType, EntriesFinite
  <2>3. Refs(f) = a + c /\ Refs(f)' = b + c
    BY RefsNext, NumType, EntriesFinite DEF Refs, SameTables
  <2> HIDE DEF a, b, c
  <2> QED
    BY <2>1, <2>2, <2>3
<1>2. ASSUME Counted[x] \notin Frames \ Libc PROVE Gains(Counted'[x])
  BY <1>1, <1>2 DEF Gains
<1>3. ASSUME Counted'[x] \notin Frames \ Libc PROVE Loses(Counted[x])
  BY <1>1, <1>3 DEF Loses
<1> QED
  BY <1>2, <1>3

\* The table of a space, and no more.
LEMMA TabMoves ==
    ASSUME Counted' = Counted, root' = root, hold' = hold, NEW p \in Spaces,
           \A q \in Spaces : q # p => tab'[q] = tab[q]
    PROVE  /\ tab[p] = 0 => Gains(tab'[p])
           /\ tab'[p] = 0 => Loses(tab[p])
<1>1. ASSUME NEW f \in Frames \ Libc
      PROVE  /\ tab[p] # f /\ tab'[p] = f => Refs(f)' = Refs(f) + 1
             /\ tab[p] = f /\ tab'[p] # f => Refs(f) = Refs(f)' + 1
             /\ (tab[p] = f <=> tab'[p] = f) => Refs(f)' = Refs(f)
  <2> DEFINE a == Num(Spaces, tab, f)
             b == Num(Spaces, tab', f)
             c == Num(Entries, Counted, f)
             d == Num(Spaces, root, f) + Num(Spaces, hold, f)
  <2>0. OnlyAt(Spaces, tab, tab', p)
    BY DEF OnlyAt
  <2>1. /\ tab[p] # f /\ tab'[p] = f => b = a + 1
        /\ tab[p] = f /\ tab'[p] # f => a = b + 1
        /\ (tab[p] = f <=> tab'[p] = f) => b = a
    BY <2>0, NumMoves, EntriesFinite
  <2>2. a \in Nat /\ b \in Nat /\ c \in Nat /\ d \in Nat
    BY NumType, EntriesFinite
  <2>3. Refs(f) = a + (c + d) /\ Refs(f)' = b + (c + d)
    BY RefsNext, NumType, EntriesFinite DEF Refs
  <2> HIDE DEF a, b, c, d
  <2> QED
    BY <2>1, <2>2, <2>3
<1> QED
  BY <1>1, SizeFacts DEF Gains, Loses

\* The PML4 of a space, and no more.
LEMMA RootMoves ==
    ASSUME Counted' = Counted, tab' = tab, hold' = hold, NEW p \in Spaces,
           \A q \in Spaces : q # p => root'[q] = root[q]
    PROVE  /\ root[p] = 0 => Gains(root'[p])
           /\ root'[p] = 0 => Loses(root[p])
<1>1. ASSUME NEW f \in Frames \ Libc
      PROVE  /\ root[p] # f /\ root'[p] = f => Refs(f)' = Refs(f) + 1
             /\ root[p] = f /\ root'[p] # f => Refs(f) = Refs(f)' + 1
             /\ (root[p] = f <=> root'[p] = f) => Refs(f)' = Refs(f)
  <2> DEFINE a == Num(Spaces, root, f)
             b == Num(Spaces, root', f)
             c == Num(Entries, Counted, f) + Num(Spaces, tab, f)
             d == Num(Spaces, hold, f)
  <2>0. OnlyAt(Spaces, root, root', p)
    BY DEF OnlyAt
  <2>1. /\ root[p] # f /\ root'[p] = f => b = a + 1
        /\ root[p] = f /\ root'[p] # f => a = b + 1
        /\ (root[p] = f <=> root'[p] = f) => b = a
    BY <2>0, NumMoves, EntriesFinite
  <2>2. a \in Nat /\ b \in Nat /\ c \in Nat /\ d \in Nat
    BY NumType, EntriesFinite
  <2>3. Refs(f) = a + (c + d) /\ Refs(f)' = b + (c + d)
    BY RefsNext, NumType, EntriesFinite DEF Refs
  <2> HIDE DEF a, b, c, d
  <2> QED
    BY <2>1, <2>2, <2>3
<1> QED
  BY <1>1, SizeFacts DEF Gains, Loses

\* The frame that a handler holds, and no more.
LEMMA HoldMoves ==
    ASSUME Counted' = Counted, tab' = tab, root' = root, NEW p \in Spaces, hold[p] = 0,
           \A q \in Spaces : q # p => hold'[q] = hold[q]
    PROVE  Gains(hold'[p])
<1>1. ASSUME NEW f \in Frames \ Libc
      PROVE  Refs(f)' = IF f = hold'[p] THEN Refs(f) + 1 ELSE Refs(f)
  <2> DEFINE a == Num(Spaces, hold, f)
             b == Num(Spaces, hold', f)
             c == Num(Entries, Counted, f) + Num(Spaces, tab, f) + Num(Spaces, root, f)
  <2>0. hold[p] # f /\ OnlyAt(Spaces, hold, hold', p)
    BY SizeFacts DEF OnlyAt
  <2>1. b = IF f = hold'[p] THEN a + 1 ELSE a
    BY <2>0, NumMoves, EntriesFinite
  <2>2. a \in Nat /\ b \in Nat /\ c \in Nat
    BY NumType, EntriesFinite
  <2>3. Refs(f) = a + c /\ Refs(f)' = b + c
    BY RefsNext, NumType, EntriesFinite DEF Refs
  <2> HIDE DEF a, b, c
  <2> QED
    BY <2>1, <2>2, <2>3
<1> QED
  BY <1>1 DEF Gains

\* A handler maps the frame that it holds: the reference becomes that of the entry.
LEMMA HoldToLeaf ==
    ASSUME tab' = tab, root' = root, NEW p \in Spaces, hold'[p] = 0,
           \A q \in Spaces : q # p => hold'[q] = hold[q],
           NEW x \in Entries, \A d \in Entries : d # x => Counted'[d] = Counted[d],
           Counted[x] = 0, Counted'[x] = hold[p]
    PROVE  Gains(0)
<1>1. ASSUME NEW f \in Frames \ Libc PROVE Refs(f)' = Refs(f)
  <2> DEFINE a == Num(Entries, Counted, f)
             b == Num(Entries, Counted', f)
             g == Num(Spaces, hold, f)
             h == Num(Spaces, hold', f)
             c == Num(Spaces, tab, f) + Num(Spaces, root, f)
  <2>0. /\ hold'[p] # f /\ Counted[x] # f
        /\ OnlyAt(Spaces, hold, hold', p) /\ OnlyAt(Entries, Counted, Counted', x)
    BY SizeFacts DEF OnlyAt
  <2>1. b = IF f = hold[p] THEN a + 1 ELSE a
    BY <2>0, NumMoves, EntriesFinite
  <2>2. g = IF f = hold[p] THEN h + 1 ELSE h
    BY <2>0, NumMoves, EntriesFinite
  <2>3. a \in Nat /\ b \in Nat /\ c \in Nat /\ g \in Nat /\ h \in Nat
    BY NumType, EntriesFinite
  <2>4. Refs(f) = a + g + c /\ Refs(f)' = b + h + c
    BY RefsNext, NumType, EntriesFinite DEF Refs
  <2> HIDE DEF a, b, c, g, h
  <2> QED
    BY <2>1, <2>2, <2>3, <2>4
<1> QED
  BY <1>1, SizeFacts DEF Gains

\* alloc_page for one reference.
LEMMA AllocCounts ==
    ASSUME TypeOK, Libc \cap free = {}, CountInv, NEW x \in Frames, Allocate(x), Gains(x)
    PROVE  CountInv'
<1> USE SizeFacts
<1>1. x \in free /\ x \notin Libc /\ free' = free \ {x} /\ ref' = [ref EXCEPT ![x] = 1]
  BY Allocated DEF Allocate
<1> SUFFICES ASSUME NEW f \in Frames \ Libc PROVE ref'[f] = Refs(f)' /\ (f \in free' <=> ref'[f] = 0)
  BY DEF CountInv
<1>2. ref[f] = Refs(f) /\ (f \in free <=> ref[f] = 0)
  BY DEF CountInv
<1>3. CASE f = x
  <2>1. Refs(f)' = 1
    BY <1>1, <1>2, <1>3 DEF Gains
  <2> QED
    BY <1>1, <1>3, <2>1 DEF TypeOK
<1>4. CASE f # x
  BY <1>1, <1>2, <1>4 DEF Gains, TypeOK
<1> QED
  BY <1>3, <1>4

\* free_page for one reference.
LEMMA FreeCounts ==
    ASSUME TypeOK, CountInv, NEW x \in Frames, FreePage(x), Loses(x)
    PROVE  CountInv'
<1> USE SizeFacts
<1> SUFFICES ASSUME NEW f \in Frames \ Libc PROVE ref'[f] = Refs(f)' /\ (f \in free' <=> ref'[f] = 0)
  BY DEF CountInv
<1>1. ref[f] = Refs(f) /\ (f \in free <=> ref[f] = 0) /\ Refs(f) \in Nat /\ Refs(f)' \in Nat
  BY RefsType, RefsTypeNext DEF CountInv
<1>2. CASE f = x
  <2>1. Refs(f) = Refs(f)' + 1
    BY <1>2 DEF Loses
  <2>2. ref[f] > 0 /\ f \notin free /\ ref[f] - 1 = Refs(f)'
    BY <1>1, <2>1
  <2>3. ref'[f] = ref[f] - 1 /\ (f \in free' <=> ref[f] = 1)
    BY <1>1, <1>2, <2>2 DEF FreePage, TypeOK
  <2> QED
    BY <1>1, <2>2, <2>3
<1>3. CASE f # x
  <2>1. Refs(f)' = Refs(f)
    BY <1>3 DEF Loses
  <2>2. ref'[f] = ref[f] /\ (f \in free' <=> f \in free)
    BY <1>3 DEF FreePage, TypeOK
  <2> QED
    BY <1>1, <2>1, <2>2
<1> QED
  BY <1>2, <1>3

\* page_incref for one reference, below the top.
LEMMA IncCounts ==
    ASSUME TypeOK, CountInv, NEW x \in Frames, IncRef(x), Gains(x),
           x \notin Libc => ref[x] >= 1 /\ ref[x] < MaxRef
    PROVE  CountInv'
<1> USE SizeFacts
<1> SUFFICES ASSUME NEW f \in Frames \ Libc PROVE ref'[f] = Refs(f)' /\ (f \in free' <=> ref'[f] = 0)
  BY DEF CountInv
<1>1. ref[f] = Refs(f) /\ (f \in free <=> ref[f] = 0) /\ ref[f] \in Nat
  BY RefsType DEF CountInv
<1>2. CASE f = x
  BY <1>1, <1>2 DEF IncRef, TypeOK, Gains
<1>3. CASE f # x
  BY <1>1, <1>3 DEF IncRef, TypeOK, Gains
<1> QED
  BY <1>2, <1>3

\* No reference and no count, of what is not pinned, changes.
LEMMA KeepCounts ==
    ASSUME CountInv, Gains(0), \A f \in Frames \ Libc : ref'[f] = ref[f], free' = free
    PROVE  CountInv'
<1> SUFFICES ASSUME NEW f \in Frames \ Libc PROVE ref'[f] = Refs(f)' /\ (f \in free' <=> ref'[f] = 0)
  BY DEF CountInv
<1>1. Refs(f)' = Refs(f)
  BY SizeFacts DEF Gains
<1> QED
  BY <1>1 DEF CountInv

----------------------------------------------------------------------------
(* The counts, step by step.                                                *)

\* A frame is taken for the tables of a space; no entry is written, no marked place touched.
LEMMA TablesGrow ==
    ASSUME ShapeInv, CountInv, NEW x \in Frames, Allocate(x), pte' = pte,
           \A p \in Spaces : (pc[p] \in Marked \/ pc'[p] \in Marked)
                             => pc'[p] = pc[p] /\ page'[p] = page[p] /\ child'[p] = child[p],
           NEW q \in Spaces,
           \/ /\ UNCHANGED <<root, hold>> /\ tab' = [tab EXCEPT ![q] = x] /\ tab[q] = 0
           \/ /\ UNCHANGED <<tab, hold>> /\ root' = [root EXCEPT ![q] = x] /\ root[q] = 0
           \/ /\ UNCHANGED <<tab, root>> /\ hold' = [hold EXCEPT ![q] = x] /\ hold[q] = 0
    PROVE  CountInv'
<1>1. Counted' = Counted
  BY CountedSame
<1>2. TypeOK /\ Libc \cap free = {}
  BY DEF ShapeInv
<1>3. Gains(x)
  <2>1. CASE UNCHANGED <<root, hold>> /\ tab' = [tab EXCEPT ![q] = x] /\ tab[q] = 0
    <3>1. tab'[q] = x /\ \A r \in Spaces : r # q => tab'[r] = tab[r]
      BY <1>2, <2>1 DEF TypeOK
    <3> QED
      BY <1>1, <2>1, <3>1, TabMoves
  <2>2. CASE UNCHANGED <<tab, hold>> /\ root' = [root EXCEPT ![q] = x] /\ root[q] = 0
    <3>1. root'[q] = x /\ \A r \in Spaces : r # q => root'[r] = root[r]
      BY <1>2, <2>2 DEF TypeOK
    <3> QED
      BY <1>1, <2>2, <3>1, RootMoves
  <2>3. CASE UNCHANGED <<tab, root>> /\ hold' = [hold EXCEPT ![q] = x] /\ hold[q] = 0
    <3>1. hold'[q] = x /\ \A r \in Spaces : r # q => hold'[r] = hold[r]
      BY <1>2, <2>3 DEF TypeOK
    <3> QED
      BY <1>1, <2>3, <3>1, HoldMoves
  <2> QED
    BY <2>1, <2>2, <2>3
<1> QED
  BY <1>2, <1>3, AllocCounts

\* Nothing that counts is touched.
LEMMA NothingCounts ==
    ASSUME CountInv, pte' = pte, UNCHANGED <<free, ref, root, tab, hold>>,
           \A p \in Spaces : (pc[p] \in Marked \/ pc'[p] \in Marked)
                             => pc'[p] = pc[p] /\ page'[p] = page[p] /\ child'[p] = child[p]
    PROVE  CountInv'
<1>1. Counted' = Counted
  BY CountedSame
<1>2. Gains(0)
  BY <1>1, SameRefs DEF SameTables
<1> QED
  BY <1>2, KeepCounts

\* One entry of p changes, or the place of the kernel code that works on p; nothing else does.
LEMMA OnePlace ==
    ASSUME ShapeInv, ShapeInv', NEW p \in Spaces, NEW v \in Pages,
           \A q \in Spaces, u \in Pages : q # p \/ u # v => pte'[q][u].frame = pte[q][u].frame,
           pc[p] # "embryo", pc'[p] # "embryo", pc[p] # "cloneRef", pc'[p] # "cloneRef",
           pc[p] \in {"cowMap", "unmap"} => page[p] = v,
           pc'[p] \in {"cowMap", "unmap"} => page'[p] = v,
           \A q \in Spaces \ {p} : pc'[q] = pc[q] /\ page'[q] = page[q] /\ child'[q] = child[q]
    PROVE  /\ \A d \in Entries : d # <<p, v>> => Counted'[d] = Counted[d]
           /\ Counted[<<p, v>>] = IF Dropped(p, v) THEN 0 ELSE pte[p][v].frame
           /\ Counted'[<<p, v>>] = IF Dropped(p, v)' THEN 0 ELSE pte'[p][v].frame
<1>1. ASSUME NEW q \in Spaces, NEW u \in Pages, q # p \/ u # v
      PROVE  /\ Dropped(q, u)' <=> Dropped(q, u)
             /\ Uncounts(<<q, u>>)' <=> Uncounts(<<q, u>>)
  <2>1. Dropped(q, u)' <=> Dropped(q, u)
    BY <1>1 DEF Dropped
  <2>2. \A r \in Spaces : At(r, "cloneRef")' <=> At(r, "cloneRef")
    BY DEF At
  <2>3. Uncounts(<<q, u>>)' <=> Uncounts(<<q, u>>)
    BY <2>2 DEF Uncounts, At
  <2> QED
    BY <2>1, <2>3
<1>2. \A d \in Entries : d # <<p, v>> => Counted'[d] = Counted[d]
  BY <1>1, CountedOne
<1>3. ~Uncounts(<<p, v>>) /\ ~Uncounts(<<p, v>>)'
  BY OnlyEmbryos, OnlyEmbryosNext
<1> QED
  BY <1>2, <1>3, CountedIs, CountedNextIs

\* The copy-on-write handler and munmap give a reference back before they change the entry.
LEMMA DropCounts ==
    ASSUME ShapeInv, ShapeInv', CountInv, NEW p \in Spaces, NEW v \in Pages, Present(p, v),
           FreePage(pte[p][v].frame), pte' = pte, SameTables,
           pc[p] \in {"user", "cowDrop"}, pc'[p] \in {"cowMap", "unmap"}, page'[p] = v,
           \A q \in Spaces \ {p} : pc'[q] = pc[q] /\ page'[q] = page[q] /\ child'[q] = child[q]
    PROVE  CountInv'
<1>1. /\ \A d \in Entries : d # <<p, v>> => Counted'[d] = Counted[d]
      /\ Counted[<<p, v>>] = IF Dropped(p, v) THEN 0 ELSE pte[p][v].frame
      /\ Counted'[<<p, v>>] = IF Dropped(p, v)' THEN 0 ELSE pte'[p][v].frame
  BY OnePlace
<1>2. ~Dropped(p, v) /\ Dropped(p, v)'
  BY DEF Dropped
<1>3. Counted'[<<p, v>>] = 0 /\ Counted[<<p, v>>] = pte[p][v].frame /\ pte[p][v].frame \in Frames
  BY <1>1, <1>2, PresentFrame DEF ShapeInv
<1>4. Loses(pte[p][v].frame)
  BY <1>1, <1>3, LeafMoves, CountedIs, SizeFacts
<1> QED
  BY <1>3, <1>4, FreeCounts DEF ShapeInv

\* An entry that counts for nothing is written, and counts for nothing of the pool.
LEMMA EmptyWritten ==
    ASSUME ShapeInv, CountInv, NEW x \in Entries,
           \A d \in Entries : d # x => Counted'[d] = Counted[d],
           Counted[x] \notin Frames \ Libc, Counted'[x] \notin Frames \ Libc,
           SameTables, free' = free, \A f \in Frames \ Libc : ref'[f] = ref[f]
    PROVE  CountInv'
<1>1. Gains(0)
  <2>1. \A d \in Entries, f \in Frames \ Libc : Counted'[d] = f <=> Counted[d] = f
    OBVIOUS
  <2> QED
    BY <2>1, SameRefs
<1> QED
  BY <1>1, KeepCounts

\* map_page_ro: the libc's frames are not counted here.
LEMMA LibMapCounts ==
    ASSUME ShapeInv, ShapeInv', CountInv, NEW p \in Spaces, LibMap(p)
    PROVE  CountInv'
<1>1. PICK v \in Libc : /\ page' = [page EXCEPT ![p] = v]
                        /\ pte' = pte \/ OneEntry(p, v, v, FALSE, FALSE)
  BY LibMapEntries
<1>2. /\ pc[p] = "spawn" /\ pc'[p] = "libRef" /\ v \in Pages
      /\ \A q \in Spaces \ {p} : pc'[q] = pc[q] /\ page'[q] = page[q] /\ child'[q] = child[q]
      /\ SameTables /\ free' = free /\ ref' = ref
  BY <1>1, SizeFacts DEF LibMap, At, Goto, ShapeInv, TypeOK, SameTables, allocVars
<1>3. /\ \A q \in Spaces, u \in Pages : q # p \/ u # v => pte'[q][u].frame = pte[q][u].frame
      /\ pte[p][v].frame \in Libc \cup {0} /\ pte'[p][v].frame \in Libc \cup {0}
  BY <1>1, <1>2 DEF OneEntry, ShapeInv, Shape
<1>4. /\ \A d \in Entries : d # <<p, v>> => Counted'[d] = Counted[d]
      /\ Counted[<<p, v>>] = IF Dropped(p, v) THEN 0 ELSE pte[p][v].frame
      /\ Counted'[<<p, v>>] = IF Dropped(p, v)' THEN 0 ELSE pte'[p][v].frame
  BY <1>2, <1>3, OnePlace
<1>5. Counted[<<p, v>>] \in Libc \cup {0} /\ Counted'[<<p, v>>] \in Libc \cup {0}
  BY <1>3, <1>4
<1>6. Counted[<<p, v>>] \notin Frames \ Libc /\ Counted'[<<p, v>>] \notin Frames \ Libc
  BY <1>5, SizeFacts
<1>7. <<p, v>> \in Entries
  BY <1>2, CountedIs
<1> QED
  BY <1>2, <1>4, <1>6, <1>7, EmptyWritten

\* Its reference.
LEMMA LibRefCounts ==
    ASSUME ShapeInv, CountInv, NEW p \in Spaces, LibRef(p)
    PROVE  CountInv'
<1>1. page[p] \in Libc /\ page[p] \in Frames
  BY SizeFacts DEF ShapeInv, Shape, LibRef, At
<1>2. free' = free /\ \A f \in Frames \ Libc : ref'[f] = ref[f]
  BY <1>1 DEF LibRef, IncRef, ShapeInv, TypeOK
<1>3. Counted' = Counted
  BY CountedSame DEF LibRef, Goto, At, ShapeInv, TypeOK, Marked, spaceVars
<1>4. Gains(0)
  BY <1>3, SameRefs DEF SameTables, LibRef, spaceVars
<1> QED
  BY <1>2, <1>4, KeepCounts

\* A fault gets a frame.
LEMMA FaultMapCounts ==
    ASSUME ShapeInv, ShapeInv', CountInv, NEW p \in Spaces, NEW x \in Frames, FaultMap(p, x)
    PROVE  CountInv'
<1>1. page[p] \in Pages /\ OneEntry(p, page[p], x, prot[p][page[p]] = "rw", FALSE)
  BY FaultMapEntries
<1>0. PICK v \in Pages : v = page[p]
  BY <1>1
<1>2. /\ pc[p] = "fault" /\ pc'[p] = "user" /\ SameTables /\ Allocate(x)
      /\ \A q \in Spaces \ {p} : pc'[q] = pc[q] /\ page'[q] = page[q] /\ child'[q] = child[q]
  BY DEF FaultMap, At, Leave, Goto, ShapeInv, TypeOK, SameTables, AllocateZeroed
<1>3. \A q \in Spaces, u \in Pages : q # p \/ u # v => pte'[q][u].frame = pte[q][u].frame
  BY <1>0, <1>1 DEF OneEntry
<1>4. /\ \A d \in Entries : d # <<p, v>> => Counted'[d] = Counted[d]
      /\ Counted[<<p, v>>] = IF Dropped(p, v) THEN 0 ELSE pte[p][v].frame
      /\ Counted'[<<p, v>>] = IF Dropped(p, v)' THEN 0 ELSE pte'[p][v].frame
  BY <1>0, <1>1, <1>2, <1>3, OnePlace
<1>5. Counted[<<p, v>>] = 0 /\ Counted'[<<p, v>>] = x
  BY <1>0, <1>1, <1>2, <1>4 DEF Dropped, OneEntry, ShapeInv, Shape, Present
<1>6. Gains(x)
  BY <1>1, <1>2, <1>4, <1>5, LeafMoves, CountedIs, SizeFacts
<1> QED
  BY <1>2, <1>6, AllocCounts DEF ShapeInv

\* The sole owner keeps its frame.
LEMMA CowKeepCounts ==
    ASSUME ShapeInv, ShapeInv', CountInv, NEW p \in Spaces, CowKeep(p)
    PROVE  CountInv'
<1>1. page[p] \in Pages /\ OneEntry(p, page[p], pte[p][page[p]].frame, TRUE, FALSE)
  BY CowKeepEntries
<1>0. PICK v \in Pages : v = page[p]
  BY <1>1
<1>2. /\ pc[p] = "cowKeep" /\ pc'[p] = "user" /\ SameTables /\ free' = free /\ ref' = ref
      /\ \A q \in Spaces \ {p} : pc'[q] = pc[q] /\ page'[q] = page[q] /\ child'[q] = child[q]
  BY DEF CowKeep, At, Leave, Goto, ShapeInv, TypeOK, SameTables, allocVars
<1>3. \A q \in Spaces, u \in Pages : q # p \/ u # v => pte'[q][u].frame = pte[q][u].frame
  BY <1>0, <1>1 DEF OneEntry
<1>4. /\ \A d \in Entries : d # <<p, v>> => Counted'[d] = Counted[d]
      /\ Counted[<<p, v>>] = IF Dropped(p, v) THEN 0 ELSE pte[p][v].frame
      /\ Counted'[<<p, v>>] = IF Dropped(p, v)' THEN 0 ELSE pte'[p][v].frame
  BY <1>0, <1>1, <1>2, <1>3, OnePlace
<1>5. Counted[<<p, v>>] = Counted'[<<p, v>>]
  BY <1>0, <1>1, <1>2, <1>4 DEF Dropped, OneEntry
<1>6. Gains(0)
  BY <1>2, <1>4, <1>5, SameRefs
<1> QED
  BY <1>2, <1>6, KeepCounts

\* The copy takes the place of the shared page.
LEMMA CowMapCounts ==
    ASSUME ShapeInv, ShapeInv', CountInv, NEW p \in Spaces, CowMap(p)
    PROVE  CountInv'
<1>1. page[p] \in Pages /\ OneEntry(p, page[p], hold[p], TRUE, FALSE)
  BY CowMapEntries
<1>0. PICK v \in Pages : v = page[p]
  BY <1>1
<1>2. /\ pc[p] = "cowMap" /\ pc'[p] = "user" /\ free' = free /\ ref' = ref /\ tab' = tab /\ root' = root
      /\ \A q \in Spaces \ {p} : pc'[q] = pc[q] /\ page'[q] = page[q] /\ child'[q] = child[q]
      /\ hold'[p] = 0 /\ \A q \in Spaces : q # p => hold'[q] = hold[q]
  BY DEF CowMap, At, Leave, Goto, ShapeInv, TypeOK, allocVars
<1>3. \A q \in Spaces, u \in Pages : q # p \/ u # v => pte'[q][u].frame = pte[q][u].frame
  BY <1>0, <1>1 DEF OneEntry
<1>4. /\ \A d \in Entries : d # <<p, v>> => Counted'[d] = Counted[d]
      /\ Counted[<<p, v>>] = IF Dropped(p, v) THEN 0 ELSE pte[p][v].frame
      /\ Counted'[<<p, v>>] = IF Dropped(p, v)' THEN 0 ELSE pte'[p][v].frame
  BY <1>0, <1>1, <1>2, <1>3, OnePlace
<1>5. Counted[<<p, v>>] = 0 /\ Counted'[<<p, v>>] = hold[p]
  BY <1>0, <1>1, <1>2, <1>4 DEF Dropped, OneEntry
<1>6. Gains(0)
  BY <1>1, <1>2, <1>4, <1>5, HoldToLeaf, CountedIs
<1> QED
  BY <1>2, <1>6, KeepCounts

\* A page that was given back leaves the directory.
LEMMA UnmapClearsCounts ==
    ASSUME ShapeInv, ShapeInv', CountInv, NEW p \in Spaces, UnmapClears(p)
    PROVE  CountInv'
<1>1. page[p] \in Pages /\ OneEntry(p, page[p], 0, FALSE, FALSE)
  BY UnmapClearsEntries
<1>0. PICK v \in Pages : v = page[p]
  BY <1>1
<1>2. /\ pc[p] = "unmap" /\ pc'[p] = "user" /\ SameTables /\ free' = free /\ ref' = ref
      /\ \A q \in Spaces \ {p} : pc'[q] = pc[q] /\ page'[q] = page[q] /\ child'[q] = child[q]
  BY DEF UnmapClears, At, Leave, Goto, ShapeInv, TypeOK, SameTables, allocVars
<1>3. \A q \in Spaces, u \in Pages : q # p \/ u # v => pte'[q][u].frame = pte[q][u].frame
  BY <1>0, <1>1 DEF OneEntry
<1>4. /\ \A d \in Entries : d # <<p, v>> => Counted'[d] = Counted[d]
      /\ Counted[<<p, v>>] = IF Dropped(p, v) THEN 0 ELSE pte[p][v].frame
      /\ Counted'[<<p, v>>] = IF Dropped(p, v)' THEN 0 ELSE pte'[p][v].frame
  BY <1>0, <1>1, <1>2, <1>3, OnePlace
<1>5. Counted[<<p, v>>] = 0 /\ Counted'[<<p, v>>] = 0
  BY <1>0, <1>1, <1>2, <1>4 DEF Dropped, OneEntry
<1>6. Gains(0)
  BY <1>2, <1>4, <1>5, SameRefs
<1> QED
  BY <1>2, <1>6, KeepCounts

\* do_mprotect moves no frame.
LEMMA MprotectCounts ==
    ASSUME ShapeInv, ShapeInv', CountInv, NEW p \in Spaces, NEW v \in Pages, NEW r \in Prots, Mprotect(p, v, r)
    PROVE  CountInv'
<1>1. \A q \in Spaces, u \in Pages : pte'[q][u].frame = pte[q][u].frame
  BY MprotectEntry DEF ShapeInv
<1>2. /\ pc[p] = "user" /\ pc'[p] = "user" /\ SameTables /\ free' = free /\ ref' = ref
      /\ \A q \in Spaces \ {p} : pc'[q] = pc[q] /\ page'[q] = page[q] /\ child'[q] = child[q]
  BY DEF Mprotect, At, ShapeInv, TypeOK, SameTables, allocVars
<1>3. /\ \A d \in Entries : d # <<p, v>> => Counted'[d] = Counted[d]
      /\ Counted[<<p, v>>] = IF Dropped(p, v) THEN 0 ELSE pte[p][v].frame
      /\ Counted'[<<p, v>>] = IF Dropped(p, v)' THEN 0 ELSE pte'[p][v].frame
  BY <1>1, <1>2, OnePlace
<1>4. Counted[<<p, v>>] = Counted'[<<p, v>>]
  BY <1>1, <1>2, <1>3 DEF Dropped
<1>5. Gains(0)
  BY <1>2, <1>3, <1>4, SameRefs
<1> QED
  BY <1>2, <1>5, KeepCounts

\* The copy-on-write handler leaves the shared frame.
LEMMA CowDropCounts ==
    ASSUME ShapeInv, ShapeInv', CountInv, NEW p \in Spaces, CowDrop(p)
    PROVE  CountInv'
<1>1. PICK v \in Pages : v = page[p]
  BY DEF CowDrop, ShapeInv, Shape, At, Faulting
<1>2. /\ pc[p] = "cowDrop" /\ pc'[p] = "cowMap" /\ page'[p] = v /\ SameTables /\ pte' = pte
      /\ Present(p, v) /\ FreePage(pte[p][v].frame)
      /\ \A q \in Spaces \ {p} : pc'[q] = pc[q] /\ page'[q] = page[q] /\ child'[q] = child[q]
  BY <1>1 DEF CowDrop, At, Goto, ShapeInv, TypeOK, Shape, Faulting, SameTables, spaceVars
<1> QED
  BY <1>2, DropCounts

\* do_munmap frees first.
LEMMA MunmapCounts ==
    ASSUME ShapeInv, ShapeInv', CountInv, NEW p \in Spaces, NEW v \in Pages, Munmap(p, v)
    PROVE  CountInv'
<1>1. /\ pc[p] = "user" /\ pc'[p] = "unmap" /\ page'[p] = v /\ SameTables /\ pte' = pte
      /\ \A q \in Spaces \ {p} : pc'[q] = pc[q] /\ page'[q] = page[q] /\ child'[q] = child[q]
      /\ IF Present(p, v) THEN FreePage(pte[p][v].frame) ELSE UNCHANGED allocVars
  BY DEF Munmap, Starts, At, Goto, ShapeInv, TypeOK, SameTables, spaceVars
<1>2. CASE Present(p, v)
  BY <1>1, <1>2, DropCounts
<1>3. CASE ~Present(p, v)
  <2>1. /\ \A d \in Entries : d # <<p, v>> => Counted'[d] = Counted[d]
        /\ Counted[<<p, v>>] = IF Dropped(p, v) THEN 0 ELSE pte[p][v].frame
        /\ Counted'[<<p, v>>] = IF Dropped(p, v)' THEN 0 ELSE pte'[p][v].frame
    BY <1>1, OnePlace
  <2>2. Counted[<<p, v>>] = 0 /\ Counted'[<<p, v>>] = 0
    BY <1>1, <1>3, <2>1 DEF Present
  <2>3. Gains(0)
    BY <1>1, <2>1, <2>2, SameRefs
  <2> QED
    BY <1>1, <1>3, <2>3, KeepCounts DEF allocVars
<1> QED
  BY <1>2, <1>3

\* free_page_directory gives a page back.
LEMMA FreeLeafCounts ==
    ASSUME ShapeInv, ShapeInv', CountInv, NEW p \in Spaces, FreeLeaf(p)
    PROVE  CountInv'
<1>1. PICK v \in Pages : /\ Present(p, v) /\ FreePage(pte[p][v].frame) /\ pte[p][v].frame \in Frames
                         /\ OneEntry(p, v, 0, FALSE, FALSE)
  BY FreeLeafOne
<1>2. pc[p] = "dying" /\ pc' = pc /\ page' = page /\ child' = child /\ SameTables
  BY DEF FreeLeaf, At, SameTables
<1>3. \A q \in Spaces, u \in Pages : q # p \/ u # v => pte'[q][u].frame = pte[q][u].frame
  BY <1>1 DEF OneEntry
<1>4. /\ \A d \in Entries : d # <<p, v>> => Counted'[d] = Counted[d]
      /\ Counted[<<p, v>>] = IF Dropped(p, v) THEN 0 ELSE pte[p][v].frame
      /\ Counted'[<<p, v>>] = IF Dropped(p, v)' THEN 0 ELSE pte'[p][v].frame
  BY <1>2, <1>3, OnePlace
<1>5. Counted[<<p, v>>] = pte[p][v].frame /\ Counted'[<<p, v>>] = 0
  BY <1>1, <1>2, <1>4 DEF Dropped, OneEntry
<1>6. Loses(pte[p][v].frame)
  BY <1>2, <1>4, <1>5, LeafMoves, CountedIs, SizeFacts
<1> QED
  BY <1>1, <1>6, FreeCounts DEF ShapeInv

\* The table.
LEMMA FreeTableCounts ==
    ASSUME ShapeInv, CountInv, NEW p \in Spaces, FreeTable(p)
    PROVE  CountInv'
<1>1. Counted' = Counted
  BY CountedSame DEF FreeTable
<1>2. tab[p] \in Frames /\ tab'[p] = 0 /\ \A q \in Spaces : q # p => tab'[q] = tab[q]
  BY DEF FreeTable, ShapeInv, TypeOK, Frames
<1>3. Loses(tab[p])
  BY <1>1, <1>2, TabMoves DEF FreeTable
<1> QED
  BY <1>2, <1>3, FreeCounts DEF FreeTable, ShapeInv

\* The PML4.
LEMMA FreeRootCounts ==
    ASSUME ShapeInv, CountInv, NEW p \in Spaces, FreeRoot(p)
    PROVE  CountInv'
<1>1. Counted' = Counted
  BY CountedSame DEF FreeRoot, Goto, At, ShapeInv, TypeOK, Marked
<1>2. root[p] \in Frames /\ root'[p] = 0 /\ \A q \in Spaces : q # p => root'[q] = root[q]
  BY DEF FreeRoot, ShapeInv, TypeOK, Frames, Shape, At
<1>3. Loses(root[p])
  BY <1>1, <1>2, RootMoves DEF FreeRoot
<1> QED
  BY <1>2, <1>3, FreeCounts DEF FreeRoot, ShapeInv

\* Who counts where when a fork has shared page v of p with c, and when it has counted it.
LEMMA CloneMarks ==
    ASSUME ShapeInv, NEW p \in Spaces, NEW c \in Spaces, c = child[p], Cloning(p), Cloning(p)',
           NEW v \in Pages, pc'[p] # "clone" \/ pc[p] # "clone",
           pc[p] = "cloneRef" => page[p] = v, pc'[p] = "cloneRef" => page'[p] = v, child' = child,
           \A q \in Spaces \ {p} : pc'[q] = pc[q] /\ page'[q] = page[q]
    PROVE  /\ \A q \in Spaces, u \in Pages : q # c \/ u # v =>
                 /\ Dropped(q, u)' <=> Dropped(q, u)
                 /\ Uncounts(<<q, u>>)' <=> Uncounts(<<q, u>>)
           /\ ~Dropped(c, v) /\ ~Dropped(c, v)'
           /\ Uncounts(<<c, v>>) <=> pc[p] = "cloneRef"
           /\ Uncounts(<<c, v>>)' <=> pc'[p] = "cloneRef"
<1>1. c # p /\ pc[c] = "embryo" /\ pc'[c] = "embryo"
  BY DEF ShapeInv, Fork, At
<1>2. \A q \in Spaces : q # p /\ At(q, "cloneRef") => child[q] # c
  BY DEF ShapeInv, Cloning, At
<1>3. \A q \in Spaces : q # p => (At(q, "cloneRef")' <=> At(q, "cloneRef")) /\ page'[q] = page[q]
  BY DEF At
<1>4. ASSUME NEW q \in Spaces, NEW u \in Pages, q # c \/ u # v
      PROVE  /\ Dropped(q, u)' <=> Dropped(q, u)
             /\ Uncounts(<<q, u>>)' <=> Uncounts(<<q, u>>)
  <2>1. Dropped(q, u)' <=> Dropped(q, u)
    BY DEF Dropped, Cloning
  <2>2. /\ At(p, "cloneRef") => <<q, u>> # <<child[p], page[p]>>
        /\ At(p, "cloneRef")' => <<q, u>> # <<child'[p], page'[p]>>
    BY <1>4 DEF At
  <2>3. Uncounts(<<q, u>>)' <=> Uncounts(<<q, u>>)
    BY <1>3, <2>2 DEF Uncounts
  <2> QED
    BY <2>1, <2>3
<1>5. ~Dropped(c, v) /\ ~Dropped(c, v)'
  BY <1>1 DEF Dropped
<1>6. Uncounts(<<c, v>>) <=> pc[p] = "cloneRef"
  BY <1>2 DEF Uncounts, At
<1>7. Uncounts(<<c, v>>)' <=> pc'[p] = "cloneRef"
  BY <1>2, <1>3 DEF Uncounts, At
<1> QED
  BY <1>4, <1>5, <1>6, <1>7

\* A page is shared, and not counted yet.
LEMMA CloneShareCounts ==
    ASSUME ShapeInv, CountInv, NEW p \in Spaces, CloneShare(p)
    PROVE  CountInv'
<1>1. PICK v \in Pages :
              /\ v \in Ahead(p)
              /\ page' = [page EXCEPT ![p] = v]
              /\ \A q \in Spaces, u \in Pages :
                    LET e == pte[p][v]
                    IN  IF q \in {p, child[p]} /\ u = v
                        THEN pte'[q][u].frame = e.frame /\ ~pte'[q][u].w /\ pte'[q][u].cow = (e.w \/ e.cow)
                        ELSE pte'[q][u] = pte[q][u]
  BY CloneShareEntries
<1>2. PICK c \in Spaces : c = child[p]
  BY DEF ShapeInv, TypeOK
<1>3. /\ pc[p] = "clone" /\ pc'[p] = "cloneRef" /\ page'[p] = v /\ child' = child /\ Cloning(p) /\ Cloning(p)'
      /\ \A q \in Spaces \ {p} : pc'[q] = pc[q] /\ page'[q] = page[q]
      /\ SameTables /\ free' = free /\ ref' = ref
  BY <1>1 DEF CloneShare, At, Goto, ShapeInv, TypeOK, Cloning, SameTables, allocVars
<1>4. pte[c][v].frame = 0
  BY <1>1, <1>2, <1>3 DEF ShapeInv, Fork, Present
<1>5. /\ \A q \in Spaces, u \in Pages : q # c \/ u # v =>
                 /\ Dropped(q, u)' <=> Dropped(q, u)
                 /\ Uncounts(<<q, u>>)' <=> Uncounts(<<q, u>>)
      /\ Uncounts(<<c, v>>)' <=> pc'[p] = "cloneRef"
  BY <1>2, <1>3, CloneMarks
<1>6. \A q \in Spaces, u \in Pages : q # c \/ u # v => pte'[q][u].frame = pte[q][u].frame
  BY <1>1, <1>2
<1>7. \A d \in Entries : d # <<c, v>> => Counted'[d] = Counted[d]
  BY <1>5, <1>6, CountedOne
<1>8. Counted[<<c, v>>] = 0 /\ Counted'[<<c, v>>] = 0 /\ <<c, v>> \in Entries
  BY <1>3, <1>4, <1>5, CountedIs, CountedNextIs
<1> QED
  BY <1>3, <1>7, <1>8, EmptyWritten, SizeFacts

\* It is counted, if the count has not reached the top.
LEMMA CloneRefCounts ==
    ASSUME ShapeInv, CountInv, NEW p \in Spaces, CloneRef(p),
           pte[p][page[p]].frame \notin Libc => ref[pte[p][page[p]].frame] < MaxRef
    PROVE  CountInv'
<1>1. PICK v \in Pages : v = page[p]
  BY DEF CloneRef, ShapeInv, Shape, At
<1>2. PICK c \in Spaces : c = child[p]
  BY DEF ShapeInv, TypeOK
<1>3. PICK x \in Frames : x = pte[p][v].frame
  BY <1>1, PresentFrame DEF CloneRef, ShapeInv, Shape, At
<1>4. /\ pc[p] = "cloneRef" /\ pc'[p] = "clone" /\ child' = child /\ Cloning(p) /\ Cloning(p)'
      /\ \A q \in Spaces \ {p} : pc'[q] = pc[q] /\ page'[q] = page[q]
      /\ SameTables /\ pte' = pte /\ IncRef(x)
  BY <1>1, <1>3 DEF CloneRef, At, Goto, ShapeInv, TypeOK, Cloning, SameTables, spaceVars
<1>5. /\ \A q \in Spaces, u \in Pages : q # c \/ u # v =>
                 /\ Dropped(q, u)' <=> Dropped(q, u)
                 /\ Uncounts(<<q, u>>)' <=> Uncounts(<<q, u>>)
      /\ ~Dropped(c, v) /\ ~Dropped(c, v)'
      /\ Uncounts(<<c, v>>) <=> pc[p] = "cloneRef"
      /\ Uncounts(<<c, v>>)' <=> pc'[p] = "cloneRef"
  BY <1>1, <1>2, <1>4, CloneMarks
<1>6. pte[c][v].frame = x
  BY <1>1, <1>2, <1>3, <1>4 DEF ShapeInv, Fork, At
<1>7. \A d \in Entries : d # <<c, v>> => Counted'[d] = Counted[d]
  BY <1>4, <1>5, CountedOne
<1>8. Counted[<<c, v>>] = 0 /\ Counted'[<<c, v>>] = x /\ <<c, v>> \in Entries
  BY <1>4, <1>5, <1>6, CountedIs, CountedNextIs
<1>9. Gains(x)
  BY <1>4, <1>7, <1>8, LeafMoves, SizeFacts
<1>10. x \notin Libc => ref[x] >= 1
  <2> SUFFICES ASSUME x \notin Libc PROVE ref[x] >= 1
    OBVIOUS
  <2>1. ~Uncounts(<<p, v>>) /\ ~Dropped(p, v)
    BY <1>4, OnlyEmbryos DEF Dropped
  <2>2. Counted[<<p, v>>] = x /\ <<p, v>> \in Entries
    BY <1>3, <2>1, CountedIs
  <2>3. Num(Entries, Counted, x) > 0
    BY <2>2, NumPositive, EntriesFinite
  <2>4. ref[x] = Refs(x)
    BY DEF CountInv
  <2> QED
    BY <2>3, <2>4, RefsType DEF Refs
<1> QED
  BY <1>1, <1>3, <1>4, <1>9, <1>10, IncCounts DEF ShapeInv

----------------------------------------------------------------------------
(* What a frame is used for.                                                *)

\* An entry of a frame is one that points at it and has not been given back.
LEMMA LeafIs ==
    ASSUME NEW p \in Spaces, NEW v \in Pages, NEW f
    PROVE  <<p, v>> \in Leaves(f) <=> pte[p][v].frame = f /\ ~Dropped(p, v)
  BY DEF Leaves

\* And after a step.
LEMMA LeafNextIs ==
    ASSUME NEW p \in Spaces, NEW v \in Pages, NEW f
    PROVE  <<p, v>> \in Leaves(f)' <=> pte'[p][v].frame = f /\ ~Dropped(p, v)'
  BY DEF Leaves

\* The entries of a frame are entries.
LEMMA LeavesAre == ASSUME NEW f PROVE Leaves(f) \subseteq Entries /\ Leaves(f)' \subseteq Entries
  BY DEF Leaves, Entries

\* Nothing refers to a frame that is free.
LEMMA Unused ==
    ASSUME ShapeInv, CountInv, NEW x \in Frames, x \in free
    PROVE  /\ x \notin Libc /\ Leaves(x) = {}
           /\ \A q \in Spaces : tab[q] # x /\ root[q] # x /\ hold[q] # x
<1>1. x \notin Libc /\ Refs(x) = 0
  BY DEF ShapeInv, CountInv
<1>2. /\ Num(Entries, Counted, x) = 0 /\ Num(Spaces, tab, x) = 0
      /\ Num(Spaces, root, x) = 0 /\ Num(Spaces, hold, x) = 0
  BY <1>1, RefsType DEF Refs
<1>3. /\ \A d \in Entries : Counted[d] # x
      /\ \A q \in Spaces : tab[q] # x /\ root[q] # x /\ hold[q] # x
  BY <1>2, NumPositive, EntriesFinite
<1>4. ASSUME NEW d \in Leaves(x) PROVE FALSE
  <2>1. PICK p \in Spaces, v \in Pages : d = <<p, v>>
    BY LeavesAre, EntryIs
  <2>2. pte[p][v].frame = x /\ ~Dropped(p, v)
    BY <2>1, LeafIs
  <2>3. Uncounts(<<p, v>>)
    BY <1>3, <2>2, CountedIs
  <2>4. PICK q \in Spaces : At(q, "cloneRef") /\ child[q] = p /\ page[q] = v
    BY <2>3 DEF Uncounts
  <2>5. pte[q][v].frame = x
    BY <2>2, <2>4 DEF ShapeInv, Fork, Cloning, At
  <2>6. ~Dropped(q, v) /\ ~Uncounts(<<q, v>>)
    BY <2>4, OnlyEmbryos DEF Dropped, At
  <2> QED
    BY <1>3, <2>5, <2>6, CountedIs
<1> QED
  BY <1>1, <1>3, <1>4

\* Entries and tables go, or a frame without entries becomes a table or is held by one task.
LEMMA KindKept ==
    ASSUME KindInv, \A f \in Frames \ Libc : Leaves(f)' \subseteq Leaves(f),
           NEW x, x \in Frames => /\ Leaves(x) = {}
                                  /\ \A q \in Spaces : tab[q] # x /\ root[q] # x /\ hold[q] # x,
           \A q \in Spaces : /\ tab'[q] \in {tab[q], 0, x} /\ root'[q] \in {root[q], 0, x}
                             /\ hold'[q] \in {hold[q], 0, x},
           x \in Frames => \A q, r \in Spaces :
                             hold'[q] = x => tab'[r] # x /\ root'[r] # x /\ (hold'[r] = x => r = q)
    PROVE  KindInv'
<1> USE SizeFacts
<1> SUFFICES ASSUME NEW f \in Frames \ Libc
             PROVE  /\ \A d \in Leaves(f)' : /\ \A e \in Leaves(f)' : e[2] = d[2]
                                             /\ \A q \in Spaces : tab'[q] # f /\ root'[q] # f /\ hold'[q] # f
                    /\ \A p \in Spaces : hold'[p] = f =>
                          \A q \in Spaces : tab'[q] # f /\ root'[q] # f /\ (hold'[q] = f => q = p)
  BY DEF KindInv
<1>1. CASE f = x
  BY <1>1
<1>2. CASE f # x
  <2>1. \A q \in Spaces : /\ tab'[q] = f => tab[q] = f
                          /\ root'[q] = f => root[q] = f
                          /\ hold'[q] = f => hold[q] = f
    BY <1>2
  <2> QED
    BY <2>1 DEF KindInv
<1> QED
  BY <1>1, <1>2

\* Who goes on being given back.
LEMMA LeavesKept ==
    ASSUME pte' = pte,
           \A p \in Spaces : pc[p] \in {"cowMap", "unmap"} => pc'[p] = pc[p] /\ page'[p] = page[p]
    PROVE  \A f : Leaves(f)' \subseteq Leaves(f)
<1> SUFFICES ASSUME NEW f, NEW d \in Leaves(f)' PROVE d \in Leaves(f)
  OBVIOUS
<1>1. PICK p \in Spaces, v \in Pages : d = <<p, v>>
  BY LeavesAre, EntryIs
<1>2. pte[p][v].frame = f /\ ~Dropped(p, v)'
  BY <1>1, LeafNextIs
<1>3. ~Dropped(p, v)
  BY <1>2 DEF Dropped
<1> QED
  BY <1>1, <1>2, <1>3, LeafIs

\* One entry is written; no other begins to count.
LEMMA OneLeaf ==
    ASSUME NEW p \in Spaces, NEW v \in Pages,
           \A q \in Spaces, u \in Pages : q # p \/ u # v => pte'[q][u].frame = pte[q][u].frame,
           \A q \in Spaces : pc[q] \in {"cowMap", "unmap"} =>
              (q = p /\ page[q] = v) \/ (pc'[q] = pc[q] /\ page'[q] = page[q])
    PROVE  \A f : Leaves(f)' \subseteq Leaves(f) \cup (IF pte'[p][v].frame = f THEN {<<p, v>>} ELSE {})
<1> SUFFICES ASSUME NEW f, NEW d \in Leaves(f)', d # <<p, v>> \/ pte'[p][v].frame # f
             PROVE  d \in Leaves(f)
  OBVIOUS
<1>1. PICK q \in Spaces, u \in Pages : d = <<q, u>>
  BY LeavesAre, EntryIs
<1>2. pte'[q][u].frame = f /\ ~Dropped(q, u)'
  BY <1>1, LeafNextIs
<1>3. q # p \/ u # v
  BY <1>1, <1>2
<1>4. pte[q][u].frame = f /\ ~Dropped(q, u)
  BY <1>2, <1>3 DEF Dropped
<1> QED
  BY <1>1, <1>4, LeafIs


\* A table, a root or a held frame stays or goes.
TablesLess == \A q \in Spaces : /\ tab'[q] \in {tab[q], 0} /\ root'[q] \in {root[q], 0}
                                /\ hold'[q] \in {hold[q], 0}

\* No entry is written, and nothing of the pool is handed out.
LEMMA KindQuiet ==
    ASSUME KindInv, pte' = pte, TablesLess,
           \A p \in Spaces : pc[p] \in {"cowMap", "unmap"} => pc'[p] = pc[p] /\ page'[p] = page[p]
    PROVE  KindInv'
<1>1. \A f : Leaves(f)' \subseteq Leaves(f)
  BY LeavesKept
<1> DEFINE x == 0
<1>2. x \notin Frames
  BY SizeFacts
<1>3. \A q \in Spaces : /\ tab'[q] \in {tab[q], 0, x} /\ root'[q] \in {root[q], 0, x}
                        /\ hold'[q] \in {hold[q], 0, x}
  BY DEF TablesLess
<1> HIDE DEF x
<1> QED
  BY <1>1, <1>2, <1>3, KindKept

\* An entry is cleared, or keeps its frame, or points into the libc.
LEMMA KindEntry ==
    ASSUME KindInv, NEW p \in Spaces, NEW v \in Pages, TablesLess,
           \A q \in Spaces, u \in Pages : q # p \/ u # v => pte'[q][u].frame = pte[q][u].frame,
           \A q \in Spaces : pc[q] \in {"cowMap", "unmap"} =>
              (q = p /\ page[q] = v) \/ (pc'[q] = pc[q] /\ page'[q] = page[q]),
           pte'[p][v].frame \in Frames \ Libc => pte'[p][v].frame = pte[p][v].frame /\ ~Dropped(p, v)
    PROVE  KindInv'
<1>1. \A f : Leaves(f)' \subseteq Leaves(f) \cup (IF pte'[p][v].frame = f THEN {<<p, v>>} ELSE {})
  BY OneLeaf
<1>2. \A f \in Frames \ Libc : Leaves(f)' \subseteq Leaves(f)
  BY <1>1, LeafIs
<1> DEFINE x == 0
<1>3. x \notin Frames
  BY SizeFacts
<1>4. \A q \in Spaces : /\ tab'[q] \in {tab[q], 0, x} /\ root'[q] \in {root[q], 0, x}
                        /\ hold'[q] \in {hold[q], 0, x}
  BY DEF TablesLess
<1> HIDE DEF x
<1> QED
  BY <1>2, <1>3, <1>4, KindKept

\* A frame that nothing refers to gets its first entry.
LEMMA KindFresh ==
    ASSUME KindInv, NEW p \in Spaces, NEW v \in Pages, NEW x \in Frames, TablesLess,
           Leaves(x) = {}, \A q \in Spaces : tab'[q] # x /\ root'[q] # x /\ hold'[q] # x,
           \A q \in Spaces, u \in Pages : q # p \/ u # v => pte'[q][u].frame = pte[q][u].frame,
           \A q \in Spaces : pc[q] \in {"cowMap", "unmap"} =>
              (q = p /\ page[q] = v) \/ (pc'[q] = pc[q] /\ page'[q] = page[q]),
           pte'[p][v].frame = x
    PROVE  KindInv'
<1> USE SizeFacts
<1>1. \A f : Leaves(f)' \subseteq Leaves(f) \cup (IF pte'[p][v].frame = f THEN {<<p, v>>} ELSE {})
  BY OneLeaf
<1>2. Leaves(x)' \subseteq {<<p, v>>}
  BY <1>1
<1>3. \A f : f # x => Leaves(f)' \subseteq Leaves(f)
  BY <1>1
<1> SUFFICES ASSUME NEW f \in Frames \ Libc
             PROVE  /\ \A d \in Leaves(f)' : /\ \A e \in Leaves(f)' : e[2] = d[2]
                                             /\ \A q \in Spaces : tab'[q] # f /\ root'[q] # f /\ hold'[q] # f
                    /\ \A q \in Spaces : hold'[q] = f =>
                          \A r \in Spaces : tab'[r] # f /\ root'[r] # f /\ (hold'[r] = f => r = q)
  BY DEF KindInv
<1>4. CASE f = x
  BY <1>2, <1>4
<1>5. CASE f # x
  <2>1. \A q \in Spaces : /\ tab'[q] = f => tab[q] = f
                          /\ root'[q] = f => root[q] = f
                          /\ hold'[q] = f => hold[q] = f
    BY DEF TablesLess
  <2>2. Leaves(f)' \subseteq Leaves(f)
    BY <1>3, <1>5
  <2> QED
    BY <2>1, <2>2 DEF KindInv
<1> QED
  BY <1>4, <1>5

\* A frame is taken for a table, a root, or to be copied into.
LEMMA KindGrow ==
    ASSUME ShapeInv, CountInv, KindInv, NEW x \in Frames, Allocate(x), pte' = pte,
           \A p \in Spaces : pc[p] \in {"cowMap", "unmap"} => pc'[p] = pc[p] /\ page'[p] = page[p],
           NEW q \in Spaces,
           \/ UNCHANGED <<root, hold>> /\ tab' = [tab EXCEPT ![q] = x]
           \/ UNCHANGED <<tab, hold>> /\ root' = [root EXCEPT ![q] = x]
           \/ UNCHANGED <<tab, root>> /\ hold' = [hold EXCEPT ![q] = x]
    PROVE  KindInv'
<1>1. \A f : Leaves(f)' \subseteq Leaves(f)
  BY LeavesKept
<1>2. x \in free
  BY Allocated DEF ShapeInv
<1>3. /\ Leaves(x) = {}
      /\ \A r \in Spaces : tab[r] # x /\ root[r] # x /\ hold[r] # x
  BY <1>2, Unused
<1>4. /\ tab \in [Spaces -> 0..NFrames] /\ root \in [Spaces -> 0..NFrames] /\ hold \in [Spaces -> 0..NFrames]
  BY DEF ShapeInv, TypeOK
<1>5. \A r \in Spaces : /\ tab'[r] \in {tab[r], 0, x} /\ root'[r] \in {root[r], 0, x}
                        /\ hold'[r] \in {hold[r], 0, x}
  BY <1>4
<1>6. \A r, s \in Spaces : hold'[r] = x => tab'[s] # x /\ root'[s] # x /\ (hold'[s] = x => s = r)
  BY <1>3, <1>4
<1> QED
  BY <1>1, <1>3, <1>5, <1>6, KindKept

\* The entry of the parent is there already.
LEMMA CloneShareKind ==
    ASSUME ShapeInv, KindInv, NEW p \in Spaces, CloneShare(p)
    PROVE  KindInv'
<1>1. PICK v \in Pages :
              /\ v \in Ahead(p)
              /\ page' = [page EXCEPT ![p] = v]
              /\ \A q \in Spaces, u \in Pages :
                    LET e == pte[p][v]
                    IN  IF q \in {p, child[p]} /\ u = v
                        THEN pte'[q][u].frame = e.frame /\ ~pte'[q][u].w /\ pte'[q][u].cow = (e.w \/ e.cow)
                        ELSE pte'[q][u] = pte[q][u]
  BY CloneShareEntries
<1>2. PICK c \in Spaces : c = child[p]
  BY DEF ShapeInv, TypeOK
<1>3. /\ pc[p] = "clone" /\ SameTables
      /\ \A q \in Spaces : pc[q] \in {"cowMap", "unmap"} => pc'[q] = pc[q] /\ page'[q] = page[q]
  BY <1>1 DEF CloneShare, At, Goto, ShapeInv, TypeOK, SameTables
<1>4. \A q \in Spaces, u \in Pages : q # c \/ u # v => pte'[q][u].frame = pte[q][u].frame
  BY <1>1, <1>2
<1>5. pte'[c][v].frame = pte[p][v].frame
  BY <1>1, <1>2
<1>6. \A f : Leaves(f)' \subseteq Leaves(f) \cup (IF pte'[c][v].frame = f THEN {<<c, v>>} ELSE {})
  BY <1>3, <1>4, OneLeaf
<1>7. <<p, v>> \in Leaves(pte[p][v].frame)
  BY <1>3, LeafIs DEF Dropped
<1> SUFFICES ASSUME NEW f \in Frames \ Libc
             PROVE  /\ \A d \in Leaves(f)' : /\ \A e \in Leaves(f)' : e[2] = d[2]
                                             /\ \A q \in Spaces : tab'[q] # f /\ root'[q] # f /\ hold'[q] # f
                    /\ \A q \in Spaces : hold'[q] = f =>
                          \A r \in Spaces : tab'[r] # f /\ root'[r] # f /\ (hold'[r] = f => r = q)
  BY DEF KindInv
<1>8. CASE pte[p][v].frame = f
  <2>1. Leaves(f)' \subseteq Leaves(f) \cup {<<c, v>>} /\ <<p, v>> \in Leaves(f)
    BY <1>5, <1>6, <1>7, <1>8
  <2>2. \A d \in Leaves(f) : d[2] = v
    BY <2>1 DEF KindInv
  <2>3. \A d \in Leaves(f)' : d[2] = v
    BY <2>1, <2>2
  <2>4. \A q \in Spaces : tab[q] # f /\ root[q] # f /\ hold[q] # f
    BY <2>1 DEF KindInv
  <2> QED
    BY <1>3, <2>3, <2>4 DEF SameTables
<1>9. CASE pte[p][v].frame # f
  <2>1. Leaves(f)' \subseteq Leaves(f)
    BY <1>5, <1>6, <1>9
  <2> QED
    BY <1>3, <2>1 DEF SameTables, KindInv
<1> QED
  BY <1>8, <1>9

\* Every step keeps the kinds of the frames.
LEMMA KindNext ==
    ASSUME ShapeInv, CountInv, KindInv, [Next]_vars
    PROVE  KindInv'
<1> USE DEF TablesLess
<1>1. CASE UNCHANGED vars
  BY <1>1, KindQuiet DEF vars, allocVars, spaceVars
<1>2. ASSUME NEW p \in Spaces, NEW f \in Frames, SpawnBegin(p, f) PROVE KindInv'
  BY <1>2, KindGrow DEF SpawnBegin, AllocateZeroed, Starts, At, Goto, ShapeInv, TypeOK
<1>3. ASSUME NEW p \in Spaces, UserStep(p) PROVE KindInv'
  <2>1. CASE Exit(p)
    BY <2>1, KindQuiet DEF Exit, Starts, At, Goto, spaceVars, ShapeInv, TypeOK
  <2>2. ASSUME NEW v \in Pages, Fault(p, v) PROVE KindInv'
    BY <2>2, KindQuiet DEF Fault, Starts, At, Goto, spaceVars, ShapeInv, TypeOK
  <2>3. ASSUME NEW v \in Pages, CowFault(p, v) PROVE KindInv'
    BY <2>3, KindQuiet DEF CowFault, Starts, At, Goto, spaceVars, ShapeInv, TypeOK
  <2>4. ASSUME NEW v \in Pages, Munmap(p, v) PROVE KindInv'
    BY <2>4, KindQuiet DEF Munmap, Starts, At, Goto, spaceVars, ShapeInv, TypeOK
  <2>5. ASSUME NEW v \in Pages, NEW x \in Values, Write(p, v, x) PROVE KindInv'
    BY <2>5, KindQuiet DEF Write, spaceVars
  <2>6. ASSUME NEW v \in Pages, NEW r \in MmapProts, Mmap(p, v, r) PROVE KindInv'
    BY <2>6, KindQuiet DEF Mmap
  <2>7. ASSUME NEW v \in Pages, NEW r \in Prots, Mprotect(p, v, r) PROVE KindInv'
    <3>1. \A q \in Spaces, u \in Pages : pte'[q][u].frame = pte[q][u].frame
      BY <2>7, MprotectEntry DEF ShapeInv
    <3>2. pc[p] = "user" /\ pc' = pc /\ page' = page /\ SameTables /\ ~Dropped(p, v)
      BY <2>7 DEF Mprotect, At, SameTables, Dropped
    <3> QED
      BY <3>1, <3>2, KindEntry DEF SameTables
  <2>8. ASSUME NEW q \in Spaces, NEW f \in Frames, ForkBegin(p, q, f) PROVE KindInv'
    BY <2>8, KindGrow DEF ForkBegin, AllocateZeroed, Starts, At, ShapeInv, TypeOK
  <2> QED
    BY <1>3, <2>1, <2>2, <2>3, <2>4, <2>5, <2>6, <2>7, <2>8 DEF UserStep
<1>4. ASSUME NEW p \in Spaces, SpawnStep(p) PROVE KindInv'
  <2>1. CASE LibMap(p)
    <3>1. PICK v \in Libc : pte' = pte \/ OneEntry(p, v, v, FALSE, FALSE)
      BY <2>1, LibMapEntries
    <3>2. /\ \A q \in Spaces : pc[q] \in {"cowMap", "unmap"} => pc'[q] = pc[q] /\ page'[q] = page[q]
          /\ TablesLess
      BY <2>1 DEF LibMap, At, Goto, ShapeInv, TypeOK
    <3>3. CASE pte' = pte
      BY <3>2, <3>3, KindQuiet
    <3>4. CASE OneEntry(p, v, v, FALSE, FALSE)
      BY <3>2, <3>4, KindEntry, SizeFacts DEF OneEntry
    <3> QED
      BY <3>1, <3>3, <3>4
  <2>2. CASE LibRef(p)
    BY <2>2, KindQuiet DEF LibRef, At, Goto, spaceVars, ShapeInv, TypeOK
  <2>3. CASE SpawnDone(p)
    BY <2>3, KindQuiet DEF SpawnDone, Leave, At, Goto, spaceVars, ShapeInv, TypeOK
  <2>4. ASSUME NEW f \in Frames, LibGrow(p, f) PROVE KindInv'
    BY <2>4, KindGrow DEF LibGrow, AllocateZeroed
  <2> QED
    BY <1>4, <2>1, <2>2, <2>3, <2>4 DEF SpawnStep
<1>5. ASSUME NEW p \in Spaces, FaultStep(p) PROVE KindInv'
  <2>1. CASE FaultFails(p)
    BY <2>1, KindQuiet DEF FaultFails, Leave, At, Goto, spaceVars, ShapeInv, TypeOK
  <2>2. ASSUME NEW f \in Frames, FaultGrow(p, f) PROVE KindInv'
    BY <2>2, KindGrow DEF FaultGrow, AllocateZeroed
  <2>3. ASSUME NEW f \in Frames, FaultMap(p, f) PROVE KindInv'
    <3>1. page[p] \in Pages /\ OneEntry(p, page[p], f, prot[p][page[p]] = "rw", FALSE)
      BY <2>3, FaultMapEntries
    <3>2. f \in free
      BY <2>3, Allocated DEF ShapeInv, FaultMap, AllocateZeroed
    <3>3. Leaves(f) = {} /\ \A q \in Spaces : tab[q] # f /\ root[q] # f /\ hold[q] # f
      BY <3>2, Unused
    <3>4. /\ \A q \in Spaces : pc[q] \in {"cowMap", "unmap"} => pc'[q] = pc[q] /\ page'[q] = page[q]
          /\ UNCHANGED <<tab, root, hold>>
      BY <2>3 DEF FaultMap, At, Leave, Goto, ShapeInv, TypeOK
    <3> QED
      BY <3>1, <3>3, <3>4, KindFresh DEF OneEntry
  <2> QED
    BY <1>5, <2>1, <2>2, <2>3 DEF FaultStep
<1>6. ASSUME NEW p \in Spaces, CowStep(p) PROVE KindInv'
  <2>1. CASE CowKeep(p)
    <3>1. page[p] \in Pages /\ OneEntry(p, page[p], pte[p][page[p]].frame, TRUE, FALSE)
      BY <2>1, CowKeepEntries
    <3>2. pc[p] = "cowKeep" /\ UNCHANGED <<tab, root, hold>> /\ ~Dropped(p, page[p])
      BY <2>1 DEF CowKeep, At, Dropped
    <3>3. \A q \in Spaces : pc[q] \in {"cowMap", "unmap"} => pc'[q] = pc[q] /\ page'[q] = page[q]
      BY <2>1, <3>2 DEF CowKeep, Leave, Goto, ShapeInv, TypeOK
    <3> QED
      BY <3>1, <3>2, <3>3, KindEntry DEF OneEntry
  <2>2. CASE CowCopy(p)
    BY <2>2, KindQuiet DEF CowCopy, At, Goto, spaceVars, ShapeInv, TypeOK
  <2>3. CASE CowDrop(p)
    BY <2>3, KindQuiet DEF CowDrop, At, Goto, spaceVars, ShapeInv, TypeOK
  <2>4. CASE CowMap(p)
    <3>1. page[p] \in Pages /\ OneEntry(p, page[p], hold[p], TRUE, FALSE)
      BY <2>4, CowMapEntries
    <3>2. hold[p] \in Frames \ Libc
      BY <2>4 DEF CowMap, At, ShapeInv, TypeOK, Shape, Holding, Frames
    <3>3. /\ Leaves(hold[p]) = {}
          /\ \A q \in Spaces : tab[q] # hold[p] /\ root[q] # hold[p] /\ (hold[q] = hold[p] => q = p)
      BY <3>2 DEF KindInv
    <3>4. /\ \A q \in Spaces : pc[q] \in {"cowMap", "unmap"} =>
                (q = p /\ page[q] = page[p]) \/ (pc'[q] = pc[q] /\ page'[q] = page[q])
          /\ tab' = tab /\ root' = root
          /\ hold'[p] = 0 /\ \A q \in Spaces \ {p} : hold'[q] = hold[q]
      BY <2>4 DEF CowMap, Leave, Goto, ShapeInv, TypeOK
    <3>5. \A q \in Spaces : tab'[q] # hold[p] /\ root'[q] # hold[p] /\ hold'[q] # hold[p]
      BY <3>2, <3>3, <3>4, SizeFacts
    <3> QED
      BY <3>1, <3>2, <3>3, <3>4, <3>5, KindFresh DEF OneEntry
  <2>5. ASSUME NEW f \in Frames, CowAlloc(p, f) PROVE KindInv'
    BY <2>5, KindGrow DEF CowAlloc, At, Goto, spaceVars, ShapeInv, TypeOK
  <2> QED
    BY <1>6, <2>1, <2>2, <2>3, <2>4, <2>5 DEF CowStep
<1>7. ASSUME NEW p \in Spaces, UnmapClears(p) PROVE KindInv'
  <2>1. page[p] \in Pages /\ OneEntry(p, page[p], 0, FALSE, FALSE)
    BY <1>7, UnmapClearsEntries
  <2>2. /\ \A q \in Spaces : pc[q] \in {"cowMap", "unmap"} =>
              (q = p /\ page[q] = page[p]) \/ (pc'[q] = pc[q] /\ page'[q] = page[q])
        /\ UNCHANGED <<tab, root, hold>>
    BY <1>7 DEF UnmapClears, Leave, Goto, ShapeInv, TypeOK
  <2>3. PICK v \in Pages : v = page[p]
    BY <2>1
  <2>4. /\ pte'[p][v].frame \notin Frames
        /\ \A q \in Spaces, u \in Pages : q # p \/ u # v => pte'[q][u].frame = pte[q][u].frame
    BY <2>1, <2>3, SizeFacts DEF OneEntry
  <2> QED
    BY <2>2, <2>3, <2>4, KindEntry
<1>8. ASSUME NEW p \in Spaces, ForkStep(p) PROVE KindInv'
  <2>1. CASE CloneShare(p)
    BY <2>1, CloneShareKind
  <2>2. CASE CloneRef(p)
    BY <2>2, KindQuiet DEF CloneRef, At, Goto, spaceVars, ShapeInv, TypeOK
  <2>3. CASE ForkDone(p)
    BY <2>3, KindQuiet DEF ForkDone, At, ShapeInv, TypeOK, Fork, Cloning
  <2>4. CASE ForkFails(p)
    BY <2>4, KindQuiet DEF ForkFails, At, spaceVars, ShapeInv, TypeOK, Fork, Cloning
  <2>5. CASE ForkUndone(p)
    BY <2>5, KindQuiet DEF ForkUndone, At, Goto, spaceVars, ShapeInv, TypeOK
  <2>6. ASSUME NEW f \in Frames, CloneGrow(p, f) PROVE KindInv'
    <3>1. PICK c \in Spaces : c = child[p]
      BY DEF ShapeInv, TypeOK
    <3> QED
      BY <2>6, <3>1, KindGrow DEF CloneGrow, AllocateZeroed
  <2> QED
    BY <1>8, <2>1, <2>2, <2>3, <2>4, <2>5, <2>6 DEF ForkStep
<1>9. ASSUME NEW p \in Spaces, FreeStep(p) PROVE KindInv'
  <2>1. CASE FreeLeaf(p)
    <3>1. PICK v \in Pages : OneEntry(p, v, 0, FALSE, FALSE)
      BY <2>1, FreeLeafOne
    <3>2. pc' = pc /\ page' = page /\ UNCHANGED <<tab, root, hold>>
      BY <2>1 DEF FreeLeaf
    <3> QED
      BY <3>1, <3>2, KindEntry, SizeFacts DEF OneEntry
  <2>2. CASE FreeTable(p)
    BY <2>2, KindQuiet DEF FreeTable, ShapeInv, TypeOK
  <2>3. CASE FreeRoot(p)
    BY <2>3, KindQuiet DEF FreeRoot, At, Goto, ShapeInv, TypeOK
  <2> QED
    BY <1>9, <2>1, <2>2, <2>3 DEF FreeStep
<1> QED
  BY <1>1, <1>2, <1>3, <1>4, <1>5, <1>6, <1>7, <1>8, <1>9 DEF Next

\* Nobody refers to the frame.
LEMMA NumNone ==
    ASSUME NEW D, NEW F, NEW f, \A d \in D : F[d] # f
    PROVE  Num(D, F, f) = 0
<1>1. {d \in D : F[d] = f} = {}
  OBVIOUS
<1> QED
  BY <1>1, FS_EmptySet DEF Num

----------------------------------------------------------------------------
(* The counts stay exact.                                                   *)

\* Nobody can refer to more of a frame than there are spaces, so page_incref does not reach the top
\* where a fork has still to count an entry.
LEMMA Room ==
    ASSUME ShapeInv, CountInv, KindInv, Cardinality(Spaces) <= MaxRef, NEW p \in Spaces, At(p, "cloneRef"),
           NEW x \in Frames \ Libc, pte[p][page[p]].frame = x
    PROVE  ref[x] < MaxRef
<1>1. PICK v \in Pages : v = page[p]
  BY DEF ShapeInv, Shape, At
<1>2. PICK c \in Spaces : c = child[p]
  BY DEF ShapeInv, TypeOK
<1>3. <<p, v>> \in Leaves(x)
  BY <1>1, LeafIs DEF Dropped, At
<1>4. /\ \A d \in Leaves(x) : d[2] = v
      /\ \A q \in Spaces : tab[q] # x /\ root[q] # x /\ hold[q] # x
  BY <1>3 DEF KindInv
<1> DEFINE S == {d \in Entries : Counted[d] = x}
           T == {<<q, v>> : q \in Spaces \ {c}}
<1>5. S \subseteq T
  <2> SUFFICES ASSUME NEW d \in S PROVE d \in T
    OBVIOUS
  <2>1. PICK q \in Spaces, u \in Pages : d = <<q, u>>
    BY EntryIs
  <2>2. ~Dropped(q, u) /\ ~Uncounts(<<q, u>>) /\ pte[q][u].frame = x
    BY <2>1, CountedIs, SizeFacts
  <2>3. <<q, u>> \in Leaves(x)
    BY <2>2, LeafIs
  <2>4. u = v
    BY <1>4, <2>3
  <2>5. Uncounts(<<c, v>>)
    BY <1>1, <1>2 DEF Uncounts
  <2>6. q # c
    BY <2>2, <2>4, <2>5
  <2> QED
    BY <2>1, <2>4, <2>6
<1>6. IsFiniteSet(Spaces \ {c}) /\ Cardinality(Spaces \ {c}) = Cardinality(Spaces) - 1
  BY <1>2, SpacesAssumption, FS_RemoveElement
<1>7. IsFiniteSet(T) /\ Cardinality(T) <= Cardinality(Spaces \ {c})
  <2> DEFINE g == [q \in Spaces \ {c} |-> <<q, v>>]
  <2>1. g \in Surjection(Spaces \ {c}, T)
    BY DEF Surjection
  <2> HIDE DEF g, T
  <2> QED
    BY <1>6, <2>1, FS_Surjection
<1> HIDE DEF S, T
<1>8. IsFiniteSet(S) /\ Cardinality(S) <= Cardinality(T)
  BY <1>5, <1>7, FS_Subset
<1>9. /\ Cardinality(S) \in Nat /\ Cardinality(T) \in Nat /\ Cardinality(Spaces) \in Nat
      /\ Cardinality(Spaces \ {c}) \in Nat
  BY <1>6, <1>7, <1>8, SpacesAssumption, FS_CardinalityType
<1>10. Num(Entries, Counted, x) = Cardinality(S)
  BY DEF S, Num
<1>11. Num(Spaces, tab, x) = 0 /\ Num(Spaces, root, x) = 0 /\ Num(Spaces, hold, x) = 0
  BY <1>4, NumNone
<1>12. ref[x] = Cardinality(S)
  BY <1>9, <1>10, <1>11 DEF CountInv, Refs
<1> QED
  BY <1>6, <1>7, <1>8, <1>9, <1>12, SizeFacts

\* Every step keeps the counts, if a count can reach the number of spaces.
LEMMA CountNext ==
    ASSUME ShapeInv, ShapeInv', CountInv, KindInv, Cardinality(Spaces) <= MaxRef, [Next]_vars
    PROVE  CountInv'
<1> USE DEF Marked
<1>1. CASE UNCHANGED vars
  BY <1>1, NothingCounts DEF vars, allocVars, spaceVars
<1>2. ASSUME NEW p \in Spaces, NEW f \in Frames, SpawnBegin(p, f) PROVE CountInv'
  <2>1. root[p] = 0
    BY <1>2 DEF SpawnBegin, Starts, At, ShapeInv, Shape
  <2> QED
    BY <1>2, <2>1, TablesGrow DEF SpawnBegin, AllocateZeroed, Starts, At, Goto, ShapeInv, TypeOK
<1>3. ASSUME NEW p \in Spaces, UserStep(p) PROVE CountInv'
  <2>1. CASE Exit(p)
    BY <2>1, NothingCounts DEF Exit, Starts, At, Goto, allocVars, spaceVars, ShapeInv, TypeOK
  <2>2. ASSUME NEW v \in Pages, Fault(p, v) PROVE CountInv'
    BY <2>2, NothingCounts DEF Fault, Starts, At, Goto, allocVars, spaceVars, ShapeInv, TypeOK
  <2>3. ASSUME NEW v \in Pages, CowFault(p, v) PROVE CountInv'
    BY <2>3, NothingCounts DEF CowFault, Starts, At, Goto, allocVars, spaceVars, ShapeInv, TypeOK
  <2>4. ASSUME NEW v \in Pages, Munmap(p, v) PROVE CountInv'
    BY <2>4, MunmapCounts
  <2>5. ASSUME NEW v \in Pages, NEW x \in Values, Write(p, v, x) PROVE CountInv'
    BY <2>5, NothingCounts DEF Write, allocVars, spaceVars
  <2>6. ASSUME NEW v \in Pages, NEW r \in MmapProts, Mmap(p, v, r) PROVE CountInv'
    BY <2>6, NothingCounts DEF Mmap, allocVars
  <2>7. ASSUME NEW v \in Pages, NEW r \in Prots, Mprotect(p, v, r) PROVE CountInv'
    BY <2>7, MprotectCounts
  <2>8. ASSUME NEW q \in Spaces, NEW f \in Frames, ForkBegin(p, q, f) PROVE CountInv'
    <3>1. root[q] = 0
      BY <2>8 DEF ForkBegin, At, ShapeInv, Shape
    <3>2. \A r \in Spaces : (pc[r] \in Marked \/ pc'[r] \in Marked)
                           => pc'[r] = pc[r] /\ page'[r] = page[r] /\ child'[r] = child[r]
      BY <2>8 DEF ForkBegin, Starts, At, ShapeInv, TypeOK
    <3> QED
      BY <2>8, <3>1, <3>2, TablesGrow DEF ForkBegin, AllocateZeroed
  <2> QED
    BY <1>3, <2>1, <2>2, <2>3, <2>4, <2>5, <2>6, <2>7, <2>8 DEF UserStep
<1>4. ASSUME NEW p \in Spaces, SpawnStep(p) PROVE CountInv'
  <2>1. CASE LibMap(p)
    BY <2>1, LibMapCounts
  <2>2. CASE LibRef(p)
    BY <2>2, LibRefCounts
  <2>3. CASE SpawnDone(p)
    BY <2>3, NothingCounts DEF SpawnDone, Leave, At, Goto, allocVars, spaceVars, ShapeInv, TypeOK
  <2>4. ASSUME NEW f \in Frames, LibGrow(p, f) PROVE CountInv'
    BY <2>4, TablesGrow DEF LibGrow, AllocateZeroed
  <2> QED
    BY <1>4, <2>1, <2>2, <2>3, <2>4 DEF SpawnStep
<1>5. ASSUME NEW p \in Spaces, FaultStep(p) PROVE CountInv'
  <2>1. CASE FaultFails(p)
    BY <2>1, NothingCounts DEF FaultFails, Leave, Goto, allocVars, spaceVars, ShapeInv, TypeOK
  <2>2. ASSUME NEW f \in Frames, FaultGrow(p, f) PROVE CountInv'
    BY <2>2, TablesGrow DEF FaultGrow, AllocateZeroed
  <2>3. ASSUME NEW f \in Frames, FaultMap(p, f) PROVE CountInv'
    BY <2>3, FaultMapCounts
  <2> QED
    BY <1>5, <2>1, <2>2, <2>3 DEF FaultStep
<1>6. ASSUME NEW p \in Spaces, CowStep(p) PROVE CountInv'
  <2>1. CASE CowKeep(p)
    BY <2>1, CowKeepCounts
  <2>2. CASE CowCopy(p)
    BY <2>2, NothingCounts DEF CowCopy, At, Goto, allocVars, spaceVars, ShapeInv, TypeOK
  <2>3. CASE CowDrop(p)
    BY <2>3, CowDropCounts
  <2>4. CASE CowMap(p)
    BY <2>4, CowMapCounts
  <2>5. ASSUME NEW f \in Frames, CowAlloc(p, f) PROVE CountInv'
    <3>1. hold[p] = 0
      BY <2>5 DEF CowAlloc, At, ShapeInv, Shape, Holding
    <3> QED
      BY <2>5, <3>1, TablesGrow DEF CowAlloc, At, Goto, spaceVars, ShapeInv, TypeOK
  <2> QED
    BY <1>6, <2>1, <2>2, <2>3, <2>4, <2>5 DEF CowStep
<1>7. ASSUME NEW p \in Spaces, UnmapClears(p) PROVE CountInv'
  BY <1>7, UnmapClearsCounts
<1>8. ASSUME NEW p \in Spaces, ForkStep(p) PROVE CountInv'
  <2>1. CASE CloneShare(p)
    BY <2>1, CloneShareCounts
  <2>2. CASE CloneRef(p)
    <3>1. At(p, "cloneRef") /\ pte[p][page[p]].frame \in Frames
      BY <2>2, PresentFrame DEF CloneRef, ShapeInv, Shape, At
    <3> QED
      BY <2>2, <3>1, Room, CloneRefCounts
  <2>3. CASE ForkDone(p)
    BY <2>3, NothingCounts DEF ForkDone, At, allocVars, ShapeInv, TypeOK, Fork, Cloning
  <2>4. CASE ForkFails(p)
    BY <2>4, NothingCounts DEF ForkFails, At, allocVars, spaceVars, ShapeInv, TypeOK, Fork, Cloning
  <2>5. CASE ForkUndone(p)
    BY <2>5, NothingCounts DEF ForkUndone, At, Goto, allocVars, spaceVars, ShapeInv, TypeOK
  <2>6. ASSUME NEW f \in Frames, CloneGrow(p, f) PROVE CountInv'
    <3>1. PICK c \in Spaces : c = child[p]
      BY DEF ShapeInv, TypeOK
    <3> QED
      BY <2>6, <3>1, TablesGrow DEF CloneGrow, AllocateZeroed
  <2> QED
    BY <1>8, <2>1, <2>2, <2>3, <2>4, <2>5, <2>6 DEF ForkStep
<1>9. ASSUME NEW p \in Spaces, FreeStep(p) PROVE CountInv'
  <2>1. CASE FreeLeaf(p)
    BY <2>1, FreeLeafCounts
  <2>2. CASE FreeTable(p)
    BY <2>2, FreeTableCounts
  <2>3. CASE FreeRoot(p)
    BY <2>3, FreeRootCounts
  <2> QED
    BY <1>9, <2>1, <2>2, <2>3 DEF FreeStep
<1> QED
  BY <1>1, <1>2, <1>3, <1>4, <1>5, <1>6, <1>7, <1>8, <1>9 DEF Next

\* What the frame allocator relies on, together.
AllocInv == ShapeInv /\ CountInv /\ KindInv

\* Nothing is mapped at the start.
LEMMA InitCounts == Init => AllocInv
<1> SUFFICES ASSUME Init PROVE CountInv /\ KindInv
  BY InitShape DEF AllocInv
<1> USE SizeFacts
<1>1. ASSUME NEW f \in Frames PROVE Refs(f) = 0 /\ Leaves(f) = {}
  <2>1. \A p \in Spaces, v \in Pages : pte[p][v].frame = 0
    BY DEF Init, Absent
  <2>2. ASSUME NEW d \in Entries PROVE Counted[d] # f
    <3>1. PICK p \in Spaces, v \in Pages : d = <<p, v>>
      BY EntryIs
    <3> QED
      BY <2>1, <3>1, CountedIs
  <2>3. \A p \in Spaces : tab[p] # f /\ root[p] # f /\ hold[p] # f
    BY DEF Init
  <2>4. /\ Num(Entries, Counted, f) = 0 /\ Num(Spaces, tab, f) = 0
        /\ Num(Spaces, root, f) = 0 /\ Num(Spaces, hold, f) = 0
    BY <2>2, <2>3, NumNone
  <2>5. Leaves(f) = {}
    BY <2>1 DEF Leaves
  <2> QED
    BY <2>4, <2>5 DEF Refs
<1>2. CountInv
  BY <1>1 DEF Init, CountInv
<1>3. KindInv
  BY <1>1 DEF Init, KindInv
<1> QED
  BY <1>2, <1>3

\* The entries of a frame are those that count and those that fork has still to count.
LEMMA LeavesCount ==
    ASSUME ShapeInv, NEW f \in Frames
    PROVE  /\ Cardinality(Leaves(f)) = Num(Entries, Counted, f) + Uncounted(f)
           /\ Uncounted(f) \in Nat
<1> DEFINE A == {d \in Entries : Counted[d] = f}
           B == {d \in Leaves(f) : Uncounts(d)}
           P == {p \in Spaces : At(p, "cloneRef") /\ pte[p][page[p]].frame = f}
           g == [p \in P |-> <<child[p], page[p]>>]
<1>1. Leaves(f) = A \cup B /\ A \cap B = {}
  <2>1. ASSUME NEW d \in Entries PROVE /\ d \in A <=> d \in Leaves(f) /\ ~Uncounts(d)
    <3>1. PICK p \in Spaces, v \in Pages : d = <<p, v>>
      BY EntryIs
    <3> QED
      BY <3>1, CountedIs, LeafIs, SizeFacts
  <2>2. Leaves(f) \subseteq Entries
    BY LeavesAre
  <2> QED
    BY <2>1, <2>2
<1>2. IsFiniteSet(A) /\ IsFiniteSet(B) /\ IsFiniteSet(P)
  <2>1. A \in SUBSET Entries /\ B \in SUBSET Entries /\ P \in SUBSET Spaces
    BY LeavesAre
  <2> QED
    BY <2>1, EntriesFinite, FS_Subset
<1>3. g \in Bijection(P, B)
  <2>1. ASSUME NEW p \in P
        PROVE  /\ child[p] \in Spaces /\ page[p] \in Pages /\ At(child[p], "embryo")
               /\ pte[child[p]][page[p]].frame = f
    BY DEF ShapeInv, TypeOK, Shape, Fork, Cloning, At
  <2>2. ASSUME NEW p \in P PROVE g[p] \in B
    <3>1. PICK c \in Spaces, v \in Pages : c = child[p] /\ v = page[p]
      BY <2>1
    <3>2. pte[c][v].frame = f /\ ~Dropped(c, v) /\ Uncounts(<<c, v>>)
      BY <2>1, <3>1 DEF Dropped, At, Uncounts
    <3> QED
      BY <3>1, <3>2, LeafIs
  <2>3. ASSUME NEW p \in P, NEW q \in P, g[p] = g[q] PROVE p = q
    BY <2>3 DEF ShapeInv, Cloning, At
  <2>4. ASSUME NEW d \in B PROVE \E p \in P : g[p] = d
    <3>1. PICK c \in Spaces, v \in Pages : d = <<c, v>>
      BY LeavesAre, EntryIs
    <3>2. PICK p \in Spaces : At(p, "cloneRef") /\ d = <<child[p], page[p]>>
      BY DEF Uncounts
    <3>3. pte[c][v].frame = f
      BY <3>1, LeafIs
    <3>4. pte[p][page[p]].frame = f
      BY <3>1, <3>2, <3>3 DEF ShapeInv, Fork, Cloning, At
    <3> QED
      BY <3>2, <3>4
  <2>5. g \in [P -> B]
    BY <2>2
  <2> HIDE DEF P, B, g
  <2> QED
    BY <2>3, <2>4, <2>5 DEF Bijection, Injection, IsInjective, Surjection
<1> HIDE DEF A, B, P, g
<1>4. Cardinality(P) = Cardinality(B)
  <2>1. ExistsBijection(P, B)
    BY <1>3 DEF ExistsBijection
  <2> QED
    BY <1>2, <2>1, FS_Bijection
<1>5. Cardinality(Leaves(f)) = Cardinality(A) + Cardinality(B) - Cardinality(A \cap B)
  BY <1>1, <1>2, FS_Union
<1>6. Cardinality(A \cap B) = 0 /\ Cardinality(A) \in Nat /\ Cardinality(B) \in Nat
  BY <1>1, <1>2, FS_EmptySet, FS_CardinalityType
<1>7. Uncounted(f) = Cardinality(P) /\ Num(Entries, Counted, f) = Cardinality(A)
  BY DEF Uncounted, Num, P, A
<1> QED
  BY <1>4, <1>5, <1>6, <1>7

\* Every step keeps what the frame allocator relies on.
LEMMA AllocNext ==
    ASSUME Cardinality(Spaces) <= MaxRef
    PROVE  ShapeInv' /\ AllocInv /\ [Next]_vars => AllocInv'
  BY CountNext, KindNext DEF AllocInv

\* page_refcount says how many entries point at a frame, through faults, forks on several cores,
\* forks that run out of memory, munmap and teardown: a frame is in the pool exactly when
\* nothing refers to it.  The count saturates, so this takes that there are no more processes
\* than it can count.
THEOREM CountsStayExact ==
    ASSUME Cardinality(Spaces) <= MaxRef
    PROVE  Spec => []CountsExact
<1>1. ASSUME AllocInv PROVE CountsExact
  <2> SUFFICES ASSUME NEW f \in Frames \ Libc
               PROVE  ref[f] = Keepers(f) - Uncounted(f) /\ (f \in free <=> ref[f] = 0)
    BY DEF CountsExact
  <2>1. ref[f] = Refs(f) /\ (f \in free <=> ref[f] = 0) /\ ShapeInv
    BY <1>1 DEF AllocInv, CountInv
  <2>2. Cardinality(Leaves(f)) = Num(Entries, Counted, f) + Uncounted(f) /\ Uncounted(f) \in Nat
    BY <2>1, LeavesCount
  <2>3. Keepers(f) = Cardinality(Leaves(f)) + Num(Spaces, tab, f) + Num(Spaces, root, f) + Num(Spaces, hold, f)
    BY DEF Keepers, Num
  <2> QED
    BY <2>1, <2>2, <2>3, RefsType DEF Refs
<1>2. AllocInv => CountsExact
  BY <1>1
<1>3. ShapeInv' /\ AllocInv /\ [Next]_vars => AllocInv'
  BY AllocNext
<1> QED
  BY <1>2, <1>3, InitCounts, ShapeInvariance, PTL DEF Spec

----------------------------------------------------------------------------
(* A writable page is private.                                              *)

\* The steps that touch neither entries nor regions.
LEMMA RegionsKept ==
    ASSUME ShapeInv, NEW p \in Spaces,
           \/ \E f \in Frames : \/ SpawnBegin(p, f) \/ LibGrow(p, f) \/ FaultGrow(p, f) \/ CowAlloc(p, f)
                                \/ CloneGrow(p, f) \/ \E q \in Spaces : ForkBegin(p, q, f)
           \/ LibRef(p) \/ SpawnDone(p) \/ FaultFails(p) \/ CowCopy(p) \/ CowDrop(p) \/ CloneRef(p)
           \/ ForkFails(p) \/ ForkUndone(p) \/ Exit(p) \/ FreeTable(p)
           \/ \E v \in Pages : CowFault(p, v) \/ Munmap(p, v) \/ \E x \in Values : Write(p, v, x)
    PROVE  /\ pte' = pte /\ prot' = prot
           /\ \A q \in Spaces : pc'[q] = "fault" => pc[q] = "fault" /\ page'[q] = page[q]
<1>1. pte' = pte /\ prot' = prot
  BY DEF SpawnBegin, LibGrow, FaultGrow, CowAlloc, CloneGrow, ForkBegin, LibRef, SpawnDone, FaultFails,
         CowCopy, CowDrop, CloneRef, ForkFails, ForkUndone, Exit, FreeTable, CowFault, Munmap, Write, spaceVars
<1>2. ASSUME NEW f \in Frames, NEW r \in Spaces,
             SpawnBegin(p, f) \/ LibGrow(p, f) \/ FaultGrow(p, f) \/ CowAlloc(p, f) \/ CloneGrow(p, f)
             \/ ForkBegin(p, r, f)
      PROVE  \A q \in Spaces : pc'[q] = "fault" => pc[q] = "fault" /\ page'[q] = page[q]
  BY <1>2 DEF SpawnBegin, LibGrow, FaultGrow, CowAlloc, CloneGrow, ForkBegin, Goto, Starts, At, spaceVars,
              ShapeInv, TypeOK
<1>3. ASSUME LibRef(p) \/ SpawnDone(p) \/ FaultFails(p) \/ CowCopy(p) \/ CowDrop(p) \/ CloneRef(p)
      PROVE  \A q \in Spaces : pc'[q] = "fault" => pc[q] = "fault" /\ page'[q] = page[q]
  <2>1. pc'[p] # "fault" /\ \A q \in Spaces \ {p} : pc'[q] = pc[q] /\ page'[q] = page[q]
    BY <1>3 DEF LibRef, SpawnDone, FaultFails, CowCopy, CowDrop, CloneRef, Leave, Goto, ShapeInv, TypeOK
  <2> QED
    BY <2>1
<1>4. ASSUME ForkFails(p) \/ ForkUndone(p) \/ Exit(p) \/ FreeTable(p)
      PROVE  \A q \in Spaces : pc'[q] = "fault" => pc[q] = "fault" /\ page'[q] = page[q]
  <2>1. PICK c \in Spaces : c = child[p]
    BY DEF ShapeInv, TypeOK
  <2>2. /\ pc'[c] = "fault" => c # p /\ pc[c] = "fault" /\ page'[c] = page[c]
        /\ pc'[p] # "fault"
        /\ \A q \in Spaces \ {p, c} : pc'[q] = pc[q] /\ page'[q] = page[q]
    BY <1>4, <2>1 DEF ForkFails, ForkUndone, Exit, FreeTable, Goto, At, ShapeInv, TypeOK
  <2> QED
    BY <2>1, <2>2
<1>5. ASSUME NEW v \in Pages, NEW x \in Values, CowFault(p, v) \/ Munmap(p, v) \/ Write(p, v, x)
      PROVE  \A q \in Spaces : pc'[q] = "fault" => pc[q] = "fault" /\ page'[q] = page[q]
  BY <1>5 DEF CowFault, Munmap, Write, Goto, ShapeInv, TypeOK
<1> QED
  BY <1>1, <1>2, <1>3, <1>4, <1>5, ValueAssumption

\* One entry changes, to an absent, a writable or a copy-on-write one.
LEMMA ReadyEntry ==
    ASSUME ReadyInv, NEW p \in Spaces, NEW v \in Pages, NEW f, NEW w, NEW cow, OneEntry(p, v, f, w, cow),
           f = 0 \/ w, pc'[p] # "fault", \A q \in Spaces \ {p} : pc'[q] = pc[q] /\ page'[q] = page[q],
           \A q \in Spaces \ {p} : prot'[q] = prot[q],
           \A u \in Pages : prot'[p][u] \in {prot[p][u], "gone"}
    PROVE  ReadyInv'
<1> SUFFICES ASSUME "rw" \in Prots, NEW q \in Spaces
             PROVE  /\ \A u \in Pages : Present(q, u)' => pte'[q][u].w \/ pte'[q][u].cow
                    /\ \A u \in Pages : prot'[q][u] # "ro"
                    /\ At(q, "fault")' => prot'[q][page'[q]] = "rw"
  BY DEF ReadyInv
<1>1. ASSUME NEW u \in Pages, Present(q, u)' PROVE pte'[q][u].w \/ pte'[q][u].cow
  <2>1. CASE q = p /\ u = v
    BY <1>1, <2>1 DEF OneEntry, Present
  <2>2. CASE q # p \/ u # v
    <3>1. pte'[q][u] = pte[q][u]
      BY <2>2 DEF OneEntry
    <3>2. Present(q, u)
      BY <1>1, <3>1 DEF Present
    <3>3. pte[q][u].w \/ pte[q][u].cow
      BY <3>2 DEF ReadyInv
    <3> QED
      BY <3>1, <3>3
  <2> QED
    BY <2>1, <2>2
<1>2. ASSUME NEW u \in Pages PROVE prot'[q][u] # "ro"
  BY DEF ReadyInv
<1>3. ASSUME At(q, "fault")' PROVE prot'[q][page'[q]] = "rw"
  BY <1>3 DEF ReadyInv, At
<1> QED
  BY <1>1, <1>2, <1>3

\* No entry changes.
LEMMA ReadyQuiet ==
    ASSUME ReadyInv, pte' = pte,
           "rw" \in Prots => \A q \in Spaces, u \in Pages : prot'[q][u] # "ro",
           \A q \in Spaces : pc'[q] = "fault" =>
              \/ pc[q] = "fault" /\ prot'[q][page'[q]] = prot[q][page[q]]
              \/ "rw" \in Prots => prot'[q][page'[q]] = "rw"
    PROVE  ReadyInv'
  BY DEF ReadyInv, At, Present

\* Where mprotect may make a page writable, no page is there that is neither writable nor marked: there is
\* no libc, and nobody asks for a read-only page.
NoReadOnly == "rw" \in Prots => Libc = {} /\ "ro" \notin Prots \cup MmapProts

\* Every step keeps that.
LEMMA ReadyNext ==
    ASSUME NoReadOnly, ShapeInv, ReadyInv, [Next]_vars
    PROVE  ReadyInv'
<1>0. ASSUME pte' = pte /\ prot' = prot,
             \A q \in Spaces : pc'[q] = "fault" => pc[q] = "fault" /\ page'[q] = page[q]
      PROVE  ReadyInv'
  BY <1>0, ReadyQuiet DEF ReadyInv
<1>1. CASE UNCHANGED vars
  BY <1>0, <1>1 DEF vars, spaceVars
<1>2. ASSUME NEW p \in Spaces, NEW f \in Frames, SpawnBegin(p, f) PROVE ReadyInv'
  BY <1>0, <1>2, RegionsKept
<1>3. ASSUME NEW p \in Spaces, UserStep(p) PROVE ReadyInv'
  <2>1. ASSUME \/ Exit(p)
               \/ \E v \in Pages : CowFault(p, v) \/ Munmap(p, v) \/ \E x \in Values : Write(p, v, x)
               \/ \E q \in Spaces, f \in Frames : ForkBegin(p, q, f)
        PROVE  ReadyInv'
    BY <1>0, <2>1, RegionsKept
  <2>2. ASSUME NEW v \in Pages, Fault(p, v) PROVE ReadyInv'
    <3>1. pte' = pte /\ prot' = prot /\ page'[p] = v /\ prot[p][v] \in {"ro", "rw"}
      BY <2>2 DEF Fault, spaceVars, ShapeInv, TypeOK
    <3>2. \A q \in Spaces \ {p} : pc'[q] = pc[q] /\ page'[q] = page[q]
      BY <2>2 DEF Fault, Goto, ShapeInv, TypeOK
    <3>3. "rw" \in Prots => \A q \in Spaces, u \in Pages : prot[q][u] # "ro"
      BY DEF ReadyInv
    <3> QED
      BY <3>1, <3>2, <3>3, ReadyQuiet
  <2>3. ASSUME NEW v \in Pages, NEW r \in MmapProts, Mmap(p, v, r) PROVE ReadyInv'
    <3>1. /\ pte' = pte /\ pc' = pc /\ page' = page /\ pc[p] = "user"
          /\ \A q \in Spaces, u \in Pages : prot'[q][u] \in {prot[q][u], r}
          /\ \A q \in Spaces \ {p} : prot'[q] = prot[q]
      BY <2>3 DEF Mmap, At, ShapeInv, TypeOK
    <3>2. "rw" \in Prots => \A q \in Spaces, u \in Pages : prot'[q][u] # "ro"
      BY <3>1 DEF ReadyInv, NoReadOnly
    <3> QED
      BY <3>1, <3>2, ReadyQuiet
  <2>4. ASSUME NEW v \in Pages, NEW r \in Prots, Mprotect(p, v, r) PROVE ReadyInv'
    <3>1. \A q \in Spaces, u \in Pages :
                 /\ pte'[q][u].frame = pte[q][u].frame
                 /\ pte'[q][u].cow = pte[q][u].cow
                 /\ pte'[q][u].w = IF q = p /\ u = v /\ Present(p, v)
                                   THEN r = "rw" /\ ~pte[p][v].cow ELSE pte[q][u].w
      BY <2>4, MprotectEntry DEF ShapeInv
    <3>2. /\ pc' = pc /\ page' = page /\ pc[p] = "user"
          /\ \A q \in Spaces, u \in Pages : prot'[q][u] \in {prot[q][u], r, "libw"}
          /\ \A q \in Spaces \ {p} : prot'[q] = prot[q]
      BY <2>4 DEF Mprotect, AfterMprotect, At, ShapeInv, TypeOK
    <3> SUFFICES ASSUME "rw" \in Prots, NEW q \in Spaces
                 PROVE  /\ \A u \in Pages : Present(q, u)' => pte'[q][u].w \/ pte'[q][u].cow
                        /\ \A u \in Pages : prot'[q][u] # "ro"
                        /\ At(q, "fault")' => prot'[q][page'[q]] = "rw"
      BY DEF ReadyInv
    <3>3. r = "rw"
      BY ProtAssumption DEF NoReadOnly
    <3>4. ASSUME NEW u \in Pages, Present(q, u)' PROVE pte'[q][u].w \/ pte'[q][u].cow
      <4>1. Present(q, u)
        BY <3>1, <3>4 DEF Present
      <4>2. pte[q][u].w \/ pte[q][u].cow
        BY <4>1 DEF ReadyInv
      <4> QED
        BY <3>1, <3>3, <4>2, Zenon
    <3>5. \A u \in Pages : prot'[q][u] # "ro"
      BY <3>2, <3>3 DEF ReadyInv
    <3>6. At(q, "fault")' => prot'[q][page'[q]] = "rw"
      BY <3>2 DEF ReadyInv, At
    <3> QED
      BY <3>4, <3>5, <3>6
  <2> QED
    BY <1>3, <2>1, <2>2, <2>3, <2>4 DEF UserStep
<1>4. ASSUME NEW p \in Spaces, SpawnStep(p) PROVE ReadyInv'
  <2>1. CASE LibMap(p)
    <3>1. Libc # {}
      BY <2>1, LibMapEntries
    <3> QED
      BY <3>1 DEF NoReadOnly, ReadyInv
  <2>2. ASSUME LibRef(p) \/ SpawnDone(p) \/ \E f \in Frames : LibGrow(p, f) PROVE ReadyInv'
    BY <1>0, <2>2, RegionsKept
  <2> QED
    BY <1>4, <2>1, <2>2 DEF SpawnStep
<1>5. ASSUME NEW p \in Spaces, FaultStep(p) PROVE ReadyInv'
  <2>1. ASSUME FaultFails(p) \/ \E f \in Frames : FaultGrow(p, f) PROVE ReadyInv'
    BY <1>0, <2>1, RegionsKept
  <2>2. ASSUME NEW f \in Frames, FaultMap(p, f) PROVE ReadyInv'
    <3>1. page[p] \in Pages /\ OneEntry(p, page[p], f, prot[p][page[p]] = "rw", FALSE)
      BY <2>2, FaultMapEntries
    <3>2. pc'[p] = "user" /\ \A q \in Spaces \ {p} : pc'[q] = pc[q] /\ page'[q] = page[q]
      BY <2>2 DEF FaultMap, Leave, Goto, ShapeInv, TypeOK
    <3>3. prot' = prot /\ pc[p] = "fault"
      BY <2>2 DEF FaultMap, At
    <3>4. CASE "rw" \in Prots
      <4>1. prot[p][page[p]] = "rw"
        BY <3>3, <3>4 DEF ReadyInv, At
      <4> QED
        BY <3>1, <3>2, <3>3, <4>1, ReadyEntry
    <3>5. CASE "rw" \notin Prots
      BY <3>5 DEF ReadyInv
    <3> QED
      BY <3>4, <3>5
  <2> QED
    BY <1>5, <2>1, <2>2 DEF FaultStep
<1>6. ASSUME NEW p \in Spaces, CowStep(p) PROVE ReadyInv'
  <2>1. CASE CowKeep(p)
    <3>1. page[p] \in Pages /\ OneEntry(p, page[p], pte[p][page[p]].frame, TRUE, FALSE)
      BY <2>1, CowKeepEntries
    <3>2. pc'[p] = "user" /\ \A q \in Spaces \ {p} : pc'[q] = pc[q] /\ page'[q] = page[q]
      BY <2>1 DEF CowKeep, Leave, Goto, ShapeInv, TypeOK
    <3>3. prot' = prot
      BY <2>1 DEF CowKeep
    <3> QED
      BY <3>1, <3>2, <3>3, ReadyEntry
  <2>2. CASE CowMap(p)
    <3>1. page[p] \in Pages /\ OneEntry(p, page[p], hold[p], TRUE, FALSE)
      BY <2>2, CowMapEntries
    <3>2. pc'[p] = "user" /\ \A q \in Spaces \ {p} : pc'[q] = pc[q] /\ page'[q] = page[q]
      BY <2>2 DEF CowMap, Leave, Goto, ShapeInv, TypeOK
    <3>3. prot' = prot
      BY <2>2 DEF CowMap
    <3> QED
      BY <3>1, <3>2, <3>3, ReadyEntry
  <2>3. ASSUME CowCopy(p) \/ CowDrop(p) \/ \E f \in Frames : CowAlloc(p, f) PROVE ReadyInv'
    BY <1>0, <2>3, RegionsKept
  <2> QED
    BY <1>6, <2>1, <2>2, <2>3 DEF CowStep
<1>7. ASSUME NEW p \in Spaces, UnmapClears(p) PROVE ReadyInv'
  <2>1. page[p] \in Pages /\ OneEntry(p, page[p], 0, FALSE, FALSE)
    BY <1>7, UnmapClearsEntries
  <2>2. pc'[p] = "user" /\ \A q \in Spaces \ {p} : pc'[q] = pc[q] /\ page'[q] = page[q]
    BY <1>7 DEF UnmapClears, Leave, Goto, ShapeInv, TypeOK
  <2>3. /\ \A q \in Spaces \ {p} : prot'[q] = prot[q]
        /\ \A u \in Pages : prot'[p][u] \in {prot[p][u], "gone"}
    BY <1>7 DEF UnmapClears, ShapeInv, TypeOK
  <2> QED
    BY <2>1, <2>2, <2>3, ReadyEntry
<1>8. ASSUME NEW p \in Spaces, ForkStep(p) PROVE ReadyInv'
  <2>1. CASE CloneShare(p)
    <3>1. PICK v \in Pages :
              /\ \A q \in Spaces, u \in Pages :
                    LET e == pte[p][v]
                    IN  IF q \in {p, child[p]} /\ u = v
                        THEN pte'[q][u].frame = e.frame /\ ~pte'[q][u].w /\ pte'[q][u].cow = (e.w \/ e.cow)
                        ELSE pte'[q][u] = pte[q][u]
              /\ page' = [page EXCEPT ![p] = v]
      BY <2>1, CloneShareEntries
    <3>2. /\ prot' = prot /\ pc'[p] = "cloneRef"
          /\ \A q \in Spaces \ {p} : pc'[q] = pc[q] /\ page'[q] = page[q]
      BY <2>1, <3>1 DEF CloneShare, Goto, ShapeInv, TypeOK
    <3> SUFFICES ASSUME "rw" \in Prots, NEW q \in Spaces
                 PROVE  /\ \A u \in Pages : Present(q, u)' => pte'[q][u].w \/ pte'[q][u].cow
                        /\ \A u \in Pages : prot'[q][u] # "ro"
                        /\ At(q, "fault")' => prot'[q][page'[q]] = "rw"
      BY DEF ReadyInv
    <3>3. ASSUME NEW u \in Pages, Present(q, u)' PROVE pte'[q][u].w \/ pte'[q][u].cow
      <4>1. CASE q \in {p, child[p]} /\ u = v
        <5>1. Present(p, v)
          BY <3>1, <3>3, <4>1 DEF Present
        <5>2. pte[p][v].w \/ pte[p][v].cow
          BY <5>1 DEF ReadyInv
        <5> QED
          BY <3>1, <4>1, <5>2, Zenon
      <4>2. CASE ~(q \in {p, child[p]} /\ u = v)
        <5>1. pte'[q][u] = pte[q][u]
          BY <3>1, <4>2
        <5>2. Present(q, u)
          BY <3>3, <5>1 DEF Present
        <5>3. pte[q][u].w \/ pte[q][u].cow
          BY <5>2 DEF ReadyInv
        <5> QED
          BY <5>1, <5>3
      <4> QED
        BY <4>1, <4>2
    <3>4. \A u \in Pages : prot'[q][u] # "ro"
      BY <3>2 DEF ReadyInv
    <3>5. At(q, "fault")' => prot'[q][page'[q]] = "rw"
      BY <3>2 DEF ReadyInv, At
    <3> QED
      BY <3>3, <3>4, <3>5
  <2>2. CASE ForkDone(p)
    <3>1. PICK c \in Spaces : c = child[p]
      BY DEF ShapeInv, TypeOK
    <3>2. /\ pte' = pte /\ \A q \in Spaces : prot'[q] = prot[q] \/ prot'[q] = prot[p]
          /\ \A q \in Spaces : pc'[q] = "fault" =>
                q \notin {p, c} /\ pc[q] = "fault" /\ page'[q] = page[q] /\ prot'[q] = prot[q]
      BY <2>2, <3>1 DEF ForkDone, ShapeInv, TypeOK
    <3>3. "rw" \in Prots => \A q \in Spaces, u \in Pages : prot'[q][u] # "ro"
      BY <3>2 DEF ReadyInv
    <3> QED
      BY <3>2, <3>3, ReadyQuiet
  <2>3. ASSUME CloneRef(p) \/ ForkFails(p) \/ ForkUndone(p) \/ \E f \in Frames : CloneGrow(p, f)
        PROVE  ReadyInv'
    BY <1>0, <2>3, RegionsKept
  <2> QED
    BY <1>8, <2>1, <2>2, <2>3 DEF ForkStep
<1>9. ASSUME NEW p \in Spaces, FreeStep(p) PROVE ReadyInv'
  <2>1. CASE FreeLeaf(p)
    <3>1. PICK v \in Pages : OneEntry(p, v, 0, FALSE, FALSE)
      BY <2>1, FreeLeafOne
    <3>2. pc' = pc /\ page' = page /\ pc[p] = "dying" /\ prot' = prot
      BY <2>1 DEF FreeLeaf, At
    <3> QED
      BY <3>1, <3>2, ReadyEntry
  <2>2. CASE FreeTable(p)
    BY <1>0, <2>2, RegionsKept
  <2>3. CASE FreeRoot(p)
    <3>1. /\ pte' = pte /\ page' = page /\ pc'[p] = "none" /\ \A q \in Spaces \ {p} : pc'[q] = pc[q]
          /\ \A q \in Spaces \ {p} : prot'[q] = prot[q]
          /\ \A u \in Pages : prot'[p][u] = "none"
      BY <2>3 DEF FreeRoot, Goto, ShapeInv, TypeOK
    <3>2. "rw" \in Prots => \A q \in Spaces, u \in Pages : prot'[q][u] # "ro"
      BY <3>1 DEF ReadyInv
    <3> QED
      BY <3>1, <3>2, ReadyQuiet
  <2> QED
    BY <1>9, <2>1, <2>2, <2>3 DEF FreeStep
<1> QED
  BY <1>1, <1>2, <1>3, <1>4, <1>5, <1>6, <1>7, <1>8, <1>9 DEF Next

\* The entries of a frame are counted by the frame, whatever names it.
LEMMA SoleIs ==
    ASSUME NEW q \in Spaces, NEW u \in Pages, NEW f
    PROVE  /\ pte[q][u].frame = f => (Sole(q, u) <=> Leaves(f) = {<<q, u>>})
           /\ pte'[q][u].frame = f => (Sole(q, u)' <=> Leaves(f)' = {<<q, u>>})
<1>1. ASSUME pte[q][u].frame = f PROVE Sole(q, u) <=> Leaves(f) = {<<q, u>>}
  BY <1>1 DEF Sole
<1>2. ASSUME pte'[q][u].frame = f PROVE Sole(q, u)' <=> Leaves(f)' = {<<q, u>>}
  BY <1>2 DEF Sole, Leaves
<1> QED
  BY <1>1, <1>2

\* The only entry of a frame goes on being the only one, if no other begins to count.
LEMMA SoleKept ==
    ASSUME NEW q \in Spaces, NEW u \in Pages, Sole(q, u), ~Dropped(q, u)', NEW f,
           pte[q][u].frame = f, pte'[q][u].frame = f, Leaves(f)' \subseteq Leaves(f)
    PROVE  Sole(q, u)'
<1>1. Leaves(f) = {<<q, u>>}
  BY SoleIs
<1>2. <<q, u>> \in Leaves(f)'
  BY LeafNextIs
<1>3. Leaves(f)' = {<<q, u>>}
  BY <1>1, <1>2
<1> QED
  BY <1>3, SoleIs

\* No entry is written.
LEMMA PrivateQuiet ==
    ASSUME ShapeInv, PrivateInv, pte' = pte,
           \A q \in Spaces : pc[q] \in {"cowMap", "unmap"} => pc'[q] = pc[q] /\ page'[q] = page[q],
           \A q \in Spaces : pc'[q] = "cowKeep" =>
              \/ pc[q] = "cowKeep" /\ page'[q] = page[q]
              \/ \E u \in Pages : page'[q] = u /\ Sole(q, u)
    PROVE  PrivateInv'
<1>1. \A f : Leaves(f)' \subseteq Leaves(f)
  BY LeavesKept
<1>2. ASSUME NEW q \in Spaces, NEW u \in Pages, Sole(q, u), ~Dropped(q, u)' PROVE Sole(q, u)'
  BY <1>1, <1>2, SoleKept
<1>3. ASSUME NEW q \in Spaces, NEW u \in Pages, (pte[q][u].w /\ ~Dropped(q, u))' PROVE Sole(q, u)'
  <2>1. pte[q][u].w /\ ~Dropped(q, u)
    BY <1>3 DEF Dropped
  <2> QED
    BY <1>2, <1>3, <2>1 DEF PrivateInv
<1>4. ASSUME NEW q \in Spaces, At(q, "cowKeep")' PROVE Sole(q, page[q])'
  <2>1. PICK u \in Pages : page'[q] = u /\ Sole(q, u)
    <3>1. CASE pc[q] = "cowKeep" /\ page'[q] = page[q]
      <4>1. page[q] \in Pages /\ Sole(q, page[q])
        BY <3>1 DEF ShapeInv, Shape, Faulting, PrivateInv, At
      <4>2. PICK u \in Pages : u = page[q]
        BY <4>1
      <4> QED
        BY <3>1, <4>1, <4>2
    <3> QED
      BY <1>4, <3>1 DEF At
  <2>2. ~Dropped(q, u)'
    BY <1>4 DEF At, Dropped
  <2>3. Sole(q, u)'
    BY <1>2, <2>1, <2>2
  <2> QED
    BY <2>1, <2>3
<1>5. \A q \in Spaces, u \in Pages : (pte[q][u].w => Present(q, u))'
  BY DEF PrivateInv, Present
<1> QED
  BY <1>3, <1>4, <1>5 DEF PrivateInv

\* One entry is written: it keeps its frame, or points at one that no entry points at; if it is writable
\* the frame has no other.
LEMMA PrivateEntry ==
    ASSUME ShapeInv, PrivateInv, LibcInv,
           NEW p \in Spaces, NEW v \in Pages, NEW x, NEW w, NEW cow, OneEntry(p, v, x, w, cow),
           \/ x = 0
           \/ x \in Libc
           \/ Leaves(x) = {}
           \/ x = pte[p][v].frame /\ ~Dropped(p, v),
           w => x # 0 /\ Leaves(x) \subseteq {<<p, v>>},
           pc'[p] \notin {"cowKeep", "cowMap", "unmap"}, pc[p] \in {"cowMap", "unmap"} => page[p] = v,
           \A q \in Spaces \ {p} : pc'[q] = pc[q] /\ page'[q] = page[q]
    PROVE  PrivateInv'
<1>1. /\ \A q \in Spaces, u \in Pages : q # p \/ u # v => pte'[q][u] = pte[q][u]
      /\ pte'[p][v].frame = x /\ pte'[p][v].w = w
  BY DEF OneEntry
<1>2. \A f : Leaves(f)' \subseteq Leaves(f) \cup (IF x = f THEN {<<p, v>>} ELSE {})
  <2>1. \A q \in Spaces, u \in Pages : q # p \/ u # v => pte'[q][u].frame = pte[q][u].frame
    BY <1>1
  <2>2. \A q \in Spaces : pc[q] \in {"cowMap", "unmap"} =>
           (q = p /\ page[q] = v) \/ (pc'[q] = pc[q] /\ page'[q] = page[q])
    OBVIOUS
  <2> QED
    BY <1>1, <2>1, <2>2, OneLeaf
<1>3. ASSUME NEW q \in Spaces, NEW u \in Pages, q # p \/ u # v, Sole(q, u), ~Dropped(q, u)',
             pte[q][u].frame # 0, pte[q][u].frame \notin Libc
      PROVE  Sole(q, u)'
  <2>1. PICK f : f = pte[q][u].frame
    OBVIOUS
  <2>2. Leaves(f) = {<<q, u>>}
    BY <1>3, <2>1, SoleIs
  <2>3. x # f
    <3>1. x = f => x = pte[p][v].frame /\ ~Dropped(p, v)
      BY <1>3, <2>1, <2>2
    <3>2. x = f => <<p, v>> \in Leaves(f)
      BY <3>1, LeafIs
    <3> QED
      BY <1>3, <2>2, <3>2
  <2>4. Leaves(f)' \subseteq Leaves(f) /\ pte'[q][u].frame = f
    BY <1>1, <1>2, <1>3, <2>1, <2>3
  <2> QED
    BY <1>3, <2>1, <2>4, SoleKept
<1>4. ASSUME NEW q \in Spaces, NEW u \in Pages, (pte[q][u].w /\ ~Dropped(q, u))' PROVE Sole(q, u)'
  <2>1. CASE q = p /\ u = v
    <3>1. w
      BY <1>1, <1>4, <2>1
    <3>2. Leaves(x)' \subseteq {<<p, v>>}
      BY <1>2, <3>1
    <3>3. <<p, v>> \in Leaves(x)'
      BY <1>1, <1>4, <2>1, LeafNextIs
    <3>4. Leaves(x)' = {<<p, v>>}
      BY <3>2, <3>3
    <3> QED
      BY <1>1, <2>1, <3>4, SoleIs
  <2>2. CASE q # p \/ u # v
    <3>1. pte[q][u].w /\ ~Dropped(q, u)
      BY <1>1, <1>4, <2>2 DEF Dropped
    <3>2. Sole(q, u) /\ pte[q][u].frame # 0 /\ pte[q][u].frame \notin Libc
      BY <3>1 DEF PrivateInv, Present, LibcInv, LibcUnmarked
    <3> QED
      BY <1>3, <1>4, <2>2, <3>2
  <2> QED
    BY <2>1, <2>2
<1>5. ASSUME NEW q \in Spaces, At(q, "cowKeep")' PROVE Sole(q, page[q])'
  <2>1. q # p /\ At(q, "cowKeep") /\ page'[q] = page[q]
    BY <1>5 DEF At
  <2>2. PICK u \in Pages : u = page[q]
    BY <2>1 DEF ShapeInv, Shape, Faulting, At
  <2>3. Sole(q, u) /\ pte[q][u].frame # 0
    BY <2>1, <2>2 DEF PrivateInv, ShapeInv, Shape, Faulting, At, Present
  <2>4. pte[q][u].frame \notin Libc
    BY <2>1, <2>2 DEF LibcInv, LibcUnmarked
  <2>5. ~Dropped(q, u)'
    BY <1>5 DEF At, Dropped
  <2>6. Sole(q, u)'
    BY <1>3, <2>1, <2>3, <2>4, <2>5
  <2> QED
    BY <2>1, <2>2, <2>6
<1>6. ASSUME NEW q \in Spaces, NEW u \in Pages, pte'[q][u].w PROVE pte'[q][u].frame # 0
  <2>1. CASE q = p /\ u = v
    BY <1>1, <1>6, <2>1
  <2>2. CASE q # p \/ u # v
    BY <1>1, <1>6, <2>2 DEF PrivateInv, Present
  <2> QED
    BY <2>1, <2>2
<1> QED
  BY <1>4, <1>5, <1>6 DEF PrivateInv, Present

\* A count of one is one referrer.
LEMMA NumOne ==
    ASSUME NEW D, IsFiniteSet(D), NEW F, NEW f, NEW x \in D, F[x] = f, Num(D, F, f) <= 1,
           NEW y \in D, F[y] = f
    PROVE  y = x
<1> DEFINE S == {d \in D : F[d] = f}
<1>1. S \in SUBSET D /\ x \in S /\ y \in S
  OBVIOUS
<1>2. IsFiniteSet(S) /\ Cardinality(S) \in Nat
  BY <1>1, FS_Subset, FS_CardinalityType
<1>3. Cardinality(S) > 0
  BY NumPositive DEF Num, S
<1>4. Cardinality(S) <= 1
  BY DEF Num, S
<1> HIDE DEF S
<1>5. Cardinality(S) = 1
  BY <1>2, <1>3, <1>4
<1>6. PICK z : S = {z}
  BY <1>2, <1>5, FS_Singleton
<1> QED
  BY <1>1, <1>6

\* The handler goes on using a frame with a count of one: nobody else has an entry of it, not
\* even one that a fork has still to count.
LEMMA CowFaultSole ==
    ASSUME ShapeInv, CountInv, LibcInv, NEW p \in Spaces, NEW v \in Pages, pc[p] = "user",
           Present(p, v), pte[p][v].cow, ref[pte[p][v].frame] <= 1
    PROVE  Sole(p, v)
<1>1. PICK f \in Frames : f = pte[p][v].frame
  BY PresentFrame DEF ShapeInv
<1>2. f \notin Libc
  BY <1>1 DEF LibcInv, LibcUnmarked
<1>3. Num(Entries, Counted, f) <= 1
  <2>1. ref[f] = Refs(f)
    BY <1>2 DEF CountInv
  <2> QED
    BY <1>1, <2>1, RefsType DEF Refs
<1>4. ~Dropped(p, v) /\ ~Uncounts(<<p, v>>)
  BY OnlyEmbryos DEF Dropped
<1>5. Counted[<<p, v>>] = f /\ <<p, v>> \in Entries
  BY <1>1, <1>4, CountedIs
<1>6. ASSUME NEW q \in Spaces, NEW u \in Pages, Counted[<<q, u>>] = f PROVE q = p /\ u = v
  <2>1. <<q, u>> \in Entries
    BY CountedIs
  <2>2. <<q, u>> = <<p, v>>
    BY <1>3, <1>5, <1>6, <2>1, NumOne, EntriesFinite
  <2> QED
    BY <2>2
<1>7. ASSUME NEW d \in Leaves(f) PROVE d = <<p, v>>
  <2>1. PICK q \in Spaces, u \in Pages : d = <<q, u>>
    BY LeavesAre, EntryIs
  <2>2. pte[q][u].frame = f /\ ~Dropped(q, u)
    BY <2>1, LeafIs
  <2>3. CASE ~Uncounts(<<q, u>>)
    BY <1>6, <2>1, <2>2, <2>3, CountedIs
  <2>4. CASE Uncounts(<<q, u>>)
    <3>1. PICK r \in Spaces : At(r, "cloneRef") /\ child[r] = q /\ page[r] = u
      BY <2>4 DEF Uncounts
    <3>2. pte[r][u].frame = f
      BY <2>2, <3>1 DEF ShapeInv, Fork, Cloning, At
    <3>3. ~Dropped(r, u) /\ ~Uncounts(<<r, u>>)
      BY <3>1, OnlyEmbryos DEF Dropped, At
    <3>4. r = p
      BY <1>6, <3>2, <3>3, CountedIs
    <3> QED
      BY <3>1, <3>4 DEF At
  <2> QED
    BY <2>3, <2>4
<1>8. <<p, v>> \in Leaves(f)
  BY <1>1, <1>4, LeafIs
<1>9. Leaves(f) = {<<p, v>>}
  BY <1>7, <1>8
<1> QED
  BY <1>1, <1>9, SoleIs

\* What fork shares is writable for nobody.
LEMMA CloneSharePrivate ==
    ASSUME ShapeInv, PrivateInv, NEW p \in Spaces, CloneShare(p)
    PROVE  PrivateInv'
<1>1. PICK v \in Pages :
              /\ v \in Ahead(p)
              /\ page' = [page EXCEPT ![p] = v]
              /\ \A q \in Spaces, u \in Pages :
                    LET e == pte[p][v]
                    IN  IF q \in {p, child[p]} /\ u = v
                        THEN pte'[q][u].frame = e.frame /\ ~pte'[q][u].w /\ pte'[q][u].cow = (e.w \/ e.cow)
                        ELSE pte'[q][u] = pte[q][u]
  BY CloneShareEntries
<1>2. PICK c \in Spaces : c = child[p]
  BY DEF ShapeInv, TypeOK
<1>3. /\ pc[p] = "clone" /\ pc'[p] = "cloneRef" /\ pc[c] = "embryo"
      /\ \A q \in Spaces \ {p} : pc'[q] = pc[q] /\ page'[q] = page[q]
  <2>1. pc[p] = "clone" /\ pc' = [pc EXCEPT ![p] = "cloneRef"]
    BY Zenon DEF CloneShare, At, Goto
  <2>2. pc[c] = "embryo"
    BY <1>2, <2>1 DEF ShapeInv, Fork, Cloning, At
  <2>3. DOMAIN pc = Spaces /\ DOMAIN page = Spaces
    BY DEF ShapeInv, TypeOK
  <2> QED
    BY <1>1, <2>1, <2>2, <2>3
<1>4. \A q \in Spaces, u \in Pages : q # c \/ u # v => pte'[q][u].frame = pte[q][u].frame
  BY <1>1, <1>2
<1>5. pte'[c][v].frame = pte[p][v].frame /\ <<p, v>> \in Leaves(pte[p][v].frame)
  BY <1>1, <1>2, <1>3, LeafIs DEF Dropped
<1>6. \A f : Leaves(f)' \subseteq Leaves(f) \cup (IF pte[p][v].frame = f THEN {<<c, v>>} ELSE {})
  <2>1. \A q \in Spaces : pc[q] \in {"cowMap", "unmap"} => pc'[q] = pc[q] /\ page'[q] = page[q]
    BY <1>3
  <2> QED
    BY <1>4, <1>5, <2>1, OneLeaf
<1>7. ASSUME NEW q \in Spaces, NEW u \in Pages, ~(q \in {p, c} /\ u = v), Sole(q, u), ~Dropped(q, u)'
      PROVE  Sole(q, u)'
  <2>1. PICK f : f = pte[q][u].frame
    OBVIOUS
  <2>2. Leaves(f) = {<<q, u>>}
    BY <1>7, <2>1, SoleIs
  <2>3. pte[p][v].frame # f
    BY <1>5, <1>7, <2>2
  <2>4. Leaves(f)' \subseteq Leaves(f) /\ pte'[q][u].frame = f
    BY <1>4, <1>6, <1>7, <2>1, <2>3
  <2> QED
    BY <1>7, <2>1, <2>4, SoleKept
<1>8. ASSUME NEW q \in Spaces, NEW u \in Pages, pte'[q][u].w
      PROVE  ~(q \in {p, c} /\ u = v) /\ pte'[q][u] = pte[q][u]
  BY <1>1, <1>2, <1>8
<1>9. ASSUME NEW q \in Spaces, NEW u \in Pages, (pte[q][u].w /\ ~Dropped(q, u))' PROVE Sole(q, u)'
  <2>1. pte[q][u].w /\ ~Dropped(q, u) /\ ~(q \in {p, c} /\ u = v)
    BY <1>3, <1>8, <1>9 DEF Dropped
  <2> QED
    BY <1>7, <1>9, <2>1 DEF PrivateInv
<1>10. ASSUME NEW q \in Spaces, At(q, "cowKeep")' PROVE Sole(q, page[q])'
  <2>1. q # p /\ q # c /\ At(q, "cowKeep") /\ page'[q] = page[q]
    BY <1>3, <1>10 DEF At
  <2>2. PICK u \in Pages : u = page[q]
    BY <2>1 DEF ShapeInv, Shape, Faulting, At
  <2>3. Sole(q, u) /\ ~Dropped(q, u)'
    BY <1>10, <2>1, <2>2 DEF PrivateInv, At, Dropped
  <2>4. Sole(q, u)'
    BY <1>7, <2>1, <2>3
  <2> QED
    BY <2>1, <2>2, <2>4
<1> QED
  BY <1>8, <1>9, <1>10 DEF PrivateInv, Present

\* Every step keeps a writable page private.
LEMMA PrivateNext ==
    ASSUME ShapeInv, CountInv, KindInv, LibcInv, ReadyInv, PrivateInv, [Next]_vars
    PROVE  PrivateInv'
<1> USE SizeFacts
<1>1. CASE UNCHANGED vars
  BY <1>1, PrivateQuiet DEF vars, spaceVars
<1>2. ASSUME NEW p \in Spaces, NEW f \in Frames, SpawnBegin(p, f) PROVE PrivateInv'
  BY <1>2, PrivateQuiet DEF SpawnBegin, Starts, At, Goto, ShapeInv, TypeOK
<1>3. ASSUME NEW p \in Spaces, UserStep(p) PROVE PrivateInv'
  <2>1. CASE Exit(p)
    BY <2>1, PrivateQuiet DEF Exit, Starts, At, Goto, spaceVars, ShapeInv, TypeOK
  <2>2. ASSUME NEW v \in Pages, Fault(p, v) PROVE PrivateInv'
    BY <2>2, PrivateQuiet DEF Fault, Starts, At, Goto, spaceVars, ShapeInv, TypeOK
  <2>3. ASSUME NEW v \in Pages, CowFault(p, v) PROVE PrivateInv'
    <3>1. /\ pte' = pte /\ page'[p] = v /\ pc[p] = "user" /\ Present(p, v) /\ pte[p][v].cow
          /\ pc'[p] = "cowKeep" => ref[pte[p][v].frame] <= 1
          /\ \A q \in Spaces \ {p} : pc'[q] = pc[q] /\ page'[q] = page[q]
      BY <2>3 DEF CowFault, Starts, At, Goto, spaceVars, ShapeInv, TypeOK
    <3>2. pc'[p] = "cowKeep" => Sole(p, v)
      BY <3>1, CowFaultSole
    <3> QED
      BY <3>1, <3>2, PrivateQuiet
  <2>4. ASSUME NEW v \in Pages, Munmap(p, v) PROVE PrivateInv'
    BY <2>4, PrivateQuiet DEF Munmap, Starts, At, Goto, spaceVars, ShapeInv, TypeOK
  <2>5. ASSUME NEW v \in Pages, NEW x \in Values, Write(p, v, x) PROVE PrivateInv'
    BY <2>5, PrivateQuiet DEF Write, spaceVars
  <2>6. ASSUME NEW v \in Pages, NEW r \in MmapProts, Mmap(p, v, r) PROVE PrivateInv'
    BY <2>6, PrivateQuiet DEF Mmap
  <2>7. ASSUME NEW v \in Pages, NEW r \in Prots, Mprotect(p, v, r) PROVE PrivateInv'
    <3>1. pc[p] = "user" /\ pc' = pc /\ page' = page /\ ~Dropped(p, v)
      BY <2>7 DEF Mprotect, At, Dropped
    <3>2. CASE ~Present(p, v)
      <4>1. pte' = pte
        BY <2>7, <3>2 DEF Mprotect
      <4> QED
        BY <3>1, <4>1, PrivateQuiet
    <3>3. CASE Present(p, v)
      <4>1. PICK x : x = pte[p][v].frame
        OBVIOUS
      <4>2. PICK w : w = pte'[p][v].w
        OBVIOUS
      <4>3. PICK cow : cow = pte'[p][v].cow
        OBVIOUS
      <4>4. /\ \A q \in Spaces, u \in Pages :
                 /\ pte'[q][u].frame = pte[q][u].frame
                 /\ pte'[q][u].cow = pte[q][u].cow
                 /\ pte'[q][u].w = IF q = p /\ u = v /\ Present(p, v)
                                   THEN r = "rw" /\ ~pte[p][v].cow ELSE pte[q][u].w
            /\ pte' \in [Spaces -> [Pages -> Entry]]
        BY <2>7, MprotectEntry DEF ShapeInv
      <4>5. OneEntry(p, v, x, w, cow)
        <5>1. \A q \in Spaces, u \in Pages : q # p \/ u # v => pte'[q][u] = pte[q][u]
          <6>1. PICK e : pte' = [pte EXCEPT ![p][v] = e]
            BY <2>7, <3>3 DEF Mprotect
          <6> QED
            BY <6>1 DEF ShapeInv, TypeOK
        <5>2. pte'[p][v].frame = x
          BY <4>1, <4>4
        <5> QED
          BY <4>2, <4>3, <5>1, <5>2 DEF OneEntry
      <4>6. ASSUME w PROVE x # 0 /\ Leaves(x) \subseteq {<<p, v>>}
        <5>1. r = "rw" /\ ~pte[p][v].cow
          BY <3>3, <4>2, <4>4, <4>6, Zenon
        <5>2. pte[p][v].w
          BY <3>3, <5>1 DEF ReadyInv
        <5>3. Sole(p, v)
          BY <3>1, <5>2 DEF PrivateInv
        <5> QED
          BY <3>3, <4>1, <5>3, SoleIs DEF Present
      <4> QED
        BY <3>1, <4>1, <4>5, <4>6, PrivateEntry
    <3> QED
      BY <3>2, <3>3
  <2>8. ASSUME NEW q \in Spaces, NEW f \in Frames, ForkBegin(p, q, f) PROVE PrivateInv'
    BY <2>8, PrivateQuiet DEF ForkBegin, Starts, At, ShapeInv, TypeOK
  <2> QED
    BY <1>3, <2>1, <2>2, <2>3, <2>4, <2>5, <2>6, <2>7, <2>8 DEF UserStep
<1>4. ASSUME NEW p \in Spaces, SpawnStep(p) PROVE PrivateInv'
  <2>1. CASE LibMap(p)
    <3>1. PICK v \in Libc : /\ page' = [page EXCEPT ![p] = v]
                            /\ pte' = pte \/ OneEntry(p, v, v, FALSE, FALSE)
      BY <2>1, LibMapEntries
    <3>2. /\ pc[p] = "spawn" /\ pc'[p] = "libRef"
          /\ \A q \in Spaces \ {p} : pc'[q] = pc[q] /\ page'[q] = page[q]
      BY <2>1, <3>1 DEF LibMap, At, Goto, ShapeInv, TypeOK
    <3>3. CASE pte' = pte
      BY <3>2, <3>3, PrivateQuiet
    <3>4. CASE OneEntry(p, v, v, FALSE, FALSE)
      BY <3>2, <3>4, PrivateEntry
    <3> QED
      BY <3>1, <3>3, <3>4
  <2>2. CASE LibRef(p)
    BY <2>2, PrivateQuiet DEF LibRef, At, Goto, spaceVars, ShapeInv, TypeOK
  <2>3. CASE SpawnDone(p)
    BY <2>3, PrivateQuiet DEF SpawnDone, Leave, At, Goto, spaceVars, ShapeInv, TypeOK
  <2>4. ASSUME NEW f \in Frames, LibGrow(p, f) PROVE PrivateInv'
    BY <2>4, PrivateQuiet DEF LibGrow
  <2> QED
    BY <1>4, <2>1, <2>2, <2>3, <2>4 DEF SpawnStep
<1>5. ASSUME NEW p \in Spaces, FaultStep(p) PROVE PrivateInv'
  <2>1. CASE FaultFails(p)
    BY <2>1, PrivateQuiet DEF FaultFails, Leave, At, Goto, spaceVars, ShapeInv, TypeOK
  <2>2. ASSUME NEW f \in Frames, FaultGrow(p, f) PROVE PrivateInv'
    BY <2>2, PrivateQuiet DEF FaultGrow
  <2>3. ASSUME NEW f \in Frames, FaultMap(p, f) PROVE PrivateInv'
    <3>1. page[p] \in Pages /\ OneEntry(p, page[p], f, prot[p][page[p]] = "rw", FALSE)
      BY <2>3, FaultMapEntries
    <3>2. f \in free
      BY <2>3, Allocated DEF ShapeInv, FaultMap, AllocateZeroed
    <3>3. Leaves(f) = {}
      BY <3>2, Unused
    <3>4. /\ pc[p] = "fault" /\ pc'[p] = "user"
          /\ \A q \in Spaces \ {p} : pc'[q] = pc[q] /\ page'[q] = page[q]
      BY <2>3 DEF FaultMap, At, Leave, Goto, ShapeInv, TypeOK
    <3> QED
      BY <3>1, <3>3, <3>4, PrivateEntry
  <2> QED
    BY <1>5, <2>1, <2>2, <2>3 DEF FaultStep
<1>6. ASSUME NEW p \in Spaces, CowStep(p) PROVE PrivateInv'
  <2>1. CASE CowKeep(p)
    <3>1. page[p] \in Pages /\ OneEntry(p, page[p], pte[p][page[p]].frame, TRUE, FALSE)
      BY <2>1, CowKeepEntries
    <3>2. PICK v \in Pages : v = page[p]
      BY <3>1
    <3>3. PICK x : x = pte[p][v].frame
      OBVIOUS
    <3>4. /\ pc[p] = "cowKeep" /\ pc'[p] = "user" /\ ~Dropped(p, v)
          /\ \A q \in Spaces \ {p} : pc'[q] = pc[q] /\ page'[q] = page[q]
      BY <2>1 DEF CowKeep, At, Leave, Goto, ShapeInv, TypeOK, Dropped
    <3>5. OneEntry(p, v, x, TRUE, FALSE)
      BY <3>1, <3>2, <3>3
    <3>6. Sole(p, v) /\ x # 0
      BY <3>2, <3>3, <3>4 DEF PrivateInv, At, ShapeInv, Shape, Faulting, Present
    <3>7. Leaves(x) \subseteq {<<p, v>>}
      BY <3>3, <3>6, SoleIs
    <3> QED
      BY <3>3, <3>4, <3>5, <3>6, <3>7, PrivateEntry
  <2>2. CASE CowCopy(p)
    BY <2>2, PrivateQuiet DEF CowCopy, At, Goto, spaceVars, ShapeInv, TypeOK
  <2>3. CASE CowDrop(p)
    BY <2>3, PrivateQuiet DEF CowDrop, At, Goto, spaceVars, ShapeInv, TypeOK
  <2>4. CASE CowMap(p)
    <3>1. page[p] \in Pages /\ OneEntry(p, page[p], hold[p], TRUE, FALSE)
      BY <2>4, CowMapEntries
    <3>2. hold[p] \in Frames \ Libc
      BY <2>4 DEF CowMap, At, ShapeInv, TypeOK, Shape, Holding, Frames
    <3>3. Leaves(hold[p]) = {} /\ hold[p] # 0
      BY <3>2 DEF KindInv
    <3>4. /\ pc'[p] = "user"
          /\ \A q \in Spaces \ {p} : pc'[q] = pc[q] /\ page'[q] = page[q]
      BY <2>4 DEF CowMap, Leave, Goto, ShapeInv, TypeOK
    <3> QED
      BY <3>1, <3>3, <3>4, PrivateEntry
  <2>5. ASSUME NEW f \in Frames, CowAlloc(p, f) PROVE PrivateInv'
    BY <2>5, PrivateQuiet DEF CowAlloc, At, Goto, spaceVars, ShapeInv, TypeOK
  <2> QED
    BY <1>6, <2>1, <2>2, <2>3, <2>4, <2>5 DEF CowStep
<1>7. ASSUME NEW p \in Spaces, UnmapClears(p) PROVE PrivateInv'
  <2>1. page[p] \in Pages /\ OneEntry(p, page[p], 0, FALSE, FALSE)
    BY <1>7, UnmapClearsEntries
  <2>2. pc'[p] = "user" /\ \A q \in Spaces \ {p} : pc'[q] = pc[q] /\ page'[q] = page[q]
    BY <1>7 DEF UnmapClears, Leave, Goto, ShapeInv, TypeOK
  <2> QED
    BY <2>1, <2>2, PrivateEntry
<1>8. ASSUME NEW p \in Spaces, ForkStep(p) PROVE PrivateInv'
  <2>1. CASE CloneShare(p)
    BY <2>1, CloneSharePrivate
  <2>2. CASE CloneRef(p)
    BY <2>2, PrivateQuiet DEF CloneRef, At, Goto, spaceVars, ShapeInv, TypeOK
  <2>3. CASE ForkDone(p)
    BY <2>3, PrivateQuiet DEF ForkDone, At, ShapeInv, TypeOK, Fork, Cloning
  <2>4. CASE ForkFails(p)
    BY <2>4, PrivateQuiet DEF ForkFails, At, spaceVars, ShapeInv, TypeOK, Fork, Cloning
  <2>5. CASE ForkUndone(p)
    BY <2>5, PrivateQuiet DEF ForkUndone, At, Goto, spaceVars, ShapeInv, TypeOK
  <2>6. ASSUME NEW f \in Frames, CloneGrow(p, f) PROVE PrivateInv'
    BY <2>6, PrivateQuiet DEF CloneGrow
  <2> QED
    BY <1>8, <2>1, <2>2, <2>3, <2>4, <2>5, <2>6 DEF ForkStep
<1>9. ASSUME NEW p \in Spaces, FreeStep(p) PROVE PrivateInv'
  <2>1. CASE FreeLeaf(p)
    <3>1. PICK v \in Pages : OneEntry(p, v, 0, FALSE, FALSE)
      BY <2>1, FreeLeafOne
    <3>2. pc' = pc /\ page' = page /\ pc[p] = "dying"
      BY <2>1 DEF FreeLeaf, At
    <3> QED
      BY <3>1, <3>2, PrivateEntry
  <2>2. CASE FreeTable(p)
    BY <2>2, PrivateQuiet DEF FreeTable
  <2>3. CASE FreeRoot(p)
    BY <2>3, PrivateQuiet DEF FreeRoot, At, Goto, ShapeInv, TypeOK
  <2> QED
    BY <1>9, <2>1, <2>2, <2>3 DEF FreeStep
<1> QED
  BY <1>1, <1>2, <1>3, <1>4, <1>5, <1>6, <1>7, <1>8, <1>9 DEF Next

\* All that keeps pages apart, together.
ApartInv == AllocInv /\ LibcInv /\ ReadyInv /\ PrivateInv

\* Nothing is mapped at the start.
LEMMA InitApart == Init => ApartInv
<1> SUFFICES ASSUME Init PROVE LibcInv /\ ReadyInv /\ PrivateInv
  BY InitCounts DEF ApartInv
<1>1. /\ \A p \in Spaces, v \in Pages : /\ pte[p][v].frame = 0 /\ pte[p][v].w = FALSE /\ pte[p][v].cow = FALSE
                                       /\ prot[p][v] = "none"
      /\ \A p \in Spaces : pc[p] = "none"
  BY DEF Init, Absent
<1> QED
  BY <1>1, SizeFacts DEF LibcInv, LibcUnmarked, ReadyInv, PrivateInv, At, Present

\* Every step keeps them.
LEMMA ApartNext ==
    ASSUME NoReadOnly, Cardinality(Spaces) <= MaxRef
    PROVE  ApartInv /\ ShapeInv' /\ [Next]_vars => ApartInv'
<1> SUFFICES ASSUME ApartInv, ShapeInv', [Next]_vars PROVE ApartInv'
  OBVIOUS
<1>1. AllocInv'
  BY AllocNext DEF ApartInv
<1>2. LibcInv'
  BY LibcNext DEF ApartInv, AllocInv, NoReadOnly
<1>3. ReadyInv'
  BY ReadyNext DEF ApartInv, AllocInv
<1>4. PrivateInv'
  BY PrivateNext DEF ApartInv, AllocInv
<1> QED
  BY <1>1, <1>2, <1>3, <1>4 DEF ApartInv

\* A page that a process can write is nobody else's: fork shares and write-protects on both sides,
\* and the copy-on-write handler goes on with the frame only when the count, read without the lock,
\* says that no other entry is left.  It takes that the count can reach the number of processes,
\* and that mprotect makes no page writable that was mapped read-only and shared.
THEOREM WritableStaysPrivate ==
    ASSUME NoReadOnly, Cardinality(Spaces) <= MaxRef
    PROVE  Spec => []WritableIsPrivate
<1>1. ApartInv => WritableIsPrivate
  BY DEF ApartInv, PrivateInv, Sole, WritableIsPrivate
<1>2. ApartInv /\ ShapeInv' /\ [Next]_vars => ApartInv'
  BY ApartNext
<1> QED
  BY <1>1, <1>2, InitApart, ShapeInvariance, PTL DEF Spec

----------------------------------------------------------------------------
(* Copy-on-write implements PrivateMemory.                                  *)

\* The libc reads as it was loaded; the copy is made before the shared frame is left; what fork has
\* passed is in the child's directory, or was absent.
ViewInv ==
    /\ \A f \in Libc : content[f] = Zero
    /\ \A p \in Spaces : At(p, "cowDrop") => content[hold[p]] = content[pte[p][page[p]].frame]
    /\ \A p \in Spaces : Cloning(p) =>
          \A v \in Pages \ Ahead(p) : pte[child[p]][v].frame = pte[p][v].frame

\* Nobody reads frame x: it was free, or is about to be copied into.
NotRead(x) ==
    /\ x \notin Libc /\ Leaves(x) = {}
    /\ \A q \in Spaces : hold[q] = x => At(q, "cowCopy")

\* Frame x is the only one that is written.
Rewrites(x) == \A f \in Frames : f = x \/ content'[f] = content[f]

\* What is written is read by nobody.
Unread == content' = content \/ \E x \in Frames : NotRead(x) /\ Rewrites(x)

\* The frames behind what p reads.
Behind(p, v) == {f \in Frames : <<p, v>> \in Leaves(f) \/ (At(p, "cowMap") /\ hold[p] = f)}

\* They keep their contents.
LEMMA BehindKept ==
    ASSUME Unread, NEW p \in Spaces, NEW v \in Pages, NEW f \in Behind(p, v)
    PROVE  content'[f] = content[f]
<1>1. CASE content' = content
  BY <1>1
<1>2. ASSUME NEW x \in Frames, NotRead(x), Rewrites(x) PROVE content'[f] = content[f]
  <2>1. f # x
    BY <1>2 DEF Behind, NotRead, At
  <2> QED
    BY <1>2, <2>1 DEF Rewrites, Behind
<1> QED
  BY <1>1, <1>2 DEF Unread


\* What p reads stays as it was.
LEMMA ViewSame ==
    ASSUME ShapeInv, NEW p \in Spaces, NEW v \in Pages, Alive(p)' <=> Alive(p),
           Alive(p) => /\ pte'[p][v].frame = pte[p][v].frame
                       /\ pc[p] \in {"cowMap", "unmap"} /\ page[p] = v =>
                             pc'[p] = pc[p] /\ page'[p] = page[p] /\ hold'[p] = hold[p]
                       /\ pc'[p] \in {"cowMap", "unmap"} /\ page'[p] = v => pc[p] = pc'[p] /\ page[p] = v
                       /\ \A f \in Behind(p, v) : content'[f] = content[f]
    PROVE  View(p, v)' = View(p, v)
<1>1. CASE ~Alive(p)
  BY <1>1 DEF View
<1>2. CASE Alive(p) /\ ~Present(p, v)
  <2>1. ~Present(p, v)'
    BY <1>2 DEF Present
  <2> QED
    BY <1>2, <2>1 DEF View
<1>3. CASE Alive(p) /\ Present(p, v)
  <2>1. PICK f \in Frames : f = pte[p][v].frame
    BY <1>3, PresentFrame DEF ShapeInv
  <2>2. Present(p, v)' /\ pte'[p][v].frame = f
    BY <1>3, <2>1 DEF Present
  <2>3. CASE At(p, "unmap") /\ page[p] = v
    BY <1>3, <2>3 DEF View, At
  <2>4. CASE At(p, "cowMap") /\ page[p] = v
    <3>1. hold[p] \in Behind(p, v)
      BY <2>4 DEF ShapeInv, TypeOK, Shape, Holding, At, Behind, Frames
    <3>2. content'[hold[p]] = content[hold[p]]
      BY <1>3, <3>1
    <3>3. View(p, v) = content[hold[p]]
      BY <1>3, <2>4 DEF View, At
    <3>4. At(p, "cowMap")' /\ page'[p] = v /\ hold'[p] = hold[p]
      BY <1>3, <2>4 DEF At
    <3>5. View(p, v)' = content'[hold[p]]
      BY <1>3, <2>2, <3>4 DEF View, At
    <3> QED
      BY <3>2, <3>3, <3>5
  <2>5. CASE ~Dropped(p, v)
    <3>1. f \in Behind(p, v)
      BY <2>1, <2>5, LeafIs DEF Behind
    <3>2. content'[f] = content[f]
      BY <1>3, <3>1
    <3>3. ~Dropped(p, v)'
      BY <1>3, <2>5 DEF Dropped
    <3>4. View(p, v) = content[f]
      BY <1>3, <2>1, <2>5 DEF View, Dropped, At
    <3>5. View(p, v)' = content'[f]
      BY <1>3, <2>2, <3>3 DEF View, Dropped, At
    <3> QED
      BY <3>2, <3>4, <3>5
  <2> QED
    BY <2>3, <2>4, <2>5 DEF Dropped, At
<1> QED
  BY <1>1, <1>2, <1>3

\* The two variables of PrivateMemory.
Existing == {p \in Spaces : Alive(p)}
Memory == [p \in Spaces |-> [v \in Pages |-> View(p, v)]]

\* PrivateMemory sees nothing.
LEMMA Stutters ==
    ASSUME \A p \in Spaces : Alive(p)' <=> Alive(p),
           \A p \in Spaces, v \in Pages : View(p, v)' = View(p, v)
    PROVE  UNCHANGED Private!vars
<1>1. {p \in Spaces : Alive(p)}' = {p \in Spaces : Alive(p)}
  OBVIOUS
<1>2. [p \in Spaces |-> [v \in Pages |-> View(p, v)]]' = [p \in Spaces |-> [v \in Pages |-> View(p, v)]]
  OBVIOUS
<1> QED
  BY <1>1, <1>2 DEF Private!vars

\* No entry of a running process changes, and none is given back.
LEMMA QuietStutters ==
    ASSUME ShapeInv, Unread,
           \A q \in Spaces : Alive(q)' <=> Alive(q),
           \A q \in Spaces : Alive(q) => \A u \in Pages : pte'[q][u].frame = pte[q][u].frame,
           \A q \in Spaces : pc[q] \in {"cowMap", "unmap"} \/ pc'[q] \in {"cowMap", "unmap"} =>
              pc'[q] = pc[q] /\ page'[q] = page[q] /\ hold'[q] = hold[q]
    PROVE  UNCHANGED Private!vars
<1>1. ASSUME NEW q \in Spaces, NEW u \in Pages PROVE View(q, u)' = View(q, u)
  <2>1. \A f \in Behind(q, u) : content'[f] = content[f]
    BY BehindKept
  <2> QED
    BY <2>1, ViewSame
<1> QED
  BY <1>1, Stutters

\* One entry of p changes, or begins or stops to count, and p reads in that page what it read.
LEMMA EntryStutters ==
    ASSUME ShapeInv, Unread, NEW p \in Spaces, NEW v \in Pages,
           \A q \in Spaces : Alive(q)' <=> Alive(q),
           \A q \in Spaces, u \in Pages : q # p \/ u # v => pte'[q][u].frame = pte[q][u].frame,
           \A q \in Spaces \ {p} : pc'[q] = pc[q] /\ page'[q] = page[q] /\ hold'[q] = hold[q],
           pc[p] \in {"cowMap", "unmap"} => page[p] = v,
           pc'[p] \in {"cowMap", "unmap"} => page'[p] = v,
           View(p, v)' = View(p, v)
    PROVE  UNCHANGED Private!vars
<1>1. ASSUME NEW q \in Spaces, NEW u \in Pages PROVE View(q, u)' = View(q, u)
  <2>1. CASE q = p /\ u = v
    BY <2>1
  <2>2. CASE q # p \/ u # v
    <3>1. \A f \in Behind(q, u) : content'[f] = content[f]
      BY BehindKept
    <3>2. pte'[q][u].frame = pte[q][u].frame
      BY <2>2
    <3>3. /\ pc[q] \in {"cowMap", "unmap"} /\ page[q] = u =>
                pc'[q] = pc[q] /\ page'[q] = page[q] /\ hold'[q] = hold[q]
          /\ pc'[q] \in {"cowMap", "unmap"} /\ page'[q] = u => pc[q] = pc'[q] /\ page[q] = u
      BY <2>2
    <3> QED
      BY <3>1, <3>2, <3>3, ViewSame
  <2> QED
    BY <2>1, <2>2
<1> QED
  BY <1>1, Stutters

\* Between the copy and the drop, the two frames of a copy-on-write fault go on being equal.
LEMMA CopyKept ==
    ASSUME ShapeInv, ViewInv, NEW q \in Spaces, pc[q] = "cowDrop",
           page'[q] = page[q], hold'[q] = hold[q], pte'[q][page[q]].frame = pte[q][page[q]].frame,
           \A h \in Frames : hold[q] = h => content'[h] = content[h],
           \A u \in Pages, g \in Frames : <<q, u>> \in Leaves(g) => content'[g] = content[g]
    PROVE  content'[hold'[q]] = content'[pte'[q][page'[q]].frame]
<1>1. PICK u \in Pages : u = page[q]
  BY DEF ShapeInv, Shape, Faulting
<1>2. PICK g \in Frames : g = pte[q][u].frame
  BY <1>1, PresentFrame DEF ShapeInv, Shape, Faulting
<1>3. PICK h \in Frames : h = hold[q]
  BY SizeFacts DEF ShapeInv, TypeOK, Shape, Holding, Frames
<1>4. content'[h] = content[h] /\ content'[g] = content[g]
  <2>1. <<q, u>> \in Leaves(g)
    BY <1>2, LeafIs DEF Dropped
  <2> QED
    BY <1>3, <2>1
<1>5. content[h] = content[g]
  BY <1>1, <1>2, <1>3 DEF ViewInv, At
<1> QED
  BY <1>1, <1>2, <1>3, <1>4, <1>5

\* And a write to what nobody reads leaves them alone.
LEMMA CopyUnread ==
    ASSUME ShapeInv, Unread, NEW q \in Spaces, pc[q] = "cowDrop"
    PROVE  /\ \A h \in Frames : hold[q] = h => content'[h] = content[h]
           /\ \A u \in Pages, g \in Frames : <<q, u>> \in Leaves(g) => content'[g] = content[g]
<1>1. \A h \in Frames : hold[q] = h => content'[h] = content[h]
  BY DEF Unread, NotRead, Rewrites, At
<1>2. \A u \in Pages, g \in Frames : <<q, u>> \in Leaves(g) => content'[g] = content[g]
  BY BehindKept DEF Behind
<1> QED
  BY <1>1, <1>2

\* The same for the invariant, except where fork goes on or a copy is made.
LEMMA ViewInvKept ==
    ASSUME ShapeInv, ViewInv, Unread,
           \A q \in Spaces : pc'[q] = "cowDrop" =>
              /\ pc[q] = "cowDrop" /\ page'[q] = page[q] /\ hold'[q] = hold[q]
              /\ pte'[q][page[q]].frame = pte[q][page[q]].frame,
           \A q \in Spaces : Cloning(q)' =>
              /\ Cloning(q) /\ pc'[q] = pc[q] /\ page'[q] = page[q] /\ child'[q] = child[q]
              /\ \A u \in Pages : /\ pte'[q][u].frame = pte[q][u].frame
                                  /\ pte'[child[q]][u].frame = pte[child[q]][u].frame
    PROVE  ViewInv'
<1> USE SizeFacts
<1>1. ASSUME NEW f \in Libc PROVE content'[f] = Zero
  BY DEF Unread, NotRead, Rewrites, ViewInv
<1>2. ASSUME NEW q \in Spaces, At(q, "cowDrop")'
      PROVE  content'[hold'[q]] = content'[pte'[q][page'[q]].frame]
  <2>1. /\ pc[q] = "cowDrop" /\ page'[q] = page[q] /\ hold'[q] = hold[q]
        /\ pte'[q][page[q]].frame = pte[q][page[q]].frame
    BY <1>2 DEF At
  <2> QED
    BY <2>1, CopyKept, CopyUnread
<1>3. ASSUME NEW q \in Spaces, Cloning(q)'
      PROVE  \A v \in Pages \ Ahead(q)' : pte'[child'[q]][v].frame = pte'[q][v].frame
  <2>1. Cloning(q) /\ Ahead(q)' = Ahead(q)
    BY <1>3 DEF Ahead, At
  <2> QED
    BY <1>3, <2>1 DEF ViewInv
<1> QED
  BY <1>1, <1>2, <1>3 DEF ViewInv

\* A frame from the pool is read by nobody.
LEMMA FreshUnread ==
    ASSUME AllocInv, NEW x \in Frames, AllocateZeroed(x)
    PROVE  Unread
<1>1. x \in free
  BY Allocated DEF AllocInv, ShapeInv, AllocateZeroed
<1>2. x \notin Libc /\ Leaves(x) = {} /\ \A q \in Spaces : hold[q] # x
  BY <1>1, Unused DEF AllocInv
<1>3. Rewrites(x)
  BY DEF AllocateZeroed, Rewrites, AllocInv, ShapeInv, TypeOK
<1> QED
  BY <1>2, <1>3 DEF Unread, NotRead

\* The steps of a handler, of spawn and of teardown that move no place that is read.
LEMMA LocalView ==
    ASSUME ShapeInv, ViewInv, Unread, NEW p \in Spaces,
           \A q \in Spaces \ {p} : pc'[q] = pc[q] /\ page'[q] = page[q] /\ hold'[q] = hold[q] /\ child'[q] = child[q],
           \A q \in Spaces, u \in Pages : q # p => pte'[q][u].frame = pte[q][u].frame,
           pc[p] # "embryo", pc'[p] # "cowDrop", ~Cloning(p)'
    PROVE  ViewInv'
<1>1. ASSUME NEW q \in Spaces, pc'[q] = "cowDrop"
      PROVE  /\ pc[q] = "cowDrop" /\ page'[q] = page[q] /\ hold'[q] = hold[q]
             /\ pte'[q][page[q]].frame = pte[q][page[q]].frame
  BY <1>1 DEF ShapeInv, Shape, Faulting
<1>2. ASSUME NEW q \in Spaces, Cloning(q)'
      PROVE  /\ Cloning(q) /\ pc'[q] = pc[q] /\ page'[q] = page[q] /\ child'[q] = child[q]
             /\ \A u \in Pages : /\ pte'[q][u].frame = pte[q][u].frame
                                 /\ pte'[child[q]][u].frame = pte[child[q]][u].frame
  <2>1. q # p /\ Cloning(q)
    BY <1>2 DEF Cloning
  <2>2. child[q] \in Spaces \ {p}
    BY <2>1 DEF ShapeInv, TypeOK, Fork, At
  <2> QED
    BY <2>1, <2>2
<1> QED
  BY <1>1, <1>2, ViewInvKept

\* One step as PrivateMemory sees it, and the invariant after it.
Seen == ViewInv' /\ [Private!Next]_(Private!vars)

\* A handler of p, or the spawn or the teardown of p, that PrivateMemory does not see.
LEMMA LocalQuiet ==
    ASSUME ShapeInv, ViewInv, Unread, NEW p \in Spaces,
           \A q \in Spaces \ {p} : pc'[q] = pc[q] /\ page'[q] = page[q] /\ hold'[q] = hold[q] /\ child'[q] = child[q],
           \A q \in Spaces, u \in Pages : q # p \/ Alive(p) => pte'[q][u].frame = pte[q][u].frame,
           Alive(p)' <=> Alive(p),
           pc[p] \notin {"embryo", "cowMap", "unmap"},
           pc'[p] \notin {"cowDrop", "cowMap", "unmap", "clone", "cloneRef"}
    PROVE  Seen
<1>1. ViewInv'
  BY LocalView DEF Cloning
<1>2. \A q \in Spaces : Alive(q)' <=> Alive(q)
  BY DEF Alive
<1>3. UNCHANGED Private!vars
  BY <1>2, QuietStutters
<1> QED
  BY <1>1, <1>3 DEF Seen

----------------------------------------------------------------------------
(* The steps one by one.                                                    *)

\* A space gets its root.
LEMMA SpawnBeginSeen ==
    ASSUME AllocInv, ViewInv, NEW p \in Spaces, NEW f \in Frames, SpawnBegin(p, f)
    PROVE  Seen
<1>1. Unread
  BY FreshUnread DEF SpawnBegin
<1>2. /\ pc[p] = "none" /\ pc'[p] = "spawn" /\ pte' = pte
      /\ \A q \in Spaces \ {p} : pc'[q] = pc[q] /\ page'[q] = page[q] /\ hold'[q] = hold[q] /\ child'[q] = child[q]
  BY DEF SpawnBegin, Starts, At, Goto, AllocInv, ShapeInv, TypeOK
<1> QED
  BY <1>1, <1>2, LocalQuiet DEF Alive, AllocInv

\* The space under construction gets a table.
LEMMA LibGrowSeen ==
    ASSUME AllocInv, ViewInv, NEW p \in Spaces, NEW f \in Frames, LibGrow(p, f)
    PROVE  Seen
<1>1. Unread
  BY FreshUnread DEF LibGrow
<1>2. /\ pc[p] = "spawn" /\ UNCHANGED <<pc, page, hold, child, pte>>
  BY DEF LibGrow, At
<1> QED
  BY <1>1, <1>2, LocalQuiet DEF Alive, AllocInv

\* A page of the libc is mapped in a space that does not run yet.
LEMMA LibMapSeen ==
    ASSUME AllocInv, ViewInv, NEW p \in Spaces, LibMap(p)
    PROVE  Seen
<1>1. PICK v \in Libc : /\ page' = [page EXCEPT ![p] = v]
                        /\ pte' = pte \/ OneEntry(p, v, v, FALSE, FALSE)
  BY LibMapEntries DEF AllocInv
<1>2. /\ pc[p] = "spawn" /\ pc'[p] = "libRef" /\ content' = content
      /\ \A q \in Spaces \ {p} : pc'[q] = pc[q] /\ page'[q] = page[q] /\ hold'[q] = hold[q] /\ child'[q] = child[q]
  BY <1>1 DEF LibMap, At, Goto, AllocInv, ShapeInv, TypeOK
<1>3. \A q \in Spaces, u \in Pages : q # p => pte'[q][u].frame = pte[q][u].frame
  BY <1>1 DEF OneEntry
<1> QED
  BY <1>2, <1>3, LocalQuiet DEF Alive, AllocInv, Unread

\* The steps that write no entry and no frame.
LEMMA HandlerSeen ==
    ASSUME AllocInv, ViewInv, NEW p \in Spaces,
           \/ LibRef(p) \/ FaultFails(p) \/ ForkUndone(p) \/ FreeTable(p) \/ FreeRoot(p)
           \/ \E v \in Pages : Fault(p, v) \/ CowFault(p, v) \/ \E r \in MmapProts : Mmap(p, v, r)
    PROVE  Seen
<1>1. pte' = pte /\ content' = content /\ hold' = hold
  BY DEF LibRef, FaultFails, ForkUndone, FreeTable, FreeRoot, Fault, CowFault, Mmap, spaceVars
<1>2. CASE LibRef(p) \/ FaultFails(p) \/ ForkUndone(p) \/ FreeTable(p) \/ FreeRoot(p)
  <2>1. \A q \in Spaces \ {p} : pc'[q] = pc[q] /\ page'[q] = page[q] /\ child'[q] = child[q]
    BY <1>2 DEF LibRef, FaultFails, ForkUndone, FreeTable, FreeRoot, Goto, Leave, AllocInv, ShapeInv, TypeOK
  <2>2. \/ pc[p] = "libRef" /\ pc'[p] = "spawn"
        \/ pc[p] \in {"fault", "cowAlloc", "unfork"} /\ pc'[p] = "user"
        \/ pc[p] = "dying" /\ pc'[p] \in {"dying", "none"}
    BY <1>2 DEF LibRef, FaultFails, ForkUndone, FreeTable, FreeRoot, At, Goto, Leave, AllocInv, ShapeInv, TypeOK
  <2> QED
    BY <1>1, <2>1, <2>2, LocalQuiet DEF Alive, AllocInv, Unread
<1>3. ASSUME NEW v \in Pages, NEW r \in MmapProts, Fault(p, v) \/ CowFault(p, v) \/ Mmap(p, v, r)
      PROVE  Seen
  <2>1. \A q \in Spaces \ {p} : pc'[q] = pc[q] /\ page'[q] = page[q] /\ child'[q] = child[q]
    BY <1>3 DEF Fault, CowFault, Mmap, Goto, AllocInv, ShapeInv, TypeOK
  <2>2. pc[p] = "user" /\ pc'[p] \in {"user", "fault", "cowKeep", "cowAlloc"}
    BY <1>3 DEF Fault, CowFault, Mmap, Starts, At, Goto, AllocInv, ShapeInv, TypeOK
  <2> QED
    BY <1>1, <2>1, <2>2, LocalQuiet DEF Alive, AllocInv, Unread
<1>4. ASSUME NEW v \in Pages, Fault(p, v) \/ CowFault(p, v)
      PROVE  Seen
  <2>1. \A q \in Spaces \ {p} : pc'[q] = pc[q] /\ page'[q] = page[q] /\ child'[q] = child[q]
    BY <1>4 DEF Fault, CowFault, Goto, AllocInv, ShapeInv, TypeOK
  <2>2. pc[p] = "user" /\ pc'[p] \in {"fault", "cowKeep", "cowAlloc"}
    BY <1>4 DEF Fault, CowFault, Starts, At, Goto, AllocInv, ShapeInv, TypeOK
  <2> QED
    BY <1>1, <2>1, <2>2, LocalQuiet DEF Alive, AllocInv, Unread
<1> QED
  BY <1>2, <1>3, <1>4

\* A fault makes a table.
LEMMA FaultGrowSeen ==
    ASSUME AllocInv, ViewInv, NEW p \in Spaces, NEW f \in Frames, FaultGrow(p, f)
    PROVE  Seen
<1>1. Unread
  BY FreshUnread DEF FaultGrow
<1>2. /\ pc[p] = "fault" /\ UNCHANGED <<pc, page, hold, child, pte>>
  BY DEF FaultGrow, At
<1> QED
  BY <1>1, <1>2, LocalQuiet DEF Alive, AllocInv

\* A frame is taken for the copy.
LEMMA CowAllocSeen ==
    ASSUME AllocInv, ViewInv, NEW p \in Spaces, NEW f \in Frames, CowAlloc(p, f)
    PROVE  Seen
<1>1. /\ pc[p] = "cowAlloc" /\ pc'[p] = "cowCopy" /\ pte' = pte /\ content' = content
      /\ \A q \in Spaces \ {p} : pc'[q] = pc[q] /\ page'[q] = page[q] /\ hold'[q] = hold[q] /\ child'[q] = child[q]
  BY DEF CowAlloc, At, Goto, spaceVars, AllocInv, ShapeInv, TypeOK
<1> QED
  BY <1>1, LocalQuiet DEF Alive, AllocInv, Unread

\* The sole owner goes on with the frame.
LEMMA CowKeepSeen ==
    ASSUME AllocInv, ViewInv, NEW p \in Spaces, CowKeep(p)
    PROVE  Seen
<1>1. page[p] \in Pages /\ OneEntry(p, page[p], pte[p][page[p]].frame, TRUE, FALSE)
  BY CowKeepEntries DEF AllocInv
<1>2. /\ pc[p] = "cowKeep" /\ pc'[p] = "user" /\ content' = content
      /\ \A q \in Spaces \ {p} : pc'[q] = pc[q] /\ page'[q] = page[q] /\ hold'[q] = hold[q] /\ child'[q] = child[q]
  BY DEF CowKeep, At, Leave, Goto, AllocInv, ShapeInv, TypeOK
<1>3. \A q \in Spaces, u \in Pages : pte'[q][u].frame = pte[q][u].frame
  BY <1>1 DEF OneEntry
<1> QED
  BY <1>2, <1>3, LocalQuiet DEF Alive, AllocInv, Unread

\* mprotect changes what may be done with a page, not what is in it.
LEMMA MprotectSeen ==
    ASSUME AllocInv, ViewInv, NEW p \in Spaces, NEW v \in Pages, NEW r \in Prots, Mprotect(p, v, r)
    PROVE  Seen
<1>1. \A q \in Spaces, u \in Pages : pte'[q][u].frame = pte[q][u].frame
  BY MprotectEntry DEF AllocInv, ShapeInv
<1>2. pc[p] = "user" /\ UNCHANGED <<pc, page, hold, child, content>>
  BY DEF Mprotect, At
<1> QED
  BY <1>1, <1>2, LocalQuiet DEF Alive, AllocInv, Unread

\* A page of a process that is gone is given back.
LEMMA FreeLeafSeen ==
    ASSUME AllocInv, ViewInv, NEW p \in Spaces, FreeLeaf(p)
    PROVE  Seen
<1>1. PICK v \in Pages : OneEntry(p, v, 0, FALSE, FALSE)
  BY FreeLeafOne DEF AllocInv
<1>2. pc[p] = "dying" /\ UNCHANGED <<pc, page, hold, child, content>>
  BY DEF FreeLeaf, At
<1>3. \A q \in Spaces, u \in Pages : q # p => pte'[q][u].frame = pte[q][u].frame
  BY <1>1 DEF OneEntry
<1> QED
  BY <1>2, <1>3, LocalQuiet DEF Alive, AllocInv, Unread

\* fork begins: the child has no page yet, and no page of the parent is behind.
LEMMA ForkBeginSeen ==
    ASSUME AllocInv, ViewInv, NEW p \in Spaces, NEW c \in Spaces, NEW f \in Frames, ForkBegin(p, c, f)
    PROVE  Seen
<1> USE SizeFacts
<1>1. Unread /\ ShapeInv
  BY FreshUnread DEF ForkBegin, AllocInv
<1>2. /\ pc[p] = "user" /\ pc[c] = "none" /\ p # c
      /\ pc'[p] = "clone" /\ pc'[c] = "embryo" /\ page'[p] = 1 /\ child'[p] = c
      /\ pte' = pte /\ hold' = hold
      /\ \A q \in Spaces \ {p} : page'[q] = page[q] /\ child'[q] = child[q]
      /\ \A q \in Spaces \ {p, c} : pc'[q] = pc[q]
  BY <1>1 DEF ForkBegin, Starts, At, ShapeInv, TypeOK
<1>3. \A g \in Libc : content'[g] = Zero
  BY <1>1 DEF Unread, NotRead, Rewrites, ViewInv
<1>4. ASSUME NEW q \in Spaces, At(q, "cowDrop")'
      PROVE  content'[hold'[q]] = content'[pte'[q][page'[q]].frame]
  <2>1. pc[q] = "cowDrop" /\ page'[q] = page[q]
    BY <1>2, <1>4 DEF At
  <2> QED
    BY <1>1, <1>2, <2>1, CopyKept, CopyUnread
<1>5. ASSUME NEW q \in Spaces, Cloning(q)'
      PROVE  \A v \in Pages \ Ahead(q)' : pte'[child'[q]][v].frame = pte'[q][v].frame
  <2>1. CASE q = p
    <3>1. Ahead(p)' = Pages
      BY <1>2 DEF Ahead, At, Pages
    <3> QED
      BY <2>1, <3>1
  <2>2. CASE q # p
    <3>1. Cloning(q) /\ Ahead(q)' = Ahead(q) /\ child'[q] = child[q]
      BY <1>2, <1>5, <2>2 DEF Cloning, Ahead, At
    <3> QED
      BY <1>2, <3>1 DEF ViewInv
  <2> QED
    BY <2>1, <2>2
<1>6. ViewInv'
  BY <1>3, <1>4, <1>5 DEF ViewInv
<1>7. \A q \in Spaces : Alive(q)' <=> Alive(q)
  BY <1>2 DEF Alive
<1>8. UNCHANGED Private!vars
  BY <1>1, <1>2, <1>7, QuietStutters
<1> QED
  BY <1>6, <1>8 DEF Seen

\* The child gets a table.
LEMMA CloneGrowSeen ==
    ASSUME AllocInv, ViewInv, NEW p \in Spaces, NEW f \in Frames, CloneGrow(p, f)
    PROVE  Seen
<1>1. Unread /\ ShapeInv /\ UNCHANGED <<pte, pc, page, hold, child>>
  BY FreshUnread DEF CloneGrow, AllocInv
<1>2. ViewInv'
  BY <1>1, ViewInvKept DEF Cloning
<1>3. UNCHANGED Private!vars
  BY <1>1, QuietStutters DEF Alive
<1> QED
  BY <1>2, <1>3 DEF Seen

\* A page is shared: those that were passed over are absent on both sides.
LEMMA CloneShareSeen ==
    ASSUME AllocInv, ViewInv, NEW p \in Spaces, CloneShare(p)
    PROVE  Seen
<1> USE SizeFacts
<1>1. PICK v \in Pages :
              /\ v \in NextLeaf(p)
              /\ page' = [page EXCEPT ![p] = v]
              /\ \A q \in Spaces, u \in Pages :
                    LET e == pte[p][v]
                    IN  IF q \in {p, child[p]} /\ u = v
                        THEN pte'[q][u].frame = e.frame /\ ~pte'[q][u].w /\ pte'[q][u].cow = (e.w \/ e.cow)
                        ELSE pte'[q][u] = pte[q][u]
  BY CloneShareEntries DEF AllocInv
<1>2. PICK c \in Spaces : c = child[p]
  BY DEF AllocInv, ShapeInv, TypeOK
<1>3. /\ pc[p] = "clone" /\ pc'[p] = "cloneRef" /\ page'[p] = v /\ pc[c] = "embryo" /\ c # p
      /\ content' = content /\ hold' = hold /\ child' = child
      /\ \A q \in Spaces \ {p} : pc'[q] = pc[q] /\ page'[q] = page[q]
  <2>1. pc[p] = "clone" /\ pc' = [pc EXCEPT ![p] = "cloneRef"]
        /\ content' = content /\ hold' = hold /\ child' = child
    BY Zenon DEF CloneShare, At, Goto
  <2>2. pc[c] = "embryo"
    BY <1>2, <2>1 DEF AllocInv, ShapeInv, Fork, Cloning, At
  <2>3. c # p
    BY <2>1, <2>2
  <2>4. DOMAIN pc = Spaces /\ DOMAIN page = Spaces
    BY DEF AllocInv, ShapeInv, TypeOK
  <2> QED
    BY <1>1, <2>1, <2>2, <2>3, <2>4
<1>4. /\ \A q \in Spaces, u \in Pages : q # c \/ u # v => pte'[q][u].frame = pte[q][u].frame
      /\ pte'[c][v].frame = pte[p][v].frame
  BY <1>1, <1>2
<1>5. \A u \in Pages : u >= page[p] /\ u < v => ~Present(p, u)
  BY <1>1, NextIsOne DEF NextLeaf, Pages
<1>6. ASSUME NEW u \in Pages \ Ahead(p)' PROVE pte'[c][u].frame = pte'[p][u].frame
  <2>1. page[p] \in Int /\ u <= v /\ u \in Int /\ v \in Int
    BY <1>3, <1>6 DEF Ahead, At, AllocInv, ShapeInv, TypeOK, Pages
  <2>2. CASE u = v
    BY <1>3, <1>4, <2>2
  <2>3. CASE u # v /\ u \in Ahead(p)
    <3>1. ~Present(p, u) /\ ~Present(c, u)
      BY <1>2, <1>3, <1>5, <2>1, <2>3 DEF AllocInv, ShapeInv, Fork, Cloning, Ahead
    <3> QED
      BY <1>4, <2>3, <3>1 DEF Present
  <2>4. CASE u # v /\ u \notin Ahead(p)
    BY <1>2, <1>3, <1>4, <2>4 DEF ViewInv, Cloning
  <2> QED
    BY <2>2, <2>3, <2>4
<1>7. ASSUME NEW q \in Spaces, Cloning(q)'
      PROVE  \A u \in Pages \ Ahead(q)' : pte'[child'[q]][u].frame = pte'[q][u].frame
  <2>1. CASE q = p
    BY <1>2, <1>3, <1>6, <2>1
  <2>2. CASE q # p
    <3>1. Cloning(q) /\ Cloning(p) /\ Ahead(q)' = Ahead(q)
      BY <1>3, <1>7, <2>2 DEF Cloning, Ahead, At
    <3>2. child[q] \in Spaces \ {c} /\ q # c
      BY <1>2, <1>3, <2>2, <3>1 DEF AllocInv, ShapeInv, TypeOK, Cloning
    <3> QED
      BY <1>3, <1>4, <3>1, <3>2 DEF ViewInv
  <2> QED
    BY <2>1, <2>2
<1>8. ASSUME NEW q \in Spaces, At(q, "cowDrop")'
      PROVE  content'[hold'[q]] = content'[pte'[q][page'[q]].frame]
  <2>1. pc[q] = "cowDrop" /\ page'[q] = page[q] /\ q # c
    BY <1>3, <1>8 DEF At
  <2>2. page[q] \in Pages
    BY <2>1 DEF AllocInv, ShapeInv, Shape, Faulting
  <2> QED
    BY <1>3, <1>4, <2>1, <2>2 DEF ViewInv, At
<1>9. ViewInv'
  BY <1>3, <1>7, <1>8 DEF ViewInv
<1>10. \A q \in Spaces : Alive(q)' <=> Alive(q)
  BY <1>3 DEF Alive
<1>11. UNCHANGED Private!vars
  <2>1. \A q \in Spaces : Alive(q) => \A u \in Pages : pte'[q][u].frame = pte[q][u].frame
    BY <1>3, <1>4 DEF Alive
  <2> QED
    BY <1>3, <1>10, <2>1, QuietStutters DEF Unread, AllocInv
<1> QED
  BY <1>9, <1>11 DEF Seen

\* Its reference is counted.
LEMMA CloneRefSeen ==
    ASSUME AllocInv, ViewInv, NEW p \in Spaces, CloneRef(p)
    PROVE  Seen
<1> USE SizeFacts
<1>1. /\ pc[p] = "cloneRef" /\ pc'[p] = "clone" /\ page[p] \in Pages /\ page'[p] = page[p] + 1
      /\ pte' = pte /\ content' = content /\ hold' = hold /\ child' = child
      /\ \A q \in Spaces \ {p} : pc'[q] = pc[q] /\ page'[q] = page[q]
  BY DEF CloneRef, At, Goto, spaceVars, AllocInv, ShapeInv, TypeOK, Shape
<1>2. \A q \in Spaces : Cloning(q)' => Cloning(q) /\ Ahead(q)' = Ahead(q)
  BY <1>1 DEF Cloning, Ahead, At, Pages
<1>3. \A q \in Spaces : At(q, "cowDrop")' => At(q, "cowDrop") /\ page'[q] = page[q]
  BY <1>1 DEF At
<1>4. ViewInv'
  BY <1>1, <1>2, <1>3 DEF ViewInv
<1>5. UNCHANGED Private!vars
  BY <1>1, QuietStutters DEF Alive, Unread, AllocInv
<1> QED
  BY <1>4, <1>5 DEF Seen

\* The child is given up.
LEMMA ForkFailsSeen ==
    ASSUME AllocInv, ViewInv, NEW p \in Spaces, ForkFails(p)
    PROVE  Seen
<1>1. PICK c \in Spaces : c = child[p]
  BY DEF AllocInv, ShapeInv, TypeOK
<1>2. /\ pc[p] = "clone" /\ pc[c] = "embryo" /\ pc'[p] = "unfork" /\ pc'[c] = "dying"
      /\ pte' = pte /\ content' = content /\ hold' = hold /\ child' = child
      /\ \A q \in Spaces \ {p, c} : pc'[q] = pc[q]
      /\ \A q \in Spaces \ {p} : page'[q] = page[q]
  BY <1>1 DEF ForkFails, At, spaceVars, AllocInv, ShapeInv, TypeOK, Fork, Cloning
<1>3. ViewInv'
  BY <1>2, ViewInvKept DEF Unread, AllocInv, Cloning
<1>4. \A q \in Spaces : Alive(q)' <=> Alive(q)
  BY <1>2 DEF Alive
<1>5. UNCHANGED Private!vars
  BY <1>2, <1>4, QuietStutters DEF Unread, AllocInv
<1> QED
  BY <1>3, <1>5 DEF Seen

\* The copy is made, in a frame that nobody reads.
LEMMA CowCopySeen ==
    ASSUME AllocInv, ViewInv, NEW p \in Spaces, CowCopy(p)
    PROVE  Seen
<1> USE SizeFacts
<1>1. ShapeInv /\ KindInv /\ pc[p] = "cowCopy"
  BY DEF AllocInv, CowCopy, At
<1>2. PICK v \in Pages : v = page[p]
  BY <1>1 DEF ShapeInv, Shape, Faulting
<1>3. PICK f \in Frames : f = pte[p][v].frame
  BY <1>1, <1>2, PresentFrame DEF ShapeInv, Shape, Faulting
<1>4. PICK h \in Frames \ Libc : h = hold[p]
  BY <1>1 DEF ShapeInv, TypeOK, Shape, Holding, Frames
<1>5. /\ pc'[p] = "cowDrop" /\ UNCHANGED <<pte, page, hold, child>>
      /\ content' = [content EXCEPT ![h] = content[f]]
      /\ \A q \in Spaces \ {p} : pc'[q] = pc[q]
  BY <1>1, <1>2, <1>3, <1>4 DEF CowCopy, Goto, spaceVars, ShapeInv, TypeOK
<1>6. Leaves(h) = {} /\ \A q \in Spaces : hold[q] = h => q = p
  <2>1. \A d \in Leaves(h) : FALSE
    BY <1>1, <1>4 DEF KindInv
  <2> QED
    BY <1>1, <1>4, <2>1 DEF KindInv
<1>7. Rewrites(h) /\ content'[h] = content[f]
  BY <1>1, <1>5 DEF Rewrites, ShapeInv, TypeOK
<1>8. Unread
  BY <1>1, <1>4, <1>6, <1>7 DEF Unread, NotRead, At
<1>9. \A g \in Libc : content'[g] = Zero
  BY <1>4, <1>7 DEF Rewrites, ViewInv
<1>10. ASSUME NEW q \in Spaces, At(q, "cowDrop")'
       PROVE  content'[hold'[q]] = content'[pte'[q][page'[q]].frame]
  <2>1. CASE q = p
    <3>1. f # h
      <4>1. ~Dropped(p, v)
        BY <1>1 DEF Dropped
      <4>2. <<p, v>> \in Leaves(f)
        BY <1>3, <4>1, LeafIs
      <4> QED
        BY <1>6, <4>2
    <3> QED
      BY <1>2, <1>3, <1>4, <1>5, <1>7, <2>1, <3>1 DEF Rewrites
  <2>2. CASE q # p
    <3>1. pc[q] = "cowDrop"
      BY <1>5, <1>10, <2>2 DEF At
    <3>2. \A k \in Frames : hold[q] = k => content'[k] = content[k]
      BY <1>6, <1>7, <2>2 DEF Rewrites
    <3>3. \A u \in Pages, g \in Frames : <<q, u>> \in Leaves(g) => content'[g] = content[g]
      BY <1>6, <1>7 DEF Rewrites
    <3> QED
      BY <1>1, <1>5, <3>1, <3>2, <3>3, CopyKept
  <2> QED
    BY <2>1, <2>2
<1>11. ASSUME NEW q \in Spaces, Cloning(q)'
       PROVE  \A u \in Pages \ Ahead(q)' : pte'[child'[q]][u].frame = pte'[q][u].frame
  <2>1. Cloning(q) /\ Ahead(q)' = Ahead(q)
    BY <1>1, <1>5, <1>11 DEF Cloning, Ahead, At
  <2> QED
    BY <1>5, <2>1 DEF ViewInv
<1>12. ViewInv'
  BY <1>9, <1>10, <1>11 DEF ViewInv
<1>13. UNCHANGED Private!vars
  BY <1>1, <1>5, <1>8, QuietStutters DEF Alive
<1> QED
  BY <1>12, <1>13 DEF Seen

\* A page that read as zero is backed by a frame that was cleared.
LEMMA FaultMapSeen ==
    ASSUME AllocInv, ViewInv, NEW p \in Spaces, NEW f \in Frames, FaultMap(p, f)
    PROVE  Seen
<1> USE SizeFacts
<1>1. Unread /\ ShapeInv /\ f # 0
  BY FreshUnread DEF FaultMap, AllocInv
<1>2. PICK v \in Pages : v = page[p]
  BY <1>1, FaultMapEntries
<1>3. pte'[p][v].frame = f /\ \A q \in Spaces, u \in Pages : q # p \/ u # v => pte'[q][u] = pte[q][u]
  <2>1. OneEntry(p, page[p], f, prot[p][page[p]] = "rw", FALSE)
    BY <1>1, FaultMapEntries
  <2> QED
    BY <1>2, <2>1 DEF OneEntry
<1>4. /\ pc[p] = "fault" /\ pc'[p] = "user" /\ content'[f] = Zero
      /\ \A q \in Spaces \ {p} : pc'[q] = pc[q] /\ page'[q] = page[q] /\ hold'[q] = hold[q] /\ child'[q] = child[q]
  BY <1>1 DEF FaultMap, At, Leave, Goto, AllocateZeroed, ShapeInv, TypeOK
<1>5. ViewInv'
  BY <1>1, <1>3, <1>4, LocalView DEF Cloning
<1>6. View(p, v) = Zero
  BY <1>1, <1>2, <1>4 DEF ShapeInv, Shape, View
<1>7. View(p, v)' = Zero
  BY <1>1, <1>3, <1>4 DEF View, Alive, At, Present
<1>8. \A q \in Spaces : Alive(q)' <=> Alive(q)
  BY <1>4 DEF Alive
<1>9. UNCHANGED Private!vars
  BY <1>1, <1>3, <1>4, <1>6, <1>7, <1>8, EntryStutters
<1> QED
  BY <1>5, <1>9 DEF Seen

\* From here on the process reads the copy, which is what it read.
LEMMA CowDropSeen ==
    ASSUME AllocInv, ViewInv, NEW p \in Spaces, CowDrop(p)
    PROVE  Seen
<1>1. Unread /\ ShapeInv /\ pc[p] = "cowDrop"
  BY DEF CowDrop, AllocInv, Unread, At
<1>2. PICK v \in Pages : v = page[p]
  BY <1>1 DEF ShapeInv, Shape, Faulting
<1>3. /\ pc'[p] = "cowMap" /\ UNCHANGED <<pte, content, page, hold, child>>
      /\ \A q \in Spaces \ {p} : pc'[q] = pc[q]
  BY <1>1 DEF CowDrop, Goto, spaceVars, ShapeInv, TypeOK
<1>4. ViewInv'
  BY <1>1, <1>3, LocalView DEF Cloning
<1>5. View(p, v)' = View(p, v)
  <2>1. Present(p, v) /\ Present(p, v)'
    BY <1>1, <1>2, <1>3 DEF ShapeInv, Shape, Faulting, Present
  <2>2. View(p, v) = content[pte[p][v].frame]
    BY <1>1, <2>1 DEF View, Alive, At
  <2>3. View(p, v)' = content[hold[p]]
    BY <1>2, <1>3, <2>1 DEF View, Alive, At
  <2> QED
    BY <1>1, <1>2, <2>2, <2>3 DEF ViewInv, At
<1>6. \A q \in Spaces : Alive(q)' <=> Alive(q)
  BY <1>1, <1>3 DEF Alive
<1>7. UNCHANGED Private!vars
  BY <1>1, <1>2, <1>3, <1>5, <1>6, EntryStutters
<1> QED
  BY <1>4, <1>7 DEF Seen

\* The copy is mapped.
LEMMA CowMapSeen ==
    ASSUME AllocInv, ViewInv, NEW p \in Spaces, CowMap(p)
    PROVE  Seen
<1>1. Unread /\ ShapeInv /\ pc[p] = "cowMap"
  BY DEF CowMap, AllocInv, Unread, At
<1>2. PICK v \in Pages : v = page[p]
  BY <1>1, CowMapEntries
<1>3. pte'[p][v].frame = hold[p] /\ \A q \in Spaces, u \in Pages : q # p \/ u # v => pte'[q][u] = pte[q][u]
  <2>1. OneEntry(p, page[p], hold[p], TRUE, FALSE)
    BY <1>1, CowMapEntries
  <2> QED
    BY <1>2, <2>1 DEF OneEntry
<1>4. /\ pc'[p] = "user" /\ content' = content
      /\ \A q \in Spaces \ {p} : pc'[q] = pc[q] /\ page'[q] = page[q] /\ hold'[q] = hold[q] /\ child'[q] = child[q]
  BY <1>1 DEF CowMap, Leave, Goto, ShapeInv, TypeOK
<1>5. ViewInv'
  BY <1>1, <1>3, <1>4, LocalView DEF Cloning
<1>6. View(p, v)' = View(p, v)
  <2>1. Present(p, v) /\ hold[p] # 0
    BY <1>1, <1>2 DEF ShapeInv, Shape, Faulting, Holding
  <2>2. View(p, v) = content[hold[p]]
    BY <1>1, <1>2, <2>1 DEF View, Alive, At
  <2>3. View(p, v)' = content[hold[p]]
    BY <1>3, <1>4, <2>1 DEF View, Alive, At, Present
  <2> QED
    BY <2>2, <2>3
<1>7. \A q \in Spaces : Alive(q)' <=> Alive(q)
  BY <1>1, <1>4 DEF Alive
<1>8. UNCHANGED Private!vars
  BY <1>1, <1>2, <1>3, <1>4, <1>6, <1>7, EntryStutters
<1> QED
  BY <1>5, <1>8 DEF Seen

\* What munmap gave back is cleared.
LEMMA UnmapClearsSeen ==
    ASSUME AllocInv, ViewInv, NEW p \in Spaces, UnmapClears(p)
    PROVE  Seen
<1>1. Unread /\ ShapeInv /\ pc[p] = "unmap"
  BY DEF UnmapClears, AllocInv, Unread, At
<1>2. PICK v \in Pages : v = page[p]
  BY <1>1, UnmapClearsEntries
<1>3. pte'[p][v].frame = 0 /\ \A q \in Spaces, u \in Pages : q # p \/ u # v => pte'[q][u] = pte[q][u]
  BY <1>1, <1>2, UnmapClearsEntries DEF OneEntry
<1>4. /\ pc'[p] = "user" /\ content' = content
      /\ \A q \in Spaces \ {p} : pc'[q] = pc[q] /\ page'[q] = page[q] /\ hold'[q] = hold[q] /\ child'[q] = child[q]
  BY <1>1 DEF UnmapClears, Leave, Goto, ShapeInv, TypeOK
<1>5. ViewInv'
  BY <1>1, <1>3, <1>4, LocalView DEF Cloning
<1>6. View(p, v)' = View(p, v)
  BY <1>1, <1>2, <1>3 DEF View, At, Present
<1>7. \A q \in Spaces : Alive(q)' <=> Alive(q)
  BY <1>1, <1>4 DEF Alive
<1>8. UNCHANGED Private!vars
  BY <1>1, <1>2, <1>3, <1>4, <1>6, <1>7, EntryStutters
<1> QED
  BY <1>5, <1>8 DEF Seen

----------------------------------------------------------------------------
(* The steps that PrivateMemory sees.                                       *)

\* The memory of one process changes as a whole.
LEMMA RowWritten ==
    ASSUME NEW p \in Spaces, NEW row, \A u \in Pages : View(p, u)' = row[u], row = [u \in Pages |-> row[u]],
           \A q \in Spaces \ {p}, u \in Pages : View(q, u)' = View(q, u)
    PROVE  Memory' = [Memory EXCEPT ![p] = row]
<1>1. [u \in Pages |-> View(p, u)]' = row
  OBVIOUS
<1>2. \A q \in Spaces \ {p} : [u \in Pages |-> View(q, u)]' = [u \in Pages |-> View(q, u)]
  OBVIOUS
<1> QED
  BY <1>1, <1>2 DEF Memory

\* One page of one process changes.
LEMMA PageWritten ==
    ASSUME NEW p \in Spaces, NEW v \in Pages, NEW x, View(p, v)' = x, Alive(p),
           \A q \in Spaces, u \in Pages : q # p \/ u # v => View(q, u)' = View(q, u),
           \A q \in Spaces : Alive(q)' <=> Alive(q)
    PROVE  Private!Write(p, v, x)
<1> DEFINE row == [[u \in Pages |-> View(p, u)] EXCEPT ![v] = x]
<1>1. row = [u \in Pages |-> row[u]] /\ \A u \in Pages : View(p, u)' = row[u]
  OBVIOUS
<1>2. Memory[p] = [u \in Pages |-> View(p, u)]
  BY DEF Memory
<1>3. [Memory EXCEPT ![p][v] = x] = [Memory EXCEPT ![p] = row]
  BY <1>2
<1> HIDE DEF row
<1>4. Memory' = [Memory EXCEPT ![p][v] = x]
  BY <1>1, <1>3, RowWritten
<1>5. Existing' = Existing /\ p \in Existing
  BY DEF Existing
<1> QED
  BY <1>4, <1>5 DEF Private!Write, Memory, Existing

\* The process appears, and finds its memory zeroed, the libc as it was loaded.
LEMMA SpawnDoneSeen ==
    ASSUME AllocInv, ViewInv, NEW p \in Spaces, SpawnDone(p)
    PROVE  Seen
<1>1. Unread /\ ShapeInv /\ pc[p] = "spawn"
  BY DEF SpawnDone, AllocInv, Unread, At
<1>2. /\ pc'[p] = "user" /\ UNCHANGED <<pte, content, hold, child>>
      /\ \A q \in Spaces \ {p} : pc'[q] = pc[q] /\ page'[q] = page[q]
  BY <1>1 DEF SpawnDone, Leave, Goto, spaceVars, ShapeInv, TypeOK
<1>3. ViewInv'
  BY <1>1, <1>2, LocalView DEF Cloning
<1>4. ASSUME NEW q \in Spaces, NEW u \in Pages PROVE View(q, u)' = View(q, u)
  <2>1. CASE q = p
    <3>1. View(p, u) = Zero
      BY <1>1 DEF View, Alive
    <3>2. pte[p][u].frame = 0 \/ (pte[p][u].frame \in Libc /\ content[pte[p][u].frame] = Zero)
      BY <1>1 DEF ShapeInv, Shape, ViewInv
    <3>3. View(p, u)' = Zero
      BY <1>2, <3>2 DEF View, Alive, At, Present
    <3> QED
      BY <2>1, <3>1, <3>3
  <2>2. CASE q # p
    BY <1>2, <2>2 DEF View, Alive, At, Present
  <2> QED
    BY <2>1, <2>2
<1>5. Memory' = Memory
  BY <1>4 DEF Memory
<1>6. p \notin Existing /\ Existing' = Existing \cup {p}
  BY <1>1, <1>2 DEF Existing, Alive
<1>7. Private!Spawn(p)
  BY <1>5, <1>6 DEF Private!Spawn, Memory, Existing
<1> QED
  BY <1>3, <1>7 DEF Seen, Private!Next

\* The process is gone, and its memory with it.
LEMMA ExitSeen ==
    ASSUME AllocInv, ViewInv, NEW p \in Spaces, Exit(p)
    PROVE  Seen
<1>1. Unread /\ ShapeInv /\ pc[p] = "user"
  BY DEF Exit, Starts, AllocInv, Unread, At
<1>2. /\ pc'[p] = "dying" /\ UNCHANGED <<pte, content, page, hold, child>>
      /\ \A q \in Spaces \ {p} : pc'[q] = pc[q]
  BY <1>1 DEF Exit, Goto, spaceVars, ShapeInv, TypeOK
<1>3. ViewInv'
  BY <1>1, <1>2, LocalView DEF Cloning
<1>4. \A u \in Pages : View(p, u)' = Zero
  BY <1>2 DEF View, Alive
<1>5. \A q \in Spaces \ {p}, u \in Pages : View(q, u)' = View(q, u)
  BY <1>2 DEF View, Alive, At, Present
<1> DEFINE row == [u \in Pages |-> Zero]
<1>6. row = [u \in Pages |-> row[u]] /\ \A u \in Pages : View(p, u)' = row[u]
  BY <1>4
<1> HIDE DEF row
<1>7. Memory' = [Memory EXCEPT ![p] = row]
  BY <1>5, <1>6, RowWritten
<1>8. p \in Existing /\ Existing' = Existing \ {p}
  BY <1>1, <1>2 DEF Existing, Alive
<1>9. Private!Exit(p)
  BY <1>7, <1>8 DEF Private!Exit, Private!Blank, Memory, Existing, row
<1> QED
  BY <1>3, <1>9 DEF Seen, Private!Next

\* The page is gone as soon as its frame is given back.
LEMMA MunmapSeen ==
    ASSUME AllocInv, ViewInv, NEW p \in Spaces, NEW v \in Pages, Munmap(p, v)
    PROVE  Seen
<1>1. Unread /\ ShapeInv /\ pc[p] = "user"
  BY DEF Munmap, Starts, AllocInv, Unread, At
<1>2. /\ pc'[p] = "unmap" /\ page'[p] = v /\ UNCHANGED <<pte, content, hold, child>>
      /\ \A q \in Spaces \ {p} : pc'[q] = pc[q] /\ page'[q] = page[q]
  BY <1>1 DEF Munmap, Goto, spaceVars, ShapeInv, TypeOK
<1>3. ViewInv'
  BY <1>1, <1>2, LocalView DEF Cloning
<1>4. View(p, v)' = Zero
  BY <1>2 DEF View, At
<1>5. ASSUME NEW q \in Spaces, NEW u \in Pages, q # p \/ u # v PROVE View(q, u)' = View(q, u)
  <2>1. CASE q # p
    BY <1>2, <2>1 DEF View, Alive, At, Present
  <2>2. CASE q = p /\ u # v
    BY <1>1, <1>2, <2>2 DEF View, Alive, At, Present
  <2> QED
    BY <1>5, <2>1, <2>2
<1>6. Alive(p) /\ \A q \in Spaces : Alive(q)' <=> Alive(q)
  BY <1>1, <1>2 DEF Alive
<1>7. Private!Unmap(p, v)
  BY <1>4, <1>5, <1>6, PageWritten DEF Private!Unmap
<1> QED
  BY <1>3, <1>7 DEF Seen, Private!Next

\* Among some pages there is a first one.
LEMMA LeastThere ==
    ASSUME NEW N \in Nat, NEW S \in SUBSET (1..N), S # {}
    PROVE  \E m \in S : \A n \in S : m <= n
<1> DEFINE all == 1..N
           upto == {1..k : k \in S}
<1>1. upto \subseteq SUBSET all
  <2>1. ASSUME NEW k \in S PROVE 1..k \subseteq 1..N
    <3>1. k \in Int /\ k <= N
      OBVIOUS
    <3> QED
      BY <3>1
  <2> QED
    BY <2>1
<1>2. upto # {}
  OBVIOUS
<1>3. IsFiniteSet(all)
  BY FS_Interval
<1>4. \A k \in S : 1..k \in upto /\ k \in 1..k
  OBVIOUS
<1> HIDE DEF upto, all
<1>5. IsWellFoundedOn(StrictSubsetOrdering(all), SUBSET all)
  <2>1. IsWellFoundedOn(StrictSubsetOrdering(all), FiniteSubsetsOf(all))
    BY FS_StrictSubsetOrderingWellFounded, Zenon
  <2> QED
    BY <1>3, <2>1, FS_FiniteSubsetsOfFinite, Zenon
<1>6. PICK T \in upto : \A U \in upto : <<U, T>> \notin StrictSubsetOrdering(all)
  BY <1>1, <1>2, <1>5, WFMin, Zenon
<1>7. PICK m \in S : T = 1..m
  BY DEF upto
<1>8. ASSUME NEW n \in S PROVE m <= n
  <2>1. ~(1..n \subseteq 1..m /\ 1..n # 1..m)
    BY <1>1, <1>4, <1>6, <1>7 DEF StrictSubsetOrdering
  <2> QED
    BY <1>4, <2>1
<1> QED
  BY <1>8

\* A walk over the pages of a space stops only where none is left.
LEMMA NextThere ==
    ASSUME ShapeInv, NEW p \in Spaces, NEW S \in SUBSET Pages, NEW u \in S, u >= page[p]
    PROVE  NextOf(p, S) # {}
<1> DEFINE T == {v \in S : v >= page[p]}
<1>1. T \in SUBSET (1..NPages) /\ T # {} /\ NPages \in Nat
  BY SizeFacts DEF Pages
<1> HIDE DEF T
<1>2. PICK m \in T : \A n \in T : m <= n
  BY <1>1, LeastThere
<1>3. m \in NextOf(p, S)
  BY <1>2 DEF NextOf, Lowest, T
<1> QED
  BY <1>3

\* The child reads what the parent reads.
LEMMA ForkDoneSeen ==
    ASSUME AllocInv, ViewInv, NEW p \in Spaces, ForkDone(p)
    PROVE  Seen
<1> USE SizeFacts
<1>1. Unread /\ ShapeInv /\ pc[p] = "clone"
  BY DEF ForkDone, AllocInv, Unread, At
<1>2. PICK c \in Spaces : c = child[p] /\ c # p /\ pc[c] = "embryo"
  BY <1>1 DEF ShapeInv, TypeOK, Fork, Cloning, At
<1>3. /\ pc'[p] = "user" /\ pc'[c] = "user" /\ UNCHANGED <<pte, content, hold>>
      /\ \A q \in Spaces \ {p, c} : pc'[q] = pc[q]
      /\ \A q \in Spaces \ {p} : page'[q] = page[q] /\ child'[q] = child[q]
  BY <1>1, <1>2 DEF ForkDone, ShapeInv, TypeOK
<1>4. ViewInv'
  BY <1>1, <1>2, <1>3, ViewInvKept DEF Cloning
<1>5. ASSUME NEW u \in Pages PROVE pte[c][u].frame = pte[p][u].frame
  <2>1. CASE u \in Ahead(p)
    <3>1. ~Present(c, u)
      BY <1>1, <1>2, <2>1 DEF ShapeInv, Fork, Cloning
    <3>2. ~Present(p, u)
      <4>1. SUFFICES ASSUME Present(p, u) PROVE FALSE
        OBVIOUS
      <4>2. page[p] \in Int /\ u >= page[p]
        BY <1>1, <2>1 DEF Ahead, ShapeInv, TypeOK, Pages
      <4>3. NextOf(p, {w \in Pages : Present(p, w)}) # {}
        BY <1>1, <4>1, <4>2, NextThere
      <4> QED
        BY <4>3 DEF ForkDone, NextLeaf
    <3> QED
      BY <3>1, <3>2 DEF Present
  <2>2. CASE u \notin Ahead(p)
    BY <1>1, <1>2, <2>2 DEF ViewInv, Cloning
  <2> QED
    BY <2>1, <2>2
<1>6. \A q \in Spaces \ {c}, u \in Pages : View(q, u)' = View(q, u)
  BY <1>1, <1>3 DEF View, Alive, At, Present
<1>7. \A u \in Pages : View(c, u)' = View(p, u)
  BY <1>1, <1>3, <1>5 DEF View, Alive, At, Present
<1> DEFINE row == [u \in Pages |-> View(p, u)]
<1>8. row = [u \in Pages |-> row[u]] /\ \A u \in Pages : View(c, u)' = row[u]
  BY <1>7
<1>9. Memory[p] = row
  BY DEF Memory
<1> HIDE DEF row
<1>10. Memory' = [Memory EXCEPT ![c] = Memory[p]]
  BY <1>6, <1>8, <1>9, RowWritten
<1>11. p \in Existing /\ c \notin Existing /\ Existing' = Existing \cup {c}
  BY <1>1, <1>2, <1>3 DEF Existing, Alive
<1>12. Private!Fork(p, c)
  BY <1>10, <1>11 DEF Private!Fork, Memory, Existing
<1> QED
  BY <1>4, <1>12 DEF Seen, Private!Next

\* What a process writes, it alone reads: the frame is its own.
LEMMA WriteSeen ==
    ASSUME ApartInv, ViewInv, NEW p \in Spaces, NEW v \in Pages, NEW x \in Values, Write(p, v, x)
    PROVE  Seen
<1> USE SizeFacts
<1>1. ShapeInv /\ KindInv /\ pc[p] = "user" /\ Present(p, v) /\ pte[p][v].w
  BY DEF ApartInv, AllocInv, Write, At
<1>2. PICK f \in Frames : f = pte[p][v].frame
  BY <1>1, PresentFrame DEF ShapeInv
<1>3. f \notin Libc
  BY <1>1, <1>2 DEF ApartInv, LibcInv, LibcUnmarked
<1>4. Leaves(f) = {<<p, v>>}
  BY <1>1, <1>2 DEF ApartInv, PrivateInv, Sole, Dropped
<1>5. \A q \in Spaces : hold[q] # f
  BY <1>1, <1>3, <1>4 DEF KindInv
<1>6. /\ content'[f] = x /\ Rewrites(f) /\ UNCHANGED <<pte, pc, page, hold, child>>
  BY <1>1, <1>2 DEF Write, Rewrites, spaceVars, ShapeInv, TypeOK
<1>7. \A g \in Libc : content'[g] = Zero
  BY <1>3, <1>6 DEF Rewrites, ViewInv
<1>8. ASSUME NEW q \in Spaces, At(q, "cowDrop")'
      PROVE  content'[hold'[q]] = content'[pte'[q][page'[q]].frame]
  <2>1. pc[q] = "cowDrop" /\ q # p
    BY <1>1, <1>6, <1>8 DEF At
  <2>2. \A k \in Frames : hold[q] = k => content'[k] = content[k]
    BY <1>5, <1>6 DEF Rewrites
  <2>3. \A u \in Pages, g \in Frames : <<q, u>> \in Leaves(g) => content'[g] = content[g]
    BY <1>4, <1>6, <2>1 DEF Rewrites
  <2> QED
    BY <1>1, <1>6, <2>1, <2>2, <2>3, CopyKept
<1>9. ASSUME NEW q \in Spaces, Cloning(q)'
      PROVE  \A u \in Pages \ Ahead(q)' : pte'[child'[q]][u].frame = pte'[q][u].frame
  <2>1. Cloning(q) /\ Ahead(q)' = Ahead(q)
    BY <1>6, <1>9 DEF Cloning, Ahead, At
  <2> QED
    BY <1>6, <2>1 DEF ViewInv
<1>10. ViewInv'
  BY <1>7, <1>8, <1>9 DEF ViewInv
<1>11. Alive(p) /\ \A q \in Spaces : Alive(q)' <=> Alive(q)
  BY <1>1, <1>6 DEF Alive
<1>12. View(p, v)' = x
  BY <1>1, <1>2, <1>6 DEF View, Alive, At, Present
<1>13. ASSUME NEW q \in Spaces, NEW u \in Pages, q # p \/ u # v PROVE View(q, u)' = View(q, u)
  <2>1. \A g \in Behind(q, u) : g # f /\ content'[g] = content[g]
    BY <1>4, <1>5, <1>6, <1>13 DEF Behind, Rewrites
  <2> QED
    BY <1>1, <1>6, <1>11, <2>1, ViewSame
<1>14. Private!Write(p, v, x)
  BY <1>11, <1>12, <1>13, PageWritten
<1> QED
  BY <1>10, <1>14 DEF Seen, Private!Next

\* Every step is one that PrivateMemory has, or one that it does not see.
LEMMA NextSeen ==
    ASSUME ApartInv, ViewInv, [Next]_vars
    PROVE  Seen
<1>1. AllocInv /\ ShapeInv
  BY DEF ApartInv, AllocInv
<1>2. CASE UNCHANGED vars
  <2>1. UNCHANGED <<pte, content, pc, page, hold, child>>
    BY <1>2 DEF vars, spaceVars
  <2>2. ViewInv'
    BY <1>1, <2>1, ViewInvKept DEF Unread, Cloning
  <2>3. UNCHANGED Private!vars
    BY <1>1, <2>1, QuietStutters DEF Unread, Alive
  <2> QED
    BY <2>2, <2>3 DEF Seen
<1>3. ASSUME NEW p \in Spaces, NEW f \in Frames, SpawnBegin(p, f) PROVE Seen
  BY <1>1, <1>3, SpawnBeginSeen
<1>4. ASSUME NEW p \in Spaces, UserStep(p) PROVE Seen
  <2>1. CASE Exit(p)
    BY <1>1, <2>1, ExitSeen
  <2>2. ASSUME NEW v \in Pages, Fault(p, v) \/ CowFault(p, v) PROVE Seen
    BY <1>1, <2>2, HandlerSeen
  <2>3. ASSUME NEW v \in Pages, Munmap(p, v) PROVE Seen
    BY <1>1, <2>3, MunmapSeen
  <2>4. ASSUME NEW v \in Pages, NEW x \in Values, Write(p, v, x) PROVE Seen
    BY <2>4, WriteSeen
  <2>5. ASSUME NEW v \in Pages, NEW r \in MmapProts, Mmap(p, v, r) PROVE Seen
    BY <1>1, <2>5, HandlerSeen
  <2>6. ASSUME NEW v \in Pages, NEW r \in Prots, Mprotect(p, v, r) PROVE Seen
    BY <1>1, <2>6, MprotectSeen
  <2>7. ASSUME NEW c \in Spaces, NEW f \in Frames, ForkBegin(p, c, f) PROVE Seen
    BY <1>1, <2>7, ForkBeginSeen
  <2> QED
    BY <1>4, <2>1, <2>2, <2>3, <2>4, <2>5, <2>6, <2>7 DEF UserStep
<1>5. ASSUME NEW p \in Spaces, SpawnStep(p) PROVE Seen
  BY <1>1, <1>5, LibMapSeen, HandlerSeen, SpawnDoneSeen, LibGrowSeen DEF SpawnStep
<1>6. ASSUME NEW p \in Spaces, FaultStep(p) PROVE Seen
  BY <1>1, <1>6, HandlerSeen, FaultGrowSeen, FaultMapSeen DEF FaultStep
<1>7. ASSUME NEW p \in Spaces, CowStep(p) PROVE Seen
  BY <1>1, <1>7, CowKeepSeen, CowCopySeen, CowDropSeen, CowMapSeen, CowAllocSeen DEF CowStep
<1>8. ASSUME NEW p \in Spaces, UnmapClears(p) PROVE Seen
  BY <1>1, <1>8, UnmapClearsSeen
<1>9. ASSUME NEW p \in Spaces, ForkStep(p) PROVE Seen
  BY <1>1, <1>9, CloneShareSeen, CloneRefSeen, ForkDoneSeen, ForkFailsSeen, HandlerSeen, CloneGrowSeen DEF ForkStep
<1>10. ASSUME NEW p \in Spaces, FreeStep(p) PROVE Seen
  BY <1>1, <1>10, FreeLeafSeen, HandlerSeen DEF FreeStep
<1> QED
  BY <1>2, <1>3, <1>4, <1>5, <1>6, <1>7, <1>8, <1>9, <1>10 DEF Next

\* There is no process, and what there would be to read is zero.
LEMMA InitSeen == Init => Private!Init /\ ViewInv
<1> SUFFICES ASSUME Init PROVE Private!Init /\ ViewInv
  OBVIOUS
<1>1. (\A p \in Spaces : pc[p] = "none") /\ \A f \in Frames : content[f] = Zero
  BY DEF Init
<1>2. \A p \in Spaces : ~Alive(p) /\ \A v \in Pages : View(p, v) = Zero
  BY <1>1 DEF View, Alive
<1>3. Existing = {} /\ Memory = [p \in Spaces |-> [v \in Pages |-> Zero]]
  <2>1. \A p \in Spaces : [v \in Pages |-> View(p, v)] = [v \in Pages |-> Zero]
    BY <1>2
  <2>2. Existing = {}
    BY <1>2 DEF Existing
  <2> QED
    BY <2>1, <2>2 DEF Memory
<1>4. Private!Init
  BY <1>3 DEF Private!Init, Private!Blank, Existing, Memory
<1>5. ViewInv
  BY <1>1, SizeFacts DEF ViewInv, At, Cloning
<1> QED
  BY <1>4, <1>5

\* Frames, counts and faults implement memory that is private from the start: what a process reads is
\* what it wrote, what its parent had at the fork, or zero, and no other process's doing, while copies
\* are put off, made, and dropped on several cores (vm_handle_fault, clone_page_directory_cow and
\* do_munmap step by step).  The assumptions are those of WritableStaysPrivate.
THEOREM MemoryStaysPrivate ==
    ASSUME NoReadOnly, Cardinality(Spaces) <= MaxRef
    PROVE  Spec => MemoryIsPrivate
<1>1. ApartInv /\ ViewInv /\ [Next]_vars => ViewInv' /\ [Private!Next]_(Private!vars)
  BY NextSeen DEF Seen
<1>2. ApartInv /\ ShapeInv' /\ [Next]_vars => ApartInv'
  BY ApartNext
<1> QED
  BY <1>1, <1>2, InitApart, InitSeen, ShapeInvariance, PTL DEF Spec, MemoryIsPrivate, Private!Spec
=============================================================================
