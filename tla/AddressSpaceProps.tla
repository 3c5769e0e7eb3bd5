-------------------------- MODULE AddressSpaceProps --------------------------
(* What the address spaces promise.                                         *)
EXTENDS AddressSpace

Entry == [frame : 0..NFrames, w : BOOLEAN, cow : BOOLEAN]

TypeOK ==
    /\ free \subseteq Frames
    /\ ref \in [Frames -> 0..MaxRef]
    /\ content \in [Frames -> Values]
    /\ root \in [Spaces -> 0..NFrames]
    /\ tab \in [Spaces -> 0..NFrames]
    /\ pte \in [Spaces -> [Pages -> Entry]]
    /\ prot \in [Spaces -> [Pages -> {"none", "ro", "rw", "lib", "libw", "gone"}]]
    /\ pc \in [Spaces -> {"none", "spawn", "libRef", "user", "fault", "cowKeep", "cowAlloc",
                          "cowCopy", "cowDrop", "cowMap", "unmap", "clone", "cloneRef",
                          "unfork", "embryo", "dying"}]
    /\ page \in [Spaces -> 1..(NPages + 1)]
    /\ hold \in [Spaces -> 0..NFrames]
    /\ child \in [Spaces -> Spaces]

----------------------------------------------------------------------------
\* The entry of page[p] no longer counts: its reference has been given back.
Dropped(p, v) == pc[p] \in {"cowMap", "unmap"} /\ page[p] = v

\* Who keeps frame f: leaf entries, tables, roots and frames allocated but not mapped yet.
Leaves(f) == {d \in Spaces \X Pages : pte[d[1]][d[2]].frame = f /\ ~Dropped(d[1], d[2])}
Keepers(f) == Cardinality(Leaves(f))
              + Cardinality({p \in Spaces : tab[p] = f})
              + Cardinality({p \in Spaces : root[p] = f})
              + Cardinality({p \in Spaces : hold[p] = f})

\* References that fork has installed and not counted yet.
Uncounted(f) == Cardinality({p \in Spaces : At(p, "cloneRef") /\ pte[p][page[p]].frame = f})

\* page_refcount says how many entries point at a frame (memory.c), for every frame that is
\* not pinned, through faults, clones and rollbacks on several cores; a frame that nobody
\* keeps is free, so nothing leaks, and one that somebody keeps is not.
CountsExact ==
    \A f \in Frames \ Libc : /\ ref[f] = Keepers(f) - Uncounted(f)
                             /\ f \in free <=> ref[f] = 0

\* A writable page is nobody else's: the frame behind it has no second entry.
WritableIsPrivate ==
    \A p \in Spaces, v \in Pages :
        pte[p][v].w /\ ~Dropped(p, v) => Leaves(pte[p][v].frame) = {<<p, v>>}

\* The frames of the shared libc stay allocated, and an entry of theirs is writable only in a
\* process that has asked mprotect for it, itself or before the fork it comes from: not through
\* elf_load_image, fork, the copy-on-write handler or a failed allocation.
LibcIntact ==
    /\ Libc \cap free = {}
    /\ \A p \in Spaces, v \in Pages :
          pte[p][v].frame \in Libc /\ pte[p][v].w => prot[p][v] = "libw"

\* The one copy of the libc that everybody maps keeps what was loaded into it: no program can
\* patch it for the others, which the bound on the range in do_mprotect is said to see to (mmap.c).
LibcUnpatched == \A f \in Libc : content[f] = Zero

----------------------------------------------------------------------------
(* Every process has memory of its own.                                     *)

Alive(p) == pc[p] \notin {"none", "spawn", "libRef", "embryo", "dying"}

\* What p reads in page v.
View(p, v) ==
    IF ~Alive(p) \/ ~Present(p, v) \/ (At(p, "unmap") /\ page[p] = v) THEN Zero
    ELSE IF At(p, "cowMap") /\ page[p] = v THEN content[hold[p]]
    ELSE content[pte[p][v].frame]

Private == INSTANCE PrivateMemory WITH
    exists <- {p \in Spaces : Alive(p)},
    mem <- [p \in Spaces |-> [v \in Pages |-> View(p, v)]]

\* Copy-on-write cannot be told from copying: the frames, the counts and the faults together
\* implement PrivateMemory.
MemoryIsPrivate == Private!Spec
=============================================================================
