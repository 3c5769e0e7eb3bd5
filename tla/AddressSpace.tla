---------------------------- MODULE AddressSpace ----------------------------
(***************************************************************************)
(* User address spaces over reference-counted page frames: the frame       *)
(* allocator, demand-zero mappings, copy-on-write faults, fork's clone and *)
(* its rollback when memory runs out, munmap, mprotect and teardown.       *)
(* Sources: kernel/mm/memory.c, kernel/mm/paging.c, kernel/mm/mmap.c,      *)
(* do_fork in kernel/proc/process.c, kernel/proc/shared_libc.c.            *)
(*                                                                         *)
(* System calls and faults run with interrupts masked and the threads of a *)
(* group are pinned to one core, so nothing else touches their space; other*)
(* spaces are worked on by other cores and by the shell, which spawns and  *)
(* reaps with interrupts on, and only page_lock keeps them apart.  Every   *)
(* access to shared data outside one page_lock section is a step.          *)
(*                                                                         *)
(* One table frame stands for all the tables below the PML4.              *)
(***************************************************************************)
EXTENDS Integers, FiniteSets

CONSTANTS
    Spaces,    \* processes, each with its own page directory
    Parallel,  \* how many tasks work on an address space at once: the cores and the shell
    NPages,    \* user pages of a space
    NFrames,   \* physical frames
    Libc,      \* the pages where the shared libc is mapped; frame v holds page v of it
    MaxRef,    \* where page_incref saturates (0xFF)
    Values,    \* what a page can hold
    Zero,      \* what a fresh page holds
    MmapProts, \* the protections that mmap is asked for, out of {"ro", "rw"}
    Prots      \* and mprotect

Pages  == 1..NPages
Frames == 1..NFrames

ASSUME SpacesAssumption == IsFiniteSet(Spaces)
ASSUME SizeAssumption   == NPages \in Nat \ {0} /\ NFrames \in Nat /\ MaxRef \in Nat \ {0}
ASSUME ParallelAssumption == Parallel \in Nat \ {0}
ASSUME LibcAssumption   == Libc \subseteq Pages /\ Libc \subseteq Frames
ASSUME ValueAssumption  == Zero \in Values
ASSUME ProtAssumption   == Prots \cup MmapProts \subseteq {"ro", "rw"}

VARIABLES
    free,      \* page_bitmap: the frames that alloc_page may hand out
    ref,       \* page_refcount
    content,   \* what is in each frame
    root,      \* the PML4 frame of a space, 0 without one
    tab,       \* its table frame, 0 without one
    pte,       \* pte[p][v]: the leaf entry
    prot,      \* the protection of the VMA around a page: "none", "ro" or "rw"; "gone" once
               \* unmapped (mmap never hands out a range again); for the libc, which has no
               \* VMA, "lib", and "libw" once mprotect has made it writable (history)
    pc,        \* where the kernel code that works on a space is
    page,      \* the page it works on
    hold,      \* a frame it has allocated and not mapped yet
    child      \* the space that a fork builds

allocVars == <<free, ref>>
spaceVars == <<root, tab, pte, prot>>
vars == <<allocVars, content, spaceVars, pc, page, hold, child>>

Absent == [frame |-> 0, w |-> FALSE, cow |-> FALSE]
Present(p, v) == pte[p][v].frame # 0

\* The marks of a page of the libc.
LibcProts == {"lib", "libw"}

Lowest(S) == {i \in S : \A j \in S : i <= j}
Goto(p, where) == pc' = [pc EXCEPT ![p] = where]
At(p, where) == pc[p] = where

\* A core, or the shell, is there to work on p, which is at where.
Starts(p, where) ==
    /\ At(p, where)
    /\ Cardinality({q \in Spaces : pc[q] \notin {"none", "user", "embryo"}}) < Parallel

\* The kernel code is done with p and goes on at where.
Leave(p, where) == Goto(p, where) /\ page' = [page EXCEPT ![p] = 1]

----------------------------------------------------------------------------
(* The frame allocator.                                                     *)

\* alloc_page takes the lowest free frame, f.
Allocate(f) ==
    /\ f \in Lowest(free)
    /\ free' = free \ {f}
    /\ ref' = [ref EXCEPT ![f] = 1]

\* A frame for a table (or a fresh page) is cleared.
AllocateZeroed(f) == Allocate(f) /\ content' = [content EXCEPT ![f] = Zero]

\* Mutant: the count does not stop at the top.
IncRefWraps(f) ==
    /\ ref' = [ref EXCEPT ![f] = IF @ >= 1 THEN @ + 1 ELSE @]
    /\ UNCHANGED free

\* page_incref: never on a free frame, and not past the top.
IncRef(f) ==
    /\ ref' = [ref EXCEPT ![f] = IF @ >= 1 /\ @ < MaxRef THEN @ + 1 ELSE @]
    /\ UNCHANGED free

\* Mutant: the frame goes back to the pool while others map it.
DropsTheFrame(f) ==
    /\ ref' = [ref EXCEPT ![f] = 0]
    /\ free' = free \cup {f}

\* free_page; frames with a number in Libc are pinned.
FreePage(f) ==
    /\ ref' = [ref EXCEPT ![f] = IF @ > 1 \/ (@ = 1 /\ f \notin Libc) THEN @ - 1 ELSE @]
    /\ free' = IF ref[f] = 1 /\ f \notin Libc THEN free \cup {f} ELSE free

----------------------------------------------------------------------------
(* Building a space: elf_load_image with shared_libc_map.  The program's own*)
(* segments and stack are private pages like those of mmap, left out here.  *)

SpawnBegin(q, f) ==
    /\ Starts(q, "none")
    /\ AllocateZeroed(f)
    /\ root' = [root EXCEPT ![q] = f]
    /\ page' = [page EXCEPT ![q] = 1]
    /\ Goto(q, "spawn")
    /\ UNCHANGED <<tab, pte, prot, hold, child>>

\* The next page of p that is to be mapped or copied.
NextOf(p, S) == Lowest({v \in S : v >= page[p]})

\* map_page_ro: a table if one is missing; the entry.  Without a table there is no entry ...
LibGrow(q, f) ==
    /\ At(q, "spawn")
    /\ NextOf(q, Libc) # {} /\ tab[q] = 0
    /\ tab' = [tab EXCEPT ![q] = f]
    /\ AllocateZeroed(f)
    /\ UNCHANGED <<root, pte, prot, pc, page, hold, child>>

\* Mutant: mapped like any other page, writable.
LibMapWritable(q) ==
    /\ At(q, "spawn")
    /\ \E v \in NextOf(q, Libc) :
          /\ tab[q] # 0 \/ free = {}
          /\ pte' = IF tab[q] = 0 THEN pte
                    ELSE [pte EXCEPT ![q][v] = [frame |-> v, w |-> TRUE, cow |-> FALSE]]
          /\ prot' = [prot EXCEPT ![q][v] = "lib"]
          /\ page' = [page EXCEPT ![q] = v]
    /\ Goto(q, "libRef")
    /\ UNCHANGED <<allocVars, content, root, tab, hold, child>>

LibMap(q) ==
    /\ At(q, "spawn")
    /\ \E v \in NextOf(q, Libc) :
          /\ tab[q] # 0 \/ free = {}
          /\ pte' = IF tab[q] = 0 THEN pte
                    ELSE [pte EXCEPT ![q][v] = [frame |-> v, w |-> FALSE, cow |-> FALSE]]
          /\ prot' = [prot EXCEPT ![q][v] = "lib"]
          /\ page' = [page EXCEPT ![q] = v]
    /\ Goto(q, "libRef")
    /\ UNCHANGED <<allocVars, content, root, tab, hold, child>>

\* ... and the frame gains a reference all the same.
LibRef(q) ==
    /\ At(q, "libRef")
    /\ IncRef(page[q])
    /\ page' = [page EXCEPT ![q] = @ + 1]
    /\ Goto(q, "spawn")
    /\ UNCHANGED <<content, spaceVars, hold, child>>

SpawnDone(q) ==
    /\ At(q, "spawn")
    /\ NextOf(q, Libc) = {}
    /\ Leave(q, "user")
    /\ UNCHANGED <<allocVars, content, spaceVars, hold, child>>

----------------------------------------------------------------------------
(* What a running process does to its own memory.                           *)

Write(p, v, x) ==
    /\ At(p, "user")
    /\ Present(p, v) /\ pte[p][v].w
    /\ content' = [content EXCEPT ![pte[p][v].frame] = x]
    /\ UNCHANGED <<allocVars, spaceVars, pc, page, hold, child>>

Mmap(p, v, r) ==
    /\ At(p, "user")
    /\ prot[p][v] = "none"
    /\ prot' = [prot EXCEPT ![p][v] = r]
    /\ UNCHANGED <<allocVars, content, root, tab, pte, pc, page, hold, child>>

\* vm_handle_fault, not-present fault inside a VMA.
Fault(p, v) ==
    /\ Starts(p, "user")
    /\ ~Present(p, v) /\ prot[p][v] \in {"ro", "rw"}
    /\ page' = [page EXCEPT ![p] = v]
    /\ Goto(p, "fault")
    /\ UNCHANGED <<allocVars, content, spaceVars, hold, child>>

\* pte_ptr creates what is missing of the tables.
FaultGrow(p, f) ==
    /\ At(p, "fault")
    /\ tab[p] = 0
    /\ AllocateZeroed(f)
    /\ tab' = [tab EXCEPT ![p] = f]
    /\ UNCHANGED <<root, pte, prot, pc, page, hold, child>>

FaultMap(p, f) ==
    /\ At(p, "fault")
    /\ tab[p] # 0
    /\ AllocateZeroed(f)
    /\ pte' = [pte EXCEPT ![p][page[p]] =
                  [frame |-> f, w |-> prot[p][page[p]] = "rw", cow |-> FALSE]]
    /\ Leave(p, "user")
    /\ UNCHANGED <<root, tab, prot, hold, child>>

\* No memory: SIGSEGV, unhandled or not.
FaultFails(p) ==
    /\ pc[p] \in {"fault", "cowAlloc"}
    /\ free = {}
    /\ Leave(p, "user")
    /\ UNCHANGED <<allocVars, content, spaceVars, hold, child>>

\* vm_handle_fault, a write to a copy-on-write page: the count is read without the lock.
CowFault(p, v) ==
    /\ Starts(p, "user")
    /\ Present(p, v) /\ pte[p][v].cow
    /\ page' = [page EXCEPT ![p] = v]
    /\ Goto(p, IF ref[pte[p][v].frame] <= 1 THEN "cowKeep" ELSE "cowAlloc")
    /\ UNCHANGED <<allocVars, content, spaceVars, hold, child>>

MapsWritable(p, f) ==
    pte' = [pte EXCEPT ![p][page[p]] = [frame |-> f, w |-> TRUE, cow |-> FALSE]]

\* The sole owner: written in place from now on.
CowKeep(p) ==
    /\ At(p, "cowKeep")
    /\ MapsWritable(p, pte[p][page[p]].frame)
    /\ Leave(p, "user")
    /\ UNCHANGED <<allocVars, content, root, tab, prot, hold, child>>

CowAlloc(p, f) ==
    /\ At(p, "cowAlloc")
    /\ Allocate(f)
    /\ hold' = [hold EXCEPT ![p] = f]
    /\ Goto(p, "cowCopy")
    /\ UNCHANGED <<content, spaceVars, page, child>>

CowCopy(p) ==
    /\ At(p, "cowCopy")
    /\ content' = [content EXCEPT ![hold[p]] = content[pte[p][page[p]].frame]]
    /\ Goto(p, "cowDrop")
    /\ UNCHANGED <<allocVars, spaceVars, page, hold, child>>

CowDrop(p) ==
    /\ At(p, "cowDrop")
    /\ FreePage(pte[p][page[p]].frame)
    /\ Goto(p, "cowMap")
    /\ UNCHANGED <<content, spaceVars, page, hold, child>>

CowMap(p) ==
    /\ At(p, "cowMap")
    /\ MapsWritable(p, hold[p])
    /\ hold' = [hold EXCEPT ![p] = 0]
    /\ Leave(p, "user")
    /\ UNCHANGED <<allocVars, content, root, tab, prot, child>>

\* do_munmap: the frame is freed first and the entry cleared after.
Munmap(p, v) ==
    /\ Starts(p, "user")
    /\ prot[p][v] \in {"ro", "rw"} \cup LibcProts
    /\ page' = [page EXCEPT ![p] = v]
    /\ IF Present(p, v) THEN FreePage(pte[p][v].frame) ELSE UNCHANGED allocVars
    /\ Goto(p, "unmap")
    /\ UNCHANGED <<content, spaceVars, hold, child>>

UnmapClears(p) ==
    /\ At(p, "unmap")
    /\ pte' = [pte EXCEPT ![p][page[p]] = Absent]
    /\ prot' = [prot EXCEPT ![p][page[p]] = "gone"]
    /\ Leave(p, "user")
    /\ UNCHANGED <<allocVars, content, root, tab, hold, child>>

\* What the history and the VMA say after mprotect(r): the libc is in user space like any page.
AfterMprotect(was, r) == IF was \notin LibcProts THEN r ELSE IF r = "rw" THEN "libw" ELSE was

\* Mutant: the rebuilt entry forgets that the page is copy-on-write.
MprotectDropsCow(p, v, r) ==
    /\ At(p, "user")
    /\ prot[p][v] \in {"ro", "rw"} \cup LibcProts
    /\ pte' = IF ~Present(p, v) THEN pte
              ELSE [pte EXCEPT ![p][v] = [frame |-> @.frame, w |-> r = "rw", cow |-> FALSE]]
    /\ prot' = [prot EXCEPT ![p][v] = AfterMprotect(@, r)]
    /\ UNCHANGED <<allocVars, content, root, tab, pc, page, hold, child>>

\* do_mprotect: a copy-on-write page stays one, whatever is asked for.
Mprotect(p, v, r) ==
    /\ At(p, "user")
    /\ prot[p][v] \in {"ro", "rw"} \cup LibcProts
    /\ pte' = IF ~Present(p, v) THEN pte
              ELSE [pte EXCEPT ![p][v] = [@ EXCEPT !.w = r = "rw" /\ ~pte[p][v].cow]]
    /\ prot' = [prot EXCEPT ![p][v] = AfterMprotect(@, r)]
    /\ UNCHANGED <<allocVars, content, root, tab, pc, page, hold, child>>

----------------------------------------------------------------------------
(* fork: clone_page_directory_cow, page by page.                            *)

ForkBegin(p, q, f) ==
    /\ Starts(p, "user") /\ At(q, "none")
    /\ AllocateZeroed(f)
    /\ root' = [root EXCEPT ![q] = f]
    /\ child' = [child EXCEPT ![p] = q]
    /\ page' = [page EXCEPT ![p] = 1]
    /\ pc' = [pc EXCEPT ![p] = "clone", ![q] = "embryo"]
    /\ UNCHANGED <<tab, pte, prot, hold>>

NextLeaf(p) == NextOf(p, {v \in Pages : Present(p, v)})

CloneGrow(p, f) ==
    /\ At(p, "clone")
    /\ NextLeaf(p) # {} /\ tab[child[p]] = 0
    /\ tab' = [tab EXCEPT ![child[p]] = f]
    /\ AllocateZeroed(f)
    /\ UNCHANGED <<root, pte, prot, pc, page, hold, child>>

\* Mutant: only the child's entry is made copy-on-write.
CloneSharesChildOnly(p) ==
    /\ At(p, "clone") /\ tab[child[p]] # 0
    /\ \E v \in NextLeaf(p) :
          /\ LET e == pte[p][v]
             IN  pte' = [pte EXCEPT ![child[p]][v] = [e EXCEPT !.w = FALSE, !.cow = e.w \/ e.cow]]
          /\ page' = [page EXCEPT ![p] = v]
    /\ Goto(p, "cloneRef")
    /\ UNCHANGED <<allocVars, content, root, tab, prot, hold, child>>

\* A writable page becomes copy-on-write on both sides, any other is shared as it is.
CloneShare(p) ==
    /\ At(p, "clone") /\ tab[child[p]] # 0
    /\ \E v \in NextLeaf(p) :
          /\ LET e == [pte[p][v] EXCEPT !.w = FALSE, !.cow = pte[p][v].w \/ pte[p][v].cow]
             IN  pte' = [pte EXCEPT ![p][v] = e, ![child[p]][v] = e]
          /\ page' = [page EXCEPT ![p] = v]
    /\ Goto(p, "cloneRef")
    /\ UNCHANGED <<allocVars, content, root, tab, prot, hold, child>>

CloneRef(p) ==
    /\ At(p, "cloneRef")
    /\ IncRef(pte[p][page[p]].frame)
    /\ page' = [page EXCEPT ![p] = @ + 1]
    /\ Goto(p, "clone")
    /\ UNCHANGED <<content, spaceVars, hold, child>>

\* The child inherits the VMAs and is scheduled.
ForkDone(p) ==
    /\ At(p, "clone") /\ NextLeaf(p) = {}
    /\ prot' = [prot EXCEPT ![child[p]] = prot[p]]
    /\ pc' = [pc EXCEPT ![p] = "user", ![child[p]] = "user"]
    /\ page' = [page EXCEPT ![p] = 1]
    /\ child' = [child EXCEPT ![p] = p]
    /\ UNCHANGED <<allocVars, content, root, tab, pte, hold>>

\* Out of frames for the tables of another page, or of kernel heap for the process_t and its stack: the space
\* built so far is freed.
ForkFails(p) ==
    /\ At(p, "clone")
    /\ NextLeaf(p) # {} => free = {}
    /\ pc' = [pc EXCEPT ![p] = "unfork", ![child[p]] = "dying"]
    /\ page' = [page EXCEPT ![p] = 1]
    /\ UNCHANGED <<allocVars, content, spaceVars, hold, child>>

ForkUndone(p) ==
    /\ At(p, "unfork") /\ At(child[p], "none")
    /\ Goto(p, "user")
    /\ child' = [child EXCEPT ![p] = p]
    /\ UNCHANGED <<allocVars, content, spaceVars, page, hold>>

----------------------------------------------------------------------------
(* free_page_directory: by the reaper for a process that exited, and by fork*)
(* for a space it could not finish.                                         *)

Exit(p) ==
    /\ Starts(p, "user")
    /\ Goto(p, "dying")
    /\ UNCHANGED <<allocVars, content, spaceVars, page, hold, child>>

FreeLeaf(q) ==
    /\ At(q, "dying")
    /\ \E v \in Lowest({v \in Pages : Present(q, v)}) :
          /\ FreePage(pte[q][v].frame)
          /\ pte' = [pte EXCEPT ![q][v] = Absent]
    /\ UNCHANGED <<content, root, tab, prot, pc, page, hold, child>>

FreeTable(q) ==
    /\ At(q, "dying")
    /\ \A v \in Pages : ~Present(q, v)
    /\ tab[q] # 0 /\ FreePage(tab[q])
    /\ tab' = [tab EXCEPT ![q] = 0]
    /\ UNCHANGED <<content, root, pte, prot, pc, page, hold, child>>

FreeRoot(q) ==
    /\ At(q, "dying")
    /\ \A v \in Pages : ~Present(q, v)
    /\ tab[q] = 0 /\ FreePage(root[q])
    /\ root' = [root EXCEPT ![q] = 0]
    /\ prot' = [prot EXCEPT ![q] = [v \in Pages |-> "none"]]
    /\ Goto(q, "none")
    /\ UNCHANGED <<content, tab, pte, page, hold, child>>

----------------------------------------------------------------------------
Init ==
    /\ free = Frames \ Libc
    /\ ref = [f \in Frames |-> IF f \in Libc THEN 1 ELSE 0]
    /\ content = [f \in Frames |-> Zero]
    /\ root = [p \in Spaces |-> 0]
    /\ tab = [p \in Spaces |-> 0]
    /\ pte = [p \in Spaces |-> [v \in Pages |-> Absent]]
    /\ prot = [p \in Spaces |-> [v \in Pages |-> "none"]]
    /\ pc = [p \in Spaces |-> "none"]
    /\ page = [p \in Spaces |-> 1]
    /\ hold = [p \in Spaces |-> 0]
    /\ child = [p \in Spaces |-> p]

UserStep(p) ==
    \/ Exit(p)
    \/ \E v \in Pages : Fault(p, v) \/ CowFault(p, v) \/ Munmap(p, v)
    \/ \E v \in Pages, x \in Values : Write(p, v, x)
    \/ \E v \in Pages, r \in MmapProts : Mmap(p, v, r)
    \/ \E v \in Pages, r \in Prots : Mprotect(p, v, r)
    \/ \E q \in Spaces, f \in Frames : ForkBegin(p, q, f)

SpawnStep(p) == LibMap(p) \/ LibRef(p) \/ SpawnDone(p) \/ \E f \in Frames : LibGrow(p, f)
FaultStep(p) == FaultFails(p) \/ \E f \in Frames : FaultGrow(p, f) \/ FaultMap(p, f)
CowStep(p) == CowKeep(p) \/ CowCopy(p) \/ CowDrop(p) \/ CowMap(p) \/ \E f \in Frames : CowAlloc(p, f)
ForkStep(p) == CloneShare(p) \/ CloneRef(p) \/ ForkDone(p) \/ ForkFails(p) \/ ForkUndone(p)
               \/ \E f \in Frames : CloneGrow(p, f)
FreeStep(p) == FreeLeaf(p) \/ FreeTable(p) \/ FreeRoot(p)

Next ==
    \/ \E p \in Spaces, f \in Frames : SpawnBegin(p, f)
    \/ \E p \in Spaces : UserStep(p) \/ SpawnStep(p) \/ FaultStep(p) \/ CowStep(p)
                         \/ UnmapClears(p) \/ ForkStep(p) \/ FreeStep(p)

Spec == Init /\ [][Next]_vars
=============================================================================
