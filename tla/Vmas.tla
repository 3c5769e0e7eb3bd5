-------------------------------- MODULE Vmas --------------------------------
(***************************************************************************)
(* The table of mmap regions of a thread group: mmap, munmap, mprotect,    *)
(* what fork, clone and execve do to it, and its hand-over when the task   *)
(* that owns it is freed.                                                  *)
(* Sources: kernel/mm/mmap.c; do_fork, do_clone, do_execve, tg_leader,     *)
(* tg_reassign_leader and reap_user_process in kernel/proc/process.c.      *)
(*                                                                         *)
(* A table is the set of its regions: no code depends on the slot that a   *)
(* region sits in.  Addresses are pages counted from MMAP_BASE, so NPages  *)
(* stands for MMAP_MAX.  System calls run with interrupts masked and the   *)
(* tasks of a group are pinned to one core, so each call is a step.  Calls *)
(* that are refused, or meet no region, change nothing and are left out.   *)
(***************************************************************************)
EXTENDS Integers, FiniteSets

CONSTANTS
    Tasks,       \* the pids that are handed out, in order
    NPages,      \* pages between MMAP_BASE and MMAP_MAX
    MaxVmas,     \* PROC_MAX_VMAS
    Prots,       \* protections
    NewProts,    \* those that mmap is asked for
    Buffers,     \* what the kernel heap has for snapshots of files
    GroupCalls,  \* of "fork" and "execve", those made in a group of several tasks
    MaxCalls     \* bound: calls in a behaviour

Addresses == 0..NPages
NoBuffer  == 0

ASSUME PagesAssumption   == NPages \in Nat
\* PageMap calls a page without a region "unmapped".
ASSUME ProtsAssumption   == NewProts \subseteq Prots /\ "unmapped" \notin Prots
ASSUME TasksAssumption   == Tasks \subseteq Nat \ {0}
ASSUME BuffersAssumption == Buffers \subseteq Nat \ {NoBuffer}

Regions == [start : Addresses, end : Addresses, prot : Prots, buf : Buffers \cup {NoBuffer}]

VARIABLES
    alive,     \* the tasks in the process table
    unborn,    \* the pids that are still to come
    tgid,      \* the task that a thread was told leads its group, 0 for none
    space,     \* the address space of a task, named by a pid
    table,     \* mmap_vmas
    top,       \* mmap_next
    taken,     \* for a snapshot buffer, the page it was taken for; -1 while it is free
    leaked,    \* buffers that nobody frees any more
    calls,     \* how many were made
    asked      \* what the last call asked for, of which space

taskVars == <<alive, unborn, tgid, space>>
heapVars == <<taken, leaked>>
vmaVars  == <<taskVars, heapVars, table, top, calls, asked>>

\* What a call asks: op on the pages of [a, b) of space s, to have protection prot.
Ask(op, s, a, b, prot) ==
    asked' = [op |-> op, space |-> s, from |-> a, to |-> b, prot |-> prot]
AskNothing(p) == Ask("none", space[p], 0, 0, "none")

\* tg_leader
Leader(p) == IF tgid[p] \in alive THEN tgid[p] ELSE p

\* The tasks that reach the table that p reaches.
Group(p) == {q \in alive : Leader(q) = Leader(p)}

FreeBuffers == {b \in Buffers : taken[b] = -1}
BuffersOf(vs) == {v.buf : v \in vs} \ {NoBuffer}

\* kfree of the snapshots in bs.
Freed(bs) == [b \in Buffers |-> IF b \in bs THEN -1 ELSE taken[b]]

VmaInit ==
    \E p \in Tasks :
       /\ \A q \in Tasks : p <= q
       /\ alive = {p} /\ unborn = Tasks \ {p}
       /\ tgid = [q \in Tasks |-> 0]
       /\ space = [q \in Tasks |-> q]
       /\ table = [q \in Tasks |-> {}]
       /\ top = [q \in Tasks |-> 0]
       /\ taken = [b \in Buffers |-> -1]
       /\ leaked = {}
       /\ calls = 0
       /\ asked = [op |-> "none", space |-> p, from |-> 0, to |-> 0, prot |-> "none"]

----------------------------------------------------------------------------
(* The calls that change the regions of the caller's group.                 *)

Counted == calls < MaxCalls /\ calls' = calls + 1

\* do_mmap of len pages: the range follows every earlier one.  A file is copied into a buffer.
Mmap(p, len, prot, buf) ==
    LET g == Leader(p)
    IN  /\ Counted
        /\ Ask("mmap", space[p], top[g], top[g] + len, prot)
        /\ Cardinality(table[g]) < MaxVmas
        /\ top[g] + len <= NPages
        /\ table' = [table EXCEPT ![g] = @ \cup
                        {[start |-> top[g], end |-> top[g] + len, prot |-> prot, buf |-> buf]}]
        /\ top' = [top EXCEPT ![g] = @ + len]
        /\ taken' = [b \in Buffers |-> IF b = buf THEN top[g] ELSE taken[b]]
        /\ UNCHANGED <<taskVars, leaked>>

Overlaps(v, a, b) == v.start < b /\ v.end > a

\* What is left of v on either side of [a, b).
Before(v, a) == IF v.start < a THEN {[v EXCEPT !.end = a]} ELSE {}
After(v, b) == IF v.end > b THEN {[v EXCEPT !.start = b]} ELSE {}

\* Mutant: a partial unmap leaves the record alone, as it did before the region was split.
OutsideUnsplit(v, a, b) == IF v.start >= a /\ v.end <= b THEN {} ELSE {v}

Outside(v, a, b) == IF Overlaps(v, a, b) THEN Before(v, a) \cup After(v, b) ELSE {v}

\* A snapshot is indexed from the start of its region, which must not move.
Unmappable(vs, a, b) == \A v \in vs : v.buf # NoBuffer /\ Overlaps(v, a, b) => v.end <= b

\* do_munmap of [a, b).  The pieces need slots.
Munmap(p, a, b) ==
    LET g    == Leader(p)
        kept == UNION {Outside(v, a, b) : v \in table[g]}
    IN  /\ Counted
        /\ Ask("munmap", space[p], a, b, "none")
        /\ kept # table[g]
        /\ Unmappable(table[g], a, b)
        /\ Cardinality(kept) <= MaxVmas
        /\ table' = [table EXCEPT ![g] = kept]
        /\ taken' = Freed(BuffersOf(table[g]) \ BuffersOf(kept))
        /\ UNCHANGED <<taskVars, top, leaked>>

Larger(i, j) == IF i < j THEN j ELSE i
Smaller(i, j) == IF i < j THEN i ELSE j

\* The part of v in [a, b).
Inside(v, a, b) == [v EXCEPT !.start = Larger(@, a), !.end = Smaller(@, b)]

Split(v, a, b, prot) == Before(v, a) \cup After(v, b) \cup {[Inside(v, a, b) EXCEPT !.prot = prot]}

\* do_mprotect of [a, b); a snapshot is not split.
Mprotect(p, a, b, prot) ==
    LET g    == Leader(p)
        over == {v \in table[g] : Overlaps(v, a, b)}
        new  == (table[g] \ over) \cup UNION {Split(v, a, b, prot) : v \in over}
    IN  /\ Counted
        /\ Ask("mprotect", space[p], a, b, prot)
        /\ new # table[g]
        /\ \A v \in over : v.buf # NoBuffer => v.start >= a /\ v.end <= b
        /\ Cardinality(new) <= MaxVmas
        /\ table' = [table EXCEPT ![g] = new]
        /\ UNCHANGED <<taskVars, heapVars, top>>

----------------------------------------------------------------------------
(* The calls that make and replace tasks.                                   *)

\* The next pid.
Born(t) == t \in unborn /\ \A q \in unborn : t <= q

\* A name for a new space while the tasks of who have theirs.
Unused(who) ==
    LET names == Tasks \ {space[q] : q \in who}
    IN  {s \in names : \A r \in names : s <= r}

\* The task of a group that has only it, or one that may call anyway.
MayCall(p, call) ==
    \/ Group(p) = {p}
    \/ call \in GroupCalls
    \/ call = "fork" /\ Leader(p) = p

\* Mutant: the child gets the parent's snapshots themselves.
SharedSnapshots(p, copies) ==
    /\ copies = [b \in BuffersOf(table[p]) |-> b]

\* For each snapshot of p, a buffer for the child's copy, or none when memory is short.
Copies(p, copies) ==
    /\ \A b \in DOMAIN copies : copies[b] \in FreeBuffers \cup {NoBuffer}
    /\ \A b, c \in DOMAIN copies : copies[b] = copies[c] => b = c \/ copies[b] = NoBuffer

\* The buffers that hold the copies.
Copied(copies) == {copies[b] : b \in DOMAIN copies} \ {NoBuffer}

Filled(copies) ==
    [c \in Buffers |-> IF c \in Copied(copies)
                       THEN CHOOSE at \in Addresses :
                               \E b \in DOMAIN copies : copies[b] = c /\ taken[b] = at
                       ELSE taken[c]]

\* do_fork: the child gets its own copies; p's own table is read, not that of its group.
Fork(p, t, s, copies) ==
    /\ MayCall(p, "fork") /\ Counted
    /\ Born(t) /\ Copies(p, copies) /\ s \in Unused(alive)
    /\ alive' = alive \cup {t} /\ unborn' = unborn \ {t}
    /\ space' = [space EXCEPT ![t] = s]
    /\ table' = [table EXCEPT ![t] =
                    {[v EXCEPT !.buf = IF @ = NoBuffer THEN @ ELSE copies[@]] : v \in table[p]}]
    /\ top' = [top EXCEPT ![t] = top[p]]
    /\ taken' = Filled(copies)
    /\ Ask("copy", s, space[p], space[p], "none")
    /\ UNCHANGED <<tgid, leaked>>

\* ... and when there is no memory for its stack: the pid is used up, the copies stay behind.
ForkFails(p, t, copies) ==
    /\ MayCall(p, "fork") /\ Counted
    /\ Born(t) /\ Copies(p, copies)
    /\ unborn' = unborn \ {t}
    /\ taken' = Filled(copies)
    /\ leaked' = leaked \cup Copied(copies)
    /\ AskNothing(p)
    /\ UNCHANGED <<alive, tgid, space, table, top>>

Unbacked(vs) == {[v EXCEPT !.buf = NoBuffer] : v \in vs}

\* do_clone: t joins the group and the space of p, and owns no snapshot.
Clone(p, t) ==
    /\ Counted /\ Born(t)
    /\ alive' = alive \cup {t} /\ unborn' = unborn \ {t}
    /\ tgid' = [tgid EXCEPT ![t] = Leader(p)]
    /\ space' = [space EXCEPT ![t] = space[p]]
    /\ table' = [table EXCEPT ![t] = Unbacked(table[p])]
    /\ top' = [top EXCEPT ![t] = top[p]]
    /\ AskNothing(p)
    /\ UNCHANGED heapVars

\* free_page_directory, by the last task that leaves its space.
LeaveSpace(p) ==
    IF \E q \in alive \ {p} : space[q] = space[p]      \* addr_space_shared
    THEN AskNothing(p)
    ELSE Ask("free", space[p], 0, NPages, "none")

\* do_execve: a new space and an empty table.
Execve(p, s) ==
    /\ MayCall(p, "execve") /\ Counted
    /\ s \in Unused(alive \ {p})
    /\ space' = [space EXCEPT ![p] = s]
    /\ taken' = Freed(BuffersOf(table[p]))
    /\ table' = [table EXCEPT ![p] = {}]
    /\ top' = [top EXCEPT ![p] = 0]
    /\ LeaveSpace(p)
    /\ UNCHANGED <<alive, unborn, tgid, leaked>>

\* Mutant: the heir goes on from its own mmap_next.
HandOverRecords(p, h) ==
    /\ table' = [table EXCEPT ![h] = table[p], ![p] = {}]
    /\ top' = [top EXCEPT ![p] = 0]
    /\ tgid' = [q \in Tasks |-> IF q = h THEN 0 ELSE IF tgid[q] = p THEN h ELSE tgid[q]]
    /\ UNCHANGED taken

\* tg_reassign_leader: h leads the group of p now.
HandOver(p, h) ==
    /\ table' = [table EXCEPT ![h] = table[p], ![p] = {}]
    /\ top' = [top EXCEPT ![h] = top[p], ![p] = 0]
    /\ tgid' = [q \in Tasks |-> IF q = h THEN 0 ELSE IF tgid[q] = p THEN h ELSE tgid[q]]
    /\ UNCHANGED taken

\* mmap_free_bufs, when there is nobody to inherit.
DropTable(p) ==
    /\ table' = [table EXCEPT ![p] = {}]
    /\ top' = [top EXCEPT ![p] = 0]
    /\ tgid' = [tgid EXCEPT ![p] = 0]
    /\ taken' = Freed(BuffersOf(table[p]))

\* reap_user_process of p; what the record of the task said is freed with it.
Reap(p) ==
    /\ alive' = alive \ {p}
    /\ LET heirs == {q \in alive \ {p} : tgid[q] = p}
       IN  \/ \E h \in heirs : HandOver(p, h)
           \/ heirs = {} /\ DropTable(p)
    /\ space' = [space EXCEPT ![p] = p]
    /\ LeaveSpace(p)
    /\ UNCHANGED <<unborn, leaked, calls>>

VmaNext ==
    \E p \in alive :
       \/ \E len \in Addresses \ {0}, prot \in NewProts :
             \/ Mmap(p, len, prot, NoBuffer)
             \/ \E b \in FreeBuffers :
                   (\A c \in FreeBuffers : b <= c) /\ Mmap(p, len, prot, b)
       \/ \E a, b \in Addresses :
             /\ a < b
             /\ Munmap(p, a, b) \/ \E prot \in Prots : Mprotect(p, a, b, prot)
       \/ \E t \in unborn :
             \/ \E copies \in [BuffersOf(table[p]) -> Buffers \cup {NoBuffer}] :
                   (\E s \in Tasks : Fork(p, t, s, copies)) \/ ForkFails(p, t, copies)
             \/ Clone(p, t)
       \/ \E s \in Tasks : Execve(p, s)
       \/ Reap(p)

VmaSpec == VmaInit /\ [][VmaNext]_vmaVars
=============================================================================
