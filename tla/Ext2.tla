-------------------------------- MODULE Ext2 --------------------------------
(***************************************************************************)
(* The ext2 driver: creating, writing and removing files and directories,  *)
(* as the sequence of writes of blocks that each of them is, and a crash   *)
(* between any two, or within one.                                         *)
(* Source: kernel/fs/ext2.c.                                               *)
(*                                                                         *)
(* Operations run one at a time under ext2_lock, so what an operation will *)
(* write is settled when it starts: todo holds the disk after each of the  *)
(* writes that are still to come.  The sector cache writes through.  A     *)
(* block goes to the disk sector by sector, which matters to one kind of   *)
(* write only: an inode, a bit of a bitmap, a pointer and the number that  *)
(* removes an entry lie in one sector each, and a new block is not yet     *)
(* anyone's, but an entry that comes into a block of a directory may lie   *)
(* across two (CrashInside).                                               *)
(*                                                                         *)
(* The model has one block group; it leaves out what file blocks hold,     *)
(* the counters of the group descriptor and of free inodes, times, and     *)
(* files that need a doubly-indirect block.  Directories are made in the   *)
(* root.                                                                   *)
(***************************************************************************)
EXTENDS Integers, FiniteSets, SequencesExt

CONSTANTS
    Names,        \* the names of directory entries
    NInodes,      \* inodes_per_group
    NBlocks,      \* total_blocks
    NDirect,      \* the direct blocks of an inode, 12
    PerIndirect,  \* block_size / 4
    PerDirBlock,  \* directory entries that fit in an undamaged block
    MaxOps,       \* bound: operations in a behaviour
    MaxCrashes    \* bound: crashes in a behaviour

Root       == 2       \* EXT2_ROOT_INO
Inodes     == Root..NInodes
Blocks     == 1..NBlocks
None       == 0
LinkWidth  == 65536   \* links_count has 16 bits
BitmapBits == 32768   \* a bitmap is a block, of at most 4096 bytes (ext2_mount)

ASSUME GroupAssumption    == NInodes \in Root..BitmapBits /\ NBlocks \in Nat \ {0}
ASSUME PointersAssumption == NDirect \in Nat \ {0} /\ PerIndirect \in Nat /\ PerDirBlock \in Nat
ASSUME BoundsAssumption   == MaxOps \in Nat /\ MaxCrashes \in Nat

VARIABLES
    disk,      \* what is on the disk, and mem, the free_blocks of ext2_fs.sb
    todo,      \* the disks after each of the writes to come
    ops,       \* operations left
    crashes    \* crashes left

fsVars == <<disk, todo, ops, crashes>>

NoPointers == [k \in 1..(NDirect + 1) |-> None]
Blank      == [ents |-> [n \in Names |-> None], room |-> PerDirBlock,
               ptr  |-> [k \in 1..PerIndirect |-> None]]

NewFile   == [kind |-> "file", links |-> 1, size |-> 0, ptr |-> NoPointers]
NewDir(b) == [kind |-> "dir", links |-> 2, size |-> 1, ptr |-> [NoPointers EXCEPT ![1] = b]]
Unwritten == [kind |-> "none", links |-> 0, size |-> 0, ptr |-> NoPointers]

\* The inode that was n, with neither links nor blocks.
Erased(n) == [Unwritten EXCEPT !.kind = n.kind]

FsInit ==
    /\ disk = [iuse  |-> {Root}, buse |-> {1},
               inode |-> [i \in Inodes |-> IF i = Root THEN NewDir(1) ELSE Unwritten],
               block |-> [b \in Blocks |-> Blank],
               sb    |-> NBlocks - 1, mem |-> NBlocks - 1]
    /\ todo = <<>>
    /\ ops = MaxOps /\ crashes = MaxCrashes

----------------------------------------------------------------------------
(* A log is the sequence of the disks so far, the last being the present.  *)

Wrote(log, d) == Append(log, d)

WriteInode(log, i, n) == Wrote(log, [Last(log) EXCEPT !.inode[i] = n])

\* ext2_sync_superblock.
SyncSuperblock(log) == Wrote(log, [Last(log) EXCEPT !.sb = Last(log).mem])

\* find_free_bit.
FirstFree(all, used) == IF all \subseteq used THEN None ELSE Min(all \ used)

NextBlock(log) == FirstFree(Blocks, Last(log).buse)
NextInode(log) == FirstFree(Inodes, Last(log).iuse)

\* Mutant: the free count is not looked at first.
SpentBlindly(free) == free - 1

Spent(free) == IF free > 0 THEN free - 1 ELSE 0

\* ext2_alloc_block of NextBlock: its bit is set, then it is cleared.
AllocBlock(log) ==
    LET b == NextBlock(log)
        d == [Last(log) EXCEPT !.buse = @ \cup {b}, !.mem = Spent(@)]
    IN  IF b = None THEN log ELSE log \o <<d, [d EXCEPT !.block[b] = Blank]>>

AllocInode(log) == Wrote(log, [Last(log) EXCEPT !.iuse = @ \cup {NextInode(log)}])

\* ext2_free_block.
FreeBlock(log, b) ==
    IF b \notin Last(log).buse THEN log
    ELSE Wrote(log, [Last(log) EXCEPT !.buse = @ \ {b}, !.mem = @ + 1])

\* ext2_free_inode.
FreeInode(log, i) == Wrote(log, [Last(log) EXCEPT !.iuse = @ \ {i}])

\* The places of an inode: the blocks of the file in their order, and the indirect block.
FileBlocks == NDirect + PerIndirect
Indirect   == FileBlocks + 1
Places     == 1..Indirect

\* What inode n has there, None if nothing.
BlockAt(d, n, x) ==
    LET indirect == n.ptr[NDirect + 1]
    IN  IF x <= NDirect THEN n.ptr[x]
        ELSE IF x = Indirect \/ indirect = None THEN indirect
        ELSE d.block[indirect].ptr[x - NDirect]

\* free_inode_blocks.
FreeBlocksOf(log, n) ==
    LET FreeAt(got, x) == FreeBlock(got, BlockAt(Last(log), n, x))
    IN  FoldLeft(FreeAt, log, [x \in Places |-> x])

----------------------------------------------------------------------------
(* Directories.                                                             *)

\* The blocks of directory p.
DirBlocks(d, p) == {d.inode[p].ptr[k] : k \in 1..d.inode[p].size} \ {None}

Lookup(d, p, name) ==
    LET found == {d.block[b].ents[name] : b \in DirBlocks(d, p)} \ {None}
    IN  IF found = {} THEN None ELSE Min(found)

\* The directories, by the name that leads there from the root.
Dirs(d) ==
    {Root} \cup {i \in {Lookup(d, Root, n) : n \in Names} \ {None} : d.inode[i].kind = "dir"}

\* Mutant: some names do not count, as when only the length of a name was looked at.
EmptyButForOne(d, i) == \E a \in Names : \A n \in Names \ {a} : Lookup(d, i, n) = None

EmptyDir(d, i) == \A n \in Names : Lookup(d, i, n) = None

HasRoom(d, b) == Cardinality({n \in Names : d.block[b].ents[n] # None}) < d.block[b].room

\* Which of the blocks of p takes the next entry; one more than there are when all are full.
EntryBlock(d, p) ==
    Min({k \in 1..d.inode[p].size : HasRoom(d, d.inode[p].ptr[k])} \cup {d.inode[p].size + 1})

CanAddDirent(log, p) ==
    LET d == Last(log)
        k == EntryBlock(d, p)
    IN  k <= d.inode[p].size \/ (k <= NDirect /\ NextBlock(log) # None)

\* add_dirent_to_parent: in a block that has room, or in a new block.
AddDirent(log, p, name, i) ==
    LET n == Last(log).inode[p]
        k == EntryBlock(Last(log), p)
    IN  IF k <= n.size
        THEN WriteInode(Wrote(log, [Last(log) EXCEPT !.block[n.ptr[k]].ents[name] = i]), p, n)
        ELSE LET b   == NextBlock(log)
                 got == AllocBlock(log)
             IN  WriteInode(Wrote(got, [Last(got) EXCEPT !.block[b].ents[name] = i]), p,
                            [n EXCEPT !.ptr[k] = b, !.size = k])

\* ... and links more to it.
AddLinks(log, p, links) ==
    LET n == Last(log).inode[p]
    IN  WriteInode(log, p, [n EXCEPT !.links = (@ + links) % LinkWidth])

RemoveDirent(log, p, name) ==
    LET d == Last(log)
        b == CHOOSE c \in DirBlocks(d, p) : d.block[c].ents[name] # None
    IN  Wrote(log, [d EXCEPT !.block[b].ents[name] = None])

----------------------------------------------------------------------------
(* The operations.                                                          *)

\* The operation writes log, of which the first disk is the present one.
Begin(log) ==
    /\ todo = <<>> /\ ops > 0 /\ Len(log) > 1
    /\ todo' = Tail(log) /\ ops' = ops - 1
    /\ UNCHANGED <<disk, crashes>>

\* ext2_create_file.
CreateFile(p, name) ==
    LET i   == NextInode(<<disk>>)
        log == WriteInode(AllocInode(<<disk>>), i, NewFile)
    IN  /\ Lookup(disk, p, name) = None /\ i # None
        /\ Begin(IF CanAddDirent(log, p)
                 THEN SyncSuperblock(AddDirent(log, p, name, i))
                 ELSE FreeInode(log, i))

\* ext2_mkdir.
Mkdir(name) ==
    LET i    == NextInode(<<disk>>)
        log  == AllocInode(<<disk>>)
        b    == NextBlock(log)
        made == WriteInode(AllocBlock(log), i, NewDir(b))
    IN  /\ Lookup(disk, Root, name) = None /\ i # None
        /\ Begin(IF b = None THEN FreeInode(log, i)
                 ELSE IF CanAddDirent(made, Root)
                 THEN SyncSuperblock(AddLinks(AddDirent(made, Root, name, i), Root, 1))
                 ELSE FreeInode(FreeBlock(made, b), i))

\* Inode i, which is n, goes with its blocks.
DropInode(log, i, n) == FreeInode(WriteInode(FreeBlocksOf(log, n), i, Erased(n)), i)

\* Mutant: the inode and its blocks are given back before the name is gone.
RemoveDeadFirst(p, name, i) == RemoveDirent(DropInode(<<disk>>, i, disk.inode[i]), p, name)

\* The name goes, and with it the file that has no other.
RemoveDead(p, name, i) == DropInode(RemoveDirent(<<disk>>, p, name), i, disk.inode[i])

\* ext2_unlink.  A directory has a second link, its own, that nothing takes away.
Unlink(p, name) ==
    LET i     == Lookup(disk, p, name)
        isDir == disk.inode[i].kind = "dir"
        gone  == IF disk.inode[i].links = 1 THEN RemoveDead(p, name, i)
                 ELSE AddLinks(RemoveDirent(<<disk>>, p, name), i, -1)
    IN  /\ i # None /\ (isDir => EmptyDir(disk, i))
        /\ Begin(SyncSuperblock(AddLinks(gone, p, IF isDir THEN -1 ELSE 0)))

\* The places that a file of len blocks needs, and how many of them are empty.
Needed(len)     == 1..len \cup (IF len > NDirect THEN {Indirect} ELSE {})
Lacking(n, len) == Cardinality({x \in Needed(len) : BlockAt(disk, n, x) = None})

\* Whether ext2_write_file starts at all.
Fits(n, len) == Lacking(n, len) <= disk.mem

\* In w, the log, the inode in memory, and whether all went well so far: its k-th pointer is set.
Point(w, k) ==
    IF ~w.ok \/ w.n.ptr[k] # None THEN w
    ELSE [w EXCEPT !.ok = NextBlock(w.log) # None, !.log = AllocBlock(w.log),
                   !.n.ptr[k] = NextBlock(w.log)]

\* The same for the k-th entry of the indirect block, which is written at once.
PointIndirect(w, k) ==
    LET i   == w.n.ptr[NDirect + 1]
        b   == NextBlock(w.log)
        got == AllocBlock(w.log)
    IN  IF ~w.ok \/ Last(w.log).block[i].ptr[k] # None THEN w
        ELSE IF b = None THEN [w EXCEPT !.ok = FALSE]
        ELSE [w EXCEPT !.log = Wrote(got, [Last(got) EXCEPT !.block[i].ptr[k] = b])]

MapBlock(w, k) ==
    IF k <= NDirect THEN Point(w, k) ELSE PointIndirect(Point(w, NDirect + 1), k - NDirect)

MapBlocks(w, len) == FoldLeft(MapBlock, w, [k \in 1..len |-> k])

\* ext2_write_file of len blocks into a file that is there; a shorter one keeps its blocks.
WriteFile(p, name, len) ==
    LET i == Lookup(disk, p, name)
        w == MapBlocks([log |-> <<disk>>, n |-> disk.inode[i], ok |-> TRUE], len)
    IN  /\ i # None /\ disk.inode[i].kind = "file"
        /\ Fits(disk.inode[i], len)
        /\ Begin(IF w.ok THEN SyncSuperblock(WriteInode(w.log, i, [w.n EXCEPT !.size = len]))
                 ELSE w.log)

\* One write reaches the disk.
DiskWrite ==
    /\ todo # <<>>
    /\ disk' = Head(todo) /\ todo' = Tail(todo)
    /\ UNCHANGED <<ops, crashes>>

\* The machine stops with d on the disk, and the disk is mounted again as it is.
Stop(d) ==
    /\ crashes > 0 /\ crashes' = crashes - 1
    /\ disk' = [d EXCEPT !.mem = d.sb] /\ todo' = <<>>
    /\ UNCHANGED ops

\* It stops between two writes.
Crash == Stop(disk)

\* Block was with room for r entries, of which only those kept are seen.
CutOff(was, kept, r) ==
    [was EXCEPT !.ents = [n \in Names |-> IF n \in kept THEN was.ents[n] ELSE None], !.room = r]

\* What is in block was when only the first sectors of an entry for i have got there.  The slot
\* of a removed entry has its inode, but still all or a part of the name it had; or the entry
\* before was shortened and the new one is not there yet, so that the scan stops at its zero
\* rec_len, sees none of those behind, and finds less room.
Torn(was, i, free) ==
    {[was EXCEPT !.ents[a] = i] : a \in free} \cup
    {CutOff(was, kept, r) : kept \in SUBSET Names, r \in 0..was.room}

\* The names that directory p does not have.
FreeNames(p) == {a \in Names : Lookup(disk, p, a) = None}

\* It stops within a write, the one that gives directory p an entry for i.  That a removed entry
\* comes back under a name that p has elsewhere is left out.
CrashInside ==
    /\ todo # <<>>
    /\ \E p \in Dirs(disk), i \in Inodes : \E b \in DirBlocks(disk, p), name \in FreeNames(p) :
          /\ Head(todo) = [disk EXCEPT !.block[b].ents[name] = i]
          /\ \E c \in Torn(disk.block[b], i, FreeNames(p)) : Stop([disk EXCEPT !.block[b] = c])

FsNext ==
    \/ DiskWrite \/ Crash \/ CrashInside
    \/ \E name \in Names :
          \/ Mkdir(name)
          \/ \E p \in Dirs(disk) :
                \/ CreateFile(p, name) \/ Unlink(p, name)
                \/ \E len \in 0..FileBlocks : WriteFile(p, name, len)

FsSpec == FsInit /\ [][FsNext]_fsVars
=============================================================================
