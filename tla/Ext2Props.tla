----------------------------- MODULE Ext2Props ------------------------------
(***************************************************************************)
(* What the ext2 driver has to guarantee, at every point where the machine *)
(* may stop.                                                               *)
(***************************************************************************)
EXTENDS Ext2

DiskInodes == [kind : {"none", "file", "dir"}, links : 0..(LinkWidth - 1), size : 0..FileBlocks,
               ptr : [1..(NDirect + 1) -> Blocks \cup {None}]]
DiskBlocks == [ents : [Names -> Inodes \cup {None}], room : 0..PerDirBlock,
               ptr  : [1..PerIndirect -> Blocks \cup {None}]]

\* The types of the variables.
FsTypeOK ==
    /\ disk.iuse \subseteq Inodes /\ disk.buse \subseteq Blocks
    /\ \A i \in Inodes : disk.inode[i] \in DiskInodes
    /\ \A b \in Blocks : disk.block[b] \in DiskBlocks
    /\ disk.sb \in Nat /\ disk.mem \in Nat
    /\ ops \in 0..MaxOps /\ crashes \in 0..MaxCrashes

\* The files and directories that a path leads to.
Reach(d) == Dirs(d) \cup ({Lookup(d, p, n) : p \in Dirs(d), n \in Names} \ {None})

OwnBlock(d, i, x) == BlockAt(d, d.inode[i], x)

\* Whatever a path leads to is marked as used, inode and blocks, was written before its name was,
\* and no block is in two places: so after every write, hence after a crash at any point, the
\* allocator never hands out what a file holds.  The links of the root are left out: a crash
\* between the entry of a directory and its link loses one for good.
ReachableIsAllocated ==
    \A i \in Reach(disk) :
       /\ i \in disk.iuse /\ disk.inode[i].kind # "none" /\ (i # Root => disk.inode[i].links > 0)
       /\ \A x \in Places : LET b == OwnBlock(disk, i, x)
                           IN  b # None =>
                                 /\ b \in disk.buse
                                 /\ \A j \in Reach(disk), y \in Places :
                                       OwnBlock(disk, j, y) = b => j = i /\ y = x

\* The directories that were removed: one link, which nothing counts down, keeps them for ever.
Strays == {i \in disk.iuse \ Reach(disk) : disk.inode[i].kind = "dir" /\ disk.inode[i].links = 1}

\* While the machine has not crashed no operation loses anything, the ones that fail half way
\* included: between operations an inode in use is reachable or a removed directory, a block in
\* use belongs to one of those, the free count is that of the bitmap, and the root has a link
\* for each directory.
NothingLost ==
    crashes = MaxCrashes /\ todo = <<>> =>
    /\ disk.iuse = Reach(disk) \cup Strays
    /\ disk.buse = {OwnBlock(disk, i, x) : i \in disk.iuse, x \in Places} \ {None}
    /\ disk.mem = Cardinality(Blocks \ disk.buse)
    /\ disk.inode[Root].links = 1 + Cardinality(Dirs(disk))

\* The bitmaps cover what is reachable after every single write, and between operations nothing
\* else as long as the machine has not crashed.
BitmapsExact == ReachableIsAllocated /\ NothingLost

\* What a path leads to.
Shown(d, i) == IF i = None THEN [kind |-> "none", size |-> 0]
               ELSE [kind |-> d.inode[i].kind,
                     size |-> IF d.inode[i].kind = "file" THEN d.inode[i].size ELSE 0]

TreeOf(d) ==
    [path \in {<<a>> : a \in Names} \cup {<<a, b>> : a, b \in Names} |->
       LET i == Lookup(d, Root, path[1])
       IN  IF Len(path) = 1 THEN Shown(d, i)
           ELSE Shown(d, IF i # None /\ d.inode[i].kind = "dir" THEN Lookup(d, i, path[2])
                         ELSE None)]

TreeOnDisk == TreeOf(disk)

NS == INSTANCE Namespace WITH tree <- TreeOnDisk, MaxSize <- FileBlocks

\* Each operation takes effect in one of its writes, so a crash between two of them leaves the
\* names as they were before it or as they are after it.  Only a crash within the write of a new
\* entry can do more, and that harm stays in its directory: the new file is there under another
\* name, or it is not and names of the directory are gone.  This is NS!TreeSpec with that
\* exception, and an early way out for the steps that write nothing.
NamesChangeAtOnce ==
    /\ NS!TreeInit
    /\ [][\/ UNCHANGED disk \/ NS!TreeNext
         \/ (crashes' < crashes /\ todo # <<>> /\ NS!TreeTorn)]_TreeOnDisk
=============================================================================
