-------------------------------- MODULE Vfs --------------------------------
(***************************************************************************)
(* The virtual file system: a fixed pool of nodes, which are the files of  *)
(* the ramdisk, the entries of /proc and, while a file of a mounted disk   *)
(* is open, its mirror in memory; and the descriptors that refer to them.  *)
(* Source: fs/vfs.c, with SYS_OPEN, SYS_CLOSE, SYS_DUP, SYS_DUP2 in        *)
(* core/syscall.c and close_proc_fds in proc/process.c.                    *)
(*                                                                         *)
(* A call runs with interrupts masked, so it is one step.  The directories *)
(* of the ramdisk are fixed, and of the files of /proc/<pid> one stands    *)
(* for the three.  A mirror has the text of the file, the other nodes none.*)
(*                                                                         *)
(* The disk may have no room for a file, and memory none for a mirror.     *)
(* What a write that fails leaves of the file is what was there.           *)
(***************************************************************************)
EXTENDS Integers, FiniteSets, Sequences, SequencesExt

CONSTANTS
    NUsers,     \* the entries of process_table
    NNodes,     \* MAX_INODES without what exists from the start
    Openers,    \* those of them that open files
    UserFds,    \* descriptors of a process
    RamDirs,       \* directories of the ramdisk
    MaxKids,    \* MAX_CHILDREN
    RamNames,   \* names of files in those directories
    DiskNames,  \* names of files on the mounted disk
    Texts,      \* what may be written
    OpensTwice, \* whether a file on the disk may be opened while it is open
    RemovesOpen \* whether one may be removed or renamed while it is open

ASSUME NNodesAssumption  == NNodes \in Nat /\ UserFds \in Nat \ {0} /\ MaxKids \in Nat
ASSUME UsersAssumption   == NUsers \in Nat /\ Openers \subseteq 1..NUsers

Users  == 1..NUsers        \* the processes, in the order of the table
VNodes == 1..NNodes
NoNode == 0
NoFile == "no file"
EmptyText == "empty"       \* the text of a file that was only created
Fds    == 1..UserFds

VARIABLES
    vfs,    \* the pool, the directories, /proc and the disk
    fdt,    \* ufd_handle of every process; NoNode where ufd_inuse is 0
    life,   \* whether it is in the process table
    last    \* what the disk should say of a file that is not open

userVars == <<vfs, fdt, life, last>>

BlankNode == [name |-> "", refs |-> 0, orphaned |-> FALSE, mirror |-> FALSE, dirty |-> FALSE,
          text |-> EmptyText,
          whole |-> TRUE]      \* history: the text is what was written last

\* A file of the disk: full, there is no room to write it; stale, history: it is not what was
\* written last, because the write failed or the mirror was not whole.
Missing == [text |-> NoFile, full |-> FALSE, stale |-> FALSE]

VfsInit ==
    /\ vfs = [node  |-> [n \in VNodes |-> BlankNode],
              free  |-> <<>>,                        \* free_nodes, the next one last
              count |-> 0,                           \* node_count
              kids  |-> [d \in RamDirs |-> <<>>],
              pdir  |-> [u \in Users |-> NoNode],    \* /proc/<pid>
              pfile |-> [u \in Users |-> NoNode],    \* /proc/<pid>/status
              disk  |-> [f \in DiskNames |-> Missing]]
    /\ fdt = [u \in Users |-> [i \in Fds |-> NoNode]]
    /\ life = [u \in Users |-> "unborn"]
    /\ last = [f \in DiskNames |-> NoFile]

----------------------------------------------------------------------------
(* The pool.                                                                *)

CanAlloc(s) == s.free # <<>> \/ s.count < NNodes
NextNode(s) == IF s.free # <<>> THEN Last(s.free) ELSE s.count + 1

\* alloc_node: the node that was freed last, or one never used.
Alloc(s, node) ==
    LET n == NextNode(s)
    IN  IF s.free # <<>>
        THEN [s EXCEPT !.free = Front(@), !.node[n] = node]
        ELSE [s EXCEPT !.count = n, !.node[n] = node]

\* free_node.  Nobody reads what a freed node held.
FreeNode(s, n) == [s EXCEPT !.free = Append(@, n), !.node[n] = BlankNode]

\* Mutant: a node that is unlinked goes back at once, whoever has it open.
ReleaseNodeAtOnce(s, n) == FreeNode(s, n)

\* release_node: freed, or by the last close if it is open.
ReleaseNode(s, n) ==
    IF n = NoNode THEN s
    ELSE IF s.node[n].refs > 0 THEN [s EXCEPT !.node[n].orphaned = TRUE]
    ELSE FreeNode(s, n)

WithAlias(s, n) == [s EXCEPT !.node[n].refs = @ + 1]

\* The file after a write of the text; whole says that it is all that was written last.
Stored(file, text, whole) ==
    IF file.full THEN [file EXCEPT !.stale = TRUE]
    ELSE [file EXCEPT !.text = text, !.stale = ~whole]

\* flush_mount_node: clean, whether or not the write succeeds.
Flushed(s, n) ==
    [s EXCEPT !.disk[s.node[n].name] = Stored(@, s.node[n].text, s.node[n].whole),
              !.node[n].dirty = FALSE]

\* Mutant: the close of an alias marks the mirror clean.
CloseForgets(s, n) ==
    LET less == [s EXCEPT !.node[n].refs = @ - 1]
        kept == IF s.node[n].dirty /\ ~s.node[n].orphaned THEN Flushed(less, n) ELSE less
    IN  IF s.node[n].refs > 1 THEN [less EXCEPT !.node[n].dirty = FALSE]
        ELSE IF s.node[n].mirror \/ s.node[n].orphaned THEN FreeNode(kept, n)
        ELSE kept

\* vfs_close: the last close of a node writes a mirror back, and frees what is in no directory.
CloseNode(s, n) ==
    LET less == [s EXCEPT !.node[n].refs = @ - 1]
        kept == IF s.node[n].dirty /\ ~s.node[n].orphaned THEN Flushed(less, n) ELSE less
    IN  IF s.node[n].refs > 1 THEN less
        ELSE IF s.node[n].mirror \/ s.node[n].orphaned THEN FreeNode(kept, n)
        ELSE kept

----------------------------------------------------------------------------
(* /proc follows the process table whenever a path is looked up.            *)

InTable(u) == life[u] \in {"live", "zombie"}

\* The entries of a process that is gone are released, the file before its directory.
Forget(s, u) ==
    IF InTable(u) \/ s.pdir[u] = NoNode THEN s
    ELSE [ReleaseNode(ReleaseNode(s, s.pfile[u]), s.pdir[u])
             EXCEPT !.pdir[u] = NoNode, !.pfile[u] = NoNode]

\* Those of a process without a directory are made, as far as there are nodes.
Show(s, u) ==
    IF ~InTable(u) \/ s.pdir[u] # NoNode \/ ~CanAlloc(s) THEN s
    ELSE LET dir == [Alloc(s, BlankNode) EXCEPT !.pdir[u] = NextNode(s)]
         IN  IF ~CanAlloc(dir) THEN dir
             ELSE [Alloc(dir, BlankNode) EXCEPT !.pfile[u] = NextNode(dir)]

TableOrder == [u \in Users |-> u]

\* proc_sync.
Synced(s) == FoldLeft(Show, FoldLeft(Forget, s, TableOrder), TableOrder)

----------------------------------------------------------------------------
(* The calls.                                                               *)

NamedBy(s, d, f) == {i \in DOMAIN s.kids[d] : s.node[s.kids[d][i]].name = f}
FirstOf(S)       == CHOOSE i \in S : \A j \in S : i <= j
OpenFds(u)         == {i \in Fds : fdt[u][i] # NoNode}
Mirrors(s, f)    == {n \in VNodes : s.node[n].mirror /\ s.node[n].name = f}

\* SYS_OPEN: the handle goes to the lowest free descriptor; with none it is closed again.
GetsFd(u, s, n) ==
    IF OpenFds(u) = Fds
    THEN vfs' = CloseNode(s, n) /\ UNCHANGED fdt
    ELSE vfs' = s /\ fdt' = [fdt EXCEPT ![u][FirstOf(Fds \ OpenFds(u))] = n]

Runs(u) == u \in Openers /\ life[u] = "live"

\* vfs_open of a file of the ramdisk, which it may create.
OpenRam(u, d, f, create) ==
    LET s   == Synced(vfs)
        new == [Alloc(s, [BlankNode EXCEPT !.name = f]) EXCEPT !.kids[d] = Append(@, NextNode(s))]
        hits == NamedBy(s, d, f)
    IN  /\ Runs(u)
        /\ \/ /\ hits # {}
              /\ LET n == s.kids[d][FirstOf(hits)] IN GetsFd(u, WithAlias(s, n), n)
           \/ /\ hits = {} /\ create /\ CanAlloc(s) /\ Len(s.kids[d]) < MaxKids
              /\ GetsFd(u, WithAlias(new, NextNode(s)), NextNode(s))
           \/ /\ hits = {} /\ (create => ~CanAlloc(s))
              /\ vfs' = s /\ UNCHANGED fdt
           \/ /\ hits = {} /\ create /\ CanAlloc(s) /\ Len(s.kids[d]) >= MaxKids
              /\ vfs' = FreeNode(Alloc(s, BlankNode), NextNode(s)) /\ UNCHANGED fdt
        /\ UNCHANGED <<life, last>>

\* ... of an entry of /proc.
OpenProc(u, v, dir) ==
    LET s == Synced(vfs)
        n == IF dir THEN s.pdir[v] ELSE s.pfile[v]
    IN  /\ Runs(u)
        /\ IF n = NoNode THEN vfs' = s /\ UNCHANGED fdt ELSE GetsFd(u, WithAlias(s, n), n)
        /\ UNCHANGED <<life, last>>

\* ... of a file of the disk, which gets a mirror of its own.  O_TRUNC does nothing here.
\* Without memory for the text the mirror is empty; that it was not created is not looked at.
OpenDisk(u, f, create, memory) ==
    LET s       == Synced(vfs)
        file    == s.disk[f]
        exists  == file.text # NoFile
        opened  == IF exists THEN file ELSE Stored(file, EmptyText, TRUE)
        read    == exists /\ memory
        created == [s EXCEPT !.disk[f] = opened]
        whole   == exists => ~file.stale /\ (memory \/ file.text = EmptyText)
        mirror  == [BlankNode EXCEPT !.name = f, !.refs = 1, !.mirror = TRUE,
                                     !.text = IF read THEN file.text ELSE EmptyText,
                                     !.whole = whole]
    IN  /\ Runs(u)
        /\ OpensTwice \/ Mirrors(s, f) = {}
        /\ IF (exists \/ create) /\ CanAlloc(s)
           THEN /\ GetsFd(u, Alloc(created, mirror), NextNode(s))
                /\ last' = [last EXCEPT ![f] = IF exists THEN @ ELSE EmptyText]
           ELSE vfs' = s /\ UNCHANGED <<fdt, last>>
        /\ UNCHANGED life

\* vfs_pwrite through a mirror, of the whole text.
WriteText(u, i, t) ==
    LET n == fdt[u][i]
    IN  /\ Runs(u) /\ n # NoNode /\ vfs.node[n].mirror
        /\ vfs' = [vfs EXCEPT !.node[n].text = t, !.node[n].dirty = TRUE, !.node[n].whole = TRUE]
        /\ last' = [last EXCEPT ![vfs.node[n].name] = t]
        /\ UNCHANGED <<fdt, life>>

\* ... of a part, which leaves the text what it is as far as the model tells.
WritePart(u, i) ==
    LET n == fdt[u][i]
    IN  /\ Runs(u) /\ n # NoNode /\ vfs.node[n].mirror
        /\ vfs' = [vfs EXCEPT !.node[n].dirty = TRUE]
        /\ UNCHANGED <<fdt, life, last>>

\* SYS_CLOSE.
CloseFd(u, i) ==
    /\ Runs(u) /\ fdt[u][i] # NoNode
    /\ vfs' = CloseNode(vfs, fdt[u][i])
    /\ fdt' = [fdt EXCEPT ![u][i] = NoNode]
    /\ UNCHANGED <<life, last>>

\* SYS_DUP: one more descriptor for the same node.
DupFd(u, i) ==
    /\ Runs(u) /\ fdt[u][i] # NoNode /\ OpenFds(u) # Fds
    /\ fdt' = [fdt EXCEPT ![u][FirstOf(Fds \ OpenFds(u))] = fdt[u][i]]
    /\ vfs' = WithAlias(vfs, fdt[u][i])
    /\ UNCHANGED <<life, last>>

\* SYS_DUP2 moves the handle, and closes what was there.
Dup2Fd(u, i, j) ==
    /\ Runs(u) /\ i # j /\ fdt[u][i] # NoNode
    /\ vfs' = IF fdt[u][j] = NoNode THEN vfs ELSE CloseNode(vfs, fdt[u][j])
    /\ fdt' = [fdt EXCEPT ![u][j] = fdt[u][i], ![u][i] = NoNode]
    /\ UNCHANGED <<life, last>>

\* vfs_unlink in the ramdisk: the first entry of that name.
UnlinkRam(d, f) ==
    LET i == FirstOf(NamedBy(vfs, d, f))
    IN  /\ NamedBy(vfs, d, f) # {}
        /\ vfs' = ReleaseNode([vfs EXCEPT !.kids[d] = RemoveAt(@, i)], vfs.kids[d][i])
        /\ UNCHANGED <<fdt, life, last>>

\* ... in /proc: a file, or a directory without its file.
UnlinkProc(v) ==
    /\ vfs.pdir[v] # NoNode
    /\ vfs' = IF vfs.pfile[v] # NoNode
              THEN ReleaseNode([vfs EXCEPT !.pfile[v] = NoNode], vfs.pfile[v])
              ELSE ReleaseNode([vfs EXCEPT !.pdir[v] = NoNode], vfs.pdir[v])
    /\ UNCHANGED <<fdt, life, last>>

\* vfs_rename in the ramdisk; the new name may exist already.
RenameRam(d, f, e, g) ==
    LET i == FirstOf(NamedBy(vfs, d, f))
        n == vfs.kids[d][i]
    IN  /\ NamedBy(vfs, d, f) # {} /\ (d # e => Len(vfs.kids[e]) < MaxKids)
        /\ vfs' = [vfs EXCEPT !.node[n].name = g,
                              !.kids[d] = IF d = e THEN @ ELSE RemoveAt(@, i),
                              !.kids[e] = IF d = e THEN @ ELSE Append(@, n)]
        /\ UNCHANGED <<fdt, life, last>>

MayRemove(f) == RemovesOpen \/ Mirrors(vfs, f) = {}

Removed(file) == [file EXCEPT !.text = NoFile, !.stale = FALSE]

\* ... on the disk, where a mirror does not hear of it.
UnlinkDisk(f) ==
    /\ vfs.disk[f].text # NoFile /\ MayRemove(f)
    /\ vfs' = [vfs EXCEPT !.disk[f] = Removed(@)]
    /\ last' = [last EXCEPT ![f] = NoFile]
    /\ UNCHANGED <<fdt, life>>

\* vfs_rename on the disk is vfs_cp and vfs_unlink, also of a file to itself.
RenameDisk(f, g) ==
    LET file == vfs.disk[f]
    IN  /\ file.text # NoFile /\ MayRemove(f) /\ MayRemove(g) /\ ~vfs.disk[g].full
        /\ vfs' = [vfs EXCEPT !.disk =
                      [vfs.disk EXCEPT ![g] = Stored(vfs.disk[g], file.text, ~file.stale),
                                       ![f] = Removed(file)]]
        /\ last' = [last EXCEPT ![g] = last[f], ![f] = NoFile]
        /\ UNCHANGED <<fdt, life>>

\* ... without room for the copy: the old name stays, a file that has the new one keeps its
\* text, and a new name may be left behind, empty.
RenameFails(f, g) ==
    /\ vfs.disk[f].text # NoFile /\ MayRemove(f) /\ MayRemove(g) /\ vfs.disk[g].full
    /\ vfs' = [vfs EXCEPT !.disk[g] = IF @.text # NoFile THEN @
                                     ELSE [@ EXCEPT !.text = EmptyText, !.stale = TRUE]]
    /\ UNCHANGED <<fdt, life, last>>

\* Room for a file runs out, or is there again, as other files come and go.
RoomChanges(f) ==
    /\ vfs' = [vfs EXCEPT !.disk[f].full = ~vfs.disk[f].full]
    /\ UNCHANGED <<fdt, life, last>>

----------------------------------------------------------------------------
(* The life of a process, as far as its descriptors go.                     *)

Starts(u) ==
    /\ life[u] = "unborn"
    /\ life' = [life EXCEPT ![u] = "live"]
    /\ UNCHANGED <<vfs, fdt, last>>

\* close_proc_fds.
ClosedAll(u) ==
    LET ClosedToo(s, i) == IF fdt[u][i] = NoNode THEN s ELSE CloseNode(s, fdt[u][i])
    IN  /\ vfs' = FoldLeft(ClosedToo, vfs, [i \in Fds |-> i])
        /\ fdt' = [fdt EXCEPT ![u] = [i \in Fds |-> NoNode]]
        /\ UNCHANGED last

\* SYS_EXIT.
ExitsOpen(u) ==
    /\ life[u] = "live"
    /\ life' = [life EXCEPT ![u] = "zombie"]
    /\ ClosedAll(u)

\* signal_terminate, which leaves the descriptors to the reaper.
IsKilled(u) ==
    /\ life[u] = "live"
    /\ life' = [life EXCEPT ![u] = "zombie"]
    /\ UNCHANGED <<vfs, fdt, last>>

IsReaped(u) ==
    /\ life[u] = "zombie"
    /\ life' = [life EXCEPT ![u] = "gone"]
    /\ ClosedAll(u)

\* vfs_isdir, SYS_GETDENTS.
LooksUp == vfs' = Synced(vfs) /\ UNCHANGED <<fdt, life, last>>

VfsNext ==
    \/ \E u \in Users :
          \/ Starts(u) \/ ExitsOpen(u) \/ IsKilled(u) \/ IsReaped(u)
          \/ \E create \in BOOLEAN :
                \/ \E d \in RamDirs, f \in RamNames : OpenRam(u, d, f, create)
                \/ \E f \in DiskNames, memory \in BOOLEAN : OpenDisk(u, f, create, memory)
          \/ \E v \in Users, dir \in BOOLEAN : OpenProc(u, v, dir)
          \/ \E i \in Fds :
                \/ CloseFd(u, i) \/ DupFd(u, i) \/ WritePart(u, i)
                \/ \E j \in Fds : Dup2Fd(u, i, j)
                \/ \E t \in Texts : WriteText(u, i, t)
    \/ \E d \in RamDirs, f \in RamNames :
          \/ UnlinkRam(d, f)
          \/ \E e \in RamDirs, g \in RamNames : RenameRam(d, f, e, g)
    \/ \E v \in Users : UnlinkProc(v)
    \/ \E f \in DiskNames :
          \/ UnlinkDisk(f) \/ RoomChanges(f)
          \/ \E g \in DiskNames : RenameDisk(f, g) \/ RenameFails(f, g)
    \/ LooksUp

VfsSpec == VfsInit /\ [][VfsNext]_userVars
=============================================================================
