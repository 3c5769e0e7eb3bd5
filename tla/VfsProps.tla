------------------------------ MODULE VfsProps ------------------------------
(***************************************************************************)
(* What the virtual file system has to guarantee.                          *)
(***************************************************************************)
EXTENDS Vfs

Contents == Texts \cup {EmptyText}

\* The types of the variables.
VfsTypeOK ==
    /\ vfs.node \in [VNodes -> [name : RamNames \cup DiskNames \cup {""}, refs : Nat,
                                orphaned : BOOLEAN, mirror : BOOLEAN, dirty : BOOLEAN,
                                text : Contents, whole : BOOLEAN]]
    /\ vfs.count \in 0..NNodes /\ vfs.free \in Seq(VNodes)
    /\ vfs.kids \in [RamDirs -> Seq(VNodes)]
    /\ vfs.pdir \in [Users -> VNodes \cup {NoNode}] /\ vfs.pfile \in [Users -> VNodes \cup {NoNode}]
    /\ vfs.disk \in [DiskNames -> [text : Contents \cup {NoFile}, full : BOOLEAN, stale : BOOLEAN]]
    /\ fdt \in [Users -> [Fds -> VNodes \cup {NoNode}]]
    /\ life \in [Users -> {"unborn", "live", "zombie", "gone"}]
    /\ last \in [DiskNames -> Contents \cup {NoFile}]

\* Where a node is: the places that refer to it.
Descriptors(n) == {h \in Users \X Fds : fdt[h[1]][h[2]] = n}
TreePlaces(n)  ==
    {k \in RamDirs \X (1..MaxKids) : k[2] <= Len(vfs.kids[k[1]]) /\ vfs.kids[k[1]][k[2]] = n}
    \cup {<<"pdir", u>> : u \in {v \in Users : vfs.pdir[v] = n}}
    \cup {<<"pfile", u>> : u \in {v \in Users : vfs.pfile[v] = n}}
FreePlaces(n)  == {i \in DOMAIN vfs.free : vfs.free[i] = n}

\* Over open, dup, dup2, close, unlink, rename, exit, kill, reap and the entries of /proc coming
\* and going, a node of the pool that was ever used is in exactly one place: free once, in one
\* directory once, or out of the tree and open.  Its count is that of the descriptors on it, so no
\* descriptor refers to a node that was handed out again for something else, and none is lost.
PoolExact ==
    \A n \in VNodes :
       /\ vfs.node[n].refs = Cardinality(Descriptors(n))
       /\ Cardinality(FreePlaces(n)) + Cardinality(TreePlaces(n))
          + (IF vfs.node[n].refs > 0 /\ (vfs.node[n].mirror \/ vfs.node[n].orphaned) THEN 1 ELSE 0)
          = IF n <= vfs.count THEN 1 ELSE 0

\* A file of the disk that nobody has open says what was written to it last, through whichever of
\* the descriptors that dup and dup2 made of it, and however they were closed; unless the disk
\* refused the write of it, or the mirror that was written back had had no memory for its text.
SavedAtLastClose ==
    \A f \in DiskNames : Mirrors(vfs, f) = {} => vfs.disk[f].stale \/ vfs.disk[f].text = last[f]

\* What the comments say, and a disk that is full refutes: the deferred writes of a file of the
\* disk are persisted by its last close (vfs.c).
PersistedAtLastClose ==
    \A f \in DiskNames :
       Mirrors(vfs, f) = {} /\ vfs.disk[f].text # NoFile => vfs.disk[f].text = last[f]
=============================================================================
