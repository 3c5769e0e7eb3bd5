----------------------------- MODULE VmasProps ------------------------------
(***************************************************************************)
(* What the table of mmap regions has to guarantee.                        *)
(***************************************************************************)
EXTENDS Vmas

\* The types of the variables.
VmasTypeOK ==
    /\ alive \subseteq Tasks /\ unborn \subseteq Tasks
    /\ tgid \in [Tasks -> Tasks \cup {0}]
    /\ space \in [Tasks -> Tasks]
    /\ table \in [Tasks -> SUBSET Regions]
    /\ top \in [Tasks -> Addresses]
    /\ taken \in [Buffers -> Addresses \cup {-1}]
    /\ leaked \subseteq Buffers
    /\ calls \in 0..MaxCalls
    /\ asked.space \in Tasks /\ asked.prot \in Prots \cup {"none"}

\* The regions of a task lie below the point where its next one will start, none is empty, and
\* no two overlap: vma_find has one answer, whatever was split, trimmed, copied or handed over.
RegionsDisjoint ==
    \A p \in Tasks : \A v, w \in table[p] :
       /\ v.start < v.end /\ v.end <= top[p]
       /\ v = w \/ v.end <= w.start \/ w.end <= v.start

\* A snapshot that a task can reach is allocated, is held by one region of one task, and that
\* region still starts at the page it was taken for (a fault copies file_buf[page - start]);
\* one that nobody holds is free, or was lost with a fork that failed.
SnapshotsOwned ==
    LET held == {h \in alive \X Regions : h[2] \in table[h[1]] /\ h[2].buf # NoBuffer}
    IN  /\ \A h \in held :
              /\ taken[h[2].buf] = h[2].start /\ h[2].buf \notin leaked
              /\ \A k \in held : k[2].buf = h[2].buf => k = h
        /\ \A b \in Buffers : taken[b] # -1 => b \in leaked \/ \E h \in held : h[2].buf = b

\* What vma_find says of a page in each space, by way of any task that runs there.
MapOf ==
    [s \in Tasks |->
       [g \in 0..(NPages - 1) |->
          LET found == UNION {{v \in table[Leader(p)] : v.start <= g /\ g < v.end} :
                              p \in {q \in alive : space[q] = s}}
          IN  IF found = {} THEN "unmapped" ELSE (CHOOSE v \in found : TRUE).prot]]

PM == INSTANCE PageMap WITH Spaces <- Tasks, map <- MapOf

\* Splitting, trimming and handing over records is invisible page by page: unmap and protect
\* change the pages of their range and no other, for every thread of the group.  This is
\* PM!MapSpec, with an early way out for the steps that change nothing.
PagesKeepTheirProtection ==
    PM!MapInit /\ [][UNCHANGED vmaVars \/ PM!MapNext]_<<MapOf, asked>>
=============================================================================
