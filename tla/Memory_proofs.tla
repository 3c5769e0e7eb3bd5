--------------------------- MODULE Memory_proofs ---------------------------
(***************************************************************************)
(* The kernel heap and the regions of a task's memory: for a heap of any   *)
(* size, any requests and slab pages, any number of tasks, pages,          *)
(* protections, buffers and calls.                                         *)
(*                                                                         *)
(* The blocks of the heap tile it, what is given out is given out once,    *)
(* and a request is refused only when no free stretch can hold it.  What   *)
(* the walk of heap_alloc merges is described with the end of a run        *)
(* (RunEnd), a least number; LeastOf gives it, and the head of the run     *)
(* that a free block is in.                                                *)
(*                                                                         *)
(* The regions of a task never overlap, every snapshot of a file is held   *)
(* once or known to be lost, and Vmas implements PageMap.                  *)
(*                                                                         *)
(* For the regions the invariant is that each table is Apart below its     *)
(* mmap_next.  mmap adds at mmap_next; what munmap and mprotect leave are  *)
(* pieces of regions that were there; fork, clone and the hand-over copy a *)
(* table together with its mmap_next, which is why it does not matter that *)
(* the copy of a thread is out of date when it comes to lead the group.    *)
(*                                                                         *)
(* For the snapshots OwnInv looks at the tables of all tasks, also those   *)
(* that are not there, whose tables are empty.  A thread's own table holds *)
(* no snapshots, so the hand-over can write over it, and the one that      *)
(* leads is there and leads itself (GroupInv), so a fork copies no table   *)
(* twice.                                                                  *)
(*                                                                         *)
(* For the refinement SpaceInv says that the tasks of a space are those of *)
(* a group: they see one table, and it shows one protection of each page.  *)
(***************************************************************************)
EXTENDS KheapProps, VmasProps, WellFoundedInduction, TLAPS

----------------------------------------------------------------------------
(* The kernel heap.                                                       *)

Block == [size : Bytes, used : BOOLEAN]

\* A list of blocks that cover the heap, each next to the one before.
Tiles(bs) ==
    /\ DOMAIN bs \subseteq Bytes /\ 0 \in DOMAIN bs
    /\ \A a \in DOMAIN bs : bs[a] \in Block
    /\ \A a \in DOMAIN bs : End(bs, a) \in (DOMAIN bs) \cup {HeapSize}
    /\ \A a \in DOMAIN bs : \A b \in DOMAIN bs : a < b => End(bs, a) <= b

\* A set of numbers that is not empty has a least one.
LEMMA LeastOf ==
    ASSUME NEW S \in SUBSET Nat, S # {}
    PROVE  \E x \in S : \A y \in S : x <= y
<1> DEFINE R == {ss \in Nat \X Nat : ss[1] < ss[2]}
<1>1. IsWellFoundedOn(R, Nat)
  BY NatLessThanWellFounded DEF OpToRel
<1>2. PICK x \in S : \A y \in S : <<y, x>> \notin R
  <2> HIDE DEF R
  <2> QED
    BY <1>1, WFMin
<1>3. ASSUME NEW y \in S PROVE x <= y
  <2>1. ~(y < x)
    BY <1>2, <1>3
  <2> QED
    BY <2>1
<1> QED
  BY <1>3

\* Where a block of a list is, and where it ends.
LEMMA Bounds ==
    ASSUME NEW bs, Tiles(bs), NEW a \in DOMAIN bs
    PROVE  /\ a \in Nat /\ bs[a] \in Block /\ bs[a].size \in Nat /\ bs[a].used \in BOOLEAN
           /\ End(bs, a) \in Nat /\ End(bs, a) = a + HdrSize + bs[a].size
           /\ a + HdrSize <= End(bs, a) /\ a < End(bs, a) /\ End(bs, a) <= HeapSize
           /\ End(bs, a) \in (DOMAIN bs) \cup {HeapSize}
  BY HeapAssumption DEF Tiles, Block, Bytes, End

\* The run that starts with a block ends at the heap's end or at a used block, the first there is.
LEMMA RunEnds ==
    ASSUME NEW bs, Tiles(bs), NEW a \in DOMAIN bs
    PROVE  /\ RunEnd(bs, a) \in Bytes /\ RunEnd(bs, a) \in Nat
           /\ RunEnd(bs, a) = HeapSize \/ (RunEnd(bs, a) \in DOMAIN bs /\ bs[RunEnd(bs, a)].used)
           /\ a < RunEnd(bs, a) /\ End(bs, a) <= RunEnd(bs, a)
           /\ \A f \in DOMAIN bs : a < f /\ f < RunEnd(bs, a) => IsFree(bs, f)
<1> DEFINE Ends == {e \in Bytes : e > a /\ (e = HeapSize \/ (e \in DOMAIN bs /\ bs[e].used))}
           Right(e) == /\ e = HeapSize \/ (e \in DOMAIN bs /\ bs[e].used)
                       /\ e > a /\ \A f \in DOMAIN bs : a < f /\ f < e => IsFree(bs, f)
<1>1. Ends \in SUBSET Nat /\ HeapSize \in Ends
  BY Bounds, HeapAssumption DEF Bytes
<1>2. PICK e \in Ends : \A f \in Ends : e <= f
  BY <1>1, LeastOf
<1>3. e \in Bytes /\ Right(e)
  <2>1. ASSUME NEW f \in DOMAIN bs, a < f, f < e PROVE IsFree(bs, f)
    <3>1. f \in Bytes /\ f \in Nat /\ e \in Nat
      BY <1>1, Bounds DEF Tiles
    <3>2. f \notin Ends
      BY <1>2, <2>1, <3>1
    <3> QED
      BY <2>1, <3>1, <3>2 DEF IsFree
  <2> QED
    BY <1>2, <2>1
<1>4. RunEnd(bs, a) \in Bytes /\ Right(RunEnd(bs, a))
  <2>1. RunEnd(bs, a) = CHOOSE x \in Bytes : Right(x)
    BY DEF RunEnd
  <2> HIDE DEF Right
  <2> QED
    BY <1>3, <2>1
<1> DEFINE r == RunEnd(bs, a)
<1>5. r \in Bytes /\ Right(r)
  BY <1>4
<1> HIDE DEF r
<1>6. r \in Nat /\ End(bs, a) <= r
  <2>1. CASE r = HeapSize
    BY <2>1, Bounds, HeapAssumption
  <2>2. CASE r \in DOMAIN bs
    BY <1>5, <2>2, Bounds DEF Tiles
  <2> QED
    BY <1>5, <2>1, <2>2
<1> QED
  BY <1>5, <1>6, Bounds DEF r

\* The blocks that the walk up to limit has made part of an earlier one.
Inner(bs, limit) == {a \in DOMAIN bs : \E h \in Heads(bs) : h <= limit /\ h < a /\ a < RunEnd(bs, h)}

\* The walk makes one block of each run: the list still tiles the heap, and used blocks stay.
IsMerged(bs, limit, cs) ==
    /\ DOMAIN cs = DOMAIN bs \ Inner(bs, limit)
    /\ \A a \in DOMAIN cs :
          /\ cs[a] \in Block /\ cs[a].used = bs[a].used
          /\ a \in Heads(bs) /\ a <= limit => End(cs, a) = RunEnd(bs, a)
          /\ ~(a \in Heads(bs) /\ a <= limit) => cs[a] = bs[a] /\ End(cs, a) = End(bs, a)

LEMMA Merged ==
    ASSUME NEW bs, Tiles(bs), NEW limit
    PROVE  IsMerged(bs, limit, Coalesced(bs, limit))
<1> DEFINE cs == Coalesced(bs, limit)
           D == DOMAIN bs \ Inner(bs, limit)
           Head(a) == a \in Heads(bs) /\ a <= limit
<1>1. cs = [a \in D |-> IF a \in Heads(bs) /\ a <= limit
                        THEN [bs[a] EXCEPT !.size = RunSize(bs, a)] ELSE bs[a]]
  BY DEF Coalesced, Inner
<1>2. ASSUME NEW a \in D
      PROVE  /\ cs[a] \in Block /\ cs[a].used = bs[a].used
             /\ Head(a) => End(cs, a) = RunEnd(bs, a)
             /\ ~Head(a) => cs[a] = bs[a] /\ End(cs, a) = End(bs, a)
  <2>1. /\ a \in Nat /\ bs[a] \in Block /\ RunEnd(bs, a) \in Bytes /\ RunEnd(bs, a) \in Nat
        /\ a + HdrSize <= RunEnd(bs, a)
    BY Bounds, RunEnds, HeapAssumption
  <2>2. RunSize(bs, a) \in Bytes /\ a + HdrSize + RunSize(bs, a) = RunEnd(bs, a)
    BY <2>1, HeapAssumption DEF RunSize, Bytes
  <2>3. CASE Head(a)
    <3>1. cs[a] = [bs[a] EXCEPT !.size = RunSize(bs, a)]
      BY <1>1, <2>3
    <3>2. cs[a] \in Block /\ cs[a].used = bs[a].used /\ cs[a].size = RunSize(bs, a)
      BY <2>1, <2>2, <3>1 DEF Block
    <3> QED
      BY <2>2, <2>3, <3>2 DEF End
  <2>4. CASE ~Head(a)
    <3>1. cs[a] = bs[a]
      BY <1>1, <2>4
    <3> QED
      BY <2>1, <2>4, <3>1 DEF End
  <2> QED
    BY <2>3, <2>4
<1>3. DOMAIN cs = D
  BY <1>1
<1> QED
  BY <1>2, <1>3 DEF IsMerged

LEMMA MergedTiles ==
    ASSUME NEW bs, Tiles(bs), NEW limit \in Bytes
    PROVE  /\ Tiles(Coalesced(bs, limit))
           /\ \A a \in DOMAIN bs : bs[a].used => a \in DOMAIN Coalesced(bs, limit)
                                                 /\ Coalesced(bs, limit)[a] = bs[a]
<1> DEFINE cs == Coalesced(bs, limit)
           In == Inner(bs, limit)
           Head(a) == a \in Heads(bs) /\ a <= limit
<1>1. /\ DOMAIN cs = DOMAIN bs \ In
      /\ \A a \in DOMAIN cs : /\ cs[a] \in Block /\ cs[a].used = bs[a].used
                              /\ Head(a) => End(cs, a) = RunEnd(bs, a)
                              /\ ~Head(a) => cs[a] = bs[a] /\ End(cs, a) = End(bs, a)
  BY Merged DEF IsMerged
<1>2. \A a \in In : \E h \in Heads(bs) : Head(h) /\ h \in DOMAIN bs /\ h < a /\ a < RunEnd(bs, h)
  BY DEF Inner, Heads
<1>3. \A a \in DOMAIN bs, h \in DOMAIN bs : Head(h) /\ h < a /\ a < RunEnd(bs, h) => a \in In
  BY DEF Inner
<1>4. \A h \in DOMAIN bs : Head(h) => ~bs[h].used
  BY DEF Heads, IsFree
<1> HIDE DEF cs, In, Head
<1>5. ASSUME NEW a \in DOMAIN bs, bs[a].used PROVE a \in DOMAIN cs /\ cs[a] = bs[a]
  <2>1. a \notin In
    BY <1>2, <1>5, RunEnds DEF IsFree
  <2> QED
    BY <1>1, <1>4, <1>5, <2>1
<1>6. 0 \in DOMAIN cs
  <2>1. 0 \in DOMAIN bs /\ \A h \in DOMAIN bs : h \in Nat
    BY Bounds DEF Tiles
  <2> QED
    BY <1>1, <1>2, <2>1
<1>7. ASSUME NEW a \in DOMAIN cs PROVE End(cs, a) \in (DOMAIN cs) \cup {HeapSize}
  <2>1. CASE Head(a)
    <3>1. End(cs, a) = RunEnd(bs, a) /\ a \in DOMAIN bs
      BY <1>1, <2>1
    <3> QED
      BY <1>5, <3>1, RunEnds
  <2>2. CASE ~Head(a)
    <3>1. End(cs, a) = End(bs, a) /\ a \in DOMAIN bs /\ a \notin In
      BY <1>1, <2>2
    <3>2. ASSUME End(bs, a) \in In PROVE FALSE
      <4>1. PICK h \in DOMAIN bs : Head(h) /\ h < End(bs, a) /\ End(bs, a) < RunEnd(bs, h)
        BY <1>2, <3>2
      <4>2. h \in Nat /\ a \in Nat /\ End(bs, a) \in Nat /\ RunEnd(bs, h) \in Nat /\ a < End(bs, a)
        BY <3>1, Bounds, RunEnds
      <4>3. h <= a
        BY <3>1, <4>1, <4>2 DEF Tiles
      <4>4. h # a
        BY <2>2, <4>1
      <4> QED
        BY <1>3, <3>1, <4>1, <4>2, <4>3, <4>4
    <3> QED
      BY <1>1, <3>1, <3>2, Bounds
  <2> QED
    BY <2>1, <2>2
<1>8. ASSUME NEW a \in DOMAIN cs, NEW b \in DOMAIN cs, a < b PROVE End(cs, a) <= b
  <2>1. a \in DOMAIN bs /\ b \in DOMAIN bs /\ b \notin In /\ a \in Nat /\ b \in Nat
    BY <1>1, Bounds
  <2>2. CASE Head(a)
    <3>1. End(cs, a) = RunEnd(bs, a) /\ RunEnd(bs, a) \in Nat
      BY <1>1, <2>1, <2>2, RunEnds
    <3> QED
      BY <1>3, <1>8, <2>1, <2>2, <3>1
  <2>3. CASE ~Head(a)
    BY <1>1, <1>8, <2>1, <2>3 DEF Tiles
  <2> QED
    BY <2>2, <2>3
<1>9. Tiles(cs)
  BY <1>1, <1>6, <1>7, <1>8 DEF Tiles
<1> QED
  BY <1>5, <1>9 DEF cs

\* A block that is taken keeps what was asked for, and the rest becomes a block of its own if it
\* is large enough.
LEMMA Taken ==
    ASSUME NEW bs, Tiles(bs), NEW a \in DOMAIN bs, IsFree(bs, a), NEW size \in Nat, bs[a].size >= size
    PROVE  LET ts == TakeBlock(bs, a, size)
           IN  /\ Tiles(ts) /\ DOMAIN bs \subseteq DOMAIN ts
               /\ \A b \in DOMAIN ts : ts[b].used <=> b = a \/ (b \in DOMAIN bs /\ bs[b].used)
               /\ \A b \in DOMAIN bs : b # a => ts[b] = bs[b]
               /\ ts[a].size >= size
<1> DEFINE ts == TakeBlock(bs, a, size)
           m == a + HdrSize + size
           rest == bs[a].size - size - HdrSize
<1>1. /\ a \in Nat /\ bs[a] \in Block /\ bs[a].size \in Nat /\ ~bs[a].used /\ End(bs, a) \in Nat
      /\ End(bs, a) = a + HdrSize + bs[a].size /\ End(bs, a) <= HeapSize
      /\ HdrSize \in Nat \ {0} /\ MinRest \in Nat /\ HeapSize \in Nat
  BY Bounds, HeapAssumption, RestAssumption DEF IsFree
<1>2. CASE bs[a].size > size + HdrSize + MinRest
  <2> DEFINE first == [size |-> size, used |-> TRUE]
             second == [size |-> rest, used |-> FALSE]
  <2>1. /\ a < m /\ m < End(bs, a) /\ m \in Nat /\ rest \in Nat /\ rest \in Bytes /\ size \in Bytes
        /\ m + HdrSize + rest = End(bs, a) /\ m \in Bytes
    BY <1>1, <1>2 DEF Bytes
  <2>2. ts = [b \in DOMAIN bs \cup {m} |-> IF b = a THEN first ELSE IF b = m THEN second ELSE bs[b]]
    BY <1>2 DEF TakeBlock
  <2>3. m \notin DOMAIN bs
    <3>1. m \in DOMAIN bs => End(bs, a) <= m
      BY <2>1 DEF Tiles
    <3> QED
      BY <1>1, <2>1, <3>1
  <2>4. first \in Block /\ second \in Block /\ first.used /\ ~second.used /\ first.size = size /\ second.size = rest
    BY <2>1 DEF Block
  <2> HIDE DEF ts, first, second, rest
  <2>5. DOMAIN ts = DOMAIN bs \cup {m} /\ ts[a] = first /\ ts[m] = second
        /\ \A b \in DOMAIN bs : b # a => ts[b] = bs[b]
    BY <2>1, <2>2, <2>3
  <2> HIDE DEF m
  <2>6. End(ts, a) = m /\ End(ts, m) = End(bs, a)
        /\ \A b \in DOMAIN bs : b # a => End(ts, b) = End(bs, b)
    BY <2>1, <2>4, <2>5 DEF End, m
  <2>7. \A b \in DOMAIN ts : ts[b] \in Block
    BY <2>4, <2>5 DEF Tiles
  <2>8. \A b \in DOMAIN ts : End(ts, b) \in (DOMAIN ts) \cup {HeapSize}
    BY <2>5, <2>6 DEF Tiles
  <2>9. ASSUME NEW b \in DOMAIN ts, NEW c \in DOMAIN ts, b < c PROVE End(ts, b) <= c
    <3>1. \A x \in DOMAIN bs : x \in Nat /\ End(bs, x) \in Nat /\ x < End(bs, x)
      BY Bounds
    <3>2. CASE b \in DOMAIN bs /\ c \in DOMAIN bs
      BY <1>1, <2>1, <2>6, <2>9, <3>1, <3>2 DEF Tiles
    <3>3. CASE b = m /\ c \in DOMAIN bs
      BY <1>1, <2>1, <2>6, <2>9, <3>1, <3>3 DEF Tiles
    <3>4. CASE b \in DOMAIN bs /\ c = m
      <4>1. b <= a
        BY <1>1, <2>1, <2>9, <3>1, <3>4 DEF Tiles
      <4>2. CASE b = a
        BY <2>1, <2>6, <3>4, <4>2
      <4>3. CASE b < a
        <5>1. End(bs, b) <= a /\ End(ts, b) = End(bs, b)
          BY <2>6, <3>4, <4>3, <1>1 DEF Tiles
        <5> QED
          BY <1>1, <2>1, <3>1, <3>4, <5>1
      <4> QED
        BY <1>1, <3>1, <3>4, <4>1, <4>2, <4>3
    <3> QED
      BY <2>1, <2>5, <2>9, <3>2, <3>3, <3>4
  <2>10. Tiles(ts)
    BY <2>1, <2>5, <2>7, <2>8, <2>9 DEF Tiles
  <2>11. \A b \in DOMAIN ts : ts[b].used <=> b = a \/ (b \in DOMAIN bs /\ bs[b].used)
    BY <2>1, <2>3, <2>4, <2>5
  <2> QED
    BY <1>1, <2>4, <2>5, <2>10, <2>11 DEF ts
<1>3. CASE ~(bs[a].size > size + HdrSize + MinRest)
  <2> DEFINE new == [bs[a] EXCEPT !.used = TRUE]
  <2>1. new \in Block /\ new.used /\ new.size = bs[a].size
    BY <1>1 DEF Block
  <2>2. ts = [bs EXCEPT ![a] = new]
    BY <1>3 DEF TakeBlock
  <2> HIDE DEF ts, new
  <2>3. DOMAIN ts = DOMAIN bs /\ ts[a] = new /\ \A b \in DOMAIN bs : b # a => ts[b] = bs[b]
    BY <2>2
  <2>4. \A b \in DOMAIN bs : End(ts, b) = End(bs, b)
    BY <2>1, <2>3 DEF End
  <2>5. \A b \in DOMAIN ts : ts[b] \in Block
    BY <2>1, <2>3 DEF Tiles
  <2>6. Tiles(ts)
    BY <2>3, <2>4, <2>5 DEF Tiles
  <2>7. \A b \in DOMAIN ts : ts[b].used <=> b = a \/ (b \in DOMAIN bs /\ bs[b].used)
    BY <2>1, <2>3
  <2> QED
    BY <1>1, <2>1, <2>3, <2>6, <2>7 DEF ts
<1> QED
  BY <1>2, <1>3

\* A block that is freed may take in the one after it; used blocks stay.
LEMMA FreeKeeps ==
    ASSUME NEW bs, Tiles(bs), NEW a \in DOMAIN bs
    PROVE  LET fs == FreeBlk(bs, a)
           IN  /\ Tiles(fs) /\ DOMAIN fs \subseteq DOMAIN bs
               /\ \A b \in DOMAIN fs : fs[b].used <=> b # a /\ bs[b].used
               /\ \A b \in DOMAIN bs : b # a /\ bs[b].used => b \in DOMAIN fs /\ fs[b] = bs[b]
<1> DEFINE fs == FreeBlk(bs, a)
           next == End(bs, a)
<1>1. /\ a \in Nat /\ bs[a] \in Block /\ next \in Nat /\ a < next /\ a + HdrSize <= next
      /\ HdrSize \in Nat \ {0} /\ HeapSize \in Nat
  BY Bounds, HeapAssumption
<1>2. CASE next \in DOMAIN bs /\ IsFree(bs, next)
  <2> DEFINE new == [size |-> End(bs, next) - a - HdrSize, used |-> FALSE]
  <2>1. End(bs, next) \in Nat /\ next < End(bs, next) /\ End(bs, next) <= HeapSize
        /\ End(bs, next) \in (DOMAIN bs) \cup {HeapSize}
    BY <1>2, Bounds
  <2>2. new \in Block /\ ~new.used /\ a + HdrSize + new.size = End(bs, next)
    BY <1>1, <2>1 DEF Block, Bytes
  <2>3. fs = [b \in DOMAIN bs \ {next} |-> IF b = a THEN new ELSE bs[b]]
    BY <1>2 DEF FreeBlk
  <2>4. ~bs[next].used
    BY <1>2 DEF IsFree
  <2> HIDE DEF fs, new
  <2>5. DOMAIN fs = DOMAIN bs \ {next} /\ a \in DOMAIN fs /\ fs[a] = new
        /\ \A b \in DOMAIN fs : b # a => fs[b] = bs[b]
    BY <1>1, <2>3
  <2>6. End(fs, a) = End(bs, next) /\ \A b \in DOMAIN fs : b # a => End(fs, b) = End(bs, b)
    BY <2>2, <2>5 DEF End
  <2>7. \A b \in DOMAIN fs : fs[b] \in Block
    BY <2>2, <2>5 DEF Tiles
  <2> HIDE DEF next
  <2>8. ASSUME NEW b \in DOMAIN fs PROVE End(fs, b) \in (DOMAIN fs) \cup {HeapSize}
    <3>1. CASE b = a
      BY <2>1, <2>5, <2>6, <3>1, <1>1
    <3>2. CASE b # a
      <4>1. b \in DOMAIN bs /\ b \in Nat /\ End(bs, b) \in Nat /\ b < End(bs, b)
            /\ End(bs, b) \in (DOMAIN bs) \cup {HeapSize}
        BY <2>5, Bounds
      <4>2. ASSUME End(bs, b) = next PROVE FALSE
        <5>1. CASE b < a
          <6>1. End(bs, b) <= a
            BY <4>1, <5>1 DEF Tiles
          <6> QED
            BY <1>1, <4>2, <6>1
        <5>2. CASE a < b
          <6>1. next <= b
            BY <4>1, <5>2 DEF Tiles, next
          <6> QED
            BY <1>1, <4>1, <4>2, <6>1
        <5> QED
          BY <1>1, <3>2, <4>1, <5>1, <5>2
      <4> QED
        BY <2>5, <2>6, <3>2, <4>1, <4>2
    <3> QED
      BY <3>1, <3>2
  <2>9. ASSUME NEW b \in DOMAIN fs, NEW c \in DOMAIN fs, b < c PROVE End(fs, b) <= c
    <3>1. b \in DOMAIN bs /\ c \in DOMAIN bs /\ b \in Nat /\ c \in Nat /\ c # next
      BY <2>5, Bounds
    <3>2. CASE b # a
      BY <2>6, <2>9, <3>1, <3>2 DEF Tiles
    <3>3. CASE b = a
      <4>1. next <= c
        BY <2>9, <3>1, <3>3 DEF Tiles, next
      <4>2. next < c
        BY <1>1, <3>1, <4>1
      <4>3. End(bs, next) <= c
        BY <1>2, <3>1, <4>2 DEF Tiles
      <4> QED
        BY <2>6, <3>3, <4>3
    <3> QED
      BY <3>2, <3>3
  <2>10. 0 \in DOMAIN fs
    BY <1>1, <2>5 DEF Tiles
  <2>11. DOMAIN fs \subseteq Bytes
    BY <2>5 DEF Tiles
  <2>12. Tiles(fs)
    BY <2>7, <2>8, <2>9, <2>10, <2>11 DEF Tiles
  <2>13. \A b \in DOMAIN fs : fs[b].used <=> b # a /\ bs[b].used
    BY <2>2, <2>5
  <2> QED
    BY <2>4, <2>5, <2>12, <2>13 DEF fs
<1>3. CASE ~(next \in DOMAIN bs /\ IsFree(bs, next))
  <2> DEFINE new == [bs[a] EXCEPT !.used = FALSE]
  <2>1. new \in Block /\ ~new.used /\ new.size = bs[a].size
    BY <1>1 DEF Block
  <2>2. fs = [bs EXCEPT ![a] = new]
    BY <1>3 DEF FreeBlk
  <2> HIDE DEF fs, new
  <2>3. DOMAIN fs = DOMAIN bs /\ fs[a] = new /\ \A b \in DOMAIN bs : b # a => fs[b] = bs[b]
    BY <2>2
  <2>4. \A b \in DOMAIN bs : End(fs, b) = End(bs, b)
    BY <2>1, <2>3 DEF End
  <2>5. \A b \in DOMAIN fs : fs[b] \in Block
    BY <2>1, <2>3 DEF Tiles
  <2>6. Tiles(fs)
    BY <2>3, <2>4, <2>5 DEF Tiles
  <2>7. \A b \in DOMAIN fs : fs[b].used <=> b # a /\ bs[b].used
    BY <2>1, <2>3
  <2> QED
    BY <2>3, <2>6, <2>7 DEF fs
<1> QED
  BY <1>2, <1>3

----------------------------------------------------------------------------
(* Where there is no room.                                                  *)

\* Every byte is in a block.
LEMMA Covering ==
    ASSUME NEW bs, Tiles(bs), NEW n \in Nat, n < HeapSize
    PROVE  \E b \in DOMAIN bs : b <= n /\ n < End(bs, b)
<1> DEFINE T == {HeapSize - x : x \in {y \in DOMAIN bs : y <= n}}
<1>1. T \in SUBSET Nat
  BY Bounds, HeapAssumption DEF Tiles, Bytes
<1>2. HeapSize - 0 \in T
  BY DEF Tiles
<1>3. PICK m \in T : \A k \in T : m <= k
  BY <1>1, <1>2, LeastOf
<1>4. PICK b \in DOMAIN bs : b <= n /\ m = HeapSize - b
  BY <1>3
<1>5. \A y \in DOMAIN bs : y <= n => y <= b
  <2> SUFFICES ASSUME NEW y \in DOMAIN bs, y <= n PROVE y <= b
    OBVIOUS
  <2>1. HeapSize - y \in T
    OBVIOUS
  <2>2. m <= HeapSize - y /\ y \in Nat /\ b \in Nat
    BY <1>3, <2>1, Bounds
  <2> QED
    BY <1>4, <2>2, HeapAssumption
<1>6. b \in Nat /\ End(bs, b) \in Nat /\ b < End(bs, b) /\ End(bs, b) \in (DOMAIN bs) \cup {HeapSize}
  BY Bounds
<1>7. n < End(bs, b)
  BY <1>5, <1>6, HeapAssumption
<1> QED
  BY <1>4, <1>7

\* A free block is in a run, which has a head.
LEMMA HeadOf ==
    ASSUME NEW bs, Tiles(bs), NEW b \in DOMAIN bs, IsFree(bs, b)
    PROVE  \E x \in Heads(bs) : /\ x <= b /\ b < RunEnd(bs, x)
                                /\ \A y \in DOMAIN bs : x <= y /\ y <= b => IsFree(bs, y)
<1> DEFINE S == {x \in DOMAIN bs : x <= b /\ \A y \in DOMAIN bs : x <= y /\ y <= b => IsFree(bs, y)}
<1>0. \A y \in DOMAIN bs : y \in Nat
  BY Bounds
<1>1. S \in SUBSET Nat /\ b \in S
  BY <1>0
<1>2. PICK x \in S : \A y \in S : x <= y
  BY <1>1, LeastOf
<1>3. x \in DOMAIN bs /\ x <= b /\ IsFree(bs, x)
  BY <1>2, <1>0
<1>4. ASSUME NEW c \in DOMAIN bs, IsFree(bs, c), End(bs, c) = x PROVE FALSE
  <2>1. c \in Nat /\ c < x
    BY <1>4, Bounds
  <2>2. ASSUME NEW y \in DOMAIN bs, c <= y, y <= b PROVE IsFree(bs, y)
    <3>1. CASE c = y
      BY <1>4, <3>1
    <3>2. CASE c # y
      <4>1. x <= y
        BY <1>0, <1>4, <2>2, <3>2 DEF Tiles
      <4> QED
        BY <1>2, <2>2, <4>1
    <3> QED
      BY <3>1, <3>2
  <2>3. c <= b
    BY <1>0, <1>3, <2>1
  <2>4. c \in S
    BY <2>2, <2>3
  <2> QED
    BY <1>0, <1>2, <1>3, <2>1, <2>4
<1>5. x \in Heads(bs)
  BY <1>3, <1>4 DEF Heads, FollowsFree
<1>6. b < RunEnd(bs, x)
  <2> DEFINE r == RunEnd(bs, x)
  <2>1. r \in Nat /\ (r = HeapSize \/ (r \in DOMAIN bs /\ bs[r].used)) /\ x < r
    BY <1>3, RunEnds
  <2>2. b \in Nat /\ x \in Nat /\ b < HeapSize
    <3>1. b \in Nat /\ x \in Nat /\ End(bs, b) \in Nat /\ b < End(bs, b) /\ End(bs, b) <= HeapSize
      BY <1>0, Bounds, <1>3
    <3> QED
      BY <3>1, HeapAssumption
  <2> HIDE DEF r
  <2>3. ASSUME r <= b PROVE FALSE
    <3>1. r \in DOMAIN bs /\ bs[r].used
      BY <2>1, <2>2, <2>3, HeapAssumption
    <3>2. x <= r
      BY <2>1, <2>2
    <3> QED
      BY <1>2, <2>3, <3>1, <3>2 DEF IsFree
  <2>4. b < r
    BY <2>1, <2>2, <2>3
  <2> QED
    BY <2>4 DEF r
<1> QED
  BY <1>2, <1>5, <1>6

\* The head of a run is in no other run.
LEMMA HeadIsOuter ==
    ASSUME NEW bs, Tiles(bs), NEW x \in Heads(bs), NEW limit
    PROVE  x \notin Inner(bs, limit)
<1> SUFFICES ASSUME NEW h \in Heads(bs), h < x, x < RunEnd(bs, h) PROVE FALSE
  BY DEF Inner
<1>1. /\ x \in DOMAIN bs /\ h \in DOMAIN bs /\ IsFree(bs, h) /\ ~FollowsFree(bs, x)
      /\ x \in Nat /\ h \in Nat /\ x < HeapSize
  <2>1. x \in DOMAIN bs /\ h \in DOMAIN bs
    BY DEF Heads
  <2>2. x < End(bs, x) /\ End(bs, x) <= HeapSize /\ x \in Nat /\ h \in Nat /\ End(bs, x) \in Nat
    BY <2>1, Bounds
  <2> QED
    BY <2>1, <2>2, HeapAssumption DEF Heads
<1>2. x - 1 \in Nat /\ x - 1 < HeapSize
  BY <1>1, HeapAssumption
<1>3. PICK b \in DOMAIN bs : b <= x - 1 /\ x - 1 < End(bs, b)
  BY <1>2, Covering
<1>4. b \in Nat /\ End(bs, b) \in Nat /\ b < x
  BY <1>1, <1>3, Bounds
<1>5. End(bs, b) <= x
  BY <1>1, <1>4 DEF Tiles
<1>6. End(bs, b) = x
  BY <1>1, <1>3, <1>4, <1>5
<1>7. ~IsFree(bs, b)
  BY <1>1, <1>6 DEF FollowsFree
<1>8. h < b
  <2>1. CASE b < h
    <3>1. End(bs, b) <= h
      BY <1>1, <2>1 DEF Tiles
    <3> QED
      BY <1>1, <1>6, <3>1
  <2>2. CASE b = h
    BY <1>1, <1>7, <2>2
  <2> QED
    BY <1>1, <1>4, <2>1, <2>2
<1>9. RunEnd(bs, h) \in Nat
  BY <1>1, RunEnds
<1>10. b < RunEnd(bs, h)
  BY <1>1, <1>4, <1>9
<1> QED
  BY <1>1, <1>7, <1>8, <1>10, RunEnds

\* When no run has room for size, no free stretch has.
LEMMA NoRoom ==
    ASSUME NEW bs, Tiles(bs), NEW size \in Nat \ {0}, Fitting(bs, size) = {},
           NEW a \in 0..(HeapSize - HdrSize - size),
           \A n \in a..(a + HdrSize + size - 1) :
              \A u \in DOMAIN bs : bs[u].used => ~(u <= n /\ n < End(bs, u))
    PROVE  FALSE
<1>1. a \in Nat /\ a + HdrSize + size <= HeapSize /\ a < HeapSize /\ HdrSize \in Nat \ {0} /\ HeapSize \in Nat
      /\ a \in a..(a + HdrSize + size - 1)
  BY HeapAssumption
<1>2. PICK b \in DOMAIN bs : b <= a /\ a < End(bs, b)
  BY <1>1, Covering
<1>3. IsFree(bs, b)
  BY <1>1, <1>2, Bounds DEF IsFree
<1>4. PICK x \in Heads(bs) : x <= b /\ b < RunEnd(bs, x)
  BY <1>3, HeadOf
<1> DEFINE r == RunEnd(bs, x)
           cs == Coalesced(bs, HeapSize)
<1>5. /\ x \in DOMAIN bs /\ x \in Nat /\ b \in Nat /\ End(bs, b) \in Nat /\ r \in Nat
      /\ r = HeapSize \/ (r \in DOMAIN bs /\ bs[r].used)
      /\ End(bs, b) <= HeapSize
  BY <1>4, Bounds, RunEnds DEF Heads
<1>6. IsMerged(bs, HeapSize, cs) /\ x \notin Inner(bs, HeapSize)
  BY Merged, HeadIsOuter
<1>7. Fitting(bs, size) = {y \in DOMAIN cs : IsFree(cs, y) /\ cs[y].size >= size}
  BY DEF Fitting
<1> HIDE DEF r, cs
<1>8. End(bs, b) <= r
  <2>1. r \in DOMAIN bs => End(bs, b) <= r
    BY <1>4 DEF Tiles, r
  <2> QED
    BY <1>5, <2>1
<1>9. a + HdrSize + size <= r
  <2>1. ASSUME r < a + HdrSize + size PROVE FALSE
    <3>1. r \in DOMAIN bs /\ bs[r].used /\ r \in a..(a + HdrSize + size - 1)
      BY <1>1, <1>2, <1>5, <1>8, <2>1
    <3>2. r < End(bs, r)
      BY <3>1, Bounds
    <3> QED
      BY <3>1, <3>2
  <2> QED
    BY <1>1, <1>5, <2>1
<1>10. x \in DOMAIN cs /\ cs[x] \in Block /\ End(cs, x) = r /\ ~cs[x].used
  <2>1. x \in DOMAIN cs /\ x <= HeapSize /\ ~bs[x].used
    <3>1. x <= HeapSize
      BY <1>1, <1>4, <1>5, <1>2
    <3> QED
      BY <1>5, <1>6, <3>1 DEF IsMerged, Heads, IsFree
  <2> QED
    BY <1>6, <2>1 DEF IsMerged, r
<1>11. cs[x].size \in Nat /\ x + HdrSize + cs[x].size = r
  BY <1>10, <1>1 DEF End, Block, Bytes
<1>12. cs[x].size >= size
  BY <1>1, <1>2, <1>4, <1>5, <1>9, <1>11
<1> QED
  BY <1>7, <1>10, <1>12 DEF IsFree

----------------------------------------------------------------------------
(* What the calls preserve.                                                 *)

Slab == [pages : SUBSET SlabPages, free : SUBSET SlabSlots]
SlotsOf(pages) == pages \X (1..PerPage)

\* An object is at the start of a block of the heap, or in a slot of a page of the slab.
Located ==
    \A l \in live : /\ l.size \in Requests
                    /\ \/ l.from = "heap" /\ l.at = InHeap(l.at[2])
                       \/ l.from = "slab" /\ l.at \in SlotsOf(slab.pages)

HeapInv ==
    /\ Tiles(blocks) /\ slab \in Slab /\ slab.free \subseteq SlotsOf(slab.pages)
    /\ Located /\ GivenOnce /\ refused \in Requests \cup {0}

\* An object lives at b, in the heap or in the slab.
LiveIn(from, at) == \E l \in live : l.from = from /\ l.at = at

LEMMA SlabFields ==
    ASSUME HeapInv
    PROVE  slab.pages \in SUBSET SlabPages /\ slab.free \in SUBSET SlabSlots
           /\ slab = [pages |-> slab.pages, free |-> slab.free]
  BY DEF HeapInv, Slab

LEMMA InHeapIs == \A a, b : (InHeap(a) = InHeap(b) <=> a = b) /\ InHeap(a)[2] = a /\ InHeap(a)[1] = 0
  BY DEF InHeap

\* Objects of the heap are in the used blocks, those of the slab in the slots that are not free.
LEMMA LiveWhere ==
    ASSUME HeapInv
    PROVE  /\ \A b : LiveIn("heap", InHeap(b)) <=> b \in DOMAIN blocks /\ blocks[b].used
           /\ \A s : LiveIn("slab", s) <=> s \in SlotsOf(slab.pages) /\ s \notin slab.free
<1>1. ASSUME NEW b, LiveIn("heap", InHeap(b)) PROVE b \in DOMAIN blocks
  <2>1. PICK l \in live : l.from = "heap" /\ l.at = InHeap(b)
    BY <1>1 DEF LiveIn
  <2> QED
    BY <2>1, InHeapIs DEF HeapInv, GivenOnce
<1>2. \A b \in DOMAIN blocks : blocks[b].used <=> LiveIn("heap", InHeap(b))
  BY DEF HeapInv, GivenOnce, LiveIn
<1>3. ASSUME NEW s, LiveIn("slab", s) PROVE s \in SlotsOf(slab.pages)
  BY <1>3 DEF LiveIn, HeapInv, Located
<1>4. \A s \in SlotsOf(slab.pages) : s \in slab.free <=> ~LiveIn("slab", s)
  BY DEF HeapInv, GivenOnce, LiveIn, SlotsOf
<1> QED
  BY <1>1, <1>2, <1>3, <1>4

\* An object more, where none is: where it lives, and that it does so alone.
LEMMA Another ==
    ASSUME HeapInv, NEW size \in Requests, NEW from \in {"heap", "slab"}, NEW at,
           ~LiveIn(from, at), Gets(size, from, at)
    PROVE  /\ refused' = 0 /\ live' = live \cup {Given(size, from, at)}
           /\ Given(size, from, at).size = size /\ Given(size, from, at).from = from
           /\ Given(size, from, at).at = at
           /\ \A f, b : LiveIn(f, b)' <=> LiveIn(f, b) \/ (f = from /\ b = at)
           /\ \A l \in live' : \A k \in live' : k.from = l.from /\ k.at = l.at => k = l
<1> DEFINE new == Given(size, from, at)
<1>1. live' = live \cup {new} /\ refused' = 0 /\ new.size = size /\ new.from = from /\ new.at = at
  BY DEF Gets, Given
<1> HIDE DEF new
<1>2. \A f, b : LiveIn(f, b)' <=> LiveIn(f, b) \/ (f = from /\ b = at)
  BY <1>1 DEF LiveIn
<1>3. \A l \in live' : \A k \in live' : k.from = l.from /\ k.at = l.at => k = l
  <2>1. \A l \in live : ~(l.from = from /\ l.at = at)
    BY DEF LiveIn
  <2>2. \A l \in live : \A k \in live : k.from = l.from /\ k.at = l.at => k = l
    BY DEF HeapInv, GivenOnce
  <2> QED
    BY <1>1, <2>1, <2>2
<1> QED
  BY <1>1, <1>2, <1>3 DEF new

\* slab_alloc, from a page that the cache has or from a new one.
LEMMA SlabAllocKeeps ==
    ASSUME HeapInv, NEW size \in Requests, SlabAlloc(size)
    PROVE  HeapInv' /\ refused' = 0
<1>1. size <= SlabMax /\ blocks' = blocks
  BY DEF SlabAlloc
<1>2. PICK at \in SlabSlots :
         /\ Gets(size, "slab", at) /\ ~LiveIn("slab", at) /\ at \in SlotsOf(slab.pages)'
         /\ slab' \in Slab /\ slab.pages \subseteq slab'.pages /\ slab'.free \subseteq SlotsOf(slab.pages)'
         /\ \A s \in SlotsOf(slab.pages)' :
               s \in slab'.free <=> s # at /\ (s \in SlotsOf(slab.pages) => s \in slab.free)
  <2>1. CASE \E s \in slab.free : slab' = [slab EXCEPT !.free = @ \ {s}] /\ Gets(size, "slab", s)
    <3>1. PICK s \in slab.free : slab' = [slab EXCEPT !.free = @ \ {s}] /\ Gets(size, "slab", s)
      BY <2>1
    <3>2. slab'.pages = slab.pages /\ slab'.free = slab.free \ {s} /\ slab' \in Slab
      BY <3>1, SlabFields DEF Slab
    <3>3. s \in SlotsOf(slab.pages) /\ ~LiveIn("slab", s) /\ s \in SlabSlots
      BY LiveWhere, SlabFields DEF HeapInv
    <3>4. SlotsOf(slab.pages)' = SlotsOf(slab.pages)
      BY <3>2 DEF SlotsOf
    <3> QED
      BY <3>1, <3>2, <3>3, <3>4 DEF HeapInv
  <2>2. CASE \E page \in SlabPages \ slab.pages, k \in 1..PerPage :
                /\ slab' = [pages |-> slab.pages \cup {page},
                            free |-> ({page} \X (1..PerPage)) \ {<<page, k>>}]
                /\ Gets(size, "slab", <<page, k>>) /\ slab.free = {}
    <3>1. PICK page \in SlabPages \ slab.pages, k \in 1..PerPage :
                /\ slab' = [pages |-> slab.pages \cup {page},
                            free |-> ({page} \X (1..PerPage)) \ {<<page, k>>}]
                /\ Gets(size, "slab", <<page, k>>) /\ slab.free = {}
      BY <2>2
    <3> DEFINE s0 == <<page, k>>
    <3>2. /\ slab'.pages = slab.pages \cup {page} /\ slab'.free = ({page} \X (1..PerPage)) \ {s0}
          /\ s0 \in SlabSlots
      BY <3>1 DEF SlabSlots
    <3>3. slab' \in Slab
      <4>1. slab'.pages \in SUBSET SlabPages
        BY <3>2, SlabFields
      <4>2. slab'.free \in SUBSET SlabSlots
        BY <3>2 DEF SlabSlots
      <4> QED
        BY <3>1, <4>1, <4>2 DEF Slab
    <3>4. SlotsOf(slab.pages)' = SlotsOf(slab.pages) \cup ({page} \X (1..PerPage))
          /\ SlotsOf(slab.pages) \cap ({page} \X (1..PerPage)) = {}
      BY <3>2, <3>1 DEF SlotsOf
    <3>5. s0 \in {page} \X (1..PerPage)
      OBVIOUS
    <3>6. ~LiveIn("slab", s0)
      BY <3>4, <3>5, LiveWhere
    <3> HIDE DEF s0
    <3>7. Gets(size, "slab", s0) /\ slab.free = {}
      BY <3>1 DEF s0
    <3> QED
      BY <3>2, <3>3, <3>4, <3>5, <3>6, <3>7
  <2> QED
    BY <2>1, <2>2 DEF SlabAlloc
<1> DEFINE new == Given(size, "slab", at)
<1>3. /\ refused' = 0 /\ live' = live \cup {new} /\ new.size = size /\ new.from = "slab" /\ new.at = at
      /\ \A f, b : LiveIn(f, b)' <=> LiveIn(f, b) \/ (f = "slab" /\ b = at)
      /\ \A l \in live' : \A k \in live' : k.from = l.from /\ k.at = l.at => k = l
  BY <1>2, Another
<1> HIDE DEF new
<1>4. SlotsOf(slab.pages) \subseteq SlotsOf(slab.pages)'
  BY <1>2 DEF SlotsOf
<1>5. Located'
  BY <1>2, <1>3, <1>4 DEF HeapInv, Located
<1>6. \A b \in DOMAIN blocks : blocks[b].used <=> LiveIn("heap", InHeap(b))'
  <2>1. \A b : LiveIn("heap", InHeap(b))' <=> LiveIn("heap", InHeap(b))
    BY <1>3
  <2> QED
    BY <2>1, LiveWhere
<1>7. \A s \in SlotsOf(slab.pages)' : s \in slab'.free <=> ~LiveIn("slab", s)'
  BY <1>2, <1>3, LiveWhere
<1>8. at[1] \in slab'.pages
  BY <1>2 DEF SlotsOf
<1>9. \A l \in live' :
        /\ l.from = "heap" => l.at[2] \in DOMAIN blocks /\ blocks[l.at[2]].size >= l.size
        /\ l.from = "slab" => l.size <= SlabMax /\ l.at[1] \in slab'.pages
  BY <1>1, <1>2, <1>3, <1>8 DEF HeapInv, GivenOnce
<1>10. GivenOnce'
  BY <1>1, <1>3, <1>6, <1>7, <1>9 DEF GivenOnce, LiveIn, SlotsOf
<1>11. Tiles(blocks)'
  BY <1>1 DEF HeapInv, Tiles, End
<1> QED
  BY <1>2, <1>3, <1>5, <1>10, <1>11 DEF HeapInv

\* The first run that has room is that also while the walk has only come so far.
LEMMA FirstFit ==
    ASSUME NEW bs, Tiles(bs), NEW size, NEW a \in Fitting(bs, size)
    PROVE  /\ a \in Bytes /\ a \in DOMAIN Coalesced(bs, a) /\ IsFree(Coalesced(bs, a), a)
           /\ Coalesced(bs, a)[a].size >= size
<1> DEFINE all == Coalesced(bs, HeapSize)
           some == Coalesced(bs, a)
<1>1. a \in DOMAIN all /\ ~all[a].used /\ all[a].size >= size
  BY DEF Fitting, IsFree
<1>2. /\ DOMAIN all = DOMAIN bs \ Inner(bs, HeapSize) /\ all[a] \in Block /\ all[a].used = bs[a].used
      /\ a \in Heads(bs) /\ a <= HeapSize => End(all, a) = RunEnd(bs, a)
      /\ ~(a \in Heads(bs) /\ a <= HeapSize) => all[a] = bs[a]
  <2>1. IsMerged(bs, HeapSize, all)
    BY Merged
  <2> HIDE DEF all
  <2> QED
    BY <1>1, <2>1 DEF IsMerged
<1>3. a \in DOMAIN bs /\ a \in Bytes /\ a \in Nat /\ a <= HeapSize
  BY <1>1, <1>2, Bounds, HeapAssumption DEF Tiles, Bytes
<1>4. a \notin Inner(bs, a)
  <2>1. a \notin Inner(bs, HeapSize)
    BY <1>1, <1>2
  <2>2. \A h \in Heads(bs) : h \in Nat
    BY Bounds DEF Heads
  <2> QED
    BY <1>3, <2>1, <2>2, HeapAssumption DEF Inner
<1>5. /\ DOMAIN some = DOMAIN bs \ Inner(bs, a)
      /\ \A b \in DOMAIN some :
            /\ some[b] \in Block /\ some[b].used = bs[b].used
            /\ b \in Heads(bs) /\ b <= a => End(some, b) = RunEnd(bs, b)
            /\ ~(b \in Heads(bs) /\ b <= a) => some[b] = bs[b]
  <2>1. IsMerged(bs, a, some)
    BY Merged
  <2> HIDE DEF some
  <2> QED
    BY <2>1 DEF IsMerged
<1> HIDE DEF all, some
<1>6. a \in DOMAIN some /\ some[a] \in Block /\ some[a].used = bs[a].used
  BY <1>3, <1>4, <1>5
<1>7. some[a].size >= size
  <2>1. CASE a \in Heads(bs)
    <3>1. End(all, a) = RunEnd(bs, a) /\ End(some, a) = RunEnd(bs, a)
      BY <1>2, <1>3, <1>5, <1>6, <2>1
    <3>2. all[a].size \in Nat /\ some[a].size \in Nat
      BY <1>2, <1>6, HeapAssumption DEF Block, Bytes
    <3>3. all[a].size = some[a].size
      BY <1>3, <3>1, <3>2, HeapAssumption DEF End
    <3> QED
      BY <1>1, <3>3
  <2>2. CASE a \notin Heads(bs)
    BY <1>1, <1>2, <1>5, <1>6, <2>2
  <2> QED
    BY <2>1, <2>2
<1> QED
  BY <1>1, <1>2, <1>3, <1>6, <1>7 DEF IsFree, some

\* heap_alloc, when there is room.
LEMMA HeapAllocKeeps ==
    ASSUME HeapInv, NEW size \in Requests, NEW a \in Fitting(blocks, size),
           blocks' = TakeBlock(Coalesced(blocks, a), a, size), Gets(size, "heap", InHeap(a)), slab' = slab
    PROVE  HeapInv' /\ refused' = 0
<1> DEFINE cs == Coalesced(blocks, a)
<1>1. Tiles(blocks) /\ a \in Bytes /\ a \in DOMAIN cs /\ IsFree(cs, a) /\ cs[a].size >= size
  BY FirstFit DEF HeapInv
<1>2. Tiles(cs) /\ \A b \in DOMAIN blocks : blocks[b].used => b \in DOMAIN cs /\ cs[b] = blocks[b]
  BY <1>1, MergedTiles
<1>3. \A b \in DOMAIN cs : b \in DOMAIN blocks /\ cs[b].used = blocks[b].used
  <2>1. IsMerged(blocks, a, cs)
    BY <1>1, Merged
  <2> HIDE DEF cs
  <2> QED
    BY <2>1 DEF IsMerged
<1>4. blocks' = TakeBlock(cs, a, size) /\ size \in Nat
  BY RequestAssumption
<1> HIDE DEF cs
<1>5. /\ Tiles(blocks') /\ DOMAIN cs \subseteq DOMAIN blocks'
      /\ \A b \in DOMAIN blocks' : blocks'[b].used <=> b = a \/ (b \in DOMAIN cs /\ cs[b].used)
      /\ \A b \in DOMAIN cs : b # a => blocks'[b] = cs[b]
      /\ blocks'[a].size >= size
  BY <1>1, <1>2, <1>4, Taken
<1>6. ~LiveIn("heap", InHeap(a))
  <2>1. ~cs[a].used
    BY <1>1 DEF IsFree
  <2> QED
    BY <1>1, <1>3, <2>1, LiveWhere
<1> DEFINE new == Given(size, "heap", InHeap(a))
<1>7. /\ refused' = 0 /\ live' = live \cup {new} /\ new.size = size /\ new.from = "heap" /\ new.at = InHeap(a)
      /\ \A f, b : LiveIn(f, b)' <=> LiveIn(f, b) \/ (f = "heap" /\ b = InHeap(a))
      /\ \A l \in live' : \A k \in live' : k.from = l.from /\ k.at = l.at => k = l
  BY <1>6, Another
<1>8. new.at = InHeap(new.at[2]) /\ new.at[2] = a
  BY <1>7, InHeapIs
<1> HIDE DEF new
<1>9. Located'
  BY <1>7, <1>8 DEF HeapInv, Located
<1>10. \A b \in DOMAIN blocks' : blocks'[b].used <=> LiveIn("heap", InHeap(b))'
  <2> SUFFICES ASSUME NEW b \in DOMAIN blocks' PROVE blocks'[b].used <=> LiveIn("heap", InHeap(b))'
    OBVIOUS
  <2>1. LiveIn("heap", InHeap(b))' <=> (b \in DOMAIN blocks /\ blocks[b].used) \/ b = a
    BY <1>7, LiveWhere, InHeapIs
  <2> QED
    BY <1>2, <1>3, <1>5, <2>1
<1>11. \A s \in SlotsOf(slab.pages) : s \in slab.free <=> ~LiveIn("slab", s)'
  BY <1>7, LiveWhere
<1>12. ASSUME NEW l \in live'
       PROVE  /\ l.from = "heap" => l.at[2] \in DOMAIN blocks' /\ blocks'[l.at[2]].size >= l.size
              /\ l.from = "slab" => l.size <= SlabMax /\ l.at[1] \in slab.pages
  <2>1. CASE l = new
    BY <1>1, <1>5, <1>7, <1>8, <2>1
  <2>2. CASE l \in live /\ l.from = "heap"
    <3>1. l.at = InHeap(l.at[2]) /\ l.at[2] \in DOMAIN blocks /\ blocks[l.at[2]].size >= l.size
      BY <2>2 DEF HeapInv, GivenOnce, Located
    <3>2. LiveIn("heap", InHeap(l.at[2]))
      BY <2>2, <3>1 DEF LiveIn
    <3>3. blocks[l.at[2]].used /\ l.at[2] # a
      BY <3>2, LiveWhere, <1>6
    <3> QED
      BY <1>2, <1>5, <2>2, <3>1, <3>3
  <2>3. CASE l \in live /\ l.from # "heap"
    BY <2>3 DEF HeapInv, GivenOnce
  <2> QED
    BY <1>7, <2>1, <2>2, <2>3
<1>13. GivenOnce'
  BY <1>7, <1>10, <1>11, <1>12 DEF GivenOnce, LiveIn, SlotsOf
<1>14. Tiles(blocks)'
  BY <1>5 DEF Tiles, End
<1> QED
  BY <1>7, <1>9, <1>13, <1>14 DEF HeapInv, SlotsOf

\* heap_alloc, when there is none: the walk has merged everything.
LEMMA RefusedKeeps ==
    ASSUME HeapInv, NEW size \in Requests, blocks' = Coalesced(blocks, HeapSize), refused' = size,
           live' = live, slab' = slab
    PROVE  HeapInv'
<1>1. Tiles(blocks) /\ HeapSize \in Bytes
  BY HeapAssumption DEF HeapInv, Bytes
<1>2. Tiles(blocks') /\ \A b \in DOMAIN blocks : blocks[b].used => b \in DOMAIN blocks' /\ blocks'[b] = blocks[b]
  BY <1>1, MergedTiles
<1>3. \A b \in DOMAIN blocks' : b \in DOMAIN blocks /\ blocks'[b].used = blocks[b].used
  <2>1. IsMerged(blocks, HeapSize, blocks')
    BY <1>1, Merged
  <2> QED
    BY <2>1 DEF IsMerged
<1>4. \A b \in DOMAIN blocks' : blocks'[b].used <=> LiveIn("heap", InHeap(b))
  BY <1>2, <1>3, LiveWhere
<1>5. ASSUME NEW l \in live, l.from = "heap"
      PROVE  l.at[2] \in DOMAIN blocks' /\ blocks'[l.at[2]].size >= l.size
  <2>1. l.at = InHeap(l.at[2]) /\ l.at[2] \in DOMAIN blocks /\ blocks[l.at[2]].size >= l.size
    BY <1>5 DEF HeapInv, GivenOnce, Located
  <2>2. LiveIn("heap", InHeap(l.at[2]))
    BY <1>5, <2>1 DEF LiveIn
  <2> QED
    BY <1>2, <2>1, <2>2, LiveWhere
<1>6. GivenOnce'
  BY <1>4, <1>5 DEF HeapInv, GivenOnce, LiveIn
<1>7. Located'
  BY DEF HeapInv, Located
<1> QED
  BY <1>2, <1>6, <1>7 DEF HeapInv, Tiles, End, SlotsOf

\* kfree, by the magic in the header.
LEMMA KfreeKeeps ==
    ASSUME HeapInv, NEW l \in live, Kfree(l)
    PROVE  HeapInv' /\ refused' = 0
<1>1. live' = live \ {l} /\ refused' = 0
  BY DEF Kfree
<1>2. \A k \in live : k.from = l.from /\ k.at = l.at => k = l
  BY DEF HeapInv, GivenOnce
<1>3. \A f, b : LiveIn(f, b)' <=> LiveIn(f, b) /\ ~(f = l.from /\ b = l.at)
  BY <1>1, <1>2 DEF LiveIn
<1>4. CASE l.from = "slab"
  <2>1. slab' = [slab EXCEPT !.free = @ \cup {l.at}] /\ blocks' = blocks
    BY <1>4 DEF Kfree
  <2>2. l.at \in SlotsOf(slab.pages)
    BY <1>4 DEF HeapInv, Located
  <2>3. l.at \in SlabSlots
    BY <2>2, SlabFields DEF SlotsOf, SlabSlots
  <2>4. slab'.pages = slab.pages /\ slab'.free = slab.free \cup {l.at} /\ slab' \in Slab
    BY <2>1, <2>3, SlabFields DEF Slab
  <2>5. \A b \in DOMAIN blocks : blocks[b].used <=> LiveIn("heap", InHeap(b))'
    BY <1>3, <1>4, LiveWhere
  <2>6. \A s \in SlotsOf(slab.pages) : s \in slab'.free <=> ~LiveIn("slab", s)'
    BY <1>3, <1>4, <2>4, LiveWhere
  <2>7. GivenOnce'
    BY <1>1, <2>1, <2>4, <2>5, <2>6 DEF HeapInv, GivenOnce, LiveIn, SlotsOf
  <2>8. Located'
    BY <1>1, <2>4 DEF HeapInv, Located, SlotsOf
  <2>9. Tiles(blocks)'
    BY <2>1 DEF HeapInv, Tiles, End
  <2> QED
    BY <1>1, <2>2, <2>4, <2>7, <2>8, <2>9 DEF HeapInv, SlotsOf
<1>5. CASE l.from # "slab"
  <2> DEFINE a == l.at[2]
  <2>1. blocks' = FreeBlk(blocks, a) /\ slab' = slab /\ l.from = "heap" /\ l.at = InHeap(a)
        /\ a \in DOMAIN blocks
    BY <1>5 DEF Kfree, HeapInv, Located, GivenOnce
  <2> HIDE DEF a
  <2>2. /\ Tiles(blocks') /\ DOMAIN blocks' \subseteq DOMAIN blocks
        /\ \A b \in DOMAIN blocks' : blocks'[b].used <=> b # a /\ blocks[b].used
        /\ \A b \in DOMAIN blocks : b # a /\ blocks[b].used => b \in DOMAIN blocks' /\ blocks'[b] = blocks[b]
    BY <2>1, FreeKeeps DEF HeapInv
  <2>3. \A b \in DOMAIN blocks' : blocks'[b].used <=> LiveIn("heap", InHeap(b))'
    <3>1. \A b : LiveIn("heap", InHeap(b))' <=> b \in DOMAIN blocks /\ blocks[b].used /\ b # a
      BY <1>3, <2>1, LiveWhere, InHeapIs
    <3> QED
      BY <2>2, <3>1
  <2>4. \A s \in SlotsOf(slab.pages) : s \in slab.free <=> ~LiveIn("slab", s)'
    BY <1>3, <2>1, LiveWhere
  <2>5. ASSUME NEW k \in live', k.from = "heap"
        PROVE  k.at[2] \in DOMAIN blocks' /\ blocks'[k.at[2]].size >= k.size
    <3>1. k \in live /\ k # l /\ k.at = InHeap(k.at[2]) /\ k.at[2] \in DOMAIN blocks
          /\ blocks[k.at[2]].size >= k.size
      BY <1>1, <2>5 DEF HeapInv, GivenOnce, Located
    <3>2. LiveIn("heap", InHeap(k.at[2]))
      BY <2>5, <3>1 DEF LiveIn
    <3>3. k.at[2] # a
      BY <1>2, <2>1, <2>5, <3>1
    <3> QED
      BY <2>2, <3>1, <3>2, <3>3, LiveWhere
  <2>6. GivenOnce'
    BY <1>1, <2>1, <2>3, <2>4, <2>5 DEF HeapInv, GivenOnce, LiveIn, SlotsOf
  <2>7. Located'
    BY <1>1, <2>1 DEF HeapInv, Located
  <2> QED
    BY <1>1, <2>1, <2>2, <2>6, <2>7 DEF HeapInv, Tiles, End, SlotsOf
<1> QED
  BY <1>1, <1>4, <1>5

\* ... and it is true that there is none.
LEMMA RefusedRightly ==
    ASSUME HeapInv, NEW size \in Requests, Fitting(blocks, size) = {},
           blocks' = Coalesced(blocks, HeapSize), refused' = size
    PROVE  RefusedOnlyWhenFull'
<1>1. Tiles(blocks) /\ HeapSize \in Bytes /\ size \in Nat \ {0}
  BY HeapAssumption, RequestAssumption DEF HeapInv, Bytes
<1>2. \A b \in DOMAIN blocks : blocks[b].used => b \in DOMAIN blocks' /\ blocks'[b] = blocks[b]
  BY <1>1, MergedTiles
<1>3. FreeBytes' = (0..(HeapSize - 1)) \ UNION {a..(End(blocks', a) - 1) : a \in {b \in DOMAIN blocks' : blocks'[b].used}}
  BY DEF FreeBytes
<1>4. SUFFICES ASSUME NEW a \in 0..(HeapSize - HdrSize - size), a..(a + HdrSize + size - 1) \subseteq FreeBytes'
               PROVE  FALSE
  BY DEF RefusedOnlyWhenFull
<1>5. ASSUME NEW n \in a..(a + HdrSize + size - 1), NEW u \in DOMAIN blocks, blocks[u].used,
             u <= n, n < End(blocks, u)
      PROVE  FALSE
  <2>1. u \in DOMAIN blocks' /\ blocks'[u].used /\ End(blocks', u) = End(blocks, u)
    BY <1>2, <1>5 DEF End
  <2>2. u \in Nat /\ End(blocks, u) \in Nat /\ n \in Int
    BY <1>1, HeapAssumption, Bounds
  <2>3. n \in u..(End(blocks', u) - 1)
    BY <1>5, <2>1, <2>2
  <2>4. n \in UNION {b..(End(blocks', b) - 1) : b \in {c \in DOMAIN blocks' : blocks'[c].used}}
    BY <2>1, <2>3
  <2>5. n \in FreeBytes'
    BY <1>4
  <2> QED
    BY <1>3, <2>4, <2>5
<1> QED
  BY <1>1, <1>5, NoRoom

----------------------------------------------------------------------------
(* The specification.                                                       *)

\* What every call preserves: the list, what lives where, and why the last request was refused.
HeapAll == HeapInv /\ RefusedOnlyWhenFull

LEMMA HeapStarts == ASSUME HeapInit PROVE HeapAll
<1> DEFINE first == [size |-> HeapSize - HdrSize, used |-> FALSE]
<1>1. HeapSize \in Nat /\ HdrSize \in Nat \ {0} /\ HdrSize <= HeapSize /\ first \in Block
      /\ first.size = HeapSize - HdrSize /\ ~first.used
  BY HeapAssumption DEF Block, Bytes
<1>2. blocks = [a \in {0} |-> first] /\ live = {} /\ refused = 0 /\ slab = [pages |-> {}, free |-> {}]
  BY DEF HeapInit
<1> HIDE DEF first
<1>3. DOMAIN blocks = {0} /\ blocks[0] = first
  BY <1>2
<1>4. End(blocks, 0) = HeapSize
  BY <1>1, <1>3 DEF End
<1>5. Tiles(blocks)
  BY <1>1, <1>3, <1>4 DEF Tiles, Bytes
<1>6. slab \in Slab /\ slab.free = {} /\ slab.pages = {} /\ SlotsOf(slab.pages) = {}
  BY <1>2 DEF Slab, SlotsOf
<1>7. GivenOnce
  BY <1>1, <1>2, <1>3, <1>6 DEF GivenOnce, SlotsOf
<1> QED
  BY <1>2, <1>5, <1>6, <1>7 DEF HeapAll, HeapInv, Located, RefusedOnlyWhenFull

LEMMA HeapKept ==
    ASSUME HeapAll, [HeapNext]_heapListVars
    PROVE  HeapAll'
<1>1. CASE UNCHANGED heapListVars
  <2>1. HeapInv'
    BY <1>1 DEF HeapAll, HeapInv, heapListVars, Tiles, End, SlotsOf, Located, GivenOnce
  <2>2. RefusedOnlyWhenFull'
    BY <1>1 DEF HeapAll, heapListVars, RefusedOnlyWhenFull, FreeBytes, End
  <2> QED
    BY <2>1, <2>2 DEF HeapAll
<1>2. ASSUME NEW size \in Requests, SlabAlloc(size) PROVE HeapAll'
  BY <1>2, SlabAllocKeeps DEF HeapAll, RefusedOnlyWhenFull
<1>3. ASSUME NEW size \in Requests, HeapAlloc(size) PROVE HeapAll'
  <2>1. CASE \E a \in Fitting(blocks, size) : /\ blocks' = TakeBlock(Coalesced(blocks, a), a, size)
                                             /\ Gets(size, "heap", InHeap(a)) /\ slab' = slab
    BY <2>1, HeapAllocKeeps DEF HeapAll, RefusedOnlyWhenFull
  <2>2. CASE /\ Fitting(blocks, size) = {} /\ blocks' = Coalesced(blocks, HeapSize)
             /\ refused' = size /\ live' = live /\ slab' = slab
    BY <2>2, RefusedKeeps, RefusedRightly DEF HeapAll
  <2> QED
    BY <1>3, <2>1, <2>2 DEF HeapAlloc
<1>4. ASSUME NEW l \in live, Kfree(l) PROVE HeapAll'
  BY <1>4, KfreeKeeps DEF HeapAll, RefusedOnlyWhenFull
<1> QED
  BY <1>1, <1>2, <1>3, <1>4 DEF HeapNext

\* The list of blocks tiles the heap, every object is where kmalloc put it and lives there alone,
\* and the last refusal was right: together this is inductive.
THEOREM HeapInvariance == HeapSpec => []HeapAll
  BY HeapStarts, HeapKept, PTL DEF HeapSpec

\* The blocks cover the heap from end to end and none overlap, whatever kmalloc splits and merges
\* (heap_alloc) and kfree merges (heap_free).
THEOREM TheBlocksTile == HeapSpec => []BlocksTile
<1>1. HeapAll => BlocksTile
  BY DEF HeapAll, HeapInv, Tiles, BlocksTile
<1> QED
  BY <1>1, HeapInvariance, PTL

\* kmalloc gives a block or a slot to one caller at a time, large enough, and kfree gives it back
\* to where it came from.
THEOREM NothingGivenTwice == HeapSpec => []GivenOnce
<1>1. HeapAll => GivenOnce
  BY DEF HeapAll, HeapInv
<1> QED
  BY <1>1, HeapInvariance, PTL

\* heap_alloc returns NULL only when no free stretch, however it was freed, could hold the object
\* and its header.
THEOREM NoFalseRefusal == HeapSpec => []RefusedOnlyWhenFull
<1>1. HeapAll => RefusedOnlyWhenFull
  BY DEF HeapAll
<1> QED
  BY <1>1, HeapInvariance, PTL

----------------------------------------------------------------------------
(* The regions of a task.                                                 *)

\* The regions vs are not empty, lie below lim and do not overlap.
Apart(vs, lim) ==
    \A v, w \in vs :
       /\ v.start < v.end /\ v.end <= lim
       /\ v = w \/ v.end <= w.start \/ w.end <= v.start

\* What the steps preserve.
VmaInv ==
    /\ alive \subseteq Tasks /\ unborn \subseteq Tasks
    /\ tgid \in [Tasks -> Tasks \cup {0}]
    /\ table \in [Tasks -> SUBSET Regions]
    /\ top \in [Tasks -> Addresses]
    /\ \A p \in Tasks : Apart(table[p], top[p])

USE PagesAssumption DEF Addresses

\* The leader of a task is a task.
LEMMA LeaderIsTask == ASSUME VmaInv, NEW p \in alive PROVE p \in Tasks /\ Leader(p) \in Tasks
  BY DEF VmaInv, Leader

\* The table and mmap_next of one task change, the rest of VmaInv is as it was.
LEMMA OneTable ==
  ASSUME VmaInv, UNCHANGED <<alive, unborn, tgid>>, NEW g \in Tasks,
         NEW vs \in SUBSET Regions, NEW lim \in Addresses, Apart(vs, lim),
         table' = [table EXCEPT ![g] = vs], top' = [top EXCEPT ![g] = lim]
  PROVE  VmaInv'
  BY DEF VmaInv

\* What is made of region v: ps are parts of it that do not overlap.
Parts(v, ps) ==
    /\ \A n \in ps : n.start < n.end /\ v.start <= n.start /\ n.end <= v.end
    /\ \A n, m \in ps : n = m \/ n.end <= m.start \/ m.end <= n.start

\* Parts of regions that are apart are apart.
LEMMA PartsApart ==
  ASSUME NEW vs \in SUBSET Regions, NEW lim \in Addresses, Apart(vs, lim),
         NEW f \in [vs -> SUBSET Regions], \A v \in vs : Parts(v, f[v])
  PROVE  Apart(UNION {f[v] : v \in vs}, lim)
<1> SUFFICES ASSUME NEW v \in vs, NEW n \in f[v], NEW w \in vs, NEW m \in f[w]
             PROVE  /\ n.start < n.end /\ n.end <= lim
                    /\ n = m \/ n.end <= m.start \/ m.end <= n.start
  BY DEF Apart
<1>1. /\ n.start < n.end /\ v.start <= n.start /\ n.end <= v.end
      /\ w.start <= m.start /\ m.end <= w.end
  BY DEF Parts
<1>2. v.end <= lim /\ (v = w \/ v.end <= w.start \/ w.end <= v.start)
  BY DEF Apart
<1>3. n \in Regions /\ m \in Regions /\ v \in Regions /\ w \in Regions
  OBVIOUS
<1>4. CASE v = w
  BY <1>1, <1>2, <1>3, <1>4 DEF Parts, Regions
<1>5. CASE v # w
  BY <1>1, <1>2, <1>3, <1>5 DEF Regions
<1> QED
  BY <1>4, <1>5

\* What munmap leaves of a region.
LEMMA OutsideParts ==
  ASSUME NEW v \in Regions, v.start < v.end, NEW a \in Addresses, NEW b \in Addresses, a < b
  PROVE  Outside(v, a, b) \in SUBSET Regions /\ Parts(v, Outside(v, a, b))
<1>1. CASE ~Overlaps(v, a, b)
  BY <1>1 DEF Outside, Parts, Regions
<1>2. CASE Overlaps(v, a, b)
  <2>1. Before(v, a) \in SUBSET Regions
        /\ \A n \in Before(v, a) : n.start = v.start /\ n.end = a /\ v.start < a
    BY DEF Before, Regions
  <2>2. After(v, b) \in SUBSET Regions
        /\ \A n \in After(v, b) : n.start = b /\ n.end = v.end /\ b < v.end
    BY DEF After, Regions
  <2>3. Outside(v, a, b) = Before(v, a) \cup After(v, b)
    BY <1>2 DEF Outside
  <2>4. \A n, m \in Before(v, a) : n = m
    BY DEF Before
  <2>5. \A n, m \in After(v, b) : n = m
    BY DEF After
  <2>6. v.start < b /\ a < v.end
    BY <1>2 DEF Overlaps
  <2> QED
    BY <2>1, <2>2, <2>3, <2>4, <2>5, <2>6 DEF Parts, Regions
<1> QED
  BY <1>1, <1>2

\* What mprotect makes of a region that it meets.
LEMMA SplitParts ==
  ASSUME NEW v \in Regions, v.start < v.end, NEW a \in Addresses, NEW b \in Addresses, a < b,
         NEW prot \in Prots, Overlaps(v, a, b)
  PROVE  Split(v, a, b, prot) \in SUBSET Regions /\ Parts(v, Split(v, a, b, prot))
<1> DEFINE mid == [Inside(v, a, b) EXCEPT !.prot = prot]
<1>1. Before(v, a) \in SUBSET Regions
      /\ \A n \in Before(v, a) : n.start = v.start /\ n.end = a /\ v.start < a
  BY DEF Before, Regions
<1>2. After(v, b) \in SUBSET Regions
      /\ \A n \in After(v, b) : n.start = b /\ n.end = v.end /\ b < v.end
  BY DEF After, Regions
<1>3. v.start < b /\ a < v.end
  BY DEF Overlaps
<1>4. /\ mid \in Regions /\ mid.start = Larger(v.start, a) /\ mid.end = Smaller(v.end, b)
  BY DEF Inside, Larger, Smaller, Regions
<1>5. /\ v.start <= mid.start /\ a <= mid.start /\ mid.end <= v.end /\ mid.end <= b
      /\ mid.start < mid.end
  BY <1>3, <1>4 DEF Larger, Smaller, Regions
<1>6. Split(v, a, b, prot) = Before(v, a) \cup After(v, b) \cup {mid}
  BY DEF Split
<1>7. /\ \A n, m \in Before(v, a) : n = m
      /\ \A n, m \in After(v, b) : n = m
  BY DEF Before, After
<1>8. Split(v, a, b, prot) \in SUBSET Regions
  BY <1>1, <1>2, <1>4, <1>6
<1> HIDE DEF mid
<1>9. \A n \in Split(v, a, b, prot) : n.start < n.end /\ v.start <= n.start /\ n.end <= v.end
  BY <1>1, <1>2, <1>3, <1>5, <1>6 DEF Regions
<1>10. \A n, m \in Split(v, a, b, prot) : n = m \/ n.end <= m.start \/ m.end <= n.start
  BY <1>1, <1>2, <1>3, <1>4, <1>5, <1>6, <1>7 DEF Regions
<1> QED
  BY <1>8, <1>9, <1>10 DEF Parts

----------------------------------------------------------------------------
(* The calls that change the regions of the caller's group.                 *)

\* A new region lies above the others.
LEMMA MmapKeeps ==
  ASSUME VmaInv, NEW p \in alive, NEW len \in Addresses \ {0}, NEW prot \in NewProts,
         NEW buf \in Buffers \cup {NoBuffer}, Mmap(p, len, prot, buf)
  PROVE  VmaInv'
<1> DEFINE g == Leader(p)
           r == [start |-> top[g], end |-> top[g] + len, prot |-> prot, buf |-> buf]
<1>1. g \in Tasks /\ table[g] \in SUBSET Regions /\ top[g] \in Addresses /\ Apart(table[g], top[g])
  BY LeaderIsTask DEF VmaInv
<1>2. /\ table' = [table EXCEPT ![g] = table[g] \cup {r}]
      /\ top' = [top EXCEPT ![g] = top[g] + len]
      /\ top[g] + len <= NPages /\ UNCHANGED <<alive, unborn, tgid>>
  BY DEF Mmap, taskVars
<1>3. r \in Regions /\ top[g] + len \in Addresses
  BY <1>1, <1>2, ProtsAssumption DEF Regions
<1>4. Apart(table[g] \cup {r}, top[g] + len)
  <2>1. \A v \in table[g] : v \in Regions /\ v.start < v.end /\ v.end <= r.start
    BY <1>1 DEF Apart
  <2>2. r.start < r.end /\ r.end = top[g] + len
    BY <1>1
  <2> HIDE DEF g, r
  <2>3. \A v \in table[g] : v.end <= top[g] + len
    BY <1>1, <1>3, <2>1, <2>2 DEF Regions
  <2>4. \A v, w \in table[g] : v = w \/ v.end <= w.start \/ w.end <= v.start
    BY <1>1 DEF Apart
  <2>5. r.end <= top[g] + len
    BY <1>3, <2>2
  <2> QED
    BY <2>1, <2>2, <2>3, <2>4, <2>5 DEF Apart
<1> QED
  BY <1>1, <1>2, <1>3, <1>4, OneTable

LEMMA MunmapKeeps ==
  ASSUME VmaInv, NEW p \in alive, NEW a \in Addresses, NEW b \in Addresses, a < b,
         Munmap(p, a, b)
  PROVE  VmaInv'
<1> DEFINE g == Leader(p)
           f == [v \in table[g] |-> Outside(v, a, b)]
           kept == UNION {Outside(v, a, b) : v \in table[g]}
<1>1. g \in Tasks /\ table[g] \in SUBSET Regions /\ top[g] \in Addresses /\ Apart(table[g], top[g])
  BY LeaderIsTask DEF VmaInv
<1>2. table' = [table EXCEPT ![g] = kept] /\ UNCHANGED <<top, alive, unborn, tgid>>
  BY DEF Munmap, taskVars
<1>3. \A v \in table[g] : Outside(v, a, b) \in SUBSET Regions /\ Parts(v, Outside(v, a, b))
  BY <1>1, OutsideParts DEF Apart
<1>4. f \in [table[g] -> SUBSET Regions] /\ \A v \in table[g] : Parts(v, f[v])
  BY <1>3
<1>5. kept = UNION {f[v] : v \in table[g]} /\ kept \in SUBSET Regions
  BY <1>3
<1>6. Apart(kept, top[g])
  BY <1>1, <1>4, <1>5, PartsApart
<1>7. top' = [top EXCEPT ![g] = top[g]]
  BY <1>1, <1>2 DEF VmaInv
<1> HIDE DEF g, kept
<1> QED
  BY <1>1, <1>2, <1>5, <1>6, <1>7, OneTable

LEMMA MprotectKeeps ==
  ASSUME VmaInv, NEW p \in alive, NEW a \in Addresses, NEW b \in Addresses, a < b,
         NEW prot \in Prots, Mprotect(p, a, b, prot)
  PROVE  VmaInv'
<1> DEFINE g == Leader(p)
           over == {v \in table[g] : Overlaps(v, a, b)}
           f == [v \in table[g] |-> IF v \in over THEN Split(v, a, b, prot) ELSE {v}]
           new == (table[g] \ over) \cup UNION {Split(v, a, b, prot) : v \in over}
<1>1. g \in Tasks /\ table[g] \in SUBSET Regions /\ top[g] \in Addresses /\ Apart(table[g], top[g])
  BY LeaderIsTask DEF VmaInv
<1>2. table' = [table EXCEPT ![g] = new] /\ UNCHANGED <<top, alive, unborn, tgid>>
  BY DEF Mprotect, taskVars
<1>3. \A v \in table[g] : v \in Regions /\ v.start < v.end
  BY <1>1 DEF Apart
<1>4. \A v \in over : Split(v, a, b, prot) \in SUBSET Regions /\ Parts(v, Split(v, a, b, prot))
  BY <1>3, SplitParts
<1>5. \A v \in table[g] : Parts(v, {v})
  BY <1>3 DEF Parts, Regions
<1>6. f \in [table[g] -> SUBSET Regions] /\ \A v \in table[g] : Parts(v, f[v])
  BY <1>3, <1>4, <1>5
<1>7. new = UNION {f[v] : v \in table[g]} /\ new \in SUBSET Regions
  <2>1. ASSUME NEW x \in new PROVE x \in Regions /\ \E v \in table[g] : x \in f[v]
    <3>1. CASE x \in table[g] \ over
      <4>1. x \in f[x]
        BY <3>1
      <4> QED
        BY <3>1, <4>1, <1>3
    <3>2. CASE x \notin table[g] \ over
      <4>1. PICK v \in over : x \in Split(v, a, b, prot)
        BY <3>2
      <4>2. v \in table[g] /\ f[v] = Split(v, a, b, prot)
        OBVIOUS
      <4> QED
        BY <4>1, <4>2, <1>4
    <3> QED
      BY <3>1, <3>2
  <2>2. ASSUME NEW v \in table[g], NEW x \in f[v] PROVE x \in new
    <3>1. CASE v \in over
      BY <3>1
    <3>2. CASE v \notin over
      BY <3>2
    <3> QED
      BY <3>1, <3>2
  <2> HIDE DEF new, f
  <2> QED
    BY <2>1, <2>2
<1> HIDE DEF g, over, f, new
<1>8. Apart(new, top[g])
  BY <1>1, <1>6, <1>7, PartsApart
<1>9. top' = [top EXCEPT ![g] = top[g]]
  BY <1>1, <1>2 DEF VmaInv
<1> QED
  BY <1>1, <1>2, <1>7, <1>8, <1>9, OneTable

----------------------------------------------------------------------------
(* The calls that make and replace tasks.                                   *)

\* A copy whose regions have other buffers.
LEMMA RebufferedApart ==
  ASSUME NEW vs \in SUBSET Regions, NEW lim \in Addresses, Apart(vs, lim),
         NEW buf \in [vs -> Buffers \cup {NoBuffer}]
  PROVE  LET copy == {[v EXCEPT !.buf = buf[v]] : v \in vs}
         IN  copy \in SUBSET Regions /\ Apart(copy, lim)
<1> DEFINE c(v) == [v EXCEPT !.buf = buf[v]]
<1>1. \A v \in vs : c(v) \in Regions /\ c(v).start = v.start /\ c(v).end = v.end
  BY DEF Regions
<1>2. \A v, w \in vs : /\ v.start < v.end /\ v.end <= lim
                       /\ v = w \/ v.end <= w.start \/ w.end <= v.start
  BY DEF Apart
<1> HIDE DEF c
<1>3. \A v, w \in vs : /\ c(v).start < c(v).end /\ c(v).end <= lim
                       /\ c(v) = c(w) \/ c(v).end <= c(w).start \/ c(w).end <= c(v).start
  BY <1>1, <1>2
<1>4. ASSUME NEW x \in {c(v) : v \in vs}, NEW y \in {c(v) : v \in vs}
      PROVE  /\ x.start < x.end /\ x.end <= lim
             /\ x = y \/ x.end <= y.start \/ y.end <= x.start
  BY <1>3
<1>5. {c(v) : v \in vs} \in SUBSET Regions /\ Apart({c(v) : v \in vs}, lim)
  BY <1>1, <1>4 DEF Apart
<1> QED
  BY <1>5 DEF c

LEMMA ForkKeeps ==
  ASSUME VmaInv, NEW p \in alive, NEW t \in unborn, NEW s \in Tasks,
         NEW copies \in [BuffersOf(table[p]) -> Buffers \cup {NoBuffer}], Fork(p, t, s, copies)
  PROVE  VmaInv'
<1> DEFINE buf == [v \in table[p] |-> IF v.buf = NoBuffer THEN v.buf ELSE copies[v.buf]]
           copy == {[v EXCEPT !.buf = buf[v]] : v \in table[p]}
<1>1. p \in Tasks /\ t \in Tasks /\ table[p] \in SUBSET Regions /\ top[p] \in Addresses
      /\ Apart(table[p], top[p])
  BY DEF VmaInv
<1>2. buf \in [table[p] -> Buffers \cup {NoBuffer}]
  BY <1>1 DEF BuffersOf
<1>3. copy \in SUBSET Regions /\ Apart(copy, top[p])
  BY <1>1, <1>2, RebufferedApart
<1>4. copy = {[v EXCEPT !.buf = IF @ = NoBuffer THEN @ ELSE copies[@]] : v \in table[p]}
  OBVIOUS
<1>5. /\ table' = [table EXCEPT ![t] = copy] /\ top' = [top EXCEPT ![t] = top[p]]
      /\ alive' = alive \cup {t} /\ unborn' = unborn \ {t} /\ tgid' = tgid
  BY <1>4 DEF Fork
<1> HIDE DEF copy
<1> QED
  BY <1>1, <1>3, <1>5 DEF VmaInv

LEMMA CloneKeeps ==
  ASSUME VmaInv, NEW p \in alive, NEW t \in unborn, Clone(p, t)
  PROVE  VmaInv'
<1> DEFINE buf == [v \in table[p] |-> NoBuffer]
           copy == {[v EXCEPT !.buf = buf[v]] : v \in table[p]}
<1>1. p \in Tasks /\ t \in Tasks /\ table[p] \in SUBSET Regions /\ top[p] \in Addresses
      /\ Apart(table[p], top[p])
  BY DEF VmaInv
<1>2. buf \in [table[p] -> Buffers \cup {NoBuffer}]
  OBVIOUS
<1>3. copy \in SUBSET Regions /\ Apart(copy, top[p])
  BY <1>1, <1>2, RebufferedApart
<1>4. copy = Unbacked(table[p])
  BY DEF Unbacked
<1>5. /\ table' = [table EXCEPT ![t] = copy] /\ top' = [top EXCEPT ![t] = top[p]]
      /\ alive' = alive \cup {t} /\ unborn' = unborn \ {t}
      /\ tgid' = [tgid EXCEPT ![t] = Leader(p)]
  BY <1>4 DEF Clone
<1>6. Leader(p) \in Tasks
  BY LeaderIsTask
<1> HIDE DEF copy
<1> QED
  BY <1>1, <1>3, <1>5, <1>6 DEF VmaInv

\* A task without regions.
LEMMA NoneApart == ASSUME NEW lim PROVE Apart({}, lim)
  BY DEF Apart

LEMMA ExecveKeeps ==
  ASSUME VmaInv, NEW p \in alive, NEW s \in Tasks, Execve(p, s)
  PROVE  VmaInv'
<1>1. /\ table' = [table EXCEPT ![p] = {}] /\ top' = [top EXCEPT ![p] = 0]
      /\ UNCHANGED <<alive, unborn, tgid>>
  BY DEF Execve
<1>2. p \in Tasks /\ 0 \in Addresses
  BY DEF VmaInv
<1> QED
  BY <1>1, <1>2, NoneApart, OneTable

LEMMA ReapKeeps ==
  ASSUME VmaInv, NEW p \in alive, Reap(p)
  PROVE  VmaInv'
<1>1. p \in Tasks /\ 0 \in Addresses /\ alive' = alive \ {p} /\ unborn' = unborn
  BY DEF VmaInv, Reap
<1>2. ASSUME NEW h \in alive, h # p, HandOver(p, h) PROVE VmaInv'
  BY <1>1, <1>2, NoneApart DEF VmaInv, HandOver
<1>3. CASE DropTable(p)
  BY <1>1, <1>3, NoneApart DEF VmaInv, DropTable
<1> QED
  BY <1>2, <1>3 DEF Reap

----------------------------------------------------------------------------
(* The theorem.                                                             *)

LEMMA VmaInvInit == VmaInit => VmaInv
<1> SUFFICES ASSUME VmaInit PROVE VmaInv
  OBVIOUS
<1>1. \A q \in Tasks : table[q] = {} /\ top[q] = 0
  BY DEF VmaInit
<1> QED
  BY <1>1, NoneApart DEF VmaInit, VmaInv

LEMMA VmaInvNext == VmaInv /\ [VmaNext]_vmaVars => VmaInv'
<1> SUFFICES ASSUME VmaInv, [VmaNext]_vmaVars PROVE VmaInv'
  OBVIOUS
<1>1. ASSUME NEW p \in alive, NEW t \in unborn, NEW copies, ForkFails(p, t, copies)
      PROVE  VmaInv'
  BY <1>1 DEF VmaInv, ForkFails
<1>2. CASE UNCHANGED vmaVars
  BY <1>2 DEF VmaInv, vmaVars, taskVars
<1>3. ASSUME NEW p \in alive, NEW len \in Addresses \ {0}, NEW prot \in NewProts,
             \/ Mmap(p, len, prot, NoBuffer)
             \/ \E b \in FreeBuffers : Mmap(p, len, prot, b)
      PROVE  VmaInv'
  BY <1>3, MmapKeeps DEF FreeBuffers
<1>4. ASSUME NEW p \in alive, NEW a \in Addresses, NEW b \in Addresses, a < b,
             Munmap(p, a, b) \/ \E prot \in Prots : Mprotect(p, a, b, prot)
      PROVE  VmaInv'
  BY <1>4, MunmapKeeps, MprotectKeeps
<1>5. ASSUME NEW p \in alive, NEW t \in unborn,
             NEW copies \in [BuffersOf(table[p]) -> Buffers \cup {NoBuffer}],
             (\E s \in Tasks : Fork(p, t, s, copies)) \/ ForkFails(p, t, copies)
      PROVE  VmaInv'
  BY <1>1, <1>5, ForkKeeps
<1>6. ASSUME NEW p \in alive, NEW t \in unborn, Clone(p, t) PROVE VmaInv'
  BY <1>6, CloneKeeps
<1>7. ASSUME NEW p \in alive, NEW s \in Tasks, Execve(p, s) PROVE VmaInv'
  BY <1>7, ExecveKeeps
<1>8. ASSUME NEW p \in alive, Reap(p) PROVE VmaInv'
  BY <1>8, ReapKeeps
<1> QED
  BY <1>2, <1>3, <1>4, <1>5, <1>6, <1>7, <1>8 DEF VmaNext

\* vma_find has one answer: the regions of a task do not overlap, and mmap has the memory above
\* them to itself.
THEOREM RegionsNeverOverlap == VmaSpec => []RegionsDisjoint
<1>1. VmaSpec => []VmaInv
  BY VmaInvInit, VmaInvNext, PTL DEF VmaSpec
<1>2. VmaInv => RegionsDisjoint
  BY DEF VmaInv, Apart, RegionsDisjoint
<1> QED
  BY <1>1, <1>2, PTL

----------------------------------------------------------------------------
(* Who holds a snapshot.                                                    *)

\* A thread has a leader that is there and has none itself; a pid that is to come is not in use.
GroupInv ==
    /\ alive \cap unborn = {}
    /\ \A q \in Tasks : tgid[q] # 0 => q \in alive /\ tgid[q] \in alive /\ tgid[tgid[q]] = 0

\* Region v is backed by a snapshot that was taken for its first page and is not lost.
Backed(v) == v.buf # NoBuffer => taken[v.buf] = v.start /\ v.buf \notin leaked

\* Every snapshot has one region; a task that is not there has no regions, and a thread no snapshots.
OwnInv ==
    /\ taken \in [Buffers -> Addresses \cup {-1}]
    /\ leaked \subseteq Buffers /\ \A b \in leaked : taken[b] # -1
    /\ \A q \in Tasks : q \notin alive => table[q] = {}
    /\ \A q \in Tasks : tgid[q] # 0 => \A v \in table[q] : v.buf = NoBuffer
    /\ \A q \in Tasks : \A v \in table[q] : Backed(v)
    /\ \A q, r \in Tasks : \A v \in table[q], w \in table[r] :
          v.buf # NoBuffer /\ v.buf = w.buf => q = r /\ v = w
    /\ \A b \in Buffers : taken[b] # -1 => b \in leaked \/ \E q \in Tasks : \E v \in table[q] : v.buf = b

\* The next task to lead is one that has no leader.
LEMMA LeaderLeads ==
  ASSUME VmaInv, GroupInv, NEW p \in alive
  PROVE  Leader(p) \in alive /\ Leader(p) \in Tasks /\ tgid[Leader(p)] = 0
<1>1. p \in Tasks /\ tgid[p] \in Tasks \cup {0}
  BY DEF VmaInv
<1>2. tgid[p] # 0 => tgid[p] \in alive /\ tgid[tgid[p]] = 0
  BY <1>1 DEF GroupInv
<1>3. tgid[p] = 0 => tgid[p] \notin alive
  BY TasksAssumption DEF VmaInv
<1> QED
  BY <1>1, <1>2, <1>3, LeaderIsTask DEF Leader

\* The regions vs that g is given have snapshots that g held or that were free, each its own, and
\* what they do not hold of g's is given back.
Rebuffered(g, vs) ==
    /\ \A v \in vs : v.buf # NoBuffer =>
          /\ taken'[v.buf] = v.start /\ v.buf \notin leaked
          /\ taken[v.buf] = -1 \/ \E w \in table[g] : w.buf = v.buf
    /\ \A v, w \in vs : v.buf # NoBuffer /\ v.buf = w.buf => v = w
    /\ \A b \in Buffers :
          /\ (\E v \in vs : v.buf = b) \/ taken'[b] = -1 \/ taken'[b] = taken[b]
          /\ (\E v \in vs : v.buf = b) => taken'[b] # -1
          /\ (\E v \in table[g] : v.buf = b) => (\E v \in vs : v.buf = b) \/ taken'[b] = -1
          /\ taken'[b] # taken[b] => taken[b] = -1 \/ \E v \in table[g] : v.buf = b

\* One table changes: every snapshot still has its one region.
LEMMA OneOwner ==
  ASSUME VmaInv, OwnInv, NEW g \in Tasks, NEW vs \in SUBSET Regions,
         table' = [table EXCEPT ![g] = vs], leaked' = leaked,
         taken' \in [Buffers -> Addresses \cup {-1}],
         \A q \in Tasks \ {g} : (q \in alive => q \in alive') /\ (tgid'[q] # 0 => tgid[q] # 0),
         g \in alive' \/ vs = {},
         tgid'[g] # 0 => \A v \in vs : v.buf = NoBuffer,
         Rebuffered(g, vs)
  PROVE  OwnInv'
<1>1. table'[g] = vs /\ \A q \in Tasks \ {g} : table'[q] = table[q] /\ table[q] \in SUBSET Regions
  BY DEF VmaInv
<1>2. table[g] \in SUBSET Regions /\ \A v \in Regions : v.buf \in Buffers \cup {NoBuffer} /\ v.start \in Addresses
  BY DEF VmaInv, Regions
<1>3. \A q \in Tasks \ {g} : \A v \in table[q] :
         v.buf # NoBuffer => /\ taken'[v.buf] = v.start /\ taken[v.buf] # -1
                             /\ v.buf \notin leaked /\ \A w \in table[g] : w.buf # v.buf
  <2> SUFFICES ASSUME NEW q \in Tasks \ {g}, NEW v \in table[q], v.buf # NoBuffer
               PROVE  /\ taken'[v.buf] = v.start /\ taken[v.buf] # -1
                      /\ v.buf \notin leaked /\ \A w \in table[g] : w.buf # v.buf
    OBVIOUS
  <2>1. v.buf \in Buffers /\ v.start \in Addresses
    BY <1>1, <1>2
  <2>2. taken[v.buf] = v.start /\ v.buf \notin leaked
    BY DEF OwnInv, Backed
  <2>3. \A w \in table[g] : w.buf # v.buf
    BY DEF OwnInv
  <2>4. taken[v.buf] # -1
    BY <2>1, <2>2, PagesAssumption
  <2>5. taken'[v.buf] = taken[v.buf]
    BY <2>1, <2>3, <2>4 DEF Rebuffered
  <2> QED
    BY <2>2, <2>3, <2>4, <2>5
<1>4. leaked' \subseteq Buffers /\ \A b \in leaked' : taken'[b] # -1
  <2> SUFFICES ASSUME NEW b \in leaked PROVE taken'[b] # -1
    BY DEF OwnInv
  <2>1. b \in Buffers /\ b # NoBuffer /\ taken[b] # -1
    BY BuffersAssumption DEF OwnInv, NoBuffer
  <2>2. \A v \in table[g] : v.buf # b
    BY <2>1 DEF OwnInv, Backed
  <2> QED
    BY <2>1, <2>2 DEF Rebuffered
<1>5. \A q \in Tasks : q \notin alive' => table'[q] = {}
  BY <1>1 DEF OwnInv
<1>6. \A q \in Tasks : tgid'[q] # 0 => \A v \in table'[q] : v.buf = NoBuffer
  BY <1>1 DEF OwnInv
<1>7. \A q \in Tasks : \A v \in table'[q] : v.buf # NoBuffer => taken'[v.buf] = v.start /\ v.buf \notin leaked'
  BY <1>1, <1>3 DEF Rebuffered
<1>8. ASSUME NEW q \in Tasks, NEW r \in Tasks, NEW v \in table'[q], NEW w \in table'[r],
             v.buf # NoBuffer, v.buf = w.buf
      PROVE  q = r /\ v = w
  <2>1. CASE q = g /\ r = g
    BY <1>1, <1>8, <2>1 DEF Rebuffered
  <2>2. CASE q = g /\ r # g
    BY <1>1, <1>3, <1>8, <2>2 DEF Rebuffered
  <2>3. CASE q # g /\ r = g
    BY <1>1, <1>3, <1>8, <2>3 DEF Rebuffered
  <2>4. CASE q # g /\ r # g
    BY <1>1, <1>8, <2>4 DEF OwnInv
  <2> QED
    BY <2>1, <2>2, <2>3, <2>4
<1>9. ASSUME NEW b \in Buffers, taken'[b] # -1
      PROVE  b \in leaked' \/ \E q \in Tasks : \E v \in table'[q] : v.buf = b
  <2>1. CASE \E v \in vs : v.buf = b
    BY <1>1, <2>1
  <2>2. CASE ~\E v \in vs : v.buf = b
    <3>1. taken[b] # -1 /\ ~\E v \in table[g] : v.buf = b
      BY <1>9, <2>2 DEF Rebuffered
    <3>2. b \in leaked \/ \E q \in Tasks : \E v \in table[q] : v.buf = b
      BY <3>1 DEF OwnInv
    <3> QED
      BY <1>1, <3>1, <3>2
  <2> QED
    BY <2>1, <2>2
<1> QED
  BY <1>4, <1>5, <1>6, <1>7, <1>8, <1>9 DEF OwnInv, Backed

\* A snapshot is not split by munmap: what is left of its region begins where it began.
LEMMA OutsideBacked ==
  ASSUME NEW v \in Regions, NEW a \in Addresses, NEW b \in Addresses,
         v.buf # NoBuffer /\ Overlaps(v, a, b) => v.end <= b
  PROVE  /\ \A w \in Outside(v, a, b) : w.buf = v.buf /\ (v.buf # NoBuffer => w.start = v.start)
         /\ v.buf # NoBuffer => \A w, x \in Outside(v, a, b) : w = x
<1>1. CASE ~Overlaps(v, a, b)
  BY <1>1 DEF Outside
<1>2. CASE Overlaps(v, a, b)
  <2>1. \A w \in Before(v, a) : w.buf = v.buf /\ w.start = v.start
    BY DEF Before, Regions
  <2>2. \A w \in After(v, b) : w.buf = v.buf
    BY DEF After, Regions
  <2>3. v.buf # NoBuffer => After(v, b) = {}
    BY <1>2 DEF After, Regions
  <2>4. \A w, x \in Before(v, a) : w = x
    BY DEF Before
  <2> QED
    BY <1>2, <2>1, <2>2, <2>3, <2>4 DEF Outside
<1> QED
  BY <1>1, <1>2

\* Nor by mprotect, which changes the protection of the whole.
LEMMA SplitBacked ==
  ASSUME NEW v \in Regions, NEW a \in Addresses, NEW b \in Addresses, NEW prot \in Prots,
         v.buf # NoBuffer => v.start >= a /\ v.end <= b
  PROVE  /\ \A w \in Split(v, a, b, prot) : w.buf = v.buf /\ (v.buf # NoBuffer => w.start = v.start)
         /\ v.buf # NoBuffer => \A w, x \in Split(v, a, b, prot) : w = x
<1> DEFINE mid == [Inside(v, a, b) EXCEPT !.prot = prot]
<1>1. mid.buf = v.buf /\ (v.buf # NoBuffer => mid.start = v.start)
  BY DEF Inside, Larger, Smaller, Regions
<1>2. \A w \in Before(v, a) \cup After(v, b) : w.buf = v.buf
  BY DEF Before, After, Regions
<1>3. v.buf # NoBuffer => Before(v, a) = {} /\ After(v, b) = {}
  BY DEF Before, After, Regions
<1>4. Split(v, a, b, prot) = Before(v, a) \cup After(v, b) \cup {mid}
  BY DEF Split
<1> HIDE DEF mid
<1> QED
  BY <1>1, <1>2, <1>3, <1>4

\* Each region is replaced by the pieces that are left of it.
LEMMA PiecesOwned ==
  ASSUME VmaInv, OwnInv, UNCHANGED <<alive, leaked, tgid>>, NEW g \in Tasks, g \in alive,
         NEW f \in [table[g] -> SUBSET Regions],
         \A v \in table[g] : /\ \A w \in f[v] : w.buf = v.buf /\ (v.buf # NoBuffer => w.start = v.start)
                             /\ v.buf # NoBuffer => \A w, x \in f[v] : w = x,
         table' = [table EXCEPT ![g] = UNION {f[v] : v \in table[g]}],
         taken' = Freed(BuffersOf(table[g]) \ BuffersOf(UNION {f[v] : v \in table[g]}))
  PROVE  OwnInv'
<1> DEFINE vs == UNION {f[v] : v \in table[g]}
<1>1. vs \in SUBSET Regions
  OBVIOUS
<1>2. \A w \in vs : \E v \in table[g] : w \in f[v]
  OBVIOUS
<1>3. \A b \in Buffers : taken'[b] = IF (\E v \in table[g] : v.buf = b) /\ ~(\E v \in vs : v.buf = b)
                                     THEN -1 ELSE taken[b]
  <2> HIDE DEF vs
  <2>1. \A b \in Buffers : b # NoBuffer
    BY BuffersAssumption DEF NoBuffer
  <2>2. taken' = Freed(BuffersOf(table[g]) \ BuffersOf(vs))
    BY DEF vs
  <2> QED
    BY <2>1, <2>2 DEF Freed, BuffersOf
<1>4. taken' \in [Buffers -> Addresses \cup {-1}]
  <2>1. taken \in [Buffers -> Addresses \cup {-1}]
    BY DEF OwnInv
  <2> QED
    BY <2>1 DEF Freed
<1>5. table' = [table EXCEPT ![g] = vs]
  OBVIOUS
<1> HIDE DEF vs
<1>6. table[g] \in SUBSET Regions /\ \A v \in Regions : v.buf \in Buffers \cup {NoBuffer} /\ v.start \in Addresses
  BY DEF VmaInv, Regions
<1>7. ASSUME NEW w \in vs
      PROVE  \E v \in table[g] : /\ w.buf = v.buf /\ w \in f[v]
                                 /\ v.buf # NoBuffer => w.start = v.start /\ taken[w.buf] = w.start /\ w.buf \notin leaked
  BY <1>2 DEF OwnInv, Backed
<1>8. ASSUME NEW w \in vs, NEW x \in vs, w.buf # NoBuffer, w.buf = x.buf PROVE w = x
  <2>1. PICK v \in table[g] : w.buf = v.buf /\ w \in f[v]
    BY <1>7
  <2>2. PICK u \in table[g] : x.buf = u.buf /\ x \in f[u]
    BY <1>7
  <2>3. u.buf # NoBuffer /\ u.buf = v.buf
    BY <1>8, <2>1, <2>2
  <2>4. u = v
    BY <2>3 DEF OwnInv
  <2> QED
    BY <1>8, <2>1, <2>2, <2>4
<1>9. \A w \in vs : w.buf # NoBuffer => w.buf \in Buffers /\ taken'[w.buf] = w.start /\ w.start # -1
  BY <1>1, <1>3, <1>6, <1>7, PagesAssumption
<1>10. tgid'[g] # 0 => \A w \in vs : w.buf = NoBuffer
  BY <1>7 DEF OwnInv
<1>11. \A w \in vs : w.buf # NoBuffer =>
            /\ taken'[w.buf] = w.start /\ w.buf \notin leaked
            /\ taken[w.buf] = -1 \/ \E v \in table[g] : v.buf = w.buf
  BY <1>7, <1>9
<1>12. \A q \in Tasks \ {g} : (q \in alive => q \in alive') /\ (tgid'[q] # 0 => tgid[q] # 0)
  OBVIOUS
<1>13. \A b \in Buffers : /\ (\E v \in vs : v.buf = b) \/ taken'[b] = -1 \/ taken'[b] = taken[b]
                          /\ (\E v \in vs : v.buf = b) => taken'[b] # -1
                          /\ (\E v \in table[g] : v.buf = b) => (\E v \in vs : v.buf = b) \/ taken'[b] = -1
                          /\ taken'[b] # taken[b] => taken[b] = -1 \/ \E v \in table[g] : v.buf = b
  <2>1. \A b \in Buffers : b # NoBuffer
    BY BuffersAssumption DEF NoBuffer
  <2>2. \A b \in Buffers : (\E v \in vs : v.buf = b) => taken'[b] # -1
    BY <1>9, <2>1
  <2> QED
    BY <1>3, <2>2
<1>14. g \in alive' /\ leaked' = leaked
  OBVIOUS
<1>15. Rebuffered(g, vs)
  BY <1>8, <1>11, <1>13 DEF Rebuffered
<1> QED
  BY <1>1, <1>4, <1>5, <1>10, <1>12, <1>14, <1>15, OneOwner

----------------------------------------------------------------------------
(* The calls keep it.                                                       *)

\* A call that makes no task and ends none leaves the groups alone.
LEMMA GroupSame == ASSUME GroupInv, UNCHANGED <<alive, unborn, tgid>> PROVE GroupInv'
  BY DEF GroupInv

\* A file is copied into a buffer that nobody holds.
LEMMA MmapOwns ==
  ASSUME VmaInv, GroupInv, OwnInv, NEW p \in alive, NEW len \in Addresses \ {0}, NEW prot \in NewProts,
         NEW buf \in FreeBuffers \cup {NoBuffer}, Mmap(p, len, prot, buf)
  PROVE  OwnInv'
<1>1. PICK g \in Tasks : g = Leader(p) /\ g \in alive /\ tgid[g] = 0
  BY LeaderLeads
<1>2. PICK at \in Addresses : at = top[g]
  BY DEF VmaInv
<1> DEFINE r == [start |-> at, end |-> at + len, prot |-> prot, buf |-> buf]
<1>3. /\ table' = [table EXCEPT ![g] = table[g] \cup {r}] /\ at + len <= NPages
      /\ UNCHANGED <<alive, unborn, tgid, leaked>>
      /\ taken' = [b \in Buffers |-> IF b = buf THEN at ELSE taken[b]]
  BY <1>1, <1>2 DEF Mmap, taskVars
<1>4. r \in Regions /\ r.buf = buf /\ r.start = at
  BY <1>3, ProtsAssumption DEF Regions, FreeBuffers
<1> HIDE DEF r
<1>5. table[g] \cup {r} \in SUBSET Regions /\ table[g] \in SUBSET Regions
  BY <1>4 DEF VmaInv
<1>6. taken' \in [Buffers -> Addresses \cup {-1}]
  BY <1>3 DEF OwnInv
<1>7. \A b \in Buffers : b # NoBuffer
  BY BuffersAssumption DEF NoBuffer
<1>8. \A v \in table[g] : v.buf # NoBuffer =>
         v.buf \in Buffers /\ taken[v.buf] = v.start /\ v.start # -1 /\ v.buf \notin leaked /\ v.buf # buf
  BY <1>5 DEF OwnInv, Backed, Regions, FreeBuffers
<1>9. buf # NoBuffer => buf \in Buffers /\ taken[buf] = -1 /\ buf \notin leaked /\ at # -1
  BY DEF FreeBuffers, OwnInv
<1>10. Rebuffered(g, table[g] \cup {r})
  <2>1. ASSUME NEW v \in table[g] \cup {r}, v.buf # NoBuffer
        PROVE  /\ taken'[v.buf] = v.start /\ v.buf \notin leaked
               /\ taken[v.buf] = -1 \/ \E w \in table[g] : w.buf = v.buf
    BY <1>3, <1>4, <1>8, <1>9, <2>1
  <2>2. \A v, w \in table[g] \cup {r} : v.buf # NoBuffer /\ v.buf = w.buf => v = w
    BY <1>4, <1>8 DEF OwnInv
  <2>3. ASSUME NEW b \in Buffers
        PROVE  /\ (\E v \in table[g] \cup {r} : v.buf = b) \/ taken'[b] = -1 \/ taken'[b] = taken[b]
               /\ (\E v \in table[g] \cup {r} : v.buf = b) => taken'[b] # -1
               /\ (\E v \in table[g] : v.buf = b) => (\E v \in table[g] \cup {r} : v.buf = b) \/ taken'[b] = -1
               /\ taken'[b] # taken[b] => taken[b] = -1 \/ \E v \in table[g] : v.buf = b
    BY <1>3, <1>4, <1>7, <1>8, <1>9
  <2> QED
    BY <2>1, <2>2, <2>3 DEF Rebuffered
<1>11. \A q \in Tasks \ {g} : (q \in alive => q \in alive') /\ (tgid'[q] # 0 => tgid[q] # 0)
  BY <1>3
<1>12. g \in alive' /\ tgid'[g] = 0 /\ leaked' = leaked
  BY <1>1, <1>3
<1> QED
  BY <1>3, <1>5, <1>6, <1>10, <1>11, <1>12, OneOwner

\* munmap gives back the snapshots whose regions are gone.
LEMMA MunmapOwns ==
  ASSUME VmaInv, GroupInv, OwnInv, NEW p \in alive, NEW a \in Addresses, NEW b \in Addresses, a < b,
         Munmap(p, a, b)
  PROVE  OwnInv'
<1>1. PICK g \in Tasks : g = Leader(p) /\ g \in alive /\ tgid[g] = 0
  BY LeaderLeads
<1> DEFINE f == [v \in table[g] |-> Outside(v, a, b)]
           kept == UNION {Outside(v, a, b) : v \in table[g]}
<1>2. /\ table' = [table EXCEPT ![g] = kept] /\ UNCHANGED <<alive, leaked, tgid>>
      /\ taken' = Freed(BuffersOf(table[g]) \ BuffersOf(kept))
      /\ Unmappable(table[g], a, b)
  BY <1>1 DEF Munmap, taskVars
<1>3. table[g] \in SUBSET Regions /\ \A v \in table[g] : v.start < v.end
  BY DEF VmaInv, Apart
<1>4. \A v \in table[g] : Outside(v, a, b) \in SUBSET Regions
  BY <1>3, OutsideParts
<1>5. \A v \in table[g] :
         /\ \A w \in f[v] : w.buf = v.buf /\ (v.buf # NoBuffer => w.start = v.start)
         /\ v.buf # NoBuffer => \A w, x \in f[v] : w = x
  <2> SUFFICES ASSUME NEW v \in table[g]
               PROVE  /\ \A w \in Outside(v, a, b) : w.buf = v.buf /\ (v.buf # NoBuffer => w.start = v.start)
                      /\ v.buf # NoBuffer => \A w, x \in Outside(v, a, b) : w = x
    OBVIOUS
  <2>1. v.buf # NoBuffer /\ Overlaps(v, a, b) => v.end <= b
    BY <1>2 DEF Unmappable
  <2> QED
    BY <1>3, <2>1, OutsideBacked
<1>6. f \in [table[g] -> SUBSET Regions]
  BY <1>4
<1>7. kept = UNION {f[v] : v \in table[g]}
  OBVIOUS
<1> HIDE DEF f, kept
<1> QED
  BY <1>1, <1>2, <1>5, <1>6, <1>7, PiecesOwned

\* mprotect gives none back.
LEMMA MprotectOwns ==
  ASSUME VmaInv, GroupInv, OwnInv, NEW p \in alive, NEW a \in Addresses, NEW b \in Addresses, a < b,
         NEW prot \in Prots, Mprotect(p, a, b, prot)
  PROVE  OwnInv'
<1>1. PICK g \in Tasks : g = Leader(p) /\ g \in alive /\ tgid[g] = 0
  BY LeaderLeads
<1> DEFINE over == {v \in table[g] : Overlaps(v, a, b)}
           f == [v \in table[g] |-> IF v \in over THEN Split(v, a, b, prot) ELSE {v}]
           new == (table[g] \ over) \cup UNION {Split(v, a, b, prot) : v \in over}
<1>2. /\ table' = [table EXCEPT ![g] = new] /\ UNCHANGED <<alive, leaked, tgid, taken>>
      /\ \A v \in over : v.buf # NoBuffer => v.start >= a /\ v.end <= b
  BY <1>1 DEF Mprotect, taskVars, heapVars
<1>3. table[g] \in SUBSET Regions /\ \A v \in table[g] : v.start < v.end
  BY DEF VmaInv, Apart
<1>4. \A v \in over : Split(v, a, b, prot) \in SUBSET Regions
  BY <1>3, SplitParts
<1>5. \A v \in table[g] :
         /\ \A w \in f[v] : w.buf = v.buf /\ (v.buf # NoBuffer => w.start = v.start)
         /\ v.buf # NoBuffer => \A w, x \in f[v] : w = x
  <2> SUFFICES ASSUME NEW v \in table[g]
               PROVE  /\ \A w \in f[v] : w.buf = v.buf /\ (v.buf # NoBuffer => w.start = v.start)
                      /\ v.buf # NoBuffer => \A w, x \in f[v] : w = x
    OBVIOUS
  <2>1. CASE v \in over
    <3>1. f[v] = Split(v, a, b, prot) /\ (v.buf # NoBuffer => v.start >= a /\ v.end <= b)
      BY <1>2, <2>1
    <3> QED
      BY <1>3, <3>1, SplitBacked
  <2>2. CASE v \notin over
    BY <2>2
  <2> QED
    BY <2>1, <2>2
<1>6. f \in [table[g] -> SUBSET Regions]
  BY <1>3, <1>4
<1>7. new = UNION {f[v] : v \in table[g]}
  <2>1. ASSUME NEW x \in new PROVE \E v \in table[g] : x \in f[v]
    <3>1. CASE x \in table[g] \ over
      <4>1. x \in f[x]
        BY <3>1
      <4> QED
        BY <3>1, <4>1
    <3>2. CASE x \notin table[g] \ over
      <4>1. PICK v \in over : x \in Split(v, a, b, prot)
        BY <3>2
      <4>2. v \in table[g] /\ f[v] = Split(v, a, b, prot)
        OBVIOUS
      <4> QED
        BY <4>1, <4>2
    <3> QED
      BY <3>1, <3>2
  <2>2. ASSUME NEW v \in table[g], NEW x \in f[v] PROVE x \in new
    <3>1. CASE v \in over
      BY <3>1
    <3>2. CASE v \notin over
      BY <3>2
    <3> QED
      BY <3>1, <3>2
  <2> HIDE DEF new, f
  <2> QED
    BY <2>1, <2>2
<1>8. taken' = Freed(BuffersOf(table[g]) \ BuffersOf(new))
  <2>1. BuffersOf(table[g]) \subseteq BuffersOf(new)
    <3> SUFFICES ASSUME NEW v \in table[g] PROVE \E w \in new : w.buf = v.buf
      BY DEF BuffersOf
    <3>1. CASE v \in over
      <4>1. PICK w : w \in Split(v, a, b, prot) /\ w.buf = v.buf
        <5> DEFINE mid == [Inside(v, a, b) EXCEPT !.prot = prot]
        <5>1. mid \in Split(v, a, b, prot) /\ mid.buf = v.buf
          BY <1>3 DEF Split, Inside, Regions
        <5> QED
          BY <5>1
      <4> QED
        BY <3>1, <4>1
    <3>2. CASE v \notin over
      BY <3>2
    <3> QED
      BY <3>1, <3>2
  <2>2. taken = [c \in Buffers |-> taken[c]]
    BY DEF OwnInv
  <2> HIDE DEF new
  <2>3. BuffersOf(table[g]) \ BuffersOf(new) = {}
    BY <2>1
  <2>4. Freed({}) = [c \in Buffers |-> taken[c]]
    BY DEF Freed
  <2> QED
    BY <1>2, <2>2, <2>3, <2>4
<1> HIDE DEF over, f, new
<1> QED
  BY <1>1, <1>2, <1>5, <1>6, <1>7, <1>8, PiecesOwned

\* What the copies of a fork hold: each was free, holds what its original does, and has no second use.
LEMMA CopiesFilled ==
  ASSUME VmaInv, OwnInv, NEW p \in Tasks, NEW copies \in [BuffersOf(table[p]) -> Buffers \cup {NoBuffer}],
         Copies(p, copies)
  PROVE  /\ Filled(copies) \in [Buffers -> Addresses \cup {-1}]
         /\ \A v \in table[p] : v.buf # NoBuffer => v.buf \in DOMAIN copies
         /\ \A b \in DOMAIN copies : copies[b] # NoBuffer =>
               /\ copies[b] \in Buffers /\ taken[copies[b]] = -1
               /\ Filled(copies)[copies[b]] = taken[b] /\ taken[b] \in Addresses
         /\ \A c \in Buffers \ Copied(copies) : Filled(copies)[c] = taken[c]
<1>1. DOMAIN copies = BuffersOf(table[p]) /\ NoBuffer \notin Buffers /\ taken \in [Buffers -> Addresses \cup {-1}]
  BY BuffersAssumption DEF NoBuffer, OwnInv
<1>2. \A v \in table[p] : v.buf # NoBuffer => v.buf \in DOMAIN copies
  BY <1>1 DEF BuffersOf
<1>3. ASSUME NEW b \in DOMAIN copies PROVE taken[b] \in Addresses
  <2>1. PICK v \in table[p] : v.buf = b /\ b # NoBuffer
    BY <1>1 DEF BuffersOf
  <2> QED
    BY <2>1 DEF VmaInv, OwnInv, Backed, Regions
<1>4. ASSUME NEW b \in DOMAIN copies, copies[b] # NoBuffer
      PROVE  /\ copies[b] \in Buffers /\ taken[copies[b]] = -1
             /\ Filled(copies)[copies[b]] = taken[b]
  <2>1. PICK c \in Buffers : c = copies[b] /\ taken[c] = -1 /\ c \in Copied(copies)
    BY <1>4 DEF Copies, FreeBuffers, Copied
  <2>2. PICK x \in Addresses : x = taken[b]
    BY <1>3
  <2>3. \A at \in Addresses : (\E d \in DOMAIN copies : copies[d] = c /\ taken[d] = at) <=> at = x
    BY <1>4, <2>1, <2>2 DEF Copies
  <2>4. (CHOOSE at \in Addresses : \E d \in DOMAIN copies : copies[d] = c /\ taken[d] = at) = x
    BY <2>3
  <2>5. Filled(copies)[c] = x
    BY <2>1, <2>4 DEF Filled
  <2> QED
    BY <2>1, <2>2, <2>5
<1>5. \A c \in Buffers \ Copied(copies) : Filled(copies)[c] = taken[c]
  BY DEF Filled
<1>6. ASSUME NEW c \in Buffers PROVE Filled(copies)[c] \in Addresses \cup {-1}
  <2>1. CASE c \in Copied(copies)
    <3>1. PICK b \in DOMAIN copies : copies[b] = c /\ c # NoBuffer
      BY <2>1 DEF Copied
    <3> QED
      BY <1>3, <1>4, <3>1
  <2>2. CASE c \notin Copied(copies)
    BY <1>1, <1>5, <2>2
  <2> QED
    BY <2>1, <2>2
<1>7. Filled(copies) = [c \in Buffers |-> Filled(copies)[c]]
  BY DEF Filled
<1>8. Filled(copies) \in [Buffers -> Addresses \cup {-1}]
  BY <1>6, <1>7
<1> QED
  BY <1>2, <1>3, <1>4, <1>5, <1>8

\* The child of a fork has no regions yet and leads itself.
LEMMA Newborn ==
  ASSUME VmaInv, GroupInv, OwnInv, NEW t \in unborn
  PROVE  t \in Tasks /\ t \notin alive /\ table[t] = {} /\ tgid[t] = 0
  BY DEF VmaInv, GroupInv, OwnInv

\* fork gives the child copies of its own.
LEMMA ForkOwns ==
  ASSUME VmaInv, GroupInv, OwnInv, NEW p \in alive, NEW t \in unborn, NEW s \in Tasks,
         NEW copies \in [BuffersOf(table[p]) -> Buffers \cup {NoBuffer}], Fork(p, t, s, copies)
  PROVE  OwnInv' /\ GroupInv'
<1> DEFINE c(v) == [v EXCEPT !.buf = IF @ = NoBuffer THEN @ ELSE copies[@]]
           vs == {c(v) : v \in table[p]}
<1>1. /\ table' = [table EXCEPT ![t] = vs] /\ taken' = Filled(copies)
      /\ alive' = alive \cup {t} /\ unborn' = unborn \ {t} /\ UNCHANGED <<tgid, leaked>>
      /\ Copies(p, copies)
  BY DEF Fork
<1>2. p \in Tasks /\ table[p] \in SUBSET Regions
  BY DEF VmaInv
<1>3. /\ t \in Tasks /\ t \notin alive /\ table[t] = {} /\ tgid[t] = 0
  BY Newborn
<1>4. /\ taken' \in [Buffers -> Addresses \cup {-1}]
      /\ \A v \in table[p] : v.buf # NoBuffer => v.buf \in DOMAIN copies
      /\ \A b \in DOMAIN copies : copies[b] # NoBuffer =>
            /\ copies[b] \in Buffers /\ taken[copies[b]] = -1
            /\ taken'[copies[b]] = taken[b] /\ taken[b] \in Addresses
      /\ \A b \in Buffers \ Copied(copies) : taken'[b] = taken[b]
  BY <1>1, <1>2, CopiesFilled
<1>5. ASSUME NEW v \in table[p]
      PROVE  /\ c(v) \in Regions /\ c(v).start = v.start
             /\ c(v).buf = IF v.buf = NoBuffer THEN NoBuffer ELSE copies[v.buf]
  BY <1>2, <1>4 DEF Regions
<1> HIDE DEF c
<1>6. vs \in SUBSET Regions /\ \A w \in vs : \E v \in table[p] : w = c(v)
  BY <1>5
<1>7. \A v \in table[p] : c(v).buf # NoBuffer =>
         /\ v.buf # NoBuffer /\ v.buf \in DOMAIN copies /\ taken[v.buf] = v.start
         /\ copies[v.buf] # NoBuffer
  BY <1>2, <1>4, <1>5 DEF OwnInv, Backed
<1>8. ASSUME NEW w \in vs, w.buf # NoBuffer
      PROVE  /\ w.buf \in Buffers /\ taken[w.buf] = -1 /\ taken'[w.buf] = w.start /\ w.start # -1
             /\ w.buf \notin leaked
  <2>1. PICK v \in table[p] : w = c(v)
    BY <1>6
  <2>2. copies[v.buf] = w.buf /\ v.start = w.start
    BY <1>5, <1>7, <1>8, <2>1
  <2>3. taken[w.buf] = -1 /\ w.buf \in Buffers /\ taken'[w.buf] = w.start /\ w.start \in Addresses
    BY <1>4, <1>7, <1>8, <2>1, <2>2
  <2> QED
    BY <2>3, PagesAssumption DEF OwnInv
<1>9. ASSUME NEW w \in vs, NEW x \in vs, w.buf # NoBuffer, w.buf = x.buf PROVE w = x
  <2>1. PICK v \in table[p] : w = c(v)
    BY <1>6
  <2>2. PICK u \in table[p] : x = c(u)
    BY <1>6
  <2>3. copies[v.buf] = copies[u.buf] /\ copies[v.buf] # NoBuffer /\ v.buf \in DOMAIN copies /\ u.buf \in DOMAIN copies
    BY <1>5, <1>7, <1>9, <2>1, <2>2
  <2>4. v.buf = u.buf /\ v.buf # NoBuffer
    BY <1>1, <1>7, <1>9, <2>1, <2>3 DEF Copies
  <2>5. v = u
    BY <1>2, <2>4 DEF OwnInv
  <2> QED
    BY <2>1, <2>2, <2>5
<1>10. ASSUME NEW b \in Buffers, b \in Copied(copies) PROVE \E w \in vs : w.buf = b
  <2>1. PICK d \in DOMAIN copies : copies[d] = b /\ b # NoBuffer
    BY <1>10 DEF Copied
  <2>2. PICK v \in table[p] : v.buf = d /\ d # NoBuffer
    BY <2>1 DEF BuffersOf
  <2>3. c(v).buf = b
    BY <1>5, <2>1, <2>2
  <2> QED
    BY <2>3
<1> HIDE DEF vs
<1>11. Rebuffered(t, vs)
  <2>1. ASSUME NEW b \in Buffers
        PROVE  /\ (\E v \in vs : v.buf = b) \/ taken'[b] = -1 \/ taken'[b] = taken[b]
               /\ (\E v \in vs : v.buf = b) => taken'[b] # -1
               /\ (\E v \in table[t] : v.buf = b) => (\E v \in vs : v.buf = b) \/ taken'[b] = -1
               /\ taken'[b] # taken[b] => taken[b] = -1 \/ \E v \in table[t] : v.buf = b
    <3>1. b # NoBuffer
      BY BuffersAssumption DEF NoBuffer
    <3>2. b \notin Copied(copies) => taken'[b] = taken[b]
      BY <1>4
    <3>3. (\E v \in vs : v.buf = b) => taken'[b] # -1 /\ taken[b] = -1
      BY <1>8, <3>1
    <3> QED
      BY <1>3, <1>10, <3>2, <3>3
  <2> QED
    BY <1>8, <1>9, <2>1 DEF Rebuffered
<1>12. \A q \in Tasks \ {t} : (q \in alive => q \in alive') /\ (tgid'[q] # 0 => tgid[q] # 0)
  BY <1>1
<1>13. t \in alive' /\ tgid'[t] = 0
  BY <1>1, <1>3
<1>14. OwnInv'
  BY <1>1, <1>3, <1>4, <1>6, <1>11, <1>12, <1>13, OneOwner
<1>15. GroupInv'
  BY <1>1, <1>3 DEF GroupInv
<1> QED
  BY <1>14, <1>15

\* fork without memory for the stack: the copies are lost, and known to be.
LEMMA ForkFailsOwns ==
  ASSUME VmaInv, GroupInv, OwnInv, NEW p \in alive, NEW t \in unborn,
         NEW copies \in [BuffersOf(table[p]) -> Buffers \cup {NoBuffer}], ForkFails(p, t, copies)
  PROVE  OwnInv' /\ GroupInv'
<1>1. /\ table' = table /\ taken' = Filled(copies) /\ leaked' = leaked \cup Copied(copies)
      /\ unborn' = unborn \ {t} /\ UNCHANGED <<alive, tgid>> /\ Copies(p, copies)
  BY DEF ForkFails
<1>2. p \in Tasks
  BY DEF VmaInv
<1>3. /\ taken' \in [Buffers -> Addresses \cup {-1}]
      /\ \A b \in DOMAIN copies : copies[b] # NoBuffer =>
            /\ copies[b] \in Buffers /\ taken[copies[b]] = -1
            /\ taken'[copies[b]] = taken[b] /\ taken[b] \in Addresses
      /\ \A b \in Buffers \ Copied(copies) : taken'[b] = taken[b]
  BY <1>1, <1>2, CopiesFilled
<1>4. \A c \in Copied(copies) : c \in Buffers /\ taken[c] = -1 /\ taken'[c] # -1
  BY <1>3, PagesAssumption DEF Copied
<1>5. \A q \in Tasks : \A v \in table[q] : v.buf # NoBuffer =>
         taken'[v.buf] = v.start /\ v.buf \notin leaked \cup Copied(copies)
  <2> SUFFICES ASSUME NEW q \in Tasks, NEW v \in table[q], v.buf # NoBuffer
               PROVE  taken'[v.buf] = v.start /\ v.buf \notin leaked \cup Copied(copies)
    OBVIOUS
  <2>1. v.buf \in Buffers /\ v.start \in Addresses
    BY DEF VmaInv, Regions
  <2>2. taken[v.buf] = v.start /\ v.buf \notin leaked
    BY DEF OwnInv, Backed
  <2> QED
    BY <1>3, <1>4, <2>1, <2>2, PagesAssumption
<1>6. leaked' \subseteq Buffers /\ \A b \in leaked' : taken'[b] # -1
  BY <1>1, <1>3, <1>4 DEF OwnInv
<1>7. \A b \in Buffers : taken'[b] # -1 => b \in leaked' \/ \E q \in Tasks : \E v \in table[q] : v.buf = b
  BY <1>1, <1>3 DEF OwnInv
<1>8. OwnInv'
  BY <1>1, <1>3, <1>5, <1>6, <1>7 DEF OwnInv, Backed
<1>9. GroupInv'
  BY <1>1 DEF GroupInv
<1> QED
  BY <1>8, <1>9

\* A thread owns no snapshot.
LEMMA CloneOwns ==
  ASSUME VmaInv, GroupInv, OwnInv, NEW p \in alive, NEW t \in unborn, Clone(p, t)
  PROVE  OwnInv' /\ GroupInv'
<1> DEFINE vs == Unbacked(table[p])
<1>1. PICK g \in Tasks : g = Leader(p) /\ g \in alive /\ tgid[g] = 0
  BY LeaderLeads
<1>2. /\ table' = [table EXCEPT ![t] = vs] /\ UNCHANGED <<taken, leaked>>
      /\ alive' = alive \cup {t} /\ unborn' = unborn \ {t} /\ tgid' = [tgid EXCEPT ![t] = g]
  BY <1>1 DEF Clone, heapVars
<1>3. t \in Tasks /\ t \notin alive /\ table[t] = {} /\ tgid[t] = 0
  BY Newborn
<1>4. vs \in SUBSET Regions /\ \A v \in vs : v.buf = NoBuffer
  BY DEF VmaInv, Unbacked, Regions
<1>5. \A b \in Buffers : b # NoBuffer
  BY BuffersAssumption DEF NoBuffer
<1> HIDE DEF vs
<1>6. Rebuffered(t, vs)
  BY <1>2, <1>3, <1>4, <1>5 DEF Rebuffered
<1>7. \A q \in Tasks \ {t} : (q \in alive => q \in alive') /\ (tgid'[q] # 0 => tgid[q] # 0)
  BY <1>2
<1>8. taken' \in [Buffers -> Addresses \cup {-1}]
  BY <1>2 DEF OwnInv
<1>9. t \in alive' /\ (tgid'[t] # 0 => \A v \in vs : v.buf = NoBuffer) /\ leaked' = leaked
  BY <1>2, <1>4
<1>10. OwnInv'
  BY <1>2, <1>3, <1>4, <1>6, <1>7, <1>8, <1>9, OneOwner
<1>11. GroupInv'
  <2>1. tgid'[t] = g /\ \A q \in Tasks \ {t} : tgid'[q] = tgid[q]
    BY <1>2, <1>3 DEF VmaInv
  <2>2. alive' \cap unborn' = {}
    BY <1>2 DEF GroupInv
  <2>3. ASSUME NEW q \in Tasks, tgid'[q] # 0 PROVE q \in alive' /\ tgid'[q] \in alive' /\ tgid'[tgid'[q]] = 0
    <3>1. CASE q = t
      BY <1>1, <1>2, <1>3, <2>1, <3>1
    <3>2. CASE q # t
      <4>1. tgid[q] # 0 /\ tgid[q] # t /\ tgid[q] \in Tasks
        BY <1>3, <2>1, <2>3, <3>2 DEF GroupInv, VmaInv
      <4> QED
        BY <1>2, <2>1, <3>2, <4>1 DEF GroupInv
    <3> QED
      BY <3>1, <3>2
  <2> QED
    BY <2>2, <2>3 DEF GroupInv
<1> QED
  BY <1>10, <1>11

\* A task without regions holds nothing.
LEMMA EmptyOwns ==
  ASSUME VmaInv, OwnInv, NEW p \in Tasks, taken' = Freed(BuffersOf(table[p]))
  PROVE  Rebuffered(p, {}) /\ taken' \in [Buffers -> Addresses \cup {-1}]
<1>1. \A b \in Buffers : taken'[b] = IF \E v \in table[p] : v.buf = b THEN -1 ELSE taken[b]
  BY BuffersAssumption DEF Freed, BuffersOf, NoBuffer
<1>2. taken' \in [Buffers -> Addresses \cup {-1}]
  <2>1. taken \in [Buffers -> Addresses \cup {-1}]
    BY DEF OwnInv
  <2> QED
    BY <2>1 DEF Freed
<1> QED
  BY <1>1, <1>2 DEF Rebuffered

\* execve gives back the snapshots of the old program.
LEMMA ExecveOwns ==
  ASSUME VmaInv, GroupInv, OwnInv, NEW p \in alive, NEW s \in Tasks, Execve(p, s)
  PROVE  OwnInv' /\ GroupInv'
<1>1. /\ table' = [table EXCEPT ![p] = {}] /\ taken' = Freed(BuffersOf(table[p]))
      /\ UNCHANGED <<alive, unborn, tgid, leaked>> /\ p \in Tasks
  BY DEF Execve, VmaInv
<1>2. Rebuffered(p, {}) /\ taken' \in [Buffers -> Addresses \cup {-1}]
  BY <1>1, EmptyOwns
<1>3. \A q \in Tasks \ {p} : (q \in alive => q \in alive') /\ (tgid'[q] # 0 => tgid[q] # 0)
  BY <1>1
<1>4. {} \in SUBSET Regions /\ \A v \in {} : v.buf = NoBuffer
  OBVIOUS
<1>5. OwnInv'
  BY <1>1, <1>2, <1>3, <1>4, OneOwner
<1> QED
  BY <1>1, <1>5, GroupSame

\* A task that is reaped hands its snapshots over to a thread, which has none, or gives them back.
LEMMA ReapOwns ==
  ASSUME VmaInv, GroupInv, OwnInv, NEW p \in alive, Reap(p)
  PROVE  OwnInv' /\ GroupInv'
<1>1. p \in Tasks /\ alive' = alive \ {p} /\ UNCHANGED <<unborn, leaked>>
  BY DEF Reap, VmaInv
<1>2. ASSUME NEW h \in alive, h # p, tgid[h] = p, HandOver(p, h) PROVE OwnInv' /\ GroupInv'
  <2>1. /\ table' = [table EXCEPT ![h] = table[p], ![p] = {}] /\ taken' = taken /\ h \in Tasks /\ p # 0
        /\ tgid' = [q \in Tasks |-> IF q = h THEN 0 ELSE IF tgid[q] = p THEN h ELSE tgid[q]]
    BY <1>1, <1>2, TasksAssumption DEF HandOver, VmaInv
  <2>2. /\ table'[h] = table[p] /\ table'[p] = {}
        /\ \A q \in Tasks \ {h, p} : table'[q] = table[q]
    BY <1>1, <1>2, <2>1 DEF VmaInv
  <2>3. \A v \in table[h] : v.buf = NoBuffer
    BY <1>2, <2>1 DEF OwnInv
  <2>4. \A q \in Tasks : tgid'[q] = IF q = h THEN 0 ELSE IF tgid[q] = p THEN h ELSE tgid[q]
    BY <2>1
  <2>5. \A q \in Tasks : tgid'[q] # 0 => tgid[q] # 0 /\ q # p /\ q # h
    BY <1>1, <1>2, <2>1, <2>4 DEF GroupInv
  <2>6. \A q \in Tasks : q \notin alive' => table'[q] = {}
    BY <1>1, <1>2, <2>2 DEF OwnInv
  <2>7. \A q \in Tasks : tgid'[q] # 0 => \A v \in table'[q] : v.buf = NoBuffer
    BY <2>2, <2>5 DEF OwnInv
  <2>8. \A q \in Tasks : \A v \in table'[q] : \E r \in Tasks : v \in table[r]
    BY <1>1, <2>1, <2>2
  <2>9. ASSUME NEW q \in Tasks, NEW r \in Tasks, NEW v \in table'[q], NEW w \in table'[r],
               v.buf # NoBuffer, v.buf = w.buf
        PROVE  q = r /\ v = w
    <3> DEFINE was(x) == IF x = h THEN p ELSE x
    <3>1. q # p /\ r # p /\ v \in table[was(q)] /\ w \in table[was(r)]
      BY <2>2, <2>9
    <3>2. was(q) \in Tasks /\ was(r) \in Tasks
      BY <1>1
    <3>3. was(q) = was(r) /\ v = w
      BY <2>9, <3>1, <3>2 DEF OwnInv
    <3> QED
      BY <3>1, <3>3
  <2>10. ASSUME NEW b \in Buffers, taken[b] # -1
         PROVE  b \in leaked \/ \E q \in Tasks : \E v \in table'[q] : v.buf = b
    <3>1. CASE b \in leaked
      BY <3>1
    <3>2. CASE b \notin leaked
      <4>1. PICK q \in Tasks : \E v \in table[q] : v.buf = b
        BY <2>10, <3>2 DEF OwnInv
      <4>2. b # NoBuffer
        BY BuffersAssumption DEF NoBuffer
      <4>3. q # h
        BY <2>3, <4>1, <4>2
      <4>4. CASE q = p
        BY <2>1, <2>2, <4>1, <4>4
      <4>5. CASE q # p
        BY <2>2, <4>1, <4>3, <4>5
      <4> QED
        BY <4>4, <4>5
    <3> QED
      BY <3>1, <3>2
  <2>11. taken' \in [Buffers -> Addresses \cup {-1}] /\ leaked' \subseteq Buffers /\ \A b \in leaked' : taken'[b] # -1
    BY <1>1, <2>1 DEF OwnInv
  <2>12. \A q \in Tasks : \A v \in table'[q] : Backed(v)'
    BY <1>1, <2>1, <2>8 DEF OwnInv, Backed
  <2>13. \A b \in Buffers : taken'[b] # -1 => b \in leaked' \/ \E q \in Tasks : \E v \in table'[q] : v.buf = b
    BY <1>1, <2>1, <2>10
  <2>14. OwnInv'
    BY <2>6, <2>7, <2>9, <2>11, <2>12, <2>13 DEF OwnInv
  <2>15. GroupInv'
    BY <1>1, <1>2, <2>1, <2>4 DEF GroupInv, VmaInv
  <2> QED
    BY <2>14, <2>15
<1>3. ASSUME {q \in alive \ {p} : tgid[q] = p} = {}, DropTable(p) PROVE OwnInv' /\ GroupInv'
  <2>1. /\ table' = [table EXCEPT ![p] = {}] /\ taken' = Freed(BuffersOf(table[p]))
        /\ tgid' = [tgid EXCEPT ![p] = 0]
    BY <1>3 DEF DropTable
  <2>2. Rebuffered(p, {}) /\ taken' \in [Buffers -> Addresses \cup {-1}]
    BY <1>1, <2>1, EmptyOwns
  <2>3. tgid'[p] = 0 /\ \A q \in Tasks \ {p} : tgid'[q] = tgid[q]
    BY <1>1, <2>1 DEF VmaInv
  <2>4. \A q \in Tasks \ {p} : (q \in alive => q \in alive') /\ (tgid'[q] # 0 => tgid[q] # 0)
    BY <1>1, <2>3
  <2>5. {} \in SUBSET Regions /\ \A v \in {} : v.buf = NoBuffer
    OBVIOUS
  <2>6. OwnInv'
    BY <1>1, <2>1, <2>2, <2>3, <2>4, <2>5, OneOwner
  <2>7. GroupInv'
    BY <1>1, <1>3, <2>3 DEF GroupInv, VmaInv
  <2> QED
    BY <2>6, <2>7
<1> QED
  BY <1>2, <1>3 DEF Reap

----------------------------------------------------------------------------
(* Snapshots stay owned.                                                    *)

\* At boot there is one task, without regions, and no snapshot.
LEMMA OwnInit == VmaInit => GroupInv /\ OwnInv
<1> SUFFICES ASSUME VmaInit PROVE GroupInv /\ OwnInv
  OBVIOUS
<1>1. /\ \A q \in Tasks : tgid[q] = 0 /\ table[q] = {}
      /\ \A b \in Buffers : taken[b] = -1
      /\ leaked = {} /\ taken \in [Buffers -> Addresses \cup {-1}] /\ alive \cap unborn = {}
  BY DEF VmaInit
<1> QED
  BY <1>1 DEF GroupInv, OwnInv

\* Every call keeps the groups and the snapshots in order.
LEMMA OwnNext == VmaInv /\ GroupInv /\ OwnInv /\ [VmaNext]_vmaVars => GroupInv' /\ OwnInv'
<1> SUFFICES ASSUME VmaInv, GroupInv, OwnInv, [VmaNext]_vmaVars PROVE GroupInv' /\ OwnInv'
  OBVIOUS
<1>1. CASE UNCHANGED vmaVars
  BY <1>1 DEF GroupInv, OwnInv, Backed, vmaVars, taskVars, heapVars
<1>2. ASSUME NEW p \in alive, NEW len \in Addresses \ {0}, NEW prot \in NewProts,
             \/ Mmap(p, len, prot, NoBuffer)
             \/ \E b \in FreeBuffers : Mmap(p, len, prot, b)
      PROVE  GroupInv' /\ OwnInv'
  <2>1. PICK b \in FreeBuffers \cup {NoBuffer} : Mmap(p, len, prot, b)
    BY <1>2
  <2>2. OwnInv'
    BY <2>1, MmapOwns
  <2> QED
    BY <2>1, <2>2, GroupSame DEF Mmap, taskVars
<1>3. ASSUME NEW p \in alive, NEW a \in Addresses, NEW b \in Addresses, a < b,
             Munmap(p, a, b) \/ \E prot \in Prots : Mprotect(p, a, b, prot)
      PROVE  GroupInv' /\ OwnInv'
  <2>1. OwnInv'
    BY <1>3, MunmapOwns, MprotectOwns
  <2> QED
    BY <1>3, <2>1, GroupSame DEF Munmap, Mprotect, taskVars
<1>4. ASSUME NEW p \in alive, NEW t \in unborn,
             NEW copies \in [BuffersOf(table[p]) -> Buffers \cup {NoBuffer}],
             (\E s \in Tasks : Fork(p, t, s, copies)) \/ ForkFails(p, t, copies)
      PROVE  GroupInv' /\ OwnInv'
  BY <1>4, ForkOwns, ForkFailsOwns
<1>5. ASSUME NEW p \in alive, NEW t \in unborn, Clone(p, t) PROVE GroupInv' /\ OwnInv'
  BY <1>5, CloneOwns
<1>6. ASSUME NEW p \in alive, NEW s \in Tasks, Execve(p, s) PROVE GroupInv' /\ OwnInv'
  BY <1>6, ExecveOwns
<1>7. ASSUME NEW p \in alive, Reap(p) PROVE GroupInv' /\ OwnInv'
  BY <1>7, ReapOwns
<1> QED
  BY <1>1, <1>2, <1>3, <1>4, <1>5, <1>6, <1>7 DEF VmaNext

\* The invariant says it of all tasks; those that are not there hold nothing.
LEMMA OwnedIs == VmaInv /\ OwnInv => SnapshotsOwned
<1> SUFFICES ASSUME VmaInv, OwnInv PROVE SnapshotsOwned
  OBVIOUS
<1> DEFINE held == {h \in alive \X Regions : h[2] \in table[h[1]] /\ h[2].buf # NoBuffer}
<1>1. \A q \in alive, v \in Regions : v \in table[q] /\ v.buf # NoBuffer => <<q, v>> \in held
  OBVIOUS
<1>2. \A h \in held : /\ h = <<h[1], h[2]>> /\ h[1] \in alive /\ h[1] \in Tasks
                      /\ h[2] \in table[h[1]] /\ h[2].buf # NoBuffer
  BY DEF VmaInv
<1> HIDE DEF held
<1>3. \A h \in held : taken[h[2].buf] = h[2].start /\ h[2].buf \notin leaked
  BY <1>2 DEF OwnInv, Backed
<1>4. ASSUME NEW h \in held, NEW k \in held, k[2].buf = h[2].buf PROVE k = h
  <2>1. k[1] = h[1] /\ k[2] = h[2]
    BY <1>2, <1>4 DEF OwnInv
  <2> QED
    BY <1>2, <2>1
<1>5. ASSUME NEW b \in Buffers, taken[b] # -1, b \notin leaked PROVE \E h \in held : h[2].buf = b
  <2>1. PICK q \in Tasks : \E v \in table[q] : v.buf = b
    BY <1>5 DEF OwnInv
  <2>2. PICK v \in table[q] : v.buf = b
    BY <2>1
  <2>3. q \in alive /\ v \in Regions /\ b # NoBuffer
    BY <2>2, BuffersAssumption DEF OwnInv, VmaInv, NoBuffer
  <2>4. <<q, v>> \in held
    BY <1>1, <2>2, <2>3
  <2> QED
    BY <2>2, <2>4
<1> QED
  BY <1>3, <1>4, <1>5 DEF SnapshotsOwned, held

\* A snapshot of a file is allocated as long as a task can reach it, belongs to one region of one task,
\* which still starts where the snapshot was taken, and is free or known to be lost otherwise: through
\* the splits of munmap and mprotect, fork's copies and their failure, clone, execve and the hand-over
\* to a thread when the leader is reaped.
THEOREM SnapshotsStayOwned == VmaSpec => []SnapshotsOwned
<1>1. VmaSpec => []VmaInv
  BY VmaInvInit, VmaInvNext, PTL DEF VmaSpec
<1>2. VmaInv /\ OwnInv => SnapshotsOwned
  BY OwnedIs
<1> QED
  BY <1>1, <1>2, OwnInit, OwnNext, PTL DEF VmaSpec

----------------------------------------------------------------------------
(* Who shares a space.                                                      *)

\* Tasks run in one space exactly if they have one leader, and so one table.
SpaceInv ==
    /\ space \in [Tasks -> Tasks]
    /\ \A q, r \in alive : space[q] = space[r] <=> Leader(q) = Leader(r)

\* A new space is nobody else's.
LEMMA UnusedIsNew ==
  ASSUME NEW who, NEW s \in Unused(who)
  PROVE  s \in Tasks /\ \A q \in who : space[q] # s
  BY DEF Unused

\* A task that may fork or execve leads itself.
LEMMA CallerLeads ==
  ASSUME VmaInv, GroupInv, GroupCalls = {}, NEW p \in alive, NEW call, MayCall(p, call)
  PROVE  Leader(p) = p
<1>1. Leader(p) \in alive /\ tgid[Leader(p)] = 0
  BY LeaderLeads
<1>2. 0 \notin alive
  BY TasksAssumption DEF VmaInv
<1>3. Leader(Leader(p)) = Leader(p)
  BY <1>1, <1>2 DEF Leader
<1>4. Leader(p) \in Group(p)
  BY <1>1, <1>3 DEF Group
<1> QED
  BY <1>4 DEF MayCall

\* At boot one task is there.
LEMMA SpaceInit == VmaInit => SpaceInv
  BY DEF VmaInit, SpaceInv

\* Most calls move nobody.
LEMMA SpaceSame == ASSUME SpaceInv, UNCHANGED <<alive, tgid, space>> PROVE SpaceInv'
  BY DEF SpaceInv, Leader

\* A child that joins nobody has a space that is nobody's.
LEMMA ForkSpace ==
  ASSUME VmaInv, GroupInv, OwnInv, SpaceInv, NEW p \in alive, NEW t \in unborn, NEW s \in Tasks,
         NEW copies, Fork(p, t, s, copies)
  PROVE  SpaceInv' /\ Leader(t)' = t /\ \A q \in alive : Leader(q)' = Leader(q)
<1>1. /\ alive' = alive \cup {t} /\ tgid' = tgid /\ space' = [space EXCEPT ![t] = s]
      /\ \A q \in alive : space[q] # s
  BY UnusedIsNew DEF Fork
<1>2. t \in Tasks /\ t \notin alive /\ tgid[t] = 0 /\ t # 0 /\ 0 \notin alive
  BY Newborn, TasksAssumption DEF VmaInv
<1>3. Leader(t)' = t
  BY <1>1, <1>2 DEF Leader
<1>4. ASSUME NEW q \in alive PROVE Leader(q)' = Leader(q) /\ Leader(q) # t /\ space'[q] = space[q] /\ q \in Tasks
  <2>1. q \in Tasks /\ tgid[q] # t /\ (tgid[q] # 0 => tgid[q] \in alive)
    BY <1>2 DEF GroupInv, VmaInv
  <2> QED
    BY <1>1, <1>2, <2>1 DEF Leader, SpaceInv
<1>5. space'[t] = s /\ space' \in [Tasks -> Tasks]
  BY <1>1, <1>2 DEF SpaceInv
<1> QED
  BY <1>1, <1>3, <1>4, <1>5 DEF SpaceInv

\* A thread joins the group and the space of its creator.
LEMMA CloneSpace ==
  ASSUME VmaInv, GroupInv, OwnInv, SpaceInv, NEW p \in alive, NEW t \in unborn, Clone(p, t)
  PROVE  SpaceInv' /\ \A q \in alive : Leader(q)' = Leader(q) /\ Leader(q) # t /\ space'[q] = space[q]
<1>1. PICK g \in Tasks : g = Leader(p) /\ g \in alive
  BY LeaderLeads
<1>2. /\ alive' = alive \cup {t} /\ tgid' = [tgid EXCEPT ![t] = g]
      /\ space' = [space EXCEPT ![t] = space[p]]
  BY <1>1 DEF Clone
<1>3. t \in Tasks /\ t # 0 /\ t \notin alive /\ tgid[t] = 0 /\ p \in Tasks /\ 0 \notin alive
  BY Newborn, TasksAssumption DEF VmaInv
<1>4. tgid'[t] = g /\ \A q \in Tasks \ {t} : tgid'[q] = tgid[q]
  BY <1>2, <1>3 DEF VmaInv
<1>5. Leader(t)' = g
  BY <1>1, <1>2, <1>4 DEF Leader
<1>6. ASSUME NEW q \in alive
      PROVE  Leader(q)' = Leader(q) /\ Leader(q) # t /\ space'[q] = space[q] /\ q \in Tasks /\ q # t
  <2>1. q \in Tasks /\ q # t
    BY <1>3 DEF VmaInv
  <2>2. tgid[q] # t /\ (tgid[q] # 0 => tgid[q] \in alive)
    BY <1>3, <2>1 DEF GroupInv
  <2> QED
    BY <1>2, <1>3, <1>4, <2>2, <2>1 DEF Leader, SpaceInv
<1>7. space'[t] = space[p] /\ space' \in [Tasks -> Tasks]
  BY <1>2, <1>3 DEF SpaceInv
<1> QED
  BY <1>1, <1>2, <1>5, <1>6, <1>7 DEF SpaceInv

\* Only a task that is alone in its group, and so in its space, goes to another.
LEMMA ExecveSpace ==
  ASSUME VmaInv, GroupInv, SpaceInv, GroupCalls = {}, NEW p \in alive, NEW s \in Tasks, Execve(p, s)
  PROVE  /\ SpaceInv' /\ \A q \in alive : Leader(q)' = Leader(q)
         /\ Leader(p) = p /\ \A q \in alive \ {p} : space[q] # space[p] /\ space[q] # s /\ Leader(q) # p
<1>1. /\ UNCHANGED <<alive, tgid>> /\ space' = [space EXCEPT ![p] = s]
      /\ \A q \in alive \ {p} : space[q] # s
  BY UnusedIsNew DEF Execve
<1>2. Leader(p) = p
  BY CallerLeads DEF Execve
<1>3. Group(p) = {p}
  BY DEF Execve, MayCall
<1>4. ASSUME NEW q \in alive \ {p} PROVE Leader(q) # p /\ space[q] # space[p]
  BY <1>2, <1>3 DEF Group, SpaceInv
<1>5. \A q \in alive : Leader(q)' = Leader(q)
  BY <1>1 DEF Leader
<1>6. p \in Tasks /\ alive \subseteq Tasks
  BY DEF VmaInv
<1>7. space' \in [Tasks -> Tasks] /\ space'[p] = s /\ \A q \in Tasks \ {p} : space'[q] = space[q]
  BY <1>1, <1>6 DEF SpaceInv
<1>8. SpaceInv'
  <2>1. ASSUME NEW q \in alive, NEW r \in alive
        PROVE  space'[q] = space'[r] <=> Leader(q) = Leader(r)
    <3>1. CASE q = p \/ r = p
      BY <1>1, <1>2, <1>4, <1>6, <1>7, <3>1
    <3>2. CASE q # p /\ r # p
      BY <1>6, <1>7, <3>2 DEF SpaceInv
    <3> QED
      BY <3>1, <3>2
  <2> QED
    BY <1>1, <1>5, <1>7, <2>1 DEF SpaceInv
<1> QED
  BY <1>1, <1>2, <1>4, <1>5, <1>8

\* When a task is reaped the others stay together, and see the table that they saw.
LEMMA ReapSpace ==
  ASSUME VmaInv, GroupInv, SpaceInv, NEW p \in alive, Reap(p)
  PROVE  /\ SpaceInv' /\ alive' = alive \ {p}
         /\ \A q \in alive' : space'[q] = space[q] /\ table'[Leader(q)'] = table[Leader(q)]
<1>1. p \in Tasks /\ alive \subseteq Tasks /\ alive' = alive \ {p} /\ space' = [space EXCEPT ![p] = p] /\ 0 \notin alive
  BY TasksAssumption DEF Reap, VmaInv
<1>2. space' \in [Tasks -> Tasks] /\ \A q \in alive' : space'[q] = space[q]
  BY <1>1 DEF SpaceInv
<1>3. ASSUME NEW h \in alive, h # p, tgid[h] = p, HandOver(p, h)
      PROVE  SpaceInv' /\ \A q \in alive' : table'[Leader(q)'] = table[Leader(q)]
  <2>1. /\ table' = [table EXCEPT ![h] = table[p], ![p] = {}] /\ h \in Tasks /\ p # 0
        /\ \A q \in Tasks : tgid'[q] = IF q = h THEN 0 ELSE IF tgid[q] = p THEN h ELSE tgid[q]
    BY <1>1, <1>3 DEF HandOver
  <2>2. table'[h] = table[p] /\ \A q \in Tasks \ {h, p} : table'[q] = table[q]
    BY <1>1, <1>3, <2>1 DEF VmaInv
  <2>3. ASSUME NEW q \in alive'
        PROVE  /\ Leader(q)' = IF Leader(q) = p THEN h ELSE Leader(q)
               /\ Leader(q) # h /\ Leader(q) \in Tasks
    <3>1. q \in alive /\ q # p /\ q \in Tasks
      BY <1>1
    <3>2. (tgid[q] # 0 => tgid[q] \in alive /\ tgid[tgid[q]] = 0) /\ (q = h => tgid[q] = p)
      BY <1>3, <3>1 DEF GroupInv
    <3>3. Leader(q) = IF tgid[q] = 0 THEN q ELSE tgid[q]
      BY <1>1, <3>2 DEF Leader
    <3>4. Leader(q)' = IF tgid'[q] \in alive \ {p} THEN tgid'[q] ELSE q
      BY <1>1 DEF Leader
    <3>5. Leader(q) # h /\ Leader(q) \in Tasks
      BY <1>1, <1>3, <2>1, <3>1, <3>2, <3>3
    <3>6. Leader(q)' = IF Leader(q) = p THEN h ELSE Leader(q)
      BY <1>1, <1>3, <2>1, <3>1, <3>2, <3>3, <3>4
    <3> QED
      BY <3>5, <3>6
  <2>4. \A q \in alive' : table'[Leader(q)'] = table[Leader(q)]
    BY <2>2, <2>3
  <2>5. \A q, r \in alive' : Leader(q)' = Leader(r)' <=> Leader(q) = Leader(r)
    BY <2>3
  <2> QED
    BY <1>1, <1>2, <2>4, <2>5 DEF SpaceInv
<1>4. ASSUME {q \in alive \ {p} : tgid[q] = p} = {}, DropTable(p)
      PROVE  SpaceInv' /\ \A q \in alive' : table'[Leader(q)'] = table[Leader(q)]
  <2>1. table' = [table EXCEPT ![p] = {}] /\ tgid' = [tgid EXCEPT ![p] = 0]
    BY <1>4 DEF DropTable
  <2>2. ASSUME NEW q \in alive' PROVE Leader(q)' = Leader(q) /\ Leader(q) # p /\ Leader(q) \in Tasks
    <3>1. q \in alive /\ q # p /\ q \in Tasks /\ tgid[q] # p
      BY <1>1, <1>4
    <3>2. tgid'[q] = tgid[q] /\ (tgid[q] # 0 => tgid[q] \in alive)
      BY <2>1, <3>1 DEF VmaInv, GroupInv
    <3> QED
      BY <1>1, <3>1, <3>2 DEF Leader
  <2>3. \A q \in Tasks \ {p} : table'[q] = table[q]
    BY <2>1 DEF VmaInv
  <2>4. \A q \in alive' : table'[Leader(q)'] = table[Leader(q)]
    BY <2>2, <2>3
  <2>5. \A q, r \in alive' : space'[q] = space'[r] <=> Leader(q)' = Leader(r)'
    BY <1>1, <1>2, <2>2 DEF SpaceInv
  <2> QED
    BY <1>2, <2>4, <2>5 DEF SpaceInv
<1> QED
  BY <1>1, <1>2, <1>3, <1>4 DEF Reap

----------------------------------------------------------------------------
(* What vma_find says of a page.                                            *)

Protections == Prots \cup {"unmapped"}

\* f is what the regions vs say of each page.
Shows(f, vs) ==
    \A g \in PM!Pages :
       /\ \A v \in vs : v.start <= g /\ g < v.end => f[g] = v.prot
       /\ (\A v \in vs : ~(v.start <= g /\ g < v.end)) => f[g] = "unmapped"

\* Every task of a space has the same view of it, and a space without tasks is empty.
MapFacts ==
    /\ MapOf \in [Tasks -> [PM!Pages -> Protections]]
    /\ \A p \in alive : Shows(MapOf[space[p]], table[Leader(p)])
    /\ \A s \in Tasks : (\A p \in alive : space[p] # s) => MapOf[s] = PM!Empty

\* Regions say one thing only.
LEMMA ShowsOne ==
  ASSUME NEW f \in [PM!Pages -> Protections], NEW h \in [PM!Pages -> Protections], NEW vs,
         Shows(f, vs), Shows(h, vs)
  PROVE  f = h
  BY DEF Shows

\* The regions of a group do not overlap, and no other group is in its space.
LEMMA MapRight == VmaInv /\ SpaceInv => MapFacts
<1> SUFFICES ASSUME VmaInv, SpaceInv PROVE MapFacts
  OBVIOUS
<1> DEFINE found(s, g) == UNION {{v \in table[Leader(p)] : v.start <= g /\ g < v.end} : p \in {q \in alive : space[q] = s}}
           shown(s, g) == IF found(s, g) = {} THEN "unmapped" ELSE (CHOOSE v \in found(s, g) : TRUE).prot
<1>1. MapOf = [s \in Tasks |-> [g \in PM!Pages |-> shown(s, g)]]
  BY DEF MapOf, PM!Pages
<1>2. ASSUME NEW p \in alive, NEW g \in PM!Pages
      PROVE  found(space[p], g) = {v \in table[Leader(p)] : v.start <= g /\ g < v.end}
  BY DEF SpaceInv
<1>3. ASSUME NEW s \in Tasks, NEW g \in PM!Pages PROVE found(s, g) \subseteq Regions
  BY LeaderIsTask DEF VmaInv
<1>4. ASSUME NEW s \in Tasks, NEW g \in PM!Pages, \A p \in alive : space[p] # s PROVE found(s, g) = {}
  BY <1>4
<1>5. ASSUME NEW p \in alive, NEW g \in PM!Pages, NEW v \in found(space[p], g), NEW w \in found(space[p], g)
      PROVE  v = w
  <2>1. Leader(p) \in Tasks /\ table[Leader(p)] \in SUBSET Regions /\ Apart(table[Leader(p)], top[Leader(p)])
    BY LeaderIsTask DEF VmaInv
  <2>2. v \in table[Leader(p)] /\ v.start <= g /\ g < v.end /\ w \in table[Leader(p)] /\ w.start <= g /\ g < w.end
    BY <1>2
  <2>3. v = w \/ v.end <= w.start \/ w.end <= v.start
    BY <2>1, <2>2 DEF Apart
  <2>4. v.start \in Nat /\ v.end \in Nat /\ w.start \in Nat /\ w.end \in Nat /\ g \in Int
    BY <2>1, <2>2 DEF Regions, PM!Pages
  <2> QED
    BY <2>2, <2>3, <2>4
<1> HIDE DEF found
<1>6. ASSUME NEW s \in Tasks, NEW g \in PM!Pages PROVE shown(s, g) \in Protections
  <2>1. CASE found(s, g) = {}
    BY <2>1 DEF Protections
  <2>2. CASE found(s, g) # {}
    <3>1. (CHOOSE v \in found(s, g) : TRUE) \in Regions
      BY <1>3, <2>2
    <3> QED
      BY <2>2, <3>1 DEF Protections, Regions
  <2> QED
    BY <2>1, <2>2
<1>7. ASSUME NEW p \in alive PROVE Shows(MapOf[space[p]], table[Leader(p)])
  <2>1. space[p] \in Tasks
    BY DEF SpaceInv, VmaInv
  <2>2. SUFFICES ASSUME NEW g \in PM!Pages
        PROVE  /\ \A v \in table[Leader(p)] : v.start <= g /\ g < v.end => shown(space[p], g) = v.prot
               /\ (\A v \in table[Leader(p)] : ~(v.start <= g /\ g < v.end)) => shown(space[p], g) = "unmapped"
    BY <1>1, <2>1 DEF Shows
  <2>3. ASSUME NEW v \in table[Leader(p)], v.start <= g /\ g < v.end PROVE shown(space[p], g) = v.prot
    <3>1. v \in found(space[p], g)
      BY <1>2, <2>3
    <3>2. (CHOOSE w \in found(space[p], g) : TRUE) = v
      BY <1>5, <3>1
    <3> QED
      BY <3>1, <3>2
  <2>4. ASSUME \A v \in table[Leader(p)] : ~(v.start <= g /\ g < v.end) PROVE shown(space[p], g) = "unmapped"
    BY <1>2, <2>4
  <2> QED
    BY <2>3, <2>4
<1>8. ASSUME NEW s \in Tasks, \A p \in alive : space[p] # s PROVE MapOf[s] = PM!Empty
  BY <1>1, <1>4, <1>8 DEF PM!Empty, PM!Unmapped
<1> HIDE DEF shown
<1> QED
  BY <1>1, <1>6, <1>7, <1>8 DEF MapFacts

\* ... after a step, too.
LEMMA MapRightNext == VmaInv' /\ SpaceInv' => MapFacts'
  BY MapRight, PTL

\* A space that nothing happens to keeps its pages: a task of it sees the table that one saw.
LEMMA Elsewhere ==
  ASSUME MapFacts, MapFacts', NEW s \in Tasks,
         \/ \E p \in alive : \E q \in alive' :
               space[p] = s /\ space'[q] = s /\ table'[Leader(q)'] = table[Leader(p)]
         \/ (\A p \in alive : space[p] # s) /\ (\A q \in alive' : space'[q] # s)
  PROVE  MapOf'[s] = MapOf[s]
<1>1. MapOf[s] \in [PM!Pages -> Protections] /\ MapOf'[s] \in [PM!Pages -> Protections]
  BY DEF MapFacts
<1>2. ASSUME NEW p \in alive, NEW q \in alive',
             space[p] = s, space'[q] = s, table'[Leader(q)'] = table[Leader(p)]
      PROVE  MapOf'[s] = MapOf[s]
  <2>1. Shows(MapOf[s], table[Leader(p)]) /\ Shows(MapOf'[s], table[Leader(p)])
    BY <1>2 DEF MapFacts
  <2> QED
    BY <1>1, <2>1, ShowsOne
<1>3. CASE (\A p \in alive : space[p] # s) /\ (\A q \in alive' : space'[q] # s)
  BY <1>3 DEF MapFacts
<1> QED
  BY <1>2, <1>3

\* What happens to one space only.
LEMMA OneSpace ==
  ASSUME MapFacts, MapFacts', NEW s \in Tasks, asked'.space = s,
         \A r \in Tasks \ {s} : MapOf'[r] = MapOf[r], NEW f, MapOf'[s] = f
  PROVE  PM!Becomes(MapOf', f)
<1>1. MapOf' = [r \in Tasks |-> MapOf'[r]] /\ MapOf = [r \in Tasks |-> MapOf[r]]
  BY DEF MapFacts
<1>2. MapOf' = [MapOf EXCEPT ![s] = f]
  BY <1>1
<1> QED
  BY <1>2 DEF PM!Becomes

\* A call that changes the table of the caller's group.
LEMMA CallShown ==
  ASSUME VmaInv, SpaceInv, MapFacts, MapFacts', NEW p \in alive, UNCHANGED taskVars, NEW vs,
         table' = [table EXCEPT ![Leader(p)] = vs], asked'.space = space[p],
         NEW f \in [PM!Pages -> Protections], Shows(f, vs)
  PROVE  PM!Becomes(MapOf', f)
<1>1. PICK g \in Tasks : g = Leader(p)
  BY LeaderIsTask
<1>2. UNCHANGED <<alive, tgid, space>> /\ \A q \in alive : Leader(q)' = Leader(q) /\ Leader(q) \in Tasks
  BY LeaderIsTask DEF taskVars, Leader
<1>3. table'[g] = vs /\ \A q \in Tasks \ {g} : table'[q] = table[q]
  BY <1>1 DEF VmaInv
<1>4. space[p] \in Tasks
  BY DEF SpaceInv, VmaInv
<1>5. MapOf'[space[p]] = f
  <2>1. MapOf'[space[p]] \in [PM!Pages -> Protections] /\ Shows(MapOf'[space[p]], vs)
    BY <1>1, <1>2, <1>3, <1>4 DEF MapFacts
  <2> QED
    BY <2>1, ShowsOne
<1>6. ASSUME NEW r \in Tasks \ {space[p]} PROVE MapOf'[r] = MapOf[r]
  <2>1. \A q \in alive : space[q] = r => Leader(q) # g
    BY <1>1, <1>6 DEF SpaceInv
  <2>2. \/ \E q \in alive : space[q] = r
        \/ \A q \in alive : space[q] # r
    OBVIOUS
  <2>3. \A q \in alive : space[q] = r => table'[Leader(q)'] = table[Leader(q)]
    BY <1>2, <1>3, <2>1
  <2> QED
    BY <1>2, <2>2, <2>3, Elsewhere
<1> QED
  BY <1>4, <1>5, <1>6, OneSpace

----------------------------------------------------------------------------
(* The calls, page by page.                                                 *)

\* The new range was free, and no page outside it changes.
LEMMA MmapShown ==
  ASSUME VmaInv, SpaceInv, MapFacts, MapFacts', NEW p \in alive, NEW len \in Addresses \ {0},
         NEW prot \in NewProts, NEW buf, Mmap(p, len, prot, buf)
  PROVE  PM!MapNext
<1>1. PICK g \in Tasks : g = Leader(p)
  BY LeaderIsTask
<1> DEFINE r == [start |-> top[g], end |-> top[g] + len, prot |-> prot, buf |-> buf]
           was == MapOf[space[p]]
           f == PM!Covered(was, prot)
<1>2. /\ table' = [table EXCEPT ![g] = table[g] \cup {r}] /\ UNCHANGED taskVars
      /\ asked' = [op |-> "mmap", space |-> space[p], from |-> top[g], to |-> top[g] + len, prot |-> prot]
  BY <1>1 DEF Mmap, Ask
<1>3. table[g] \in SUBSET Regions /\ top[g] \in Addresses /\ Apart(table[g], top[g])
  BY DEF VmaInv
<1>4. was \in [PM!Pages -> Protections] /\ Shows(was, table[g])
  BY <1>1 DEF MapFacts, SpaceInv, VmaInv
<1>5. \A v \in table[g] : v.start \in Nat /\ v.end \in Nat /\ v.end <= top[g]
  BY <1>3 DEF Apart, Regions
<1> HIDE DEF was
<1>6. /\ f \in [PM!Pages -> Protections]
      /\ \A h \in PM!Pages : f[h] = IF top[g] <= h /\ h < top[g] + len THEN prot ELSE was[h]
  BY <1>2, <1>4, ProtsAssumption DEF PM!Covered, Protections
<1> HIDE DEF f
<1>7. Shows(f, table[g] \cup {r})
  <2>1. SUFFICES ASSUME NEW h \in PM!Pages
                 PROVE  /\ \A v \in table[g] \cup {r} : v.start <= h /\ h < v.end => f[h] = v.prot
                        /\ (\A v \in table[g] \cup {r} : ~(v.start <= h /\ h < v.end)) => f[h] = "unmapped"
    BY DEF Shows
  <2>2. h \in Nat /\ top[g] \in Nat /\ r.start = top[g] /\ r.end = top[g] + len /\ r.prot = prot
    BY <1>3 DEF PM!Pages
  <2> HIDE DEF r
  <2>3. ASSUME NEW v \in table[g], v.start <= h /\ h < v.end PROVE f[h] = v.prot
    <3>1. h < top[g] /\ was[h] = v.prot
      BY <1>4, <1>5, <2>2, <2>3 DEF Shows
    <3> QED
      BY <1>6, <2>2, <3>1
  <2>4. r.start <= h /\ h < r.end => f[h] = r.prot
    BY <1>6, <2>2
  <2>5. (\A v \in table[g] : ~(v.start <= h /\ h < v.end)) => was[h] = "unmapped"
    BY <1>4 DEF Shows
  <2>6. ~(r.start <= h /\ h < r.end) => f[h] = was[h]
    BY <1>6, <2>2
  <2> QED
    BY <2>3, <2>4, <2>5, <2>6
<1>8. PM!Becomes(MapOf', f)
  <2> HIDE DEF r
  <2> QED
    BY <1>1, <1>2, <1>6, <1>7, CallShown
<1>9. \A h \in PM!Pages : top[g] <= h => was[h] = PM!Unmapped
  BY <1>3, <1>4, <1>5 DEF Shows, PM!Pages, PM!Unmapped
<1>10. \A h \in top[g]..(top[g] + len - 1) : h \in PM!Pages /\ top[g] <= h
  <2>1. top[g] + len <= NPages
    BY <1>1 DEF Mmap
  <2> QED
    BY <1>3, <2>1 DEF PM!Pages
<1>11. PM!Reserve(was, MapOf')
  <2>1. asked'.op = "mmap" /\ asked'.from = top[g] /\ asked'.to = top[g] + len /\ asked'.prot = prot
    BY <1>2
  <2>2. PM!Becomes(MapOf', PM!Covered(was, asked'.prot))
    BY <1>8, <2>1 DEF f
  <2>3. \A h \in asked'.from..(asked'.to - 1) : was[h] = PM!Unmapped
    <3>1. PICK lo \in Nat, hi \in Nat : lo = top[g] /\ hi = top[g] + len
      BY <1>3
    <3>2. asked'.from = lo /\ asked'.to = hi
      BY <2>1, <3>1
    <3>3. \A h \in lo..(hi - 1) : was[h] = PM!Unmapped
      BY <1>9, <1>10, <3>1
    <3> QED
      BY <3>2, <3>3
  <2> QED
    BY <2>1, <2>2, <2>3 DEF PM!Reserve
<1> QED
  BY <1>2, <1>11 DEF PM!MapNext, was

\* What is left of a region by munmap is what it was outside the range.
LEMMA OutsideShows ==
  ASSUME NEW v \in Regions, NEW a \in Addresses, NEW b \in Addresses, a < b, NEW h \in PM!Pages
  PROVE  /\ \A n \in Outside(v, a, b) : n.prot = v.prot
         /\ (v.start <= h /\ h < v.end) /\ ~(a <= h /\ h < b)
            <=> \E n \in Outside(v, a, b) : n.start <= h /\ h < n.end
<1>1. v.start \in Nat /\ v.end \in Nat /\ a \in Nat /\ b \in Nat /\ h \in Nat
  BY DEF Regions, PM!Pages
<1>2. \A n \in Before(v, a) : n.prot = v.prot /\ n.start = v.start /\ n.end = a /\ v.start < a
  BY DEF Before, Regions
<1>3. v.start < a => \E n \in Before(v, a) : n.start = v.start /\ n.end = a
  BY DEF Before, Regions
<1>4. \A n \in After(v, b) : n.prot = v.prot /\ n.start = b /\ n.end = v.end /\ b < v.end
  BY DEF After, Regions
<1>5. v.end > b => \E n \in After(v, b) : n.start = b /\ n.end = v.end
  BY DEF After, Regions
<1>6. CASE Overlaps(v, a, b)
  <2>1. Outside(v, a, b) = Before(v, a) \cup After(v, b) /\ v.start < b /\ v.end > a
    BY <1>6 DEF Outside, Overlaps
  <2>2. (v.start <= h /\ h < v.end) /\ ~(a <= h /\ h < b) => (v.start < a /\ h < a) \/ (v.end > b /\ b <= h)
    BY <1>1
  <2>3. (v.start <= h /\ h < v.end) /\ ~(a <= h /\ h < b)
        => \E n \in Outside(v, a, b) : n.start <= h /\ h < n.end
    BY <1>3, <1>5, <2>1, <2>2
  <2>4. ASSUME NEW n \in Outside(v, a, b), n.start <= h /\ h < n.end
        PROVE  (v.start <= h /\ h < v.end) /\ ~(a <= h /\ h < b)
    BY <1>1, <1>2, <1>4, <2>1, <2>4
  <2>5. \A n \in Outside(v, a, b) : n.prot = v.prot
    BY <1>2, <1>4, <2>1
  <2> QED
    BY <2>3, <2>4, <2>5
<1>7. CASE ~Overlaps(v, a, b)
  <2>1. Outside(v, a, b) = {v}
    BY <1>7 DEF Outside
  <2>2. v.start <= h /\ h < v.end => ~(a <= h /\ h < b)
    BY <1>1, <1>7 DEF Overlaps
  <2> QED
    BY <2>1, <2>2
<1> QED
  BY <1>6, <1>7

\* A region that mprotect splits covers the pages that it did, with the new protection in the range.
LEMMA SplitShows ==
  ASSUME NEW v \in Regions, NEW a \in Addresses, NEW b \in Addresses, a < b, NEW h \in PM!Pages,
         NEW prot \in Prots, Overlaps(v, a, b)
  PROVE  /\ \A n \in Split(v, a, b, prot) :
               n.start <= h /\ h < n.end => n.prot = IF a <= h /\ h < b THEN prot ELSE v.prot
         /\ (v.start <= h /\ h < v.end)
            <=> \E n \in Split(v, a, b, prot) : n.start <= h /\ h < n.end
<1> DEFINE mid == [Inside(v, a, b) EXCEPT !.prot = prot]
<1>1. v.start \in Nat /\ v.end \in Nat /\ a \in Nat /\ b \in Nat /\ h \in Nat
  BY DEF Regions, PM!Pages
<1>2. \A n \in Before(v, a) : n.prot = v.prot /\ n.start = v.start /\ n.end = a /\ v.start < a
  BY DEF Before, Regions
<1>3. v.start < a => \E n \in Before(v, a) : n.start = v.start /\ n.end = a
  BY DEF Before, Regions
<1>4. \A n \in After(v, b) : n.prot = v.prot /\ n.start = b /\ n.end = v.end /\ b < v.end
  BY DEF After, Regions
<1>5. v.end > b => \E n \in After(v, b) : n.start = b /\ n.end = v.end
  BY DEF After, Regions
<1>6. mid.start = Larger(v.start, a) /\ mid.end = Smaller(v.end, b) /\ mid.prot = prot
  BY DEF Inside, Regions
<1>7. Split(v, a, b, prot) = Before(v, a) \cup After(v, b) \cup {mid} /\ v.start < b /\ v.end > a
  BY DEF Split, Overlaps
<1> HIDE DEF mid
<1>8. mid.start <= h /\ h < mid.end <=> (v.start <= h /\ h < v.end) /\ (a <= h /\ h < b)
  BY <1>1, <1>6 DEF Larger, Smaller
<1>9. ASSUME NEW n \in Split(v, a, b, prot), n.start <= h /\ h < n.end
      PROVE  (v.start <= h /\ h < v.end) /\ n.prot = IF a <= h /\ h < b THEN prot ELSE v.prot
  <2>1. CASE n \in Before(v, a)
    BY <1>1, <1>2, <1>7, <1>9, <2>1
  <2>2. CASE n \in After(v, b)
    BY <1>1, <1>4, <1>7, <1>9, <2>2
  <2>3. CASE n = mid
    BY <1>6, <1>8, <1>9, <2>3
  <2> QED
    BY <1>7, <2>1, <2>2, <2>3
<1>10. ASSUME v.start <= h /\ h < v.end PROVE \E n \in Split(v, a, b, prot) : n.start <= h /\ h < n.end
  <2>1. CASE a <= h /\ h < b
    BY <1>7, <1>8, <1>10, <2>1
  <2>2. CASE ~(a <= h /\ h < b)
    <3>1. (v.start < a /\ h < a) \/ (v.end > b /\ b <= h)
      BY <1>1, <1>10, <2>2
    <3> QED
      BY <1>3, <1>5, <1>7, <1>10, <3>1
  <2> QED
    BY <2>1, <2>2
<1> QED
  BY <1>9, <1>10

\* munmap releases the range and nothing else.
LEMMA MunmapShown ==
  ASSUME VmaInv, SpaceInv, MapFacts, MapFacts', NEW p \in alive,
         NEW a \in Addresses, NEW b \in Addresses, a < b, Munmap(p, a, b)
  PROVE  PM!MapNext
<1>1. PICK g \in Tasks : g = Leader(p)
  BY LeaderIsTask
<1> DEFINE kept == UNION {Outside(v, a, b) : v \in table[g]}
           was == MapOf[space[p]]
           f == PM!Covered(was, PM!Unmapped)
<1>2. /\ table' = [table EXCEPT ![g] = kept] /\ UNCHANGED taskVars
      /\ asked' = [op |-> "munmap", space |-> space[p], from |-> a, to |-> b, prot |-> "none"]
  BY <1>1 DEF Munmap, Ask
<1>3. table[g] \in SUBSET Regions
  BY DEF VmaInv
<1>4. was \in [PM!Pages -> Protections] /\ Shows(was, table[g])
  BY <1>1 DEF MapFacts, SpaceInv, VmaInv
<1> HIDE DEF was
<1>5. /\ f \in [PM!Pages -> Protections]
      /\ \A h \in PM!Pages : f[h] = IF a <= h /\ h < b THEN "unmapped" ELSE was[h]
  BY <1>2, <1>4 DEF PM!Covered, PM!Unmapped, Protections
<1>6. \A n : n \in kept <=> \E v \in table[g] : n \in Outside(v, a, b)
  OBVIOUS
<1> HIDE DEF f, kept
<1>7. Shows(f, kept)
  <2>1. SUFFICES ASSUME NEW h \in PM!Pages
                 PROVE  /\ \A n \in kept : n.start <= h /\ h < n.end => f[h] = n.prot
                        /\ (\A n \in kept : ~(n.start <= h /\ h < n.end)) => f[h] = "unmapped"
    BY DEF Shows
  <2>2. \A v \in table[g] :
           /\ \A n \in Outside(v, a, b) : n.prot = v.prot
           /\ (v.start <= h /\ h < v.end) /\ ~(a <= h /\ h < b)
              <=> \E n \in Outside(v, a, b) : n.start <= h /\ h < n.end
    BY <1>3, OutsideShows
  <2>3. ASSUME NEW n \in kept, n.start <= h /\ h < n.end PROVE f[h] = n.prot
    <3>1. PICK v \in table[g] : n \in Outside(v, a, b)
      BY <1>6
    <3>2. n.prot = v.prot /\ (v.start <= h /\ h < v.end) /\ ~(a <= h /\ h < b)
      BY <2>2, <2>3, <3>1
    <3> QED
      BY <1>4, <1>5, <3>2 DEF Shows
  <2>4. ASSUME \A n \in kept : ~(n.start <= h /\ h < n.end), ~(a <= h /\ h < b) PROVE was[h] = "unmapped"
    <3>1. \A v \in table[g] : ~(v.start <= h /\ h < v.end)
      BY <1>6, <2>2, <2>4
    <3> QED
      BY <1>4, <3>1 DEF Shows
  <2> QED
    BY <1>5, <2>3, <2>4
<1>8. PM!Becomes(MapOf', f)
  BY <1>1, <1>2, <1>5, <1>7, CallShown
<1>9. PM!Release(was, MapOf')
  BY <1>2, <1>8 DEF PM!Release, f
<1> QED
  BY <1>2, <1>9 DEF PM!MapNext, was

\* mprotect changes the pages of the range that are mapped, and maps none.
LEMMA MprotectShown ==
  ASSUME VmaInv, SpaceInv, MapFacts, MapFacts', NEW p \in alive,
         NEW a \in Addresses, NEW b \in Addresses, a < b, NEW prot \in Prots, Mprotect(p, a, b, prot)
  PROVE  PM!MapNext
<1>1. PICK g \in Tasks : g = Leader(p)
  BY LeaderIsTask
<1> DEFINE over == {v \in table[g] : Overlaps(v, a, b)}
           new == (table[g] \ over) \cup UNION {Split(v, a, b, prot) : v \in over}
           was == MapOf[space[p]]
           f == [h \in PM!Pages |-> IF was[h] = PM!Unmapped THEN PM!Unmapped ELSE PM!Covered(was, prot)[h]]
<1>2. /\ table' = [table EXCEPT ![g] = new] /\ UNCHANGED taskVars
      /\ asked' = [op |-> "mprotect", space |-> space[p], from |-> a, to |-> b, prot |-> prot]
  BY <1>1 DEF Mprotect, Ask
<1>3. table[g] \in SUBSET Regions
  BY DEF VmaInv
<1>4. was \in [PM!Pages -> Protections] /\ Shows(was, table[g])
  BY <1>1 DEF MapFacts, SpaceInv, VmaInv
<1> HIDE DEF was
<1>5. /\ f \in [PM!Pages -> Protections]
      /\ \A h \in PM!Pages : f[h] = IF was[h] = "unmapped" THEN "unmapped"
                                    ELSE IF a <= h /\ h < b THEN prot ELSE was[h]
  BY <1>2, <1>4 DEF PM!Covered, PM!Unmapped, Protections
<1>6. \A n : n \in new <=> \/ n \in table[g] /\ ~Overlaps(n, a, b)
                           \/ \E v \in table[g] : Overlaps(v, a, b) /\ n \in Split(v, a, b, prot)
  OBVIOUS
<1> HIDE DEF f, new
<1>7. Shows(f, new)
  <2>1. SUFFICES ASSUME NEW h \in PM!Pages
                 PROVE  /\ \A n \in new : n.start <= h /\ h < n.end => f[h] = n.prot
                        /\ (\A n \in new : ~(n.start <= h /\ h < n.end)) => f[h] = "unmapped"
    BY DEF Shows
  <2>2. \A v \in table[g] : Overlaps(v, a, b) =>
           /\ \A n \in Split(v, a, b, prot) :
                 n.start <= h /\ h < n.end => n.prot = IF a <= h /\ h < b THEN prot ELSE v.prot
           /\ (v.start <= h /\ h < v.end)
              <=> \E n \in Split(v, a, b, prot) : n.start <= h /\ h < n.end
    BY <1>3, SplitShows
  <2>3. \A v \in table[g] : v.start <= h /\ h < v.end => was[h] = v.prot /\ was[h] # "unmapped"
    BY <1>3, <1>4, ProtsAssumption DEF Shows, Regions
  <2>4. \A v \in table[g] : ~Overlaps(v, a, b) /\ v.start <= h /\ h < v.end => ~(a <= h /\ h < b)
    BY <1>3 DEF Overlaps, Regions, PM!Pages
  <2>5. ASSUME NEW n \in new, n.start <= h /\ h < n.end PROVE f[h] = n.prot
    <3>1. CASE n \in table[g] /\ ~Overlaps(n, a, b)
      BY <1>5, <2>3, <2>4, <2>5, <3>1
    <3>2. ASSUME NEW v \in table[g], Overlaps(v, a, b), n \in Split(v, a, b, prot) PROVE f[h] = n.prot
      BY <1>5, <2>2, <2>3, <2>5, <3>2
    <3> QED
      BY <1>6, <3>1, <3>2
  <2>6. ASSUME \A n \in new : ~(n.start <= h /\ h < n.end) PROVE was[h] = "unmapped"
    <3>1. \A v \in table[g] : ~(v.start <= h /\ h < v.end)
      BY <1>6, <2>2, <2>6
    <3> QED
      BY <1>4, <3>1 DEF Shows
  <2> QED
    BY <1>5, <2>5, <2>6
<1>8. PM!Becomes(MapOf', f)
  BY <1>1, <1>2, <1>5, <1>7, CallShown
<1>9. PM!Protect(was, MapOf')
  <2>1. asked'.op = "mprotect" /\ asked'.prot = prot
    BY <1>2
  <2> QED
    BY <1>8, <2>1 DEF PM!Protect, f
<1> QED
  BY <1>2, <1>9 DEF PM!MapNext, was

\* The child of a fork has the pages of its parent.
LEMMA ForkShown ==
  ASSUME VmaInv, GroupInv, OwnInv, SpaceInv, MapFacts, MapFacts', GroupCalls = {},
         NEW p \in alive, NEW t \in unborn, NEW s \in Tasks,
         NEW copies \in [BuffersOf(table[p]) -> Buffers \cup {NoBuffer}], Fork(p, t, s, copies)
  PROVE  PM!MapNext
<1> DEFINE c(v) == [v EXCEPT !.buf = IF @ = NoBuffer THEN @ ELSE copies[@]]
           copy == {c(v) : v \in table[p]}
<1>1. /\ alive' = alive \cup {t} /\ space' = [space EXCEPT ![t] = s]
      /\ table' = [table EXCEPT ![t] = copy] /\ \A q \in alive : space[q] # s
      /\ asked' = [op |-> "copy", space |-> s, from |-> space[p], to |-> space[p], prot |-> "none"]
  BY UnusedIsNew DEF Fork, Ask
<1>2. Leader(t)' = t /\ \A q \in alive : Leader(q)' = Leader(q)
  BY ForkSpace
<1>3. t \in Tasks /\ t \notin alive /\ p \in Tasks /\ alive \subseteq Tasks
  BY Newborn DEF VmaInv
<1>4. Leader(p) = p
  BY CallerLeads DEF Fork
<1>5. /\ space'[t] = s /\ \A q \in alive : space'[q] = space[q]
      /\ table'[t] = copy /\ \A q \in alive : table'[Leader(q)'] = table[Leader(q)]
  <2>1. \A q \in alive : Leader(q) \in Tasks /\ Leader(q) # t
    BY <1>3, LeaderLeads
  <2> QED
    BY <1>1, <1>2, <1>3, <2>1 DEF SpaceInv, VmaInv
<1>6. \A v \in table[p] : c(v).start = v.start /\ c(v).end = v.end /\ c(v).prot = v.prot
  BY <1>3 DEF VmaInv, Regions
<1> HIDE DEF c
<1>7. MapOf'[s] = MapOf[space[p]]
  <2> HIDE DEF copy
  <2>1. Shows(MapOf[space[p]], table[p]) /\ Shows(MapOf'[s], copy)
    <3>1. t \in alive' /\ table'[Leader(t)'] = copy
      BY <1>1, <1>2, <1>5
    <3>2. Shows(MapOf'[space'[t]], table'[Leader(t)']) /\ Shows(MapOf[space[p]], table[Leader(p)])
      BY <3>1 DEF MapFacts
    <3> QED
      BY <1>4, <1>5, <3>1, <3>2
  <2>2. Shows(MapOf[space[p]], copy)
    BY <1>6, <2>1 DEF Shows, copy
  <2>3. MapOf[space[p]] \in [PM!Pages -> Protections] /\ MapOf'[s] \in [PM!Pages -> Protections]
    BY <1>3 DEF MapFacts, SpaceInv
  <2> QED
    BY <2>1, <2>2, <2>3, ShowsOne
<1> HIDE DEF copy
<1>8. ASSUME NEW r \in Tasks \ {s} PROVE MapOf'[r] = MapOf[r]
  <2>1. CASE \E q \in alive : space[q] = r
    BY <1>1, <1>5, <2>1, Elsewhere
  <2>2. CASE \A q \in alive : space[q] # r
    <3>1. \A q \in alive' : space'[q] # r
      BY <1>1, <1>5, <1>8, <2>2
    <3> QED
      BY <2>2, <3>1, Elsewhere
  <2> QED
    BY <2>1, <2>2
<1>9. PM!Becomes(MapOf', MapOf[space[p]])
  BY <1>1, <1>7, <1>8, OneSpace
<1>10. PM!Duplicate(MapOf')
  BY <1>1, <1>9 DEF PM!Duplicate
<1> QED
  BY <1>10 DEF PM!MapNext

\* A call that asks for nothing changes no page.
LEMMA NothingShown ==
  ASSUME MapFacts, MapFacts', NEW p, AskNothing(p), \A s \in Tasks : MapOf'[s] = MapOf[s]
  PROVE  PM!MapNext
<1>1. MapOf' = MapOf
  BY DEF MapFacts
<1> QED
  BY <1>1 DEF PM!MapNext, AskNothing, Ask

\* A fork that fails leaves every page as it was.
LEMMA ForkFailsShown ==
  ASSUME MapFacts, MapFacts', NEW p, NEW t, NEW copies, ForkFails(p, t, copies)
  PROVE  PM!MapNext
<1>1. UNCHANGED <<alive, tgid, space, table>> /\ AskNothing(p)
  BY DEF ForkFails
<1>2. ASSUME NEW s \in Tasks PROVE MapOf'[s] = MapOf[s]
  BY <1>1, Elsewhere DEF Leader
<1> QED
  BY <1>1, <1>2, NothingShown

\* A thread sees the pages of its group.
LEMMA CloneShown ==
  ASSUME VmaInv, GroupInv, OwnInv, SpaceInv, MapFacts, MapFacts',
         NEW p \in alive, NEW t \in unborn, Clone(p, t)
  PROVE  PM!MapNext
<1>1. /\ alive' = alive \cup {t} /\ space' = [space EXCEPT ![t] = space[p]]
      /\ table' = [table EXCEPT ![t] = Unbacked(table[p])] /\ AskNothing(p)
  BY DEF Clone
<1>2. \A q \in alive : Leader(q)' = Leader(q) /\ Leader(q) # t /\ space'[q] = space[q]
  BY CloneSpace
<1>3. \A q \in alive : table'[Leader(q)'] = table[Leader(q)]
  BY <1>1, <1>2, LeaderIsTask DEF VmaInv
<1>4. space'[t] = space[p]
  BY <1>1, Newborn DEF SpaceInv
<1>5. ASSUME NEW s \in Tasks PROVE MapOf'[s] = MapOf[s]
  <2>1. CASE \E q \in alive : space[q] = s
    BY <1>1, <1>2, <1>3, <2>1, Elsewhere
  <2>2. CASE \A q \in alive : space[q] # s
    <3>1. \A q \in alive' : space'[q] # s
      BY <1>1, <1>2, <1>4, <2>2
    <3> QED
      BY <2>2, <3>1, Elsewhere
  <2> QED
    BY <2>1, <2>2
<1> QED
  BY <1>1, <1>5, NothingShown

\* The last task of a space takes every page of it away.
LEMMA LeaveShown ==
  ASSUME SpaceInv, MapFacts, MapFacts', NEW p \in alive, p \in Tasks, LeaveSpace(p),
         \A s \in Tasks : MapOf'[s] = MapOf[s] \/ (MapOf'[s] = PM!Empty /\ s = space[p]),
         (\A q \in alive \ {p} : space[q] # space[p]) => MapOf'[space[p]] = PM!Empty,
         (\E q \in alive \ {p} : space[q] = space[p]) => MapOf'[space[p]] = MapOf[space[p]]
  PROVE  PM!MapNext
<1>1. space[p] \in Tasks
  BY DEF SpaceInv
<1>2. CASE \E q \in alive \ {p} : space[q] = space[p]
  <2>1. AskNothing(p) /\ \A s \in Tasks : MapOf'[s] = MapOf[s]
    BY <1>2 DEF LeaveSpace
  <2> QED
    BY <2>1, NothingShown
<1>3. CASE \A q \in alive \ {p} : space[q] # space[p]
  <2>1. asked' = [op |-> "free", space |-> space[p], from |-> 0, to |-> NPages, prot |-> "none"]
    BY <1>3 DEF LeaveSpace, Ask
  <2>2. PM!Covered(MapOf[space[p]], PM!Unmapped) = PM!Empty
    BY <2>1 DEF PM!Covered, PM!Empty, PM!Pages
  <2>3. PM!Becomes(MapOf', PM!Empty)
    BY <1>1, <1>3, <2>1, OneSpace
  <2>4. PM!Release(MapOf[space[p]], MapOf')
    BY <2>1, <2>2, <2>3 DEF PM!Release
  <2> QED
    BY <2>1, <2>4 DEF PM!MapNext
<1> QED
  BY <1>2, <1>3

\* execve leaves one space empty and begins in another.
LEMMA ExecveShown ==
  ASSUME VmaInv, GroupInv, SpaceInv, MapFacts, MapFacts', GroupCalls = {},
         NEW p \in alive, NEW s \in Tasks, Execve(p, s)
  PROVE  PM!MapNext
<1>1. /\ alive' = alive /\ space' = [space EXCEPT ![p] = s] /\ table' = [table EXCEPT ![p] = {}]
      /\ p \in Tasks /\ alive \subseteq Tasks /\ LeaveSpace(p)
  BY DEF Execve, VmaInv
<1>2. /\ SpaceInv' /\ \A q \in alive : Leader(q)' = Leader(q)
      /\ Leader(p) = p /\ \A q \in alive \ {p} : space[q] # space[p] /\ space[q] # s /\ Leader(q) # p
  BY ExecveSpace
<1>3. /\ space'[p] = s /\ table'[p] = {}
      /\ \A q \in alive \ {p} : space'[q] = space[q] /\ table'[Leader(q)'] = table[Leader(q)]
  BY <1>1, <1>2, LeaderIsTask DEF SpaceInv, VmaInv
<1>4. MapOf'[s] = PM!Empty
  <2>1. Shows(MapOf'[s], {}) /\ MapOf'[s] \in [PM!Pages -> Protections]
    <3>1. /\ MapOf' \in [Tasks -> [PM!Pages -> Protections]]
          /\ \A q \in alive' : Shows(MapOf'[space'[q]], table'[Leader(q)'])
      BY DEF MapFacts
    <3>2. Shows(MapOf'[space'[p]], table'[Leader(p)'])
      BY <1>1, <3>1
    <3>3. Leader(p)' = p
      BY <1>2
    <3> QED
      BY <1>3, <3>1, <3>2, <3>3
  <2>2. \A g \in PM!Pages : MapOf'[s][g] = "unmapped"
    BY <2>1 DEF Shows
  <2> QED
    BY <2>1, <2>2 DEF PM!Empty, PM!Unmapped
<1>5. MapOf'[space[p]] = PM!Empty
  <2>1. CASE s = space[p]
    BY <1>4, <2>1
  <2>2. CASE s # space[p]
    <3>1. \A q \in alive' : space'[q] # space[p]
      BY <1>1, <1>2, <1>3, <2>2
    <3>2. space[p] \in Tasks
      BY <1>1 DEF SpaceInv
    <3> QED
      BY <3>1, <3>2 DEF MapFacts
  <2> QED
    BY <2>1, <2>2
<1>6. ASSUME NEW r \in Tasks, r # space[p] PROVE MapOf'[r] = MapOf[r]
  <2>1. CASE r = s
    <3>1. \A q \in alive : space[q] # s
      BY <1>2, <1>6, <2>1
    <3> QED
      BY <1>4, <2>1, <3>1 DEF MapFacts
  <2>2. CASE r # s
    <3>1. CASE \E q \in alive : space[q] = r
      <4>1. PICK q \in alive \ {p} : space[q] = r
        BY <1>6, <3>1
      <4> QED
        BY <1>1, <1>3, <4>1, Elsewhere
    <3>2. CASE \A q \in alive : space[q] # r
      <4>1. \A q \in alive' : space'[q] # r
        BY <1>1, <1>3, <2>2, <3>2
      <4> QED
        BY <3>2, <4>1, Elsewhere
    <3> QED
      BY <3>1, <3>2
  <2> QED
    BY <2>1, <2>2
<1> QED
  BY <1>1, <1>2, <1>5, <1>6, LeaveShown

\* The pages of a task that is reaped stay while anybody is in its space, and go with the last.
LEMMA ReapShown ==
  ASSUME VmaInv, GroupInv, SpaceInv, MapFacts, MapFacts', NEW p \in alive, Reap(p)
  PROVE  PM!MapNext
<1>1. /\ alive' = alive \ {p} /\ p \in Tasks /\ LeaveSpace(p)
      /\ \A q \in alive' : space'[q] = space[q] /\ table'[Leader(q)'] = table[Leader(q)]
  BY ReapSpace DEF Reap, VmaInv
<1>2. ASSUME NEW r \in Tasks, \E q \in alive \ {p} : space[q] = r PROVE MapOf'[r] = MapOf[r]
  BY <1>1, <1>2, Elsewhere
<1>3. ASSUME NEW r \in Tasks, \A q \in alive \ {p} : space[q] # r PROVE MapOf'[r] = PM!Empty
  BY <1>1, <1>3 DEF MapFacts
<1>4. ASSUME NEW r \in Tasks, r # space[p] PROVE MapOf'[r] = MapOf[r]
  <2>1. CASE \E q \in alive \ {p} : space[q] = r
    BY <1>2, <2>1
  <2>2. CASE \A q \in alive \ {p} : space[q] # r
    <3>1. MapOf[r] = PM!Empty
      BY <1>4, <2>2 DEF MapFacts
    <3> QED
      BY <1>3, <2>2, <3>1
  <2> QED
    BY <2>1, <2>2
<1>5. space[p] \in Tasks
  BY <1>1 DEF SpaceInv
<1> QED
  BY <1>1, <1>2, <1>3, <1>4, <1>5, LeaveShown

\* At boot nothing is mapped.
LEMMA PagesInit == VmaInit => PM!MapInit
<1> SUFFICES ASSUME VmaInit PROVE PM!MapInit
  OBVIOUS
<1>1. VmaInv /\ SpaceInv /\ \A q \in Tasks : table[q] = {}
  BY VmaInvInit, SpaceInit DEF VmaInit
<1>2. MapFacts
  BY <1>1, MapRight
<1>3. ASSUME NEW s \in Tasks PROVE MapOf[s] = PM!Empty
  <2>1. CASE \A p \in alive : space[p] # s
    BY <1>2, <2>1 DEF MapFacts
  <2>2. ASSUME NEW p \in alive, space[p] = s PROVE MapOf[s] = PM!Empty
    <3>1. table[Leader(p)] = {}
      BY <1>1, LeaderIsTask
    <3>2. MapOf[s] \in [PM!Pages -> Protections] /\ Shows(MapOf[s], {})
      BY <1>2, <2>2, <3>1 DEF MapFacts
    <3>3. \A g \in PM!Pages : MapOf[s][g] = "unmapped"
      BY <3>2 DEF Shows
    <3> QED
      BY <3>2, <3>3 DEF PM!Empty, PM!Unmapped
  <2> QED
    BY <2>1, <2>2
<1>4. MapOf = [s \in Tasks |-> MapOf[s]]
  BY <1>2 DEF MapFacts
<1> QED
  BY <1>3, <1>4 DEF PM!MapInit

\* Every call keeps the spaces apart.
LEMMA SpaceNext ==
  ASSUME GroupCalls = {}, VmaInv, GroupInv, OwnInv, SpaceInv, [VmaNext]_vmaVars
  PROVE  SpaceInv'
<1>1. CASE UNCHANGED vmaVars
  BY <1>1, SpaceSame DEF vmaVars, taskVars
<1>2. ASSUME NEW p \in alive, NEW len, NEW prot, NEW b, Mmap(p, len, prot, b) PROVE SpaceInv'
  BY <1>2, SpaceSame DEF Mmap, taskVars
<1>3. ASSUME NEW p \in alive, NEW a, NEW b, Munmap(p, a, b) \/ \E prot \in Prots : Mprotect(p, a, b, prot)
      PROVE  SpaceInv'
  BY <1>3, SpaceSame DEF Munmap, Mprotect, taskVars
<1>4. ASSUME NEW p \in alive, NEW t \in unborn, NEW copies,
             (\E s \in Tasks : Fork(p, t, s, copies)) \/ ForkFails(p, t, copies)
      PROVE  SpaceInv'
  BY <1>4, ForkSpace, SpaceSame DEF ForkFails
<1>5. ASSUME NEW p \in alive, NEW t \in unborn, Clone(p, t) PROVE SpaceInv'
  BY <1>5, CloneSpace
<1>6. ASSUME NEW p \in alive, NEW s \in Tasks, Execve(p, s) PROVE SpaceInv'
  BY <1>6, ExecveSpace
<1>7. ASSUME NEW p \in alive, Reap(p) PROVE SpaceInv'
  BY <1>7, ReapSpace
<1> QED
  BY <1>1, <1>2, <1>3, <1>4, <1>5, <1>6, <1>7 DEF VmaNext

\* Every call is what PageMap promises of it.
LEMMA PagesNext ==
  ASSUME GroupCalls = {}, VmaInv, GroupInv, OwnInv, SpaceInv, VmaInv', VmaNext
  PROVE  PM!MapNext
<1>1. SpaceInv'
  BY SpaceNext
<1>2. MapFacts /\ MapFacts'
  BY <1>1, MapRight, MapRightNext
<1>3. ASSUME NEW p \in alive, NEW len \in Addresses \ {0}, NEW prot \in NewProts,
             NEW b, Mmap(p, len, prot, b)
      PROVE  PM!MapNext
  BY <1>2, <1>3, MmapShown
<1>4. ASSUME NEW p \in alive, NEW a \in Addresses, NEW b \in Addresses, a < b,
             Munmap(p, a, b) \/ \E prot \in Prots : Mprotect(p, a, b, prot)
      PROVE  PM!MapNext
  BY <1>2, <1>4, MunmapShown, MprotectShown
<1>5. ASSUME NEW p \in alive, NEW t \in unborn,
             NEW copies \in [BuffersOf(table[p]) -> Buffers \cup {NoBuffer}],
             (\E s \in Tasks : Fork(p, t, s, copies)) \/ ForkFails(p, t, copies)
      PROVE  PM!MapNext
  BY <1>2, <1>5, ForkShown, ForkFailsShown
<1>6. ASSUME NEW p \in alive, NEW t \in unborn, Clone(p, t) PROVE PM!MapNext
  BY <1>2, <1>6, CloneShown
<1>7. ASSUME NEW p \in alive, NEW s \in Tasks, Execve(p, s) PROVE PM!MapNext
  BY <1>2, <1>7, ExecveShown
<1>8. ASSUME NEW p \in alive, Reap(p) PROVE PM!MapNext
  BY <1>2, <1>8, ReapShown
<1> QED
  BY <1>3, <1>4, <1>5, <1>6, <1>7, <1>8 DEF VmaNext

\* Page by page, do_mmap, do_munmap and do_mprotect change the protection of the range that they are
\* asked for and nothing else, fork copies a space, clone shares it, and a space is emptied by the last
\* task that leaves it, as long as fork and execve are not called by one thread of several.
THEOREM PagesAreAsAsked ==
  ASSUME GroupCalls = {}
  PROVE  VmaSpec => PagesKeepTheirProtection
<1>1. VmaSpec => []VmaInv
  BY VmaInvInit, VmaInvNext, PTL DEF VmaSpec
<1>2. VmaInv /\ GroupInv /\ OwnInv /\ SpaceInv /\ [VmaNext]_vmaVars => SpaceInv'
  BY SpaceNext
<1>3. VmaInv /\ VmaInv' /\ GroupInv /\ OwnInv /\ SpaceInv /\ [VmaNext]_vmaVars
      => [UNCHANGED vmaVars \/ PM!MapNext]_<<MapOf, asked>>
  BY PagesNext
<1> QED
  BY <1>1, <1>2, <1>3, OwnInit, OwnNext, SpaceInit, PagesInit, PTL DEF VmaSpec, PagesKeepTheirProtection
=============================================================================
