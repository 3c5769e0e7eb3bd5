----------------------------- MODULE Ext2_proofs ----------------------------
(***************************************************************************)
(* What the driver leaves on the disk, whenever the machine stops: the     *)
(* bitmaps cover what is reachable after every write, nothing is lost      *)
(* before the first crash, and the names change one at a time.  For any    *)
(* names, any numbers of inodes and blocks, operations and crashes.        *)
(*                                                                         *)
(* An operation is a log of disks.  State says what a disk is like in the  *)
(* middle of one: the inodes K are Kept with blocks of their own, every    *)
(* path leads into K (Named), K and its blocks and what the operation has  *)
(* in hand (I, B) are in use (Bits), and, when nothing has been lost yet   *)
(* (exact), nothing else is in use and the links of the root are right     *)
(* but for extra ones (Book).  A disk is Sound when it is so for some K    *)
(* and nothing in hand, which is what a crash leaves, and Settled when     *)
(* that K is all that is in use.                                           *)
(*                                                                         *)
(* A machine that stops within the write of an entry leaves a disk that is *)
(* not in the log; it is sound too (CrashInsideStep).                      *)
(*                                                                         *)
(* Now says that a log has come as far as such a State by sound disks,     *)
(* each of which Moves the tree as one step of Namespace, or not at all.   *)
(* Each writing helper of ext2.c has a lemma that takes Now to Now; an     *)
(* operation is a chain of them, with one link at which the tree changes.  *)
(* FsInv, the inductive invariant, is what Now says of the writes to come: *)
(* all of them sound, each a move, and the last settled as long as there   *)
(* has been no crash.                                                      *)
(*                                                                         *)
(* The links of the root are in the book only before the first crash: one  *)
(* between the entry of a directory and the root's link++ loses a link.    *)
(***************************************************************************)
EXTENDS Ext2Props, FiniteSetTheorems, SequenceTheorems, WellFoundedInduction, TLAPS

----------------------------------------------------------------------------
(* Numbers.                                                                 *)

\* A set of numbers with a number in it has a least one.
LEMMA LeastExists ==
  ASSUME NEW T \in SUBSET Nat, NEW k \in T
  PROVE  \E i \in T : \A j \in T : i <= j
<1>1. IsWellFoundedOn(OpToRel(<, Nat), Nat)
  BY NatLessThanWellFounded
<1>2. PICK i \in T : ~(\E j \in T : <<j, i>> \in OpToRel(<, Nat))
  BY <1>1, WFMin, T # {}
<1>3. ASSUME NEW j \in T PROVE i <= j
  BY <1>2 DEF OpToRel
<1> QED
  BY <1>2, <1>3

\* Induction up to n, with a set for the property.
LEMMA UpTo ==
  ASSUME NEW n \in Nat, NEW T, 0 \in T, \A k \in 1..n : k - 1 \in T => k \in T
  PROVE  \A k \in 0..n : k \in T
<1> DEFINE R == {k \in 0..n : k \notin T}
<1> SUFFICES ASSUME NEW k \in R PROVE FALSE
  OBVIOUS
<1>1. PICK i \in R : \A j \in R : i <= j
  BY LeastExists, R \in SUBSET Nat
<1>2. i \in 1..n /\ i - 1 \notin R
  BY <1>1
<1>3. i - 1 \in T
  BY <1>2
<1> QED
  BY <1>2, <1>3

\* A set of numbers up to n has a greatest.
LEMMA MaxIs ==
  ASSUME NEW n \in Nat, NEW S \in SUBSET (1..n), S # {}
  PROVE  /\ Max(S) \in S /\ \A i \in S : i <= Max(S)
         /\ Max(S) \in 1..n
<1> DEFINE T == {m \in Nat : \A i \in S : i <= m}
<1>1. n \in T
  OBVIOUS
<1>2. PICK m \in T : \A j \in T : m <= j
  BY <1>1, LeastExists, T \in SUBSET Nat
<1>3. m \in S
  <2>1. SUFFICES ASSUME m \notin S PROVE FALSE
    OBVIOUS
  <2>2. \A i \in S : i <= m - 1
    BY <1>2, <2>1
  <2>3. PICK i \in S : TRUE
    OBVIOUS
  <2>4. m - 1 \in Nat
    BY <1>2, <2>2, <2>3
  <2>5. m - 1 \in T
    BY <2>2, <2>4
  <2> QED
    BY <1>2, <2>4, <2>5
<1>4. \E x \in S : \A y \in S : x >= y
  BY <1>2, <1>3
<1>5. Max(S) \in S /\ \A y \in S : Max(S) >= y
  BY <1>4 DEF Max
<1> QED
  BY <1>5

----------------------------------------------------------------------------
(* The folds of the model.                                                  *)

\* What each of them does with its i-th element.
FoldStep(kind, u, s, i) ==
    IF kind = "map" THEN MapBlock(s, i) ELSE FreeBlock(s, BlockAt(u.disk, u.inode, i))

\* g is the function behind FoldLeft.
FoldFcn(g, kind, u, s, n) ==
    g = [S \in SUBSET (1..n) |->
           IF S = {} THEN s ELSE FoldStep(kind, u, g[S \ {Max(S)}], Max(S))]

\* There is such a function.
LEMMA FoldsExist ==
  ASSUME NEW kind, NEW u, NEW s, NEW n \in Nat
  PROVE  \E g : FoldFcn(g, kind, u, s, n)
<1> DEFINE T == {N \in 0..n : \E g : FoldFcn(g, kind, u, s, N)}
<1>1. 0 \in T
  <2> DEFINE g == [S \in SUBSET (1..0) |-> s]
  <2>1. SUBSET (1..0) = {{}}
    OBVIOUS
  <2>2. FoldFcn(g, kind, u, s, 0)
    BY <2>1 DEF FoldFcn
  <2> QED
    BY <2>2
<1>2. ASSUME NEW N \in 1..n, N - 1 \in T PROVE N \in T
  <2>1. PICK g : FoldFcn(g, kind, u, s, N - 1)
    BY <1>2
  <2> DEFINE h == [S \in SUBSET (1..N) |->
                     IF N \in S THEN FoldStep(kind, u, g[S \ {N}], N) ELSE g[S]]
  <2>2. ASSUME NEW S \in SUBSET (1..N)
        PROVE  h[S] = IF S = {} THEN s ELSE FoldStep(kind, u, h[S \ {Max(S)}], Max(S))
    <3>1. CASE N \in S
      <4>1. N <= Max(S) /\ Max(S) \in 1..N
        BY <3>1, MaxIs
      <4>2. Max(S) = N
        BY <4>1
      <4>3. S \ {N} \in SUBSET (1..N) /\ N \notin S \ {N}
        OBVIOUS
      <4>4. h[S \ {N}] = g[S \ {N}] /\ h[S] = FoldStep(kind, u, g[S \ {N}], N)
        BY <3>1, <4>3
      <4> QED
        BY <3>1, <4>2, <4>4
    <3>2. CASE N \notin S /\ S # {}
      <4>1. S \in SUBSET (1..(N - 1)) /\ h[S] = g[S]
        BY <3>2
      <4>2. S \ {Max(S)} \in SUBSET (1..N) /\ N \notin S \ {Max(S)}
        BY <3>2
      <4>3. h[S \ {Max(S)}] = g[S \ {Max(S)}]
        BY <4>2
      <4>4. g[S] = FoldStep(kind, u, g[S \ {Max(S)}], Max(S))
        BY <2>1, <3>2, <4>1 DEF FoldFcn
      <4> QED
        BY <3>2, <4>1, <4>3, <4>4
    <3>3. CASE S = {}
      <4>1. {} \in SUBSET (1..(N - 1))
        OBVIOUS
      <4>2. g[{}] = s
        BY <2>1, <4>1 DEF FoldFcn
      <4> QED
        BY <3>3, <4>2
    <3> QED
      BY <3>1, <3>2, <3>3
  <2>3. FoldFcn(h, kind, u, s, N)
    BY <2>2 DEF FoldFcn
  <2> QED
    BY <2>3
<1> HIDE DEF T
<1>3. n \in T
  BY <1>1, <1>2, UpTo
<1> QED
  BY <1>3 DEF T

OneByOne(g, kind, u, s, n) ==
    /\ g[1..0] = s
    /\ \A k \in 1..n : g[1..k] = FoldStep(kind, u, g[1..(k - 1)], k)

\* It goes through the numbers up to n one by one.
LEMMA FoldsOneByOne ==
  ASSUME NEW kind, NEW u, NEW s, NEW n \in Nat, NEW g, FoldFcn(g, kind, u, s, n)
  PROVE  OneByOne(g, kind, u, s, n)
<1>1. g[1..0] = s
  BY 1..0 = {} DEF FoldFcn
<1>2. ASSUME NEW k \in 1..n PROVE g[1..k] = FoldStep(kind, u, g[1..(k - 1)], k)
  <2>1. 1..k \in SUBSET (1..n) /\ k \in 1..k /\ 1..k # {} /\ 1..k \in SUBSET (1..k) /\ k \in Nat
    OBVIOUS
  <2>2. Max(1..k) \in 1..k /\ k <= Max(1..k)
    BY <2>1, MaxIs
  <2>3. Max(1..k) = k
    BY <2>2
  <2>4. (1..k) \ {k} = 1..(k - 1)
    OBVIOUS
  <2> QED
    BY <2>1, <2>3, <2>4 DEF FoldFcn
<1> QED
  BY <1>1, <1>2 DEF OneByOne

\* The loop of ext2_write_file.
LEMMA MapFold ==
  ASSUME NEW s, NEW n \in Nat
  PROVE  \E f : /\ f[0] = s /\ \A k \in 1..n : f[k] = MapBlock(f[k - 1], k)
                /\ MapBlocks(s, n) = f[n]
<1> DEFINE q == [i \in 1..n |-> i]
           Rec(g) == g = [S \in SUBSET (1..n) |->
                            IF S = {} THEN s ELSE MapBlock(g[S \ {Max(S)}], q[Max(S)])]
           F == CHOOSE g : Rec(g)
<1>1. PICK g : FoldFcn(g, "map", 0, s, n)
  BY FoldsExist
<1>2. \A S \in SUBSET (1..n) : S # {} => q[Max(S)] = Max(S)
  BY MaxIs
<1>3. Rec(g)
  <2> HIDE DEF q
  <2> QED
    BY <1>1, <1>2 DEF FoldFcn, FoldStep
<1>4. Rec(F)
  <2> HIDE DEF Rec
  <2> QED
    BY <1>3
<1>5. MapBlocks(s, n) = F[1..n]
  BY DEF MapBlocks, FoldLeft, MapThenFoldSet
<1> HIDE DEF F
<1>6. FoldFcn(F, "map", 0, s, n)
  <2> HIDE DEF q
  <2> QED
    BY <1>2, <1>4 DEF FoldFcn, FoldStep
<1> DEFINE f == [k \in 0..n |-> F[1..k]]
<1>7. f[0] = s /\ \A k \in 1..n : f[k] = MapBlock(f[k - 1], k)
  <2>1. F[1..0] = s /\ \A k \in 1..n : F[1..k] = FoldStep("map", 0, F[1..(k - 1)], k)
    <3>1. OneByOne(F, "map", 0, s, n)
      BY <1>6, FoldsOneByOne, ZenonT(60)
    <3> QED
      BY <3>1, Zenon DEF OneByOne
  <2>2. ASSUME NEW k \in 1..n PROVE F[1..k] = MapBlock(F[1..(k - 1)], k)
    BY <2>1 DEF FoldStep
  <2>3. f[0] = F[1..0] /\ \A k \in 1..n : f[k] = F[1..k] /\ f[k - 1] = F[1..(k - 1)]
    OBVIOUS
  <2> HIDE DEF f
  <2> QED
    BY <2>1, <2>2, <2>3
<1>8. f[n] = F[1..n]
  OBVIOUS
<1> QED
  BY <1>5, <1>7, <1>8

\* free_inode_blocks.
LEMMA FreeFold ==
  ASSUME NEW log, NEW n, Indirect \in Nat
  PROVE  \E f : /\ f[0] = log
                /\ \A k \in 1..Indirect : f[k] = FreeBlock(f[k - 1], BlockAt(Last(log), n, k))
                /\ FreeBlocksOf(log, n) = f[Indirect]
<1> DEFINE s == log
           N == Indirect
           u == [disk |-> Last(log), inode |-> n]
           FreeAt(t, i) == FreeBlock(t, BlockAt(Last(log), n, i))
           q == [i \in 1..N |-> i]
           Rec(g) == g = [S \in SUBSET (1..N) |->
                            IF S = {} THEN s ELSE FreeAt(g[S \ {Max(S)}], q[Max(S)])]
           F == CHOOSE g : Rec(g)
<1>1. PICK g : FoldFcn(g, "free", u, s, N)
  BY FoldsExist
<1>2. \A S \in SUBSET (1..N) : S # {} => q[Max(S)] = Max(S)
  BY MaxIs
<1>3. Rec(g)
  <2> HIDE DEF q
  <2> QED
    BY <1>1, <1>2 DEF FoldFcn, FoldStep
<1>4. Rec(F)
  <2> HIDE DEF Rec
  <2> QED
    BY <1>3
<1>5. FreeBlocksOf(log, n) = F[1..N]
  BY DEF FreeBlocksOf, FoldLeft, MapThenFoldSet, Places
<1> HIDE DEF F
<1>6. FoldFcn(F, "free", u, s, N)
  <2> HIDE DEF q
  <2> QED
    BY <1>2, <1>4 DEF FoldFcn, FoldStep
<1> DEFINE f == [k \in 0..N |-> F[1..k]]
<1>7. f[0] = s /\ \A k \in 1..N : f[k] = FreeAt(f[k - 1], k)
  <2>1. F[1..0] = s /\ \A k \in 1..N : F[1..k] = FoldStep("free", u, F[1..(k - 1)], k)
    <3>1. OneByOne(F, "free", u, s, N)
      BY <1>6, FoldsOneByOne, ZenonT(60)
    <3> QED
      BY <3>1, Zenon DEF OneByOne
  <2>2. ASSUME NEW k \in 1..N PROVE F[1..k] = FreeAt(F[1..(k - 1)], k)
    BY <2>1 DEF FoldStep
  <2>3. f[0] = F[1..0] /\ \A k \in 1..N : f[k] = F[1..k] /\ f[k - 1] = F[1..(k - 1)]
    OBVIOUS
  <2> HIDE DEF f
  <2> QED
    BY <2>1, <2>2, <2>3
<1>8. f[N] = F[1..N]
  OBVIOUS
<1> QED
  BY <1>5, <1>7, <1>8

----------------------------------------------------------------------------
(* What holds of a disk d.                                                  *)

Disks == [iuse : SUBSET Inodes, buse : SUBSET Blocks, inode : [Inodes -> DiskInodes],
          block : [Blocks -> DiskBlocks], sb : Nat, mem : Nat]

\* The blocks of the inodes K.
Owned(d, K) == {OwnBlock(d, i, x) : i \in K, x \in Places} \ {None}

\* The inodes K have been written, and no two of them share a block.
Kept(d, K) ==
    /\ \A i \in K : d.inode[i].kind # "none" /\ (d.inode[i].kind = "file" => d.inode[i].links = 1)
    /\ \A i, j \in K, x, y \in Places :
          OwnBlock(d, i, x) = OwnBlock(d, j, y) /\ OwnBlock(d, i, x) # None => i = j /\ x = y

\* K with its blocks O is in use, and so are the inodes I and the blocks B that the operation has
\* in hand; where exact, nothing else is.
Bits(d, K, O, I, B, exact) ==
    /\ K \cup I \subseteq d.iuse /\ K \cap I = {}
    /\ O \cup B \subseteq d.buse /\ O \cap B = {}
    /\ exact => d.iuse = K \cup I /\ d.buse = O \cup B /\ d.mem = Cardinality(Blocks \ d.buse)

\* The blocks of a directory come first, and a name is in one of them.
DirOk(d, p) ==
    LET n == d.inode[p]
    IN  /\ n.kind = "dir" /\ n.size \in 1..NDirect
        /\ \A k \in 1..(NDirect + 1) : n.ptr[k] # None <=> k <= n.size
        /\ \A k, h \in 1..n.size, a \in Names :
              d.block[n.ptr[k]].ents[a] # None /\ d.block[n.ptr[h]].ents[a] # None => k = h

\* Every path leads into K, and no two to one place; directories are in the root.
Named(d, K) ==
    /\ Dirs(d) \subseteq K
    /\ \A p \in Dirs(d) : DirOk(d, p)
    /\ \A p \in Dirs(d) \ {Root} :
          /\ d.inode[p].links = 2
          /\ \A a \in Names : Lookup(d, p, a) # None => d.inode[Lookup(d, p, a)].kind = "file"
    /\ \A p \in Dirs(d), a \in Names : Lookup(d, p, a) \in (K \ {Root}) \cup {None}
    /\ \A p, q \in Dirs(d), a, b \in Names :
          Lookup(d, p, a) = Lookup(d, q, b) /\ Lookup(d, p, a) # None => p = q /\ a = b

\* All of K is reachable or a removed directory, and the root has a link for each directory
\* and extra ones.
Book(d, K, extra) ==
    /\ \A i \in K : i \in Reach(d) \/ (d.inode[i].kind = "dir" /\ d.inode[i].links = 1)
    /\ d.inode[Root].links = 1 + Cardinality(Dirs(d)) + extra

\* A disk on which K is kept, in the middle of an operation.
State(d, K, I, B, extra, exact) ==
    /\ d \in Disks /\ Kept(d, K) /\ Bits(d, K, Owned(d, K), I, B, exact) /\ Named(d, K)
    /\ exact => Book(d, K, extra)

\* What may be there after a crash, and what is there after an operation before the first crash.
Sound(d)   == \E K : State(d, K, {}, {}, 0, FALSE)
Settled(d) == State(d, d.iuse, {}, {}, 0, TRUE)

\* One write changes the tree as one step of the specification may.
Moves(d, t) ==
    \/ TreeOf(t) = TreeOf(d)
    \/ \E path \in NS!Paths :
          \/ NS!Make(TreeOf(d), TreeOf(t), path, NS!Folder)
          \/ NS!Make(TreeOf(d), TreeOf(t), path, NS!File(0))
          \/ NS!Drop(TreeOf(d), TreeOf(t), path)
          \/ \E size \in 0..FileBlocks : NS!Resize(TreeOf(d), TreeOf(t), path, size)

\* The inductive invariant: what the operation in progress leaves, and each disk on the way there.
FsInv ==
    /\ todo \in Seq(Disks) /\ Sound(disk) /\ \A j \in 1..Len(todo) : Sound(todo[j])
    /\ todo # <<>> => Moves(disk, todo[1])
    /\ \A j \in 1..(Len(todo) - 1) : Moves(todo[j], todo[j + 1])
    /\ ops \in 0..MaxOps /\ crashes \in 0..MaxCrashes
    /\ crashes = MaxCrashes => Settled(IF todo = <<>> THEN disk ELSE Last(todo))

----------------------------------------------------------------------------
(* Numbers, places and disks.                                               *)

\* The places of an inode.
LEMMA PlaceFacts ==
  /\ NDirect \in Nat /\ NDirect > 0 /\ PerIndirect \in Nat /\ FileBlocks \in Nat /\ Indirect \in Nat
  /\ Indirect = NDirect + PerIndirect + 1 /\ Indirect \in Places /\ Places \subseteq Nat
  /\ FileBlocks = NDirect + PerIndirect
  /\ \A x \in Places : x \in 1..NDirect \/ x = Indirect \/ (x > NDirect /\ x # Indirect /\ x - NDirect \in 1..PerIndirect)
  /\ \A x \in 1..NDirect : x \in Places /\ x # Indirect
  /\ \A k \in 1..PerIndirect : k + NDirect \in Places /\ k + NDirect # Indirect /\ ~(k + NDirect <= NDirect)
  /\ \A x \in Places : ~(x <= NDirect) <=> x > NDirect
  /\ NDirect + 1 \in 1..(NDirect + 1) /\ \A x \in 1..NDirect : x \in 1..(NDirect + 1)
  BY PointersAssumption DEF FileBlocks, Indirect, Places

\* The numbers of inodes and blocks.
LEMMA NumberFacts ==
  /\ Root \in Inodes /\ Root # None /\ Inodes \subseteq Nat /\ Blocks \subseteq Nat
  /\ None \notin Inodes /\ None \notin Blocks /\ 1 \in Blocks /\ None \in Nat
<1>1. /\ NInodes \in Nat /\ 2 <= NInodes /\ NInodes <= BitmapBits
      /\ NBlocks \in Nat /\ NBlocks >= 1
  <2>1. Root = 2 /\ BitmapBits \in Nat
    BY DEF Root, BitmapBits
  <2> QED
    BY <2>1, GroupAssumption
<1>2. Root # None /\ None \in Nat
  BY DEF Root, None
<1>3. Root \in Inodes /\ Inodes \subseteq Nat
  BY <1>1 DEF Root, Inodes
<1>4. None \notin Inodes
  BY <1>1 DEF Root, Inodes, None
<1>5. Blocks \subseteq Nat /\ 1 \in Blocks
  BY <1>1 DEF Blocks
<1>6. None \notin Blocks
  BY <1>1 DEF Blocks, None
<1> QED
  BY <1>2, <1>3, <1>4, <1>5, <1>6

\* A set of numbers has a least one.
LEMMA MinIs ==
  ASSUME NEW S \in SUBSET Nat, S # {}
  PROVE  Min(S) \in S /\ \A y \in S : Min(S) <= y
<1>1. PICK k \in S : TRUE
  OBVIOUS
<1>2. \E x \in S : \A y \in S : x =< y
  BY <1>1, LeastExists
<1> QED
  BY <1>2 DEF Min

\* The least of one.
LEMMA MinOfOne ==
  ASSUME NEW v \in Nat
  PROVE  Min({v}) = v
<1>1. {v} \in SUBSET Nat /\ {v} # {}
  OBVIOUS
<1>2. Min({v}) \in {v}
  BY <1>1, MinIs
<1> QED
  BY <1>2

\* find_free_bit.
LEMMA FirstFreeIs ==
  ASSUME NEW all \in SUBSET Nat, NEW used, None \notin all
  PROVE  /\ FirstFree(all, used) # None => FirstFree(all, used) \in all \ used
         /\ FirstFree(all, used) = None => all \subseteq used
<1>1. CASE all \subseteq used
  BY <1>1 DEF FirstFree
<1>2. CASE ~(all \subseteq used)
  <2>1. all \ used \in SUBSET Nat /\ all \ used # {}
    BY <1>2
  <2>2. Min(all \ used) \in all \ used
    BY <2>1, MinIs
  <2> QED
    BY <1>2, <2>2 DEF FirstFree
<1> QED
  BY <1>1, <1>2

\* The parts of a disk.
LEMMA DiskFacts ==
  ASSUME NEW d \in Disks
  PROVE  /\ d.iuse \in SUBSET Inodes /\ d.buse \in SUBSET Blocks /\ d.sb \in Nat /\ d.mem \in Nat
         /\ d.inode \in [Inodes -> DiskInodes] /\ d.block \in [Blocks -> DiskBlocks]
         /\ \A i \in Inodes : /\ d.inode[i] \in DiskInodes
                              /\ \A k \in 1..(NDirect + 1) : d.inode[i].ptr[k] \in Blocks \cup {None}
         /\ \A b \in Blocks : /\ d.block[b] \in DiskBlocks
                              /\ \A a \in Names : d.block[b].ents[a] \in Inodes \cup {None}
                              /\ \A k \in 1..PerIndirect : d.block[b].ptr[k] \in Blocks \cup {None}
<1>1. /\ d.iuse \in SUBSET Inodes /\ d.buse \in SUBSET Blocks /\ d.sb \in Nat /\ d.mem \in Nat
      /\ d.inode \in [Inodes -> DiskInodes] /\ d.block \in [Blocks -> DiskBlocks]
  BY DEF Disks
<1>2. ASSUME NEW i \in Inodes
      PROVE  /\ d.inode[i] \in DiskInodes
             /\ \A k \in 1..(NDirect + 1) : d.inode[i].ptr[k] \in Blocks \cup {None}
  <2>1. d.inode[i] \in DiskInodes
    BY <1>1
  <2> QED
    BY <2>1 DEF DiskInodes
<1>3. ASSUME NEW b \in Blocks
      PROVE  /\ d.block[b] \in DiskBlocks
             /\ \A a \in Names : d.block[b].ents[a] \in Inodes \cup {None}
             /\ \A k \in 1..PerIndirect : d.block[b].ptr[k] \in Blocks \cup {None}
  <2>1. d.block[b] \in DiskBlocks
    BY <1>1
  <2> QED
    BY <2>1 DEF DiskBlocks
<1> QED
  BY <1>1, <1>2, <1>3

\* What an inode in memory has where.
LEMMA BlockAtCases ==
  ASSUME NEW d, NEW n
  PROVE  /\ \A x \in 1..NDirect : BlockAt(d, n, x) = n.ptr[x]
         /\ BlockAt(d, n, Indirect) = n.ptr[NDirect + 1]
         /\ \A x \in Places : x > NDirect /\ n.ptr[NDirect + 1] = None => BlockAt(d, n, x) = None
         /\ \A x \in Places : x > NDirect /\ x # Indirect /\ n.ptr[NDirect + 1] # None =>
               BlockAt(d, n, x) = d.block[n.ptr[NDirect + 1]].ptr[x - NDirect]
<1>1. \A x \in 1..NDirect : x <= NDirect
  BY PlaceFacts
<1>2. ~(Indirect <= NDirect)
  BY PlaceFacts
<1>3. \A x \in Places : x > NDirect => ~(x <= NDirect)
  BY PlaceFacts
<1> QED
  BY <1>1, <1>2, <1>3 DEF BlockAt

\* The same, case by case.
LEMMA AtDirect ==
  ASSUME NEW d, NEW n, NEW x \in 1..NDirect
  PROVE  BlockAt(d, n, x) = n.ptr[x]
  BY BlockAtCases

\* Behind the direct blocks there is nothing without an indirect block.
LEMMA AtNone ==
  ASSUME NEW d, NEW n, NEW x \in Places, x > NDirect, n.ptr[NDirect + 1] = None
  PROVE  BlockAt(d, n, x) = None
  BY BlockAtCases

\* With one, there is what it points to.
LEMMA AtInner ==
  ASSUME NEW d, NEW n, NEW x \in Places, x > NDirect, x # Indirect, NEW q, q = n.ptr[NDirect + 1], q # None
  PROVE  BlockAt(d, n, x) = d.block[q].ptr[x - NDirect]
  BY BlockAtCases

\* What an inode on the disk has where.
LEMMA OwnBlockCases ==
  ASSUME NEW d, NEW i
  PROVE  /\ \A x \in 1..NDirect : OwnBlock(d, i, x) = d.inode[i].ptr[x]
         /\ OwnBlock(d, i, Indirect) = d.inode[i].ptr[NDirect + 1]
         /\ \A x \in Places : x > NDirect /\ d.inode[i].ptr[NDirect + 1] = None => OwnBlock(d, i, x) = None
         /\ \A x \in Places : x > NDirect /\ x # Indirect /\ d.inode[i].ptr[NDirect + 1] # None =>
               OwnBlock(d, i, x) = d.block[d.inode[i].ptr[NDirect + 1]].ptr[x - NDirect]
<1> DEFINE n == d.inode[i]
<1>1. \A x : OwnBlock(d, i, x) = BlockAt(d, n, x)
  BY DEF OwnBlock
<1>2. n = d.inode[i]
  OBVIOUS
<1> HIDE DEF n
<1>3. /\ \A x \in 1..NDirect : BlockAt(d, n, x) = n.ptr[x]
      /\ BlockAt(d, n, Indirect) = n.ptr[NDirect + 1]
      /\ \A x \in Places : x > NDirect /\ n.ptr[NDirect + 1] = None => BlockAt(d, n, x) = None
      /\ \A x \in Places : x > NDirect /\ x # Indirect /\ n.ptr[NDirect + 1] # None =>
            BlockAt(d, n, x) = d.block[n.ptr[NDirect + 1]].ptr[x - NDirect]
  BY BlockAtCases
<1> QED
  BY <1>1, <1>2, <1>3

\* The same, case by case.
LEMMA OwnDirect ==
  ASSUME NEW d, NEW i, NEW x \in 1..NDirect
  PROVE  OwnBlock(d, i, x) = d.inode[i].ptr[x]
  BY AtDirect DEF OwnBlock

\* The indirect block.
LEMMA OwnIndirect ==
  ASSUME NEW d, NEW i
  PROVE  OwnBlock(d, i, Indirect) = d.inode[i].ptr[NDirect + 1]
  BY BlockAtCases DEF OwnBlock

\* What is behind an indirect block that is not there.
LEMMA OwnNone ==
  ASSUME NEW d, NEW i, NEW x \in Places, x > NDirect, d.inode[i].ptr[NDirect + 1] = None
  PROVE  OwnBlock(d, i, x) = None
  BY AtNone DEF OwnBlock

\* What is behind one that is.
LEMMA OwnInner ==
  ASSUME NEW d, NEW i, NEW x \in Places, x > NDirect, x # Indirect,
         NEW q, q = d.inode[i].ptr[NDirect + 1], q # None
  PROVE  OwnBlock(d, i, x) = d.block[q].ptr[x - NDirect]
  BY AtInner DEF OwnBlock

\* How many blocks a directory has.
LEMMA DirSize ==
  ASSUME NEW d, NEW p, DirOk(d, p)
  PROVE  d.inode[p].size \in Nat /\ d.inode[p].size \in 1..NDirect
<1>1. d.inode[p].size \in 1..NDirect
  BY DEF DirOk
<1>2. NDirect \in Nat
  BY PlaceFacts
<1> QED
  BY <1>1, <1>2

\* It is a block or nothing.
LEMMA BlockAtType ==
  ASSUME NEW d \in Disks, NEW n \in DiskInodes, NEW x \in Places
  PROVE  BlockAt(d, n, x) \in Blocks \cup {None}
<1> DEFINE q == n.ptr[NDirect + 1]
<1>1. \A k \in 1..(NDirect + 1) : n.ptr[k] \in Blocks \cup {None}
  BY DEF DiskInodes
<1>2. q \in Blocks \cup {None}
  BY <1>1, PlaceFacts
<1>3. x \in 1..NDirect \/ x = Indirect \/ (x > NDirect /\ x # Indirect /\ x - NDirect \in 1..PerIndirect)
  BY PlaceFacts
<1>4. CASE x \in 1..NDirect
  <2>1. x \in 1..(NDirect + 1)
    BY <1>4, PlaceFacts
  <2>2. BlockAt(d, n, x) = n.ptr[x]
    BY <1>4, AtDirect
  <2> QED
    BY <1>1, <2>1, <2>2
<1>5. CASE x = Indirect
  BY <1>2, <1>5, BlockAtCases
<1>6. CASE x > NDirect /\ x # Indirect /\ x - NDirect \in 1..PerIndirect
  <2>1. CASE q = None
    BY <1>6, <2>1, BlockAtCases
  <2>2. CASE q # None
    <3>1. BlockAt(d, n, x) = d.block[q].ptr[x - NDirect]
      BY <1>6, <2>2, BlockAtCases
    <3>2. q \in Blocks
      BY <1>2, <2>2
    <3> HIDE DEF q
    <3>3. d.block[q].ptr[x - NDirect] \in Blocks \cup {None}
      BY <1>6, <3>2, DiskFacts
    <3> QED
      BY <3>1, <3>3
  <2> QED
    BY <2>1, <2>2
<1> QED
  BY <1>3, <1>4, <1>5, <1>6

\* The same on the disk.
LEMMA OwnBlockType ==
  ASSUME NEW d \in Disks, NEW i \in Inodes, NEW x \in Places
  PROVE  OwnBlock(d, i, x) \in Blocks \cup {None}
<1>1. d.inode[i] \in DiskInodes
  BY DiskFacts
<1> QED
  BY <1>1, BlockAtType DEF OwnBlock

\* The blocks of a directory.
LEMMA DirFacts ==
  ASSUME NEW d \in Disks, NEW p \in Inodes, DirOk(d, p)
  PROVE  /\ d.inode[p].size \in 1..NDirect /\ d.inode[p].kind = "dir"
         /\ \A k \in 1..d.inode[p].size :
               k \in Places /\ d.inode[p].ptr[k] = OwnBlock(d, p, k) /\ OwnBlock(d, p, k) \in Blocks
         /\ DirBlocks(d, p) = {OwnBlock(d, p, k) : k \in 1..d.inode[p].size}
<1> DEFINE n == d.inode[p]
<1>1. n.size \in 1..NDirect /\ n.kind = "dir" /\ \A k \in 1..(NDirect + 1) : n.ptr[k] # None <=> k <= n.size
  BY DEF DirOk
<1>2. ASSUME NEW k \in 1..n.size
      PROVE  k \in Places /\ n.ptr[k] = OwnBlock(d, p, k) /\ OwnBlock(d, p, k) \in Blocks
  <2>1. k \in 1..NDirect /\ k \in 1..(NDirect + 1) /\ k <= n.size
    BY <1>1, PlaceFacts
  <2>2. k \in Places /\ OwnBlock(d, p, k) = n.ptr[k] /\ n.ptr[k] # None
    BY <1>1, <2>1, PlaceFacts, OwnDirect
  <2>3. n.ptr[k] \in Blocks \cup {None}
    BY <2>1, DiskFacts
  <2> QED
    BY <2>2, <2>3
<1>3. DirBlocks(d, p) = {OwnBlock(d, p, k) : k \in 1..n.size}
  <2>1. DirBlocks(d, p) = {n.ptr[k] : k \in 1..n.size} \ {None}
    BY DEF DirBlocks
  <2>2. \A k \in 1..n.size : n.ptr[k] = OwnBlock(d, p, k) /\ n.ptr[k] # None
    BY <1>2, NumberFacts
  <2> HIDE DEF n
  <2> QED
    BY <2>1, <2>2
<1> QED
  BY <1>1, <1>2, <1>3

\* What a name leads to is in one of the blocks.
LEMMA LookupFacts ==
  ASSUME NEW d \in Disks, NEW p \in Inodes, DirOk(d, p), NEW a \in Names
  PROVE  /\ Lookup(d, p, a) \in Inodes \cup {None}
         /\ Lookup(d, p, a) # None => \E k \in 1..d.inode[p].size :
               d.block[OwnBlock(d, p, k)].ents[a] = Lookup(d, p, a)
         /\ \A k \in 1..d.inode[p].size : d.block[OwnBlock(d, p, k)].ents[a] # None =>
               d.block[OwnBlock(d, p, k)].ents[a] = Lookup(d, p, a)
<1> DEFINE m == d.inode[p].size
           Ent(k) == d.block[OwnBlock(d, p, k)].ents[a]
           found == {Ent(k) : k \in 1..m} \ {None}
<1>1. /\ \A k \in 1..m : OwnBlock(d, p, k) \in Blocks /\ d.inode[p].ptr[k] = OwnBlock(d, p, k)
      /\ DirBlocks(d, p) = {OwnBlock(d, p, k) : k \in 1..m}
  BY DirFacts
<1>2. \A k \in 1..m : Ent(k) \in Inodes \cup {None}
  BY <1>1, DiskFacts
<1>3. Lookup(d, p, a) = IF found = {} THEN None ELSE Min(found)
  <2>1. {d.block[b].ents[a] : b \in DirBlocks(d, p)} = {Ent(k) : k \in 1..m}
    BY <1>1
  <2> QED
    BY <2>1 DEF Lookup
<1>4. \A k, h \in 1..m : Ent(k) # None /\ Ent(h) # None => k = h
  <2>1. \A k, h \in 1..m : d.block[d.inode[p].ptr[k]].ents[a] # None
                           /\ d.block[d.inode[p].ptr[h]].ents[a] # None => k = h
    BY DEF DirOk
  <2> QED
    BY <1>1, <2>1
<1>5. CASE found = {}
  <2>1. \A k \in 1..m : Ent(k) = None
    BY <1>5
  <2>2. Lookup(d, p, a) = None
    BY <1>3, <1>5
  <2> QED
    BY <2>1, <2>2
<1>6. CASE found # {}
  <2>1. PICK k \in 1..m : Ent(k) # None
    BY <1>6
  <2>2. found = {Ent(k)}
    <3> HIDE DEF Ent
    <3> QED
      BY <1>4, <2>1
  <2>3. Ent(k) \in Inodes /\ Ent(k) \in Nat
    BY <1>2, <2>1, NumberFacts
  <2>4. Lookup(d, p, a) = Ent(k)
    <3> HIDE DEF Ent, found
    <3> QED
      BY <1>3, <1>6, <2>2, <2>3, MinOfOne
  <2>5. \A h \in 1..m : Ent(h) # None => Ent(h) = Ent(k)
    <3> HIDE DEF Ent
    <3> QED
      BY <1>4, <2>1
  <2> QED
    BY <2>1, <2>3, <2>4, <2>5
<1> QED
  BY <1>5, <1>6

----------------------------------------------------------------------------
(* Disks that are alike.                                                    *)

\* Directory p is the same on both disks, but for its links.
SameDir(d, t, p) ==
    /\ t.inode[p].kind = d.inode[p].kind /\ t.inode[p].size = d.inode[p].size
    /\ t.inode[p].ptr = d.inode[p].ptr
    /\ \A k \in 1..d.inode[p].size : t.block[d.inode[p].ptr[k]].ents = d.block[d.inode[p].ptr[k]].ents

\* The same names are in it.
LEMMA SameDirShows ==
  ASSUME NEW d, NEW t, NEW p, SameDir(d, t, p), DirOk(d, p)
  PROVE  DirOk(t, p) /\ \A a \in Names : Lookup(t, p, a) = Lookup(d, p, a)
<1> DEFINE n == d.inode[p]
           m == t.inode[p]
<1>1. /\ m.kind = n.kind /\ m.size = n.size /\ m.ptr = n.ptr
      /\ \A k \in 1..n.size : t.block[n.ptr[k]].ents = d.block[n.ptr[k]].ents
  BY DEF SameDir
<1>2. /\ n.kind = "dir" /\ n.size \in 1..NDirect
      /\ \A k \in 1..(NDirect + 1) : n.ptr[k] # None <=> k <= n.size
      /\ \A k, h \in 1..n.size, a \in Names :
            d.block[n.ptr[k]].ents[a] # None /\ d.block[n.ptr[h]].ents[a] # None => k = h
  BY DEF DirOk
<1>3. DirBlocks(t, p) = DirBlocks(d, p)
  BY <1>1 DEF DirBlocks
<1>4. \A b \in DirBlocks(d, p) : t.block[b].ents = d.block[b].ents
  BY <1>1 DEF DirBlocks
<1>5. DirOk(t, p)
  <2>1. \A k, h \in 1..n.size, a \in Names :
           t.block[n.ptr[k]].ents[a] # None /\ t.block[n.ptr[h]].ents[a] # None => k = h
    <3>1. \A k \in 1..n.size : t.block[n.ptr[k]].ents = d.block[n.ptr[k]].ents
      BY <1>1
    <3>2. \A k, h \in 1..n.size, a \in Names :
             d.block[n.ptr[k]].ents[a] # None /\ d.block[n.ptr[h]].ents[a] # None => k = h
      BY <1>2
    <3> HIDE DEF n
    <3> TAKE k, h \in 1..n.size, a \in Names
    <3>3. t.block[n.ptr[k]].ents[a] = d.block[n.ptr[k]].ents[a]
      BY <3>1
    <3>4. t.block[n.ptr[h]].ents[a] = d.block[n.ptr[h]].ents[a]
      BY <3>1
    <3> QED
      BY <3>2, <3>3, <3>4
  <2> HIDE DEF n
  <2>2. /\ m.kind = "dir" /\ m.size \in 1..NDirect
        /\ \A k \in 1..(NDirect + 1) : m.ptr[k] # None <=> k <= m.size
        /\ \A k, h \in 1..m.size, a \in Names :
              t.block[m.ptr[k]].ents[a] # None /\ t.block[m.ptr[h]].ents[a] # None => k = h
    <3> HIDE DEF m
    <3> QED
      BY <1>1, <1>2, <2>1
  <2> QED
    BY <2>2 DEF DirOk
<1>6. ASSUME NEW a \in Names PROVE Lookup(t, p, a) = Lookup(d, p, a)
  <2>1. {t.block[b].ents[a] : b \in DirBlocks(t, p)} = {d.block[b].ents[a] : b \in DirBlocks(d, p)}
    BY <1>3, <1>4
  <2> QED
    BY <2>1 DEF Lookup
<1> QED
  BY <1>5, <1>6

\* An inode with the pointers it had has the blocks it had.
LEMMA SamePlaces ==
  ASSUME NEW d, NEW t, NEW i, t.inode[i].ptr = d.inode[i].ptr,
         OwnBlock(d, i, Indirect) # None =>
            t.block[OwnBlock(d, i, Indirect)].ptr = d.block[OwnBlock(d, i, Indirect)].ptr
  PROVE  \A x \in Places : OwnBlock(t, i, x) = OwnBlock(d, i, x)
<1> DEFINE q == d.inode[i].ptr[NDirect + 1]
<1>1. OwnBlock(d, i, Indirect) = q /\ t.inode[i].ptr[NDirect + 1] = q
  BY OwnBlockCases
<1> SUFFICES ASSUME NEW x \in Places PROVE OwnBlock(t, i, x) = OwnBlock(d, i, x)
  OBVIOUS
<1>2. x \in 1..NDirect \/ x = Indirect \/ (x > NDirect /\ x # Indirect)
  BY PlaceFacts
<1>3. CASE x \in 1..NDirect
  <2>1. OwnBlock(t, i, x) = t.inode[i].ptr[x]
    BY <1>3, OwnDirect
  <2>2. OwnBlock(d, i, x) = d.inode[i].ptr[x]
    BY <1>3, OwnDirect
  <2> QED
    BY <2>1, <2>2
<1>4. CASE x = Indirect
  <2>1. OwnBlock(t, i, Indirect) = t.inode[i].ptr[NDirect + 1]
    BY OwnIndirect
  <2> QED
    BY <1>1, <1>4, <2>1
<1>5. CASE x > NDirect /\ x # Indirect
  <2>0. d.inode[i].ptr[NDirect + 1] = q /\ t.inode[i].ptr[NDirect + 1] = q
    BY <1>1
  <2> HIDE DEF q
  <2>1. CASE q = None
    <3>1. OwnBlock(t, i, x) = None
      BY <1>5, <2>0, <2>1, OwnNone
    <3>2. OwnBlock(d, i, x) = None
      BY <1>5, <2>0, <2>1, OwnNone
    <3> QED
      BY <3>1, <3>2
  <2>2. CASE q # None
    <3>1. OwnBlock(t, i, x) = t.block[q].ptr[x - NDirect]
      BY <1>5, <2>0, <2>2, OwnInner
    <3>2. OwnBlock(d, i, x) = d.block[q].ptr[x - NDirect]
      BY <1>5, <2>0, <2>2, OwnInner
    <3>3. t.block[q].ptr = d.block[q].ptr
      BY <1>1, <2>2
    <3> QED
      BY <1>1, <3>1, <3>2, <3>3
  <2> QED
    BY <2>1, <2>2
<1> QED
  BY <1>2, <1>3, <1>4, <1>5

\* The directories and what they show make the tree.
LEMMA TreeFacts ==
  ASSUME NEW d, NEW t, Dirs(t) = Dirs(d),
         \A p \in Dirs(d), a \in Names :
            /\ Lookup(t, p, a) = Lookup(d, p, a)
            /\ Lookup(d, p, a) # None =>
                  /\ t.inode[Lookup(d, p, a)].kind = d.inode[Lookup(d, p, a)].kind
                  /\ t.inode[Lookup(d, p, a)].size = d.inode[Lookup(d, p, a)].size
  PROVE  Reach(t) = Reach(d) /\ TreeOf(t) = TreeOf(d)
<1>1. Reach(t) = Reach(d)
  <2>1. {Lookup(t, p, a) : p \in Dirs(t), a \in Names} = {Lookup(d, p, a) : p \in Dirs(d), a \in Names}
    OBVIOUS
  <2> QED
    BY <2>1 DEF Reach
<1>2. \A p \in Dirs(d), a \in Names : Shown(t, Lookup(t, p, a)) = Shown(d, Lookup(d, p, a))
  BY DEF Shown
<1>3. Root \in Dirs(d)
  BY DEF Dirs
<1>4. \A a \in Names : Lookup(d, Root, a) # None /\ d.inode[Lookup(d, Root, a)].kind = "dir"
                          => Lookup(d, Root, a) \in Dirs(d)
  BY DEF Dirs
<1> DEFINE Q == {<<a>> : a \in Names} \cup {<<a, b>> : a, b \in Names}
           E(c, path) == LET i == Lookup(c, Root, path[1])
                         IN  IF Len(path) = 1 THEN Shown(c, i)
                             ELSE Shown(c, IF i # None /\ c.inode[i].kind = "dir"
                                           THEN Lookup(c, i, path[2]) ELSE None)
<1>5. \A c : TreeOf(c) = [path \in Q |-> E(c, path)]
  BY DEF TreeOf
<1>6. \A path \in Q : path[1] \in Names /\ (Len(path) # 1 => path[2] \in Names)
  OBVIOUS
<1>7. Shown(t, None) = Shown(d, None)
  BY DEF Shown
<1>8. ASSUME NEW path \in Q PROVE E(t, path) = E(d, path)
  <2> DEFINE i == Lookup(d, Root, path[1])
  <2>1. path[1] \in Names /\ (Len(path) # 1 => path[2] \in Names)
    BY <1>6
  <2>2. Lookup(t, Root, path[1]) = i /\ Shown(t, i) = Shown(d, i)
        /\ (i # None => t.inode[i].kind = d.inode[i].kind)
    BY <1>2, <1>3, <2>1
  <2>3. i # None /\ d.inode[i].kind = "dir" => i \in Dirs(d)
    BY <1>4, <2>1
  <2> HIDE DEF i
  <2>4. CASE Len(path) = 1
    BY <2>2, <2>4 DEF i
  <2>5. CASE Len(path) # 1 /\ i # None /\ d.inode[i].kind = "dir"
    <3>1. Shown(t, Lookup(t, i, path[2])) = Shown(d, Lookup(d, i, path[2]))
      BY <1>2, <2>1, <2>3, <2>5
    <3> QED
      BY <2>2, <2>5, <3>1 DEF i
  <2>6. CASE Len(path) # 1 /\ ~(i # None /\ d.inode[i].kind = "dir")
    BY <1>7, <2>2, <2>6 DEF i
  <2> QED
    BY <2>4, <2>5, <2>6
<1> HIDE DEF Q, E
<1>9. TreeOf(t) = TreeOf(d)
  BY <1>5, <1>8
<1> QED
  BY <1>1, <1>9

----------------------------------------------------------------------------
(* The tree.                                                                *)

\* i is not a directory that holds something.
Bare(d, i) == i # None /\ d.inode[i].kind = "dir" => \A c \in Names : Lookup(d, i, c) = None

\* Nothing but what entry a of directory p leads to changes.
OneName(d, t, p, a) ==
    /\ \A q \in Dirs(d), b \in Names : q # p \/ b # a =>
          Lookup(t, q, b) = Lookup(d, q, b) /\ Shown(t, Lookup(d, q, b)) = Shown(d, Lookup(d, q, b))
    /\ p = Root => Bare(d, Lookup(d, p, a)) /\ Bare(t, Lookup(t, p, a))

\* path leads to entry a of directory p, and the trees differ nowhere else.
PlaceOf(d, t, p, a, path) ==
    /\ path \in NS!Paths
    /\ TreeOf(t) = [TreeOf(d) EXCEPT ![path] = Shown(t, Lookup(t, p, a))]
    /\ TreeOf(d)[path] = Shown(d, Lookup(d, p, a))
    /\ IF p = Root THEN path = <<a>> /\ \A b \in Names : TreeOf(d)[<<a, b>>] = NS!Absent
       ELSE \E c \in Names : path = <<c, a>> /\ TreeOf(d)[<<c>>] = NS!Folder

\* What name b in directory c of the root leads to.
Inner(d, c, b) ==
    LET i == Lookup(d, Root, c)
    IN  IF i # None /\ d.inode[i].kind = "dir" THEN Lookup(d, i, b) ELSE None

\* Paths have one or two names.
LEMMA PathsOf ==
  ASSUME NEW path \in NS!Paths
  PROVE  \/ \E a \in Names : path = <<a>>
         \/ \E a, b \in Names : path = <<a, b>>
  BY DEF NS!Paths

\* What is in the tree.
LEMMA TreeAt ==
  ASSUME NEW d
  PROVE  /\ TreeOf(d) = [path \in NS!Paths |-> TreeOf(d)[path]]
         /\ \A a \in Names : <<a>> \in NS!Paths /\ TreeOf(d)[<<a>>] = Shown(d, Lookup(d, Root, a))
         /\ \A a, b \in Names : <<a, b>> \in NS!Paths /\ TreeOf(d)[<<a, b>>] = Shown(d, Inner(d, a, b))
<1> DEFINE E(path) == LET i == Lookup(d, Root, path[1])
                      IN  IF Len(path) = 1 THEN Shown(d, i)
                          ELSE Shown(d, IF i # None /\ d.inode[i].kind = "dir"
                                        THEN Lookup(d, i, path[2]) ELSE None)
<1>1. TreeOf(d) = [path \in NS!Paths |-> E(path)]
  BY DEF TreeOf, NS!Paths
<1>2. \A a \in Names : <<a>> \in NS!Paths
  BY DEF NS!Paths
<1>3. \A a, b \in Names : <<a, b>> \in NS!Paths
  BY DEF NS!Paths
<1>4. ASSUME NEW a \in Names PROVE E(<<a>>) = Shown(d, Lookup(d, Root, a))
  <2>1. Len(<<a>>) = 1 /\ <<a>>[1] = a
    OBVIOUS
  <2> QED
    BY <2>1
<1>5. ASSUME NEW a \in Names, NEW b \in Names PROVE E(<<a, b>>) = Shown(d, Inner(d, a, b))
  <2>1. Len(<<a, b>>) # 1 /\ <<a, b>>[1] = a /\ <<a, b>>[2] = b
    OBVIOUS
  <2> QED
    BY <2>1 DEF Inner
<1> HIDE DEF E
<1> QED
  BY <1>1, <1>2, <1>3, <1>4, <1>5

\* Functions that differ at one point.
LEMMA TreeExcept ==
  ASSUME NEW P, NEW T, NEW U, T = [x \in P |-> T[x]], U = [x \in P |-> U[x]], NEW path \in P,
         \A x \in P : x # path => U[x] = T[x]
  PROVE  U = [T EXCEPT ![path] = U[path]]
  OBVIOUS

\* The entry is in the root.
LEMMA PlaceInRoot ==
  ASSUME NEW d, NEW t, NEW K, Named(d, K), NEW a \in Names, OneName(d, t, Root, a)
  PROVE  PlaceOf(d, t, Root, a, <<a>>)
<1>1. Root \in Dirs(d) /\ \A c \in Names : Lookup(d, Root, c) # Root
  BY NumberFacts DEF Dirs, Named
<1>2. /\ \A q \in Dirs(d), b \in Names : q # Root \/ b # a =>
            Lookup(t, q, b) = Lookup(d, q, b) /\ Shown(t, Lookup(d, q, b)) = Shown(d, Lookup(d, q, b))
      /\ Bare(d, Lookup(d, Root, a)) /\ Bare(t, Lookup(t, Root, a))
  BY DEF OneName
<1>3. Shown(d, None) = NS!Absent /\ Shown(t, None) = NS!Absent
  BY DEF Shown, NS!Absent
<1>4. ASSUME NEW b \in Names
      PROVE  TreeOf(d)[<<a, b>>] = NS!Absent /\ TreeOf(t)[<<a, b>>] = NS!Absent
  <2>1. Inner(d, a, b) = None /\ Inner(t, a, b) = None
    BY <1>2 DEF Inner, Bare
  <2>2. TreeOf(d)[<<a, b>>] = Shown(d, Inner(d, a, b))
    BY TreeAt
  <2>3. TreeOf(t)[<<a, b>>] = Shown(t, Inner(t, a, b))
    BY TreeAt
  <2> QED
    BY <1>3, <2>1, <2>2, <2>3
<1>5. ASSUME NEW c \in Names, c # a
      PROVE  /\ TreeOf(t)[<<c>>] = TreeOf(d)[<<c>>]
             /\ \A b \in Names : TreeOf(t)[<<c, b>>] = TreeOf(d)[<<c, b>>]
  <2> DEFINE i == Lookup(d, Root, c)
  <2>1. Lookup(t, Root, c) = i /\ Shown(t, i) = Shown(d, i) /\ i # Root
    BY <1>1, <1>2, <1>5
  <2>2. i # None => t.inode[i].kind = d.inode[i].kind
    BY <2>1 DEF Shown
  <2>3. i # None /\ d.inode[i].kind = "dir" => i \in Dirs(d)
    BY DEF Dirs
  <2>4. TreeOf(t)[<<c>>] = TreeOf(d)[<<c>>]
    <3>1. TreeOf(d)[<<c>>] = Shown(d, Lookup(d, Root, c))
      BY TreeAt
    <3>2. TreeOf(t)[<<c>>] = Shown(t, Lookup(t, Root, c))
      BY TreeAt
    <3> QED
      BY <2>1, <3>1, <3>2
  <2>5. ASSUME NEW b \in Names PROVE Shown(t, Inner(t, c, b)) = Shown(d, Inner(d, c, b))
    <3>1. CASE i # None /\ d.inode[i].kind = "dir"
      <4>1. Lookup(t, i, b) = Lookup(d, i, b) /\ Shown(t, Lookup(d, i, b)) = Shown(d, Lookup(d, i, b))
        BY <1>2, <2>1, <2>3, <3>1
      <4> QED
        BY <2>1, <2>2, <3>1, <4>1 DEF Inner
    <3>2. CASE ~(i # None /\ d.inode[i].kind = "dir")
      BY <1>3, <2>1, <2>2, <3>2 DEF Inner
    <3> QED
      BY <3>1, <3>2
  <2>6. ASSUME NEW b \in Names PROVE TreeOf(t)[<<c, b>>] = TreeOf(d)[<<c, b>>]
    <3>1. TreeOf(d)[<<c, b>>] = Shown(d, Inner(d, c, b))
      BY TreeAt
    <3>2. TreeOf(t)[<<c, b>>] = Shown(t, Inner(t, c, b))
      BY TreeAt
    <3> QED
      BY <2>5, <3>1, <3>2
  <2> QED
    BY <2>4, <2>6
<1>6. ASSUME NEW x \in NS!Paths, x # <<a>> PROVE TreeOf(t)[x] = TreeOf(d)[x]
  <2>1. CASE \E c \in Names : x = <<c>>
    <3>1. PICK c \in Names : x = <<c>>
      BY <2>1
    <3>2. c # a
      BY <1>6, <3>1
    <3> QED
      BY <1>5, <3>1, <3>2
  <2>2. CASE \E c, b \in Names : x = <<c, b>>
    <3>1. PICK c, b \in Names : x = <<c, b>>
      BY <2>2
    <3>2. CASE c = a
      BY <1>4, <3>1, <3>2
    <3>3. CASE c # a
      BY <1>5, <3>1, <3>3
    <3> QED
      BY <3>2, <3>3
  <2> QED
    BY <2>1, <2>2, PathsOf
<1>7. <<a>> \in NS!Paths /\ TreeOf(d) = [x \in NS!Paths |-> TreeOf(d)[x]]
      /\ TreeOf(d)[<<a>>] = Shown(d, Lookup(d, Root, a))
  BY TreeAt
<1>8. TreeOf(t) = [x \in NS!Paths |-> TreeOf(t)[x]] /\ TreeOf(t)[<<a>>] = Shown(t, Lookup(t, Root, a))
  BY TreeAt
<1>9. TreeOf(t) = [TreeOf(d) EXCEPT ![<<a>>] = Shown(t, Lookup(t, Root, a))]
  <2>1. TreeOf(t) = [TreeOf(d) EXCEPT ![<<a>>] = TreeOf(t)[<<a>>]]
    BY <1>6, <1>7, <1>8, TreeExcept
  <2> QED
    BY <1>8, <2>1
<1> QED
  BY <1>4, <1>7, <1>9 DEF PlaceOf

\* The entry is in a directory of the root.
LEMMA PlaceBelow ==
  ASSUME NEW d, NEW t, NEW K, Named(d, K), NEW p \in Dirs(d), p # Root, NEW a \in Names,
         OneName(d, t, p, a)
  PROVE  \E path : PlaceOf(d, t, p, a, path)
<1>1. PICK c \in Names : p = Lookup(d, Root, c) /\ p # None /\ d.inode[p].kind = "dir"
  BY DEF Dirs
<1>2. Root \in Dirs(d) /\ \A e \in Names : Lookup(d, Root, e) = p => e = c
  <2>1. Root \in Dirs(d)
    BY DEF Dirs
  <2>2. \A q, r \in Dirs(d), e, b \in Names :
           Lookup(d, q, e) = Lookup(d, r, b) /\ Lookup(d, q, e) # None => q = r /\ e = b
    BY DEF Named
  <2> QED
    BY <1>1, <2>1, <2>2
<1>3. \A q \in Dirs(d), b \in Names : q # p \/ b # a =>
         Lookup(t, q, b) = Lookup(d, q, b) /\ Shown(t, Lookup(d, q, b)) = Shown(d, Lookup(d, q, b))
  BY DEF OneName
<1>4. Shown(d, None) = Shown(t, None)
  BY DEF Shown
<1>5. ASSUME NEW e \in Names
      PROVE  /\ Lookup(t, Root, e) = Lookup(d, Root, e)
             /\ Shown(t, Lookup(d, Root, e)) = Shown(d, Lookup(d, Root, e))
             /\ Lookup(d, Root, e) # None =>
                   t.inode[Lookup(d, Root, e)].kind = d.inode[Lookup(d, Root, e)].kind
  <2>1. Lookup(t, Root, e) = Lookup(d, Root, e)
        /\ Shown(t, Lookup(d, Root, e)) = Shown(d, Lookup(d, Root, e))
    BY <1>2, <1>3
  <2> QED
    BY <2>1 DEF Shown
<1>6. ASSUME NEW e \in Names PROVE TreeOf(t)[<<e>>] = TreeOf(d)[<<e>>]
  <2>1. TreeOf(d)[<<e>>] = Shown(d, Lookup(d, Root, e))
    BY TreeAt
  <2>2. TreeOf(t)[<<e>>] = Shown(t, Lookup(t, Root, e))
    BY TreeAt
  <2> QED
    BY <1>5, <2>1, <2>2
<1>7. ASSUME NEW e \in Names, NEW b \in Names, e # c \/ b # a
      PROVE  TreeOf(t)[<<e, b>>] = TreeOf(d)[<<e, b>>]
  <2> DEFINE i == Lookup(d, Root, e)
  <2>1. TreeOf(d)[<<e, b>>] = Shown(d, Inner(d, e, b))
    BY TreeAt
  <2>2. TreeOf(t)[<<e, b>>] = Shown(t, Inner(t, e, b))
    BY TreeAt
  <2>3. CASE i # None /\ d.inode[i].kind = "dir"
    <3>1. i \in Dirs(d)
      BY <2>3 DEF Dirs
    <3>2. i # p \/ b # a
      BY <1>2, <1>7
    <3>3. Lookup(t, i, b) = Lookup(d, i, b) /\ Shown(t, Lookup(d, i, b)) = Shown(d, Lookup(d, i, b))
      BY <1>3, <3>1, <3>2
    <3>4. Inner(t, e, b) = Lookup(d, i, b) /\ Inner(d, e, b) = Lookup(d, i, b)
      BY <1>5, <2>3, <3>3 DEF Inner
    <3> QED
      BY <2>1, <2>2, <3>3, <3>4
  <2>4. CASE ~(i # None /\ d.inode[i].kind = "dir")
    <3>1. Inner(t, e, b) = None /\ Inner(d, e, b) = None
      BY <1>5, <2>4 DEF Inner
    <3> QED
      BY <1>4, <2>1, <2>2, <3>1
  <2> QED
    BY <2>3, <2>4
<1>8. ASSUME NEW x \in NS!Paths, x # <<c, a>> PROVE TreeOf(t)[x] = TreeOf(d)[x]
  <2>1. CASE \E e \in Names : x = <<e>>
    BY <1>6, <2>1
  <2>2. CASE \E e, b \in Names : x = <<e, b>>
    <3>1. PICK e, b \in Names : x = <<e, b>>
      BY <2>2
    <3>2. e # c \/ b # a
      BY <1>8, <3>1
    <3> QED
      BY <1>7, <3>1, <3>2
  <2> QED
    BY <2>1, <2>2, PathsOf
<1>9. Inner(d, c, a) = Lookup(d, p, a) /\ Inner(t, c, a) = Lookup(t, p, a)
  <2>1. Lookup(t, Root, c) = p /\ t.inode[p].kind = "dir"
    BY <1>1, <1>5
  <2> QED
    BY <1>1, <2>1 DEF Inner
<1>10. <<c, a>> \in NS!Paths /\ TreeOf(d) = [x \in NS!Paths |-> TreeOf(d)[x]]
       /\ TreeOf(d)[<<c, a>>] = Shown(d, Lookup(d, p, a))
  BY <1>9, TreeAt
<1>11. TreeOf(t) = [x \in NS!Paths |-> TreeOf(t)[x]] /\ TreeOf(t)[<<c, a>>] = Shown(t, Lookup(t, p, a))
  BY <1>9, TreeAt
<1>12. TreeOf(t) = [TreeOf(d) EXCEPT ![<<c, a>>] = Shown(t, Lookup(t, p, a))]
  <2>1. TreeOf(t) = [TreeOf(d) EXCEPT ![<<c, a>>] = TreeOf(t)[<<c, a>>]]
    BY <1>8, <1>10, <1>11, TreeExcept
  <2> QED
    BY <1>11, <2>1
<1>13. TreeOf(d)[<<c>>] = NS!Folder
  <2>1. TreeOf(d)[<<c>>] = Shown(d, Lookup(d, Root, c))
    BY TreeAt
  <2> QED
    BY <1>1, <2>1 DEF Shown, NS!Folder
<1>14. PlaceOf(d, t, p, a, <<c, a>>)
  BY <1>10, <1>12, <1>13 DEF PlaceOf
<1> QED
  BY <1>14

\* There is one place in the tree for each entry.
LEMMA PlaceExists ==
  ASSUME NEW d \in Disks, NEW t, NEW K, Named(d, K), NEW p \in Dirs(d), NEW a \in Names,
         OneName(d, t, p, a)
  PROVE  \E path : PlaceOf(d, t, p, a, path)
  BY PlaceInRoot, PlaceBelow

\* A name that comes is Make.
LEMMA MovesMake ==
  ASSUME NEW d, NEW t, NEW p, NEW a \in Names, NEW path, PlaceOf(d, t, p, a, path),
         Lookup(d, p, a) = None,
         Shown(t, Lookup(t, p, a)) = NS!Folder \/ Shown(t, Lookup(t, p, a)) = NS!File(0)
  PROVE  Moves(d, t)
<1> DEFINE what == Shown(t, Lookup(t, p, a))
<1>1. path \in NS!Paths /\ TreeOf(t) = [TreeOf(d) EXCEPT ![path] = what]
      /\ TreeOf(d)[path] = Shown(d, None)
  BY DEF PlaceOf
<1>2. TreeOf(d)[path] = NS!Absent
  BY <1>1 DEF Shown, NS!Absent
<1>3. Len(path) = 2 => TreeOf(d)[<<path[1]>>] = NS!Folder
  <2>1. CASE p = Root
    <3>1. path = <<a>>
      BY <2>1 DEF PlaceOf
    <3>2. Len(path) = 1
      BY <3>1
    <3> QED
      BY <3>2
  <2>2. CASE p # Root
    <3>1. PICK c \in Names : path = <<c, a>> /\ TreeOf(d)[<<c>>] = NS!Folder
      BY <2>2 DEF PlaceOf
    <3>2. path[1] = c
      BY <3>1
    <3> QED
      BY <3>1, <3>2
  <2> QED
    BY <2>1, <2>2
<1>4. what = NS!Folder \/ what = NS!File(0)
  OBVIOUS
<1> HIDE DEF what
<1>5. NS!Make(TreeOf(d), TreeOf(t), path, what)
  BY <1>1, <1>2, <1>3 DEF NS!Make
<1> QED
  BY <1>1, <1>4, <1>5 DEF Moves

\* A name that goes is Drop.
LEMMA MovesDrop ==
  ASSUME NEW d, NEW t, NEW p, NEW a \in Names, NEW path, PlaceOf(d, t, p, a, path),
         Lookup(t, p, a) = None
  PROVE  Moves(d, t)
<1>1. path \in NS!Paths /\ TreeOf(t) = [TreeOf(d) EXCEPT ![path] = NS!Absent]
  <2>1. Shown(t, Lookup(t, p, a)) = NS!Absent
    BY DEF Shown, NS!Absent
  <2> QED
    BY <2>1 DEF PlaceOf
<1>2. ASSUME NEW q \in NS!Below(path) PROVE TreeOf(d)[q] = NS!Absent
  <2>1. q \in NS!Paths /\ Len(q) > Len(path) /\ q[1] = path[1]
    BY DEF NS!Below
  <2>2. CASE p = Root
    <3>1. path = <<a>> /\ \A b \in Names : TreeOf(d)[<<a, b>>] = NS!Absent
      BY <2>2 DEF PlaceOf
    <3>2. Len(path) = 1 /\ path[1] = a
      BY <3>1
    <3>3. CASE \E e \in Names : q = <<e>>
      <4>1. Len(q) = 1
        BY <3>3
      <4> QED
        BY <2>1, <3>2, <4>1
    <3>4. CASE \E e, b \in Names : q = <<e, b>>
      <4>1. PICK e, b \in Names : q = <<e, b>>
        BY <3>4
      <4>2. q[1] = e
        BY <4>1
      <4> QED
        BY <2>1, <3>1, <3>2, <4>1, <4>2
    <3> QED
      BY <2>1, <3>3, <3>4, PathsOf
  <2>3. CASE p # Root
    <3>1. PICK c \in Names : path = <<c, a>>
      BY <2>3 DEF PlaceOf
    <3>2. Len(path) = 2
      BY <3>1
    <3>3. CASE \E e \in Names : q = <<e>>
      <4>1. Len(q) = 1
        BY <3>3
      <4> QED
        BY <2>1, <3>2, <4>1
    <3>4. CASE \E e, b \in Names : q = <<e, b>>
      <4>1. Len(q) = 2
        BY <3>4
      <4> QED
        BY <2>1, <3>2, <4>1
    <3> QED
      BY <2>1, <3>3, <3>4, PathsOf
  <2> QED
    BY <2>2, <2>3
<1>3. NS!Drop(TreeOf(d), TreeOf(t), path)
  BY <1>1, <1>2 DEF NS!Drop
<1> QED
  BY <1>1, <1>3 DEF Moves

\* A size that changes is Resize.
LEMMA MovesResize ==
  ASSUME NEW d, NEW t, NEW p, NEW a \in Names, NEW path, PlaceOf(d, t, p, a, path),
         NEW size \in 0..FileBlocks, Shown(d, Lookup(d, p, a)).kind = "file",
         Shown(t, Lookup(t, p, a)) = NS!File(size)
  PROVE  Moves(d, t)
<1>1. NS!Resize(TreeOf(d), TreeOf(t), path, size) /\ path \in NS!Paths
  BY DEF PlaceOf, NS!Resize
<1> QED
  BY <1>1 DEF Moves

----------------------------------------------------------------------------
(* Writes that no path notices.                                             *)

\* What is kept is on the disk.
LEMMA KeptIn ==
  ASSUME NEW d, NEW K, NEW I, NEW B, NEW extra, NEW exact, State(d, K, I, B, extra, exact)
  PROVE  /\ d \in Disks /\ K \in SUBSET Inodes /\ I \in SUBSET Inodes /\ B \in SUBSET Blocks
         /\ K \subseteq d.iuse /\ I \subseteq d.iuse /\ B \subseteq d.buse
         /\ Root \in Dirs(d) /\ Dirs(d) \subseteq K /\ Reach(d) \subseteq K
         /\ \A p \in Dirs(d) : DirOk(d, p)
         /\ \A p \in Dirs(d), a \in Names : Lookup(d, p, a) \in K \cup {None}
<1>1. d \in Disks /\ Bits(d, K, Owned(d, K), I, B, exact) /\ Named(d, K)
  BY DEF State
<1>2. d.iuse \in SUBSET Inodes /\ d.buse \in SUBSET Blocks
  BY <1>1, DiskFacts
<1>3. /\ Dirs(d) \subseteq K /\ \A p \in Dirs(d) : DirOk(d, p)
      /\ \A p \in Dirs(d), a \in Names : Lookup(d, p, a) \in K \cup {None}
  BY <1>1 DEF Named
<1>4. Root \in Dirs(d)
  BY DEF Dirs
<1>5. Reach(d) \subseteq K
  BY <1>3 DEF Reach
<1>6. K \subseteq d.iuse /\ I \subseteq d.iuse /\ B \subseteq d.buse
  BY <1>1 DEF Bits
<1> QED
  BY <1>1, <1>2, <1>3, <1>4, <1>5, <1>6

\* The same names lead to the same inodes.
SameNames(d, t) ==
    /\ Dirs(t) = Dirs(d) /\ Reach(t) = Reach(d)
    /\ \A p \in Dirs(d), a \in Names : Lookup(t, p, a) = Lookup(d, p, a)

\* Directories that stay as they are lead where they led.
LEMMA NamedStep ==
  ASSUME NEW d, NEW t, NEW K, Named(d, K),
         \A p \in Dirs(d) : SameDir(d, t, p) /\ (p # Root => t.inode[p].links = d.inode[p].links),
         \A i \in K : t.inode[i].kind = d.inode[i].kind
  PROVE  SameNames(d, t) /\ Named(t, K)
<1>1. /\ Root \in Dirs(d) /\ Dirs(d) \subseteq K /\ \A p \in Dirs(d) : DirOk(d, p)
      /\ \A p \in Dirs(d), a \in Names : Lookup(d, p, a) \in (K \ {Root}) \cup {None}
      /\ \A p \in Dirs(d) \ {Root} :
            /\ d.inode[p].links = 2
            /\ \A a \in Names : Lookup(d, p, a) # None => d.inode[Lookup(d, p, a)].kind = "file"
  BY DEF Dirs, Named
<1>2. \A p, q \in Dirs(d), a, b \in Names :
         Lookup(d, p, a) = Lookup(d, q, b) /\ Lookup(d, p, a) # None => p = q /\ a = b
  BY DEF Named
<1>3. \A p \in Dirs(d) : DirOk(t, p) /\ \A a \in Names : Lookup(t, p, a) = Lookup(d, p, a)
  BY <1>1, SameDirShows
<1>4. Dirs(t) = Dirs(d)
  <2> DEFINE L == {Lookup(d, Root, a) : a \in Names} \ {None}
  <2>1. {Lookup(t, Root, a) : a \in Names} \ {None} = L
    BY <1>1, <1>3
  <2>2. L \subseteq K
    BY <1>1
  <2>3. Dirs(d) = {Root} \cup {i \in L : d.inode[i].kind = "dir"}
    BY DEF Dirs
  <2>4. Dirs(t) = {Root} \cup {i \in L : t.inode[i].kind = "dir"}
    BY <2>1 DEF Dirs
  <2> HIDE DEF L
  <2> QED
    BY <2>2, <2>3, <2>4
<1>5. Reach(t) = Reach(d)
  <2>1. {Lookup(t, p, a) : p \in Dirs(t), a \in Names} = {Lookup(d, p, a) : p \in Dirs(d), a \in Names}
    BY <1>3, <1>4
  <2> QED
    BY <1>4, <2>1 DEF Reach
<1>6. ASSUME NEW p \in Dirs(d) \ {Root}
      PROVE  /\ t.inode[p].links = 2
             /\ \A a \in Names : Lookup(t, p, a) # None => t.inode[Lookup(t, p, a)].kind = "file"
  <2>1. t.inode[p].links = 2
    BY <1>1
  <2>2. ASSUME NEW a \in Names, Lookup(t, p, a) # None PROVE t.inode[Lookup(t, p, a)].kind = "file"
    <3>1. Lookup(t, p, a) = Lookup(d, p, a) /\ Lookup(d, p, a) \in K
      BY <1>1, <1>3, <2>2
    <3> QED
      BY <1>1, <2>2, <3>1
  <2> QED
    BY <2>1, <2>2
<1>7. \A p \in Dirs(d), a \in Names : Lookup(t, p, a) \in (K \ {Root}) \cup {None}
  BY <1>1, <1>3
<1>8. \A p, q \in Dirs(d), a, b \in Names :
         Lookup(t, p, a) = Lookup(t, q, b) /\ Lookup(t, p, a) # None => p = q /\ a = b
  BY <1>2, <1>3
<1>9. Named(t, K)
  BY <1>1, <1>3, <1>4, <1>6, <1>7, <1>8 DEF Named
<1> QED
  BY <1>3, <1>4, <1>5, <1>9 DEF SameNames

\* The inodes K and their blocks are the same on both disks, but for the links of the root.
Alike(d, t, K) ==
    /\ \A i \in K : /\ t.inode[i].kind = d.inode[i].kind /\ t.inode[i].size = d.inode[i].size
                    /\ t.inode[i].ptr = d.inode[i].ptr
                    /\ i # Root => t.inode[i].links = d.inode[i].links
    /\ \A b \in Owned(d, K) : t.block[b] = d.block[b]

\* No path notices.
Calm(d, t, K) ==
    /\ SameNames(d, t) /\ TreeOf(t) = TreeOf(d) /\ Owned(t, K) = Owned(d, K)
    /\ \A i \in K, x \in Places : OwnBlock(t, i, x) = OwnBlock(d, i, x)

\* Disks that are alike show the same tree.
LEMMA AlikeGives ==
  ASSUME NEW d \in Disks, NEW t, NEW K \in SUBSET Inodes, Named(d, K), Alike(d, t, K)
  PROVE  Calm(d, t, K) /\ Named(t, K)
<1>1. /\ \A i \in K : /\ t.inode[i].kind = d.inode[i].kind /\ t.inode[i].size = d.inode[i].size
                      /\ t.inode[i].ptr = d.inode[i].ptr
                      /\ i # Root => t.inode[i].links = d.inode[i].links
      /\ \A b \in Owned(d, K) : t.block[b] = d.block[b]
  BY DEF Alike
<1>2. \A i \in K, x \in Places : OwnBlock(d, i, x) # None => OwnBlock(d, i, x) \in Owned(d, K)
  BY DEF Owned
<1>3. ASSUME NEW i \in K PROVE \A x \in Places : OwnBlock(t, i, x) = OwnBlock(d, i, x)
  <2>1. OwnBlock(d, i, Indirect) # None =>
           t.block[OwnBlock(d, i, Indirect)].ptr = d.block[OwnBlock(d, i, Indirect)].ptr
    BY <1>1, <1>2, PlaceFacts
  <2>2. t.inode[i].ptr = d.inode[i].ptr
    BY <1>1
  <2> QED
    BY <2>1, <2>2, SamePlaces
<1>4. Owned(t, K) = Owned(d, K)
  BY <1>3 DEF Owned
<1>5. /\ Dirs(d) \subseteq K /\ \A p \in Dirs(d) : DirOk(d, p)
      /\ \A p \in Dirs(d), a \in Names : Lookup(d, p, a) \in K \cup {None}
  BY DEF Named
<1>6. ASSUME NEW p \in Dirs(d)
      PROVE  SameDir(d, t, p) /\ (p # Root => t.inode[p].links = d.inode[p].links)
  <2>1. p \in K /\ p \in Inodes /\ DirOk(d, p)
    BY <1>5
  <2>2. \A k \in 1..d.inode[p].size :
           k \in Places /\ d.inode[p].ptr[k] = OwnBlock(d, p, k) /\ OwnBlock(d, p, k) \in Blocks
    BY <2>1, DirFacts
  <2>3. ASSUME NEW k \in 1..d.inode[p].size
        PROVE  t.block[d.inode[p].ptr[k]].ents = d.block[d.inode[p].ptr[k]].ents
    <3>1. k \in Places /\ d.inode[p].ptr[k] = OwnBlock(d, p, k) /\ OwnBlock(d, p, k) # None
      BY <2>2, NumberFacts
    <3>2. OwnBlock(d, p, k) \in Owned(d, K)
      BY <1>2, <2>1, <3>1
    <3> QED
      BY <1>1, <3>1, <3>2
  <2> QED
    BY <1>1, <2>1, <2>3 DEF SameDir
<1>7. SameNames(d, t) /\ Named(t, K)
  BY <1>1, <1>6, NamedStep
<1>8. TreeOf(t) = TreeOf(d)
  <2>1. Dirs(t) = Dirs(d) /\ \A p \in Dirs(d), a \in Names : Lookup(t, p, a) = Lookup(d, p, a)
    BY <1>7 DEF SameNames
  <2>2. ASSUME NEW p \in Dirs(d), NEW a \in Names, Lookup(d, p, a) # None
        PROVE  /\ t.inode[Lookup(d, p, a)].kind = d.inode[Lookup(d, p, a)].kind
               /\ t.inode[Lookup(d, p, a)].size = d.inode[Lookup(d, p, a)].size
    <3>1. Lookup(d, p, a) \in K
      BY <1>5, <2>2
    <3> QED
      BY <1>1, <3>1
  <2> QED
    BY <2>1, <2>2, TreeFacts
<1> QED
  BY <1>3, <1>4, <1>7, <1>8 DEF Calm

\* What is kept is still kept then.
LEMMA Quiet ==
  ASSUME NEW d, NEW t \in Disks, NEW K, NEW I, NEW B, NEW extra, NEW exact,
         State(d, K, I, B, extra, exact), Alike(d, t, K), NEW J, NEW C, NEW more,
         Bits(t, K, Owned(d, K), J, C, exact),
         exact => t.inode[Root].links = 1 + Cardinality(Dirs(d)) + more
  PROVE  State(t, K, J, C, more, exact) /\ Calm(d, t, K)
<1>1. d \in Disks /\ K \in SUBSET Inodes /\ Root \in Dirs(d) /\ Dirs(d) \subseteq K
      /\ \A p \in Dirs(d) : DirOk(d, p)
  BY KeptIn
<1>2. Kept(d, K) /\ Named(d, K) /\ (exact => Book(d, K, extra))
  BY DEF State
<1>3. Calm(d, t, K) /\ Named(t, K)
  BY <1>1, <1>2, AlikeGives
<1>4. /\ Owned(t, K) = Owned(d, K) /\ Dirs(t) = Dirs(d) /\ Reach(t) = Reach(d)
      /\ \A i \in K, x \in Places : OwnBlock(t, i, x) = OwnBlock(d, i, x)
  BY <1>3 DEF Calm, SameNames
<1>5. \A i \in K : t.inode[i].kind = d.inode[i].kind /\ (i # Root => t.inode[i].links = d.inode[i].links)
  BY DEF Alike
<1>6. Root \in K /\ d.inode[Root].kind = "dir"
  BY <1>1 DEF DirOk
<1>7. Kept(t, K)
  <2>1. \A i, j \in K, x, y \in Places :
           OwnBlock(d, i, x) = OwnBlock(d, j, y) /\ OwnBlock(d, i, x) # None => i = j /\ x = y
    BY <1>2 DEF Kept
  <2>2. \A i, j \in K, x, y \in Places :
           OwnBlock(t, i, x) = OwnBlock(t, j, y) /\ OwnBlock(t, i, x) # None => i = j /\ x = y
    BY <1>4, <2>1
  <2>3. \A i \in K : t.inode[i].kind # "none" /\ (t.inode[i].kind = "file" => t.inode[i].links = 1)
    BY <1>2, <1>5, <1>6 DEF Kept
  <2> QED
    BY <2>2, <2>3 DEF Kept
<1>8. ASSUME exact PROVE Book(t, K, more)
  <2>1. ASSUME NEW i \in K, i \notin Reach(d)
        PROVE  t.inode[i].kind = "dir" /\ t.inode[i].links = 1
    <3>1. i # Root
      BY <1>1, <2>1 DEF Reach
    <3>2. d.inode[i].kind = "dir" /\ d.inode[i].links = 1
      BY <1>2, <1>8, <2>1 DEF Book
    <3> QED
      BY <1>5, <3>1, <3>2
  <2> QED
    BY <1>4, <1>8, <2>1 DEF Book
<1> QED
  BY <1>3, <1>4, <1>7, <1>8 DEF State

----------------------------------------------------------------------------
(* Logs.                                                                    *)

\* A crash after any of the writes of log leaves a sound disk, and no write does too much at once.
LogOK(log) ==
    /\ log \in Seq(Disks) /\ Len(log) > 0 /\ log[1] = disk
    /\ \A j \in 1..Len(log) : Sound(log[j])
    /\ \A j \in 1..(Len(log) - 1) : Moves(log[j], log[j + 1])

\* The operation has come so far.
Now(log, K, I, B, extra, exact) ==
    LogOK(log) /\ State(Last(log), K, I, B, extra, exact)

\* In the middle of an operation a disk is one that a crash may leave.
LEMMA StateIsSound ==
  ASSUME NEW d, NEW K, NEW I, NEW B, NEW extra, NEW exact, State(d, K, I, B, extra, exact)
  PROVE  Sound(d)
<1>1. Bits(d, K, Owned(d, K), {}, {}, FALSE)
  BY DEF State, Bits
<1> QED
  BY <1>1 DEF State, Sound

\* The present disk of a log.
LEMMA LastFacts ==
  ASSUME NEW log, LogOK(log)
  PROVE  log \in Seq(Disks) /\ Len(log) \in Nat /\ Last(log) = log[Len(log)] /\ Last(log) \in Disks
  BY DEF LogOK, Last

\* A write is added to a log.
LEMMA Writes ==
  ASSUME NEW log, LogOK(log), NEW t, NEW K, NEW I, NEW B, NEW extra, NEW exact,
         State(t, K, I, B, extra, exact), Moves(Last(log), t)
  PROVE  Now(Wrote(log, t), K, I, B, extra, exact) /\ Last(Wrote(log, t)) = t
<1> DEFINE w == Append(log, t)
           n == Len(log)
<1>1. log \in Seq(Disks) /\ n \in Nat /\ n > 0 /\ Last(log) = log[n] /\ t \in Disks
  BY LastFacts DEF LogOK, State
<1>2. w \in Seq(Disks) /\ Len(w) = n + 1 /\ w[n + 1] = t /\ \A j \in 1..n : w[j] = log[j]
  BY <1>1
<1>3. w[1] = disk
  BY <1>1, <1>2 DEF LogOK
<1>4. Sound(t)
  BY StateIsSound
<1> HIDE DEF w
<1>5. ASSUME NEW j \in 1..(n + 1) PROVE Sound(w[j])
  <2>1. j \in 1..n \/ j = n + 1
    BY <1>1
  <2> QED
    BY <1>2, <1>4, <2>1 DEF LogOK
<1>6. ASSUME NEW j \in 1..n PROVE Moves(w[j], w[j + 1])
  <2>1. (j \in 1..(n - 1) /\ j + 1 \in 1..n) \/ j = n
    BY <1>1
  <2>2. CASE j = n
    BY <1>1, <1>2, <2>2
  <2>3. CASE j \in 1..(n - 1) /\ j + 1 \in 1..n
    BY <1>2, <2>3 DEF LogOK
  <2> QED
    BY <2>1, <2>2, <2>3
<1>7. (n + 1) - 1 = n /\ n + 1 > 0
  BY <1>1
<1>8. LogOK(w)
  BY <1>2, <1>3, <1>5, <1>6, <1>7 DEF LogOK
<1>9. Last(w) = t
  BY <1>2 DEF Last
<1> QED
  BY <1>8, <1>9 DEF Now, Wrote, w

\* A write that no path notices.
LEMMA QuietWrite ==
  ASSUME NEW log, NEW t \in Disks, NEW K, NEW I, NEW B, NEW extra, NEW exact,
         Now(log, K, I, B, extra, exact), Alike(Last(log), t, K), NEW J, NEW C, NEW more,
         Bits(t, K, Owned(Last(log), K), J, C, exact),
         exact => t.inode[Root].links = 1 + Cardinality(Dirs(Last(log))) + more
  PROVE  /\ Now(Wrote(log, t), K, J, C, more, exact) /\ Last(Wrote(log, t)) = t
         /\ Calm(Last(log), t, K)
<1>1. LogOK(log) /\ State(Last(log), K, I, B, extra, exact)
  BY DEF Now
<1>2. State(t, K, J, C, more, exact) /\ Calm(Last(log), t, K)
  BY <1>1, Quiet
<1>3. Moves(Last(log), t)
  BY <1>2 DEF Calm, Moves
<1> QED
  BY <1>1, <1>2, <1>3, Writes

----------------------------------------------------------------------------
(* What each kind of write does to a disk.                                  *)

\* The inodes in use.
LEMMA IuseWrite ==
  ASSUME NEW d \in Disks, NEW U \in SUBSET Inodes, NEW t, t = [d EXCEPT !.iuse = U]
  PROVE  /\ t \in Disks /\ t.iuse = U /\ t.buse = d.buse /\ t.inode = d.inode /\ t.block = d.block
         /\ t.sb = d.sb /\ t.mem = d.mem
  BY DEF Disks

\* t is d but for the blocks in use, which are U, and the count in memory, which is m.
BuseSet(d, t, U, m) ==
    t.iuse = d.iuse /\ t.buse = U /\ t.inode = d.inode /\ t.block = d.block /\ t.mem = m

\* The blocks in use are written.
LEMMA BuseWrite ==
  ASSUME NEW d \in Disks, NEW U \in SUBSET Blocks, NEW m \in Nat, NEW t,
         t = [d EXCEPT !.buse = U, !.mem = m]
  PROVE  t \in Disks /\ BuseSet(d, t, U, m)
<1>1. /\ t \in Disks /\ t.iuse = d.iuse /\ t.buse = U /\ t.inode = d.inode /\ t.block = d.block
      /\ t.mem = m
  BY DEF Disks
<1> QED
  BY <1>1 DEF BuseSet

\* The superblock.
LEMMA SbWrite ==
  ASSUME NEW d \in Disks, NEW m \in Nat, NEW t, t = [d EXCEPT !.sb = m] \/ t = [d EXCEPT !.mem = m]
  PROVE  /\ t \in Disks /\ t.iuse = d.iuse /\ t.buse = d.buse /\ t.inode = d.inode
         /\ t.block = d.block /\ (t = [d EXCEPT !.sb = m] => t.mem = d.mem)
  BY DEF Disks

\* t is d but for inode i, which is n.
InodeSet(d, t, i, n) ==
    /\ t.iuse = d.iuse /\ t.buse = d.buse /\ t.block = d.block /\ t.sb = d.sb /\ t.mem = d.mem
    /\ t.inode[i] = n /\ \A j \in Inodes : j # i => t.inode[j] = d.inode[j]

\* An inode is written.
LEMMA InodeWrite ==
  ASSUME NEW d \in Disks, NEW i \in Inodes, NEW n \in DiskInodes, NEW t,
         t = [d EXCEPT !.inode[i] = n]
  PROVE  t \in Disks /\ InodeSet(d, t, i, n)
<1>1. d.inode \in [Inodes -> DiskInodes]
  BY DEF Disks
<1>2. t \in Disks /\ t.iuse = d.iuse /\ t.buse = d.buse /\ t.block = d.block
      /\ t.sb = d.sb /\ t.mem = d.mem /\ t.inode = [d.inode EXCEPT ![i] = n]
  BY DEF Disks
<1> QED
  BY <1>1, <1>2 DEF InodeSet

\* t is d but for block b, which is c.
BlockSet(d, t, b, c) ==
    /\ t.iuse = d.iuse /\ t.buse = d.buse /\ t.inode = d.inode /\ t.sb = d.sb /\ t.mem = d.mem
    /\ t.block[b] = c /\ \A a \in Blocks : a # b => t.block[a] = d.block[a]

\* A block is written.
LEMMA BlockWrite ==
  ASSUME NEW d \in Disks, NEW b \in Blocks, NEW c \in DiskBlocks, NEW t,
         t = [d EXCEPT !.block[b] = c]
  PROVE  t \in Disks /\ BlockSet(d, t, b, c)
<1>1. d.block \in [Blocks -> DiskBlocks]
  BY DEF Disks
<1>2. t \in Disks /\ t.iuse = d.iuse /\ t.buse = d.buse /\ t.inode = d.inode
      /\ t.sb = d.sb /\ t.mem = d.mem /\ t.block = [d.block EXCEPT ![b] = c]
  BY DEF Disks
<1> QED
  BY <1>1, <1>2 DEF BlockSet

----------------------------------------------------------------------------
(* The steps of an operation that no path notices.                          *)

\* Inodes and blocks are the same.
SameData(d, t) == t.inode = d.inode /\ t.block = d.block

\* Then the disks are alike.
LEMMA DataAlike ==
  ASSUME NEW d, NEW t, NEW K, SameData(d, t)
  PROVE  Alike(d, t, K)
  BY DEF SameData, Alike

\* The links of the root, where they are counted.
LEMMA RootLinks ==
  ASSUME NEW log, NEW K, NEW I, NEW B, NEW extra, NEW exact, Now(log, K, I, B, extra, exact),
         NEW t, t.inode[Root].links = Last(log).inode[Root].links
  PROVE  exact => t.inode[Root].links = 1 + Cardinality(Dirs(Last(log))) + extra
  BY DEF Now, State, Book

\* A write to a bitmap or to the superblock.
LEMMA DataWrite ==
  ASSUME NEW log, NEW t \in Disks, NEW K, NEW I, NEW B, NEW extra, NEW exact,
         Now(log, K, I, B, extra, exact), SameData(Last(log), t), NEW J, NEW C,
         Bits(t, K, Owned(Last(log), K), J, C, exact)
  PROVE  /\ Now(Wrote(log, t), K, J, C, extra, exact) /\ Last(Wrote(log, t)) = t
         /\ Calm(Last(log), t, K)
<1>1. Alike(Last(log), t, K)
  BY DataAlike
<1>2. t.inode[Root].links = Last(log).inode[Root].links
  BY DEF SameData
<1>3. exact => t.inode[Root].links = 1 + Cardinality(Dirs(Last(log))) + extra
  <2>1. exact => Last(log).inode[Root].links = 1 + Cardinality(Dirs(Last(log))) + extra
    BY DEF Now, State, Book
  <2> QED
    BY <1>2, <2>1
<1> QED
  BY <1>1, <1>3, QuietWrite

\* What the present disk is.
LEMMA NowFacts ==
  ASSUME NEW log, NEW K, NEW I, NEW B, NEW extra, NEW exact, Now(log, K, I, B, extra, exact)
  PROVE  /\ Last(log) \in Disks /\ State(Last(log), K, I, B, extra, exact)
         /\ Bits(Last(log), K, Owned(Last(log), K), I, B, exact)
         /\ K \in SUBSET Inodes /\ I \in SUBSET Inodes /\ B \in SUBSET Blocks
         /\ Last(log).iuse \in SUBSET Inodes /\ Last(log).buse \in SUBSET Blocks
         /\ Last(log).mem \in Nat /\ LogOK(log)
<1>1. LogOK(log) /\ State(Last(log), K, I, B, extra, exact)
  BY DEF Now
<1>2. Last(log) \in Disks /\ Bits(Last(log), K, Owned(Last(log), K), I, B, exact)
  BY <1>1 DEF State
<1>3. K \in SUBSET Inodes /\ I \in SUBSET Inodes /\ B \in SUBSET Blocks
  BY <1>1, KeptIn
<1> QED
  BY <1>1, <1>2, <1>3, DiskFacts

\* ext2_alloc_inode.
LEMMA AllocInodeStep ==
  ASSUME NEW log, NEW K, NEW I, NEW B, NEW extra, NEW exact, Now(log, K, I, B, extra, exact),
         NEW i, i = NextInode(log), i # None
  PROVE  /\ Now(AllocInode(log), K, I \cup {i}, B, extra, exact) /\ i \in Inodes \ (K \cup I)
         /\ SameData(Last(log), Last(AllocInode(log)))
         /\ Calm(Last(log), Last(AllocInode(log)), K)
<1> DEFINE d == Last(log)
           t == [d EXCEPT !.iuse = @ \cup {i}]
<1>1. d \in Disks /\ Bits(d, K, Owned(d, K), I, B, exact) /\ d.iuse \in SUBSET Inodes
      /\ K \in SUBSET Inodes /\ I \in SUBSET Inodes
  BY NowFacts
<1>2. i \in Inodes \ d.iuse
  BY FirstFreeIs, NumberFacts DEF NextInode
<1>3. t = [d EXCEPT !.iuse = d.iuse \cup {i}]
  OBVIOUS
<1>4. AllocInode(log) = Wrote(log, t)
  BY DEF AllocInode
<1>5. d = Last(log)
  OBVIOUS
<1> HIDE DEF d, t
<1>6. /\ t \in Disks /\ t.iuse = d.iuse \cup {i} /\ t.buse = d.buse /\ t.inode = d.inode
      /\ t.block = d.block /\ t.mem = d.mem
  <2>1. d.iuse \cup {i} \in SUBSET Inodes
    BY <1>1, <1>2
  <2> QED
    BY <1>1, <1>3, <2>1, IuseWrite
<1>7. Bits(t, K, Owned(d, K), I \cup {i}, B, exact)
  BY <1>1, <1>2, <1>6 DEF Bits
<1>8. SameData(d, t)
  BY <1>6 DEF SameData
<1>9. i \in Inodes \ (K \cup I)
  BY <1>1, <1>2 DEF Bits
<1>10. /\ Now(Wrote(log, t), K, I \cup {i}, B, extra, exact) /\ Last(Wrote(log, t)) = t
       /\ Calm(d, t, K)
  BY <1>5, <1>6, <1>7, <1>8, DataWrite
<1> QED
  BY <1>4, <1>5, <1>8, <1>9, <1>10

\* ext2_free_inode.
LEMMA FreeInodeStep ==
  ASSUME NEW log, NEW K, NEW I, NEW B, NEW extra, NEW exact, Now(log, K, I, B, extra, exact),
         NEW i \in I
  PROVE  /\ Now(FreeInode(log, i), K, I \ {i}, B, extra, exact)
         /\ SameData(Last(log), Last(FreeInode(log, i)))
         /\ Calm(Last(log), Last(FreeInode(log, i)), K)
<1> DEFINE d == Last(log)
           t == [d EXCEPT !.iuse = @ \ {i}]
<1>1. d \in Disks /\ Bits(d, K, Owned(d, K), I, B, exact) /\ d.iuse \in SUBSET Inodes
  BY NowFacts
<1>2. t = [d EXCEPT !.iuse = d.iuse \ {i}]
  OBVIOUS
<1>3. FreeInode(log, i) = Wrote(log, t)
  BY DEF FreeInode
<1>4. d = Last(log)
  OBVIOUS
<1> HIDE DEF d, t
<1>5. /\ t \in Disks /\ t.iuse = d.iuse \ {i} /\ t.buse = d.buse /\ t.inode = d.inode
      /\ t.block = d.block /\ t.mem = d.mem
  <2>1. d.iuse \ {i} \in SUBSET Inodes
    BY <1>1
  <2> QED
    BY <1>1, <1>2, <2>1, IuseWrite
<1>6. Bits(t, K, Owned(d, K), I \ {i}, B, exact)
  <2>1. K \cup (I \ {i}) \subseteq d.iuse \ {i} /\ K \cap (I \ {i}) = {}
        /\ (exact => d.iuse \ {i} = K \cup (I \ {i}))
    BY <1>1 DEF Bits
  <2> QED
    BY <1>1, <1>5, <2>1 DEF Bits
<1>7. SameData(d, t)
  BY <1>5 DEF SameData
<1>8. /\ Now(Wrote(log, t), K, I \ {i}, B, extra, exact) /\ Last(Wrote(log, t)) = t
      /\ Calm(d, t, K)
  BY <1>4, <1>5, <1>6, <1>7, DataWrite
<1> QED
  BY <1>3, <1>4, <1>7, <1>8

\* ext2_sync_superblock.
LEMMA SyncStep ==
  ASSUME NEW log, NEW K, NEW I, NEW B, NEW extra, NEW exact, Now(log, K, I, B, extra, exact)
  PROVE  Now(SyncSuperblock(log), K, I, B, extra, exact)
<1> DEFINE d == Last(log)
           t == [d EXCEPT !.sb = d.mem]
<1>1. d \in Disks /\ Bits(d, K, Owned(d, K), I, B, exact) /\ d.mem \in Nat
  BY NowFacts
<1>2. SyncSuperblock(log) = Wrote(log, t)
  BY DEF SyncSuperblock
<1>3. d = Last(log) /\ t = [d EXCEPT !.sb = d.mem]
  OBVIOUS
<1> HIDE DEF d, t
<1>4. /\ t \in Disks /\ t.iuse = d.iuse /\ t.buse = d.buse /\ t.inode = d.inode
      /\ t.block = d.block /\ t.mem = d.mem
  BY <1>1, <1>3, SbWrite
<1>5. Bits(t, K, Owned(d, K), I, B, exact)
  BY <1>1, <1>4 DEF Bits
<1>6. SameData(d, t)
  BY <1>4 DEF SameData
<1> QED
  BY <1>2, <1>3, <1>4, <1>5, <1>6, DataWrite

\* ext2_write_inode of an inode in hand.
LEMMA WriteInodeStep ==
  ASSUME NEW log, NEW K, NEW I, NEW B, NEW extra, NEW exact, Now(log, K, I, B, extra, exact),
         NEW i \in I, NEW n \in DiskInodes
  PROVE  /\ Now(WriteInode(log, i, n), K, I, B, extra, exact)
         /\ Calm(Last(log), Last(WriteInode(log, i, n)), K)
         /\ Last(WriteInode(log, i, n)) = [Last(log) EXCEPT !.inode[i] = n]
<1> DEFINE d == Last(log)
           t == [d EXCEPT !.inode[i] = n]
<1>1. d \in Disks /\ Bits(d, K, Owned(d, K), I, B, exact) /\ I \in SUBSET Inodes
      /\ K \in SUBSET Inodes /\ State(d, K, I, B, extra, exact)
  BY NowFacts
<1>2. WriteInode(log, i, n) = Wrote(log, t)
  BY DEF WriteInode
<1>3. d = Last(log) /\ t = [d EXCEPT !.inode[i] = n]
  OBVIOUS
<1> HIDE DEF d, t
<1>4. t \in Disks /\ InodeSet(d, t, i, n)
  BY <1>1, <1>3, InodeWrite
<1>5. /\ t.iuse = d.iuse /\ t.buse = d.buse /\ t.block = d.block /\ t.mem = d.mem
      /\ \A j \in Inodes : j # i => t.inode[j] = d.inode[j]
  BY <1>4 DEF InodeSet
<1>6. i \notin K /\ Root \in K
  <2>1. Root \in Dirs(d) /\ Dirs(d) \subseteq K
    BY <1>1, KeptIn
  <2> QED
    BY <1>1, <2>1 DEF Bits
<1>7. Alike(d, t, K)
  BY <1>1, <1>5, <1>6 DEF Alike
<1>8. Bits(t, K, Owned(d, K), I, B, exact)
  BY <1>1, <1>5 DEF Bits
<1>9. exact => t.inode[Root].links = 1 + Cardinality(Dirs(Last(log))) + extra
  <2>1. d = Last(log)
    BY <1>3
  <2>2. Root \in Inodes /\ Root # i
    BY <1>6, NumberFacts
  <2>3. t.inode[Root].links = Last(log).inode[Root].links
    BY <1>5, <2>1, <2>2
  <2>4. exact => Last(log).inode[Root].links = 1 + Cardinality(Dirs(Last(log))) + extra
    BY DEF Now, State, Book
  <2> QED
    BY <2>3, <2>4
<1>10. /\ Now(Wrote(log, t), K, I, B, extra, exact) /\ Last(Wrote(log, t)) = t
       /\ Calm(d, t, K)
  <2>1. Alike(Last(log), t, K) /\ Bits(t, K, Owned(Last(log), K), I, B, exact)
    BY <1>3, <1>7, <1>8
  <2>2. /\ Now(Wrote(log, t), K, I, B, extra, exact) /\ Last(Wrote(log, t)) = t
        /\ Calm(Last(log), t, K)
    BY <1>4, <1>9, <2>1, QuietWrite
  <2> QED
    BY <1>3, <2>2
<1> QED
  BY <1>2, <1>3, <1>10

\* Two writes that no path notices.
LEMMA CalmTwice ==
  ASSUME NEW d, NEW t, NEW u, NEW K, Calm(d, t, K), Calm(t, u, K)
  PROVE  Calm(d, u, K)
<1>1. /\ SameNames(d, t) /\ TreeOf(t) = TreeOf(d) /\ Owned(t, K) = Owned(d, K)
      /\ \A i \in K, x \in Places : OwnBlock(t, i, x) = OwnBlock(d, i, x)
  BY DEF Calm
<1>2. /\ SameNames(t, u) /\ TreeOf(u) = TreeOf(t) /\ Owned(u, K) = Owned(t, K)
      /\ \A i \in K, x \in Places : OwnBlock(u, i, x) = OwnBlock(t, i, x)
  BY DEF Calm
<1>3. SameNames(d, u)
  BY <1>1, <1>2 DEF SameNames
<1> QED
  BY <1>1, <1>2, <1>3 DEF Calm

\* The width of a link count, which no number of inodes reaches.
LEMMA LinkFacts ==
  /\ LinkWidth \in Nat /\ NInodes \in Nat /\ NInodes < LinkWidth /\ NInodes >= 2 /\ LinkWidth > 2
  /\ \A l \in Int : l % LinkWidth \in 0..(LinkWidth - 1)
  /\ \A l \in 0..(LinkWidth - 1) : l % LinkWidth = l
  /\ 0 \in 0..(LinkWidth - 1) /\ 1 \in 0..(LinkWidth - 1) /\ 2 \in 0..(LinkWidth - 1)
<1>1. /\ LinkWidth \in Nat /\ LinkWidth > 2 /\ LinkWidth > BitmapBits /\ BitmapBits \in Nat
  BY DEF LinkWidth, BitmapBits
<1>2. NInodes \in Nat /\ NInodes >= 2 /\ NInodes <= BitmapBits
  <2>1. Root = 2
    BY DEF Root
  <2> QED
    BY <1>1, <2>1, GroupAssumption
<1>3. NInodes < LinkWidth
  BY <1>1, <1>2
<1>4. ASSUME NEW l \in Int PROVE l % LinkWidth \in 0..(LinkWidth - 1)
  BY <1>1
<1>5. ASSUME NEW l \in 0..(LinkWidth - 1) PROVE l % LinkWidth = l
  BY <1>1
<1>6. 0 \in 0..(LinkWidth - 1) /\ 1 \in 0..(LinkWidth - 1) /\ 2 \in 0..(LinkWidth - 1)
  BY <1>1
<1> QED
  BY <1>1, <1>2, <1>3, <1>4, <1>5, <1>6

\* Inodes can be counted in it.
LEMMA FewInodes ==
  ASSUME NEW D \in SUBSET Inodes
  PROVE  IsFiniteSet(D) /\ Cardinality(D) \in Nat /\ Cardinality(D) + 1 < LinkWidth
<1>1. NInodes \in Nat /\ NInodes >= 2 /\ NInodes < LinkWidth /\ LinkWidth \in Nat
  BY LinkFacts
<1>2. Inodes = 2..NInodes
  BY DEF Inodes, Root
<1>3. IsFiniteSet(Inodes) /\ Cardinality(Inodes) = NInodes - 1
  <2>1. IsFiniteSet(2..NInodes)
        /\ Cardinality(2..NInodes) = IF 2 > NInodes THEN 0 ELSE NInodes - 2 + 1
    BY <1>1, FS_Interval
  <2> QED
    BY <1>1, <1>2, <2>1
<1>4. IsFiniteSet(D) /\ Cardinality(D) <= Cardinality(Inodes)
  BY <1>3, FS_Subset
<1>5. Cardinality(D) \in Nat
  BY <1>4, FS_CardinalityType
<1> QED
  BY <1>1, <1>3, <1>4, <1>5

\* The free blocks, one by one.
LEMMA FreeBlocks ==
  ASSUME NEW U
  PROVE  /\ IsFiniteSet(Blocks \ U) /\ Cardinality(Blocks \ U) \in Nat
         /\ \A b \in Blocks \ U : Cardinality(Blocks \ (U \cup {b})) = Cardinality(Blocks \ U) - 1
<1>1. IsFiniteSet(Blocks)
  <2>1. 1 \in Int /\ NBlocks \in Int
    BY GroupAssumption
  <2> QED
    BY <2>1, FS_Interval DEF Blocks
<1>2. IsFiniteSet(Blocks \ U) /\ Cardinality(Blocks \ U) \in Nat
  BY <1>1, FS_Subset, FS_CardinalityType, Blocks \ U \subseteq Blocks
<1>3. ASSUME NEW b \in Blocks \ U
      PROVE  Cardinality(Blocks \ (U \cup {b})) = Cardinality(Blocks \ U) - 1
  <2>1. Blocks \ (U \cup {b}) = (Blocks \ U) \ {b}
    OBVIOUS
  <2>2. Cardinality((Blocks \ U) \ {b}) = Cardinality(Blocks \ U) - 1
    BY <1>2, FS_RemoveElement
  <2> QED
    BY <2>1, <2>2
<1> QED
  BY <1>2, <1>3

\* The links of a directory change: only those of the root do.
LEMMA AddLinksStep ==
  ASSUME NEW log, NEW K, NEW I, NEW B, NEW exact, NEW links \in {-1, 0, 1},
         Now(log, K, I, B, 0 - links, exact), NEW p \in Dirs(Last(log)), p = Root \/ links = 0
  PROVE  Now(AddLinks(log, p, links), K, I, B, 0, exact)
<1> DEFINE d == Last(log)
           n == d.inode[p]
           l == (n.links + links) % LinkWidth
           m == [n EXCEPT !.links = l]
           t == [d EXCEPT !.inode[p] = m]
<1>1. /\ d \in Disks /\ Bits(d, K, Owned(d, K), I, B, exact) /\ K \in SUBSET Inodes
      /\ Dirs(d) \subseteq K /\ Root \in Dirs(d) /\ State(d, K, I, B, 0 - links, exact)
  BY NowFacts, KeptIn
<1>2. p \in K /\ p \in Inodes
  BY <1>1
<1>3. AddLinks(log, p, links) = Wrote(log, t)
  BY DEF AddLinks, WriteInode
<1>4. n = d.inode[p] /\ l = (n.links + links) % LinkWidth
  OBVIOUS
<1>4a. d = Last(log)
  OBVIOUS
<1>4b. m = [n EXCEPT !.links = l]
  OBVIOUS
<1>4c. t = [d EXCEPT !.inode[p] = m]
  OBVIOUS
<1> HIDE DEF d, n, l, m, t
<1>5. n \in DiskInodes /\ n.links \in 0..(LinkWidth - 1)
  <2>1. n \in DiskInodes
    BY <1>1, <1>2, <1>4, DiskFacts
  <2> QED
    BY <2>1 DEF DiskInodes
<1>6. l \in 0..(LinkWidth - 1) /\ (links = 0 => l = n.links)
  <2>1. LinkWidth \in Nat /\ n.links \in Int /\ n.links + links \in Int
    BY <1>5, LinkFacts
  <2>2. l \in 0..(LinkWidth - 1)
    BY <1>4, <2>1, LinkFacts
  <2>3. ASSUME links = 0 PROVE l = n.links
    <3>1. n.links + links = n.links
      BY <2>1, <2>3
    <3> QED
      BY <1>4, <1>5, <3>1, LinkFacts
  <2> QED
    BY <2>2, <2>3
<1>7. m \in DiskInodes /\ m.kind = n.kind /\ m.size = n.size /\ m.ptr = n.ptr /\ m.links = l
  BY <1>4b, <1>5, <1>6 DEF DiskInodes
<1>8. t \in Disks /\ InodeSet(d, t, p, m)
  BY <1>1, <1>2, <1>4c, <1>7, InodeWrite
<1>9. /\ t.iuse = d.iuse /\ t.buse = d.buse /\ t.block = d.block /\ t.mem = d.mem
      /\ t.inode[p] = m /\ \A j \in Inodes : j # p => t.inode[j] = d.inode[j]
  BY <1>8 DEF InodeSet
<1>10. Alike(d, t, K)
  <2>1. ASSUME NEW i \in K
        PROVE  /\ t.inode[i].kind = d.inode[i].kind /\ t.inode[i].size = d.inode[i].size
               /\ t.inode[i].ptr = d.inode[i].ptr /\ (i # Root => t.inode[i].links = d.inode[i].links)
    <3>1. CASE i = p
      BY <1>4, <1>6, <1>7, <1>9, <3>1
    <3>2. CASE i # p
      BY <1>1, <1>9, <3>2
    <3> QED
      BY <3>1, <3>2
  <2> QED
    BY <1>9, <2>1 DEF Alike
<1>11. Bits(t, K, Owned(d, K), I, B, exact)
  BY <1>1, <1>9 DEF Bits
<1>12. ASSUME exact PROVE t.inode[Root].links = 1 + Cardinality(Dirs(d)) + 0
  <2> DEFINE c == Cardinality(Dirs(d))
  <2>1. c \in Nat /\ c + 1 < LinkWidth /\ LinkWidth \in Nat
    <3>1. Dirs(d) \in SUBSET Inodes
      BY <1>1
    <3> QED
      BY <3>1, FewInodes, LinkFacts
  <2>2. d.inode[Root].links = 1 + c + (0 - links)
    BY <1>1, <1>12 DEF State, Book
  <2> HIDE DEF c
  <2>3. CASE p = Root
    <3>1. n.links = 1 + c + (0 - links)
      BY <1>4, <2>2, <2>3
    <3>2. n.links + links = 1 + c /\ 1 + c \in 0..(LinkWidth - 1)
      BY <2>1, <3>1
    <3>3. l = 1 + c
      BY <1>4, <3>2, LinkFacts
    <3>4. t.inode[Root].links = 1 + c
      BY <1>7, <1>9, <2>3, <3>3
    <3> QED
      BY <2>1, <3>4 DEF c
  <2>4. CASE p # Root
    <3>1. links = 0 /\ t.inode[Root] = d.inode[Root]
      BY <1>9, <2>4, NumberFacts
    <3> QED
      BY <2>1, <2>2, <3>1 DEF c
  <2> QED
    BY <2>3, <2>4
<1>13. Now(Wrote(log, t), K, I, B, 0, exact)
  <2>1. Alike(Last(log), t, K) /\ Bits(t, K, Owned(Last(log), K), I, B, exact)
        /\ (exact => t.inode[Root].links = 1 + Cardinality(Dirs(Last(log))) + 0)
    BY <1>4a, <1>10, <1>11, <1>12
  <2> QED
    BY <1>8, <2>1, QuietWrite
<1> QED
  BY <1>3, <1>13

\* Disk t is d but for block b, which has been got.
Got(d, t, b) ==
    /\ b \in Blocks \ d.buse /\ t.buse = d.buse \cup {b} /\ t.inode = d.inode /\ t.iuse = d.iuse
    /\ t.block[b] = Blank /\ \A a \in Blocks : a # b => t.block[a] = d.block[a]
    /\ t.mem = IF d.mem > 0 THEN d.mem - 1 ELSE 0

\* A block that has been cleared.
LEMMA BlankIs ==
  /\ Blank \in DiskBlocks /\ \A a \in Names : Blank.ents[a] = None
  /\ \A k \in 1..PerIndirect : Blank.ptr[k] = None
  BY PointersAssumption DEF Blank, DiskBlocks

\* ext2_alloc_block.
LEMMA AllocBlockStep ==
  ASSUME NEW log, NEW K, NEW I, NEW B, NEW extra, NEW exact, Now(log, K, I, B, extra, exact),
         NEW b, b = NextBlock(log), b # None
  PROVE  /\ Now(AllocBlock(log), K, I, B \cup {b}, extra, exact)
         /\ Got(Last(log), Last(AllocBlock(log)), b)
         /\ Calm(Last(log), Last(AllocBlock(log)), K)
<1> DEFINE d == Last(log)
           l == IF d.mem > 0 THEN d.mem - 1 ELSE 0
           t == [d EXCEPT !.buse = @ \cup {b}, !.mem = IF @ > 0 THEN @ - 1 ELSE 0]
           u == [t EXCEPT !.block[b] = Blank]
           half == Wrote(log, t)
<1>1. /\ d \in Disks /\ Bits(d, K, Owned(d, K), I, B, exact) /\ d.buse \in SUBSET Blocks
      /\ d.mem \in Nat /\ LogOK(log)
  BY NowFacts
<1>2. b \in Blocks \ d.buse
  BY FirstFreeIs, NumberFacts DEF NextBlock
<1>3. AllocBlock(log) = log \o <<t, u>>
  BY DEF AllocBlock, Spent
<1>4. t = [d EXCEPT !.buse = d.buse \cup {b}, !.mem = l]
  BY <1>1 DEF Disks
<1>5. u = [t EXCEPT !.block[b] = Blank]
  OBVIOUS
<1>6. d = Last(log) /\ half = Wrote(log, t)
  OBVIOUS
<1>7. l = (IF d.mem > 0 THEN d.mem - 1 ELSE 0) /\ l \in Nat
  BY <1>1
<1> HIDE DEF d, l, t, u, half
<1>8. t \in Disks /\ BuseSet(d, t, d.buse \cup {b}, l)
  <2>1. d.buse \cup {b} \in SUBSET Blocks
    BY <1>1, <1>2
  <2> QED
    BY <1>1, <1>4, <1>7, <2>1, BuseWrite
<1>9. /\ t.iuse = d.iuse /\ t.buse = d.buse \cup {b} /\ t.inode = d.inode /\ t.block = d.block
      /\ t.mem = l
  BY <1>8 DEF BuseSet
<1>10. exact => l = Cardinality(Blocks \ (d.buse \cup {b}))
  <2>1. Cardinality(Blocks \ d.buse) \in Nat
        /\ Cardinality(Blocks \ (d.buse \cup {b})) = Cardinality(Blocks \ d.buse) - 1
    BY <1>2, FreeBlocks
  <2>2. Cardinality(Blocks \ (d.buse \cup {b})) \in Nat
    BY FreeBlocks
  <2>3. exact => d.mem = Cardinality(Blocks \ d.buse)
    BY <1>1 DEF Bits
  <2> QED
    BY <1>7, <2>1, <2>2, <2>3
<1>11. Bits(t, K, Owned(d, K), I, B \cup {b}, exact)
  BY <1>1, <1>2, <1>9, <1>10 DEF Bits
<1>12. SameData(d, t)
  BY <1>9 DEF SameData
<1>13. Now(half, K, I, B \cup {b}, extra, exact) /\ Last(half) = t /\ Calm(d, t, K)
  BY <1>6, <1>8, <1>11, <1>12, DataWrite
<1>14. u \in Disks /\ BlockSet(t, u, b, Blank)
  BY <1>2, <1>5, <1>8, BlankIs, BlockWrite
<1>15. /\ u.iuse = t.iuse /\ u.buse = t.buse /\ u.inode = t.inode /\ u.mem = t.mem
       /\ u.block[b] = Blank /\ \A a \in Blocks : a # b => u.block[a] = t.block[a]
  BY <1>14 DEF BlockSet
<1>16. Owned(t, K) = Owned(d, K) /\ Owned(t, K) \subseteq Blocks \ {b}
  <2>1. Owned(t, K) = Owned(d, K)
    BY <1>13 DEF Calm
  <2>2. Owned(d, K) \subseteq d.buse
    BY <1>1 DEF Bits
  <2> QED
    BY <1>1, <1>2, <2>1, <2>2
<1>17. Alike(t, u, K)
  <2>1. \A c \in Owned(t, K) : u.block[c] = t.block[c]
    BY <1>15, <1>16
  <2> QED
    BY <1>15, <2>1 DEF Alike
<1>18. Bits(u, K, Owned(t, K), I, B \cup {b}, exact)
  BY <1>11, <1>15, <1>16 DEF Bits
<1>19. Now(Wrote(half, u), K, I, B \cup {b}, extra, exact) /\ Last(Wrote(half, u)) = u
       /\ Calm(t, u, K)
  <2>1. u.inode[Root].links = Last(half).inode[Root].links
    BY <1>13, <1>15
  <2>2. exact => u.inode[Root].links = 1 + Cardinality(Dirs(Last(half))) + extra
    BY <1>13, <2>1 DEF Now, State, Book
  <2>3. Alike(Last(half), u, K) /\ Bits(u, K, Owned(Last(half), K), I, B \cup {b}, exact)
    BY <1>13, <1>17, <1>18
  <2>4. Now(Wrote(half, u), K, I, B \cup {b}, extra, exact) /\ Last(Wrote(half, u)) = u
        /\ Calm(Last(half), u, K)
    BY <1>13, <1>14, <2>2, <2>3, QuietWrite
  <2> QED
    BY <1>13, <2>4
<1>20. AllocBlock(log) = Wrote(half, u)
  <2>1. log \in Seq(Disks)
    BY <1>1, LastFacts
  <2>2. Append(Append(log, t), u) = log \o <<t, u>>
    BY <1>8, <1>14, <2>1
  <2> QED
    BY <1>3, <1>6, <2>2 DEF Wrote
<1>21. Calm(d, u, K)
  BY <1>13, <1>19, CalmTwice
<1>22. Got(d, u, b)
  BY <1>2, <1>7, <1>9, <1>15 DEF Got
<1> QED
  BY <1>6, <1>19, <1>20, <1>21, <1>22

\* ext2_free_block of a block in hand.
LEMMA FreeBlockStep ==
  ASSUME NEW log, NEW K, NEW I, NEW B, NEW extra, NEW exact, Now(log, K, I, B, extra, exact),
         NEW b \in B
  PROVE  /\ Now(FreeBlock(log, b), K, I, B \ {b}, extra, exact)
         /\ SameData(Last(log), Last(FreeBlock(log, b)))
         /\ Calm(Last(log), Last(FreeBlock(log, b)), K)
<1> DEFINE d == Last(log)
           U == d.buse \ {b}
           t == [d EXCEPT !.buse = @ \ {b}, !.mem = @ + 1]
<1>1. /\ d \in Disks /\ Bits(d, K, Owned(d, K), I, B, exact) /\ d.buse \in SUBSET Blocks
      /\ d.mem \in Nat
  BY NowFacts
<1>2. b \in d.buse /\ b \in Blocks \ U /\ U \cup {b} = d.buse /\ U \in SUBSET Blocks
  BY <1>1 DEF Bits
<1>3. FreeBlock(log, b) = Wrote(log, t)
  BY <1>2 DEF FreeBlock
<1>4. t = [d EXCEPT !.buse = U, !.mem = d.mem + 1]
  OBVIOUS
<1>5. d = Last(log) /\ U = d.buse \ {b}
  OBVIOUS
<1> HIDE DEF d, U, t
<1>6. t \in Disks /\ BuseSet(d, t, U, d.mem + 1)
  <2>1. d.mem + 1 \in Nat
    BY <1>1
  <2> QED
    BY <1>1, <1>2, <1>4, <2>1, BuseWrite
<1>7. /\ t.iuse = d.iuse /\ t.buse = U /\ t.inode = d.inode /\ t.block = d.block
      /\ t.mem = d.mem + 1
  BY <1>6 DEF BuseSet
<1>8. exact => d.mem + 1 = Cardinality(Blocks \ U)
  <2>1. Cardinality(Blocks \ U) \in Nat
        /\ Cardinality(Blocks \ (U \cup {b})) = Cardinality(Blocks \ U) - 1
    BY <1>2, FreeBlocks
  <2>2. exact => d.mem = Cardinality(Blocks \ d.buse)
    BY <1>1 DEF Bits
  <2> QED
    BY <1>2, <2>1, <2>2
<1>9. Bits(t, K, Owned(d, K), I, B \ {b}, exact)
  <2>1. Owned(d, K) \cup (B \ {b}) \subseteq U /\ Owned(d, K) \cap (B \ {b}) = {}
        /\ (exact => U = Owned(d, K) \cup (B \ {b}))
    BY <1>1, <1>5 DEF Bits
  <2> QED
    BY <1>1, <1>7, <1>8, <2>1 DEF Bits
<1>10. SameData(d, t)
  BY <1>7 DEF SameData
<1>11. /\ Now(Wrote(log, t), K, I, B \ {b}, extra, exact) /\ Last(Wrote(log, t)) = t
       /\ Calm(d, t, K)
  BY <1>5, <1>6, <1>9, <1>10, DataWrite
<1> QED
  BY <1>3, <1>5, <1>10, <1>11

----------------------------------------------------------------------------
(* Inodes and their blocks come and go.                                     *)

\* Inode i has no block twice.
Apart(d, i) ==
    \A x, y \in Places : OwnBlock(d, i, x) = OwnBlock(d, i, y) /\ OwnBlock(d, i, x) # None => x = y

\* Inode i has the blocks it had.
SameBlocks(d, t, i) == \A x \in Places : OwnBlock(t, i, x) = OwnBlock(d, i, x)

\* Inode i gets some of the blocks C, where it had none.
Gains(d, t, i, C) ==
    /\ \A x \in Places : \/ OwnBlock(t, i, x) = OwnBlock(d, i, x)
                         \/ OwnBlock(d, i, x) = None /\ OwnBlock(t, i, x) \in C
    /\ Apart(t, i)

\* The inodes K are what they were.
SameKinds(d, t, K) ==
    \A i \in K : /\ t.inode[i].kind = d.inode[i].kind
                 /\ i # Root => t.inode[i].links = d.inode[i].links

\* An inode that is kept may get blocks that nobody has.
LEMMA KeptGain ==
  ASSUME NEW d, NEW t, NEW K, NEW C, None \notin C, Kept(d, K), NEW j \in K, Owned(d, K) \cap C = {},
         Gains(d, t, j, C), \A i \in K \ {j} : SameBlocks(d, t, i), SameKinds(d, t, K),
         d.inode[Root].kind # "file"
  PROVE  Kept(t, K) /\ Owned(t, K) = Owned(d, K) \cup (C \cap Owned(t, {j}))
<1>1. /\ \A i \in K : d.inode[i].kind # "none" /\ (d.inode[i].kind = "file" => d.inode[i].links = 1)
      /\ \A i, h \in K, x, y \in Places :
            OwnBlock(d, i, x) = OwnBlock(d, h, y) /\ OwnBlock(d, i, x) # None => i = h /\ x = y
  BY DEF Kept
<1>2. \A i \in K, x \in Places : OwnBlock(d, i, x) # None => OwnBlock(d, i, x) \notin C
  BY DEF Owned
<1>3. \A i \in K \ {j}, x \in Places : OwnBlock(t, i, x) = OwnBlock(d, i, x)
  BY DEF SameBlocks
<1>4. \A x \in Places : \/ OwnBlock(t, j, x) = OwnBlock(d, j, x)
                        \/ OwnBlock(d, j, x) = None /\ OwnBlock(t, j, x) \in C
  BY DEF Gains
<1>5. \A x, y \in Places : OwnBlock(t, j, x) = OwnBlock(t, j, y) /\ OwnBlock(t, j, x) # None => x = y
  BY DEF Gains, Apart
<1>6. ASSUME NEW i \in K, NEW h \in K, NEW x \in Places, NEW y \in Places,
             OwnBlock(t, i, x) = OwnBlock(t, h, y), OwnBlock(t, i, x) # None
      PROVE  i = h /\ x = y
  <2>1. CASE i = j /\ h = j
    BY <1>5, <1>6, <2>1
  <2>2. CASE i # j /\ h # j
    BY <1>1, <1>3, <1>6, <2>2
  <2>3. CASE i = j /\ h # j
    <3>1. OwnBlock(t, h, y) = OwnBlock(d, h, y) /\ OwnBlock(d, h, y) # None
      <4>1. h \in K \ {j}
        BY <2>3
      <4>2. OwnBlock(t, h, y) = OwnBlock(d, h, y)
        BY <1>3, <4>1
      <4>3. OwnBlock(t, h, y) # None
        BY <1>6
      <4> QED
        BY <4>2, <4>3
    <3>2. OwnBlock(t, j, x) = OwnBlock(d, j, x)
      BY <1>2, <1>4, <1>6, <2>3, <3>1
    <3>3. OwnBlock(d, j, x) = OwnBlock(d, h, y) /\ OwnBlock(d, j, x) # None
      BY <1>6, <2>3, <3>1, <3>2
    <3>4. j = h
      BY <1>1, <3>3
    <3> QED
      BY <2>3, <3>4
  <2>4. CASE i # j /\ h = j
    <3>1. OwnBlock(t, i, x) = OwnBlock(d, i, x) /\ OwnBlock(d, i, x) # None
      BY <1>3, <1>6, <2>4
    <3>2. OwnBlock(t, j, y) = OwnBlock(d, j, y)
      BY <1>2, <1>4, <1>6, <2>4, <3>1
    <3>3. OwnBlock(d, i, x) = OwnBlock(d, j, y)
      BY <1>6, <2>4, <3>1, <3>2
    <3>4. i = j
      BY <1>1, <3>1, <3>3
    <3> QED
      BY <2>4, <3>4
  <2> QED
    BY <2>1, <2>2, <2>3, <2>4
<1>7. \A i \in K : t.inode[i].kind # "none" /\ (t.inode[i].kind = "file" => t.inode[i].links = 1)
  BY <1>1 DEF SameKinds
<1>8. Kept(t, K)
  BY <1>6, <1>7 DEF Kept
<1>9. Owned(t, K) = Owned(d, K) \cup (C \cap Owned(t, {j}))
  <2>1. ASSUME NEW b \in Owned(t, K) PROVE b \in Owned(d, K) \cup (C \cap Owned(t, {j}))
    <3>1. PICK i \in K, x \in Places : b = OwnBlock(t, i, x) /\ b # None
      BY DEF Owned
    <3>2. CASE OwnBlock(t, i, x) = OwnBlock(d, i, x)
      BY <3>1, <3>2 DEF Owned
    <3>3. CASE OwnBlock(t, i, x) # OwnBlock(d, i, x)
      <4>1. i = j /\ b \in C
        BY <1>3, <1>4, <3>1, <3>3
      <4>2. b \in Owned(t, {j})
        BY <3>1, <4>1 DEF Owned
      <4> QED
        BY <4>1, <4>2
    <3> QED
      BY <3>2, <3>3
  <2>2. ASSUME NEW b \in Owned(d, K) PROVE b \in Owned(t, K)
    <3>1. PICK i \in K, x \in Places : b = OwnBlock(d, i, x) /\ b # None
      BY DEF Owned
    <3>2. OwnBlock(t, i, x) = b
      BY <1>3, <1>4, <3>1
    <3> QED
      BY <3>1, <3>2 DEF Owned
  <2>3. Owned(t, {j}) \subseteq Owned(t, K)
    BY DEF Owned
  <2> QED
    BY <2>1, <2>2, <2>3
<1> QED
  BY <1>8, <1>9

\* An inode with blocks of its own is kept as well.
LEMMA KeptAdopt ==
  ASSUME NEW d, NEW K, Kept(d, K), NEW i, i \notin K, Apart(d, i), Owned(d, K) \cap Owned(d, {i}) = {},
         d.inode[i].kind # "none", d.inode[i].kind = "file" => d.inode[i].links = 1
  PROVE  Kept(d, K \cup {i}) /\ Owned(d, K \cup {i}) = Owned(d, K) \cup Owned(d, {i})
<1>1. /\ \A j \in K : d.inode[j].kind # "none" /\ (d.inode[j].kind = "file" => d.inode[j].links = 1)
      /\ \A j, h \in K, x, y \in Places :
            OwnBlock(d, j, x) = OwnBlock(d, h, y) /\ OwnBlock(d, j, x) # None => j = h /\ x = y
  BY DEF Kept
<1>2. \A x, y \in Places : OwnBlock(d, i, x) = OwnBlock(d, i, y) /\ OwnBlock(d, i, x) # None => x = y
  BY DEF Apart
<1>3. \A j \in K, x, y \in Places : OwnBlock(d, j, x) # None => OwnBlock(d, j, x) # OwnBlock(d, i, y)
  BY DEF Owned
<1>4. ASSUME NEW j \in K \cup {i}, NEW h \in K \cup {i}, NEW x \in Places, NEW y \in Places,
             OwnBlock(d, j, x) = OwnBlock(d, h, y), OwnBlock(d, j, x) # None
      PROVE  j = h /\ x = y
  <2>1. CASE j = i /\ h = i
    BY <1>2, <1>4, <2>1
  <2>2. CASE j # i /\ h # i
    BY <1>1, <1>4, <2>2
  <2>3. CASE j = i /\ h # i
    BY <1>3, <1>4, <2>3
  <2>4. CASE j # i /\ h = i
    BY <1>3, <1>4, <2>4
  <2> QED
    BY <2>1, <2>2, <2>3, <2>4
<1>5. Kept(d, K \cup {i})
  BY <1>1, <1>4 DEF Kept
<1>6. Owned(d, K \cup {i}) = Owned(d, K) \cup Owned(d, {i})
  BY DEF Owned
<1> QED
  BY <1>5, <1>6

\* An inode that no path leads to is in hand instead of kept.
LEMMA Release ==
  ASSUME NEW d \in Disks, NEW K, NEW extra, NEW exact, Kept(d, K),
         Bits(d, K, Owned(d, K), {}, {}, exact), Named(d, K),
         NEW i \in K, i \notin Reach(d), exact => Book(d, K \ {i}, extra)
  PROVE  State(d, K \ {i}, {i}, Owned(d, {i}), extra, exact)
<1>1. /\ d \in Disks /\ Kept(d, K) /\ Bits(d, K, Owned(d, K), {}, {}, exact) /\ Named(d, K)
  OBVIOUS
<1>2. \A j, h \in K, x, y \in Places :
         OwnBlock(d, j, x) = OwnBlock(d, h, y) /\ OwnBlock(d, j, x) # None => j = h /\ x = y
  BY <1>1 DEF Kept
<1>3. Kept(d, K \ {i})
  <2>1. \A j, h \in K \ {i}, x, y \in Places :
           OwnBlock(d, j, x) = OwnBlock(d, h, y) /\ OwnBlock(d, j, x) # None => j = h /\ x = y
    BY <1>2
  <2>2. \A j \in K \ {i} : d.inode[j].kind # "none" /\ (d.inode[j].kind = "file" => d.inode[j].links = 1)
    BY <1>1 DEF Kept
  <2> QED
    BY <2>1, <2>2 DEF Kept
<1>4. Owned(d, K) = Owned(d, K \ {i}) \cup Owned(d, {i})
  BY DEF Owned
<1>5. Owned(d, K \ {i}) \cap Owned(d, {i}) = {}
  <2>1. SUFFICES ASSUME NEW b, b \in Owned(d, K \ {i}), b \in Owned(d, {i}) PROVE FALSE
    OBVIOUS
  <2>2. PICK j \in K \ {i}, x \in Places : b = OwnBlock(d, j, x) /\ b # None
    BY <2>1 DEF Owned
  <2>3. PICK y \in Places : b = OwnBlock(d, i, y)
    BY <2>1 DEF Owned
  <2>4. j \in K /\ i \in K /\ j # i /\ OwnBlock(d, j, x) = OwnBlock(d, i, y) /\ OwnBlock(d, j, x) # None
    BY <2>2, <2>3
  <2> QED
    BY <1>2, <2>4
<1>6. Bits(d, K \ {i}, Owned(d, K \ {i}), {i}, Owned(d, {i}), exact)
  <2>1. (K \ {i}) \cup {i} = K \cup {} /\ (K \ {i}) \cap {i} = {}
    OBVIOUS
  <2>2. Owned(d, K \ {i}) \cup Owned(d, {i}) = Owned(d, K) \cup {}
    BY <1>4
  <2> QED
    BY <1>1, <1>5, <2>1, <2>2 DEF Bits
<1>7. Named(d, K \ {i})
  <2>1. Dirs(d) \subseteq K \ {i}
    BY <1>1 DEF Named, Reach
  <2>2. \A p \in Dirs(d), a \in Names : Lookup(d, p, a) \in ((K \ {i}) \ {Root}) \cup {None}
    <3>1. \A p \in Dirs(d), a \in Names : Lookup(d, p, a) \in (K \ {Root}) \cup {None}
      BY <1>1 DEF Named
    <3>2. \A p \in Dirs(d), a \in Names : Lookup(d, p, a) # None => Lookup(d, p, a) # i
      BY DEF Reach
    <3> QED
      BY <3>1, <3>2
  <2> QED
    BY <1>1, <2>1, <2>2 DEF Named
<1>8. exact => Book(d, K \ {i}, extra)
  OBVIOUS
<1> QED
  BY <1>1, <1>3, <1>6, <1>7, <1>8 DEF State

\* Inodes that have just been made.
LEMMA NewInodes ==
  /\ NoPointers \in [1..(NDirect + 1) -> Blocks \cup {None}]
  /\ \A k \in 1..(NDirect + 1) : NoPointers[k] = None
  /\ NewFile \in DiskInodes /\ NewFile.kind = "file" /\ NewFile.links = 1 /\ NewFile.size = 0
  /\ NewFile.ptr = NoPointers
  /\ \A b \in Blocks :
        /\ NewDir(b) \in DiskInodes /\ NewDir(b).kind = "dir" /\ NewDir(b).links = 2
        /\ NewDir(b).size = 1
        /\ \A k \in 1..(NDirect + 1) : NewDir(b).ptr[k] = IF k = 1 THEN b ELSE None
<1>1. /\ NoPointers \in [1..(NDirect + 1) -> Blocks \cup {None}]
      /\ \A k \in 1..(NDirect + 1) : NoPointers[k] = None
  BY DEF NoPointers
<1>2. 0 \in 0..FileBlocks /\ 1 \in 0..FileBlocks /\ 1 \in 1..(NDirect + 1)
  BY PointersAssumption DEF FileBlocks
<1>3. /\ NewFile \in DiskInodes /\ NewFile.kind = "file" /\ NewFile.links = 1 /\ NewFile.size = 0
      /\ NewFile.ptr = NoPointers
  BY <1>1, <1>2, LinkFacts DEF NewFile, DiskInodes
<1>4. ASSUME NEW b \in Blocks
      PROVE  /\ NewDir(b) \in DiskInodes /\ NewDir(b).kind = "dir" /\ NewDir(b).links = 2
             /\ NewDir(b).size = 1
             /\ \A k \in 1..(NDirect + 1) : NewDir(b).ptr[k] = IF k = 1 THEN b ELSE None
  <2> DEFINE q == [NoPointers EXCEPT ![1] = b]
  <2>1. /\ q \in [1..(NDirect + 1) -> Blocks \cup {None}]
        /\ \A k \in 1..(NDirect + 1) : q[k] = IF k = 1 THEN b ELSE None
    BY <1>1, <1>2
  <2>2. NewDir(b) = [kind |-> "dir", links |-> 2, size |-> 1, ptr |-> q]
    BY DEF NewDir
  <2> HIDE DEF q
  <2> QED
    BY <1>2, <2>1, <2>2, LinkFacts DEF DiskInodes
<1> QED
  BY <1>1, <1>3, <1>4

\* Inode i, with the blocks B, has just been made.
Fresh(d, i, B) ==
    \/ B = {} /\ d.inode[i] = NewFile
    \/ \E b \in Blocks : B = {b} /\ d.inode[i] = NewDir(b) /\ d.block[b] = Blank

\* It holds nothing.
LEMMA FreshFacts ==
  ASSUME NEW d \in Disks, NEW i \in Inodes, NEW B, Fresh(d, i, B)
  PROVE  /\ Owned(d, {i}) = B /\ Apart(d, i) /\ d.inode[i].kind \in {"file", "dir"}
         /\ d.inode[i].kind = "file" => d.inode[i].links = 1
         /\ d.inode[i].kind = "dir" => d.inode[i].links = 2 /\ DirOk(d, i) /\ EmptyDir(d, i)
         /\ Shown(d, i) = NS!Folder \/ Shown(d, i) = NS!File(0)
<1> DEFINE n == d.inode[i]
<1>0. i # None
  BY NumberFacts
<1>1. CASE B = {} /\ n = NewFile
  <2>1. n.kind = "file" /\ n.links = 1 /\ n.size = 0 /\ \A k \in 1..(NDirect + 1) : n.ptr[k] = None
    BY <1>1, NewInodes
  <2>2. ASSUME NEW x \in Places PROVE OwnBlock(d, i, x) = None
    <3>1. x \in 1..NDirect \/ x = Indirect \/ x > NDirect
      BY PlaceFacts
    <3>2. CASE x \in 1..NDirect
      <4>1. OwnBlock(d, i, x) = n.ptr[x] /\ x \in 1..(NDirect + 1)
        BY <3>2, OwnDirect, PlaceFacts
      <4> QED
        BY <2>1, <4>1
    <3>0. n.ptr[NDirect + 1] = None
      BY <2>1, PlaceFacts
    <3>3. CASE x = Indirect
      BY <3>0, <3>3, OwnIndirect
    <3>4. CASE x > NDirect
      BY <3>0, <3>4, OwnNone
    <3> QED
      BY <3>1, <3>2, <3>3, <3>4
  <2>3. Owned(d, {i}) = B /\ Apart(d, i)
    BY <1>1, <2>2 DEF Owned, Apart
  <2>4. Shown(d, i) = NS!File(0)
    BY <1>0, <2>1 DEF Shown, NS!File
  <2> QED
    BY <2>1, <2>3, <2>4
<1>2. CASE \E b \in Blocks : B = {b} /\ n = NewDir(b) /\ d.block[b] = Blank
  <2>1. PICK b \in Blocks : B = {b} /\ n = NewDir(b) /\ d.block[b] = Blank
    BY <1>2
  <2>2. /\ n.kind = "dir" /\ n.links = 2 /\ n.size = 1 /\ b # None
        /\ \A k \in 1..(NDirect + 1) : n.ptr[k] = IF k = 1 THEN b ELSE None
    BY <2>1, NewInodes, NumberFacts
  <2>3. 1 \in 1..NDirect /\ NDirect + 1 # 1 /\ 1 \in Places /\ ~(1 > NDirect) /\ 1 # Indirect
    BY PointersAssumption, PlaceFacts
  <2> HIDE DEF n
  <2>4. ASSUME NEW x \in Places PROVE OwnBlock(d, i, x) = IF x = 1 THEN b ELSE None
    <3>1. x \in 1..NDirect \/ x = Indirect \/ x > NDirect
      BY PlaceFacts
    <3>2. CASE x \in 1..NDirect
      <4>1. OwnBlock(d, i, x) = n.ptr[x] /\ x \in 1..(NDirect + 1)
        BY <3>2, OwnBlockCases, PlaceFacts DEF n
      <4> QED
        BY <2>2, <4>1
    <3>3. CASE x = Indirect
      <4>1. OwnBlock(d, i, Indirect) = n.ptr[NDirect + 1]
        BY OwnBlockCases DEF n
      <4> QED
        BY <2>2, <2>3, <3>3, <4>1, PlaceFacts
    <3>4. CASE x > NDirect
      <4>1. n.ptr[NDirect + 1] = None
        BY <2>2, <2>3, PlaceFacts
      <4>2. OwnBlock(d, i, x) = None
        BY <3>4, <4>1, OwnBlockCases DEF n
      <4> QED
        BY <2>3, <3>4, <4>2
    <3> QED
      BY <3>1, <3>2, <3>3, <3>4
  <2>5. Owned(d, {i}) = B /\ Apart(d, i)
    BY <2>1, <2>2, <2>3, <2>4 DEF Owned, Apart
  <2>6. DirOk(d, i)
    <3>1. n.size \in 1..NDirect /\ \A k \in 1..(NDirect + 1) : n.ptr[k] # None <=> k <= n.size
      <4>1. \A k \in 1..(NDirect + 1) : k <= 1 <=> k = 1
        OBVIOUS
      <4> QED
        BY <2>2, <2>3, <4>1
    <3>2. \A k, h \in 1..n.size : k = h
      BY <2>2
    <3> QED
      BY <2>2, <3>1, <3>2 DEF DirOk, n
  <2>7. EmptyDir(d, i)
    <3>1. ASSUME NEW a \in Names PROVE Lookup(d, i, a) = None
      <4>1. SUFFICES ASSUME Lookup(d, i, a) # None PROVE FALSE
        OBVIOUS
      <4>2. PICK k \in 1..d.inode[i].size : d.block[OwnBlock(d, i, k)].ents[a] = Lookup(d, i, a)
        BY <2>6, <4>1, LookupFacts
      <4>3. k = 1
        BY <2>2 DEF n
      <4>4. d.block[OwnBlock(d, i, k)].ents[a] = None
        BY <2>1, <2>3, <2>4, <4>3, BlankIs
      <4> QED
        BY <4>1, <4>2, <4>4
    <3> QED
      BY <3>1 DEF EmptyDir
  <2>8. Shown(d, i) = NS!Folder
    BY <1>0, <2>2 DEF Shown, NS!Folder, n
  <2> QED
    BY <2>2, <2>5, <2>6, <2>7, <2>8 DEF n
<1> QED
  BY <1>1, <1>2 DEF Fresh

----------------------------------------------------------------------------
(* A name comes.                                                            *)

\* Entry a of directory p leads to inode i on t, and p has the blocks C more than on d.
Entered(d, t, K, C, p, a, i) ==
    /\ t \in Disks /\ t.iuse = d.iuse /\ t.buse = d.buse /\ t.mem = d.mem
    /\ \A j \in (K \cup {i}) \ {p} : t.inode[j] = d.inode[j] /\ SameBlocks(d, t, j)
    /\ Gains(d, t, p, C) /\ C \subseteq Owned(t, {p})
    /\ t.inode[p].kind = d.inode[p].kind /\ t.inode[p].links = d.inode[p].links /\ DirOk(t, p)
    /\ \A b \in Names : Lookup(t, p, b) = IF b = a THEN i ELSE Lookup(d, p, b)
    /\ \A q \in Dirs(d) \ {p} : SameDir(d, t, q)
    /\ d.inode[i].kind = "dir" => SameDir(d, t, i)

\* What is new among the directories.
NewDirs(d, i) == {j \in {i} : d.inode[j].kind = "dir"}

\* What goes with inode i when it gets a name.
Guest(d, K, p, i) ==
    /\ i \in Inodes /\ i \notin K /\ d.inode[i].kind \in {"file", "dir"}
    /\ d.inode[i].kind = "dir" => p = Root /\ d.inode[i].links = 2 /\ DirOk(d, i) /\ EmptyDir(d, i)

\* Inode i has its name on t, and the rest leads where it led.
Looks(d, t, K, p, a, i) ==
    /\ \A q \in Dirs(d), b \in Names :
          Lookup(t, q, b) = IF q = p /\ b = a THEN i ELSE Lookup(d, q, b)
    /\ \A q \in Dirs(d) : DirOk(t, q)
    /\ \A j \in K \cup {i} : t.inode[j].kind = d.inode[j].kind /\ t.inode[j].links = d.inode[j].links
    /\ d.inode[i].kind = "dir" => DirOk(t, i) /\ \A b \in Names : Lookup(t, i, b) = None

\* What the names lead to afterwards.
LEMMA EnterLooks ==
  ASSUME NEW d, NEW t, NEW K \in SUBSET Inodes, Named(d, K), NEW C, NEW p \in Dirs(d), NEW a \in Names,
         NEW i, Guest(d, K, p, i), Entered(d, t, K, C, p, a, i)
  PROVE  Looks(d, t, K, p, a, i)
<1>1. \A q \in Dirs(d) : DirOk(d, q)
  BY DEF Named
<1>2. /\ \A b \in Names : Lookup(t, p, b) = IF b = a THEN i ELSE Lookup(d, p, b)
      /\ DirOk(t, p) /\ \A q \in Dirs(d) \ {p} : SameDir(d, t, q)
      /\ d.inode[i].kind = "dir" => SameDir(d, t, i)
  BY DEF Entered
<1>3. \A q \in Dirs(d) \ {p} : DirOk(t, q) /\ \A b \in Names : Lookup(t, q, b) = Lookup(d, q, b)
  BY <1>1, <1>2, SameDirShows
<1>4. d.inode[i].kind = "dir" => DirOk(t, i) /\ \A b \in Names : Lookup(t, i, b) = None
  <2>1. d.inode[i].kind = "dir" => DirOk(d, i) /\ \A b \in Names : Lookup(d, i, b) = None
    BY DEF Guest, EmptyDir
  <2>2. d.inode[i].kind = "dir" => DirOk(t, i) /\ \A b \in Names : Lookup(t, i, b) = Lookup(d, i, b)
    BY <1>2, <2>1, SameDirShows
  <2> QED
    BY <2>1, <2>2
<1>5. \A j \in K \cup {i} : t.inode[j].kind = d.inode[j].kind /\ t.inode[j].links = d.inode[j].links
  BY DEF Entered
<1>6. \A q \in Dirs(d), b \in Names :
         Lookup(t, q, b) = IF q = p /\ b = a THEN i ELSE Lookup(d, q, b)
  BY <1>2, <1>3
<1>7. \A q \in Dirs(d) : DirOk(t, q)
  BY <1>2, <1>3
<1> QED
  BY <1>4, <1>5, <1>6, <1>7 DEF Looks

\* Inode i is reachable on t as well.
GrownBy(d, t, i) == Dirs(t) = Dirs(d) \cup NewDirs(d, i) /\ Reach(t) = Reach(d) \cup {i}

\* The directories afterwards.
LEMMA EnterDirs ==
  ASSUME NEW d, NEW t, NEW K \in SUBSET Inodes, Named(d, K), NEW C, NEW p \in Dirs(d), NEW a \in Names,
         NEW i, Guest(d, K, p, i), Lookup(d, p, a) = None, Entered(d, t, K, C, p, a, i)
  PROVE  GrownBy(d, t, i)
<1>1. /\ \A q \in Dirs(d), b \in Names :
            Lookup(t, q, b) = IF q = p /\ b = a THEN i ELSE Lookup(d, q, b)
      /\ \A j \in K \cup {i} : t.inode[j].kind = d.inode[j].kind
      /\ d.inode[i].kind = "dir" => \A b \in Names : Lookup(t, i, b) = None
  <2>1. Looks(d, t, K, p, a, i)
    BY EnterLooks
  <2> QED
    BY <2>1 DEF Looks
<1>2. /\ Root \in Dirs(d) /\ Dirs(d) \subseteq K
      /\ \A q \in Dirs(d), b \in Names : Lookup(d, q, b) \in K \cup {None}
  BY DEF Dirs, Named
<1>3. i # None /\ i \notin K /\ (d.inode[i].kind = "dir" => p = Root)
  BY NumberFacts DEF Guest
<1> DEFINE L == {Lookup(d, Root, b) : b \in Names} \ {None}
           M == {Lookup(t, Root, b) : b \in Names} \ {None}
<1>4. L \subseteq K
  BY <1>2
<1>5. p = Root => M = L \cup {i}
  <2>1. ASSUME p = Root PROVE M = L \cup {i}
    <3>1. \A b \in Names : Lookup(t, Root, b) = IF b = a THEN i ELSE Lookup(d, Root, b)
      BY <1>1, <1>2, <2>1
    <3>2. Lookup(d, Root, a) = None
      BY <2>1
    <3>3. ASSUME NEW x \in M PROVE x \in L \cup {i}
      BY <3>1
    <3>4. ASSUME NEW x \in L PROVE x \in M
      BY <3>1, <3>2
    <3>5. i \in M
      BY <1>3, <3>1
    <3> QED
      BY <3>3, <3>4, <3>5
  <2> QED
    BY <2>1
<1>6. p # Root => M = L
  <2>1. ASSUME p # Root PROVE \A b \in Names : Lookup(t, Root, b) = Lookup(d, Root, b)
    BY <1>1, <1>2, <2>1
  <2> QED
    BY <2>1
<1>7. Dirs(t) = Dirs(d) \cup NewDirs(d, i)
  <2>1. Dirs(d) = {Root} \cup {j \in L : d.inode[j].kind = "dir"}
    BY DEF Dirs
  <2>2. Dirs(t) = {Root} \cup {j \in M : t.inode[j].kind = "dir"}
    BY DEF Dirs
  <2> HIDE DEF L, M
  <2>3. CASE p = Root
    <3>1. {j \in M : t.inode[j].kind = "dir"} = {j \in L : d.inode[j].kind = "dir"} \cup NewDirs(d, i)
      <4>1. M = L \cup {i} /\ \A j \in M : t.inode[j].kind = d.inode[j].kind
        BY <1>1, <1>4, <1>5, <2>3
      <4> QED
        BY <4>1 DEF NewDirs
    <3> QED
      BY <2>1, <2>2, <3>1
  <2>4. CASE p # Root
    <3>1. NewDirs(d, i) = {}
      BY <1>3, <2>4 DEF NewDirs
    <3>2. \A j \in L : t.inode[j].kind = d.inode[j].kind
      BY <1>1, <1>4
    <3> QED
      BY <1>6, <2>1, <2>2, <2>4, <3>1, <3>2
  <2> QED
    BY <2>3, <2>4
<1>8. Reach(t) = Reach(d) \cup {i}
  <2> DEFINE R == {Lookup(d, q, b) : q \in Dirs(d), b \in Names} \ {None}
             S == {Lookup(t, q, b) : q \in Dirs(t), b \in Names} \ {None}
  <2>1. Reach(d) = Dirs(d) \cup R /\ Reach(t) = Dirs(t) \cup S
    BY DEF Reach
  <2>2. ASSUME NEW x \in S PROVE x \in R \cup {i}
    <3>1. PICK q \in Dirs(t), b \in Names : x = Lookup(t, q, b) /\ x # None
      OBVIOUS
    <3>2. CASE q \in Dirs(d)
      BY <1>1, <3>1, <3>2
    <3>3. CASE q \notin Dirs(d)
      <4>1. q = i /\ d.inode[i].kind = "dir"
        BY <1>7, <3>1, <3>3 DEF NewDirs
      <4> QED
        BY <1>1, <3>1, <4>1
    <3> QED
      BY <3>2, <3>3
  <2>3. ASSUME NEW x \in R PROVE x \in S
    <3>1. PICK q \in Dirs(d), b \in Names : x = Lookup(d, q, b) /\ x # None
      OBVIOUS
    <3>2. ~(q = p /\ b = a)
      BY <3>1
    <3>3. Lookup(t, q, b) = x /\ q \in Dirs(t)
      BY <1>1, <1>7, <3>1, <3>2
    <3> QED
      BY <3>1, <3>3
  <2>4. i \in S
    <3>1. Lookup(t, p, a) = i /\ p \in Dirs(t)
      BY <1>1, <1>7
    <3> QED
      BY <1>3, <3>1
  <2> HIDE DEF R, S
  <2>5. NewDirs(d, i) \subseteq {i}
    BY DEF NewDirs
  <2> QED
    BY <1>7, <2>1, <2>2, <2>3, <2>4, <2>5
<1> QED
  BY <1>7, <1>8 DEF GrownBy

\* The names are in order afterwards.
LEMMA NamedEnter ==
  ASSUME NEW d, NEW t, NEW K \in SUBSET Inodes, Named(d, K), NEW C, NEW p \in Dirs(d), NEW a \in Names,
         NEW i, Guest(d, K, p, i), Lookup(d, p, a) = None, Entered(d, t, K, C, p, a, i)
  PROVE  Named(t, K \cup {i})
<1>1. /\ \A q \in Dirs(d), b \in Names :
            Lookup(t, q, b) = IF q = p /\ b = a THEN i ELSE Lookup(d, q, b)
      /\ \A q \in Dirs(d) : DirOk(t, q)
      /\ \A j \in K \cup {i} : t.inode[j].kind = d.inode[j].kind /\ t.inode[j].links = d.inode[j].links
      /\ d.inode[i].kind = "dir" => DirOk(t, i) /\ \A b \in Names : Lookup(t, i, b) = None
  <2>1. Looks(d, t, K, p, a, i)
    BY EnterLooks
  <2> QED
    BY <2>1 DEF Looks
<1>2. Dirs(t) = Dirs(d) \cup NewDirs(d, i)
  <2>1. GrownBy(d, t, i)
    BY EnterDirs
  <2> QED
    BY <2>1 DEF GrownBy
<1>3. /\ Root \in Dirs(d) /\ Dirs(d) \subseteq K
      /\ \A q \in Dirs(d), b \in Names : Lookup(d, q, b) \in (K \ {Root}) \cup {None}
      /\ \A q \in Dirs(d) \ {Root} :
            /\ d.inode[q].links = 2
            /\ \A b \in Names : Lookup(d, q, b) # None => d.inode[Lookup(d, q, b)].kind = "file"
  BY DEF Dirs, Named
<1>4. \A q, r \in Dirs(d), b, e \in Names :
         Lookup(d, q, b) = Lookup(d, r, e) /\ Lookup(d, q, b) # None => q = r /\ b = e
  BY DEF Named
<1>5. /\ i # None /\ i \notin K /\ i # Root /\ i \notin Dirs(d) /\ d.inode[i].kind \in {"file", "dir"}
      /\ d.inode[i].kind = "dir" => p = Root /\ d.inode[i].links = 2
  BY <1>3, NumberFacts DEF Guest
<1>6. \A q \in Dirs(t) : q \in Dirs(d) \/ (q = i /\ d.inode[i].kind = "dir")
  BY <1>2 DEF NewDirs
<1>7. \A q \in Dirs(t), b \in Names : Lookup(t, q, b) # None => q \in Dirs(d)
  BY <1>1, <1>6
<1>8. Dirs(t) \subseteq K \cup {i} /\ \A q \in Dirs(t) : DirOk(t, q)
  BY <1>1, <1>3, <1>6
<1>9. ASSUME NEW q \in Dirs(t) \ {Root}
      PROVE  /\ t.inode[q].links = 2
             /\ \A b \in Names : Lookup(t, q, b) # None => t.inode[Lookup(t, q, b)].kind = "file"
  <2>1. t.inode[q].links = 2
    BY <1>1, <1>3, <1>5, <1>6
  <2>2. ASSUME NEW b \in Names, Lookup(t, q, b) # None PROVE t.inode[Lookup(t, q, b)].kind = "file"
    <3>1. q \in Dirs(d)
      BY <1>7, <2>2
    <3>2. CASE q = p /\ b = a
      <4>1. Lookup(t, q, b) = i /\ d.inode[i].kind = "file"
        BY <1>1, <1>5, <3>1, <3>2
      <4> QED
        BY <1>1, <4>1
    <3>3. CASE ~(q = p /\ b = a)
      <4>1. Lookup(t, q, b) = Lookup(d, q, b)
        BY <1>1, <3>1, <3>3
      <4>2. Lookup(d, q, b) \in K /\ d.inode[Lookup(d, q, b)].kind = "file"
        BY <1>3, <2>2, <3>1, <4>1
      <4> QED
        BY <1>1, <4>1, <4>2
    <3> QED
      BY <3>2, <3>3
  <2> QED
    BY <2>1, <2>2
<1>10. \A q \in Dirs(t), b \in Names : Lookup(t, q, b) \in ((K \cup {i}) \ {Root}) \cup {None}
  <2>1. ASSUME NEW q \in Dirs(t), NEW b \in Names
        PROVE  Lookup(t, q, b) \in ((K \cup {i}) \ {Root}) \cup {None}
    <3>1. CASE q \in Dirs(d)
      <4>1. Lookup(t, q, b) = i \/ Lookup(t, q, b) = Lookup(d, q, b)
        BY <1>1, <3>1
      <4>2. Lookup(d, q, b) \in (K \ {Root}) \cup {None}
        BY <1>3, <3>1
      <4> QED
        BY <1>5, <4>1, <4>2
    <3>2. CASE q \notin Dirs(d)
      BY <1>7, <3>2
    <3> QED
      BY <3>1, <3>2
  <2> QED
    BY <2>1
<1>11. ASSUME NEW q \in Dirs(t), NEW r \in Dirs(t), NEW b \in Names, NEW e \in Names,
              Lookup(t, q, b) = Lookup(t, r, e), Lookup(t, q, b) # None
       PROVE  q = r /\ b = e
  <2>1. q \in Dirs(d) /\ r \in Dirs(d)
    BY <1>7, <1>11
  <2>2. Lookup(d, q, b) # i /\ Lookup(d, r, e) # i
    BY <1>3, <1>5, <2>1
  <2>3. Lookup(t, q, b) = IF q = p /\ b = a THEN i ELSE Lookup(d, q, b)
    BY <1>1, <2>1
  <2>4. Lookup(t, r, e) = IF r = p /\ e = a THEN i ELSE Lookup(d, r, e)
    BY <1>1, <2>1
  <2>5. CASE q = p /\ b = a
    BY <1>11, <2>2, <2>3, <2>4, <2>5
  <2>6. CASE ~(q = p /\ b = a)
    <3>1. Lookup(d, q, b) = Lookup(d, r, e) /\ Lookup(d, q, b) # None
      BY <1>11, <2>2, <2>3, <2>4, <2>6
    <3> QED
      BY <1>4, <2>1, <3>1
  <2> QED
    BY <2>5, <2>6
<1> QED
  BY <1>8, <1>9, <1>10, <1>11 DEF Named

\* What the root lacks when inode i gets a name there, the link of a directory.
LinkDue(d, i) == IF d.inode[i].kind = "dir" THEN 1 ELSE 0

\* Inode i is shown as new.
ShownNew(d, i) == Shown(d, i) = NS!Folder \/ Shown(d, i) = NS!File(0)

\* A name that comes is one step of the specification.
LEMMA EnterMoves ==
  ASSUME NEW d \in Disks, NEW t, NEW K \in SUBSET Inodes, Named(d, K), NEW C, NEW p \in Dirs(d),
         NEW a \in Names, NEW i, Guest(d, K, p, i), Lookup(d, p, a) = None,
         ShownNew(d, i), Entered(d, t, K, C, p, a, i)
  PROVE  Moves(d, t)
<1>1. Looks(d, t, K, p, a, i)
  BY EnterLooks
<1>2. /\ \A q \in Dirs(d), b \in Names :
            Lookup(t, q, b) = IF q = p /\ b = a THEN i ELSE Lookup(d, q, b)
      /\ \A j \in K \cup {i} : t.inode[j].kind = d.inode[j].kind
      /\ d.inode[i].kind = "dir" => \A b \in Names : Lookup(t, i, b) = None
  BY <1>1 DEF Looks
<1>3. /\ p \in K /\ d.inode[p].kind = "dir"
      /\ \A q \in Dirs(d), b \in Names : Lookup(d, q, b) \in K \cup {None}
  BY DEF Named, DirOk
<1>4. \A j \in (K \cup {i}) \ {p} : t.inode[j] = d.inode[j]
  BY DEF Entered
<1>5. \A j \in K \cup {i, None} : Shown(t, j) = Shown(d, j)
  <2>1. ASSUME NEW j \in K \cup {i, None} PROVE Shown(t, j) = Shown(d, j)
    <3>1. CASE j = None
      BY <3>1 DEF Shown
    <3>2. CASE j = p
      <4>1. t.inode[j].kind = "dir" /\ d.inode[j].kind = "dir"
        BY <1>2, <1>3, <3>2
      <4> QED
        BY <4>1 DEF Shown
    <3>3. CASE j # None /\ j # p
      <4>1. t.inode[j] = d.inode[j]
        BY <1>4, <3>3
      <4> QED
        BY <4>1 DEF Shown
    <3> QED
      BY <3>1, <3>2, <3>3
  <2> QED
    BY <2>1
<1>6. Lookup(t, p, a) = i
  BY <1>2
<1>7. OneName(d, t, p, a)
  <2>1. ASSUME NEW q \in Dirs(d), NEW b \in Names, q # p \/ b # a
        PROVE  Lookup(t, q, b) = Lookup(d, q, b) /\ Shown(t, Lookup(d, q, b)) = Shown(d, Lookup(d, q, b))
    <3>1. Lookup(t, q, b) = Lookup(d, q, b)
      BY <1>2, <2>1
    <3>2. Lookup(d, q, b) \in K \cup {i, None}
      BY <1>3
    <3> QED
      BY <1>5, <3>1, <3>2
  <2>2. Bare(d, Lookup(d, p, a)) /\ Bare(t, Lookup(t, p, a))
    BY <1>2, <1>6 DEF Bare
  <2> QED
    BY <2>1, <2>2 DEF OneName
<1>8. PICK path : PlaceOf(d, t, p, a, path)
  BY <1>7, PlaceExists
<1>9. Shown(t, Lookup(t, p, a)) = NS!Folder \/ Shown(t, Lookup(t, p, a)) = NS!File(0)
  BY <1>5, <1>6 DEF ShownNew
<1> QED
  BY <1>8, <1>9, MovesMake

\* The inode that was in hand, and the blocks, are kept from then on.
LEMMA Enter ==
  ASSUME NEW d, NEW t, NEW K, NEW B, NEW C, NEW i, NEW exact, NEW U, U = B \cup C,
         State(d, K, {i}, U, 0, exact), Fresh(d, i, B), B \cap C = {},
         NEW p \in Dirs(d), NEW a \in Names, Lookup(d, p, a) = None,
         d.inode[i].kind = "dir" => p = Root, Entered(d, t, K, C, p, a, i)
  PROVE  /\ State(t, K \cup {i}, {}, {}, 0 - LinkDue(d, i), exact) /\ Moves(d, t)
         /\ Dirs(d) \subseteq Dirs(t)
<1>1. /\ d \in Disks /\ Kept(d, K) /\ Bits(d, K, Owned(d, K), {i}, U, exact) /\ Named(d, K)
      /\ (exact => Book(d, K, 0))
  BY DEF State
<1>2. /\ K \in SUBSET Inodes /\ i \in Inodes /\ U \in SUBSET Blocks /\ Root \in Dirs(d)
      /\ Dirs(d) \subseteq K /\ p \in K /\ i \notin K /\ \A q \in Dirs(d) : DirOk(d, q)
  <2>1. {i} \in SUBSET Inodes /\ K \cap {i} = {}
    BY <1>1, KeptIn DEF Bits
  <2> QED
    BY <2>1, KeptIn
<1>3. /\ Owned(d, {i}) = B /\ Apart(d, i) /\ d.inode[i].kind \in {"file", "dir"}
      /\ d.inode[i].kind = "file" => d.inode[i].links = 1
      /\ d.inode[i].kind = "dir" => d.inode[i].links = 2 /\ DirOk(d, i) /\ EmptyDir(d, i)
      /\ Shown(d, i) = NS!Folder \/ Shown(d, i) = NS!File(0)
  BY <1>1, <1>2, FreshFacts
<1>4. Guest(d, K, p, i)
  BY <1>2, <1>3 DEF Guest
<1>5. Moves(d, t)
  <2>1. d \in Disks /\ K \in SUBSET Inodes /\ Named(d, K)
    BY <1>1, <1>2
  <2>2. ShownNew(d, i)
    BY <1>3 DEF ShownNew
  <2> QED
    BY <1>4, <2>1, <2>2, EnterMoves
<1>6. Dirs(t) = Dirs(d) \cup NewDirs(d, i) /\ Reach(t) = Reach(d) \cup {i}
  <2>1. d \in Disks /\ K \in SUBSET Inodes /\ Named(d, K)
    BY <1>1, <1>2
  <2>2. GrownBy(d, t, i)
    BY <1>4, <2>1, EnterDirs
  <2> QED
    BY <2>2 DEF GrownBy
<1>7. Named(t, K \cup {i})
  BY <1>1, <1>2, <1>4, NamedEnter
<1>8. \A j \in K \cup {i} : t.inode[j].kind = d.inode[j].kind /\ t.inode[j].links = d.inode[j].links
  BY DEF Entered
<1>9. /\ t \in Disks /\ t.iuse = d.iuse /\ t.buse = d.buse /\ t.mem = d.mem
      /\ \A j \in (K \cup {i}) \ {p} : SameBlocks(d, t, j)
      /\ Gains(d, t, p, C) /\ C \subseteq Owned(t, {p})
  BY DEF Entered
<1>10. Kept(t, K) /\ Owned(t, K) = Owned(d, K) \cup C
  <2>1. None \notin C /\ Owned(d, K) \cap C = {}
    BY <1>1, <1>2, NumberFacts DEF Bits
  <2>2. SameKinds(d, t, K)
    BY <1>8 DEF SameKinds
  <2>3. d.inode[Root].kind # "file"
    BY <1>2 DEF DirOk
  <2>4. \A j \in K \ {p} : SameBlocks(d, t, j)
    BY <1>9
  <2>5. Kept(t, K) /\ Owned(t, K) = Owned(d, K) \cup (C \cap Owned(t, {p}))
    BY <1>1, <1>2, <1>9, <2>1, <2>2, <2>3, <2>4, KeptGain
  <2> QED
    BY <1>9, <2>5
<1>11. Apart(t, i) /\ Owned(t, {i}) = B
  <2>1. \A x \in Places : OwnBlock(t, i, x) = OwnBlock(d, i, x)
    BY <1>2, <1>9 DEF SameBlocks
  <2>2. Owned(t, {i}) = Owned(d, {i})
    BY <2>1 DEF Owned
  <2> QED
    BY <1>3, <2>1, <2>2 DEF Apart
<1>12. Kept(t, K \cup {i}) /\ Owned(t, K \cup {i}) = (Owned(d, K) \cup C) \cup B
  <2>1. Owned(t, K) \cap Owned(t, {i}) = {}
    BY <1>1, <1>10, <1>11 DEF Bits
  <2>2. t.inode[i].kind # "none" /\ (t.inode[i].kind = "file" => t.inode[i].links = 1)
    BY <1>3, <1>8
  <2>3. Kept(t, K \cup {i}) /\ Owned(t, K \cup {i}) = Owned(t, K) \cup Owned(t, {i})
    BY <1>2, <1>10, <1>11, <2>1, <2>2, KeptAdopt
  <2> QED
    BY <1>10, <1>11, <2>3
<1>13. Bits(t, K \cup {i}, Owned(t, K \cup {i}), {}, {}, exact)
  <2>1. Owned(t, K \cup {i}) \cup {} = Owned(d, K) \cup U
    BY <1>12
  <2>2. (K \cup {i}) \cup {} = K \cup {i}
    OBVIOUS
  <2> QED
    BY <1>1, <1>9, <2>1, <2>2 DEF Bits
<1>14. ASSUME exact PROVE Book(t, K \cup {i}, 0 - LinkDue(d, i))
  <2>1. \A j \in K \cup {i} : j \in Reach(t) \/ (t.inode[j].kind = "dir" /\ t.inode[j].links = 1)
    BY <1>1, <1>6, <1>8, <1>14 DEF Book
  <2>2. Cardinality(Dirs(d)) \in Nat /\ IsFiniteSet(Dirs(d))
    BY <1>2, FewInodes, Dirs(d) \in SUBSET Inodes
  <2>3. t.inode[Root].links = 1 + Cardinality(Dirs(d)) + 0
    BY <1>1, <1>2, <1>8, <1>14 DEF Book
  <2>4. CASE d.inode[i].kind = "dir"
    <3>1. Dirs(t) = Dirs(d) \cup {i} /\ i \notin Dirs(d) /\ LinkDue(d, i) = 1
      BY <1>2, <1>6, <2>4 DEF NewDirs, LinkDue
    <3>2. Cardinality(Dirs(t)) = Cardinality(Dirs(d)) + 1
      <4>1. Cardinality(Dirs(d) \cup {i}) = Cardinality(Dirs(d)) + 1
        BY <2>2, <3>1, FS_AddElement
      <4> QED
        BY <3>1, <4>1
    <3>3. t.inode[Root].links = 1 + Cardinality(Dirs(t)) + (0 - LinkDue(d, i))
      BY <2>2, <2>3, <3>1, <3>2
    <3> QED
      BY <2>1, <3>3 DEF Book
  <2>5. CASE d.inode[i].kind # "dir"
    <3>1. Dirs(t) = Dirs(d) /\ LinkDue(d, i) = 0
      BY <1>6, <2>5 DEF NewDirs, LinkDue
    <3>2. t.inode[Root].links = 1 + Cardinality(Dirs(t)) + (0 - LinkDue(d, i))
      BY <2>2, <2>3, <3>1
    <3> QED
      BY <2>1, <3>2 DEF Book
  <2> QED
    BY <2>4, <2>5
<1>15. State(t, K \cup {i}, {}, {}, 0 - LinkDue(d, i), exact)
  BY <1>7, <1>9, <1>12, <1>13, <1>14 DEF State
<1> QED
  BY <1>5, <1>6, <1>15

----------------------------------------------------------------------------
(* Entries of directories.                                                  *)

\* Entry a of the k-th block of directory p.
EntAt(d, p, k, a) == d.block[OwnBlock(d, p, k)].ents[a]

\* t is d but for entry a of block b, which is v.
EntSet(d, t, b, a, v) ==
    /\ t.iuse = d.iuse /\ t.buse = d.buse /\ t.inode = d.inode /\ t.mem = d.mem
    /\ \A c \in Blocks : t.block[c].ptr = d.block[c].ptr /\ (c # b => t.block[c] = d.block[c])
    /\ t.block[b].ents[a] = v
    /\ \A e \in Names : e # a => t.block[b].ents[e] = d.block[b].ents[e]

\* An entry is written.
LEMMA EntWrite ==
  ASSUME NEW d \in Disks, NEW b \in Blocks, NEW a \in Names, NEW v \in Inodes \cup {None}, NEW t,
         t = [d EXCEPT !.block[b].ents[a] = v]
  PROVE  t \in Disks /\ EntSet(d, t, b, a, v)
<1> DEFINE f == [d.block[b].ents EXCEPT ![a] = v]
           c == [d.block[b] EXCEPT !.ents = f]
<1>1. d.block[b] \in DiskBlocks
  BY DiskFacts
<1>2. d.block[b].ents \in [Names -> Inodes \cup {None}]
  BY <1>1 DEF DiskBlocks
<1>3. f \in [Names -> Inodes \cup {None}] /\ f[a] = v
      /\ \A e \in Names : e # a => f[e] = d.block[b].ents[e]
  BY <1>2
<1>4. t = [d EXCEPT !.block[b] = c]
  OBVIOUS
<1> HIDE DEF f
<1>5. c \in DiskBlocks /\ c.ents = f /\ c.ptr = d.block[b].ptr
  BY <1>1, <1>3 DEF DiskBlocks
<1> HIDE DEF c
<1>6. t \in Disks /\ BlockSet(d, t, b, c)
  BY <1>4, <1>5, BlockWrite
<1> QED
  BY <1>3, <1>5, <1>6 DEF EntSet, BlockSet

\* The inodes have the blocks they had.
LEMMA EntBlocks ==
  ASSUME NEW d \in Disks, NEW t, NEW b, NEW a, NEW v, EntSet(d, t, b, a, v), NEW j \in Inodes
  PROVE  \A x \in Places : OwnBlock(t, j, x) = OwnBlock(d, j, x)
<1>1. OwnBlock(d, j, Indirect) \in Blocks \cup {None}
  BY OwnBlockType, PlaceFacts
<1>2. OwnBlock(d, j, Indirect) # None =>
         t.block[OwnBlock(d, j, Indirect)].ptr = d.block[OwnBlock(d, j, Indirect)].ptr
  BY <1>1 DEF EntSet
<1>3. t.inode[j].ptr = d.inode[j].ptr
  BY DEF EntSet
<1>4. ASSUME NEW s, s.inode[j].ptr = d.inode[j].ptr,
             OwnBlock(d, j, Indirect) # None =>
                s.block[OwnBlock(d, j, Indirect)].ptr = d.block[OwnBlock(d, j, Indirect)].ptr
      PROVE  \A x \in Places : OwnBlock(s, j, x) = OwnBlock(d, j, x)
  BY <1>4, SamePlaces
<1> QED
  BY <1>2, <1>3, <1>4

\* A directory of which this is no block stays as it is.
LEMMA EntSameDir ==
  ASSUME NEW d \in Disks, NEW t, NEW b, NEW a, NEW v, EntSet(d, t, b, a, v), NEW q \in Inodes,
         DirOk(d, q), \A k \in 1..d.inode[q].size : OwnBlock(d, q, k) # b
  PROVE  SameDir(d, t, q)
<1>1. \A k \in 1..d.inode[q].size : d.inode[q].ptr[k] \in Blocks /\ d.inode[q].ptr[k] # b
  BY DirFacts
<1>2. \A k \in 1..d.inode[q].size : t.block[d.inode[q].ptr[k]].ents = d.block[d.inode[q].ptr[k]].ents
  BY <1>1 DEF EntSet
<1>3. t.inode[q] = d.inode[q]
  BY DEF EntSet
<1> QED
  BY <1>2, <1>3 DEF SameDir

\* Where none of the blocks has it a name leads nowhere.
LEMMA LookupNowhere ==
  ASSUME NEW d \in Disks, NEW p \in Inodes, DirOk(d, p), NEW a \in Names
  PROVE  Lookup(d, p, a) = None <=> \A k \in 1..d.inode[p].size : EntAt(d, p, k, a) = None
<1>1. /\ Lookup(d, p, a) # None => \E k \in 1..d.inode[p].size : EntAt(d, p, k, a) = Lookup(d, p, a)
      /\ \A k \in 1..d.inode[p].size : EntAt(d, p, k, a) # None => EntAt(d, p, k, a) = Lookup(d, p, a)
  BY LookupFacts DEF EntAt
<1> QED
  BY <1>1

\* Where one has it, it leads there.
LEMMA LookupThere ==
  ASSUME NEW d \in Disks, NEW p \in Inodes, DirOk(d, p), NEW a \in Names,
         NEW k \in 1..d.inode[p].size, EntAt(d, p, k, a) # None
  PROVE  Lookup(d, p, a) = EntAt(d, p, k, a)
  BY LookupFacts DEF EntAt

\* A name that the old blocks have as before, and the new ones do not have, leads where it led.
LEMMA LookupBy ==
  ASSUME NEW d \in Disks, NEW t \in Disks, NEW p \in Inodes, DirOk(d, p), DirOk(t, p),
         NEW a \in Names, d.inode[p].size <= t.inode[p].size,
         \A k \in 1..t.inode[p].size :
            EntAt(t, p, k, a) = IF k \in 1..d.inode[p].size THEN EntAt(d, p, k, a) ELSE None
  PROVE  Lookup(t, p, a) = Lookup(d, p, a)
<1> DEFINE m == d.inode[p].size
           n == t.inode[p].size
<1>1. m \in Nat /\ n \in Nat /\ m <= n
  <2>1. m \in 1..NDirect /\ n \in 1..NDirect
    BY DEF DirOk
  <2> QED
    BY <2>1, PointersAssumption
<1>2. \A k \in 1..m : k \in 1..n
  BY <1>1
<1>3. CASE \A k \in 1..m : EntAt(d, p, k, a) = None
  <2>1. Lookup(d, p, a) = None
    BY <1>3, LookupNowhere
  <2>2. \A k \in 1..n : EntAt(t, p, k, a) = None
    BY <1>3
  <2>3. Lookup(t, p, a) = None
    BY <2>2, LookupNowhere
  <2> QED
    BY <2>1, <2>3
<1>4. CASE \E k \in 1..m : EntAt(d, p, k, a) # None
  <2>1. PICK k \in 1..m : EntAt(d, p, k, a) # None
    BY <1>4
  <2>2. Lookup(d, p, a) = EntAt(d, p, k, a)
    BY <2>1, LookupThere
  <2>3. k \in 1..n /\ EntAt(t, p, k, a) = EntAt(d, p, k, a)
    BY <1>2
  <2>4. Lookup(t, p, a) = EntAt(t, p, k, a)
    BY <2>1, <2>3, LookupThere
  <2> QED
    BY <2>2, <2>3, <2>4
<1> QED
  BY <1>3, <1>4

\* No two directories share a block.
LEMMA DirsApart ==
  ASSUME NEW d \in Disks, NEW K \in SUBSET Inodes, Kept(d, K), Named(d, K), NEW p \in Dirs(d)
  PROVE  /\ p \in K /\ DirOk(d, p)
         /\ \A k \in 1..d.inode[p].size :
               /\ k \in Places /\ OwnBlock(d, p, k) \in Blocks /\ OwnBlock(d, p, k) \in Owned(d, K)
               /\ d.inode[p].ptr[k] = OwnBlock(d, p, k)
         /\ \A q \in Dirs(d) : \A k \in 1..d.inode[p].size, h \in 1..d.inode[q].size :
               OwnBlock(d, q, h) = OwnBlock(d, p, k) => q = p /\ h = k
<1>1. Dirs(d) \subseteq K /\ \A q \in Dirs(d) : DirOk(d, q)
  BY DEF Named
<1>2. ASSUME NEW q \in Dirs(d), NEW k \in 1..d.inode[q].size
      PROVE  /\ k \in Places /\ OwnBlock(d, q, k) \in Blocks /\ OwnBlock(d, q, k) # None
             /\ d.inode[q].ptr[k] = OwnBlock(d, q, k) /\ OwnBlock(d, q, k) \in Owned(d, K)
  <2>1. q \in K /\ q \in Inodes /\ DirOk(d, q)
    BY <1>1
  <2>2. k \in Places /\ OwnBlock(d, q, k) \in Blocks /\ d.inode[q].ptr[k] = OwnBlock(d, q, k)
    BY <2>1, DirFacts
  <2>3. OwnBlock(d, q, k) # None
    BY <2>2, NumberFacts
  <2> QED
    BY <2>1, <2>2, <2>3 DEF Owned
<1>3. \A i, j \in K, x, y \in Places :
         OwnBlock(d, i, x) = OwnBlock(d, j, y) /\ OwnBlock(d, i, x) # None => i = j /\ x = y
  BY DEF Kept
<1>4. ASSUME NEW q \in Dirs(d), NEW k \in 1..d.inode[p].size, NEW h \in 1..d.inode[q].size,
             OwnBlock(d, q, h) = OwnBlock(d, p, k)
      PROVE  q = p /\ h = k
  <2>1. k \in Places /\ h \in Places /\ OwnBlock(d, q, h) # None /\ p \in K /\ q \in K
    BY <1>1, <1>2
  <2> QED
    BY <1>3, <1>4, <2>1
<1> QED
  BY <1>1, <1>2, <1>4

\* What it takes to give inode i the name a in directory p.
Ready(d, K, p, a, i) ==
    /\ d \in Disks /\ K \in SUBSET Inodes /\ Kept(d, K) /\ Named(d, K)
    /\ i \in Inodes /\ i \notin K /\ Owned(d, K) \cap Owned(d, {i}) = {}
    /\ d.inode[i].kind = "dir" => DirOk(d, i)
    /\ p \in Dirs(d) /\ a \in Names /\ Lookup(d, p, a) = None

\* The blocks of the inode are not those of a directory.
LEMMA GuestApart ==
  ASSUME NEW d, NEW K, NEW p, NEW a, NEW i, Ready(d, K, p, a, i), d.inode[i].kind = "dir",
         NEW b, b \in Owned(d, K)
  PROVE  \A k \in 1..d.inode[i].size : OwnBlock(d, i, k) # b
<1>1. d \in Disks /\ i \in Inodes /\ DirOk(d, i) /\ b \notin Owned(d, {i})
  BY DEF Ready
<1>2. \A k \in 1..d.inode[i].size : k \in Places /\ OwnBlock(d, i, k) \in Blocks
  BY <1>1, DirFacts
<1>3. \A k \in 1..d.inode[i].size : OwnBlock(d, i, k) \in Owned(d, {i})
  BY <1>2, NumberFacts DEF Owned
<1> QED
  BY <1>1, <1>3

\* In a block of the directory entry a, of which nothing was there, becomes v.
LEMMA EntDirOk ==
  ASSUME NEW d \in Disks, NEW t \in Disks, NEW p \in Inodes, DirOk(d, p), NEW a \in Names,
         NEW k \in 1..d.inode[p].size, NEW v,
         \A h \in 1..d.inode[p].size : h # k => EntAt(d, p, h, a) = None,
         \A h \in 1..d.inode[p].size : h # k => OwnBlock(d, p, h) # OwnBlock(d, p, k),
         EntSet(d, t, OwnBlock(d, p, k), a, v)
  PROVE  /\ DirOk(t, p) /\ t.inode[p] = d.inode[p]
         /\ \A h \in 1..d.inode[p].size, e \in Names :
               EntAt(t, p, h, e) = IF h = k /\ e = a THEN v ELSE EntAt(d, p, h, e)
<1> DEFINE n == d.inode[p]
           b == OwnBlock(d, p, k)
<1>1. /\ n.size \in 1..NDirect /\ n.kind = "dir"
      /\ \A h \in 1..n.size : h \in Places /\ n.ptr[h] = OwnBlock(d, p, h) /\ OwnBlock(d, p, h) \in Blocks
  BY DirFacts
<1>2. t.inode[p] = n
  BY DEF EntSet
<1>3. \A h \in 1..n.size : OwnBlock(t, p, h) = OwnBlock(d, p, h)
  BY <1>1, EntBlocks
<1>4. \A h \in 1..n.size, e \in Names :
         EntAt(t, p, h, e) = IF h = k /\ e = a THEN v ELSE EntAt(d, p, h, e)
  <2>1. ASSUME NEW h \in 1..n.size, NEW e \in Names
        PROVE  EntAt(t, p, h, e) = IF h = k /\ e = a THEN v ELSE EntAt(d, p, h, e)
    <3>1. CASE h = k
      BY <1>3, <3>1 DEF EntAt, EntSet
    <3>2. CASE h # k
      <4>1. t.block[OwnBlock(d, p, h)] = d.block[OwnBlock(d, p, h)]
        BY <1>1, <3>2 DEF EntSet
      <4> QED
        BY <1>3, <3>2, <4>1 DEF EntAt
    <3> QED
      BY <3>1, <3>2
  <2> QED
    BY <2>1
<1>5. \A g, h \in 1..n.size, e \in Names : EntAt(d, p, g, e) # None /\ EntAt(d, p, h, e) # None => g = h
  <2>1. \A g, h \in 1..n.size, e \in Names :
           d.block[n.ptr[g]].ents[e] # None /\ d.block[n.ptr[h]].ents[e] # None => g = h
    BY DEF DirOk
  <2>2. \A h \in 1..n.size, e \in Names : EntAt(d, p, h, e) = d.block[n.ptr[h]].ents[e]
    BY <1>1 DEF EntAt
  <2> HIDE DEF n
  <2> QED
    BY <2>1, <2>2
<1>6. \A g, h \in 1..n.size, e \in Names : EntAt(t, p, g, e) # None /\ EntAt(t, p, h, e) # None => g = h
  <2> HIDE DEF n
  <2>1. \A h \in 1..n.size : h # k => EntAt(d, p, h, a) = None
    BY DEF n
  <2>2. ASSUME NEW g \in 1..n.size, NEW h \in 1..n.size, NEW e \in Names,
               EntAt(t, p, g, e) # None, EntAt(t, p, h, e) # None
        PROVE  g = h
    <3>1. CASE e = a
      <4>1. \A j \in 1..n.size : j # k => EntAt(t, p, j, a) = None
        BY <1>4, <2>1
      <4> QED
        BY <2>2, <3>1, <4>1
    <3>2. CASE e # a
      <4>1. EntAt(d, p, g, e) # None /\ EntAt(d, p, h, e) # None
        BY <1>4, <2>2, <3>2
      <4> QED
        BY <1>5, <4>1
    <3> QED
      BY <3>1, <3>2
  <2> QED
    BY <2>2
<1>7. \A h \in 1..n.size, e \in Names : EntAt(t, p, h, e) = t.block[n.ptr[h]].ents[e]
  BY <1>1, <1>3 DEF EntAt
<1>8. DirOk(t, p)
  <2>1. /\ n.kind = "dir" /\ n.size \in 1..NDirect
        /\ \A h \in 1..(NDirect + 1) : n.ptr[h] # None <=> h <= n.size
    BY DEF DirOk
  <2> HIDE DEF n
  <2>2. \A g, h \in 1..n.size, e \in Names :
           t.block[n.ptr[g]].ents[e] # None /\ t.block[n.ptr[h]].ents[e] # None => g = h
    BY <1>6, <1>7
  <2> QED
    BY <1>2, <2>1, <2>2 DEF DirOk
<1> QED
  BY <1>2, <1>4, <1>8

\* Entry a leads to i, and the other names where they led.
AddsName(d, t, p, a, i) ==
    /\ DirOk(t, p) /\ t.inode[p] = d.inode[p]
    /\ \A e \in Names : Lookup(t, p, e) = IF e = a THEN i ELSE Lookup(d, p, e)
    /\ \A q \in Dirs(d) \ {p} : SameDir(d, t, q)

\* The name is written to a block that the directory has.
LEMMA NameWrite ==
  ASSUME NEW d \in Disks, NEW t \in Disks, NEW K \in SUBSET Inodes, Kept(d, K), Named(d, K),
         NEW p \in Dirs(d), NEW a \in Names, Lookup(d, p, a) = None, NEW i \in Inodes,
         NEW k \in 1..d.inode[p].size, EntSet(d, t, OwnBlock(d, p, k), a, i)
  PROVE  AddsName(d, t, p, a, i)
<1> DEFINE n == d.inode[p]
           b == OwnBlock(d, p, k)
<1>1. /\ p \in K /\ p \in Inodes /\ DirOk(d, p) /\ b \in Owned(d, K)
      /\ \A q \in Dirs(d) : \A h \in 1..d.inode[q].size : OwnBlock(d, q, h) = b => q = p /\ h = k
  BY DirsApart
<1>2. \A h \in 1..n.size : EntAt(d, p, h, a) = None
  BY <1>1, LookupNowhere
<1>3. /\ DirOk(t, p) /\ t.inode[p] = n
      /\ \A h \in 1..n.size, e \in Names :
            EntAt(t, p, h, e) = IF h = k /\ e = a THEN i ELSE EntAt(d, p, h, e)
  <2>1. \A h \in 1..n.size : h # k => OwnBlock(d, p, h) # OwnBlock(d, p, k)
    BY <1>1
  <2>2. \A h \in 1..n.size : h # k => EntAt(d, p, h, a) = None
    BY <1>2
  <2> QED
    BY <1>1, <2>1, <2>2, EntDirOk
<1> HIDE DEF n, b
<1>4. ASSUME NEW e \in Names PROVE Lookup(t, p, e) = IF e = a THEN i ELSE Lookup(d, p, e)
  <2>1. k \in 1..n.size /\ k \in 1..t.inode[p].size
    BY <1>3 DEF n
  <2>2. CASE e = a
    <3>1. EntAt(t, p, k, a) = i /\ i # None
      BY <1>3, <2>1, NumberFacts
    <3>2. Lookup(t, p, a) = i
      BY <1>1, <1>3, <2>1, <3>1, LookupThere
    <3> QED
      BY <2>2, <3>2
  <2>3. CASE e # a
    <3>1. \A h \in 1..t.inode[p].size :
             EntAt(t, p, h, e) = IF h \in 1..d.inode[p].size THEN EntAt(d, p, h, e) ELSE None
      BY <1>3, <2>3 DEF n
    <3>2. d.inode[p].size <= t.inode[p].size
      <4>1. n.size \in 1..NDirect /\ NDirect \in Nat
        BY <1>1, PointersAssumption DEF DirOk, n
      <4>2. n.size <= n.size
        BY <4>1
      <4> QED
        BY <1>3, <4>2 DEF n
    <3>3. Lookup(t, p, e) = Lookup(d, p, e)
      BY <1>1, <1>3, <3>1, <3>2, LookupBy
    <3> QED
      BY <2>3, <3>3
  <2> QED
    BY <2>2, <2>3
<1>5. ASSUME NEW q \in Dirs(d) \ {p} PROVE SameDir(d, t, q)
  <2>1. q \in Inodes /\ DirOk(d, q)
    BY DEF Named
  <2>2. \A h \in 1..d.inode[q].size : OwnBlock(d, q, h) # b
    BY <1>1
  <2> QED
    BY <2>1, <2>2, EntSameDir DEF b
<1> QED
  BY <1>3, <1>4, <1>5 DEF AddsName, n

\* The inode in hand has its name there.
LEMMA EnterOld ==
  ASSUME NEW d, NEW t \in Disks, NEW K, NEW p, NEW a, NEW i, Ready(d, K, p, a, i),
         NEW k \in 1..d.inode[p].size, EntSet(d, t, OwnBlock(d, p, k), a, i)
  PROVE  Entered(d, t, K, {}, p, a, i)
<1> DEFINE b == OwnBlock(d, p, k)
<1>1. /\ d \in Disks /\ K \in SUBSET Inodes /\ Kept(d, K) /\ Named(d, K) /\ i \in Inodes /\ i \notin K
      /\ p \in Dirs(d) /\ a \in Names /\ Lookup(d, p, a) = None
      /\ (d.inode[i].kind = "dir" => DirOk(d, i))
  BY DEF Ready
<1>2. p \in K /\ p \in Inodes /\ b \in Owned(d, K)
  BY <1>1, DirsApart
<1>3. /\ t.iuse = d.iuse /\ t.buse = d.buse /\ t.inode = d.inode /\ t.mem = d.mem
  BY DEF EntSet
<1>4. \A j \in Inodes : SameBlocks(d, t, j)
  BY <1>1, EntBlocks DEF SameBlocks
<1>5. Gains(d, t, p, {}) /\ {} \subseteq Owned(t, {p})
  <2>1. \A x, y \in Places : OwnBlock(d, p, x) = OwnBlock(d, p, y) /\ OwnBlock(d, p, x) # None => x = y
    BY <1>1, <1>2 DEF Kept
  <2> QED
    BY <1>2, <1>4, <2>1 DEF Gains, Apart, SameBlocks
<1>6. AddsName(d, t, p, a, i)
  BY <1>1, NameWrite
<1> HIDE DEF b
<1>7. ASSUME d.inode[i].kind = "dir" PROVE SameDir(d, t, i)
  <2>1. \A h \in 1..d.inode[i].size : OwnBlock(d, i, h) # b
    BY <1>2, <1>7, GuestApart
  <2> QED
    BY <1>1, <1>7, <2>1, EntSameDir DEF b
<1>8. \A j \in (K \cup {i}) \ {p} : t.inode[j] = d.inode[j] /\ SameBlocks(d, t, j)
  BY <1>1, <1>3, <1>4
<1> QED
  BY <1>3, <1>5, <1>6, <1>7, <1>8 DEF Entered, AddsName

\* m is n with block b as its k-th and last.
GrownTo(n, m, k, b) ==
    /\ m \in DiskInodes /\ m.kind = n.kind /\ m.links = n.links /\ m.size = k /\ m.ptr[k] = b
    /\ \A h \in 1..(NDirect + 1) : h # k => m.ptr[h] = n.ptr[h]

\* n gets block b as its k-th.
LEMMA GrownDir ==
  ASSUME NEW n \in DiskInodes, NEW k \in 1..NDirect, NEW b \in Blocks, NEW m,
         m = [n EXCEPT !.ptr[k] = b, !.size = k]
  PROVE  GrownTo(n, m, k, b)
<1> DEFINE q == [n.ptr EXCEPT ![k] = b]
<1>1. n.ptr \in [1..(NDirect + 1) -> Blocks \cup {None}] /\ k \in 1..(NDirect + 1) /\ k \in 0..FileBlocks
  BY PointersAssumption DEF DiskInodes, FileBlocks
<1>2. q \in [1..(NDirect + 1) -> Blocks \cup {None}] /\ q[k] = b
      /\ \A h \in 1..(NDirect + 1) : h # k => q[h] = n.ptr[h]
  BY <1>1
<1>3. m = [n EXCEPT !.ptr = q, !.size = k]
  OBVIOUS
<1> HIDE DEF q
<1>4. m \in DiskInodes /\ m.kind = n.kind /\ m.links = n.links /\ m.size = k /\ m.ptr = q
  BY <1>1, <1>2, <1>3 DEF DiskInodes
<1> QED
  BY <1>2, <1>4 DEF GrownTo

\* What makes a directory of an inode.
LEMMA DirOkBy ==
  ASSUME NEW t, NEW p, NEW k \in 1..NDirect, t.inode[p].kind = "dir", t.inode[p].size = k,
         \A h \in 1..(NDirect + 1) : t.inode[p].ptr[h] # None <=> h <= k,
         \A g, h \in 1..k, e \in Names : EntAt(t, p, g, e) # None /\ EntAt(t, p, h, e) # None => g = h
  PROVE  DirOk(t, p)
<1> DEFINE n == t.inode[p]
<1>1. \A h \in 1..k : h \in 1..NDirect
  BY PointersAssumption
<1>2. \A h \in 1..k : OwnBlock(t, p, h) = n.ptr[h]
  BY <1>1, OwnDirect
<1>3. \A h \in 1..k, e \in Names : EntAt(t, p, h, e) = t.block[n.ptr[h]].ents[e]
  BY <1>2 DEF EntAt
<1>4. \A g, h \in 1..k, e \in Names :
         t.block[n.ptr[g]].ents[e] # None /\ t.block[n.ptr[h]].ents[e] # None => g = h
  <2> HIDE DEF n
  <2> QED
    BY <1>3
<1> QED
  BY <1>4 DEF DirOk

\* Directory p gets block b, that has the name.
LEMMA EnterNew ==
  ASSUME NEW d, NEW t \in Disks, NEW K, NEW p, NEW a, NEW i, Ready(d, K, p, a, i),
         NEW b \in Blocks, b \notin Owned(d, K),
         \A e \in Names : d.block[b].ents[e] = IF e = a THEN i ELSE None,
         NEW k \in 1..NDirect, k = d.inode[p].size + 1,
         NEW m, m = [d.inode[p] EXCEPT !.ptr[k] = b, !.size = k], InodeSet(d, t, p, m)
  PROVE  Entered(d, t, K, {b}, p, a, i)
<1> DEFINE n == d.inode[p]
<1>1. /\ d \in Disks /\ K \in SUBSET Inodes /\ Kept(d, K) /\ Named(d, K) /\ i \in Inodes /\ i \notin K
      /\ p \in Dirs(d) /\ a \in Names /\ Lookup(d, p, a) = None
      /\ (d.inode[i].kind = "dir" => DirOk(d, i)) /\ i # None
  BY NumberFacts DEF Ready
<1>2. /\ p \in K /\ p \in Inodes /\ DirOk(d, p) /\ n \in DiskInodes /\ n.size \in 1..NDirect
      /\ n.kind = "dir" /\ \A h \in 1..(NDirect + 1) : n.ptr[h] # None <=> h <= n.size
  <2>1. p \in K /\ DirOk(d, p)
    BY <1>1, DirsApart
  <2>2. p \in Inodes
    BY <1>1, <2>1
  <2>3. n \in DiskInodes
    BY <1>1, <2>2, DiskFacts
  <2>4. n.size \in 1..NDirect /\ n.kind = "dir" /\ \A h \in 1..(NDirect + 1) : n.ptr[h] # None <=> h <= n.size
    BY <2>1 DEF DirOk
  <2> QED
    BY <2>1, <2>2, <2>3, <2>4
<1>3. /\ m \in DiskInodes /\ m.kind = n.kind /\ m.links = n.links /\ m.size = k /\ m.ptr[k] = b
      /\ \A h \in 1..(NDirect + 1) : h # k => m.ptr[h] = n.ptr[h]
  <2>1. m = [n EXCEPT !.ptr[k] = b, !.size = k]
    OBVIOUS
  <2>2. n \in DiskInodes
    BY <1>2
  <2> HIDE DEF n
  <2>3. GrownTo(n, m, k, b)
    BY <2>1, <2>2, GrownDir
  <2> QED
    BY <2>3 DEF GrownTo
<1>4. /\ t.iuse = d.iuse /\ t.buse = d.buse /\ t.block = d.block /\ t.mem = d.mem
      /\ t.inode[p] = m /\ \A j \in Inodes : j # p => t.inode[j] = d.inode[j]
  BY DEF InodeSet
<1>5. k = n.size + 1 /\ n = d.inode[p]
  OBVIOUS
<1> HIDE DEF n
<1>6. /\ k \in Places /\ k # NDirect + 1 /\ NDirect + 1 \in 1..(NDirect + 1)
      /\ n.ptr[NDirect + 1] = None /\ n.ptr[k] = None /\ b # None
      /\ \A h \in 1..k : h \in 1..NDirect /\ h \in 1..(NDirect + 1)
      /\ \A h \in 1..k : h # k => h \in 1..n.size
      /\ \A h \in 1..n.size : h \in 1..k /\ h # k
      /\ n.size <= k
  <2>1. NDirect \in Nat /\ n.size \in Nat /\ n.size >= 1 /\ k \in Nat /\ k <= NDirect
    BY <1>2, PointersAssumption
  <2>2. k \in 1..(NDirect + 1) /\ ~(k <= n.size) /\ ~(NDirect + 1 <= n.size) /\ k # NDirect + 1
    BY <1>5, <2>1
  <2>3. k \in Places /\ NDirect + 1 \in 1..(NDirect + 1) /\ b # None
    BY PlaceFacts, NumberFacts
  <2>4. n.ptr[NDirect + 1] = None /\ n.ptr[k] = None
    BY <1>2, <2>2, <2>3
  <2>5. \A h \in 1..k : h \in 1..NDirect /\ h \in 1..(NDirect + 1)
    BY <2>1
  <2>6. \A h \in 1..k : h # k => h \in 1..n.size
    BY <1>5, <2>1
  <2>7. \A h \in 1..n.size : h \in 1..k /\ h # k
    BY <1>5, <2>1
  <2>8. n.size <= k
    BY <1>5, <2>1
  <2> QED
    BY <2>2, <2>3, <2>4, <2>5, <2>6, <2>7, <2>8
<1>7. ASSUME NEW x \in Places PROVE OwnBlock(t, p, x) = IF x = k THEN b ELSE OwnBlock(d, p, x)
  <2>1. x \in 1..NDirect \/ x > NDirect
    BY PlaceFacts
  <2>2. CASE x \in 1..NDirect
    <3>0. OwnBlock(t, p, x) = t.inode[p].ptr[x]
      BY <2>2, OwnDirect
    <3>1. OwnBlock(t, p, x) = m.ptr[x]
      BY <1>4, <3>0
    <3>2. OwnBlock(d, p, x) = n.ptr[x]
      BY <1>5, <2>2, OwnDirect
    <3>3. x \in 1..(NDirect + 1)
      BY <2>2, PlaceFacts
    <3> QED
      BY <1>3, <3>1, <3>2, <3>3
  <2>3. CASE x > NDirect
    <3>1. x # k
      BY <2>3, PointersAssumption
    <3>2. t.inode[p].ptr[NDirect + 1] = None /\ d.inode[p].ptr[NDirect + 1] = None
      BY <1>3, <1>4, <1>5, <1>6
    <3>3. OwnBlock(t, p, x) = None
      BY <2>3, <3>2, OwnBlockCases
    <3>4. OwnBlock(d, p, x) = None
      BY <2>3, <3>2, OwnBlockCases
    <3> QED
      BY <3>1, <3>3, <3>4
  <2> QED
    BY <2>1, <2>2, <2>3
<1>8. OwnBlock(d, p, k) = None
  <2>1. OwnBlock(d, p, k) = d.inode[p].ptr[k]
    BY OwnDirect
  <2> QED
    BY <1>5, <1>6, <2>1
<1>9. Gains(d, t, p, {b}) /\ {b} \subseteq Owned(t, {p})
  <2>1. \A x, y \in Places : OwnBlock(d, p, x) = OwnBlock(d, p, y) /\ OwnBlock(d, p, x) # None => x = y
    BY <1>1, <1>2 DEF Kept
  <2>2. \A x \in Places : OwnBlock(d, p, x) # b
    BY <1>2, <1>6 DEF Owned
  <2>3. Apart(t, p)
    BY <1>7, <2>1, <2>2 DEF Apart
  <2>4. {b} \subseteq Owned(t, {p})
    BY <1>6, <1>7 DEF Owned
  <2> QED
    BY <1>7, <1>8, <2>3, <2>4 DEF Gains
<1>10. ASSUME NEW j \in (K \cup {i}) \ {p} PROVE t.inode[j] = d.inode[j] /\ SameBlocks(d, t, j)
  <2>1. t.inode[j] = d.inode[j]
    BY <1>1, <1>4
  <2>2. \A x \in Places : OwnBlock(t, j, x) = OwnBlock(d, j, x)
    BY <1>4, <2>1, SamePlaces
  <2> QED
    BY <2>1, <2>2 DEF SameBlocks
<1>11. \A h \in 1..k, e \in Names :
          EntAt(t, p, h, e) = IF h = k THEN (IF e = a THEN i ELSE None) ELSE EntAt(d, p, h, e)
  <2>1. ASSUME NEW h \in 1..k, NEW e \in Names
        PROVE  EntAt(t, p, h, e) = IF h = k THEN (IF e = a THEN i ELSE None) ELSE EntAt(d, p, h, e)
    <3>1. h \in Places
      BY <1>6, PlaceFacts
    <3>2. OwnBlock(t, p, h) = IF h = k THEN b ELSE OwnBlock(d, p, h)
      BY <1>7, <3>1
    <3> QED
      BY <1>4, <3>2 DEF EntAt
  <2> QED
    BY <2>1
<1>12. \A h \in 1..n.size : EntAt(d, p, h, a) = None
  <2>1. \A h \in 1..d.inode[p].size : EntAt(d, p, h, a) = None
    BY <1>1, <1>2, LookupNowhere
  <2> QED
    BY <1>5, <2>1
<1>13. \A g, h \in 1..n.size, e \in Names : EntAt(d, p, g, e) # None /\ EntAt(d, p, h, e) # None => g = h
  <2>1. \A g, h \in 1..n.size, e \in Names :
           d.block[n.ptr[g]].ents[e] # None /\ d.block[n.ptr[h]].ents[e] # None => g = h
    BY <1>2 DEF DirOk, n
  <2>2. \A h \in 1..n.size : n.ptr[h] = OwnBlock(d, p, h)
    BY <1>1, <1>5, DirsApart
  <2>3. \A h \in 1..n.size, e \in Names : EntAt(d, p, h, e) = d.block[n.ptr[h]].ents[e]
    BY <2>2 DEF EntAt
  <2> HIDE DEF n
  <2> TAKE g, h \in 1..n.size, e \in Names
  <2>4. EntAt(d, p, g, e) = d.block[n.ptr[g]].ents[e]
    BY <2>3
  <2>5. EntAt(d, p, h, e) = d.block[n.ptr[h]].ents[e]
    BY <2>3
  <2> QED
    BY <2>1, <2>4, <2>5
<1>14. \A g, h \in 1..k, e \in Names : EntAt(t, p, g, e) # None /\ EntAt(t, p, h, e) # None => g = h
  <2>1. ASSUME NEW g \in 1..k, NEW h \in 1..k, NEW e \in Names,
               EntAt(t, p, g, e) # None, EntAt(t, p, h, e) # None
        PROVE  g = h
    <3>1. CASE e = a
      <4>1. \A j \in 1..k : j # k => EntAt(t, p, j, a) = None
        BY <1>1, <1>6, <1>11, <1>12
      <4> QED
        BY <2>1, <3>1, <4>1
    <3>2. CASE e # a
      <4>1. g # k /\ h # k
        BY <1>11, <2>1, <3>2
      <4>2. EntAt(d, p, g, e) # None /\ EntAt(d, p, h, e) # None /\ g \in 1..n.size /\ h \in 1..n.size
        BY <1>6, <1>11, <2>1, <4>1
      <4> QED
        BY <1>13, <4>2
    <3> QED
      BY <3>1, <3>2
  <2> QED
    BY <2>1
<1>15. DirOk(t, p)
  <2>1. ASSUME NEW h \in 1..(NDirect + 1) PROVE m.ptr[h] # None <=> h <= k
    <3>1. CASE h = k
      <4>1. k <= k
        BY PointersAssumption
      <4> QED
        BY <1>3, <1>6, <3>1, <4>1
    <3>2. CASE h # k
      <4>1. h <= n.size <=> h <= k
        <5>1. h \in Nat /\ n.size \in Nat
          BY <1>2, PointersAssumption
        <5> QED
          BY <1>5, <3>2, <5>1
      <4>2. m.ptr[h] = n.ptr[h]
        BY <1>3, <3>2
      <4>3. n.ptr[h] # None <=> h <= n.size
        BY <1>2
      <4> QED
        BY <4>1, <4>2, <4>3
    <3> QED
      BY <3>1, <3>2
  <2>2. t.inode[p].kind = "dir" /\ t.inode[p].size = k
        /\ \A h \in 1..(NDirect + 1) : t.inode[p].ptr[h] # None <=> h <= k
    BY <1>2, <1>3, <1>4, <2>1
  <2> QED
    BY <1>14, <2>2, DirOkBy
<1>16. ASSUME NEW e \in Names PROVE Lookup(t, p, e) = IF e = a THEN i ELSE Lookup(d, p, e)
  <2>1. t.inode[p].size = k /\ k \in 1..k
    BY <1>3, <1>4
  <2>2. CASE e = a
    <3>1. EntAt(t, p, k, a) = i
      BY <1>1, <1>11, <2>1
    <3>2. k \in 1..t.inode[p].size
      BY <2>1
    <3>3. Lookup(t, p, a) = i
      BY <1>1, <1>2, <1>15, <3>1, <3>2, LookupThere
    <3> QED
      BY <2>2, <3>3
  <2>3. CASE e # a
    <3>1. \A h \in 1..t.inode[p].size :
             EntAt(t, p, h, e) = IF h \in 1..d.inode[p].size THEN EntAt(d, p, h, e) ELSE None
      BY <1>5, <1>6, <1>11, <2>1, <2>3
    <3>2. d.inode[p].size <= t.inode[p].size
      BY <1>5, <1>6, <2>1
    <3>3. Lookup(t, p, e) = Lookup(d, p, e)
      BY <1>1, <1>2, <1>15, <3>1, <3>2, LookupBy
    <3> QED
      BY <2>3, <3>3
  <2> QED
    BY <2>2, <2>3
<1>17. ASSUME NEW q \in Inodes, q # p PROVE SameDir(d, t, q)
  BY <1>4, <1>17 DEF SameDir
<1>18. \A q \in Dirs(d) \ {p} : SameDir(d, t, q)
  BY <1>1, <1>17 DEF Named
<1>19. d.inode[i].kind = "dir" => SameDir(d, t, i)
  BY <1>1, <1>2, <1>17
<1> QED
  BY <1>3, <1>4, <1>5, <1>9, <1>10, <1>15, <1>16, <1>18, <1>19 DEF Entered

----------------------------------------------------------------------------
(* add_dirent_to_parent.                                                    *)

\* The new entry goes into one of the blocks of the directory or into the next one.
LEMMA EntryBlockIs ==
  ASSUME NEW d \in Disks, NEW p \in Inodes, DirOk(d, p), NEW k, k = EntryBlock(d, p)
  PROVE  k \in Nat /\ (k \in 1..d.inode[p].size \/ k = d.inode[p].size + 1)
<1> DEFINE n == d.inode[p]
           S == {h \in 1..n.size : HasRoom(d, n.ptr[h])} \cup {n.size + 1}
<1>1. n.size \in Nat
  BY DirSize
<1>2. k = Min(S)
  BY DEF EntryBlock
<1> HIDE DEF n
<1>3. S \in SUBSET Nat /\ S # {}
  BY <1>1
<1> HIDE DEF S
<1>4. Min(S) \in S
  BY <1>3, MinIs
<1>5. k \in S
  BY <1>2, <1>4
<1> QED
  BY <1>3, <1>5 DEF S, n

\* What leads where after a write that no path notices.
LEMMA CalmNames ==
  ASSUME NEW d, NEW t, NEW K, Calm(d, t, K)
  PROVE  Dirs(t) = Dirs(d) /\ \A p \in Dirs(d), a \in Names : Lookup(t, p, a) = Lookup(d, p, a)
  BY DEF Calm, SameNames

\* The blocks of one of its inodes are the same.
LEMMA CalmOwned ==
  ASSUME NEW d, NEW t, NEW K, Calm(d, t, K), NEW i \in K
  PROVE  Owned(t, {i}) = Owned(d, {i})
<1>1. \A x \in Places : OwnBlock(t, i, x) = OwnBlock(d, i, x)
  BY DEF Calm
<1> QED
  BY <1>1 DEF Owned

\* The inode is written as it is.
LEMMA WriteSame ==
  ASSUME NEW log, NEW K, NEW I, NEW B, NEW extra, NEW exact, Now(log, K, I, B, extra, exact),
         NEW p \in Inodes, NEW n, n = Last(log).inode[p]
  PROVE  Now(WriteInode(log, p, n), K, I, B, extra, exact)
<1> DEFINE t == Last(log)
           u == [t EXCEPT !.inode[p] = n]
<1>1. t \in Disks /\ Bits(t, K, Owned(t, K), I, B, exact)
  BY NowFacts
<1>2. n = t.inode[p]
  OBVIOUS
<1>3. WriteInode(log, p, n) = Wrote(log, u)
  BY DEF WriteInode
<1> HIDE DEF t
<1>4. n \in DiskInodes
  BY <1>1, <1>2, DiskFacts
<1>5. u = [t EXCEPT !.inode[p] = n]
  OBVIOUS
<1> HIDE DEF u
<1>6. u \in Disks /\ InodeSet(t, u, p, n)
  BY <1>1, <1>4, <1>5, InodeWrite
<1>7. u.inode = t.inode
  <2>1. u.inode \in [Inodes -> DiskInodes] /\ t.inode \in [Inodes -> DiskInodes]
    BY <1>1, <1>6, DiskFacts
  <2>2. \A j \in Inodes : u.inode[j] = t.inode[j]
    BY <1>2, <1>6 DEF InodeSet
  <2> QED
    BY <2>1, <2>2
<1>8. SameData(t, u)
  BY <1>6, <1>7 DEF SameData, InodeSet
<1>9. Bits(u, K, Owned(t, K), I, B, exact)
  BY <1>1, <1>6 DEF Bits, InodeSet
<1>10. Now(Wrote(log, u), K, I, B, extra, exact)
  BY <1>6, <1>8, <1>9, DataWrite DEF t
<1> QED
  BY <1>3, <1>10

\* In got inode i has got a name, and the root lacks the link it is due.
AddedTo(log, got, K, i, exact) == Now(got, K \cup {i}, {}, {}, 0 - LinkDue(Last(log), i), exact)

\* A new inode can be given a name.
LEMMA ReadyFrom ==
  ASSUME NEW d, NEW K, NEW i, NEW U, NEW exact, State(d, K, {i}, U, 0, exact),
         NEW B \in SUBSET U, Fresh(d, i, B),
         NEW p \in Dirs(d), NEW a \in Names, Lookup(d, p, a) = None
  PROVE  Ready(d, K, p, a, i) /\ p \in Inodes /\ DirOk(d, p)
<1>1. d \in Disks /\ Kept(d, K) /\ Named(d, K) /\ Bits(d, K, Owned(d, K), {i}, U, exact)
  BY DEF State
<1>2. K \in SUBSET Inodes /\ {i} \in SUBSET Inodes /\ Dirs(d) \subseteq K
  BY KeptIn
<1>3. i \in Inodes /\ i \notin K /\ Owned(d, K) \cap U = {}
  BY <1>1, <1>2 DEF Bits
<1>4. Owned(d, {i}) = B /\ (d.inode[i].kind = "dir" => DirOk(d, i))
  BY <1>1, <1>3, FreshFacts
<1>5. DirOk(d, p) /\ p \in Inodes
  BY <1>1, <1>2 DEF Named
<1> QED
  BY <1>1, <1>2, <1>3, <1>4, <1>5 DEF Ready

\* One of the blocks has room.
LEMMA AddDirentOld ==
  ASSUME NEW log, NEW K, NEW i, NEW B, NEW exact, Now(log, K, {i}, B, 0, exact),
         NEW d, d = Last(log), Fresh(d, i, B), NEW p \in Dirs(d), NEW a \in Names,
         Lookup(d, p, a) = None, d.inode[i].kind = "dir" => p = Root,
         NEW k \in 1..d.inode[p].size, k = EntryBlock(d, p)
  PROVE  AddedTo(log, AddDirent(log, p, a, i), K, i, exact)
<1> DEFINE n == d.inode[p]
           b == OwnBlock(d, p, k)
           t == [d EXCEPT !.block[b].ents[a] = i]
<1>1. State(d, K, {i}, B, 0, exact) /\ d \in Disks /\ LogOK(log) /\ i \in Inodes
  <2>1. State(d, K, {i}, B, 0, exact) /\ LogOK(log)
    BY DEF Now
  <2>2. {i} \in SUBSET Inodes /\ d \in Disks
    BY <2>1, KeptIn
  <2> QED
    BY <2>1, <2>2
<1>2. Ready(d, K, p, a, i) /\ p \in Inodes /\ DirOk(d, p)
  BY <1>1, ReadyFrom
<1>3. b \in Blocks /\ n.ptr[k] = b /\ k <= n.size
  <2>1. b \in Blocks /\ n.ptr[k] = b
    BY <1>1, <1>2, DirFacts
  <2>2. n.size \in Nat
    BY <1>2, DirSize
  <2> QED
    BY <2>1, <2>2
<1>4. AddDirent(log, p, a, i) = WriteInode(Wrote(log, t), p, n)
  BY <1>3 DEF AddDirent
<1>5. t = [d EXCEPT !.block[b].ents[a] = i] /\ n = d.inode[p] /\ b = OwnBlock(d, p, k)
  OBVIOUS
<1> HIDE DEF t, b, n
<1>6. t \in Disks /\ EntSet(d, t, b, a, i)
  BY <1>1, <1>3, <1>5, EntWrite
<1>7. Entered(d, t, K, {}, p, a, i)
  BY <1>2, <1>5, <1>6, EnterOld
<1>8. State(t, K \cup {i}, {}, {}, 0 - LinkDue(d, i), exact) /\ Moves(d, t)
  <2>1. B = B \cup {} /\ B \cap {} = {}
    OBVIOUS
  <2> QED
    BY <1>1, <1>7, <2>1, Enter
<1>9. Now(Wrote(log, t), K \cup {i}, {}, {}, 0 - LinkDue(d, i), exact) /\ Last(Wrote(log, t)) = t
  BY <1>1, <1>8, Writes
<1>10. n = Last(Wrote(log, t)).inode[p]
  <2>1. t.inode = d.inode
    BY <1>6 DEF EntSet
  <2> QED
    BY <1>5, <1>9, <2>1
<1>11. Now(WriteInode(Wrote(log, t), p, n), K \cup {i}, {}, {}, 0 - LinkDue(d, i), exact)
  BY <1>2, <1>9, <1>10, WriteSame
<1> QED
  BY <1>4, <1>11 DEF AddedTo

\* u holds the entry in block b, that is still in hand.
InBlock(s, u, K, i, B, b, p, a) ==
    /\ u \in Disks /\ Fresh(u, i, B) /\ u.inode = s.inode /\ p \in Dirs(u) /\ Lookup(u, p, a) = None
    /\ b \notin Owned(u, K) /\ \A e \in Names : u.block[b].ents[e] = IF e = a THEN i ELSE None

\* The entry has been written to block b, that is blank and in hand.
ForBlock(s, u, i, B, U, b, p, a) ==
    /\ b \in Blocks /\ b \in U /\ b \notin B /\ Fresh(s, i, B) /\ s.block[b] = Blank
    /\ p \in Dirs(s) /\ a \in Names /\ Lookup(s, p, a) = None
    /\ u \in Disks /\ EntSet(s, u, b, a, i)

\* A new block takes the entry before it becomes one of the directory.
LEMMA AddDirentBlock ==
  ASSUME NEW got, NEW K, NEW i, NEW B, NEW exact, NEW b, NEW U, NEW s, s = Last(got),
         Now(got, K, {i}, U, 0, exact), NEW p, NEW a, NEW u, ForBlock(s, u, i, B, U, b, p, a)
  PROVE  /\ Now(Wrote(got, u), K, {i}, U, 0, exact) /\ Last(Wrote(got, u)) = u
         /\ InBlock(s, u, K, i, B, b, p, a)
<1> USE DEF ForBlock
<1>1. s \in Disks /\ Bits(s, K, Owned(s, K), {i}, U, exact) /\ i \in Inodes
  <2>1. s \in Disks /\ Bits(s, K, Owned(s, K), {i}, U, exact) /\ {i} \in SUBSET Inodes
    BY NowFacts
  <2> QED
    BY <2>1
<1>2. b \notin Owned(s, K)
  BY <1>1 DEF Bits
<1>3. u \in Disks /\ EntSet(s, u, b, a, i)
  OBVIOUS
<1>4. /\ u.iuse = s.iuse /\ u.buse = s.buse /\ u.inode = s.inode /\ u.mem = s.mem
      /\ \A c \in Blocks : c # b => u.block[c] = s.block[c]
  BY <1>3 DEF EntSet
<1>5. \A e \in Names : u.block[b].ents[e] = IF e = a THEN i ELSE None
  BY <1>3, BlankIs DEF EntSet
<1>6. Owned(s, K) \subseteq Blocks
  BY <1>1, DiskFacts DEF Bits
<1>7. Alike(s, u, K)
  BY <1>2, <1>4, <1>6 DEF Alike
<1>8. Bits(u, K, Owned(s, K), {i}, U, exact)
  BY <1>1, <1>4 DEF Bits
<1>9. exact => u.inode[Root].links = 1 + Cardinality(Dirs(Last(got))) + 0
  <2>1. u.inode[Root].links = Last(got).inode[Root].links
    BY <1>4
  <2>2. exact => Last(got).inode[Root].links = 1 + Cardinality(Dirs(Last(got))) + 0
    BY DEF Now, State, Book
  <2> QED
    BY <2>1, <2>2
<1>10. Now(Wrote(got, u), K, {i}, U, 0, exact) /\ Last(Wrote(got, u)) = u /\ Calm(s, u, K)
  <2>1. Alike(Last(got), u, K) /\ Bits(u, K, Owned(Last(got), K), {i}, U, exact) /\ u \in Disks
    BY <1>3, <1>7, <1>8
  <2>2. Now(Wrote(got, u), K, {i}, U, 0, exact) /\ Last(Wrote(got, u)) = u /\ Calm(Last(got), u, K)
    BY <1>9, <2>1, QuietWrite
  <2> QED
    BY <2>2
<1>11. p \in Dirs(u) /\ Lookup(u, p, a) = None
  BY <1>10, CalmNames
<1>12. b \notin Owned(u, K)
  BY <1>2, <1>10 DEF Calm
<1>13. Fresh(u, i, B)
  <2>1. CASE B = {} /\ s.inode[i] = NewFile
    BY <1>4, <2>1 DEF Fresh
  <2>2. CASE \E c \in Blocks : B = {c} /\ s.inode[i] = NewDir(c) /\ s.block[c] = Blank
    <3>1. PICK c \in Blocks : B = {c} /\ s.inode[i] = NewDir(c) /\ s.block[c] = Blank
      BY <2>2
    <3>2. u.block[c] = Blank
      BY <1>4, <3>1
    <3> QED
      BY <1>4, <3>1, <3>2 DEF Fresh
  <2> QED
    BY <2>1, <2>2 DEF Fresh
<1> QED
  BY <1>3, <1>4, <1>5, <1>10, <1>11, <1>12, <1>13 DEF InBlock

\* All blocks are full, and there is another one.
LEMMA AddDirentNew ==
  ASSUME NEW log, NEW K, NEW i, NEW B, NEW exact, Now(log, K, {i}, B, 0, exact),
         NEW d, d = Last(log), Fresh(d, i, B), NEW p \in Dirs(d), NEW a \in Names,
         Lookup(d, p, a) = None, d.inode[i].kind = "dir" => p = Root,
         NEW k \in 1..NDirect, k = d.inode[p].size + 1, k = EntryBlock(d, p),
         NEW b, b = NextBlock(log), b # None
  PROVE  AddedTo(log, AddDirent(log, p, a, i), K, i, exact)
<1> DEFINE n == d.inode[p]
           got == AllocBlock(log)
           s == Last(got)
           u == [s EXCEPT !.block[b].ents[a] = i]
           mid == Wrote(got, u)
           m == [n EXCEPT !.ptr[k] = b, !.size = k]
           v == [u EXCEPT !.inode[p] = m]
           U == B \cup {b}
<1>1. State(d, K, {i}, B, 0, exact) /\ d \in Disks /\ B \subseteq d.buse /\ i \in Inodes
  <2>1. State(d, K, {i}, B, 0, exact)
    BY DEF Now
  <2>2. d \in Disks /\ B \subseteq d.buse /\ {i} \in SUBSET Inodes
    BY <2>1, KeptIn
  <2> QED
    BY <2>1, <2>2
<1>2. p \in Inodes /\ DirOk(d, p)
  BY <1>1, ReadyFrom
<1>3. n.size \in Nat
  BY <1>2, DirSize
<1>4. AddDirent(log, p, a, i) = WriteInode(mid, p, m)
  <2>1. ~(k <= n.size)
    BY <1>3
  <2> QED
    BY <2>1 DEF AddDirent
<1>5. Now(got, K, {i}, U, 0, exact) /\ Got(d, s, b) /\ Calm(d, s, K)
  BY AllocBlockStep
<1>6. /\ b \in Blocks /\ b \notin B /\ s.block[b] = Blank /\ s.inode = d.inode
      /\ \A c \in Blocks : c # b => s.block[c] = d.block[c]
  BY <1>1, <1>5 DEF Got
<1> HIDE DEF got
<1>7. s = Last(got) /\ u = [s EXCEPT !.block[b].ents[a] = i] /\ mid = Wrote(got, u) /\ U = B \cup {b}
      /\ n = d.inode[p] /\ m = [n EXCEPT !.ptr[k] = b, !.size = k]
  OBVIOUS
<1>8. v = [u EXCEPT !.inode[p] = m] /\ k = n.size + 1
  OBVIOUS
<1>9. WriteInode(mid, p, m) = Wrote(mid, [Last(mid) EXCEPT !.inode[p] = m])
  BY DEF WriteInode
<1> HIDE DEF s, u, mid, m, v, U, n
<1>10. Fresh(s, i, B)
  <2>1. CASE B = {} /\ d.inode[i] = NewFile
    BY <1>6, <2>1 DEF Fresh
  <2>2. CASE \E c \in Blocks : B = {c} /\ d.inode[i] = NewDir(c) /\ d.block[c] = Blank
    <3>1. PICK c \in Blocks : B = {c} /\ d.inode[i] = NewDir(c) /\ d.block[c] = Blank
      BY <2>2
    <3>2. s.block[c] = Blank
      BY <1>6, <3>1
    <3> QED
      BY <1>6, <3>1, <3>2 DEF Fresh
  <2> QED
    BY <2>1, <2>2 DEF Fresh
<1>11. p \in Dirs(s) /\ Lookup(s, p, a) = None
  BY <1>5, CalmNames
<1>12. /\ Now(mid, K, {i}, U, 0, exact) /\ Last(mid) = u /\ u \in Disks
       /\ Fresh(u, i, B) /\ u.inode = s.inode /\ p \in Dirs(u) /\ Lookup(u, p, a) = None
       /\ b \notin Owned(u, K) /\ \A e \in Names : u.block[b].ents[e] = IF e = a THEN i ELSE None
  <2>1. /\ Now(mid, K, {i}, U, 0, exact) /\ Last(mid) = u /\ InBlock(s, u, K, i, B, b, p, a)
    <3>1. s \in Disks
      BY <1>5, <1>7, NowFacts
    <3>2. u \in Disks /\ EntSet(s, u, b, a, i)
      BY <1>1, <1>6, <1>7, <3>1, EntWrite
    <3>3. ForBlock(s, u, i, B, U, b, p, a)
      BY <1>6, <1>7, <1>10, <1>11, <3>2 DEF ForBlock
    <3>4. /\ Now(Wrote(got, u), K, {i}, U, 0, exact) /\ Last(Wrote(got, u)) = u
          /\ InBlock(s, u, K, i, B, b, p, a)
      BY <1>5, <1>7, <3>3, AddDirentBlock
    <3> QED
      BY <1>7, <3>4
  <2> QED
    BY <2>1 DEF InBlock
<1>13. State(u, K, {i}, U, 0, exact) /\ LogOK(mid)
  BY <1>12 DEF Now
<1>14. Ready(u, K, p, a, i)
  <2>1. B \in SUBSET U
    BY <1>7
  <2> QED
    BY <1>12, <1>13, <2>1, ReadyFrom
<1>15. u.inode = d.inode /\ n \in DiskInodes
  BY <1>1, <1>2, <1>6, <1>7, <1>12, DiskFacts
<1>16. m \in DiskInodes
  <2>1. GrownTo(n, m, k, b)
    BY <1>6, <1>7, <1>15, GrownDir
  <2> QED
    BY <2>1 DEF GrownTo
<1>17. v \in Disks /\ InodeSet(u, v, p, m)
  BY <1>2, <1>8, <1>12, <1>16, InodeWrite
<1>18. Entered(u, v, K, {b}, p, a, i)
  <2>1. m = [u.inode[p] EXCEPT !.ptr[k] = b, !.size = k] /\ k = u.inode[p].size + 1
    BY <1>7, <1>8, <1>15
  <2> QED
    BY <1>6, <1>12, <1>14, <1>17, <2>1, EnterNew
<1>19. State(v, K \cup {i}, {}, {}, 0 - LinkDue(u, i), exact) /\ Moves(u, v)
  <2>1. u.inode[i].kind = "dir" => p = Root
    BY <1>15
  <2>2. B \cap {b} = {}
    BY <1>6
  <2> QED
    <3>1. /\ State(u, K, {i}, U, 0, exact) /\ Fresh(u, i, B) /\ p \in Dirs(u)
          /\ Lookup(u, p, a) = None /\ Entered(u, v, K, {b}, p, a, i) /\ U = B \cup {b}
      BY <1>7, <1>12, <1>13, <1>18
    <3> QED
      BY <2>1, <2>2, <3>1, Enter
<1>20. Now(Wrote(mid, v), K \cup {i}, {}, {}, 0 - LinkDue(u, i), exact)
  BY <1>12, <1>13, <1>19, Writes
<1>21. LinkDue(u, i) = LinkDue(d, i)
  BY <1>15 DEF LinkDue
<1> QED
  BY <1>4, <1>8, <1>9, <1>12, <1>20, <1>21 DEF AddedTo

\* The entry of a new inode.
LEMMA AddDirentStep ==
  ASSUME NEW log, NEW K, NEW i, NEW B, NEW exact, Now(log, K, {i}, B, 0, exact),
         Fresh(Last(log), i, B), NEW p \in Dirs(Last(log)), NEW a \in Names,
         Lookup(Last(log), p, a) = None, Last(log).inode[i].kind = "dir" => p = Root,
         CanAddDirent(log, p)
  PROVE  AddedTo(log, AddDirent(log, p, a, i), K, i, exact)
<1> DEFINE d == Last(log)
           k == EntryBlock(d, p)
<1>1. State(d, K, {i}, B, 0, exact) /\ d \in Disks
  BY NowFacts
<1>2. p \in Inodes /\ DirOk(d, p)
  BY <1>1, ReadyFrom
<1>3. k \in Nat /\ (k \in 1..d.inode[p].size \/ k = d.inode[p].size + 1)
  BY <1>1, <1>2, EntryBlockIs
<1>4. k <= d.inode[p].size \/ (k <= NDirect /\ NextBlock(log) # None)
  BY DEF CanAddDirent
<1>5. d.inode[p].size \in Nat
  BY <1>2, DirSize
<1>6. k = EntryBlock(d, p) /\ d = Last(log)
  OBVIOUS
<1> HIDE DEF k, d
<1>7. CASE k \in 1..d.inode[p].size
  BY <1>6, <1>7, AddDirentOld
<1>8. CASE k = d.inode[p].size + 1
  <2>1. k \in 1..NDirect /\ NextBlock(log) # None
    BY <1>4, <1>5, <1>8, PointersAssumption
  <2> QED
    BY <1>6, <1>8, <2>1, AddDirentNew
<1> QED
  BY <1>3, <1>7, <1>8

----------------------------------------------------------------------------
(* The removal of a name.                                                   *)

\* t is d without the name a in directory p.
Left(d, t, p, a) ==
    /\ t \in Disks /\ t.inode = d.inode /\ t.iuse = d.iuse /\ t.buse = d.buse /\ t.mem = d.mem
    /\ \A j \in Inodes : SameBlocks(d, t, j)
    /\ \A e \in Names : Lookup(t, p, e) = IF e = a THEN None ELSE Lookup(d, p, e)
    /\ DirOk(t, p)
    /\ \A q \in Dirs(d) \ {p} : SameDir(d, t, q)

\* The entry is in one of the blocks.
LEMMA EntryFound ==
  ASSUME NEW d \in Disks, NEW p \in Inodes, DirOk(d, p), NEW a \in Names, Lookup(d, p, a) # None,
         NEW b, b = CHOOSE c \in DirBlocks(d, p) : d.block[c].ents[a] # None
  PROVE  \E k \in 1..d.inode[p].size : b = OwnBlock(d, p, k) /\ EntAt(d, p, k, a) # None
<1>1. DirBlocks(d, p) = {OwnBlock(d, p, k) : k \in 1..d.inode[p].size}
  BY DirFacts
<1>2. \E k \in 1..d.inode[p].size : d.block[OwnBlock(d, p, k)].ents[a] # None
  BY LookupFacts
<1>3. \E c \in DirBlocks(d, p) : d.block[c].ents[a] # None
  BY <1>1, <1>2
<1>4. b \in DirBlocks(d, p) /\ d.block[b].ents[a] # None
  BY <1>3
<1> QED
  BY <1>1, <1>4 DEF EntAt

\* The entry is cleared.
LEMMA LeaveWrite ==
  ASSUME NEW d \in Disks, NEW K \in SUBSET Inodes, Kept(d, K), Named(d, K), NEW p \in Dirs(d),
         NEW a \in Names, NEW k \in 1..d.inode[p].size, EntAt(d, p, k, a) # None,
         NEW t \in Disks, EntSet(d, t, OwnBlock(d, p, k), a, None)
  PROVE  Left(d, t, p, a)
<1> DEFINE n == d.inode[p]
           b == OwnBlock(d, p, k)
<1>1. /\ p \in K /\ p \in Inodes /\ DirOk(d, p)
      /\ \A q \in Dirs(d) : \A h \in 1..d.inode[q].size : OwnBlock(d, q, h) = b => q = p /\ h = k
  BY DirsApart
<1>2. t.iuse = d.iuse /\ t.buse = d.buse /\ t.inode = d.inode /\ t.mem = d.mem
  BY DEF EntSet
<1>3. \A j \in Inodes : SameBlocks(d, t, j)
  BY EntBlocks DEF SameBlocks
<1>4. \A h \in 1..n.size : h # k => EntAt(d, p, h, a) = None
  <2>1. \A h \in 1..n.size : h # k => OwnBlock(d, p, h) \in Blocks
    BY <1>1, DirFacts
  <2>2. \A g, h \in 1..n.size : EntAt(d, p, g, a) # None /\ EntAt(d, p, h, a) # None => g = h
    <3>1. \A g, h \in 1..n.size : d.block[n.ptr[g]].ents[a] # None /\ d.block[n.ptr[h]].ents[a] # None => g = h
      BY <1>1 DEF DirOk
    <3>2. \A h \in 1..n.size : EntAt(d, p, h, a) = d.block[n.ptr[h]].ents[a]
      BY <1>1, DirFacts DEF EntAt
    <3> HIDE DEF n
    <3> QED
      BY <3>1, <3>2
  <2> QED
    BY <2>2
<1>5. /\ DirOk(t, p) /\ t.inode[p] = n
      /\ \A h \in 1..n.size, e \in Names :
            EntAt(t, p, h, e) = IF h = k /\ e = a THEN None ELSE EntAt(d, p, h, e)
  <2>1. \A h \in 1..n.size : h # k => OwnBlock(d, p, h) # OwnBlock(d, p, k)
    BY <1>1
  <2> QED
    BY <1>1, <1>4, <2>1, EntDirOk
<1>6. n.size \in Nat
  BY <1>1, DirSize
<1>7. n = d.inode[p] /\ k \in 1..n.size
  OBVIOUS
<1> HIDE DEF n, b
<1>8. ASSUME NEW e \in Names PROVE Lookup(t, p, e) = IF e = a THEN None ELSE Lookup(d, p, e)
  <2>1. CASE e = a
    <3>1. \A h \in 1..t.inode[p].size : EntAt(t, p, h, a) = None
      BY <1>4, <1>5, <1>7
    <3>2. Lookup(t, p, a) = None
      BY <1>1, <1>5, <3>1, LookupNowhere
    <3> QED
      BY <2>1, <3>2
  <2>2. CASE e # a
    <3>1. \A h \in 1..t.inode[p].size :
             EntAt(t, p, h, e) = IF h \in 1..d.inode[p].size THEN EntAt(d, p, h, e) ELSE None
      BY <1>5, <1>7, <2>2
    <3>2. d.inode[p].size <= t.inode[p].size
      <4>1. n.size <= n.size
        BY <1>6
      <4> QED
        BY <1>5, <1>7, <4>1
    <3>3. Lookup(t, p, e) = Lookup(d, p, e)
      BY <1>1, <1>5, <3>1, <3>2, LookupBy
    <3> QED
      BY <2>2, <3>3
  <2> QED
    BY <2>1, <2>2
<1>9. ASSUME NEW q \in Dirs(d) \ {p} PROVE SameDir(d, t, q)
  <2>1. q \in Inodes /\ DirOk(d, q)
    BY DEF Named
  <2>2. \A h \in 1..d.inode[q].size : OwnBlock(d, q, h) # b
    BY <1>1 DEF b
  <2> QED
    BY <2>1, <2>2, EntSameDir DEF b
<1> QED
  BY <1>2, <1>3, <1>5, <1>8, <1>9 DEF Left

\* What leads where without the name.
LEMMA LeaveLooks ==
  ASSUME NEW d, NEW t, NEW K, Named(d, K), NEW p \in Dirs(d), NEW a \in Names, Left(d, t, p, a)
  PROVE  /\ \A q \in Dirs(d) : DirOk(t, q)
         /\ \A q \in Dirs(d), b \in Names :
               Lookup(t, q, b) = IF q = p /\ b = a THEN None ELSE Lookup(d, q, b)
<1>1. \A q \in Dirs(d) : DirOk(d, q)
  BY DEF Named
<1>2. /\ \A b \in Names : Lookup(t, p, b) = IF b = a THEN None ELSE Lookup(d, p, b)
      /\ DirOk(t, p) /\ \A q \in Dirs(d) \ {p} : SameDir(d, t, q)
  BY DEF Left
<1>3. \A q \in Dirs(d) \ {p} : DirOk(t, q) /\ \A b \in Names : Lookup(t, q, b) = Lookup(d, q, b)
  BY <1>1, <1>2, SameDirShows
<1> QED
  BY <1>2, <1>3

\* Inode i, with a name in directory p, is not a directory that a path leads through.
LEMMA Leaf ==
  ASSUME NEW d, NEW K, Named(d, K), NEW p \in Dirs(d), NEW a \in Names,
         NEW i, i = Lookup(d, p, a), i # None, d.inode[i].kind = "dir" => EmptyDir(d, i)
  PROVE  /\ i \in K /\ i # Root /\ i # p
         /\ d.inode[i].kind = "dir" => p = Root /\ i \in Dirs(d) /\ \A b \in Names : Lookup(d, i, b) = None
         /\ i \in Dirs(d) => d.inode[i].kind = "dir"
<1>1. i \in K /\ i # Root
  BY DEF Named
<1>2. \A q \in Dirs(d) : d.inode[q].kind = "dir"
  BY DEF Named, DirOk
<1>3. d.inode[i].kind = "dir" => \A b \in Names : Lookup(d, i, b) = None
  BY DEF EmptyDir
<1>4. i # p
  BY <1>2, <1>3
<1>5. d.inode[i].kind = "dir" => p = Root
  BY DEF Named
<1>6. d.inode[i].kind = "dir" => i \in Dirs(d)
  BY <1>5 DEF Dirs
<1> QED
  BY <1>1, <1>2, <1>3, <1>4, <1>5, <1>6

\* Nothing but inode i is out of reach then.
LEMMA LeaveDirs ==
  ASSUME NEW d, NEW t, NEW K, Named(d, K), NEW p \in Dirs(d), NEW a \in Names,
         NEW i, i = Lookup(d, p, a), i # None, d.inode[i].kind = "dir" => EmptyDir(d, i),
         Left(d, t, p, a)
  PROVE  Dirs(t) = Dirs(d) \ {i} /\ Reach(t) = Reach(d) \ {i}
<1>1. \A q \in Dirs(d), b \in Names :
         Lookup(t, q, b) = IF q = p /\ b = a THEN None ELSE Lookup(d, q, b)
  BY LeaveLooks
<1>2. t.inode = d.inode
  BY DEF Left
<1>3. /\ i # Root /\ i # p
      /\ d.inode[i].kind = "dir" => \A b \in Names : Lookup(d, i, b) = None
      /\ i \in Dirs(d) => d.inode[i].kind = "dir"
  BY Leaf
<1>4. \A q \in Dirs(d), b \in Names : Lookup(d, q, b) = i => q = p /\ b = a
  <2>1. \A q, r \in Dirs(d), b, e \in Names :
           Lookup(d, q, b) = Lookup(d, r, e) /\ Lookup(d, q, b) # None => q = r /\ b = e
    BY DEF Named
  <2> QED
    BY <2>1
<1>5. Root \in Dirs(d)
  BY DEF Dirs
<1> DEFINE L == {Lookup(d, Root, b) : b \in Names} \ {None}
           M == {Lookup(t, Root, b) : b \in Names} \ {None}
<1>6. M \subseteq L /\ i \notin M /\ L \subseteq M \cup {i}
  <2>1. ASSUME NEW x \in M PROVE x \in L /\ x # i
    <3>1. PICK b \in Names : x = Lookup(t, Root, b) /\ x # None
      OBVIOUS
    <3>2. ~(Root = p /\ b = a) /\ x = Lookup(d, Root, b)
      BY <1>1, <1>5, <3>1
    <3> QED
      BY <1>4, <1>5, <3>1, <3>2
  <2>2. ASSUME NEW x \in L PROVE x \in M \cup {i}
    <3>1. PICK b \in Names : x = Lookup(d, Root, b) /\ x # None
      OBVIOUS
    <3>2. CASE Root = p /\ b = a
      BY <3>1, <3>2
    <3>3. CASE ~(Root = p /\ b = a)
      <4>1. Lookup(t, Root, b) = x
        BY <1>1, <1>5, <3>1, <3>3
      <4> QED
        BY <3>1, <4>1
    <3> QED
      BY <3>2, <3>3
  <2> HIDE DEF L, M
  <2> QED
    BY <2>1, <2>2
<1>7. Dirs(t) = Dirs(d) \ {i}
  <2>1. Dirs(d) = {Root} \cup {j \in L : d.inode[j].kind = "dir"}
    BY DEF Dirs
  <2>2. Dirs(t) = {Root} \cup {j \in M : d.inode[j].kind = "dir"}
    BY <1>2 DEF Dirs
  <2> HIDE DEF L, M
  <2> QED
    BY <1>3, <1>6, <2>1, <2>2
<1>8. Reach(t) = Reach(d) \ {i}
  <2> DEFINE R == {Lookup(d, q, b) : q \in Dirs(d), b \in Names} \ {None}
             S == {Lookup(t, q, b) : q \in Dirs(t), b \in Names} \ {None}
  <2>1. Reach(d) = Dirs(d) \cup R /\ Reach(t) = Dirs(t) \cup S
    BY DEF Reach
  <2>2. ASSUME NEW x \in S PROVE x \in R /\ x # i
    <3>1. PICK q \in Dirs(t), b \in Names : x = Lookup(t, q, b) /\ x # None
      OBVIOUS
    <3>2. q \in Dirs(d)
      BY <1>7
    <3>3. x = Lookup(d, q, b) /\ ~(q = p /\ b = a)
      BY <1>1, <3>1, <3>2
    <3> QED
      BY <1>4, <3>1, <3>2, <3>3
  <2>3. ASSUME NEW x \in R, x # i PROVE x \in S
    <3>1. PICK q \in Dirs(d), b \in Names : x = Lookup(d, q, b) /\ x # None
      OBVIOUS
    <3>2. ~(q = p /\ b = a)
      BY <2>3, <3>1
    <3>3. Lookup(t, q, b) = x
      BY <1>1, <3>1, <3>2
    <3>4. q # i
      BY <1>3, <3>1
    <3>5. q \in Dirs(t)
      BY <1>7, <3>4
    <3> QED
      BY <3>1, <3>3, <3>5
  <2> HIDE DEF R, S
  <2> QED
    BY <1>7, <2>1, <2>2, <2>3
<1> QED
  BY <1>7, <1>8

\* The names are in order, and inode i is out of reach.
Shrunk(d, t, K, i) == Named(t, K) /\ Dirs(t) = Dirs(d) \ {i} /\ Reach(t) = Reach(d) \ {i}

\* The names are in order without it.
LEMMA NamedLeave ==
  ASSUME NEW d, NEW t, NEW K, Named(d, K), NEW p \in Dirs(d), NEW a \in Names,
         NEW i, i = Lookup(d, p, a), i # None, d.inode[i].kind = "dir" => EmptyDir(d, i),
         Left(d, t, p, a)
  PROVE  Shrunk(d, t, K, i)
<1>1. /\ \A q \in Dirs(d) : DirOk(t, q)
      /\ \A q \in Dirs(d), b \in Names :
            Lookup(t, q, b) = IF q = p /\ b = a THEN None ELSE Lookup(d, q, b)
  BY LeaveLooks
<1>2. Dirs(t) = Dirs(d) \ {i} /\ Reach(t) = Reach(d) \ {i}
  BY LeaveDirs
<1>3. t.inode = d.inode
  BY DEF Left
<1>4. \A q \in Dirs(t), b \in Names :
         q \in Dirs(d) /\ (Lookup(t, q, b) # None => Lookup(t, q, b) = Lookup(d, q, b))
  BY <1>1, <1>2
<1>5. Dirs(t) \subseteq K /\ \A q \in Dirs(t) : DirOk(t, q)
  BY <1>1, <1>2 DEF Named
<1>6. ASSUME NEW q \in Dirs(t) \ {Root}
      PROVE  /\ t.inode[q].links = 2
             /\ \A b \in Names : Lookup(t, q, b) # None => t.inode[Lookup(t, q, b)].kind = "file"
  <2>1. /\ d.inode[q].links = 2
        /\ \A b \in Names : Lookup(d, q, b) # None => d.inode[Lookup(d, q, b)].kind = "file"
    BY <1>4 DEF Named
  <2> QED
    BY <1>3, <1>4, <2>1
<1>7. \A q \in Dirs(t), b \in Names : Lookup(t, q, b) \in (K \ {Root}) \cup {None}
  <2>1. \A q \in Dirs(d), b \in Names : Lookup(d, q, b) \in (K \ {Root}) \cup {None}
    BY DEF Named
  <2> QED
    BY <1>4, <2>1
<1>8. \A q, r \in Dirs(t), b, e \in Names :
         Lookup(t, q, b) = Lookup(t, r, e) /\ Lookup(t, q, b) # None => q = r /\ b = e
  <2>1. \A q, r \in Dirs(d), b, e \in Names :
           Lookup(d, q, b) = Lookup(d, r, e) /\ Lookup(d, q, b) # None => q = r /\ b = e
    BY DEF Named
  <2> QED
    BY <1>4, <2>1
<1> QED
  BY <1>2, <1>5, <1>6, <1>7, <1>8 DEF Named, Shrunk

\* It is one step of the specification.
LEMMA LeaveMoves ==
  ASSUME NEW d \in Disks, NEW t, NEW K, Named(d, K), NEW p \in Dirs(d), NEW a \in Names,
         NEW i, i = Lookup(d, p, a), i # None, d.inode[i].kind = "dir" => EmptyDir(d, i),
         Left(d, t, p, a)
  PROVE  Moves(d, t)
<1>1. /\ \A q \in Dirs(d) : DirOk(t, q)
      /\ \A q \in Dirs(d), b \in Names :
            Lookup(t, q, b) = IF q = p /\ b = a THEN None ELSE Lookup(d, q, b)
  <2>1. Named(d, K) /\ p \in Dirs(d) /\ a \in Names /\ Left(d, t, p, a)
    OBVIOUS
  <2> QED
    BY <2>1, LeaveLooks
<1>2. t.inode = d.inode
  BY DEF Left
<1>3. d.inode[i].kind = "dir" => \A b \in Names : Lookup(d, i, b) = None
  BY DEF EmptyDir
<1>4. Lookup(t, p, a) = None
  BY <1>1
<1>5. OneName(d, t, p, a)
  <2>1. \A j : Shown(t, j) = Shown(d, j)
    BY <1>2 DEF Shown
  <2>2. Bare(d, Lookup(d, p, a)) /\ Bare(t, Lookup(t, p, a))
    BY <1>3, <1>4 DEF Bare
  <2> QED
    BY <1>1, <2>1, <2>2 DEF OneName
<1>6. PICK path : PlaceOf(d, t, p, a, path)
  BY <1>5, PlaceExists
<1> QED
  BY <1>4, <1>6, MovesDrop

\* The inode and its blocks are in hand afterwards.
LEMMA Leave ==
  ASSUME NEW d, NEW t, NEW K, NEW exact, State(d, K, {}, {}, 0, exact),
         NEW p \in Dirs(d), NEW a \in Names, NEW i, i = Lookup(d, p, a), i # None,
         d.inode[i].kind = "dir" => EmptyDir(d, i), Left(d, t, p, a)
  PROVE  State(t, K \ {i}, {i}, Owned(t, {i}), LinkDue(t, i), exact) /\ Moves(d, t)
<1>1. /\ d \in Disks /\ Kept(d, K) /\ Bits(d, K, Owned(d, K), {}, {}, exact) /\ Named(d, K)
      /\ (exact => Book(d, K, 0))
  BY DEF State
<1>2. K \in SUBSET Inodes /\ Root \in Dirs(d) /\ Dirs(d) \subseteq K
  BY KeptIn
<1>3. /\ i \in K /\ i # Root
      /\ d.inode[i].kind = "dir" => i \in Dirs(d)
      /\ i \in Dirs(d) => d.inode[i].kind = "dir"
  BY <1>1, Leaf
<1>4. Named(t, K) /\ Dirs(t) = Dirs(d) \ {i} /\ Reach(t) = Reach(d) \ {i}
  <2>1. Shrunk(d, t, K, i)
    BY <1>1, NamedLeave
  <2> QED
    BY <2>1 DEF Shrunk
<1>5. /\ t \in Disks /\ t.inode = d.inode /\ t.iuse = d.iuse /\ t.buse = d.buse /\ t.mem = d.mem
      /\ \A j \in Inodes, x \in Places : OwnBlock(t, j, x) = OwnBlock(d, j, x)
  BY DEF Left, SameBlocks
<1>6. Kept(t, K)
  <2>1. \A j, h \in K, x, y \in Places :
           OwnBlock(d, j, x) = OwnBlock(d, h, y) /\ OwnBlock(d, j, x) # None => j = h /\ x = y
    BY <1>1 DEF Kept
  <2>2. \A j, h \in K, x, y \in Places :
           OwnBlock(t, j, x) = OwnBlock(t, h, y) /\ OwnBlock(t, j, x) # None => j = h /\ x = y
    BY <1>2, <1>5, <2>1
  <2>3. \A j \in K : t.inode[j].kind # "none" /\ (t.inode[j].kind = "file" => t.inode[j].links = 1)
    BY <1>1, <1>5 DEF Kept
  <2> QED
    BY <2>2, <2>3 DEF Kept
<1>7. Bits(t, K, Owned(t, K), {}, {}, exact)
  <2>1. Owned(t, K) = Owned(d, K)
    BY <1>2, <1>5 DEF Owned
  <2> QED
    BY <1>1, <1>5, <2>1 DEF Bits
<1>8. ASSUME exact PROVE Book(t, K \ {i}, LinkDue(t, i))
  <2>1. \A j \in K \ {i} : j \in Reach(t) \/ (t.inode[j].kind = "dir" /\ t.inode[j].links = 1)
    BY <1>1, <1>4, <1>5, <1>8 DEF Book
  <2>2. Cardinality(Dirs(d)) \in Nat /\ IsFiniteSet(Dirs(d))
    BY <1>2, FewInodes, Dirs(d) \in SUBSET Inodes
  <2>3. t.inode[Root].links = 1 + Cardinality(Dirs(d)) + 0
    BY <1>1, <1>5, <1>8 DEF Book
  <2>4. CASE d.inode[i].kind = "dir"
    <3>1. i \in Dirs(d) /\ LinkDue(t, i) = 1
      BY <1>3, <1>5, <2>4 DEF LinkDue
    <3>2. Cardinality(Dirs(t)) = Cardinality(Dirs(d)) - 1
      <4>1. Cardinality(Dirs(d) \ {i}) = Cardinality(Dirs(d)) - 1
        BY <2>2, <3>1, FS_RemoveElement
      <4> QED
        BY <1>4, <4>1
    <3>3. t.inode[Root].links = 1 + Cardinality(Dirs(t)) + LinkDue(t, i)
      BY <2>2, <2>3, <3>1, <3>2
    <3> QED
      BY <2>1, <3>3 DEF Book
  <2>5. CASE d.inode[i].kind # "dir"
    <3>1. Dirs(t) = Dirs(d) /\ LinkDue(t, i) = 0
      BY <1>3, <1>4, <1>5, <2>5 DEF LinkDue
    <3>2. t.inode[Root].links = 1 + Cardinality(Dirs(t)) + LinkDue(t, i)
      BY <2>2, <2>3, <3>1
    <3> QED
      BY <2>1, <3>2 DEF Book
  <2> QED
    BY <2>4, <2>5
<1>9. State(t, K \ {i}, {i}, Owned(t, {i}), LinkDue(t, i), exact)
  <2>1. i \notin Reach(t)
    BY <1>4
  <2>2. t \in Disks /\ Named(t, K)
    BY <1>4, <1>5
  <2> QED
    BY <1>3, <1>6, <1>7, <1>8, <2>1, <2>2, Release
<1> QED
  BY <1>1, <1>9, LeaveMoves

\* The name goes.
LEMMA RemoveDirentStep ==
  ASSUME NEW log, NEW K, NEW exact, NEW d, d = Last(log), Now(log, K, {}, {}, 0, exact),
         NEW p \in Dirs(d), NEW a \in Names, NEW i, i = Lookup(d, p, a), i # None,
         d.inode[i].kind = "dir" => EmptyDir(d, i),
         NEW t, t = Last(RemoveDirent(log, p, a))
  PROVE  /\ Now(RemoveDirent(log, p, a), K \ {i}, {i}, Owned(t, {i}), LinkDue(t, i), exact)
         /\ Left(d, t, p, a)
<1> DEFINE b == CHOOSE c \in DirBlocks(d, p) : d.block[c].ents[a] # None
           u == [d EXCEPT !.block[b].ents[a] = None]
<1>1. State(d, K, {}, {}, 0, exact) /\ d \in Disks /\ LogOK(log)
  BY NowFacts
<1>2. /\ Kept(d, K) /\ Named(d, K) /\ K \in SUBSET Inodes /\ p \in Inodes /\ DirOk(d, p)
  <2>1. Kept(d, K) /\ Named(d, K)
    BY <1>1 DEF State
  <2>2. K \in SUBSET Inodes /\ Dirs(d) \subseteq K /\ \A q \in Dirs(d) : DirOk(d, q)
    BY <1>1, KeptIn
  <2> QED
    BY <2>1, <2>2
<1>3. RemoveDirent(log, p, a) = Wrote(log, u)
  BY DEF RemoveDirent
<1>4. b = CHOOSE c \in DirBlocks(d, p) : d.block[c].ents[a] # None
  OBVIOUS
<1>5. u = [d EXCEPT !.block[b].ents[a] = None]
  OBVIOUS
<1> HIDE DEF b, u
<1>6. PICK k \in 1..d.inode[p].size : b = OwnBlock(d, p, k) /\ EntAt(d, p, k, a) # None
  BY <1>1, <1>2, <1>4, EntryFound
<1>7. b \in Blocks
  BY <1>1, <1>2, <1>6, DirFacts
<1>8. u \in Disks /\ EntSet(d, u, b, a, None)
  BY <1>1, <1>5, <1>7, EntWrite
<1>9. Left(d, u, p, a)
  <2>1. EntSet(d, u, OwnBlock(d, p, k), a, None) /\ EntAt(d, p, k, a) # None
    BY <1>6, <1>8
  <2> QED
    BY <1>1, <1>2, <1>8, <2>1, LeaveWrite
<1>10. State(u, K \ {i}, {i}, Owned(u, {i}), LinkDue(u, i), exact) /\ Moves(d, u)
  BY <1>1, <1>9, Leave
<1>11. Now(Wrote(log, u), K \ {i}, {i}, Owned(u, {i}), LinkDue(u, i), exact) /\ Last(Wrote(log, u)) = u
  BY <1>1, <1>10, Writes
<1>12. t = u
  BY <1>3, <1>11
<1> QED
  BY <1>3, <1>9, <1>11, <1>12

----------------------------------------------------------------------------
(* The blocks of a file are given back.                                     *)

\* free_inode_blocks, of an inode that has no block twice.
LEMMA FreeBlocksStep ==
  ASSUME NEW log, NEW K, NEW I, NEW B, NEW extra, NEW exact, Now(log, K, I, B, extra, exact),
         NEW n, B = {BlockAt(Last(log), n, x) : x \in Places} \ {None},
         \A x, y \in Places : BlockAt(Last(log), n, x) = BlockAt(Last(log), n, y)
                              /\ BlockAt(Last(log), n, x) # None => x = y
  PROVE  /\ Now(FreeBlocksOf(log, n), K, I, {}, extra, exact)
         /\ SameData(Last(log), Last(FreeBlocksOf(log, n)))
         /\ Calm(Last(log), Last(FreeBlocksOf(log, n)), K)
<1> DEFINE d == Last(log)
           At(x) == BlockAt(d, n, x)
           Rest(k) == {At(x) : x \in (k + 1)..Indirect} \ {None}
<1>1. Indirect \in Nat /\ Places = 1..Indirect
  BY PlaceFacts DEF Places
<1>2. PICK f : /\ f[0] = log /\ \A k \in 1..Indirect : f[k] = FreeBlock(f[k - 1], At(k))
               /\ FreeBlocksOf(log, n) = f[Indirect]
  BY <1>1, FreeFold
<1> DEFINE Good(k) == Now(f[k], K, I, Rest(k), extra, exact) /\ SameData(d, Last(f[k]))
           T == {k \in 0..Indirect : Good(k)}
<1>3. 0 \in T
  <2>1. Rest(0) = B
    BY <1>1
  <2>2. SameData(d, d)
    BY DEF SameData
  <2> HIDE DEF Rest, d
  <2>3. Good(0)
    BY <1>2, <2>1, <2>2 DEF d
  <2> QED
    BY <1>1, <2>3
<1>4. ASSUME NEW k \in 1..Indirect, k - 1 \in T PROVE k \in T
  <2> DEFINE b == At(k)
  <2>1. Good(k - 1) /\ f[k] = FreeBlock(f[k - 1], b) /\ k \in 0..Indirect
    BY <1>1, <1>2, <1>4
  <2>2. ((k - 1) + 1)..Indirect = {k} \cup ((k + 1)..Indirect)
    BY <1>1
  <2>3. \A x \in (k + 1)..Indirect : x \in Places /\ x # k
    BY <1>1
  <2>4. k \in Places
    BY <1>1
  <2>5. CASE b = None
    <3>1. Rest(k - 1) = Rest(k)
      BY <2>2, <2>5
    <3>2. None \notin Last(f[k - 1]).buse
      BY <2>1, NowFacts, NumberFacts
    <3>3. f[k] = f[k - 1]
      BY <2>1, <2>5, <3>2 DEF FreeBlock
    <3> HIDE DEF Rest, d, b
    <3>4. Good(k)
      BY <2>1, <3>1, <3>3
    <3> QED
      BY <2>1, <3>4
  <2>6. CASE b # None
    <3>1. \A x \in (k + 1)..Indirect : At(x) # b
      <4> HIDE DEF d
      <4>1. \A x, y \in Places : At(x) = At(y) /\ At(x) # None => x = y
        BY DEF d
      <4> HIDE DEF At
      <4> QED
        BY <2>3, <2>4, <2>6, <4>1
    <3> HIDE DEF At
    <3>2. Rest(k) = Rest(k - 1) \ {b} /\ b \in Rest(k - 1)
      BY <2>2, <2>6, <3>1
    <3> HIDE DEF Rest, d, b
    <3>3. Now(f[k], K, I, Rest(k), extra, exact) /\ SameData(Last(f[k - 1]), Last(f[k]))
      BY <2>1, <3>2, FreeBlockStep
    <3>4. SameData(d, Last(f[k]))
      BY <2>1, <3>3 DEF SameData
    <3> QED
      BY <2>1, <3>3, <3>4
  <2> QED
    BY <2>5, <2>6
<1> HIDE DEF T
<1>5. Indirect \in T
  <2>1. \A k \in 0..Indirect : k \in T
    BY <1>1, <1>3, <1>4, UpTo
  <2> QED
    BY <1>1, <2>1
<1>6. Rest(Indirect) = {}
  BY <1>1
<1> HIDE DEF Rest
<1>7. Now(FreeBlocksOf(log, n), K, I, {}, extra, exact)
      /\ SameData(d, Last(FreeBlocksOf(log, n)))
  BY <1>2, <1>5, <1>6 DEF T
<1>8. d \in Disks /\ K \in SUBSET Inodes /\ Named(d, K)
  BY NowFacts DEF State
<1> QED
  BY <1>7, <1>8, DataAlike, AlikeGives

\* The inode that has lost its name is given back, with its blocks.
LEMMA DeadStep ==
  ASSUME NEW log, NEW K, NEW extra, NEW exact, NEW i, NEW t, t = Last(log),
         Now(log, K, {i}, Owned(t, {i}), extra, exact), Apart(t, i),
         NEW n, n = t.inode[i], n.kind \in {"file", "dir"}
  PROVE  \E end : /\ end = DropInode(log, i, n)
                  /\ Now(end, K, {}, {}, extra, exact) /\ Dirs(Last(end)) = Dirs(t)
<1> DEFINE got  == FreeBlocksOf(log, n)
           gone == Erased(n)
           half == WriteInode(got, i, gone)
<1>1. \A x : BlockAt(t, n, x) = OwnBlock(t, i, x)
  BY DEF OwnBlock
<1>2. Owned(t, {i}) = {BlockAt(Last(log), n, x) : x \in Places} \ {None}
  BY <1>1 DEF Owned
<1>3. \A x, y \in Places : BlockAt(Last(log), n, x) = BlockAt(Last(log), n, y)
                           /\ BlockAt(Last(log), n, x) # None => x = y
  BY <1>1 DEF Apart
<1>4. Now(got, K, {i}, {}, extra, exact) /\ Calm(t, Last(got), K)
  BY <1>2, <1>3, FreeBlocksStep
<1>5. gone \in DiskInodes
  <2>1. 0 \in 0..(LinkWidth - 1) /\ 0 \in 0..FileBlocks
    BY LinkFacts, PlaceFacts
  <2>2. gone = [kind |-> n.kind, links |-> 0, size |-> 0, ptr |-> NoPointers]
    BY DEF Unwritten, Erased
  <2> HIDE DEF gone
  <2> QED
    BY <2>1, <2>2, NewInodes DEF DiskInodes
<1> HIDE DEF got, gone
<1>6. Now(half, K, {i}, {}, extra, exact) /\ Calm(Last(got), Last(half), K)
  BY <1>4, <1>5, WriteInodeStep
<1> HIDE DEF half
<1>7. Now(FreeInode(half, i), K, {i} \ {i}, {}, extra, exact)
      /\ Calm(Last(half), Last(FreeInode(half, i)), K)
  BY <1>6, FreeInodeStep
<1>8. {i} \ {i} = {}
  OBVIOUS
<1>9. Dirs(Last(FreeInode(half, i))) = Dirs(t)
  BY <1>4, <1>6, <1>7 DEF Calm, SameNames
<1>10. Now(FreeInode(half, i), K, {}, {}, extra, exact)
  BY <1>7, <1>8
<1> QED
  BY <1>9, <1>10 DEF half, got, gone, DropInode

----------------------------------------------------------------------------
(* The operations.                                                          *)

\* Where nothing else is in hand.
LEMMA AloneInHand ==
  ASSUME NEW x
  PROVE  {} \cup {x} = {x} /\ {x} \ {x} = {}
  OBVIOUS

\* What is left in hand, an inode, is given back when the operation fails.
LEMMA GiveBack ==
  ASSUME NEW log, NEW K, NEW i, NEW exact, Now(log, K, {i}, {}, 0, exact)
  PROVE  Now(FreeInode(log, i), K, {}, {}, 0, exact)
<1>1. Now(FreeInode(log, i), K, {i} \ {i}, {}, 0, exact)
  BY FreeInodeStep
<1> QED
  BY <1>1, AloneInHand

\* ext2_create_file.
LEMMA CreateFileStep ==
  ASSUME NEW log, NEW K, NEW exact, Now(log, K, {}, {}, 0, exact),
         NEW p \in Dirs(Last(log)), NEW a \in Names, Lookup(Last(log), p, a) = None,
         NEW i, i = NextInode(log), i # None,
         NEW made, made = WriteInode(AllocInode(log), i, NewFile)
  PROVE  /\ CanAddDirent(made, p) =>
              \E L : Now(SyncSuperblock(AddDirent(made, p, a, i)), L, {}, {}, 0, exact)
         /\ Now(FreeInode(made, i), K, {}, {}, 0, exact)
<1> DEFINE half == AllocInode(log)
<1>1. Now(half, K, {i}, {}, 0, exact) /\ Calm(Last(log), Last(half), K) /\ i \in Inodes
  BY AllocInodeStep, AloneInHand
<1> HIDE DEF half
<1>2. /\ Now(made, K, {i}, {}, 0, exact) /\ Calm(Last(half), Last(made), K)
      /\ Last(made) = [Last(half) EXCEPT !.inode[i] = NewFile]
  <2>1. i \in {i} /\ NewFile \in DiskInodes /\ made = WriteInode(half, i, NewFile)
    BY NewInodes DEF half
  <2>2. ASSUME NEW n \in DiskInodes
        PROVE  /\ Now(WriteInode(half, i, n), K, {i}, {}, 0, exact)
               /\ Calm(Last(half), Last(WriteInode(half, i, n)), K)
               /\ Last(WriteInode(half, i, n)) = [Last(half) EXCEPT !.inode[i] = n]
    BY <1>1, <2>1, WriteInodeStep
  <2> QED
    BY <2>1, <2>2
<1>3. Fresh(Last(made), i, {})
  <2>1. Last(half) \in Disks
    BY <1>1, NowFacts
  <2>2. NewFile \in DiskInodes
    BY NewInodes
  <2>3. InodeSet(Last(half), Last(made), i, NewFile)
    BY <1>1, <1>2, <2>1, <2>2, InodeWrite
  <2> QED
    BY <2>3 DEF Fresh, InodeSet
<1>4. p \in Dirs(Last(made)) /\ Lookup(Last(made), p, a) = None
  BY <1>1, <1>2, CalmNames
<1>5. Last(made).inode[i].kind = "file"
  <2>1. \A b \in Blocks : {} # {b}
    OBVIOUS
  <2> QED
    BY <1>3, <2>1, NewInodes DEF Fresh
<1>6. ASSUME CanAddDirent(made, p)
      PROVE  Now(SyncSuperblock(AddDirent(made, p, a, i)), K \cup {i}, {}, {}, 0, exact)
  <2> DEFINE got == AddDirent(made, p, a, i)
  <2>1. AddedTo(made, got, K, i, exact)
    BY <1>2, <1>3, <1>4, <1>5, <1>6, AddDirentStep
  <2>2. 0 - LinkDue(Last(made), i) = 0
    BY <1>5 DEF LinkDue
  <2> HIDE DEF got
  <2>3. Now(got, K \cup {i}, {}, {}, 0, exact)
    BY <2>1, <2>2 DEF AddedTo
  <2> QED
    BY <2>3, SyncStep DEF got
<1> QED
  BY <1>2, <1>6, GiveBack

\* ext2_mkdir.
LEMMA MkdirStep ==
  ASSUME NEW log, NEW K, NEW exact, Now(log, K, {}, {}, 0, exact),
         NEW a \in Names, Lookup(Last(log), Root, a) = None,
         NEW i, i = NextInode(log), i # None, NEW half, half = AllocInode(log),
         NEW b, b = NextBlock(half),
         NEW made, made = WriteInode(AllocBlock(half), i, NewDir(b))
  PROVE  /\ b = None => Now(FreeInode(half, i), K, {}, {}, 0, exact)
         /\ b # None => Now(FreeInode(FreeBlock(made, b), i), K, {}, {}, 0, exact)
         /\ b # None /\ CanAddDirent(made, Root) =>
              \E L : Now(SyncSuperblock(AddLinks(AddDirent(made, Root, a, i), Root, 1)),
                         L, {}, {}, 0, exact)
<1>1. Now(half, K, {i}, {}, 0, exact) /\ Calm(Last(log), Last(half), K) /\ i \in Inodes
  BY AllocInodeStep, AloneInHand
<1>2. Now(FreeInode(half, i), K, {}, {}, 0, exact)
  BY <1>1, GiveBack
<1>3. SUFFICES ASSUME b # None
               PROVE  /\ Now(FreeInode(FreeBlock(made, b), i), K, {}, {}, 0, exact)
                      /\ CanAddDirent(made, Root) =>
                           \E L : Now(SyncSuperblock(AddLinks(AddDirent(made, Root, a, i), Root, 1)),
                                      L, {}, {}, 0, exact)
  BY <1>2
<1> DEFINE got == AllocBlock(half)
<1>4. Now(got, K, {i}, {b}, 0, exact) /\ Calm(Last(half), Last(got), K)
      /\ Got(Last(half), Last(got), b)
  BY <1>1, <1>3, AllocBlockStep, AloneInHand
<1>5. b \in Blocks /\ Last(got).block[b] = Blank /\ NewDir(b) \in DiskInodes
  BY <1>4, NewInodes DEF Got
<1> HIDE DEF got
<1>6. /\ Now(made, K, {i}, {b}, 0, exact) /\ Calm(Last(got), Last(made), K)
      /\ Last(made) = [Last(got) EXCEPT !.inode[i] = NewDir(b)]
  BY <1>4, <1>5, WriteInodeStep DEF got
<1>7. Last(made).inode[i] = NewDir(b) /\ Last(made).block = Last(got).block
  <2>1. Last(got) \in Disks
    BY <1>4, NowFacts
  <2>2. InodeSet(Last(got), Last(made), i, NewDir(b))
    BY <1>1, <1>5, <1>6, <2>1, InodeWrite
  <2> QED
    BY <2>2 DEF InodeSet
<1>8. Fresh(Last(made), i, {b}) /\ Last(made).inode[i].kind = "dir"
  BY <1>5, <1>7, NewInodes DEF Fresh
<1>9. Now(FreeInode(FreeBlock(made, b), i), K, {}, {}, 0, exact)
  <2>1. Now(FreeBlock(made, b), K, {i}, {}, 0, exact)
    BY <1>6, FreeBlockStep, AloneInHand
  <2> QED
    BY <2>1, GiveBack
<1>10. Root \in Dirs(Last(made)) /\ Lookup(Last(made), Root, a) = None
  BY <1>1, <1>4, <1>6, CalmNames DEF Dirs
<1>11. ASSUME CanAddDirent(made, Root)
       PROVE  Now(SyncSuperblock(AddLinks(AddDirent(made, Root, a, i), Root, 1)),
                  K \cup {i}, {}, {}, 0, exact)
  <2> DEFINE in == AddDirent(made, Root, a, i)
  <2>1. AddedTo(made, in, K, i, exact)
    BY <1>6, <1>8, <1>10, <1>11, AddDirentStep
  <2>2. LinkDue(Last(made), i) = 1
    BY <1>8 DEF LinkDue
  <2> HIDE DEF in
  <2>3. Now(in, K \cup {i}, {}, {}, 0 - 1, exact)
    BY <2>1, <2>2 DEF AddedTo
  <2>4. Root \in Dirs(Last(in)) /\ 1 \in {-1, 0, 1}
    BY DEF Dirs
  <2>5. Now(AddLinks(in, Root, 1), K \cup {i}, {}, {}, 0, exact)
    BY <2>3, <2>4, AddLinksStep
  <2> QED
    BY <2>5, SyncStep DEF in
<1> QED
  BY <1>9, <1>11

\* A directory that has lost its name and one of its links stays for ever.
LEMMA Strand ==
  ASSUME NEW log, NEW K, NEW i, NEW t, t = Last(log), NEW extra, NEW exact,
         Now(log, K, {i}, Owned(t, {i}), extra, exact), Apart(t, i),
         t.inode[i].kind = "dir", t.inode[i].links = 1
  PROVE  Now(log, K \cup {i}, {}, {}, extra, exact)
<1>1. LogOK(log) /\ State(t, K, {i}, Owned(t, {i}), extra, exact)
  BY DEF Now
<1>2. /\ t \in Disks /\ Kept(t, K) /\ Bits(t, K, Owned(t, K), {i}, Owned(t, {i}), exact)
      /\ Named(t, K) /\ (exact => Book(t, K, extra))
  BY <1>1 DEF State
<1>3. i \notin K /\ Owned(t, K) \cap Owned(t, {i}) = {}
  BY <1>2 DEF Bits
<1>4. Kept(t, K \cup {i}) /\ Owned(t, K \cup {i}) = Owned(t, K) \cup Owned(t, {i})
  BY <1>2, <1>3, KeptAdopt
<1>5. Bits(t, K \cup {i}, Owned(t, K \cup {i}), {}, {}, exact)
  BY <1>2, <1>4 DEF Bits
<1>6. Named(t, K \cup {i})
  BY <1>2 DEF Named
<1>7. exact => Book(t, K \cup {i}, extra)
  BY <1>2 DEF Book
<1> QED
  BY <1>1, <1>2, <1>4, <1>5, <1>6, <1>7 DEF Now, State

\* What Release and the like leave: the blocks of what has lost its name.
LEMMA LeftApart ==
  ASSUME NEW d, NEW t, NEW K, Kept(d, K), NEW i \in K, K \in SUBSET Inodes,
         NEW p, NEW a, Left(d, t, p, a)
  PROVE  Apart(t, i) /\ t.inode = d.inode
<1>1. \A x \in Places : OwnBlock(t, i, x) = OwnBlock(d, i, x)
  BY DEF Left, SameBlocks
<1>2. \A x, y \in Places : OwnBlock(d, i, x) = OwnBlock(d, i, y) /\ OwnBlock(d, i, x) # None => x = y
  BY DEF Kept
<1> QED
  BY <1>1, <1>2 DEF Apart, Left

\* ext2_unlink of a file.
LEMMA UnlinkFileStep ==
  ASSUME NEW log, NEW K, NEW exact, NEW d, d = Last(log), Now(log, K, {}, {}, 0, exact),
         NEW p \in Dirs(d), NEW a \in Names, NEW i, i = Lookup(d, p, a), i # None,
         d.inode[i].kind = "file"
  PROVE  \E L : Now(SyncSuperblock(AddLinks(DropInode(RemoveDirent(log, p, a), i, d.inode[i]), p, 0)),
                    L, {}, {}, 0, exact)
<1> DEFINE got == RemoveDirent(log, p, a)
           t == Last(got)
           gone == DropInode(got, i, d.inode[i])
<1>1. /\ d \in Disks /\ Kept(d, K) /\ Named(d, K) /\ K \in SUBSET Inodes
      /\ Lookup(d, p, a) \in K \cup {None}
  BY KeptIn DEF Now, State
<1>2. i \in K
  BY <1>1
<1>3. Now(got, K \ {i}, {i}, Owned(t, {i}), LinkDue(t, i), exact) /\ Left(d, t, p, a)
  <2>1. d.inode[i].kind = "dir" => EmptyDir(d, i)
    OBVIOUS
  <2> QED
    BY <2>1, RemoveDirentStep
<1>4. Apart(t, i) /\ t.inode = d.inode
  BY <1>1, <1>2, <1>3, LeftApart
<1>5. LinkDue(t, i) = 0
  BY <1>4 DEF LinkDue
<1>6. Dirs(t) = Dirs(d) \ {i}
  <2>1. (d.inode[i].kind = "dir" => EmptyDir(d, i)) /\ Left(d, t, p, a)
    BY <1>3
  <2> HIDE DEF t
  <2>2. Shrunk(d, t, K, i)
    BY <1>1, <2>1, NamedLeave
  <2> QED
    BY <2>2 DEF Shrunk
<1>7. p \in Dirs(t)
  <2>1. d.inode[p].kind = "dir"
    BY <1>1 DEF Named, DirOk
  <2> QED
    BY <1>6, <2>1
<1> HIDE DEF got, t
<1>8. PICK end : /\ end = DropInode(got, i, t.inode[i])
                 /\ Now(end, K \ {i}, {}, {}, 0, exact) /\ Dirs(Last(end)) = Dirs(t)
  <2>1. t = Last(got) /\ t.inode[i].kind \in {"file", "dir"}
    BY <1>4 DEF t
  <2>2. Now(got, K \ {i}, {i}, Owned(t, {i}), 0, exact)
    BY <1>3, <1>5
  <2> QED
    BY <1>4, <2>1, <2>2, DeadStep
<1>9. end = gone
  BY <1>4, <1>8
<1> HIDE DEF gone
<1>10. Now(AddLinks(gone, p, 0), K \ {i}, {}, {}, 0, exact)
  <2>1. p \in Dirs(Last(gone)) /\ 0 \in {-1, 0, 1} /\ 0 - 0 = 0
    BY <1>7, <1>8, <1>9
  <2>2. Now(gone, K \ {i}, {}, {}, 0 - 0, exact)
    BY <1>8, <1>9, <2>1
  <2> QED
    BY <2>1, <2>2, AddLinksStep
<1>11. Now(SyncSuperblock(AddLinks(gone, p, 0)), K \ {i}, {}, {}, 0, exact)
  BY <1>10, SyncStep
<1> QED
  BY <1>11 DEF gone, got

\* ext2_unlink of a directory.
LEMMA UnlinkDirStep ==
  ASSUME NEW log, NEW K, NEW exact, NEW d, d = Last(log), Now(log, K, {}, {}, 0, exact),
         NEW p \in Dirs(d), NEW a \in Names, NEW i, i = Lookup(d, p, a), i # None,
         d.inode[i].kind = "dir", EmptyDir(d, i)
  PROVE  /\ d.inode[i].links = 2
         /\ LET gone == AddLinks(RemoveDirent(log, p, a), i, -1)
            IN  \E L : Now(SyncSuperblock(AddLinks(gone, p, -1)), L, {}, {}, 0, exact)
<1> DEFINE got == RemoveDirent(log, p, a)
           t == Last(got)
           n == t.inode[i]
           m == [n EXCEPT !.links = (@ + -1) % LinkWidth]
           gone == AddLinks(got, i, -1)
           u == Last(gone)
<1>1. /\ d \in Disks /\ Kept(d, K) /\ Named(d, K) /\ K \in SUBSET Inodes
      /\ Lookup(d, p, a) \in K \cup {None} /\ Root \in Dirs(d)
  BY KeptIn DEF Now, State
<1>2. i \in K /\ i \in Inodes /\ i # Root /\ p = Root
  BY <1>1 DEF Named
<1>3. i \in Dirs(d)
  BY <1>2 DEF Dirs
<1>4. d.inode[i].links = 2
  BY <1>1, <1>2, <1>3 DEF Named
<1>5. Now(got, K \ {i}, {i}, Owned(t, {i}), LinkDue(t, i), exact) /\ Left(d, t, p, a)
  BY RemoveDirentStep
<1>6. Apart(t, i) /\ t.inode = d.inode
  BY <1>1, <1>2, <1>5, LeftApart
<1>7. LinkDue(t, i) = 1
  BY <1>6 DEF LinkDue
<1>8. t \in Disks
  BY <1>5 DEF Left
<1> HIDE DEF got, t
<1>9. n \in DiskInodes /\ n.links = 2 /\ n.kind = "dir"
  BY <1>2, <1>4, <1>6, <1>8, DiskFacts
<1>10. m \in DiskInodes /\ m.links = 1 /\ m.kind = "dir" /\ m.ptr = n.ptr
  <2>1. (n.links + -1) % LinkWidth = 1 /\ 1 \in 0..(LinkWidth - 1)
    <3>1. n.links + -1 = 1 /\ 1 \in 0..(LinkWidth - 1)
      BY <1>9, LinkFacts
    <3> QED
      BY <3>1, LinkFacts
  <2>2. m = [n EXCEPT !.links = 1]
    BY <2>1
  <2> HIDE DEF m, n
  <2> QED
    BY <1>9, <2>1, <2>2 DEF DiskInodes
<1>11. gone = WriteInode(got, i, m)
  BY DEF AddLinks, t
<1> HIDE DEF m, gone
<1>12. Now(gone, K \ {i}, {i}, Owned(t, {i}), 1, exact) /\ u = [t EXCEPT !.inode[i] = m]
  BY <1>5, <1>7, <1>10, <1>11, WriteInodeStep DEF t
<1>13. InodeSet(t, u, i, m)
  BY <1>2, <1>8, <1>10, <1>12, InodeWrite
<1> HIDE DEF u
<1>14. u.inode[i] = m /\ \A x \in Places : OwnBlock(u, i, x) = OwnBlock(t, i, x)
  <2>1. u.inode[i] = m /\ u.inode[i].ptr = t.inode[i].ptr /\ u.block = t.block
    BY <1>10, <1>13 DEF InodeSet
  <2> QED
    BY <2>1, SamePlaces
<1>15. Apart(u, i) /\ Owned(u, {i}) = Owned(t, {i})
  BY <1>6, <1>14 DEF Apart, Owned
<1>16. Now(gone, (K \ {i}) \cup {i}, {}, {}, 1, exact)
  <2>1. u = Last(gone)
    BY DEF u
  <2>2. Now(gone, K \ {i}, {i}, Owned(u, {i}), 1, exact)
    BY <1>12, <1>15
  <2>3. u.inode[i].kind = "dir" /\ u.inode[i].links = 1
    BY <1>10, <1>14
  <2> QED
    BY <1>15, <2>1, <2>2, <2>3, Strand
<1>17. Now(AddLinks(gone, p, -1), (K \ {i}) \cup {i}, {}, {}, 0, exact)
  <2>1. p \in Dirs(Last(gone)) /\ -1 \in {-1, 0, 1} /\ 0 - (-1) = 1
    BY <1>2 DEF Dirs
  <2>2. Now(gone, (K \ {i}) \cup {i}, {}, {}, 0 - (-1), exact)
    BY <1>16, <2>1
  <2> QED
    BY <1>2, <2>1, <2>2, AddLinksStep
<1>18. Now(SyncSuperblock(AddLinks(gone, p, -1)), (K \ {i}) \cup {i}, {}, {}, 0, exact)
  BY <1>17, SyncStep
<1> QED
  BY <1>4, <1>18 DEF gone, got

----------------------------------------------------------------------------
(* A file grows.                                                            *)

\* File i is written, and gets the blocks C.
GrowsTo(d, t, K, i, C) ==
    /\ t \in Disks /\ t.iuse = d.iuse /\ t.buse = d.buse /\ t.mem = d.mem
    /\ \A j \in K \ {i} : t.inode[j] = d.inode[j] /\ SameBlocks(d, t, j)
    /\ t.inode[i].kind = "file" /\ t.inode[i].links = d.inode[i].links
    /\ Gains(d, t, i, C) /\ C \subseteq Owned(t, {i})
    /\ \A q \in Dirs(d) : SameDir(d, t, q)

\* They were in hand, and are kept from then on.
LEMMA Grow ==
  ASSUME NEW d, NEW t, NEW K, NEW B, NEW exact, State(d, K, {}, B, 0, exact),
         NEW i \in K, d.inode[i].kind = "file", NEW C \in SUBSET B, GrowsTo(d, t, K, i, C)
  PROVE  State(t, K, {}, B \ C, 0, exact) /\ SameNames(d, t)
<1>1. /\ d \in Disks /\ Kept(d, K) /\ Bits(d, K, Owned(d, K), {}, B, exact) /\ Named(d, K)
      /\ (exact => Book(d, K, 0))
  BY DEF State
<1>2. /\ K \in SUBSET Inodes /\ B \in SUBSET Blocks /\ Dirs(d) \subseteq K /\ Root \in Dirs(d)
      /\ \A q \in Dirs(d) : d.inode[q].kind = "dir"
  BY KeptIn DEF DirOk
<1>3. /\ t \in Disks /\ t.iuse = d.iuse /\ t.buse = d.buse /\ t.mem = d.mem
      /\ \A j \in K \ {i} : t.inode[j] = d.inode[j] /\ SameBlocks(d, t, j)
      /\ t.inode[i].kind = d.inode[i].kind /\ t.inode[i].links = d.inode[i].links
      /\ Gains(d, t, i, C) /\ C \subseteq Owned(t, {i})
      /\ \A q \in Dirs(d) : SameDir(d, t, q)
  BY DEF GrowsTo
<1>4. i \notin Dirs(d) /\ i # Root
  BY <1>2
<1>5. \A j \in K : t.inode[j].kind = d.inode[j].kind /\ t.inode[j].links = d.inode[j].links
  BY <1>3
<1>6. Kept(t, K) /\ Owned(t, K) = Owned(d, K) \cup (C \cap Owned(t, {i}))
  <2>1. None \notin C /\ Owned(d, K) \cap C = {}
    BY <1>1, <1>2, NumberFacts DEF Bits
  <2>2. SameKinds(d, t, K)
    BY <1>5 DEF SameKinds
  <2>3. d.inode[Root].kind # "file"
    BY <1>2
  <2> QED
    BY <1>1, <1>3, <2>1, <2>2, <2>3, KeptGain
<1>7. Owned(t, K) = Owned(d, K) \cup C
  BY <1>3, <1>6
<1>8. Bits(t, K, Owned(t, K), {}, B \ C, exact)
  <2>1. Owned(t, K) \cup (B \ C) = Owned(d, K) \cup B
    BY <1>7
  <2>2. Owned(t, K) \cap (B \ C) = {}
    BY <1>1, <1>7 DEF Bits
  <2> QED
    BY <1>1, <1>3, <2>1, <2>2 DEF Bits
<1>9. SameNames(d, t) /\ Named(t, K)
  BY <1>1, <1>2, <1>3, <1>5, NamedStep
<1>10. ASSUME exact PROVE Book(t, K, 0)
  <2>1. Reach(t) = Reach(d) /\ Dirs(t) = Dirs(d)
    BY <1>9 DEF SameNames
  <2>2. Book(d, K, 0)
    BY <1>1, <1>10
  <2>3. t.inode[Root].links = d.inode[Root].links
    BY <1>2, <1>5
  <2> QED
    BY <1>5, <2>1, <2>2, <2>3 DEF Book
<1> QED
  BY <1>3, <1>6, <1>8, <1>9, <1>10 DEF State

\* The tree shows no more than before when the inodes stay as they are.
LEMMA SameTree ==
  ASSUME NEW d, NEW t, SameNames(d, t), t.inode = d.inode
  PROVE  TreeOf(t) = TreeOf(d)
<1>1. Dirs(t) = Dirs(d) /\ \A p \in Dirs(d), a \in Names : Lookup(t, p, a) = Lookup(d, p, a)
  BY DEF SameNames
<1> QED
  BY <1>1, TreeFacts

----------------------------------------------------------------------------
(* The inode in memory.                                                     *)

\* The blocks of inode n.
Has(d, n) == {BlockAt(d, n, x) : x \in Places} \ {None}

\* No block is in two places of inode n.
Single(d, n) == \A x, y \in Places : BlockAt(d, n, x) = BlockAt(d, n, y) /\ BlockAt(d, n, x) # None => x = y

\* Inode n, in memory, has the pointers of inode i on the disk, and maybe others.
Ahead(d, i, n) == \A k \in 1..(NDirect + 1) : d.inode[i].ptr[k] # None => n.ptr[k] = d.inode[i].ptr[k]

\* The same goes for their places.
LEMMA AheadFacts ==
  ASSUME NEW d, NEW i, NEW n, Ahead(d, i, n)
  PROVE  /\ \A x \in Places : OwnBlock(d, i, x) # None => OwnBlock(d, i, x) = BlockAt(d, n, x)
         /\ Owned(d, {i}) \subseteq Has(d, n)
<1>1. ASSUME NEW x \in Places, OwnBlock(d, i, x) # None PROVE OwnBlock(d, i, x) = BlockAt(d, n, x)
  <2>1. x \in 1..NDirect \/ x = Indirect \/ (x > NDirect /\ x # Indirect)
    BY PlaceFacts
  <2>2. CASE x \in 1..NDirect
    <3>1. x \in 1..(NDirect + 1)
      BY <2>2, PlaceFacts
    <3>2. OwnBlock(d, i, x) = d.inode[i].ptr[x]
      BY <2>2, OwnDirect
    <3>3. BlockAt(d, n, x) = n.ptr[x]
      BY <2>2, AtDirect
    <3> QED
      BY <1>1, <3>1, <3>2, <3>3 DEF Ahead
  <2>3. CASE x = Indirect
    <3>1. OwnBlock(d, i, Indirect) = d.inode[i].ptr[NDirect + 1]
          /\ BlockAt(d, n, Indirect) = n.ptr[NDirect + 1]
      BY OwnBlockCases, BlockAtCases
    <3> QED
      BY <1>1, <2>3, <3>1, PlaceFacts DEF Ahead
  <2>4. CASE x > NDirect /\ x # Indirect
    <3> DEFINE q == d.inode[i].ptr[NDirect + 1]
    <3>1. q # None
      BY <1>1, <2>4, OwnBlockCases
    <3>2. n.ptr[NDirect + 1] = q
      BY <3>1, PlaceFacts DEF Ahead
    <3>3. OwnBlock(d, i, x) = d.block[q].ptr[x - NDirect]
      BY <2>4, <3>1, OwnInner
    <3>4. BlockAt(d, n, x) = d.block[n.ptr[NDirect + 1]].ptr[x - NDirect]
      BY <2>4, <3>1, <3>2, AtInner
    <3> QED
      BY <3>2, <3>3, <3>4
  <2> QED
    BY <2>1, <2>2, <2>3, <2>4
<1>2. Owned(d, {i}) \subseteq Has(d, n)
  BY <1>1 DEF Owned, Has
<1> QED
  BY <1>1, <1>2

\* How many of the places that len blocks need are empty.
Gap(d, n, len) == Cardinality({x \in Needed(len) : BlockAt(d, n, x) = None})

\* The places that some blocks need.
LEMMA NeededFacts ==
  ASSUME NEW len \in 0..FileBlocks
  PROVE  /\ Needed(len) \subseteq Places /\ IsFiniteSet(Needed(len))
         /\ \A k \in 1..len : k <= NDirect => k \in Needed(len)
         /\ \A k \in 1..len : ~(k <= NDirect) =>
               /\ Indirect \in Needed(len) /\ k \in Needed(len) /\ k - NDirect \in 1..PerIndirect
               /\ k \in Places /\ k > NDirect /\ k # Indirect
<1>1. Places = 1..Indirect /\ Indirect \in Nat /\ FileBlocks \in Nat /\ Indirect = FileBlocks + 1
      /\ FileBlocks = NDirect + PerIndirect /\ NDirect \in Nat /\ PerIndirect \in Nat
  BY PlaceFacts DEF Places
<1>2. len \in Nat /\ len <= FileBlocks
  BY <1>1
<1>3. Needed(len) \subseteq Places
  BY <1>1, <1>2 DEF Needed
<1>4. IsFiniteSet(Places)
  <2>1. 1 \in Int /\ Indirect \in Int
    BY <1>1
  <2> QED
    BY <1>1, <2>1, FS_Interval
<1>5. IsFiniteSet(Needed(len))
  BY <1>3, <1>4, FS_Subset
<1>6. \A k \in 1..len : k <= NDirect => k \in Needed(len)
  BY DEF Needed
<1>7. ASSUME NEW k \in 1..len, ~(k <= NDirect)
      PROVE  /\ Indirect \in Needed(len) /\ k \in Needed(len) /\ k - NDirect \in 1..PerIndirect
             /\ k \in Places /\ k > NDirect /\ k # Indirect
  <2>1. k > NDirect /\ k \in Nat /\ k <= len /\ len > NDirect
    BY <1>1, <1>2, <1>7
  <2>2. k - NDirect \in 1..PerIndirect /\ k \in Places /\ k # Indirect
    BY <1>1, <1>2, <2>1
  <2> QED
    BY <2>1, <2>2 DEF Needed
<1> QED
  BY <1>3, <1>5, <1>6, <1>7

\* Their number.
LEMMA GapFacts ==
  ASSUME NEW d, NEW n, NEW len \in 0..FileBlocks
  PROVE  /\ Gap(d, n, len) \in Nat
         /\ \A x \in Needed(len) : BlockAt(d, n, x) = None => Gap(d, n, len) > 0
<1> DEFINE S == {x \in Needed(len) : BlockAt(d, n, x) = None}
<1>1. IsFiniteSet(S)
  BY NeededFacts, FS_Subset, S \subseteq Needed(len)
<1>2. Cardinality(S) \in Nat /\ (S # {} => Cardinality(S) # 0)
  BY <1>1, FS_CardinalityType, FS_EmptySet
<1>3. Gap(d, n, len) = Cardinality(S)
  BY DEF Gap
<1>4. \A x \in Needed(len) : BlockAt(d, n, x) = None => S # {}
  OBVIOUS
<1> HIDE DEF S
<1> QED
  BY <1>2, <1>3, <1>4

\* A place that was empty takes a block that was free.
Fits1(d, n, t, m, x, b) ==
    /\ BlockAt(d, n, x) = None
    /\ \A y \in Places : BlockAt(t, m, y) = IF y = x THEN b ELSE BlockAt(d, n, y)

\* Then there is one more block, and one place less to fill.
LEMMA MoreBlocks ==
  ASSUME NEW d, NEW n, NEW t, NEW m, NEW x \in Places, NEW b, b # None, b \notin Has(d, n),
         Fits1(d, n, t, m, x, b), Single(d, n)
  PROVE  /\ Single(t, m) /\ Has(t, m) = Has(d, n) \cup {b}
         /\ \A len \in 0..FileBlocks : x \in Needed(len) => Gap(t, m, len) = Gap(d, n, len) - 1
<1>1. BlockAt(d, n, x) = None
      /\ \A y \in Places : BlockAt(t, m, y) = IF y = x THEN b ELSE BlockAt(d, n, y)
  BY DEF Fits1
<1>2. \A y \in Places : BlockAt(d, n, y) # b
  BY DEF Has
<1>3. \A y, z \in Places : BlockAt(d, n, y) = BlockAt(d, n, z) /\ BlockAt(d, n, y) # None => y = z
  BY DEF Single
<1>4. Single(t, m)
  BY <1>1, <1>2, <1>3 DEF Single
<1>5. Has(t, m) = Has(d, n) \cup {b}
  BY <1>1 DEF Has
<1>6. ASSUME NEW len \in 0..FileBlocks, x \in Needed(len) PROVE Gap(t, m, len) = Gap(d, n, len) - 1
  <2> DEFINE S == {y \in Needed(len) : BlockAt(d, n, y) = None}
             T == {y \in Needed(len) : BlockAt(t, m, y) = None}
  <2>1. Needed(len) \subseteq Places /\ IsFiniteSet(S)
    BY NeededFacts, FS_Subset, S \subseteq Needed(len)
  <2>2. T = S \ {x} /\ x \in S
    BY <1>1, <1>6, <2>1
  <2> HIDE DEF S, T
  <2>3. Cardinality(T) = Cardinality(S) - 1
    BY <2>1, <2>2, FS_RemoveElement
  <2> QED
    BY <2>3 DEF Gap, S, T
<1> QED
  BY <1>4, <1>5, <1>6

----------------------------------------------------------------------------
(* The loop of ext2_write_file.                                             *)

\* File i, the entry a of directory p, is being written: log so far, n in memory.
Fill(log, n, K, p, a, i, exact) ==
    /\ Now(log, K, {}, Has(Last(log), n) \ Owned(Last(log), {i}), 0, exact)
    /\ n \in DiskInodes /\ n.kind = "file" /\ n.links = 1
    /\ Ahead(Last(log), i, n) /\ Single(Last(log), n)
    /\ i \in K /\ Last(log).inode[i].kind = "file"
    /\ p \in Dirs(Last(log)) /\ Lookup(Last(log), p, a) = i

\* There are enough free blocks for the rest.
Ample(log, n, len) == Gap(Last(log), n, len) <= Last(log).mem

\* What Fill says of the blocks of disk c.
FillSays(c, n, K, i, exact) ==
    /\ c \in Disks /\ K \in SUBSET Inodes /\ i \in Inodes /\ n \in DiskInodes
    /\ State(c, K, {}, Has(c, n) \ Owned(c, {i}), 0, exact)
    /\ Owned(c, {i}) \subseteq Has(c, n) /\ Owned(c, {i}) \subseteq Owned(c, K)
    /\ Has(c, n) \subseteq c.buse /\ c.buse \subseteq Blocks /\ c.mem \in Nat
    /\ \A k \in 1..(NDirect + 1) : n.ptr[k] \in Blocks \cup {None}
    /\ n.ptr[NDirect + 1] # None => n.ptr[NDirect + 1] \in Has(c, n)
    /\ exact => c.mem = Cardinality(Blocks \ c.buse)

\* The loop keeps the blocks of the file, on the disk and in memory, in use.
LEMMA FillFacts ==
  ASSUME NEW log, NEW n, NEW K, NEW p, NEW a, NEW i, NEW exact, Fill(log, n, K, p, a, i, exact),
         NEW c, c = Last(log)
  PROVE  FillSays(c, n, K, i, exact)
<1>1. /\ c \in Disks /\ K \in SUBSET Inodes /\ i \in Inodes /\ n \in DiskInodes
      /\ State(c, K, {}, Has(c, n) \ Owned(c, {i}), 0, exact)
      /\ Bits(c, K, Owned(c, K), {}, Has(c, n) \ Owned(c, {i}), exact) /\ c.mem \in Nat
      /\ c.buse \in SUBSET Blocks /\ i \in K
  BY NowFacts DEF Fill
<1>2. Owned(c, {i}) \subseteq Has(c, n)
  BY AheadFacts DEF Fill
<1>3. Owned(c, {i}) \subseteq Owned(c, K)
  BY <1>1 DEF Owned
<1>4. Has(c, n) \subseteq c.buse
  BY <1>1, <1>2, <1>3 DEF Bits
<1>5. \A k \in 1..(NDirect + 1) : n.ptr[k] \in Blocks \cup {None}
  BY <1>1 DEF DiskInodes
<1>6. n.ptr[NDirect + 1] # None => n.ptr[NDirect + 1] \in Has(c, n)
  <2>1. BlockAt(c, n, Indirect) = n.ptr[NDirect + 1]
    BY BlockAtCases
  <2> QED
    BY <2>1, PlaceFacts DEF Has
<1>7. exact => c.mem = Cardinality(Blocks \ c.buse)
  BY <1>1 DEF Bits
<1> QED
  BY <1>1, <1>2, <1>3, <1>4, <1>5, <1>6, <1>7 DEF FillSays

\* Before the first crash there is a block for each empty place.
LEMMA BlockThere ==
  ASSUME NEW log, NEW n, NEW K, NEW p, NEW a, NEW i, NEW exact, Fill(log, n, K, p, a, i, exact),
         NEW len \in 0..FileBlocks, exact, Ample(log, n, len),
         NEW x \in Needed(len), BlockAt(Last(log), n, x) = None
  PROVE  NextBlock(log) # None
<1> DEFINE c == Last(log)
<1>1. Gap(c, n, len) \in Nat /\ Gap(c, n, len) > 0
  BY GapFacts
<1>2. c.mem \in Nat /\ c.mem = Cardinality(Blocks \ c.buse)
  BY FillFacts DEF FillSays
<1>3. Cardinality(Blocks \ c.buse) > 0
  BY <1>1, <1>2 DEF Ample
<1>4. ~(Blocks \subseteq c.buse)
  <2>1. SUFFICES ASSUME Blocks \subseteq c.buse PROVE FALSE
    OBVIOUS
  <2>2. Blocks \ c.buse = {}
    BY <2>1
  <2>3. Cardinality(Blocks \ c.buse) = 0
    BY <2>2, FS_EmptySet
  <2> QED
    BY <1>3, <2>3
<1> QED
  BY <1>4, FirstFreeIs, NumberFacts DEF NextBlock

\* Enough blocks stay after one has been taken.
LEMMA StillAmple ==
  ASSUME NEW log, NEW n, NEW got, NEW m, NEW len \in 0..FileBlocks, NEW x \in Needed(len),
         BlockAt(Last(log), n, x) = None, Last(log).mem \in Nat,
         Gap(Last(got), m, len) = Gap(Last(log), n, len) - 1,
         Last(got).mem = IF Last(log).mem > 0 THEN Last(log).mem - 1 ELSE 0,
         Ample(log, n, len)
  PROVE  Ample(got, m, len)
<1>1. Gap(Last(log), n, len) \in Nat /\ Gap(Last(log), n, len) > 0
  BY GapFacts
<1> QED
  BY <1>1 DEF Ample

\* The place that the k-th pointer of an inode is.
PlaceOfPointer(k) == IF k = NDirect + 1 THEN Indirect ELSE k

\* m is n but for pointer k, which is b.
PtrSet(n, m, k, b) ==
    /\ m \in DiskInodes /\ m.kind = n.kind /\ m.links = n.links /\ m.ptr[k] = b
    /\ \A h \in 1..(NDirect + 1) : h # k => m.ptr[h] = n.ptr[h]

\* A pointer is set in memory.
LEMMA PtrWrite ==
  ASSUME NEW n \in DiskInodes, NEW k \in 1..(NDirect + 1), NEW b \in Blocks, NEW m,
         m = [n EXCEPT !.ptr[k] = b]
  PROVE  PtrSet(n, m, k, b)
<1> DEFINE q == [n.ptr EXCEPT ![k] = b]
<1>1. n.ptr \in [1..(NDirect + 1) -> Blocks \cup {None}]
  BY DEF DiskInodes
<1>2. q \in [1..(NDirect + 1) -> Blocks \cup {None}] /\ q[k] = b
      /\ \A h \in 1..(NDirect + 1) : h # k => q[h] = n.ptr[h]
  BY <1>1
<1>3. m = [n EXCEPT !.ptr = q]
  OBVIOUS
<1> HIDE DEF q
<1>4. m \in DiskInodes /\ m.kind = n.kind /\ m.links = n.links /\ m.ptr = q
  BY <1>2, <1>3 DEF DiskInodes
<1> QED
  BY <1>2, <1>4 DEF PtrSet

\* The k-th pointer takes block b, which has just been got.
LEMMA PointFits ==
  ASSUME NEW d, NEW t, NEW n, NEW K, NEW i, NEW exact, FillSays(d, n, K, i, exact),
         NEW b, Got(d, t, b), NEW k \in 1..(NDirect + 1), n.ptr[k] = None,
         NEW m, PtrSet(n, m, k, b)
  PROVE  Fits1(d, n, t, m, PlaceOfPointer(k), b) /\ PlaceOfPointer(k) \in Places
<1> DEFINE x == PlaceOfPointer(k)
           N == NDirect + 1
<1>0. /\ b \in Blocks /\ Has(d, n) \subseteq d.buse /\ d.buse \subseteq Blocks
      /\ n.ptr[N] # None => n.ptr[N] \in Has(d, n)
      /\ m.ptr[k] = b /\ \A h \in 1..N : h # k => m.ptr[h] = n.ptr[h]
  BY DEF FillSays, PtrSet, Got
<1>1. k \in 1..NDirect \/ k = N
  BY PointersAssumption
<1>2. /\ k = N => x = Indirect
      /\ k \in 1..NDirect => x = k /\ k # N
  <2>1. k \in 1..NDirect => k # N
    BY PointersAssumption
  <2> QED
    BY <2>1 DEF PlaceOfPointer
<1>3. x \in Places
  BY <1>1, <1>2, PlaceFacts
<1>4. b # None /\ b \notin d.buse /\ t.block[b] = Blank /\ \A c \in Blocks : c # b => t.block[c] = d.block[c]
  BY <1>0, NumberFacts DEF Got
<1>5. N \in 1..N /\ \A y \in 1..NDirect : y \in 1..N /\ y # N /\ y # Indirect /\ y \in Places
  BY PlaceFacts
<1>6. BlockAt(d, n, x) = None
  <2>1. CASE k = N
    BY <1>2, <2>1, BlockAtCases
  <2>2. CASE k \in 1..NDirect
    BY <1>2, <2>2, BlockAtCases
  <2> QED
    BY <1>1, <2>1, <2>2
<1>7. ASSUME NEW y \in Places PROVE BlockAt(t, m, y) = IF y = x THEN b ELSE BlockAt(d, n, y)
  <2>1. y \in 1..NDirect \/ y = Indirect \/ (y > NDirect /\ y # Indirect /\ y - NDirect \in 1..PerIndirect)
    BY PlaceFacts
  <2>2. CASE y \in 1..NDirect
    <3>4. BlockAt(t, m, y) = m.ptr[y]
      BY <2>2, BlockAtCases
    <3>1. BlockAt(t, m, y) = m.ptr[y] /\ y \in 1..N /\ y # Indirect
      BY <1>5, <2>2, <3>4
    <3>2. BlockAt(d, n, y) = n.ptr[y]
      BY <2>2, BlockAtCases
    <3>3. y = x <=> y = k
      BY <1>1, <1>2, <1>5, <2>2, <3>1
    <3> HIDE DEF x, N
    <3> QED
      BY <1>0, <3>1, <3>2, <3>3
  <2>3. CASE y = Indirect
    <3>1. BlockAt(t, m, Indirect) = m.ptr[N]
      BY BlockAtCases
    <3>2. BlockAt(d, n, Indirect) = n.ptr[N]
      BY BlockAtCases
    <3>3. y = x <=> k = N
      BY <1>1, <1>2, <1>5, <2>3
    <3>4. N # k => m.ptr[N] = n.ptr[N]
      BY <1>0, <1>5
    <3> HIDE DEF x, N
    <3> QED
      BY <1>0, <2>3, <3>1, <3>2, <3>3, <3>4
  <2>4. CASE y > NDirect /\ y # Indirect /\ y - NDirect \in 1..PerIndirect
    <3>1. y # x
      <4>1. ~(y \in 1..NDirect)
        BY <2>4, PointersAssumption
      <4> QED
        BY <1>1, <1>2, <2>4, <4>1
    <3>2. CASE k = N
      <4>1. BlockAt(d, n, y) = None
        BY <2>4, <3>2, BlockAtCases
      <4>2. m.ptr[N] = b
        BY <1>0, <3>2
      <4>3. BlockAt(t, m, y) = t.block[b].ptr[y - NDirect]
        BY <1>4, <2>4, <4>2, BlockAtCases
      <4>4. t.block[b].ptr[y - NDirect] = None
        BY <1>4, <2>4, BlankIs
      <4> QED
        BY <3>1, <4>1, <4>3, <4>4
    <3>3. CASE k # N
      <4> DEFINE q == n.ptr[N]
      <4>1. m.ptr[N] = q
        BY <1>0, <1>5, <3>3
      <4>2. CASE q = None
        <5>1. BlockAt(d, n, y) = None
          BY <2>4, <4>2, BlockAtCases
        <5>2. BlockAt(t, m, y) = None
          BY <2>4, <4>1, <4>2, AtNone
        <5> QED
          BY <3>1, <5>1, <5>2
      <4>3. CASE q # None
        <5>1. q \in Blocks /\ q # b
          BY <1>0, <1>4, <4>3
        <5>2. BlockAt(d, n, y) = d.block[q].ptr[y - NDirect]
          BY <2>4, <4>3, BlockAtCases
        <5>3. BlockAt(t, m, y) = t.block[m.ptr[N]].ptr[y - NDirect]
          BY <2>4, <4>1, <4>3, BlockAtCases
        <5> HIDE DEF q, N, x
        <5> QED
          BY <1>4, <3>1, <4>1, <5>1, <5>2, <5>3
      <4> QED
        BY <4>2, <4>3
    <3> QED
      BY <3>2, <3>3
  <2> QED
    BY <2>1, <2>2, <2>3, <2>4
<1> QED
  BY <1>3, <1>6, <1>7 DEF Fits1

\* What a step of the loop does to the free blocks, when it fills place x.
Takes(log, n, got, m, x) ==
    /\ x \in Places /\ BlockAt(Last(log), n, x) = None
    /\ Last(got).mem = IF Last(log).mem > 0 THEN Last(log).mem - 1 ELSE 0
    /\ \A len \in 0..FileBlocks : x \in Needed(len) =>
          Gap(Last(got), m, len) = Gap(Last(log), n, len) - 1

\* Point, where there is a block.
LEMMA PointStep ==
  ASSUME NEW log, NEW n, NEW K, NEW p, NEW a \in Names, NEW i, NEW exact,
         Fill(log, n, K, p, a, i, exact), NEW k \in 1..(NDirect + 1), n.ptr[k] = None,
         NEW b, b = NextBlock(log), b # None, NEW got, got = AllocBlock(log),
         NEW m, m = [n EXCEPT !.ptr[k] = b]
  PROVE  Fill(got, m, K, p, a, i, exact) /\ Takes(log, n, got, m, PlaceOfPointer(k))
<1> DEFINE c == Last(log)
           t == Last(got)
           B == Has(c, n) \ Owned(c, {i})
           x == PlaceOfPointer(k)
<1>0. FillSays(c, n, K, i, exact)
  BY FillFacts
<1>1. /\ c \in Disks /\ K \in SUBSET Inodes /\ n \in DiskInodes
      /\ Owned(c, {i}) \subseteq Has(c, n) /\ Has(c, n) \subseteq c.buse /\ c.buse \subseteq Blocks
      /\ n.ptr[NDirect + 1] # None => n.ptr[NDirect + 1] \in Has(c, n)
  BY <1>0 DEF FillSays
<1>2. /\ Now(log, K, {}, B, 0, exact) /\ n.kind = "file" /\ n.links = 1
      /\ Ahead(c, i, n) /\ Single(c, n) /\ i \in K /\ c.inode[i].kind = "file"
      /\ p \in Dirs(c) /\ Lookup(c, p, a) = i
  BY DEF Fill
<1> HIDE DEF B
<1>3. Now(got, K, {}, B \cup {b}, 0, exact) /\ Got(c, t, b) /\ Calm(c, t, K)
  BY <1>2, AllocBlockStep
<1> HIDE DEF c, t
<1>4. b \in Blocks /\ b \notin c.buse /\ t.inode = c.inode
      /\ t.mem = IF c.mem > 0 THEN c.mem - 1 ELSE 0
  BY <1>3 DEF Got
<1>5. /\ m \in DiskInodes /\ m.kind = "file" /\ m.links = 1 /\ m.ptr[k] = b
      /\ PtrSet(n, m, k, b) /\ \A h \in 1..(NDirect + 1) : h # k => m.ptr[h] = n.ptr[h]
  <2>1. PtrSet(n, m, k, b)
    BY <1>1, <1>4, PtrWrite
  <2> QED
    BY <1>2, <2>1 DEF PtrSet
<1>6. Fits1(c, n, t, m, x, b) /\ x \in Places
  <2> HIDE DEF x
  <2>4. Fits1(c, n, t, m, PlaceOfPointer(k), b) /\ PlaceOfPointer(k) \in Places
    BY <1>0, <1>3, <1>5, PointFits
  <2> QED
    BY <2>4 DEF x
<1> HIDE DEF x
<1>7. /\ Single(t, m) /\ Has(t, m) = Has(c, n) \cup {b}
      /\ \A len \in 0..FileBlocks : x \in Needed(len) => Gap(t, m, len) = Gap(c, n, len) - 1
  <2>1. b \notin Has(c, n) /\ b # None
    BY <1>1, <1>4, NumberFacts
  <2> QED
    BY <1>2, <1>6, <2>1, MoreBlocks
<1>8. Owned(t, {i}) = Owned(c, {i})
  BY <1>2, <1>3 DEF Calm, Owned
<1>9. B \cup {b} = Has(t, m) \ Owned(t, {i})
  <2>1. b \notin Owned(c, {i})
    BY <1>1, <1>4
  <2> QED
    BY <1>7, <1>8, <2>1 DEF B
<1>10. Ahead(t, i, m)
  <2>1. \A h \in 1..(NDirect + 1) : c.inode[i].ptr[h] # None => n.ptr[h] = c.inode[i].ptr[h]
    BY <1>2 DEF Ahead
  <2> QED
    BY <1>4, <1>5, <2>1 DEF Ahead
<1>11. p \in Dirs(t) /\ Lookup(t, p, a) = i
  BY <1>2, <1>3, CalmNames
<1>12. Fill(got, m, K, p, a, i, exact)
  <2>1. Now(got, K, {}, Has(t, m) \ Owned(t, {i}), 0, exact)
    BY <1>3, <1>9
  <2> QED
    BY <1>2, <1>4, <1>5, <1>7, <1>10, <1>11, <2>1 DEF Fill, t
<1>13. Takes(log, n, got, m, x)
  BY <1>4, <1>6, <1>7 DEF Takes, Fits1, c, t
<1> QED
  BY <1>12, <1>13 DEF x

\* t is d but for entry k of the indirect block q, which is b.
SlotSet(d, t, q, k, b) ==
    /\ t.iuse = d.iuse /\ t.buse = d.buse /\ t.inode = d.inode /\ t.mem = d.mem
    /\ \A c \in Blocks : t.block[c].ents = d.block[c].ents /\ (c # q => t.block[c] = d.block[c])
    /\ t.block[q].ptr[k] = b
    /\ \A h \in 1..PerIndirect : h # k => t.block[q].ptr[h] = d.block[q].ptr[h]

\* An entry of an indirect block is written.
LEMMA SlotWrite ==
  ASSUME NEW d \in Disks, NEW q \in Blocks, NEW k \in 1..PerIndirect, NEW b \in Blocks, NEW t,
         t = [d EXCEPT !.block[q].ptr[k] = b]
  PROVE  t \in Disks /\ SlotSet(d, t, q, k, b)
<1> DEFINE p == [d.block[q].ptr EXCEPT ![k] = b]
           c == [d.block[q] EXCEPT !.ptr = p]
<1>1. d.block[q] \in DiskBlocks
  BY DiskFacts
<1>2. d.block[q].ptr \in [1..PerIndirect -> Blocks \cup {None}]
  BY <1>1 DEF DiskBlocks
<1>3. p \in [1..PerIndirect -> Blocks \cup {None}] /\ p[k] = b
      /\ \A h \in 1..PerIndirect : h # k => p[h] = d.block[q].ptr[h]
  BY <1>2
<1>4. t = [d EXCEPT !.block[q] = c]
  OBVIOUS
<1> HIDE DEF p
<1>5. c \in DiskBlocks /\ c.ptr = p /\ c.ents = d.block[q].ents
  BY <1>1, <1>3 DEF DiskBlocks
<1> HIDE DEF c
<1>6. t \in Disks /\ BlockSet(d, t, q, c)
  BY <1>4, <1>5, BlockWrite
<1> QED
  BY <1>3, <1>5, <1>6 DEF SlotSet, BlockSet

\* The entry takes block b, which has just been got.
LEMMA SlotFits ==
  ASSUME NEW c, NEW n, NEW K, NEW i, NEW exact, FillSays(c, n, K, i, exact),
         NEW q, q = n.ptr[NDirect + 1], q # None, NEW s, NEW b, Got(c, s, b),
         NEW k \in 1..PerIndirect, c.block[q].ptr[k] = None, NEW u, SlotSet(s, u, q, k, b)
  PROVE  Fits1(c, n, u, n, k + NDirect, b) /\ k + NDirect \in Places /\ q \in Blocks /\ q # b
<1> DEFINE x == k + NDirect
<1>1. q \in Blocks /\ q # b
  BY DEF FillSays, Got
<1>2. x \in Places /\ x # Indirect /\ x > NDirect /\ x - NDirect = k
  <2>1. k \in Nat /\ k > 0 /\ NDirect \in Nat
    BY PointersAssumption
  <2>2. x \in Places /\ x # Indirect
    BY PlaceFacts
  <2> QED
    BY <2>1, <2>2
<1>3. s.block[q] = c.block[q]
  BY <1>1 DEF Got
<1>4. BlockAt(c, n, x) = None
  <2>1. BlockAt(c, n, x) = c.block[q].ptr[x - NDirect]
    BY <1>2, BlockAtCases
  <2> QED
    BY <1>2, <2>1
<1>5. ASSUME NEW y \in Places PROVE BlockAt(u, n, y) = IF y = x THEN b ELSE BlockAt(c, n, y)
  <2>1. y \in 1..NDirect \/ y = Indirect \/ (y > NDirect /\ y # Indirect /\ y - NDirect \in 1..PerIndirect)
    BY PlaceFacts
  <2>2. CASE y \in 1..NDirect
    <3>1. BlockAt(u, n, y) = n.ptr[y]
      BY <2>2, BlockAtCases
    <3>2. BlockAt(c, n, y) = n.ptr[y]
      BY <2>2, BlockAtCases
    <3>3. y # x
      BY <2>2, PointersAssumption
    <3> QED
      BY <3>1, <3>2, <3>3
  <2>3. CASE y = Indirect
    <3>1. BlockAt(u, n, Indirect) = n.ptr[NDirect + 1]
      BY BlockAtCases
    <3>2. BlockAt(c, n, Indirect) = n.ptr[NDirect + 1]
      BY BlockAtCases
    <3> QED
      BY <1>2, <2>3, <3>1, <3>2
  <2>4. CASE y > NDirect /\ y # Indirect /\ y - NDirect \in 1..PerIndirect
    <3>1. BlockAt(u, n, y) = u.block[q].ptr[y - NDirect]
      BY <2>4, BlockAtCases
    <3>2. BlockAt(c, n, y) = c.block[q].ptr[y - NDirect]
      BY <2>4, BlockAtCases
    <3>3. y = x <=> y - NDirect = k
      <4>1. y \in Nat /\ NDirect \in Nat /\ k \in Nat
        BY PlaceFacts
      <4> QED
        BY <4>1
    <3>4. u.block[q].ptr[y - NDirect] = IF y - NDirect = k THEN b ELSE s.block[q].ptr[y - NDirect]
      BY <2>4 DEF SlotSet
    <3> HIDE DEF x
    <3> QED
      BY <1>3, <3>1, <3>2, <3>3, <3>4
  <2> QED
    BY <2>1, <2>2, <2>3, <2>4
<1> QED
  BY <1>1, <1>2, <1>4, <1>5 DEF Fits1

\* The indirect block is in hand, so that no path notices.
LEMMA SlotInHand ==
  ASSUME NEW got, NEW K, NEW B, NEW exact, Now(got, K, {}, B, 0, exact), NEW q \in B,
         NEW s, s = Last(got), NEW k, NEW b, NEW u \in Disks, SlotSet(s, u, q, k, b)
  PROVE  Now(Wrote(got, u), K, {}, B, 0, exact) /\ Last(Wrote(got, u)) = u /\ Calm(s, u, K)
<1>1. s \in Disks /\ Bits(s, K, Owned(s, K), {}, B, exact) /\ s.buse \in SUBSET Blocks
  BY NowFacts
<1>2. Owned(s, K) \subseteq Blocks \ {q}
  BY <1>1 DEF Bits
<1>3. Alike(s, u, K)
  <2>1. u.inode = s.inode /\ \A c \in Blocks : c # q => u.block[c] = s.block[c]
    BY DEF SlotSet
  <2>2. \A c \in Owned(s, K) : c \in Blocks /\ c # q
    BY <1>2
  <2>3. \A c \in Owned(s, K) : u.block[c] = s.block[c]
    BY <2>1, <2>2
  <2> QED
    BY <2>1, <2>3 DEF Alike
<1>4. Bits(u, K, Owned(s, K), {}, B, exact)
  BY <1>1 DEF Bits, SlotSet
<1>5. exact => u.inode[Root].links = 1 + Cardinality(Dirs(s)) + 0
  <2>1. u.inode[Root].links = s.inode[Root].links
    BY DEF SlotSet
  <2>2. exact => s.inode[Root].links = 1 + Cardinality(Dirs(s)) + 0
    BY DEF Now, State, Book
  <2> QED
    BY <2>1, <2>2
<1> QED
  BY <1>3, <1>4, <1>5, QuietWrite

\* Block b, in hand, has become the k-th of the indirect block q of file i.
SlotReady(s, u, K, i, q, b, B, k) ==
    /\ i \in K /\ s.inode[i].kind = "file" /\ q \in Blocks /\ q = OwnBlock(s, i, Indirect)
    /\ b \in B /\ k \in 1..PerIndirect /\ s.block[q].ptr[k] = None
    /\ u \in Disks /\ SlotSet(s, u, q, k, b)

\* After that write the block is the file's.
SlotTaken(got, s, u, K, i, b, B, exact) ==
    /\ Now(Wrote(got, u), K, {}, B \ {b}, 0, exact) /\ Last(Wrote(got, u)) = u
    /\ SameNames(s, u) /\ Owned(u, {i}) = Owned(s, {i}) \cup {b}

\* It is the file's own, which gets block b with the entry.
LEMMA SlotOwn ==
  ASSUME NEW got, NEW K, NEW B, NEW exact, Now(got, K, {}, B, 0, exact), NEW s, s = Last(got),
         NEW i, NEW q, NEW b, NEW k, NEW u, SlotReady(s, u, K, i, q, b, B, k)
  PROVE  SlotTaken(got, s, u, K, i, b, B, exact)
<1>0. /\ i \in K /\ s.inode[i].kind = "file" /\ q \in Blocks /\ q = OwnBlock(s, i, Indirect)
      /\ b \in B /\ k \in 1..PerIndirect /\ s.block[q].ptr[k] = None
      /\ u \in Disks /\ SlotSet(s, u, q, k, b)
  BY DEF SlotReady
<1> DEFINE x == k + NDirect
<1>1. /\ s \in Disks /\ State(s, K, {}, B, 0, exact) /\ Bits(s, K, Owned(s, K), {}, B, exact)
      /\ K \in SUBSET Inodes /\ B \in SUBSET Blocks /\ LogOK(got)
  BY <1>0, NowFacts
<1>2. Kept(s, K) /\ Named(s, K) /\ Dirs(s) \subseteq K
  BY <1>0, <1>1 DEF State, Named
<1>3. q # None /\ b # None /\ s.inode[i].ptr[NDirect + 1] = q /\ u.inode[i].ptr[NDirect + 1] = q
  BY <1>0, <1>1, NumberFacts, OwnIndirect DEF SlotSet
<1>4. x \in Places /\ x # Indirect /\ x > NDirect /\ x - NDirect = k
  <2>1. k \in Nat /\ k > 0 /\ NDirect \in Nat
    BY <1>0, PointersAssumption
  <2>2. x \in Places /\ x # Indirect
    BY <1>0, PlaceFacts
  <2> QED
    BY <1>0, <2>1, <2>2
<1>5. ASSUME NEW y \in Places PROVE OwnBlock(u, i, y) = IF y = x THEN b ELSE OwnBlock(s, i, y)
  <2>1. y \in 1..NDirect \/ y = Indirect \/ (y > NDirect /\ y # Indirect /\ y - NDirect \in 1..PerIndirect)
    BY <1>0, PlaceFacts
  <2>2. CASE y \in 1..NDirect
    <3>1. OwnBlock(u, i, y) = u.inode[i].ptr[y]
      BY <2>2, OwnDirect
    <3>2. OwnBlock(s, i, y) = s.inode[i].ptr[y]
      BY <2>2, OwnDirect
    <3>3. y # x
      BY <1>4, <2>2, PointersAssumption
    <3>4. u.inode = s.inode
      BY <1>0 DEF SlotSet
    <3> QED
      BY <3>1, <3>2, <3>3, <3>4
  <2>3. CASE y = Indirect
    <3>1. OwnBlock(u, i, Indirect) = u.inode[i].ptr[NDirect + 1]
      BY <1>0, OwnIndirect
    <3>2. OwnBlock(s, i, Indirect) = s.inode[i].ptr[NDirect + 1]
      BY OwnIndirect
    <3> QED
      BY <1>0, <1>3, <1>4, <2>3, <3>1, <3>2
  <2>4. CASE y > NDirect /\ y # Indirect /\ y - NDirect \in 1..PerIndirect
    <3>1. OwnBlock(u, i, y) = u.block[q].ptr[y - NDirect]
      BY <1>0, <1>3, <2>4, OwnInner
    <3>2. OwnBlock(s, i, y) = s.block[q].ptr[y - NDirect]
      BY <1>0, <1>3, <2>4, OwnInner
    <3>3. y = x <=> y - NDirect = k
      <4>1. y \in Nat /\ NDirect \in Nat /\ k \in Nat
        BY <1>0, PlaceFacts
      <4> QED
        BY <1>0, <4>1
    <3>4. u.block[q].ptr[y - NDirect] = IF y - NDirect = k THEN b ELSE s.block[q].ptr[y - NDirect]
      BY <1>0, <2>4 DEF SlotSet
    <3> HIDE DEF x
    <3> QED
      BY <1>0, <3>1, <3>2, <3>3, <3>4
  <2> QED
    BY <1>0, <2>1, <2>2, <2>3, <2>4
<1>6. OwnBlock(s, i, x) = None
  <2>1. OwnBlock(s, i, x) = s.block[q].ptr[x - NDirect]
    BY <1>0, <1>3, <1>4, OwnInner
  <2> QED
    BY <1>0, <1>4, <2>1
<1>7. b \notin Owned(s, K) /\ Owned(s, {i}) \subseteq Owned(s, K)
  BY <1>0, <1>1 DEF Bits, Owned
<1> HIDE DEF x
<1>8. Owned(u, {i}) = Owned(s, {i}) \cup {b}
  BY <1>0, <1>3, <1>4, <1>5, <1>6 DEF Owned
<1>9. Gains(s, u, i, {b})
  <2>1. \A y, z \in Places : OwnBlock(s, i, y) = OwnBlock(s, i, z) /\ OwnBlock(s, i, y) # None => y = z
    BY <1>0, <1>2 DEF Kept
  <2>2. \A y \in Places : OwnBlock(s, i, y) # b
    BY <1>0, <1>3, <1>7 DEF Owned
  <2>3. Apart(u, i)
    BY <1>0, <1>5, <2>1, <2>2 DEF Apart
  <2> QED
    BY <1>0, <1>5, <1>6, <2>3 DEF Gains
<1>10. ASSUME NEW j \in K \ {i} PROVE SameBlocks(s, u, j)
  <2>1. OwnBlock(s, j, Indirect) \in Blocks \cup {None}
    BY <1>0, <1>1, OwnBlockType, PlaceFacts
  <2>2. OwnBlock(s, j, Indirect) # q
    <3>1. \A f, g \in K, v, w \in Places :
             OwnBlock(s, f, v) = OwnBlock(s, g, w) /\ OwnBlock(s, f, v) # None => f = g /\ v = w
      BY <1>0, <1>2 DEF Kept
    <3> QED
      BY <1>0, <1>3, <3>1, PlaceFacts
  <2>3. u.inode[j].ptr = s.inode[j].ptr
        /\ (OwnBlock(s, j, Indirect) # None =>
              u.block[OwnBlock(s, j, Indirect)].ptr = s.block[OwnBlock(s, j, Indirect)].ptr)
    BY <1>0, <2>1, <2>2 DEF SlotSet
  <2>4. \A y \in Places : OwnBlock(u, j, y) = OwnBlock(s, j, y)
    BY <1>0, <2>3, SamePlaces
  <2> QED
    BY <1>0, <2>4 DEF SameBlocks
<1>11. ASSUME NEW r \in Dirs(s) PROVE SameDir(s, u, r)
  <2>1. r \in Inodes /\ DirOk(s, r)
    BY <1>0, <1>1, <1>2 DEF Named
  <2>2. \A h \in 1..s.inode[r].size : s.inode[r].ptr[h] \in Blocks
    BY <1>0, <1>1, <2>1, DirFacts
  <2> QED
    BY <1>0, <2>2 DEF SameDir, SlotSet
<1>12. GrowsTo(s, u, K, i, {b})
  BY <1>0, <1>8, <1>9, <1>10, <1>11 DEF GrowsTo, SlotSet
<1>13. State(u, K, {}, B \ {b}, 0, exact) /\ SameNames(s, u)
  <2>1. State(s, K, {}, B, 0, exact) /\ i \in K /\ s.inode[i].kind = "file" /\ {b} \in SUBSET B
    BY <1>0, <1>1
  <2> QED
    BY <1>12, <2>1, Grow
<1>14. Moves(s, u)
  <2>1. u.inode = s.inode
    BY <1>0 DEF SlotSet
  <2> QED
    BY <1>0, <1>13, <2>1, SameTree DEF Moves
<1> QED
  BY <1>1, <1>8, <1>13, <1>14, Writes DEF SlotTaken

\* PointIndirect, where there is a block.
LEMMA PointIndirectStep ==
  ASSUME NEW log, NEW n, NEW K, NEW p, NEW a \in Names, NEW i, NEW exact,
         Fill(log, n, K, p, a, i, exact), NEW k \in 1..PerIndirect,
         NEW q, q = n.ptr[NDirect + 1], q # None, Last(log).block[q].ptr[k] = None,
         NEW b, b = NextBlock(log), b # None, NEW got, got = AllocBlock(log),
         NEW end, end = Wrote(got, [Last(got) EXCEPT !.block[q].ptr[k] = b])
  PROVE  Fill(end, n, K, p, a, i, exact) /\ Takes(log, n, end, n, k + NDirect)
<1> DEFINE c == Last(log)
           s == Last(got)
           B == Has(c, n) \ Owned(c, {i})
           u == [s EXCEPT !.block[q].ptr[k] = b]
           x == k + NDirect
<1>0. FillSays(c, n, K, i, exact)
  BY FillFacts
<1>1. /\ c \in Disks /\ K \in SUBSET Inodes /\ n \in DiskInodes
      /\ Owned(c, {i}) \subseteq Has(c, n) /\ Owned(c, {i}) \subseteq Owned(c, K)
      /\ Has(c, n) \subseteq c.buse /\ c.buse \subseteq Blocks /\ q \in Has(c, n)
  BY <1>0 DEF FillSays
<1>2. /\ Now(log, K, {}, B, 0, exact) /\ n.kind = "file" /\ n.links = 1
      /\ Ahead(c, i, n) /\ Single(c, n) /\ i \in K /\ c.inode[i].kind = "file"
      /\ p \in Dirs(c) /\ Lookup(c, p, a) = i
  BY DEF Fill
<1> HIDE DEF B
<1>3. Now(got, K, {}, B \cup {b}, 0, exact) /\ Got(c, s, b) /\ Calm(c, s, K)
  BY <1>2, AllocBlockStep
<1>4. s \in Disks /\ end = Wrote(got, u)
  BY <1>3, NowFacts
<1>5. c.block[q].ptr[k] = None
  OBVIOUS
<1>6. s = Last(got)
  OBVIOUS
<1> HIDE DEF c, s
<1>7. /\ b \in Blocks /\ b \notin c.buse /\ s.inode = c.inode
      /\ s.mem = IF c.mem > 0 THEN c.mem - 1 ELSE 0
      /\ \A e \in Blocks : e # b => s.block[e] = c.block[e]
  BY <1>3 DEF Got
<1>8. q \in Blocks /\ q # b /\ b # None /\ b \notin Has(c, n) /\ b \notin B /\ q # None
  BY <1>1, <1>7, NumberFacts DEF B
<1>9. u \in Disks /\ SlotSet(s, u, q, k, b)
  BY <1>4, <1>7, <1>8, SlotWrite
<1> HIDE DEF u
<1>10. Fits1(c, n, u, n, x, b) /\ x \in Places
  BY <1>0, <1>3, <1>5, <1>9, SlotFits
<1> HIDE DEF x
<1>11. /\ Single(u, n) /\ Has(u, n) = Has(c, n) \cup {b}
       /\ \A len \in 0..FileBlocks : x \in Needed(len) => Gap(u, n, len) = Gap(c, n, len) - 1
  <2>1. Single(c, n) /\ b # None /\ b \notin Has(c, n)
    BY <1>2, <1>8
  <2> QED
    BY <1>10, <2>1, MoreBlocks
<1>12. Owned(s, {i}) = Owned(c, {i})
  BY <1>2, <1>3, CalmOwned
<1>13. u.inode = s.inode /\ u.mem = s.mem
  BY <1>9 DEF SlotSet
<1>14. /\ Now(end, K, {}, Has(u, n) \ Owned(u, {i}), 0, exact) /\ Last(end) = u
       /\ SameNames(s, u)
  <2>1. CASE q \in B
    <3>1. Now(end, K, {}, B \cup {b}, 0, exact) /\ Last(end) = u /\ Calm(s, u, K)
      <4> DEFINE C == B \cup {b}
      <4>1. q \in C /\ Now(got, K, {}, C, 0, exact) /\ s = Last(got)
        BY <1>3, <1>6, <2>1
      <4> HIDE DEF C
      <4>2. Now(Wrote(got, u), K, {}, C, 0, exact) /\ Last(Wrote(got, u)) = u /\ Calm(s, u, K)
        BY <1>9, <4>1, SlotInHand
      <4> QED
        BY <1>4, <4>2 DEF C
    <3>2. Owned(u, {i}) = Owned(s, {i})
      BY <1>2, <3>1, CalmOwned
    <3>3. b \notin Owned(c, {i})
      BY <1>1, <1>7
    <3>4. B \cup {b} = Has(u, n) \ Owned(u, {i})
      <4>1. Has(u, n) = Has(c, n) \cup {b}
        BY <1>11
      <4>2. Owned(u, {i}) = Owned(c, {i})
        BY <1>12, <3>2
      <4>3. B = Has(c, n) \ Owned(c, {i})
        BY DEF B
      <4> QED
        BY <3>3, <4>1, <4>2, <4>3
    <3> QED
      BY <3>1, <3>4 DEF Calm
  <2>2. CASE q \notin B
    <3>1. q \in Owned(c, {i})
      BY <1>1, <2>2 DEF B
    <3>2. PICK y \in Places : q = OwnBlock(c, i, y)
      <4>1. \E j \in {i}, z \in Places : q = OwnBlock(c, j, z)
        BY <3>1 DEF Owned
      <4> QED
        BY <4>1
    <3>3. q = BlockAt(c, n, y) /\ q = BlockAt(c, n, Indirect) /\ Indirect \in Places
      <4>1. BlockAt(c, n, Indirect) = q
        BY BlockAtCases
      <4>2. OwnBlock(c, i, y) = BlockAt(c, n, y)
        BY <1>2, <1>8, <3>2, AheadFacts
      <4> QED
        BY <3>2, <4>1, <4>2, PlaceFacts
    <3>4. y = Indirect
      <4>1. \A v, w \in Places : BlockAt(c, n, v) = BlockAt(c, n, w) /\ BlockAt(c, n, v) # None => v = w
        BY <1>2 DEF Single
      <4> QED
        BY <1>8, <3>3, <4>1
    <3>5. q = OwnBlock(s, i, Indirect)
      <4>1. OwnBlock(s, i, Indirect) = OwnBlock(c, i, Indirect)
        BY <1>2, <1>3, PlaceFacts DEF Calm
      <4> QED
        BY <3>2, <3>4, <4>1
    <3>6. s.inode[i].kind = "file" /\ s.block[q].ptr[k] = None
      BY <1>2, <1>5, <1>7, <1>8
    <3>7. /\ Now(Wrote(got, u), K, {}, (B \cup {b}) \ {b}, 0, exact) /\ Last(Wrote(got, u)) = u
          /\ SameNames(s, u) /\ Owned(u, {i}) = Owned(s, {i}) \cup {b}
      <4> DEFINE U == B \cup {b}
      <4>1. b \in U /\ Now(got, K, {}, U, 0, exact)
        BY <1>3
      <4> HIDE DEF U
      <4>2. SlotReady(s, u, K, i, q, b, U, k)
        <5>1. i \in K /\ q \in Blocks
          BY <1>2, <1>8
        <5>2. k \in 1..PerIndirect
          OBVIOUS
        <5> QED
          BY <1>9, <3>5, <3>6, <4>1, <5>1, <5>2 DEF SlotReady
      <4>3. SlotTaken(got, s, u, K, i, b, U, exact)
        BY <1>6, <4>1, <4>2, SlotOwn
      <4> QED
        BY <4>3 DEF U, SlotTaken
    <3>8. (B \cup {b}) \ {b} = Has(u, n) \ Owned(u, {i})
      <4>1. (B \cup {b}) \ {b} = B
        BY <1>8
      <4>2. Has(u, n) \ Owned(u, {i}) = B
        BY <1>8, <1>11, <1>12, <3>7 DEF B
      <4> QED
        BY <4>1, <4>2
    <3> QED
      BY <1>4, <3>7, <3>8
  <2> QED
    BY <2>1, <2>2
<1>15. Ahead(u, i, n) /\ u.inode[i].kind = "file"
  <2>1. u.inode = c.inode
    BY <1>7, <1>13
  <2> QED
    BY <1>2, <2>1 DEF Ahead
<1>16. p \in Dirs(u) /\ Lookup(u, p, a) = i
  <2>1. Dirs(s) = Dirs(c) /\ Lookup(s, p, a) = i
    BY <1>2, <1>3, CalmNames
  <2> QED
    BY <1>2, <1>14, <2>1 DEF SameNames
<1>17. Fill(end, n, K, p, a, i, exact)
  BY <1>1, <1>2, <1>11, <1>14, <1>15, <1>16 DEF Fill
<1>18. Takes(log, n, end, n, x)
  BY <1>7, <1>10, <1>11, <1>13, <1>14 DEF Takes, Fits1, c
<1> QED
  BY <1>17, <1>18 DEF x

----------------------------------------------------------------------------
(* ext2_write_file.                                                         *)

\* The loop is under way: before the first crash nothing has failed and the blocks will do.
Going(w, K, p, a, i, len, exact) ==
    /\ w = [log |-> w.log, n |-> w.n, ok |-> w.ok] /\ w.ok \in BOOLEAN
    /\ Fill(w.log, w.n, K, p, a, i, exact)
    /\ exact => w.ok /\ Ample(w.log, w.n, len)

\* What a place of the pointers holds.
LEMMA AtPointer ==
  ASSUME NEW d, NEW n, NEW k \in 1..(NDirect + 1)
  PROVE  BlockAt(d, n, PlaceOfPointer(k)) = n.ptr[k] /\ PlaceOfPointer(k) \in Places
<1>1. k = NDirect + 1 \/ (k \in 1..NDirect /\ k # NDirect + 1)
  BY PointersAssumption
<1>2. CASE k = NDirect + 1
  <2>1. PlaceOfPointer(k) = Indirect
    BY <1>2 DEF PlaceOfPointer
  <2> QED
    BY <1>2, <2>1, BlockAtCases, PlaceFacts
<1>3. CASE k \in 1..NDirect /\ k # NDirect + 1
  <2>1. PlaceOfPointer(k) = k
    BY <1>3 DEF PlaceOfPointer
  <2>2. k <= NDirect
    BY <1>3, PointersAssumption
  <2>3. BlockAt(d, n, k) = n.ptr[k]
    BY <2>2 DEF BlockAt
  <2>4. k \in Places
    BY <1>3, PointersAssumption DEF Places, Indirect, FileBlocks
  <2> QED
    BY <2>1, <2>3, <2>4
<1> QED
  BY <1>1, <1>2, <1>3

\* The log of the loop's state changes alone.
LEMMA LogOnly ==
  ASSUME NEW w, NEW L, NEW n, NEW k, w = [log |-> L, n |-> n, ok |-> k], NEW e
  PROVE  [w EXCEPT !.log = e] = [log |-> e, n |-> n, ok |-> k]
  OBVIOUS

\* Its flag changes alone.
LEMMA OkOnly ==
  ASSUME NEW w, NEW L, NEW n, NEW k, w = [log |-> L, n |-> n, ok |-> k], NEW e
  PROVE  [w EXCEPT !.ok = e] = [log |-> L, n |-> n, ok |-> e]
  OBVIOUS

\* It is cleared.
LEMMA NotOk ==
  ASSUME NEW w, NEW L, NEW n, NEW k, w = [log |-> L, n |-> n, ok |-> k]
  PROVE  [w EXCEPT !.ok = FALSE] = [log |-> L, n |-> n, ok |-> FALSE]
<1> DEFINE e == FALSE
<1> HIDE DEF e
<1>1. [w EXCEPT !.ok = e] = [log |-> L, n |-> n, ok |-> e]
  BY OkOnly
<1> QED
  BY <1>1, Zenon DEF e

\* The inode in memory changes alone.
LEMMA InodeOnly ==
  ASSUME NEW w, NEW L, NEW n, NEW k, w = [log |-> L, n |-> n, ok |-> k], NEW e
  PROVE  [w EXCEPT !.n = e] = [log |-> L, n |-> e, ok |-> k]
  OBVIOUS

\* What Point does where there is something to do.
LEMMA PointIs ==
  ASSUME NEW w, w = [log |-> w.log, n |-> w.n, ok |-> w.ok], NEW k, w.ok = TRUE, w.n.ptr[k] = None
  PROVE  Point(w, k) = [log |-> AllocBlock(w.log), n |-> [w.n EXCEPT !.ptr[k] = NextBlock(w.log)],
                        ok |-> NextBlock(w.log) # None]
<1> DEFINE L == w.log
           n == w.n
           A == AllocBlock(L)
           b == NextBlock(L)
<1>1. Point(w, k) = [w EXCEPT !.ok = b # None, !.log = A, !.n.ptr[k] = b]
  BY DEF Point
<1>2. w = [log |-> L, n |-> n, ok |-> TRUE]
  OBVIOUS
<1> HIDE DEF L, n, A, b
<1>3. [w EXCEPT !.ok = b # None, !.log = A, !.n.ptr[k] = b]
         = [log |-> A, n |-> [n EXCEPT !.ptr[k] = b], ok |-> b # None]
  <2> DEFINE v1 == [w EXCEPT !.ok = b # None]
             v2 == [v1 EXCEPT !.log = A]
             v3 == [v2 EXCEPT !.n = [n EXCEPT !.ptr[k] = b]]
  <2>1. v1 = [log |-> L, n |-> n, ok |-> b # None]
    BY <1>2, OkOnly
  <2> HIDE DEF v1
  <2>2. v2 = [log |-> A, n |-> n, ok |-> b # None]
    BY <2>1, LogOnly
  <2> HIDE DEF v2
  <2>3. v3 = [log |-> A, n |-> [n EXCEPT !.ptr[k] = b], ok |-> b # None]
    BY <2>2, InodeOnly
  <2>4. v2.n = n
    BY <2>2
  <2>5. [w EXCEPT !.ok = b # None, !.log = A, !.n.ptr[k] = b] = v3
    BY <2>4 DEF v1, v2
  <2> QED
    BY <2>3, <2>5
<1> QED
  BY <1>1, <1>3 DEF L, n, A, b

\* Where there is no block the pointer stays as it is.
LEMMA PointFails ==
  ASSUME NEW n \in DiskInodes, NEW k \in 1..(NDirect + 1), n.ptr[k] = None
  PROVE  [n EXCEPT !.ptr[k] = None] = n
<1>1. n.ptr \in [1..(NDirect + 1) -> Blocks \cup {None}]
  BY DEF DiskInodes
<1>2. [n.ptr EXCEPT ![k] = None] = n.ptr
  BY <1>1
<1>3. [n EXCEPT !.ptr[k] = None] = [n EXCEPT !.ptr = [n.ptr EXCEPT ![k] = None]]
  OBVIOUS
<1>4. [n EXCEPT !.ptr = n.ptr] = n
  BY DEF DiskInodes
<1> QED
  BY <1>2, <1>3, <1>4

\* Taking a block leaves enough for the rest.
LEMMA TakesAmple ==
  ASSUME NEW log, NEW n, NEW got, NEW m, NEW x, Takes(log, n, got, m, x),
         NEW len \in 0..FileBlocks, x \in Needed(len), Last(log).mem \in Nat, Ample(log, n, len)
  PROVE  Ample(got, m, len)
<1>1. /\ BlockAt(Last(log), n, x) = None
      /\ Last(got).mem = IF Last(log).mem > 0 THEN Last(log).mem - 1 ELSE 0
      /\ Gap(Last(got), m, len) = Gap(Last(log), n, len) - 1
  BY DEF Takes
<1> QED
  BY <1>1, StillAmple

\* A pointer of the inode.
LEMMA PointGoes ==
  ASSUME NEW w, NEW K, NEW p, NEW a \in Names, NEW i, NEW len \in 0..FileBlocks, NEW exact,
         Going(w, K, p, a, i, len, exact), NEW k \in 1..(NDirect + 1),
         PlaceOfPointer(k) \in Needed(len), NEW v, v = Point(w, k)
  PROVE  Going(v, K, p, a, i, len, exact) /\ (v.ok => v.n.ptr[k] # None)
<1> DEFINE log == w.log
           n == w.n
           b == NextBlock(log)
           got == AllocBlock(log)
           m == [n EXCEPT !.ptr[k] = b]
<1>1. /\ w = [log |-> log, n |-> n, ok |-> w.ok] /\ w.ok \in BOOLEAN
      /\ Fill(log, n, K, p, a, i, exact) /\ (exact => w.ok /\ Ample(log, n, len))
  BY DEF Going
<1>2. n \in DiskInodes /\ Last(log).mem \in Nat
  <2>1. FillSays(Last(log), n, K, i, exact)
    BY <1>1, FillFacts
  <2> QED
    BY <2>1 DEF FillSays
<1>3. BlockAt(Last(log), n, PlaceOfPointer(k)) = n.ptr[k]
  BY AtPointer
<1>4. CASE ~w.ok \/ n.ptr[k] # None
  <2>1. v = w
    BY <1>4 DEF Point
  <2> QED
    BY <1>4, <2>1
<1>5. CASE w.ok = TRUE /\ n.ptr[k] = None
  <2>1. v = [log |-> got, n |-> m, ok |-> b # None]
    BY <1>1, <1>5, PointIs
  <2>2. v.log = got /\ v.n = m /\ v.ok = (b # None) /\ v = [log |-> v.log, n |-> v.n, ok |-> v.ok]
    BY <2>1
  <2>3. b = NextBlock(log) /\ got = AllocBlock(log) /\ m = [n EXCEPT !.ptr[k] = b]
    OBVIOUS
  <2>4. b = None => got = log
    BY DEF AllocBlock
  <2> HIDE DEF got, b, m, log, n
  <2>5. CASE b = None
    <3>1. v.log = log /\ v.n = n /\ ~v.ok
      BY <1>2, <1>5, <2>2, <2>3, <2>4, <2>5, PointFails
    <3>2. ~exact
      <4>1. SUFFICES ASSUME exact PROVE FALSE
        OBVIOUS
      <4>2. NextBlock(log) # None
        BY <1>1, <1>3, <1>5, <4>1, BlockThere
      <4> QED
        BY <2>3, <2>5, <4>2
    <3>3. Fill(v.log, v.n, K, p, a, i, exact) /\ v.ok \in BOOLEAN
      BY <1>1, <3>1, <2>2
    <3> QED
      BY <2>2, <3>1, <3>2, <3>3 DEF Going
  <2>6. CASE b # None
    <3>1. Fill(got, m, K, p, a, i, exact) /\ Takes(log, n, got, m, PlaceOfPointer(k))
      BY <1>1, <1>5, <2>3, <2>6, PointStep
    <3>2. exact => Ample(got, m, len)
      BY <1>1, <1>2, <3>1, TakesAmple
    <3>3. m.ptr[k] # None
      <4>1. b \in Blocks
        BY <2>3, <2>6, FirstFreeIs, NumberFacts DEF NextBlock
      <4>2. PtrSet(n, m, k, b)
        BY <1>2, <2>3, <4>1, PtrWrite
      <4> QED
        BY <2>6, <4>2 DEF PtrSet
    <3>4. v.ok = TRUE
      BY <2>2, <2>6
    <3> QED
      BY <2>2, <3>1, <3>2, <3>3, <3>4 DEF Going
  <2> QED
    BY <2>5, <2>6
<1> QED
  BY <1>1, <1>4, <1>5

\* An entry of the indirect block.
LEMMA PointIndirectGoes ==
  ASSUME NEW w, NEW K, NEW p, NEW a \in Names, NEW i, NEW len \in 0..FileBlocks, NEW exact,
         Going(w, K, p, a, i, len, exact), w.ok => w.n.ptr[NDirect + 1] # None,
         NEW k \in 1..PerIndirect, NEW x, x = k + NDirect, x \in Needed(len), x \in Places,
         NEW v, v = PointIndirect(w, k)
  PROVE  Going(v, K, p, a, i, len, exact)
<1> DEFINE log == w.log
           n == w.n
           q == n.ptr[NDirect + 1]
           b == NextBlock(log)
           got == AllocBlock(log)
           end == Wrote(got, [Last(got) EXCEPT !.block[q].ptr[k] = b])
<1>1. /\ w = [log |-> log, n |-> n, ok |-> w.ok] /\ w.ok \in BOOLEAN
      /\ Fill(log, n, K, p, a, i, exact) /\ (exact => w.ok /\ Ample(log, n, len))
  BY DEF Going
<1>2. Last(log).mem \in Nat
  <2>1. FillSays(Last(log), n, K, i, exact)
    BY <1>1, FillFacts
  <2> QED
    BY <2>1 DEF FillSays
<1>3. x > NDirect /\ x # Indirect /\ x - NDirect = k
  BY PointersAssumption DEF Indirect, FileBlocks
<1>4. q # None => BlockAt(Last(log), n, x) = Last(log).block[q].ptr[k]
  BY <1>3, BlockAtCases
<1>5. CASE ~w.ok \/ Last(log).block[q].ptr[k] # None
  <2>1. v = w
    BY <1>5 DEF PointIndirect
  <2> QED
    BY <2>1
<1>6. CASE w.ok = TRUE /\ Last(log).block[q].ptr[k] = None /\ b = None
  <2>1. v = [w EXCEPT !.ok = FALSE]
    BY <1>6 DEF PointIndirect
  <2>2. ~exact
    <3>1. SUFFICES ASSUME exact PROVE FALSE
      OBVIOUS
    <3>2. BlockAt(Last(log), n, x) = None
      BY <1>4, <1>6
    <3>3. NextBlock(log) # None
      BY <1>1, <3>1, <3>2, BlockThere
    <3> QED
      BY <1>6, <3>3
  <2> HIDE DEF log, n
  <2>3. v = [log |-> log, n |-> n, ok |-> FALSE]
    <3>1. w = [log |-> log, n |-> n, ok |-> w.ok]
      BY <1>1
    <3> QED
      BY <2>1, <3>1, NotOk
  <2>4. v.log = log /\ v.n = n /\ v.ok = FALSE /\ v = [log |-> v.log, n |-> v.n, ok |-> v.ok]
    BY <2>3
  <2> QED
    BY <1>1, <2>2, <2>4 DEF Going
<1>7. CASE w.ok = TRUE /\ Last(log).block[q].ptr[k] = None /\ b # None
  <2>1. v = [w EXCEPT !.log = end]
    BY <1>7 DEF PointIndirect
  <2>2. /\ b = NextBlock(log) /\ got = AllocBlock(log) /\ q = n.ptr[NDirect + 1]
        /\ end = Wrote(got, [Last(got) EXCEPT !.block[q].ptr[k] = b])
    OBVIOUS
  <2>3. q # None
    <3>1. w.n.ptr[NDirect + 1] # None
      BY <1>7
    <3> QED
      BY <3>1
  <2> HIDE DEF log, n, q, b, got, end
  <2>4. v = [log |-> end, n |-> n, ok |-> TRUE]
    <3>1. w = [log |-> log, n |-> n, ok |-> TRUE]
      BY <1>1, <1>7
    <3> QED
      BY <2>1, <3>1, LogOnly
  <2>5. v.log = end /\ v.n = n /\ v.ok = TRUE /\ v = [log |-> v.log, n |-> v.n, ok |-> v.ok]
    BY <2>4
  <2>6. Fill(end, n, K, p, a, i, exact) /\ Takes(log, n, end, n, k + NDirect)
    <3>1. /\ Fill(log, n, K, p, a, i, exact) /\ Last(log).block[q].ptr[k] = None /\ b # None
          /\ end = Wrote(got, [Last(got) EXCEPT !.block[q].ptr[k] = b])
          /\ q = n.ptr[NDirect + 1] /\ b = NextBlock(log) /\ got = AllocBlock(log)
      BY <1>1, <1>7, <2>2
    <3> QED
      BY <2>3, <3>1, PointIndirectStep
  <2>7. exact => Ample(end, n, len)
    <3>1. Takes(log, n, end, n, x)
      BY <2>6
    <3> QED
      BY <1>1, <1>2, <3>1, TakesAmple
  <2> QED
    BY <2>5, <2>6, <2>7 DEF Going
<1> QED
  BY <1>1, <1>5, <1>6, <1>7

\* One block of the file.
LEMMA MapBlockGoes ==
  ASSUME NEW w, NEW K, NEW p, NEW a \in Names, NEW i, NEW len \in 0..FileBlocks, NEW exact,
         Going(w, K, p, a, i, len, exact), NEW k \in 1..len
  PROVE  Going(MapBlock(w, k), K, p, a, i, len, exact)
<1>1. k \in Nat /\ k > 0 /\ NDirect \in Nat
  BY PlaceFacts
<1>2. CASE k <= NDirect
  <2>1. k \in 1..(NDirect + 1) /\ k # NDirect + 1
    BY <1>1, <1>2
  <2>2. PlaceOfPointer(k) \in Needed(len)
    BY <1>2, <2>1, NeededFacts DEF PlaceOfPointer
  <2>3. MapBlock(w, k) = Point(w, k)
    BY <1>2 DEF MapBlock
  <2> QED
    BY <2>1, <2>2, <2>3, PointGoes
<1>3. CASE ~(k <= NDirect)
  <2> DEFINE v == Point(w, NDirect + 1)
  <2>1. /\ Indirect \in Needed(len) /\ k \in Needed(len) /\ k - NDirect \in 1..PerIndirect /\ k \in Places
    BY <1>3, NeededFacts
  <2>2. MapBlock(w, k) = PointIndirect(v, k - NDirect)
    BY <1>3 DEF MapBlock
  <2>3. PlaceOfPointer(NDirect + 1) \in Needed(len) /\ NDirect + 1 \in 1..(NDirect + 1)
    BY <2>1, PlaceFacts DEF PlaceOfPointer
  <2>4. Going(v, K, p, a, i, len, exact) /\ (v.ok => v.n.ptr[NDirect + 1] # None)
    BY <2>3, PointGoes
  <2> HIDE DEF v
  <2>5. k = (k - NDirect) + NDirect
    BY <1>1
  <2>6. Going(PointIndirect(v, k - NDirect), K, p, a, i, len, exact)
    BY <2>1, <2>4, <2>5, PointIndirectGoes
  <2> QED
    BY <2>2, <2>6
<1> QED
  BY <1>2, <1>3

\* The inode in memory goes to the disk.
LEMMA WriteBack ==
  ASSUME NEW log, NEW n, NEW K, NEW p, NEW a \in Names, NEW i, NEW exact,
         Fill(log, n, K, p, a, i, exact), NEW c, c = Last(log),
         NEW t \in Disks, NEW m, InodeSet(c, t, i, m), m.kind = n.kind, m.links = n.links, m.ptr = n.ptr
  PROVE  GrowsTo(c, t, K, i, Has(c, n) \ Owned(c, {i}))
<1> DEFINE B == Has(c, n) \ Owned(c, {i})
<1>1. /\ n.kind = "file" /\ n.links = 1 /\ Ahead(c, i, n) /\ Single(c, n)
      /\ i \in K /\ c.inode[i].kind = "file" /\ State(c, K, {}, B, 0, exact)
  BY DEF Fill, Now
<1>2. c \in Disks /\ K \in SUBSET Inodes /\ Dirs(c) \subseteq K /\ \A q \in Dirs(c) : c.inode[q].kind = "dir"
  <2>1. State(c, K, {}, B, 0, exact)
    BY <1>1
  <2> HIDE DEF B
  <2>2. c \in Disks /\ K \in SUBSET Inodes /\ Dirs(c) \subseteq K /\ \A q \in Dirs(c) : DirOk(c, q)
    BY <2>1, KeptIn
  <2> QED
    BY <2>2 DEF DirOk
<1>3. c.inode[i].links = 1
  BY <1>1 DEF State, Kept
<1>4. /\ t.iuse = c.iuse /\ t.buse = c.buse /\ t.mem = c.mem /\ t.block = c.block
      /\ t.inode[i] = m /\ \A j \in Inodes \ {i} : t.inode[j] = c.inode[j]
  BY <1>1, <1>2 DEF InodeSet
<1>5. \A j \in K \ {i} : t.inode[j] = c.inode[j] /\ SameBlocks(c, t, j)
  BY <1>2, <1>4 DEF SameBlocks, OwnBlock, BlockAt
<1>6. \A x \in Places : OwnBlock(t, i, x) = BlockAt(c, n, x)
  BY <1>4 DEF OwnBlock, BlockAt
<1>7. Gains(c, t, i, B) /\ B \subseteq Owned(t, {i})
  <2>1. \A x \in Places : OwnBlock(c, i, x) # None => OwnBlock(c, i, x) = BlockAt(c, n, x)
    BY <1>1, AheadFacts
  <2>2. Apart(t, i)
    BY <1>1, <1>6 DEF Apart, Single
  <2>3. ASSUME NEW x \in Places
        PROVE  \/ OwnBlock(t, i, x) = OwnBlock(c, i, x)
               \/ OwnBlock(c, i, x) = None /\ OwnBlock(t, i, x) \in B
    <3>1. CASE OwnBlock(c, i, x) # None
      BY <1>6, <2>1, <3>1
    <3>2. CASE OwnBlock(c, i, x) = None /\ BlockAt(c, n, x) = None
      BY <1>6, <3>2
    <3>3. CASE OwnBlock(c, i, x) = None /\ BlockAt(c, n, x) # None
      <4>1. BlockAt(c, n, x) \in Has(c, n)
        BY <3>3 DEF Has
      <4>2. BlockAt(c, n, x) \notin Owned(c, {i})
        <5>1. SUFFICES ASSUME BlockAt(c, n, x) \in Owned(c, {i}) PROVE FALSE
          OBVIOUS
        <5>2. PICK y \in Places : OwnBlock(c, i, y) = BlockAt(c, n, x)
          BY <5>1 DEF Owned
        <5>3. BlockAt(c, n, y) = BlockAt(c, n, x)
          BY <2>1, <3>3, <5>2
        <5>4. y = x
          BY <1>1, <3>3, <5>3 DEF Single
        <5> QED
          BY <3>3, <5>2, <5>4
      <4> QED
        BY <1>6, <3>3, <4>1, <4>2
    <3> QED
      BY <3>1, <3>2, <3>3
  <2>4. Owned(t, {i}) = Has(c, n)
    BY <1>6 DEF Owned, Has
  <2> QED
    BY <2>2, <2>3, <2>4 DEF Gains
<1>8. \A q \in Dirs(c) : SameDir(c, t, q)
  BY <1>1, <1>2, <1>4 DEF SameDir
<1> HIDE DEF B
<1>9. GrowsTo(c, t, K, i, B)
  BY <1>1, <1>3, <1>4, <1>5, <1>7, <1>8 DEF GrowsTo
<1> QED
  BY <1>9 DEF B

\* What the tree shows of it is the size.
LEMMA ResizeMoves ==
  ASSUME NEW c \in Disks, NEW t, NEW K, K \in SUBSET Inodes, Named(c, K), SameNames(c, t),
         NEW p \in Dirs(c), NEW a \in Names, NEW i, i = Lookup(c, p, a), i # None,
         c.inode[i].kind = "file", NEW m, InodeSet(c, t, i, m), m.kind = "file",
         m.size \in 0..FileBlocks
  PROVE  Moves(c, t)
<1>1. /\ Dirs(c) \subseteq K
      /\ \A q \in Dirs(c), b \in Names : Lookup(c, q, b) \in (K \ {Root}) \cup {None}
      /\ \A q, r \in Dirs(c), e, b \in Names :
            Lookup(c, q, e) = Lookup(c, r, b) /\ Lookup(c, q, e) # None => q = r /\ e = b
  BY DEF Named
<1>2. i \in Inodes /\ \A q \in Dirs(c), b \in Names : Lookup(t, q, b) = Lookup(c, q, b)
  BY <1>1 DEF SameNames
<1>3. t.inode[i] = m /\ \A j \in Inodes \ {i} : t.inode[j] = c.inode[j]
  BY <1>2 DEF InodeSet
<1>4. ASSUME NEW q \in Dirs(c), NEW b \in Names, q # p \/ b # a
      PROVE  Lookup(t, q, b) = Lookup(c, q, b) /\ Shown(t, Lookup(c, q, b)) = Shown(c, Lookup(c, q, b))
  <2>1. Lookup(t, q, b) = Lookup(c, q, b)
    BY <1>2
  <2>2. CASE Lookup(c, q, b) = None
    BY <2>1, <2>2 DEF Shown
  <2>3. CASE Lookup(c, q, b) # None
    <3>1. Lookup(c, q, b) # i
      BY <1>1, <1>4, <2>3
    <3>2. Lookup(c, q, b) \in Inodes \ {i}
      BY <1>1, <2>3, <3>1
    <3>3. t.inode[Lookup(c, q, b)] = c.inode[Lookup(c, q, b)]
      BY <1>3, <3>2
    <3> QED
      BY <2>1, <3>3 DEF Shown
  <2> QED
    BY <2>2, <2>3
<1>5. Bare(c, Lookup(c, p, a)) /\ Bare(t, Lookup(t, p, a))
  BY <1>2, <1>3 DEF Bare
<1>6. OneName(c, t, p, a)
  BY <1>4, <1>5 DEF OneName
<1>7. PICK path : PlaceOf(c, t, p, a, path)
  BY <1>6, PlaceExists
<1>8. Shown(c, Lookup(c, p, a)).kind = "file"
  BY DEF Shown
<1>9. Shown(t, Lookup(t, p, a)) = NS!File(m.size)
  <2>1. Lookup(t, p, a) = i
    BY <1>2
  <2>2. Shown(t, i) = [kind |-> "file", size |-> m.size]
    BY <1>3 DEF Shown
  <2> QED
    BY <2>1, <2>2 DEF NS!File
<1>10. m.size \in 0..FileBlocks
  OBVIOUS
<1> QED
  BY <1>7, <1>8, <1>9, <1>10, MovesResize

\* Before the loop the inode in memory is the one on the disk.
LEMMA FillStart ==
  ASSUME NEW log, NEW K, NEW exact, NEW d, d = Last(log), Now(log, K, {}, {}, 0, exact),
         NEW p \in Dirs(d), NEW a \in Names, NEW i, i = Lookup(d, p, a), i # None,
         NEW n, n = d.inode[i], n.kind = "file"
  PROVE  Fill(log, n, K, p, a, i, exact)
<1>1. /\ d \in Disks /\ K \in SUBSET Inodes /\ State(d, K, {}, {}, 0, exact) /\ Kept(d, K) /\ Named(d, K)
  BY NowFacts DEF State
<1>2. i \in K
  BY <1>1 DEF Named
<1>3. i \in Inodes /\ n \in DiskInodes
  BY <1>1, <1>2, DiskFacts
<1>4. n.links = 1
  BY <1>1, <1>2 DEF Kept
<1>5. \A x \in Places : OwnBlock(d, i, x) = BlockAt(d, n, x)
  BY DEF OwnBlock
<1>6. Has(d, n) \ Owned(d, {i}) = {}
  BY <1>5 DEF Has, Owned
<1>7. Single(d, n)
  <2>1. \A j, h \in K, x, y \in Places :
           OwnBlock(d, j, x) = OwnBlock(d, h, y) /\ OwnBlock(d, j, x) # None => j = h /\ x = y
    BY <1>1 DEF Kept
  <2>2. \A x, y \in Places : OwnBlock(d, i, x) = OwnBlock(d, i, y) /\ OwnBlock(d, i, x) # None => x = y
    BY <1>2, <2>1
  <2> QED
    BY <1>5, <2>2 DEF Single
<1>8. Ahead(d, i, n)
  BY DEF Ahead
<1>9. Now(log, K, {}, Has(d, n) \ Owned(d, {i}), 0, exact)
  BY <1>6
<1> QED
  BY <1>2, <1>3, <1>4, <1>7, <1>8, <1>9 DEF Fill

\* After it the inode goes to the disk, if all blocks were there.
LEMMA FillEnd ==
  ASSUME NEW log, NEW n, NEW K, NEW p, NEW a \in Names, NEW i, NEW exact,
         Fill(log, n, K, p, a, i, exact), NEW len \in 0..FileBlocks,
         NEW m, m = [n EXCEPT !.size = len]
  PROVE  Now(SyncSuperblock(WriteInode(log, i, m)), K, {}, {}, 0, exact)
<1> DEFINE c == Last(log)
           B == Has(c, n) \ Owned(c, {i})
           t == [c EXCEPT !.inode[i] = m]
<1>1. /\ n \in DiskInodes /\ n.kind = "file" /\ i \in K /\ c.inode[i].kind = "file"
      /\ Now(log, K, {}, B, 0, exact) /\ p \in Dirs(c) /\ Lookup(c, p, a) = i
  BY DEF Fill
<1>2. c \in Disks /\ State(c, K, {}, B, 0, exact) /\ K \in SUBSET Inodes /\ LogOK(log) /\ i \in Inodes
  BY <1>1, NowFacts
<1>3. m \in DiskInodes /\ m.kind = n.kind /\ m.links = n.links /\ m.ptr = n.ptr /\ m.size = len
  BY <1>1 DEF DiskInodes
<1>4. t = [c EXCEPT !.inode[i] = m] /\ c = Last(log)
  OBVIOUS
<1> HIDE DEF t, c
<1>5. t \in Disks /\ InodeSet(c, t, i, m)
  BY <1>2, <1>3, <1>4, InodeWrite
<1>6. GrowsTo(c, t, K, i, B)
  BY <1>3, <1>4, <1>5, WriteBack
<1> HIDE DEF B
<1>7. State(t, K, {}, B \ B, 0, exact) /\ SameNames(c, t)
  <2>1. B \in SUBSET B
    OBVIOUS
  <2> QED
    BY <1>1, <1>2, <1>6, <2>1, Grow
<1>8. State(t, K, {}, {}, 0, exact)
  <2>1. B \ B = {}
    OBVIOUS
  <2> QED
    BY <1>7, <2>1
<1>9. Moves(c, t)
  <2>1. Named(c, K) /\ i # None /\ m.kind = "file" /\ m.size \in 0..FileBlocks
    BY <1>1, <1>2, <1>3, NumberFacts DEF State
  <2> QED
    BY <1>1, <1>2, <1>5, <1>7, <2>1, ResizeMoves
<1>10. Now(Wrote(log, t), K, {}, {}, 0, exact)
  BY <1>2, <1>4, <1>8, <1>9, Writes
<1>11. WriteInode(log, i, m) = Wrote(log, t)
  BY <1>4 DEF WriteInode
<1> QED
  BY <1>10, <1>11, SyncStep

\* ext2_write_file of a file that is there.
LEMMA WriteFileStep ==
  ASSUME NEW log, NEW K, NEW exact, NEW d, d = Last(log), Now(log, K, {}, {}, 0, exact),
         NEW p \in Dirs(d), NEW a \in Names, NEW i, i = Lookup(d, p, a), i # None,
         NEW n, n = d.inode[i], n.kind = "file", NEW len \in 0..FileBlocks, Gap(d, n, len) <= d.mem,
         NEW w, w = MapBlocks([log |-> log, n |-> n, ok |-> TRUE], len)
  PROVE  /\ w.ok => Now(SyncSuperblock(WriteInode(w.log, i, [w.n EXCEPT !.size = len])), K, {}, {}, 0, exact)
         /\ ~w.ok => Now(w.log, K, {}, {}, 0, exact)
<1> DEFINE s == [log |-> log, n |-> n, ok |-> TRUE]
<1>1. len \in Nat
  BY PlaceFacts
<1>2. PICK f : /\ f[0] = s /\ \A k \in 1..len : f[k] = MapBlock(f[k - 1], k)
               /\ MapBlocks(s, len) = f[len]
  BY <1>1, MapFold
<1>3. Going(s, K, p, a, i, len, exact)
  <2>1. Fill(log, n, K, p, a, i, exact)
    BY FillStart
  <2>2. Ample(log, n, len)
    BY DEF Ample
  <2>3. s.log = log /\ s.n = n /\ s.ok = TRUE
    OBVIOUS
  <2> HIDE DEF s
  <2>4. s = [log |-> s.log, n |-> s.n, ok |-> s.ok]
    BY <2>3 DEF s
  <2> QED
    BY <2>1, <2>2, <2>3, <2>4 DEF Going
<1> HIDE DEF s
<1>4. \A k \in 0..len : Going(f[k], K, p, a, i, len, exact)
  <2> DEFINE T == {k \in 0..len : Going(f[k], K, p, a, i, len, exact)}
  <2>1. 0 \in T
    BY <1>1, <1>2, <1>3
  <2>2. ASSUME NEW k \in 1..len, k - 1 \in T PROVE k \in T
    <3>1. Going(f[k - 1], K, p, a, i, len, exact)
      BY <2>2
    <3>2. f[k] = MapBlock(f[k - 1], k)
      BY <1>2
    <3>3. Going(MapBlock(f[k - 1], k), K, p, a, i, len, exact)
      BY <3>1, MapBlockGoes
    <3>4. k \in 0..len
      BY <1>1
    <3> QED
      BY <3>2, <3>3, <3>4
  <2> HIDE DEF T
  <2>3. \A k \in 0..len : k \in T
    BY <1>1, <2>1, <2>2, UpTo
  <2> QED
    BY <2>3 DEF T
<1>5. w = f[len]
  BY <1>2 DEF s
<1>6. Going(w, K, p, a, i, len, exact)
  BY <1>1, <1>4, <1>5
<1>7. Fill(w.log, w.n, K, p, a, i, exact) /\ (exact => w.ok) /\ w.ok \in BOOLEAN
  BY <1>6 DEF Going
<1>8. ASSUME w.ok PROVE Now(SyncSuperblock(WriteInode(w.log, i, [w.n EXCEPT !.size = len])), K, {}, {}, 0, exact)
  <2> DEFINE m == [w.n EXCEPT !.size = len]
  <2>1. m = [w.n EXCEPT !.size = len]
    OBVIOUS
  <2> HIDE DEF m
  <2>2. Now(SyncSuperblock(WriteInode(w.log, i, m)), K, {}, {}, 0, exact)
    BY <1>7, <2>1, FillEnd
  <2> QED
    BY <2>1, <2>2
<1>9. ASSUME ~w.ok PROVE Now(w.log, K, {}, {}, 0, exact)
  <2> DEFINE c == Last(w.log)
             B == Has(c, w.n) \ Owned(c, {i})
  <2>1. ~exact
    BY <1>7, <1>9
  <2>2. Now(w.log, K, {}, B, 0, exact)
    BY <1>7 DEF Fill
  <2> HIDE DEF B
  <2>3. State(c, K, {}, B, 0, exact) /\ LogOK(w.log)
    BY <2>2 DEF Now
  <2>4. Bits(c, K, Owned(c, K), {}, {}, exact)
    BY <2>1, <2>3 DEF State, Bits
  <2>5. State(c, K, {}, {}, 0, exact)
    BY <2>1, <2>3, <2>4 DEF State
  <2> QED
    BY <2>3, <2>5 DEF Now
<1> QED
  BY <1>8, <1>9

----------------------------------------------------------------------------
(* The invariant.                                                           *)

\* Where an operation begins.
LEMMA Start ==
  ASSUME FsInv, todo = <<>>
  PROVE  \E K : Now(<<disk>>, K, {}, {}, 0, crashes = MaxCrashes)
<1>1. Sound(disk) /\ (crashes = MaxCrashes => Settled(disk))
  BY DEF FsInv
<1>2. disk \in Disks
  BY <1>1 DEF Sound, State
<1>3. Moves(disk, disk)
  BY DEF Moves
<1>4. LogOK(<<disk>>) /\ Last(<<disk>>) = disk
  <2>1. <<disk>> \in Seq(Disks) /\ Len(<<disk>>) = 1 /\ <<disk>>[1] = disk
    BY <1>2
  <2>2. \A j \in 1..1 : j = 1
    OBVIOUS
  <2>3. \A j \in 1..0 : FALSE
    OBVIOUS
  <2> QED
    BY <1>1, <2>1, <2>2, <2>3 DEF LogOK, Last
<1>5. CASE crashes = MaxCrashes
  <2>1. State(disk, disk.iuse, {}, {}, 0, TRUE)
    BY <1>1, <1>5 DEF Settled
  <2>2. State(disk, disk.iuse, {}, {}, 0, crashes = MaxCrashes)
    BY <1>5, <2>1 DEF State, Bits
  <2> QED
    BY <1>4, <2>2 DEF Now
<1>6. CASE crashes # MaxCrashes
  <2>1. PICK K : State(disk, K, {}, {}, 0, FALSE)
    BY <1>1 DEF Sound
  <2>2. State(disk, K, {}, {}, 0, crashes = MaxCrashes)
    BY <1>6, <2>1 DEF State, Bits
  <2> QED
    BY <1>4, <2>2 DEF Now
<1> QED
  BY <1>5, <1>6

\* The operation is settled as a whole.
LEMMA BeginStep ==
  ASSUME FsInv, NEW log, NEW L, NEW exact, exact <=> crashes = MaxCrashes,
         Now(log, L, {}, {}, 0, exact), Begin(log)
  PROVE  FsInv'
<1>1. /\ LogOK(log) /\ State(Last(log), L, {}, {}, 0, exact)
  BY DEF Now
<1>2. /\ todo = <<>> /\ ops > 0 /\ Len(log) > 1 /\ todo' = Tail(log) /\ ops' = ops - 1
      /\ disk' = disk /\ crashes' = crashes
  BY DEF Begin
<1>3. /\ log \in Seq(Disks) /\ log[1] = disk /\ \A j \in 1..Len(log) : Sound(log[j])
      /\ \A j \in 1..(Len(log) - 1) : Moves(log[j], log[j + 1])
  BY <1>1 DEF LogOK
<1>4. /\ todo' \in Seq(Disks) /\ Len(todo') = Len(log) - 1 /\ todo' # <<>>
      /\ \A j \in 1..Len(todo') : todo'[j] = log[j + 1]
  <2>1. Len(log) \in Nat /\ log # <<>>
    BY <1>2, <1>3
  <2>2. todo' = Tail(log)
    BY <1>2
  <2>3. todo' \in Seq(Disks) /\ Len(todo') = Len(log) - 1
    BY <1>3, <2>1, <2>2
  <2>4. \A j \in 1..Len(todo') : todo'[j] = log[j + 1]
    BY <1>3, <2>1, <2>2
  <2>5. todo' # <<>>
    <3>1. SUFFICES ASSUME todo' = <<>> PROVE FALSE
      OBVIOUS
    <3>2. Len(todo') = 0
      BY <3>1
    <3> QED
      BY <1>2, <2>1, <2>3, <3>2
  <2> QED
    BY <2>3, <2>4, <2>5
<1>5. \A j \in 1..Len(todo') : Sound(todo'[j])
  <2>1. \A j \in 1..Len(todo') : j + 1 \in 1..Len(log)
    BY <1>3, <1>4
  <2> QED
    BY <1>3, <1>4, <2>1
<1>6. Moves(disk, todo'[1])
  <2>1. 1 \in 1..(Len(log) - 1) /\ 1 \in 1..Len(todo')
    BY <1>2, <1>3, <1>4
  <2>2. todo'[1] = log[1 + 1]
    BY <1>4, <2>1
  <2> QED
    BY <1>3, <2>1, <2>2
<1>7. \A j \in 1..(Len(todo') - 1) : Moves(todo'[j], todo'[j + 1])
  <2>1. ASSUME NEW j \in 1..(Len(todo') - 1)
        PROVE  j + 1 \in 1..(Len(log) - 1) /\ j \in 1..Len(todo') /\ j + 1 \in 1..Len(todo')
    BY <1>3, <1>4
  <2> QED
    BY <1>3, <1>4, <2>1
<1>8. Last(todo') = Last(log)
  <2>1. Len(todo') \in 1..Len(todo') /\ Len(todo') + 1 = Len(log)
    BY <1>2, <1>3, <1>4
  <2>2. todo'[Len(todo')] = log[Len(todo') + 1]
    BY <1>4, <2>1
  <2> QED
    BY <2>1, <2>2 DEF Last
<1>9. crashes' = MaxCrashes => Settled(Last(log))
  <2>1. SUFFICES ASSUME crashes' = MaxCrashes PROVE Settled(Last(log))
    OBVIOUS
  <2>2. exact
    BY <1>2, <2>1
  <2>3. L = Last(log).iuse
    BY <1>1, <2>2 DEF State, Bits
  <2>4. State(Last(log), L, {}, {}, 0, TRUE)
    BY <1>1, <2>2 DEF State, Bits
  <2> QED
    BY <2>3, <2>4 DEF Settled
<1>10. Sound(disk) /\ ops' \in 0..MaxOps /\ crashes' \in 0..MaxCrashes
  <2>1. Sound(disk) /\ ops \in 0..MaxOps /\ crashes \in 0..MaxCrashes
    BY DEF FsInv
  <2> QED
    BY <1>2, <2>1, BoundsAssumption
<1> QED
  <2>1. Sound(disk') /\ Moves(disk', todo'[1]) /\ (crashes' = MaxCrashes => Settled(Last(todo')))
    BY <1>2, <1>6, <1>8, <1>9, <1>10
  <2>2. /\ (todo' # <<>> => Moves(disk', todo'[1]))
        /\ (crashes' = MaxCrashes => Settled(IF todo' = <<>> THEN disk' ELSE Last(todo')))
    BY <1>4, <2>1
  <2> QED
    BY <1>4, <1>5, <1>7, <1>10, <2>1, <2>2 DEF FsInv

\* The disk that is formatted.
LEMMA InitInv ==
  ASSUME FsInit
  PROVE  FsInv /\ \A a \in Names : Lookup(disk, Root, a) = None
<1> DEFINE K == {Root}
<1>1. /\ disk.iuse = {Root} /\ disk.buse = {1} /\ disk.sb = NBlocks - 1 /\ disk.mem = NBlocks - 1
      /\ disk.inode = [i \in Inodes |-> IF i = Root THEN NewDir(1) ELSE Unwritten]
      /\ disk.block = [b \in Blocks |-> Blank]
      /\ disk = [iuse |-> disk.iuse, buse |-> disk.buse, inode |-> disk.inode,
                 block |-> disk.block, sb |-> disk.sb, mem |-> disk.mem]
      /\ todo = <<>> /\ ops = MaxOps /\ crashes = MaxCrashes
  BY DEF FsInit
<1>2. /\ NewDir(1) \in DiskInodes /\ NewDir(1).kind = "dir" /\ NewDir(1).links = 2 /\ NewDir(1).size = 1
      /\ \A k \in 1..(NDirect + 1) : NewDir(1).ptr[k] = IF k = 1 THEN 1 ELSE None
  BY NewInodes, NumberFacts
<1>3. disk \in Disks
  <2>1. Unwritten \in DiskInodes
    BY NewInodes, PlaceFacts, LinkFacts DEF Unwritten, DiskInodes
  <2>2. disk.inode \in [Inodes -> DiskInodes] /\ disk.block \in [Blocks -> DiskBlocks]
    BY <1>1, <1>2, <2>1, BlankIs
  <2>3. disk.iuse \in SUBSET Inodes /\ disk.buse \in SUBSET Blocks /\ disk.sb \in Nat /\ disk.mem \in Nat
    BY <1>1, NumberFacts, GroupAssumption
  <2> QED
    BY <1>1, <2>2, <2>3 DEF Disks
<1>4. disk.inode[Root] = NewDir(1) /\ \A b \in Blocks : disk.block[b] = Blank
  BY <1>1, NumberFacts
<1>5. Fresh(disk, Root, {1})
  BY <1>4, NumberFacts DEF Fresh
<1>6. /\ Owned(disk, {Root}) = {1} /\ Apart(disk, Root)
      /\ DirOk(disk, Root) /\ \A a \in Names : Lookup(disk, Root, a) = None
  BY <1>2, <1>3, <1>4, <1>5, FreshFacts, NumberFacts DEF EmptyDir
<1>7. Dirs(disk) = {Root} /\ Reach(disk) = {Root}
  <2>1. Dirs(disk) = {Root}
    BY <1>6 DEF Dirs
  <2> QED
    BY <1>6, <2>1 DEF Reach
<1>8. Kept(disk, {Root})
  BY <1>2, <1>4, <1>6 DEF Kept, Apart
<1>9. Bits(disk, {Root}, {1}, {}, {}, TRUE)
  <2>1. Cardinality(Blocks \ {1}) = NBlocks - 1
    <3>1. Cardinality(1..NBlocks) = NBlocks /\ IsFiniteSet(1..NBlocks)
      BY GroupAssumption, FS_Interval
    <3> QED
      BY <3>1, NumberFacts, FS_RemoveElement DEF Blocks
  <2> QED
    BY <1>1, <2>1 DEF Bits
<1>10. Named(disk, {Root})
  <2>1. \A p \in Dirs(disk), a \in Names : p = Root /\ Lookup(disk, p, a) = None
    BY <1>6, <1>7
  <2> QED
    BY <1>6, <1>7, <2>1 DEF Named
<1>11. Book(disk, {Root}, 0)
  <2>1. Cardinality(Dirs(disk)) = 1
    BY <1>7, FS_Singleton
  <2> QED
    BY <1>2, <1>4, <1>7, <2>1 DEF Book
<1>12. State(disk, {Root}, {}, {}, 0, TRUE)
  BY <1>3, <1>6, <1>8, <1>9, <1>10, <1>11 DEF State
<1>13. Settled(disk) /\ Sound(disk)
  BY <1>1, <1>12, StateIsSound DEF Settled
<1> QED
  BY <1>1, <1>6, <1>13, BoundsAssumption DEF FsInv

\* The machine stops, with a sound disk.
LEMMA StopStep ==
  ASSUME FsInv, NEW d, Sound(d), Stop(d)
  PROVE  FsInv' /\ TreeOf(disk') = TreeOf(d)
<1>1. PICK K : State(d, K, {}, {}, 0, FALSE)
  BY DEF Sound
<1>2. /\ crashes > 0 /\ crashes' = crashes - 1 /\ disk' = [d EXCEPT !.mem = d.sb]
      /\ todo' = <<>> /\ ops' = ops
  BY DEF Stop
<1> DEFINE t == disk'
<1>3. d \in Disks /\ d.sb \in Nat
  BY <1>1, DiskFacts DEF State
<1>4. /\ t \in Disks /\ t.iuse = d.iuse /\ t.buse = d.buse /\ t.inode = d.inode
      /\ t.block = d.block
  BY <1>2, <1>3, SbWrite
<1> HIDE DEF t
<1>5. Alike(d, t, K)
  BY <1>4, DataAlike DEF SameData
<1>6. Bits(t, K, Owned(d, K), {}, {}, FALSE)
  BY <1>1, <1>4 DEF State, Bits
<1>7. State(t, K, {}, {}, 0, FALSE) /\ Calm(d, t, K)
  BY <1>1, <1>4, <1>5, <1>6, Quiet
<1>8. Sound(disk')
  BY <1>7, StateIsSound DEF t
<1>9. crashes' # MaxCrashes /\ crashes' \in 0..MaxCrashes /\ ops' \in 0..MaxOps
  <2>1. crashes \in 0..MaxCrashes /\ ops \in 0..MaxOps
    BY DEF FsInv
  <2> QED
    BY <1>2, <2>1, BoundsAssumption
<1>10. todo' \in Seq(Disks) /\ Len(todo') = 0
  BY <1>2
<1> QED
  BY <1>2, <1>7, <1>8, <1>9, <1>10 DEF FsInv, Calm, t

\* It stops between two writes.
LEMMA CrashStep ==
  ASSUME FsInv, Crash
  PROVE  FsInv' /\ TreeOf(disk') = TreeOf(disk)
<1>1. Sound(disk) /\ Stop(disk)
  BY DEF FsInv, Crash
<1> QED
  BY <1>1, StopStep

----------------------------------------------------------------------------
(* An entry of which only the first sectors are there.                      *)

\* The write that makes e of d gives directory p, in its k-th block, the entry name for i.
Enters(d, e, p, k, name, i) ==
    /\ d \in Disks /\ e \in Disks /\ Sound(d) /\ Sound(e) /\ Moves(d, e)
    /\ p \in Dirs(d) /\ k \in 1..d.inode[p].size /\ name \in Names /\ i \in Inodes
    /\ Lookup(d, p, name) = None /\ EntSet(d, e, OwnBlock(d, p, k), name, i)

\* The names lead where they led, and name to i.
AddsTo(d, e, p, name, i) ==
    /\ e.inode = d.inode /\ Dirs(d) \subseteq Dirs(e) /\ i # None
    /\ \A j \in Inodes, x \in Places : OwnBlock(e, j, x) = OwnBlock(d, j, x)
    /\ \A q \in Dirs(d), a \in Names :
          Lookup(e, q, a) = IF q = p /\ a = name THEN i ELSE Lookup(d, q, a)

LEMMA EntersAdds ==
  ASSUME NEW d, NEW e, NEW p, NEW k, NEW name, NEW i, Enters(d, e, p, k, name, i)
  PROVE  AddsTo(d, e, p, name, i)
<1>1. /\ d \in Disks /\ e \in Disks /\ p \in Dirs(d) /\ k \in 1..d.inode[p].size
      /\ name \in Names /\ i \in Inodes /\ Lookup(d, p, name) = None
      /\ EntSet(d, e, OwnBlock(d, p, k), name, i)
  BY DEF Enters
<1>2. PICK K : State(d, K, {}, {}, 0, FALSE)
  BY DEF Enters, Sound
<1>3. K \in SUBSET Inodes /\ Kept(d, K) /\ Named(d, K) /\ \A q \in Dirs(d) : DirOk(d, q)
  BY <1>2, KeptIn DEF State
<1>4. AddsName(d, e, p, name, i)
  BY <1>1, <1>3, NameWrite
<1>5. ASSUME NEW q \in Dirs(d), NEW a \in Names
      PROVE  Lookup(e, q, a) = IF q = p /\ a = name THEN i ELSE Lookup(d, q, a)
  <2>1. CASE q = p
    BY <1>4, <2>1 DEF AddsName
  <2>2. CASE q # p
    <3>1. SameDir(d, e, q) /\ DirOk(d, q)
      BY <1>3, <1>4, <2>2 DEF AddsName
    <3> QED
      BY <2>2, <3>1, SameDirShows
  <2> QED
    BY <2>1, <2>2
<1>6. e.inode = d.inode
  BY <1>1 DEF EntSet
<1>7. Dirs(d) \subseteq Dirs(e)
  <2>1. SUFFICES ASSUME NEW q \in Dirs(d) PROVE q \in Dirs(e)
    OBVIOUS
  <2>2. CASE q = Root
    BY <2>2 DEF Dirs
  <2>3. CASE q # Root
    <3>1. PICK c \in Names : q = Lookup(d, Root, c) /\ q # None /\ d.inode[q].kind = "dir"
      BY <2>3 DEF Dirs
    <3>2. Root \in Dirs(d) /\ ~(Root = p /\ c = name)
      BY <1>1, <3>1 DEF Dirs
    <3>3. Lookup(e, Root, c) = q
      BY <1>5, <3>1, <3>2
    <3> QED
      BY <1>6, <3>1, <3>3 DEF Dirs
  <2> QED
    BY <2>2, <2>3
<1>8. \A j \in Inodes, x \in Places : OwnBlock(e, j, x) = OwnBlock(d, j, x)
  BY <1>1, EntBlocks
<1>9. i # None
  BY <1>1, NumberFacts
<1> QED
  BY <1>5, <1>6, <1>7, <1>8, <1>9 DEF AddsTo

\* Before it, no name led to i: L, the rest of what is kept afterwards, was kept.
Waits(d, e, L, p, i) ==
    /\ L \in SUBSET Inodes /\ i \in Inodes \ L /\ Kept(d, L) /\ Named(d, L)
    /\ d.inode[i].kind \in {"file", "dir"} /\ Owned(d, L) \cap Owned(d, {i}) = {}
    /\ d.inode[i].kind = "dir" =>
          /\ p = Root /\ d.inode[i].links = 2 /\ DirOk(d, i)
          /\ \A a \in Names : Lookup(e, i, a) = Lookup(d, i, a)

LEMMA EntersWaits ==
  ASSUME NEW d, NEW e, NEW p, NEW k, NEW name, NEW i, Enters(d, e, p, k, name, i),
         NEW K, State(e, K, {}, {}, 0, FALSE), NEW L, L = K \ {i}
  PROVE  i \in K /\ Waits(d, e, L, p, i)
<1>1. /\ d \in Disks /\ e \in Disks /\ p \in Dirs(d) /\ k \in 1..d.inode[p].size
      /\ name \in Names /\ i \in Inodes /\ Lookup(d, p, name) = None
      /\ EntSet(d, e, OwnBlock(d, p, k), name, i)
  BY DEF Enters
<1>2. /\ e.inode = d.inode /\ Dirs(d) \subseteq Dirs(e) /\ i # None
      /\ \A j \in Inodes, x \in Places : OwnBlock(e, j, x) = OwnBlock(d, j, x)
      /\ \A q \in Dirs(d), a \in Names :
            Lookup(e, q, a) = IF q = p /\ a = name THEN i ELSE Lookup(d, q, a)
  BY EntersAdds DEF AddsTo
<1>3. K \in SUBSET Inodes /\ Kept(e, K) /\ Named(e, K)
  BY KeptIn DEF State
<1>4. PICK H : State(d, H, {}, {}, 0, FALSE)
  BY DEF Enters, Sound
<1>5. H \in SUBSET Inodes /\ Kept(d, H) /\ Named(d, H)
  BY <1>4, KeptIn DEF State
<1>6. Lookup(e, p, name) = i /\ p \in Dirs(e) /\ Root \in Dirs(d)
  BY <1>1, <1>2 DEF Dirs
<1>7. i \in K \ {Root}
  BY <1>1, <1>2, <1>3, <1>6 DEF Named
<1>8. \A q \in Dirs(d), a \in Names : Lookup(d, q, a) # i
  <2>1. SUFFICES ASSUME NEW q \in Dirs(d), NEW a \in Names, Lookup(d, q, a) = i PROVE FALSE
    OBVIOUS
  <2>2. ~(q = p /\ a = name)
    BY <1>1, <1>2, <2>1
  <2>3. Lookup(e, q, a) = i /\ q \in Dirs(e)
    BY <1>2, <2>1, <2>2
  <2> QED
    BY <1>1, <1>2, <1>3, <1>6, <2>2, <2>3 DEF Named
<1>9. i \notin Dirs(d)
  BY <1>6, <1>7, <1>8 DEF Dirs
<1>10. Kept(d, L)
  <2>1. \A j \in L : d.inode[j].kind # "none" /\ (d.inode[j].kind = "file" => d.inode[j].links = 1)
    BY <1>2, <1>3 DEF Kept
  <2>2. \A g, j \in L, x, y \in Places :
           OwnBlock(d, g, x) = OwnBlock(d, j, y) /\ OwnBlock(d, g, x) # None => g = j /\ x = y
    <3>1. \A g, j \in K, x, y \in Places :
             OwnBlock(e, g, x) = OwnBlock(e, j, y) /\ OwnBlock(e, g, x) # None => g = j /\ x = y
      BY <1>3 DEF Kept
    <3> QED
      BY <1>2, <1>3, <3>1
  <2> QED
    BY <2>1, <2>2 DEF Kept
<1>11. Named(d, L)
  <2>1. Dirs(d) \subseteq L
    BY <1>2, <1>3, <1>9 DEF Named
  <2>2. ASSUME NEW q \in Dirs(d), NEW a \in Names PROVE Lookup(d, q, a) \in (L \ {Root}) \cup {None}
    <3>1. CASE q = p /\ a = name
      BY <1>1, <3>1
    <3>2. CASE ~(q = p /\ a = name)
      <4>1. Lookup(e, q, a) = Lookup(d, q, a) /\ q \in Dirs(e)
        BY <1>2, <3>2
      <4>2. Lookup(e, q, a) \in (K \ {Root}) \cup {None}
        BY <1>3, <4>1 DEF Named
      <4> QED
        BY <1>8, <4>1, <4>2
    <3> QED
      BY <3>1, <3>2
  <2> QED
    BY <1>5, <2>1, <2>2 DEF Named
<1>12. d.inode[i].kind \in {"file", "dir"}
  <2>1. d.inode[i].kind # "none"
    BY <1>2, <1>3, <1>7 DEF Kept
  <2>2. d.inode[i] \in DiskInodes
    BY <1>1, DiskFacts
  <2> QED
    BY <2>1, <2>2 DEF DiskInodes
<1>13. Owned(d, L) \cap Owned(d, {i}) = {}
  <2>1. \A g \in L, x, y \in Places :
           OwnBlock(d, g, x) = OwnBlock(d, i, y) /\ OwnBlock(d, g, x) # None => FALSE
    <3>1. \A g, j \in K, x, y \in Places :
             OwnBlock(e, g, x) = OwnBlock(e, j, y) /\ OwnBlock(e, g, x) # None => g = j /\ x = y
      BY <1>3 DEF Kept
    <3> QED
      BY <1>1, <1>2, <1>3, <1>7, <3>1
  <2> QED
    BY <2>1 DEF Owned
<1>14. ASSUME d.inode[i].kind = "dir"
       PROVE  /\ p = Root /\ d.inode[i].links = 2 /\ DirOk(d, i)
              /\ \A a \in Names : Lookup(e, i, a) = Lookup(d, i, a)
  <2>1. p = Root
    BY <1>1, <1>2, <1>3, <1>6, <1>14 DEF Named
  <2>2. i \in Dirs(e)
    BY <1>1, <1>2, <1>6, <1>14, <2>1 DEF Dirs
  <2>3. DirOk(e, i) /\ e.inode[i].links = 2
    BY <1>3, <1>7, <2>2 DEF Named
  <2>4. SameDir(e, d, i)
    <3>1. \A h \in 1..e.inode[i].size : OwnBlock(e, i, h) # OwnBlock(d, p, k)
      <4>1. DirOk(d, p) /\ p \in Inodes /\ p \in K /\ p # i
        BY <1>1, <1>2, <1>3, <1>5, <1>9 DEF Named
      <4>2. k \in Places /\ OwnBlock(d, p, k) # None /\ OwnBlock(e, p, k) = OwnBlock(d, p, k)
        BY <1>1, <1>2, <4>1, DirFacts, NumberFacts
      <4>3. \A h \in 1..e.inode[i].size : h \in Places
        BY <1>1, <2>3, DirFacts
      <4> QED
        BY <1>3, <1>7, <4>1, <4>2, <4>3 DEF Kept
    <3>2. EntSet(e, d, OwnBlock(d, p, k), name, d.block[OwnBlock(d, p, k)].ents[name])
      BY <1>1 DEF EntSet
    <3> QED
      BY <1>1, <2>3, <3>1, <3>2, EntSameDir
  <2> QED
    BY <1>2, <2>1, <2>3, <2>4, SameDirShows
<1> QED
  BY <1>1, <1>3, <1>7, <1>10, <1>11, <1>12, <1>13, <1>14 DEF Waits

\* The same inodes with the same blocks are kept, where every path leads into them.
LEMMA SameKept ==
  ASSUME NEW d, NEW t \in Disks, NEW K, State(d, K, {}, {}, 0, FALSE), Named(t, K),
         t.inode = d.inode, t.iuse = d.iuse, t.buse = d.buse,
         \A j \in Inodes, x \in Places : OwnBlock(t, j, x) = OwnBlock(d, j, x)
  PROVE  Sound(t)
<1>1. K \in SUBSET Inodes /\ Kept(d, K) /\ Bits(d, K, Owned(d, K), {}, {}, FALSE)
  BY KeptIn DEF State
<1>2. \A j \in K, x \in Places : OwnBlock(t, j, x) = OwnBlock(d, j, x)
  BY <1>1
<1>3. Owned(t, K) = Owned(d, K)
  BY <1>2 DEF Owned
<1>4. Kept(t, K)
  BY <1>1, <1>2 DEF Kept
<1>5. Bits(t, K, Owned(t, K), {}, {}, FALSE)
  BY <1>1, <1>3 DEF Bits
<1> QED
  BY <1>4, <1>5 DEF State, Sound

\* A move changes one place, and what comes there is new.
LEMMA MoveAt ==
  ASSUME NEW d, NEW e, Moves(d, e), NEW path \in NS!Paths,
         TreeOf(d)[path] = NS!Absent, TreeOf(e)[path] # NS!Absent
  PROVE  /\ TreeOf(e)[path] = NS!Folder \/ TreeOf(e)[path] = NS!File(0)
         /\ \A q \in NS!Paths : q # path => TreeOf(e)[q] = TreeOf(d)[q]
<1> DEFINE was == TreeOf(d)
           new == TreeOf(e)
<1>1. was = [q \in NS!Paths |-> was[q]]
  BY TreeAt
<1>2. PICK r \in NS!Paths :
         \/ NS!Make(was, new, r, NS!Folder)
         \/ NS!Make(was, new, r, NS!File(0))
         \/ NS!Drop(was, new, r)
         \/ \E size \in 0..FileBlocks : NS!Resize(was, new, r, size)
  BY DEF Moves
<1>3. \E what : new = [was EXCEPT ![r] = what]
  BY <1>2 DEF NS!Make, NS!Drop, NS!Resize
<1> HIDE DEF was, new
<1>4. \A q \in NS!Paths : q # r => new[q] = was[q]
  BY <1>1, <1>3
<1>5. r = path
  BY <1>4 DEF was, new
<1>6. CASE NS!Make(was, new, r, NS!Folder)
  <2>1. new[r] = NS!Folder
    BY <1>1, <1>6 DEF NS!Make
  <2> QED
    BY <1>4, <1>5, <2>1 DEF was, new
<1>7. CASE NS!Make(was, new, r, NS!File(0))
  <2>1. new[r] = NS!File(0)
    BY <1>1, <1>7 DEF NS!Make
  <2> QED
    BY <1>4, <1>5, <2>1 DEF was, new
<1>8. CASE NS!Drop(was, new, r)
  <2>1. new[r] = NS!Absent
    BY <1>1, <1>8 DEF NS!Drop
  <2> QED
    BY <1>5, <2>1 DEF new
<1>9. CASE \E size \in 0..FileBlocks : NS!Resize(was, new, r, size)
  <2>1. was[r].kind = "file"
    BY <1>9 DEF NS!Resize
  <2> QED
    BY <1>5, <2>1 DEF was, NS!Absent
<1> QED
  BY <1>2, <1>6, <1>7, <1>8, <1>9

\* What the entry leads to is a new file or an empty directory.
LEMMA EntersNew ==
  ASSUME NEW d, NEW e, NEW p, NEW k, NEW name, NEW i, Enters(d, e, p, k, name, i)
  PROVE  ShownNew(d, i) /\ (d.inode[i].kind = "dir" => EmptyDir(d, i))
<1>1. /\ d \in Disks /\ e \in Disks /\ Moves(d, e) /\ p \in Dirs(d) /\ name \in Names /\ i \in Inodes
      /\ Lookup(d, p, name) = None
  BY DEF Enters
<1>2. /\ e.inode = d.inode /\ Dirs(d) \subseteq Dirs(e) /\ i # None
      /\ \A q \in Dirs(d), a \in Names :
            Lookup(e, q, a) = IF q = p /\ a = name THEN i ELSE Lookup(d, q, a)
  BY EntersAdds DEF AddsTo
<1>3. PICK K : State(e, K, {}, {}, 0, FALSE)
  BY DEF Enters, Sound
<1>4. Waits(d, e, K \ {i}, p, i)
  BY <1>3, EntersWaits
<1>5. /\ d.inode[i].kind \in {"file", "dir"}
      /\ d.inode[i].kind = "dir" => p = Root /\ \A a \in Names : Lookup(e, i, a) = Lookup(d, i, a)
  BY <1>4 DEF Waits
<1>6. \A j \in Inodes \cup {None} : Shown(e, j) = Shown(d, j)
  BY <1>2 DEF Shown
<1>7. Lookup(e, p, name) = i /\ Root \in Dirs(d)
  BY <1>1, <1>2 DEF Dirs
<1>8. Shown(d, None) = NS!Absent /\ Shown(e, None) = NS!Absent
  BY DEF Shown, NS!Absent
<1>9. \A j \in Inodes : e.inode[j].kind # "none" => Shown(e, j) # NS!Absent
  BY NumberFacts DEF Shown, NS!Absent
<1>10. Shown(e, i) # NS!Absent
  BY <1>1, <1>2, <1>5, <1>9
<1>11. CASE p = Root
  <2>1. /\ <<name>> \in NS!Paths /\ TreeOf(d)[<<name>>] = NS!Absent
        /\ TreeOf(e)[<<name>>] = Shown(e, i)
    BY <1>1, <1>7, <1>8, <1>11, TreeAt
  <2>2. /\ Shown(e, i) = NS!Folder \/ Shown(e, i) = NS!File(0)
        /\ \A q \in NS!Paths : q # <<name>> => TreeOf(e)[q] = TreeOf(d)[q]
    BY <1>1, <1>10, <2>1, MoveAt
  <2>3. ShownNew(d, i)
    BY <1>1, <1>6, <2>2 DEF ShownNew
  <2>4. ASSUME d.inode[i].kind = "dir", NEW a \in Names PROVE Lookup(d, i, a) = None
    <3>1. Lookup(e, Root, name) = i /\ Lookup(d, Root, name) = None
      BY <1>1, <1>7, <1>11
    <3>2. Inner(e, name, a) = Lookup(e, i, a) /\ Inner(d, name, a) = None
      BY <1>2, <2>4, <3>1 DEF Inner
    <3>3. /\ <<name, a>> \in NS!Paths /\ <<name, a>> # <<name>>
          /\ TreeOf(e)[<<name, a>>] = Shown(e, Lookup(e, i, a))
          /\ TreeOf(d)[<<name, a>>] = NS!Absent
      <4>1. <<name, a>> # <<name>>
        <5>1. Len(<<name, a>>) = 2 /\ Len(<<name>>) = 1
          OBVIOUS
        <5> QED
          BY <5>1
      <4> QED
        BY <1>1, <1>8, <3>2, <4>1, TreeAt
    <3>4. Shown(e, Lookup(e, i, a)) = NS!Absent
      BY <2>2, <3>3
    <3>5. i \in Dirs(e) /\ Kept(e, K) /\ Named(e, K) /\ K \in SUBSET Inodes
      BY <1>1, <1>2, <1>3, <2>4, <3>1, KeptIn DEF Dirs, State
    <3>6. Lookup(e, i, a) \in K \cup {None}
      BY <3>5 DEF Named
    <3>7. Lookup(e, i, a) = None
      BY <1>9, <3>4, <3>5, <3>6 DEF Kept
    <3> QED
      BY <1>5, <2>4, <3>7
  <2> QED
    BY <2>3, <2>4 DEF EmptyDir
<1>12. CASE p # Root
  <2>1. PICK c \in Names : p = Lookup(d, Root, c) /\ p # None /\ d.inode[p].kind = "dir"
    BY <1>1, <1>12 DEF Dirs
  <2>2. Lookup(e, Root, c) = p
    BY <1>2, <1>7, <1>12, <2>1
  <2>3. Inner(d, c, name) = None /\ Inner(e, c, name) = i
    BY <1>1, <1>2, <1>7, <2>1, <2>2 DEF Inner
  <2>4. /\ <<c, name>> \in NS!Paths /\ TreeOf(d)[<<c, name>>] = NS!Absent
        /\ TreeOf(e)[<<c, name>>] = Shown(e, i)
    BY <1>1, <1>8, <2>3, TreeAt
  <2>5. Shown(e, i) = NS!Folder \/ Shown(e, i) = NS!File(0)
    BY <1>1, <1>10, <2>4, MoveAt
  <2>6. ShownNew(d, i)
    BY <1>1, <1>6, <2>5 DEF ShownNew
  <2> QED
    BY <1>5, <1>12, <2>6
<1> QED
  BY <1>11, <1>12

\* The entry has its inode, but under another name.
LEMMA GarbledStep ==
  ASSUME NEW d, NEW e, NEW p, NEW k, NEW name, NEW i, Enters(d, e, p, k, name, i),
         NEW a \in Names, Lookup(d, p, a) = None,
         NEW t \in Disks, EntSet(d, t, OwnBlock(d, p, k), a, i)
  PROVE  Sound(t) /\ Moves(d, t)
<1>1. /\ d \in Disks /\ e \in Disks /\ p \in Dirs(d) /\ k \in 1..d.inode[p].size /\ i \in Inodes
      /\ EntSet(d, e, OwnBlock(d, p, k), name, i)
  BY DEF Enters
<1>2. PICK K : State(e, K, {}, {}, 0, FALSE)
  BY DEF Enters, Sound
<1> DEFINE L == K \ {i}
<1>3. i \in K /\ Waits(d, e, L, p, i)
  BY <1>2, EntersWaits
<1> HIDE DEF L
<1>4. /\ L \in SUBSET Inodes /\ i \in Inodes \ L /\ Kept(d, L) /\ Named(d, L)
      /\ d.inode[i].kind \in {"file", "dir"} /\ Owned(d, L) \cap Owned(d, {i}) = {}
      /\ d.inode[i].kind = "dir" => p = Root /\ d.inode[i].links = 2 /\ DirOk(d, i)
  BY <1>3 DEF Waits
<1>5. ShownNew(d, i) /\ (d.inode[i].kind = "dir" => EmptyDir(d, i))
  BY EntersNew
<1>6. Guest(d, L, p, i)
  BY <1>4, <1>5 DEF Guest
<1>7. Ready(d, L, p, a, i)
  BY <1>1, <1>4 DEF Ready
<1>8. Entered(d, t, L, {}, p, a, i)
  BY <1>1, <1>7, EnterOld
<1>9. Moves(d, t)
  BY <1>1, <1>4, <1>5, <1>6, <1>8, EnterMoves
<1>10. Named(t, K)
  <2>1. Named(t, L \cup {i})
    BY <1>1, <1>4, <1>6, <1>8, NamedEnter
  <2>2. L \cup {i} = K
    BY <1>3 DEF L
  <2> QED
    BY <2>1, <2>2
<1>11. /\ t.inode = e.inode /\ t.iuse = e.iuse /\ t.buse = e.buse /\ t.mem = e.mem
       /\ \A j \in Inodes, x \in Places : OwnBlock(t, j, x) = OwnBlock(e, j, x)
  <2>1. \A j \in Inodes, x \in Places : OwnBlock(t, j, x) = OwnBlock(d, j, x)
    BY <1>1, EntBlocks
  <2>2. \A j \in Inodes, x \in Places : OwnBlock(e, j, x) = OwnBlock(d, j, x)
    BY <1>1, EntBlocks
  <2> QED
    BY <1>1, <2>1, <2>2 DEF EntSet
<1>12. Sound(t)
  BY <1>2, <1>10, <1>11, SameKept
<1> QED
  BY <1>9, <1>12

\* t is d but for block b, where the entries gone are no longer seen.
Cuts(d, t, b, gone) ==
    /\ t.iuse = d.iuse /\ t.buse = d.buse /\ t.inode = d.inode /\ t.mem = d.mem
    /\ \A c \in Blocks : t.block[c].ptr = d.block[c].ptr /\ (c # b => t.block[c] = d.block[c])
    /\ \A a \in Names : t.block[b].ents[a] = IF a \in gone THEN None ELSE d.block[b].ents[a]

\* The names gone of directory p lead nowhere, and the others where they led.
NamesGone(d, t, p, gone) ==
    /\ t.inode = d.inode
    /\ \A j \in Inodes, x \in Places : OwnBlock(t, j, x) = OwnBlock(d, j, x)
    /\ \A q \in Dirs(d) : DirOk(t, q)
    /\ \A q \in Dirs(d), a \in Names :
          Lookup(t, q, a) = IF q = p /\ a \in gone THEN None ELSE Lookup(d, q, a)

LEMMA CutNames ==
  ASSUME NEW d \in Disks, NEW t \in Disks, NEW K \in SUBSET Inodes, Kept(d, K), Named(d, K),
         NEW p \in Dirs(d), NEW k \in 1..d.inode[p].size, NEW gone \in SUBSET Names,
         \A a \in gone : EntAt(d, p, k, a) # None, Cuts(d, t, OwnBlock(d, p, k), gone)
  PROVE  NamesGone(d, t, p, gone)
<1> DEFINE n == d.inode[p]
           b == OwnBlock(d, p, k)
<1>1. /\ p \in K /\ p \in Inodes /\ DirOk(d, p) /\ b \in Blocks
      /\ \A q \in Dirs(d) : q \in Inodes /\ DirOk(d, q)
      /\ \A q \in Dirs(d) : \A h \in 1..d.inode[q].size : OwnBlock(d, q, h) = b => q = p /\ h = k
  BY DirsApart DEF Named
<1>2. t.inode = d.inode
  BY DEF Cuts
<1>3. \A j \in Inodes, x \in Places : OwnBlock(t, j, x) = OwnBlock(d, j, x)
  <2>1. SUFFICES ASSUME NEW j \in Inodes
        PROVE  \A x \in Places : OwnBlock(t, j, x) = OwnBlock(d, j, x)
    OBVIOUS
  <2>2. OwnBlock(d, j, Indirect) \in Blocks \cup {None}
    BY OwnBlockType, PlaceFacts
  <2>3. OwnBlock(d, j, Indirect) # None =>
           t.block[OwnBlock(d, j, Indirect)].ptr = d.block[OwnBlock(d, j, Indirect)].ptr
    BY <2>2 DEF Cuts
  <2>4. t.inode[j].ptr = d.inode[j].ptr
    BY <1>2
  <2> QED
    BY <2>3, <2>4, SamePlaces
<1>4. \A h \in 1..n.size : h \in Places /\ n.ptr[h] = OwnBlock(d, p, h) /\ OwnBlock(d, p, h) \in Blocks
  BY <1>1, DirFacts
<1>5. \A h \in 1..n.size, a \in Names :
         EntAt(t, p, h, a) = IF h = k /\ a \in gone THEN None ELSE EntAt(d, p, h, a)
  <2>1. ASSUME NEW h \in 1..n.size, NEW a \in Names
        PROVE  EntAt(t, p, h, a) = IF h = k /\ a \in gone THEN None ELSE EntAt(d, p, h, a)
    <3>1. OwnBlock(t, p, h) = OwnBlock(d, p, h)
      BY <1>1, <1>3, <1>4
    <3>2. CASE h = k
      BY <3>1, <3>2 DEF EntAt, Cuts
    <3>3. CASE h # k
      <4>1. t.block[OwnBlock(d, p, h)] = d.block[OwnBlock(d, p, h)]
        BY <1>1, <1>4, <3>3 DEF Cuts
      <4> QED
        BY <3>1, <3>3, <4>1 DEF EntAt
    <3> QED
      BY <3>2, <3>3
  <2> QED
    BY <2>1
<1>6. \A h \in 1..n.size, a \in Names :
         /\ EntAt(d, p, h, a) = d.block[n.ptr[h]].ents[a]
         /\ EntAt(t, p, h, a) = t.block[n.ptr[h]].ents[a]
  BY <1>1, <1>3, <1>4 DEF EntAt
<1>7. DirOk(t, p)
  <2>1. /\ n.kind = "dir" /\ n.size \in 1..NDirect
        /\ \A h \in 1..(NDirect + 1) : n.ptr[h] # None <=> h <= n.size
        /\ \A h, g \in 1..n.size, a \in Names :
              d.block[n.ptr[h]].ents[a] # None /\ d.block[n.ptr[g]].ents[a] # None => h = g
    BY <1>1 DEF DirOk
  <2> HIDE DEF n
  <2>2. \A h, g \in 1..n.size, a \in Names :
           t.block[n.ptr[h]].ents[a] # None /\ t.block[n.ptr[g]].ents[a] # None => h = g
    BY <1>5, <1>6, <2>1
  <2>3. t.inode[p] = n
    BY <1>2 DEF n
  <2> QED
    BY <2>1, <2>2, <2>3 DEF DirOk
<1>8. ASSUME NEW q \in Dirs(d) \ {p} PROVE SameDir(d, t, q)
  <2>1. \A h \in 1..d.inode[q].size : d.inode[q].ptr[h] \in Blocks /\ d.inode[q].ptr[h] # b
    BY <1>1, DirFacts
  <2>2. \A h \in 1..d.inode[q].size : t.block[d.inode[q].ptr[h]].ents = d.block[d.inode[q].ptr[h]].ents
    BY <2>1 DEF Cuts
  <2> QED
    BY <1>2, <2>2 DEF SameDir
<1>9. ASSUME NEW a \in Names PROVE Lookup(t, p, a) = IF a \in gone THEN None ELSE Lookup(d, p, a)
  <2>1. t.inode[p].size = n.size /\ n.size \in Nat
    BY <1>1, <1>2, DirSize
  <2>2. CASE a \in gone
    <3>1. \A h \in 1..n.size : h # k => EntAt(d, p, h, a) = None
      <4>1. \A h, g \in 1..n.size :
               d.block[n.ptr[h]].ents[a] # None /\ d.block[n.ptr[g]].ents[a] # None => h = g
        BY <1>1 DEF DirOk
      <4> HIDE DEF n
      <4>2. k \in 1..n.size /\ EntAt(d, p, k, a) # None
        BY <2>2 DEF n
      <4> QED
        BY <1>6, <4>1, <4>2
    <3>2. \A h \in 1..n.size : EntAt(t, p, h, a) = None
      BY <1>5, <2>2, <3>1
    <3>3. Lookup(t, p, a) = None
      BY <1>1, <1>7, <2>1, <3>2, LookupNowhere
    <3> QED
      BY <2>2, <3>3
  <2>3. CASE a \notin gone
    <3>1. \A h \in 1..t.inode[p].size :
             EntAt(t, p, h, a) = IF h \in 1..d.inode[p].size THEN EntAt(d, p, h, a) ELSE None
      BY <1>5, <2>1, <2>3
    <3>2. d.inode[p].size <= t.inode[p].size
      BY <2>1
    <3>3. Lookup(t, p, a) = Lookup(d, p, a)
      BY <1>1, <1>7, <3>1, <3>2, LookupBy
    <3> QED
      BY <2>3, <3>3
  <2> QED
    BY <2>2, <2>3
<1>10. \A q \in Dirs(d) \ {p} : DirOk(t, q) /\ \A a \in Names : Lookup(t, q, a) = Lookup(d, q, a)
  BY <1>1, <1>8, SameDirShows
<1> QED
  BY <1>2, <1>3, <1>7, <1>9, <1>10 DEF NamesGone

\* What is left of the names leads where it led.
LEMMA NamedGone ==
  ASSUME NEW d, NEW t, NEW K \in SUBSET Inodes, Named(d, K), NEW p \in Dirs(d),
         NEW gone \in SUBSET Names, NamesGone(d, t, p, gone)
  PROVE  Named(t, K)
<1>1. /\ t.inode = d.inode
      /\ \A q \in Dirs(d) : DirOk(t, q)
      /\ \A q \in Dirs(d), a \in Names : Lookup(t, q, a) \in {Lookup(d, q, a), None}
  BY DEF NamesGone
<1>2. Root \in Dirs(d)
  BY DEF Dirs
<1>3. Dirs(t) \subseteq Dirs(d)
  <2>1. SUFFICES ASSUME NEW q \in Dirs(t), q # Root PROVE q \in Dirs(d)
    BY <1>2
  <2>2. PICK c \in Names : q = Lookup(t, Root, c) /\ q # None /\ t.inode[q].kind = "dir"
    BY <2>1 DEF Dirs
  <2>3. q = Lookup(d, Root, c) /\ d.inode[q].kind = "dir"
    BY <1>1, <1>2, <2>2
  <2> QED
    BY <2>2, <2>3 DEF Dirs
<1>4. ASSUME NEW q \in Dirs(t) \ {Root}
      PROVE  /\ t.inode[q].links = 2
             /\ \A a \in Names : Lookup(t, q, a) # None => t.inode[Lookup(t, q, a)].kind = "file"
  <2>1. q \in Dirs(d) \ {Root}
    BY <1>3
  <2>2. /\ d.inode[q].links = 2
        /\ \A a \in Names : Lookup(d, q, a) # None => d.inode[Lookup(d, q, a)].kind = "file"
    BY <2>1 DEF Named
  <2>3. ASSUME NEW a \in Names, Lookup(t, q, a) # None PROVE t.inode[Lookup(t, q, a)].kind = "file"
    <3>1. Lookup(t, q, a) = Lookup(d, q, a)
      BY <1>1, <2>1, <2>3
    <3> QED
      BY <1>1, <2>2, <2>3, <3>1
  <2> QED
    BY <1>1, <2>2, <2>3
<1>5. \A q \in Dirs(t), a \in Names : Lookup(t, q, a) \in (K \ {Root}) \cup {None}
  <2>1. \A q \in Dirs(d), a \in Names : Lookup(d, q, a) \in (K \ {Root}) \cup {None}
    BY DEF Named
  <2> QED
    BY <1>1, <1>3, <2>1
<1>6. ASSUME NEW q \in Dirs(t), NEW r \in Dirs(t), NEW a \in Names, NEW c \in Names,
             Lookup(t, q, a) = Lookup(t, r, c), Lookup(t, q, a) # None
      PROVE  q = r /\ a = c
  <2>1. q \in Dirs(d) /\ r \in Dirs(d)
    BY <1>3
  <2>2. Lookup(d, q, a) = Lookup(d, r, c) /\ Lookup(d, q, a) # None
    BY <1>1, <1>6, <2>1
  <2> QED
    BY <2>1, <2>2 DEF Named
<1>7. Dirs(t) \subseteq K /\ \A q \in Dirs(t) : DirOk(t, q)
  BY <1>1, <1>3 DEF Named
<1> QED
  BY <1>4, <1>5, <1>6, <1>7 DEF Named

\* Names of one directory are gone.
Loses(was, new) ==
    \E dir \in {<<>>} \cup {<<a>> : a \in Names}, names \in SUBSET Names :
       NS!Lose(was, new, {Append(dir, n) : n \in names})

\* Two trees that agree but for the names gone.
AgreeBut(d, t, dir, gone) ==
    /\ \A a \in Names : TreeOf(t)[<<a>>] =
          IF dir = <<>> /\ a \in gone THEN NS!Absent ELSE TreeOf(d)[<<a>>]
    /\ \A a, c \in Names : TreeOf(t)[<<a, c>>] =
          IF (dir = <<>> /\ a \in gone) \/ (dir = <<a>> /\ c \in gone) THEN NS!Absent
          ELSE TreeOf(d)[<<a, c>>]

LEMMA LosesBy ==
  ASSUME NEW d, NEW t, NEW dir \in {<<>>} \cup {<<a>> : a \in Names}, NEW gone \in SUBSET Names,
         AgreeBut(d, t, dir, gone)
  PROVE  Loses(TreeOf(d), TreeOf(t))
<1> DEFINE G == {Append(dir, n) : n \in gone}
           Goes(q) == \E g \in G : q = g \/ q \in NS!Below(g)
<1>1. TreeOf(t) = [q \in NS!Paths |-> TreeOf(t)[q]]
  BY TreeAt
<1>2. ASSUME NEW a \in Names PROVE Goes(<<a>>) <=> (dir = <<>> /\ a \in gone)
  <2>1. <<a>> \in NS!Paths /\ Len(<<a>>) = 1 /\ <<a>>[1] = a
    BY DEF NS!Paths
  <2>2. CASE dir = <<>>
    <3>1. G = {<<n>> : n \in gone}
      BY <2>2
    <3>2. \A n \in gone : <<a>> \notin NS!Below(<<n>>)
      BY <2>1 DEF NS!Below
    <3>3. \A n \in gone : <<a>> = <<n>> <=> a = n
      OBVIOUS
    <3> HIDE DEF G
    <3> QED
      BY <2>2, <3>1, <3>2, <3>3
  <2>3. CASE dir # <<>>
    <3>1. PICK e \in Names : dir = <<e>>
      BY <2>3
    <3>2. G = {<<e, n>> : n \in gone}
      BY <3>1
    <3>3. \A n \in gone : <<a>> # <<e, n>> /\ <<a>> \notin NS!Below(<<e, n>>)
      BY <2>1 DEF NS!Below
    <3> HIDE DEF G
    <3> QED
      BY <2>3, <3>2, <3>3
  <2> QED
    BY <2>2, <2>3
<1>3. ASSUME NEW a \in Names, NEW c \in Names
      PROVE  Goes(<<a, c>>) <=> ((dir = <<>> /\ a \in gone) \/ (dir = <<a>> /\ c \in gone))
  <2>1. <<a, c>> \in NS!Paths /\ Len(<<a, c>>) = 2 /\ <<a, c>>[1] = a
    BY DEF NS!Paths
  <2>2. CASE dir = <<>>
    <3>1. G = {<<n>> : n \in gone} /\ dir # <<a>>
      BY <2>2
    <3>2. \A n \in gone : <<a, c>> # <<n>> /\ (<<a, c>> \in NS!Below(<<n>>) <=> a = n)
      BY <2>1 DEF NS!Below
    <3> HIDE DEF G
    <3> QED
      BY <2>2, <3>1, <3>2
  <2>3. CASE dir # <<>>
    <3>1. PICK e \in Names : dir = <<e>>
      BY <2>3
    <3>2. G = {<<e, n>> : n \in gone}
      BY <3>1
    <3>3. \A n \in gone : <<a, c>> \notin NS!Below(<<e, n>>) /\ (<<a, c>> = <<e, n>> <=> a = e /\ c = n)
      BY <2>1 DEF NS!Below
    <3>4. dir = <<a>> <=> a = e
      BY <3>1
    <3> HIDE DEF G
    <3> QED
      BY <2>3, <3>2, <3>3, <3>4
  <2> QED
    BY <2>2, <2>3
<1> HIDE DEF Goes
<1>4. \A q \in NS!Paths : TreeOf(t)[q] = IF Goes(q) THEN NS!Absent ELSE TreeOf(d)[q]
  <2>1. \A a \in Names : TreeOf(t)[<<a>>] = IF Goes(<<a>>) THEN NS!Absent ELSE TreeOf(d)[<<a>>]
    BY <1>2 DEF AgreeBut
  <2>2. \A a, c \in Names :
           TreeOf(t)[<<a, c>>] = IF Goes(<<a, c>>) THEN NS!Absent ELSE TreeOf(d)[<<a, c>>]
    BY <1>3 DEF AgreeBut
  <2> QED
    BY <2>1, <2>2, PathsOf
<1>5. NS!Lose(TreeOf(d), TreeOf(t), G)
  BY <1>1, <1>4 DEF NS!Lose, Goes
<1> QED
  BY <1>5 DEF Loses

\* The names are gone from the tree, with what was below them.
LEMMA GoneLoses ==
  ASSUME NEW d, NEW t, NEW K \in SUBSET Inodes, Named(d, K), NEW p \in Dirs(d),
         NEW gone \in SUBSET Names, NamesGone(d, t, p, gone)
  PROVE  Loses(TreeOf(d), TreeOf(t))
<1>1. /\ t.inode = d.inode
      /\ \A q \in Dirs(d), a \in Names :
            Lookup(t, q, a) = IF q = p /\ a \in gone THEN None ELSE Lookup(d, q, a)
  BY DEF NamesGone
<1>2. \A j : Shown(t, j) = Shown(d, j)
  BY <1>1 DEF Shown
<1>3. Shown(d, None) = NS!Absent /\ Root \in Dirs(d)
  BY DEF Shown, NS!Absent, Dirs
<1>4. \A a \in Names : TreeOf(t)[<<a>>] = Shown(d, Lookup(t, Root, a))
                       /\ TreeOf(d)[<<a>>] = Shown(d, Lookup(d, Root, a))
  BY <1>2, TreeAt
<1>5. \A a, c \in Names : TreeOf(t)[<<a, c>>] = Shown(d, Inner(t, a, c))
                          /\ TreeOf(d)[<<a, c>>] = Shown(d, Inner(d, a, c))
  BY <1>2, TreeAt
<1>6. \A a \in Names : Lookup(d, Root, a) # None /\ d.inode[Lookup(d, Root, a)].kind = "dir" =>
                       Lookup(d, Root, a) \in Dirs(d) \ {Root}
  BY <1>3 DEF Dirs, Named
<1>7. CASE p = Root
  <2>1. ASSUME NEW a \in Names
        PROVE  TreeOf(t)[<<a>>] = IF a \in gone THEN NS!Absent ELSE TreeOf(d)[<<a>>]
    BY <1>1, <1>3, <1>4, <1>7
  <2>2. ASSUME NEW a \in Names, NEW c \in Names
        PROVE  TreeOf(t)[<<a, c>>] = IF a \in gone THEN NS!Absent ELSE TreeOf(d)[<<a, c>>]
    <3>1. CASE a \in gone
      <4>1. Lookup(t, Root, a) = None
        BY <1>1, <1>3, <1>7, <3>1
      <4>2. Inner(t, a, c) = None
        BY <4>1 DEF Inner
      <4> QED
        BY <1>3, <1>5, <3>1, <4>2
    <3>2. CASE a \notin gone
      <4>1. Lookup(t, Root, a) = Lookup(d, Root, a)
        BY <1>1, <1>3, <3>2
      <4>2. Inner(t, a, c) = Inner(d, a, c)
        BY <1>1, <1>6, <1>7, <4>1 DEF Inner
      <4> QED
        BY <1>5, <3>2, <4>2
    <3> QED
      BY <3>1, <3>2
  <2>3. \A a \in Names : <<>> # <<a>>
    OBVIOUS
  <2>4. AgreeBut(d, t, <<>>, gone)
    BY <2>1, <2>2, <2>3 DEF AgreeBut
  <2> QED
    BY <2>4, LosesBy
<1>8. CASE p # Root
  <2>1. PICK e \in Names : p = Lookup(d, Root, e) /\ p # None /\ d.inode[p].kind = "dir"
    BY <1>8 DEF Dirs
  <2>2. \A a \in Names : Lookup(t, Root, a) = Lookup(d, Root, a)
    BY <1>1, <1>3, <1>8
  <2>3. \A a \in Names : Lookup(d, Root, a) = p => a = e
    BY <1>3, <2>1 DEF Named
  <2>4. ASSUME NEW a \in Names, NEW c \in Names
        PROVE  TreeOf(t)[<<a, c>>] = IF a = e /\ c \in gone THEN NS!Absent ELSE TreeOf(d)[<<a, c>>]
    <3>1. CASE a = e /\ c \in gone
      <4>1. Lookup(t, p, c) = None
        BY <1>1, <3>1
      <4>2. Inner(t, a, c) = None
        BY <2>1, <2>2, <3>1, <4>1 DEF Inner
      <4> QED
        BY <1>3, <1>5, <3>1, <4>2
    <3>2. CASE ~(a = e /\ c \in gone)
      <4>1. Inner(t, a, c) = Inner(d, a, c)
        BY <1>1, <1>6, <2>2, <2>3, <3>2 DEF Inner
      <4> QED
        BY <1>5, <3>2, <4>1
    <3> QED
      BY <3>1, <3>2
  <2>5. \A a \in Names : <<e>> # <<>> /\ (<<e>> = <<a>> <=> a = e)
    OBVIOUS
  <2>6. \A a \in Names : TreeOf(t)[<<a>>] = TreeOf(d)[<<a>>]
    BY <1>4, <2>2
  <2>7. AgreeBut(d, t, <<e>>, gone)
    BY <2>4, <2>5, <2>6 DEF AgreeBut
  <2> QED
    BY <2>7, LosesBy
<1> QED
  BY <1>7, <1>8

\* The entry is not seen, and others are not any more.
LEMMA LostStep ==
  ASSUME NEW d, Sound(d), NEW t \in Disks, NEW p \in Dirs(d), NEW k \in 1..d.inode[p].size,
         NEW gone \in SUBSET Names, \A a \in gone : EntAt(d, p, k, a) # None,
         Cuts(d, t, OwnBlock(d, p, k), gone)
  PROVE  Sound(t) /\ Loses(TreeOf(d), TreeOf(t))
<1>1. PICK K : State(d, K, {}, {}, 0, FALSE)
  BY DEF Sound
<1>2. d \in Disks /\ K \in SUBSET Inodes /\ Kept(d, K) /\ Named(d, K)
  BY <1>1, KeptIn DEF State
<1>3. NamesGone(d, t, p, gone)
  BY <1>2, CutNames
<1>4. Named(t, K) /\ Loses(TreeOf(d), TreeOf(t))
  BY <1>2, <1>3, NamedGone, GoneLoses
<1>5. t.iuse = d.iuse /\ t.buse = d.buse
  BY DEF Cuts
<1>6. t.inode = d.inode /\ \A j \in Inodes, x \in Places : OwnBlock(t, j, x) = OwnBlock(d, j, x)
  BY <1>3 DEF NamesGone
<1> QED
  BY <1>1, <1>4, <1>5, <1>6, SameKept

\* What a torn block has become.
LEMMA TornIs ==
  ASSUME NEW d \in Disks, NEW b \in Blocks, NEW i \in Inodes, NEW free \in SUBSET Names,
         NEW c \in Torn(d.block[b], i, free), NEW t, t = [d EXCEPT !.block[b] = c]
  PROVE  /\ t \in Disks
         /\ \/ \E a \in free : EntSet(d, t, b, a, i)
            \/ \E gone \in SUBSET {a \in Names : d.block[b].ents[a] # None} : Cuts(d, t, b, gone)
<1>1. d.block[b] \in DiskBlocks
  BY DiskFacts
<1>2. CASE \E a \in free : c = [d.block[b] EXCEPT !.ents[a] = i]
  <2>1. PICK a \in free : c = [d.block[b] EXCEPT !.ents[a] = i]
    BY <1>2
  <2>2. t = [d EXCEPT !.block[b].ents[a] = i]
    BY <1>1, <2>1
  <2> QED
    BY <2>2, EntWrite
<1>3. CASE \E kept \in SUBSET Names, r \in 0..d.block[b].room :
             c = CutOff(d.block[b], kept, r)
  <2>1. PICK kept \in SUBSET Names, r \in 0..d.block[b].room :
             c = CutOff(d.block[b], kept, r)
    BY <1>3
  <2> DEFINE f == [n \in Names |-> IF n \in kept THEN d.block[b].ents[n] ELSE None]
             gone == {a \in Names : d.block[b].ents[a] # None} \ kept
  <2>2. f \in [Names -> Inodes \cup {None}]
    BY <1>1 DEF DiskBlocks
  <2>3. r \in 0..PerDirBlock
    BY <1>1, <2>1, PointersAssumption DEF DiskBlocks
  <2>4. c = [d.block[b] EXCEPT !.ents = f, !.room = r]
    BY <2>1 DEF CutOff
  <2>5. \A a \in Names : f[a] = IF a \in gone THEN None ELSE d.block[b].ents[a]
    OBVIOUS
  <2> HIDE DEF f
  <2>6. c \in DiskBlocks /\ c.ents = f /\ c.ptr = d.block[b].ptr
    BY <1>1, <2>2, <2>3, <2>4 DEF DiskBlocks
  <2>7. t \in Disks /\ BlockSet(d, t, b, c)
    BY <2>6, BlockWrite
  <2>8. Cuts(d, t, b, gone)
    BY <2>5, <2>6, <2>7 DEF Cuts, BlockSet
  <2>9. gone \in SUBSET {a \in Names : d.block[b].ents[a] # None}
    OBVIOUS
  <2> QED
    BY <2>7, <2>8, <2>9
<1>4. \/ \E a \in free : c = [d.block[b] EXCEPT !.ents[a] = i]
      \/ \E kept \in SUBSET Names, r \in 0..d.block[b].room :
            c = CutOff(d.block[b], kept, r)
  BY DEF Torn
<1> QED
  BY <1>2, <1>3, <1>4

\* It stops within a write.
LEMMA CrashInsideStep ==
  ASSUME FsInv, CrashInside
  PROVE  /\ FsInv' /\ crashes' < crashes /\ todo # <<>>
         /\ Moves(disk, disk') \/ Loses(TreeOf(disk), TreeOf(disk'))
<1>1. PICK p \in Dirs(disk), i \in Inodes : \E b \in DirBlocks(disk, p), name \in FreeNames(p) :
         /\ Head(todo) = [disk EXCEPT !.block[b].ents[name] = i]
         /\ \E c \in Torn(disk.block[b], i, FreeNames(p)) : Stop([disk EXCEPT !.block[b] = c])
  BY DEF CrashInside
<1>2. PICK b \in DirBlocks(disk, p), name \in FreeNames(p) :
         /\ Head(todo) = [disk EXCEPT !.block[b].ents[name] = i]
         /\ \E c \in Torn(disk.block[b], i, FreeNames(p)) : Stop([disk EXCEPT !.block[b] = c])
  BY <1>1
<1>3. PICK c \in Torn(disk.block[b], i, FreeNames(p)) : Stop([disk EXCEPT !.block[b] = c])
  BY <1>2
<1> DEFINE e == Head(todo)
           t == [disk EXCEPT !.block[b] = c]
<1>4. /\ todo # <<>> /\ todo \in Seq(Disks) /\ Sound(disk) /\ Moves(disk, todo[1])
      /\ \A j \in 1..Len(todo) : Sound(todo[j])
  BY DEF CrashInside, FsInv
<1>5. e = todo[1] /\ e \in Disks /\ Sound(e) /\ Moves(disk, e)
  <2>1. Len(todo) \in Nat /\ Len(todo) > 0 /\ e = todo[1] /\ 1 \in 1..Len(todo)
    BY <1>4
  <2>2. todo[1] \in Disks
    BY <1>4, <2>1
  <2> QED
    BY <1>4, <2>1, <2>2
<1>6. PICK K : State(disk, K, {}, {}, 0, FALSE)
  BY <1>4 DEF Sound
<1>7. disk \in Disks /\ p \in Inodes /\ DirOk(disk, p)
  <2>1. /\ disk \in Disks /\ K \in SUBSET Inodes /\ Dirs(disk) \subseteq K
        /\ \A q \in Dirs(disk) : DirOk(disk, q)
    BY <1>6, KeptIn
  <2> QED
    BY <1>1, <2>1
<1>8. PICK k \in 1..disk.inode[p].size : b = OwnBlock(disk, p, k)
  BY <1>2, <1>7, DirFacts
<1>9. b \in Blocks
  BY <1>7, <1>8, DirFacts
<1>10. e = [disk EXCEPT !.block[b].ents[name] = i]
  BY <1>2
<1>11. name \in Names /\ Lookup(disk, p, name) = None /\ FreeNames(p) \in SUBSET Names
       /\ \A a \in FreeNames(p) : Lookup(disk, p, a) = None
  BY <1>2 DEF FreeNames
<1>12. t = [disk EXCEPT !.block[b] = c]
  OBVIOUS
<1> HIDE DEF e, t
<1>13. EntSet(disk, e, b, name, i)
  BY <1>1, <1>7, <1>9, <1>10, <1>11, EntWrite
<1>14. Enters(disk, e, p, k, name, i)
  BY <1>1, <1>4, <1>5, <1>7, <1>8, <1>11, <1>13 DEF Enters
<1>15. /\ t \in Disks
       /\ \/ \E a \in FreeNames(p) : EntSet(disk, t, b, a, i)
          \/ \E gone \in SUBSET {a \in Names : disk.block[b].ents[a] # None} : Cuts(disk, t, b, gone)
  BY <1>1, <1>3, <1>7, <1>9, <1>11, <1>12, TornIs
<1>16. Sound(t) /\ (Moves(disk, t) \/ Loses(TreeOf(disk), TreeOf(t)))
  <2>1. CASE \E a \in FreeNames(p) : EntSet(disk, t, b, a, i)
    BY <1>8, <1>11, <1>14, <1>15, <2>1, GarbledStep
  <2>2. CASE \E gone \in SUBSET {a \in Names : disk.block[b].ents[a] # None} : Cuts(disk, t, b, gone)
    <3>1. PICK gone \in SUBSET {a \in Names : disk.block[b].ents[a] # None} : Cuts(disk, t, b, gone)
      BY <2>2
    <3>2. \A a \in gone : EntAt(disk, p, k, a) # None
      BY <1>8 DEF EntAt
    <3> QED
      BY <1>1, <1>4, <1>8, <1>15, <3>1, <3>2, LostStep
  <2> QED
    BY <1>15, <2>1, <2>2
<1>17. Stop(t)
  BY <1>3, <1>12
<1>18. FsInv' /\ TreeOf(disk') = TreeOf(t)
  BY <1>16, <1>17, StopStep
<1>19. Moves(disk, disk') \/ Loses(TreeOf(disk), TreeOf(disk'))
  BY <1>16, <1>18 DEF Moves, Loses
<1>20. crashes' < crashes
  <2>1. crashes' = crashes - 1 /\ crashes \in 0..MaxCrashes
    BY <1>17 DEF Stop, FsInv
  <2> QED
    BY <2>1
<1> QED
  BY <1>4, <1>18, <1>19, <1>20

\* One write reaches the disk.
LEMMA DiskWriteStep ==
  ASSUME FsInv, DiskWrite
  PROVE  FsInv' /\ Moves(disk, disk')
<1>1. /\ todo # <<>> /\ disk' = Head(todo) /\ todo' = Tail(todo) /\ ops' = ops /\ crashes' = crashes
  BY DEF DiskWrite
<1>2. /\ todo \in Seq(Disks) /\ \A j \in 1..Len(todo) : Sound(todo[j])
      /\ Moves(disk, todo[1]) /\ \A j \in 1..(Len(todo) - 1) : Moves(todo[j], todo[j + 1])
      /\ ops \in 0..MaxOps /\ crashes \in 0..MaxCrashes
      /\ (crashes = MaxCrashes => Settled(Last(todo)))
  BY <1>1 DEF FsInv
<1>3. Len(todo) \in Nat /\ Len(todo) > 0 /\ disk' = todo[1]
  BY <1>1, <1>2
<1>4. /\ todo' \in Seq(Disks) /\ Len(todo') = Len(todo) - 1
      /\ \A j \in 1..Len(todo') : todo'[j] = todo[j + 1]
  <2>1. todo' = Tail(todo)
    BY <1>1
  <2>2. todo' \in Seq(Disks) /\ Len(todo') = Len(todo) - 1
    BY <1>1, <1>2, <1>3, <2>1
  <2>3. \A j \in 1..Len(todo') : todo'[j] = todo[j + 1]
    BY <1>1, <1>2, <1>3, <2>1
  <2> QED
    BY <2>2, <2>3
<1>5. Sound(disk') /\ \A j \in 1..Len(todo') : Sound(todo'[j])
  <2>1. \A j \in 1..Len(todo') : j + 1 \in 1..Len(todo)
    BY <1>3, <1>4
  <2> QED
    BY <1>2, <1>3, <1>4, <2>1
<1>6. todo' # <<>> => Moves(disk', todo'[1])
  <2>1. SUFFICES ASSUME todo' # <<>> PROVE Moves(disk', todo'[1])
    OBVIOUS
  <2>2. 1 \in 1..(Len(todo) - 1) /\ 1 \in 1..Len(todo')
    BY <1>3, <1>4, <2>1
  <2>3. todo'[1] = todo[1 + 1]
    BY <1>4, <2>2
  <2> QED
    BY <1>2, <1>3, <2>2, <2>3
<1>7. \A j \in 1..(Len(todo') - 1) : Moves(todo'[j], todo'[j + 1])
  <2>1. ASSUME NEW j \in 1..(Len(todo') - 1)
        PROVE  j + 1 \in 1..(Len(todo) - 1) /\ j \in 1..Len(todo') /\ j + 1 \in 1..Len(todo')
    BY <1>3, <1>4
  <2> QED
    BY <1>2, <1>4, <2>1
<1>8. crashes' = MaxCrashes => Settled(IF todo' = <<>> THEN disk' ELSE Last(todo'))
  <2>1. CASE todo' = <<>>
    <3>1. Len(todo) = 1
      BY <1>3, <1>4, <2>1
    <3>2. Last(todo) = disk'
      BY <1>3, <3>1 DEF Last
    <3> QED
      BY <1>1, <1>2, <2>1, <3>2
  <2>2. CASE todo' # <<>>
    <3>1. Len(todo') \in 1..Len(todo') /\ Len(todo') + 1 = Len(todo)
      BY <1>3, <1>4, <2>2
    <3>2. todo'[Len(todo')] = todo[Len(todo') + 1]
      BY <1>4, <3>1
    <3>3. Last(todo') = Last(todo)
      BY <3>1, <3>2 DEF Last
    <3> QED
      BY <1>1, <1>2, <2>2, <3>3
  <2> QED
    BY <2>1, <2>2
<1>9. Moves(disk, disk')
  BY <1>2, <1>3
<1> QED
  BY <1>1, <1>2, <1>4, <1>5, <1>6, <1>7, <1>8, <1>9 DEF FsInv

----------------------------------------------------------------------------
(* The operations.                                                          *)

\* Where an operation begins the log is the present disk.
LEMMA OneDisk ==
  Last(<<disk>>) = disk
  BY DEF Last

\* ext2_create_file.
LEMMA CreateFileInv ==
  ASSUME FsInv, NEW p \in Dirs(disk), NEW a \in Names, CreateFile(p, a)
  PROVE  FsInv'
<1> DEFINE exact == crashes = MaxCrashes
           i == NextInode(<<disk>>)
           made == WriteInode(AllocInode(<<disk>>), i, NewFile)
           log == IF CanAddDirent(made, p) THEN SyncSuperblock(AddDirent(made, p, a, i))
                  ELSE FreeInode(made, i)
<1>1. Lookup(disk, p, a) = None /\ i # None /\ Begin(log)
  BY DEF CreateFile
<1>2. todo = <<>>
  BY <1>1 DEF Begin
<1>3. PICK K : Now(<<disk>>, K, {}, {}, 0, exact)
  BY <1>2, Start
<1>4. /\ p \in Dirs(Last(<<disk>>)) /\ Lookup(Last(<<disk>>), p, a) = None
  BY <1>1, OneDisk
<1>5. exact <=> crashes = MaxCrashes
  OBVIOUS
<1>6. i = NextInode(<<disk>>) /\ made = WriteInode(AllocInode(<<disk>>), i, NewFile)
  OBVIOUS
<1>7. log = IF CanAddDirent(made, p) THEN SyncSuperblock(AddDirent(made, p, a, i))
            ELSE FreeInode(made, i)
  OBVIOUS
<1> HIDE DEF exact, i, made, log
<1>8. /\ CanAddDirent(made, p) =>
           \E L : Now(SyncSuperblock(AddDirent(made, p, a, i)), L, {}, {}, 0, exact)
      /\ Now(FreeInode(made, i), K, {}, {}, 0, exact)
  BY <1>1, <1>3, <1>4, <1>6, CreateFileStep
<1>9. PICK L : Now(log, L, {}, {}, 0, exact)
  BY <1>7, <1>8
<1> QED
  BY <1>1, <1>5, <1>9, BeginStep

\* ext2_mkdir.
LEMMA MkdirInv ==
  ASSUME FsInv, NEW a \in Names, Mkdir(a)
  PROVE  FsInv'
<1> DEFINE exact == crashes = MaxCrashes
           i == NextInode(<<disk>>)
           half == AllocInode(<<disk>>)
           b == NextBlock(half)
           made == WriteInode(AllocBlock(half), i, NewDir(b))
           log == IF b = None THEN FreeInode(half, i)
                  ELSE IF CanAddDirent(made, Root)
                  THEN SyncSuperblock(AddLinks(AddDirent(made, Root, a, i), Root, 1))
                  ELSE FreeInode(FreeBlock(made, b), i)
<1>1. Lookup(disk, Root, a) = None /\ i # None /\ Begin(log)
  BY DEF Mkdir
<1>2. todo = <<>>
  BY <1>1 DEF Begin
<1>3. PICK K : Now(<<disk>>, K, {}, {}, 0, exact)
  BY <1>2, Start
<1>4. Lookup(Last(<<disk>>), Root, a) = None
  BY <1>1, OneDisk
<1>5. exact <=> crashes = MaxCrashes
  OBVIOUS
<1>6. /\ i = NextInode(<<disk>>) /\ half = AllocInode(<<disk>>) /\ b = NextBlock(half)
      /\ made = WriteInode(AllocBlock(half), i, NewDir(b))
  OBVIOUS
<1>7. log = IF b = None THEN FreeInode(half, i)
            ELSE IF CanAddDirent(made, Root)
            THEN SyncSuperblock(AddLinks(AddDirent(made, Root, a, i), Root, 1))
            ELSE FreeInode(FreeBlock(made, b), i)
  OBVIOUS
<1> HIDE DEF exact, i, half, b, made, log
<1>8. /\ b = None => Now(FreeInode(half, i), K, {}, {}, 0, exact)
      /\ b # None => Now(FreeInode(FreeBlock(made, b), i), K, {}, {}, 0, exact)
      /\ b # None /\ CanAddDirent(made, Root) =>
           \E L : Now(SyncSuperblock(AddLinks(AddDirent(made, Root, a, i), Root, 1)), L, {}, {}, 0, exact)
  BY <1>1, <1>3, <1>4, <1>6, MkdirStep
<1>9. PICK L : Now(log, L, {}, {}, 0, exact)
  BY <1>7, <1>8
<1> QED
  BY <1>1, <1>5, <1>9, BeginStep

\* ext2_unlink.
LEMMA UnlinkInv ==
  ASSUME FsInv, NEW p \in Dirs(disk), NEW a \in Names, Unlink(p, a)
  PROVE  FsInv'
<1> DEFINE exact == crashes = MaxCrashes
           i == Lookup(disk, p, a)
           n == disk.inode[i]
           isDir == n.kind = "dir"
           cut == RemoveDirent(<<disk>>, p, a)
           gone == IF n.links = 1 THEN RemoveDead(p, a, i) ELSE AddLinks(cut, i, -1)
           log == SyncSuperblock(AddLinks(gone, p, IF isDir THEN -1 ELSE 0))
<1>1. i # None /\ (n.kind = "dir" => EmptyDir(disk, i)) /\ Begin(log)
  BY DEF Unlink
<1>2. todo = <<>>
  BY <1>1 DEF Begin
<1>3. PICK K : Now(<<disk>>, K, {}, {}, 0, exact)
  BY <1>2, Start
<1>4. disk = Last(<<disk>>)
  BY OneDisk
<1>5. exact <=> crashes = MaxCrashes
  OBVIOUS
<1>6. disk \in Disks /\ Kept(disk, K) /\ Named(disk, K) /\ K \in SUBSET Inodes
  BY <1>3, <1>4, NowFacts DEF State
<1>7. n.kind \in {"file", "dir"} /\ (n.kind = "file" => n.links = 1)
  <2>1. i \in K
    BY <1>1, <1>6 DEF Named
  <2>2. n \in DiskInodes
    BY <1>6, <2>1, DiskFacts
  <2>3. n.kind # "none" /\ (n.kind = "file" => n.links = 1)
    BY <1>6, <2>1 DEF Kept
  <2> QED
    BY <2>2, <2>3 DEF DiskInodes
<1>8. i = Lookup(disk, p, a) /\ n = disk.inode[i]
  OBVIOUS
<1>9. RemoveDead(p, a, i) = DropInode(cut, i, n)
  BY DEF RemoveDead
<1>10. /\ cut = RemoveDirent(<<disk>>, p, a) /\ (isDir <=> n.kind = "dir")
       /\ gone = IF n.links = 1 THEN RemoveDead(p, a, i) ELSE AddLinks(cut, i, -1)
       /\ log = SyncSuperblock(AddLinks(gone, p, IF n.kind = "dir" THEN -1 ELSE 0))
  OBVIOUS
<1> HIDE DEF exact, i, n, isDir, cut, gone, log
<1>11. CASE n.kind = "file"
  <2>1. n.links = 1
    BY <1>7, <1>11
  <2>2. log = SyncSuperblock(AddLinks(gone, p, 0))
    BY <1>10, <1>11
  <2>3. gone = DropInode(RemoveDirent(<<disk>>, p, a), i, disk.inode[i])
    BY <1>8, <1>9, <1>10, <2>1
  <2>4. disk.inode[i].kind = "file"
    BY <1>8, <1>11
  <2>5. \E L : Now(SyncSuperblock(AddLinks(DropInode(RemoveDirent(<<disk>>, p, a), i, disk.inode[i]), p, 0)),
                   L, {}, {}, 0, exact)
    BY <1>1, <1>3, <1>4, <1>8, <2>4, UnlinkFileStep
  <2>6. PICK L : Now(log, L, {}, {}, 0, exact)
    BY <2>2, <2>3, <2>5
  <2> QED
    BY <1>1, <1>5, <2>6, BeginStep
<1>12. CASE n.kind = "dir"
  <2> DEFINE out == AddLinks(cut, i, -1)
  <2>1. n.links = 2 /\ \E L : Now(SyncSuperblock(AddLinks(out, p, -1)), L, {}, {}, 0, exact)
    BY <1>1, <1>3, <1>4, <1>8, <1>10, <1>12, UnlinkDirStep
  <2> HIDE DEF out
  <2>2. gone = out
    BY <1>10, <2>1 DEF out
  <2>3. log = SyncSuperblock(AddLinks(out, p, -1))
    BY <1>10, <1>12, <2>2
  <2>4. PICK L : Now(log, L, {}, {}, 0, exact)
    BY <2>1, <2>3
  <2> QED
    BY <1>1, <1>5, <2>4, BeginStep
<1> QED
  BY <1>7, <1>11, <1>12

\* ext2_write_file.
LEMMA WriteFileInv ==
  ASSUME FsInv, NEW p \in Dirs(disk), NEW a \in Names, NEW len \in 0..FileBlocks, WriteFile(p, a, len)
  PROVE  FsInv'
<1> DEFINE exact == crashes = MaxCrashes
           i == Lookup(disk, p, a)
           n == disk.inode[i]
           w == MapBlocks([log |-> <<disk>>, n |-> n, ok |-> TRUE], len)
           log == IF w.ok THEN SyncSuperblock(WriteInode(w.log, i, [w.n EXCEPT !.size = len])) ELSE w.log
<1>1. i # None /\ n.kind = "file" /\ Gap(disk, n, len) <= disk.mem /\ Begin(log)
  BY DEF WriteFile, Fits, Lacking, Gap
<1>2. todo = <<>>
  BY <1>1 DEF Begin
<1>3. PICK K : Now(<<disk>>, K, {}, {}, 0, exact)
  BY <1>2, Start
<1>4. disk = Last(<<disk>>)
  BY OneDisk
<1>5. exact <=> crashes = MaxCrashes
  OBVIOUS
<1>6. /\ i = Lookup(disk, p, a) /\ n = disk.inode[i]
      /\ w = MapBlocks([log |-> <<disk>>, n |-> n, ok |-> TRUE], len)
      /\ log = IF w.ok THEN SyncSuperblock(WriteInode(w.log, i, [w.n EXCEPT !.size = len])) ELSE w.log
  OBVIOUS
<1> HIDE DEF exact, i, n, w, log
<1>7. /\ w.ok => Now(SyncSuperblock(WriteInode(w.log, i, [w.n EXCEPT !.size = len])), K, {}, {}, 0, exact)
      /\ ~w.ok => Now(w.log, K, {}, {}, 0, exact)
  BY <1>1, <1>3, <1>4, <1>6, WriteFileStep
<1>8. Now(log, K, {}, {}, 0, exact)
  BY <1>6, <1>7
<1> QED
  BY <1>1, <1>5, <1>8, BeginStep

----------------------------------------------------------------------------
(* The theorems.                                                            *)

\* Each step of the specification keeps the invariant; a disk that changes moves.
LEMMA FsStep ==
  ASSUME FsInv, [FsNext]_fsVars
  PROVE  /\ FsInv'
         /\ \/ Moves(disk, disk') \/ TreeOf(disk') = TreeOf(disk)
            \/ (crashes' < crashes /\ todo # <<>> /\ Loses(TreeOf(disk), TreeOf(disk')))
<1>1. CASE DiskWrite
  BY <1>1, DiskWriteStep
<1>2. CASE Crash \/ CrashInside
  BY <1>2, CrashStep, CrashInsideStep
<1>3. ASSUME NEW a \in Names, Mkdir(a) PROVE FsInv' /\ disk' = disk
  <2>1. disk' = disk
    BY <1>3 DEF Mkdir, Begin
  <2> QED
    BY <1>3, <2>1, MkdirInv
<1>4. ASSUME NEW p \in Dirs(disk), NEW a \in Names, CreateFile(p, a) PROVE FsInv' /\ disk' = disk
  <2>1. disk' = disk
    BY <1>4 DEF CreateFile, Begin
  <2> QED
    BY <1>4, <2>1, CreateFileInv
<1>5. ASSUME NEW p \in Dirs(disk), NEW a \in Names, Unlink(p, a) PROVE FsInv' /\ disk' = disk
  <2>1. disk' = disk
    BY <1>5 DEF Unlink, Begin
  <2> QED
    BY <1>5, <2>1, UnlinkInv
<1>6. ASSUME NEW p \in Dirs(disk), NEW a \in Names, NEW len \in 0..FileBlocks, WriteFile(p, a, len)
      PROVE  FsInv' /\ disk' = disk
  <2>1. disk' = disk
    BY <1>6 DEF WriteFile, Begin
  <2> QED
    BY <1>6, <2>1, WriteFileInv
<1>7. CASE UNCHANGED fsVars
  <2>1. disk' = disk /\ todo' = todo /\ ops' = ops /\ crashes' = crashes
    BY <1>7 DEF fsVars
  <2> QED
    BY <2>1 DEF FsInv
<1> QED
  BY <1>1, <1>2, <1>3, <1>4, <1>5, <1>6, <1>7 DEF FsNext

\* The inductive invariant: every disk that a crash may leave, now and on the way to the end of
\* the operation, keeps the inodes and blocks that its paths lead to.
THEOREM FsInvariant == FsSpec => []FsInv
<1>1. FsInit => FsInv
  BY InitInv
<1>2. FsInv /\ [FsNext]_fsVars => FsInv'
  BY FsStep
<1> QED
  BY <1>1, <1>2, PTL DEF FsSpec

\* Where a path leads the inode is in use, was written, and shares no block.
LEMMA ReachedFacts ==
  ASSUME NEW d, NEW K, State(d, K, {}, {}, 0, FALSE)
  PROVE  \A i \in Reach(d) :
            /\ i \in d.iuse /\ d.inode[i].kind # "none" /\ (i # Root => d.inode[i].links > 0)
            /\ \A x \in Places : OwnBlock(d, i, x) # None =>
                  /\ OwnBlock(d, i, x) \in d.buse
                  /\ \A j \in Reach(d), y \in Places : OwnBlock(d, j, y) = OwnBlock(d, i, x) => j = i /\ y = x
<1>1. /\ d \in Disks /\ Kept(d, K) /\ Named(d, K) /\ K \in SUBSET Inodes /\ K \subseteq d.iuse
      /\ Owned(d, K) \subseteq d.buse /\ Reach(d) \subseteq K /\ Dirs(d) \subseteq K
  BY KeptIn DEF State, Bits
<1>2. /\ \A i \in K : d.inode[i].kind # "none" /\ (d.inode[i].kind = "file" => d.inode[i].links = 1)
      /\ \A i, j \in K, x, y \in Places :
            OwnBlock(d, i, x) = OwnBlock(d, j, y) /\ OwnBlock(d, i, x) # None => i = j /\ x = y
  BY <1>1 DEF Kept
<1>3. ASSUME NEW i \in Reach(d), i # Root PROVE d.inode[i].links > 0
  <2>1. i \in K /\ d.inode[i] \in DiskInodes
    BY <1>1, DiskFacts
  <2>2. d.inode[i].kind \in {"file", "dir"}
    BY <1>2, <2>1 DEF DiskInodes
  <2>3. CASE d.inode[i].kind = "file"
    BY <1>2, <2>1, <2>3
  <2>4. CASE d.inode[i].kind = "dir"
    <3>1. i \in Dirs(d)
      <4>1. CASE i \in Dirs(d)
        BY <4>1
      <4>2. CASE i \notin Dirs(d)
        <5>1. PICK p \in Dirs(d), a \in Names : i = Lookup(d, p, a) /\ i # None
          BY <4>2 DEF Reach
        <5>2. p = Root
          <6>1. SUFFICES ASSUME p # Root PROVE FALSE
            OBVIOUS
          <6>2. d.inode[Lookup(d, p, a)].kind = "file"
            BY <1>1, <5>1, <6>1 DEF Named
          <6> QED
            BY <2>4, <5>1, <6>2
        <5> QED
          BY <2>4, <5>1, <5>2 DEF Dirs
      <4> QED
        BY <4>1, <4>2
    <3>2. d.inode[i].links = 2
      BY <1>1, <1>3, <3>1 DEF Named
    <3> QED
      BY <3>2
  <2> QED
    BY <2>2, <2>3, <2>4
<1>4. ASSUME NEW i \in Reach(d), NEW x \in Places, OwnBlock(d, i, x) # None
      PROVE  /\ OwnBlock(d, i, x) \in d.buse
             /\ \A j \in Reach(d), y \in Places : OwnBlock(d, j, y) = OwnBlock(d, i, x) => j = i /\ y = x
  <2>1. OwnBlock(d, i, x) \in Owned(d, K)
    BY <1>1, <1>4 DEF Owned
  <2>2. ASSUME NEW j \in Reach(d), NEW y \in Places, OwnBlock(d, j, y) = OwnBlock(d, i, x)
        PROVE  j = i /\ y = x
    BY <1>1, <1>2, <1>4, <2>2
  <2> QED
    BY <1>1, <2>1, <2>2
<1> QED
  BY <1>1, <1>2, <1>3, <1>4

\* The invariant says what a crash finds.
LEMMA InvReaches ==
  ASSUME FsInv
  PROVE  ReachableIsAllocated
<1>1. PICK K : State(disk, K, {}, {}, 0, FALSE)
  BY DEF FsInv, Sound
<1> QED
  BY <1>1, ReachedFacts DEF ReachableIsAllocated

\* Links are numbers.
LEMMA LinksAreNumbers ==
  ASSUME NEW d \in Disks, NEW i \in Inodes
  PROVE  d.inode[i].links \in Int
<1> DEFINE n == d.inode[i]
<1>1. n \in DiskInodes
  BY DiskFacts
<1> HIDE DEF n
<1>2. n.links \in 0..(LinkWidth - 1)
  BY <1>1 DEF DiskInodes
<1> QED
  BY <1>2, LinkFacts DEF n

\* ... and that nothing is lost before the first.
LEMMA InvLosesNothing ==
  ASSUME FsInv
  PROVE  NothingLost
<1>1. SUFFICES ASSUME crashes = MaxCrashes, todo = <<>>
               PROVE  /\ disk.iuse = Reach(disk) \cup Strays
                      /\ disk.buse = {OwnBlock(disk, i, x) : i \in disk.iuse, x \in Places} \ {None}
                      /\ disk.mem = Cardinality(Blocks \ disk.buse)
                      /\ disk.inode[Root].links = 1 + Cardinality(Dirs(disk))
  BY DEF NothingLost
<1>2. State(disk, disk.iuse, {}, {}, 0, TRUE)
  BY <1>1 DEF FsInv, Settled
<1>3. /\ Book(disk, disk.iuse, 0) /\ Bits(disk, disk.iuse, Owned(disk, disk.iuse), {}, {}, TRUE)
      /\ Reach(disk) \subseteq disk.iuse
  BY <1>2, KeptIn DEF State
<1>4. disk.iuse = Reach(disk) \cup Strays
  <2>1. \A i \in disk.iuse : i \in Reach(disk) \/ (disk.inode[i].kind = "dir" /\ disk.inode[i].links = 1)
    BY <1>3 DEF Book
  <2> QED
    BY <1>3, <2>1 DEF Strays
<1>5. disk.buse = Owned(disk, disk.iuse) /\ disk.mem = Cardinality(Blocks \ disk.buse)
  BY <1>3 DEF Bits
<1>6. disk.inode[Root].links = 1 + Cardinality(Dirs(disk))
  <2>1. disk.inode[Root].links = 1 + Cardinality(Dirs(disk)) + 0
    BY <1>3 DEF Book
  <2>2. disk.inode[Root].links \in Int
    <3>1. disk \in Disks
      BY <1>2 DEF State
    <3>2. Root \in Inodes
      BY NumberFacts
    <3> QED
      BY <3>1, <3>2, LinksAreNumbers
  <2>3. Dirs(disk) \in SUBSET Inodes
    <3>1. disk \in Disks
      BY <1>2 DEF State
    <3>2. disk.iuse \in SUBSET Inodes
      BY <3>1, DiskFacts
    <3> QED
      BY <1>3, <3>2 DEF Reach
  <2>4. Cardinality(Dirs(disk)) \in Nat
    BY <2>3, FewInodes
  <2> QED
    BY <2>1, <2>4
<1> QED
  BY <1>4, <1>5, <1>6 DEF Owned

\* The variables keep their types.
THEOREM FsTypes == FsSpec => []FsTypeOK
<1>1. FsInv => FsTypeOK
  <2>1. SUFFICES ASSUME FsInv PROVE FsTypeOK
    OBVIOUS
  <2>2. disk \in Disks /\ ops \in 0..MaxOps /\ crashes \in 0..MaxCrashes
    BY <2>1 DEF FsInv, Sound, State
  <2> QED
    BY <2>2, DiskFacts DEF FsTypeOK
<1> QED
  BY <1>1, FsInvariant, PTL

\* Whatever a path leads to is allocated after every single write of ext2.c, and before the first
\* crash nothing else is once an operation is over: all of it is there for any number of inodes,
\* blocks, names, operations and crashes.
THEOREM BitmapsAreExact == FsSpec => []BitmapsExact
<1>1. FsInv => BitmapsExact
  BY InvReaches, InvLosesNothing DEF BitmapsExact
<1> QED
  BY <1>1, FsInvariant, PTL

\* What a move makes of the tree is a step of the abstract name space.
LEMMA MoveIsStep ==
  ASSUME Moves(disk, disk'), TreeOf(disk') # TreeOf(disk)
  PROVE  NS!TreeNext
<1> DEFINE was == TreeOf(disk)
           new == TreeOf(disk')
<1>1. PICK path \in NS!Paths :
         \/ NS!Make(was, new, path, NS!Folder)
         \/ NS!Make(was, new, path, NS!File(0))
         \/ NS!Drop(was, new, path)
         \/ \E size \in 0..FileBlocks : NS!Resize(was, new, path, size)
  BY DEF Moves
<1>2. \E e : new = [was EXCEPT ![path] = e]
  BY <1>1 DEF NS!Make, NS!Drop, NS!Resize
<1>3. was = [q \in NS!Paths |-> was[q]]
  BY TreeAt
<1>4. new[path] # was[path]
  <2> HIDE DEF was, new
  <2>1. PICK e : new = [was EXCEPT ![path] = e]
    BY <1>2
  <2>2. new[path] = e
    BY <1>3, <2>1
  <2>3. e = was[path] => new = was
    BY <1>3, <2>1
  <2>4. new # was
    BY DEF new, was
  <2> QED
    BY <2>2, <2>3, <2>4
<1>5. TreeOnDisk = was /\ TreeOnDisk' = new
  BY DEF TreeOnDisk, TreeOf
<1> QED
  BY <1>1, <1>4, <1>5 DEF NS!TreeNext

\* Each operation of ext2.c changes the names in one of its writes: the driver implements the
\* abstract name space, in which an operation happens at once, whenever the machine stops; but
\* within the write of a new entry, where names of that directory may be lost, and only those.
THEOREM NamesAreAtomic == FsSpec => NamesChangeAtOnce
<1>1. FsInit => NS!TreeInit
  <2>1. SUFFICES ASSUME FsInit PROVE NS!TreeInit
    OBVIOUS
  <2>2. \A a \in Names : Lookup(disk, Root, a) = None
    BY <2>1, InitInv
  <2>3. \A a, b \in Names : Inner(disk, a, b) = None
    BY <2>2 DEF Inner
  <2>4. Shown(disk, None) = NS!Absent
    BY DEF Shown, NS!Absent
  <2>5. \A path \in NS!Paths : TreeOf(disk)[path] = NS!Absent
    BY <2>2, <2>3, <2>4, PathsOf, TreeAt
  <2>6. TreeOf(disk) = [path \in NS!Paths |-> TreeOf(disk)[path]]
    BY TreeAt
  <2>7. TreeOf(disk) = [path \in NS!Paths |-> NS!Absent]
    BY <2>5, <2>6
  <2> QED
    BY <2>7 DEF NS!TreeInit, TreeOnDisk
<1>2. FsInv /\ [FsNext]_fsVars =>
         [\/ UNCHANGED disk \/ NS!TreeNext
          \/ (crashes' < crashes /\ todo # <<>> /\ NS!TreeTorn)]_TreeOnDisk
  <2>1. Loses(TreeOf(disk), TreeOf(disk')) => NS!TreeTorn
    BY DEF Loses, NS!TreeTorn, TreeOnDisk
  <2> QED
    BY <2>1, FsStep, MoveIsStep DEF TreeOnDisk
<1> QED
  BY <1>1, <1>2, FsInvariant, PTL DEF FsSpec, NamesChangeAtOnce
=============================================================================
