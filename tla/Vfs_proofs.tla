----------------------------- MODULE Vfs_proofs -----------------------------
(***************************************************************************)
(* The pool of nodes is exact, and what was written to a file of a disk is *)
(* on the disk after the last close: for any number of processes, nodes,   *)
(* descriptors, directories and names.                                     *)
(*                                                                         *)
(* A node is free, in the tree of the ramdisk and /proc at one place, or   *)
(* adrift: a mirror, or unlinked while open, which the last close frees    *)
(* (Pool, Once).  That works because the count of a node is the number of  *)
(* its descriptors (Counted).  A mirror has the text that was written last *)
(* and is dirty, or else the disk has it, unless the mirror was opened     *)
(* without memory for it or the disk refused it (Saved); that needs one    *)
(* mirror of a file, and no unlink or rename on the disk below it          *)
(* (Careful).                                                              *)
(*                                                                         *)
(* The invariant is of a state s that need not be vfs, so that it is told  *)
(* of the states inside a call as well: between the steps of proc_sync and *)
(* close_proc_fds, which are folds (FoldsExist), and in vfs_open before    *)
(* the handle has a descriptor (Held, L; Counted, hand).                   *)
(***************************************************************************)
EXTENDS VfsProps, FiniteSetTheorems, SequenceTheorems, WellFoundedInduction, TLAPS

----------------------------------------------------------------------------
(* Numbers.                                                                 *)

\* A set of numbers with a number in it has a least one.
LEMMA LeastExists ==
  ASSUME NEW T \in SUBSET Nat, NEW k \in T
  PROVE  \E i \in T : \A j \in T : i <= j
<1>1. IsWellFoundedOn(OpToRel(<, Nat), Nat)
  BY NatLessThanWellFounded
<1>2. PICK i \in T : ~(\E j \in T : <<j, i>> \in OpToRel(<, Nat))
  BY <1>1, WFMin, T # {}
<1>3. ASSUME NEW j \in T PROVE i <= j
  BY <1>2 DEF OpToRel
<1> QED
  BY <1>2, <1>3

\* Induction up to n, with a set for the property.
LEMMA UpTo ==
  ASSUME NEW n \in Nat, NEW T, 0 \in T, \A k \in 1..n : k - 1 \in T => k \in T
  PROVE  \A k \in 0..n : k \in T
<1> DEFINE R == {k \in 0..n : k \notin T}
<1> SUFFICES ASSUME NEW k \in R PROVE FALSE
  OBVIOUS
<1>1. PICK i \in R : \A j \in R : i <= j
  BY LeastExists, R \in SUBSET Nat
<1>2. i \in 1..n /\ i - 1 \notin R
  BY <1>1
<1>3. i - 1 \in T
  BY <1>2
<1> QED
  BY <1>2, <1>3

\* A set of numbers up to n has a greatest.
LEMMA MaxIs ==
  ASSUME NEW n \in Nat, NEW S \in SUBSET (1..n), S # {}
  PROVE  /\ Max(S) \in S /\ \A i \in S : i <= Max(S)
         /\ Max(S) \in 1..n
<1> DEFINE T == {m \in Nat : \A i \in S : i <= m}
<1>1. n \in T
  OBVIOUS
<1>2. PICK m \in T : \A j \in T : m <= j
  BY <1>1, LeastExists, T \in SUBSET Nat
<1>3. m \in S
  <2>1. SUFFICES ASSUME m \notin S PROVE FALSE
    OBVIOUS
  <2>2. \A i \in S : i <= m - 1
    BY <1>2, <2>1
  <2>3. PICK i \in S : TRUE
    OBVIOUS
  <2>4. m - 1 \in Nat
    BY <1>2, <2>2, <2>3
  <2>5. m - 1 \in T
    BY <2>2, <2>4
  <2> QED
    BY <1>2, <2>4, <2>5
<1>4. \E x \in S : \A y \in S : x >= y
  BY <1>2, <1>3
<1>5. Max(S) \in S /\ \A y \in S : Max(S) >= y
  BY <1>4 DEF Max
<1> QED
  BY <1>5

----------------------------------------------------------------------------
(* The three folds of the model.                                            *)

\* What each of them does with its i-th element.
FoldStep(kind, u, s, i) ==
    IF kind = "show" THEN Show(s, i)
    ELSE IF kind = "forget" THEN Forget(s, i)
    ELSE IF fdt[u][i] = NoNode THEN s ELSE CloseNode(s, fdt[u][i])

\* g is the function behind FoldLeft.
FoldFcn(g, kind, u, s, n) ==
    g = [S \in SUBSET (1..n) |->
           IF S = {} THEN s ELSE FoldStep(kind, u, g[S \ {Max(S)}], Max(S))]

\* There is such a function.
LEMMA FoldsExist ==
  ASSUME NEW kind, NEW u, NEW s, NEW n \in Nat
  PROVE  \E g : FoldFcn(g, kind, u, s, n)
<1> DEFINE T == {N \in 0..n : \E g : FoldFcn(g, kind, u, s, N)}
<1>1. 0 \in T
  <2> DEFINE g == [S \in SUBSET (1..0) |-> s]
  <2>1. SUBSET (1..0) = {{}}
    OBVIOUS
  <2>2. FoldFcn(g, kind, u, s, 0)
    BY <2>1 DEF FoldFcn
  <2> QED
    BY <2>2
<1>2. ASSUME NEW N \in 1..n, N - 1 \in T PROVE N \in T
  <2>1. PICK g : FoldFcn(g, kind, u, s, N - 1)
    BY <1>2
  <2> DEFINE h == [S \in SUBSET (1..N) |->
                     IF N \in S THEN FoldStep(kind, u, g[S \ {N}], N) ELSE g[S]]
  <2>2. ASSUME NEW S \in SUBSET (1..N)
        PROVE  h[S] = IF S = {} THEN s ELSE FoldStep(kind, u, h[S \ {Max(S)}], Max(S))
    <3>1. CASE N \in S
      <4>1. N <= Max(S) /\ Max(S) \in 1..N
        BY <3>1, MaxIs
      <4>2. Max(S) = N
        BY <4>1
      <4>3. S \ {N} \in SUBSET (1..N) /\ N \notin S \ {N}
        OBVIOUS
      <4>4. h[S \ {N}] = g[S \ {N}] /\ h[S] = FoldStep(kind, u, g[S \ {N}], N)
        BY <3>1, <4>3
      <4> QED
        BY <3>1, <4>2, <4>4
    <3>2. CASE N \notin S /\ S # {}
      <4>1. S \in SUBSET (1..(N - 1)) /\ h[S] = g[S]
        BY <3>2
      <4>2. S \ {Max(S)} \in SUBSET (1..N) /\ N \notin S \ {Max(S)}
        BY <3>2
      <4>3. h[S \ {Max(S)}] = g[S \ {Max(S)}]
        BY <4>2
      <4>4. g[S] = FoldStep(kind, u, g[S \ {Max(S)}], Max(S))
        BY <2>1, <3>2, <4>1 DEF FoldFcn
      <4> QED
        BY <3>2, <4>1, <4>3, <4>4
    <3>3. CASE S = {}
      <4>1. {} \in SUBSET (1..(N - 1))
        OBVIOUS
      <4>2. g[{}] = s
        BY <2>1, <4>1 DEF FoldFcn
      <4> QED
        BY <3>3, <4>2
    <3> QED
      BY <3>1, <3>2, <3>3
  <2>3. FoldFcn(h, kind, u, s, N)
    BY <2>2 DEF FoldFcn
  <2> QED
    BY <2>3
<1> HIDE DEF T
<1>3. n \in T
  BY <1>1, <1>2, UpTo
<1> QED
  BY <1>3 DEF T

OneByOne(g, kind, u, s, n) ==
    /\ g[1..0] = s
    /\ \A k \in 1..n : g[1..k] = FoldStep(kind, u, g[1..(k - 1)], k)

\* It goes through the numbers up to n one by one.
LEMMA FoldsOneByOne ==
  ASSUME NEW kind, NEW u, NEW s, NEW n \in Nat, NEW g, FoldFcn(g, kind, u, s, n)
  PROVE  OneByOne(g, kind, u, s, n)
<1>1. g[1..0] = s
  BY 1..0 = {} DEF FoldFcn
<1>2. ASSUME NEW k \in 1..n PROVE g[1..k] = FoldStep(kind, u, g[1..(k - 1)], k)
  <2>1. 1..k \in SUBSET (1..n) /\ k \in 1..k /\ 1..k # {} /\ 1..k \in SUBSET (1..k) /\ k \in Nat
    OBVIOUS
  <2>2. Max(1..k) \in 1..k /\ k <= Max(1..k)
    BY <2>1, MaxIs
  <2>3. Max(1..k) = k
    BY <2>2
  <2>4. (1..k) \ {k} = 1..(k - 1)
    OBVIOUS
  <2> QED
    BY <2>1, <2>3, <2>4 DEF FoldFcn
<1> QED
  BY <1>1, <1>2 DEF OneByOne

\* The folds of proc_sync.
LEMMA ShowFold ==
  ASSUME NEW s, NEW n \in Nat
  PROVE  \E f : /\ f[0] = s /\ \A k \in 1..n : f[k] = Show(f[k - 1], k)
                /\ FoldLeft(Show, s, [i \in 1..n |-> i]) = f[n]
<1> DEFINE q == [i \in 1..n |-> i]
           Rec(g) == g = [S \in SUBSET (1..n) |->
                            IF S = {} THEN s ELSE Show(g[S \ {Max(S)}], q[Max(S)])]
           F == CHOOSE g : Rec(g)
<1>1. PICK g : FoldFcn(g, "show", 0, s, n)
  BY FoldsExist
<1>2. \A S \in SUBSET (1..n) : S # {} => q[Max(S)] = Max(S)
  BY MaxIs
<1>3. Rec(g)
  <2> HIDE DEF q
  <2> QED
    BY <1>1, <1>2 DEF FoldFcn, FoldStep
<1>4. Rec(F)
  <2> HIDE DEF Rec
  <2> QED
    BY <1>3
<1>5. FoldLeft(Show, s, q) = F[1..n]
  BY DEF FoldLeft, MapThenFoldSet
<1> HIDE DEF F
<1>6. FoldFcn(F, "show", 0, s, n)
  <2> HIDE DEF q
  <2> QED
    BY <1>2, <1>4 DEF FoldFcn, FoldStep
<1> DEFINE f == [k \in 0..n |-> F[1..k]]
<1>7. f[0] = s /\ \A k \in 1..n : f[k] = Show(f[k - 1], k)
  <2>1. F[1..0] = s /\ \A k \in 1..n : F[1..k] = FoldStep("show", 0, F[1..(k - 1)], k)
    <3>1. OneByOne(F, "show", 0, s, n)
      BY <1>6, FoldsOneByOne, ZenonT(60)
    <3> QED
      BY <3>1, Zenon DEF OneByOne
  <2>2. ASSUME NEW k \in 1..n PROVE F[1..k] = Show(F[1..(k - 1)], k)
    BY <2>1 DEF FoldStep
  <2>3. f[0] = F[1..0] /\ \A k \in 1..n : f[k] = F[1..k] /\ f[k - 1] = F[1..(k - 1)]
    OBVIOUS
  <2> HIDE DEF f
  <2> QED
    BY <2>1, <2>2, <2>3
<1>8. f[n] = F[1..n]
  OBVIOUS
<1> QED
  BY <1>5, <1>7, <1>8

\* The first of them.
LEMMA ForgetFold ==
  ASSUME NEW s, NEW n \in Nat
  PROVE  \E f : /\ f[0] = s /\ \A k \in 1..n : f[k] = Forget(f[k - 1], k)
                /\ FoldLeft(Forget, s, [i \in 1..n |-> i]) = f[n]
<1> DEFINE q == [i \in 1..n |-> i]
           Rec(g) == g = [S \in SUBSET (1..n) |->
                            IF S = {} THEN s ELSE Forget(g[S \ {Max(S)}], q[Max(S)])]
           F == CHOOSE g : Rec(g)
<1>1. PICK g : FoldFcn(g, "forget", 0, s, n)
  BY FoldsExist
<1>2. \A S \in SUBSET (1..n) : S # {} => q[Max(S)] = Max(S)
  BY MaxIs
<1>3. Rec(g)
  <2> HIDE DEF q
  <2> QED
    BY <1>1, <1>2 DEF FoldFcn, FoldStep
<1>4. Rec(F)
  <2> HIDE DEF Rec
  <2> QED
    BY <1>3
<1>5. FoldLeft(Forget, s, q) = F[1..n]
  BY DEF FoldLeft, MapThenFoldSet
<1> HIDE DEF F
<1>6. FoldFcn(F, "forget", 0, s, n)
  <2> HIDE DEF q
  <2> QED
    BY <1>2, <1>4 DEF FoldFcn, FoldStep
<1> DEFINE f == [k \in 0..n |-> F[1..k]]
<1>7. f[0] = s /\ \A k \in 1..n : f[k] = Forget(f[k - 1], k)
  <2>1. F[1..0] = s /\ \A k \in 1..n : F[1..k] = FoldStep("forget", 0, F[1..(k - 1)], k)
    <3>1. OneByOne(F, "forget", 0, s, n)
      BY <1>6, FoldsOneByOne, ZenonT(60)
    <3> QED
      BY <3>1, Zenon DEF OneByOne
  <2>2. ASSUME NEW k \in 1..n PROVE F[1..k] = Forget(F[1..(k - 1)], k)
    BY <2>1 DEF FoldStep
  <2>3. f[0] = F[1..0] /\ \A k \in 1..n : f[k] = F[1..k] /\ f[k - 1] = F[1..(k - 1)]
    OBVIOUS
  <2> HIDE DEF f
  <2> QED
    BY <2>1, <2>2, <2>3
<1>8. f[n] = F[1..n]
  OBVIOUS
<1> QED
  BY <1>5, <1>7, <1>8

\* close_proc_fds.
LEMMA ClosedFold ==
  ASSUME NEW u, ClosedAll(u), UserFds \in Nat
  PROVE  \E f : /\ f[0] = vfs
                /\ \A k \in 1..UserFds :
                      f[k] = IF fdt[u][k] = NoNode THEN f[k - 1] ELSE CloseNode(f[k - 1], fdt[u][k])
                /\ vfs' = f[UserFds]
<1> DEFINE s == vfs
           n == UserFds
           ClosedToo(t, i) == IF fdt[u][i] = NoNode THEN t ELSE CloseNode(t, fdt[u][i])
           q == [i \in 1..n |-> i]
           Rec(g) == g = [S \in SUBSET (1..n) |->
                            IF S = {} THEN s ELSE ClosedToo(g[S \ {Max(S)}], q[Max(S)])]
           F == CHOOSE g : Rec(g)
<1>1. PICK g : FoldFcn(g, "closed", u, s, n)
  BY FoldsExist
<1>2. \A S \in SUBSET (1..n) : S # {} => q[Max(S)] = Max(S)
  BY MaxIs
<1>3. Rec(g)
  <2> HIDE DEF q
  <2> QED
    BY <1>1, <1>2 DEF FoldFcn, FoldStep
<1>4. Rec(F)
  <2> HIDE DEF Rec
  <2> QED
    BY <1>3
<1>5. vfs' = F[1..n]
  BY DEF ClosedAll, FoldLeft, MapThenFoldSet, Fds
<1> HIDE DEF F
<1>6. FoldFcn(F, "closed", u, s, n)
  <2> HIDE DEF q
  <2> QED
    BY <1>2, <1>4 DEF FoldFcn, FoldStep
<1> DEFINE f == [k \in 0..n |-> F[1..k]]
<1>7. f[0] = s /\ \A k \in 1..n : f[k] = ClosedToo(f[k - 1], k)
  <2>1. F[1..0] = s /\ \A k \in 1..n : F[1..k] = FoldStep("closed", u, F[1..(k - 1)], k)
    <3>1. OneByOne(F, "closed", u, s, n)
      BY <1>6, FoldsOneByOne, ZenonT(60)
    <3> QED
      BY <3>1, Zenon DEF OneByOne
  <2>2. ASSUME NEW k \in 1..n PROVE F[1..k] = ClosedToo(F[1..(k - 1)], k)
    BY <2>1 DEF FoldStep
  <2>3. f[0] = F[1..0] /\ \A k \in 1..n : f[k] = F[1..k] /\ f[k - 1] = F[1..(k - 1)]
    OBVIOUS
  <2> HIDE DEF f
  <2> QED
    BY <2>1, <2>2, <2>3
<1>8. f[n] = F[1..n]
  OBVIOUS
<1> QED
  BY <1>5, <1>7, <1>8


----------------------------------------------------------------------------
(* The invariant, of a state s of the pool, descriptors g and l for last, so *)
(* that it can be told of the states inside a call as well.                 *)

NodeType == [name : RamNames \cup DiskNames \cup {""}, refs : Nat, orphaned : BOOLEAN,
             mirror : BOOLEAN, dirty : BOOLEAN, text : Contents, whole : BOOLEAN]

FileType == [text : Contents \cup {NoFile}, full : BOOLEAN, stale : BOOLEAN]

States == [node : [VNodes -> NodeType], free : Seq(VNodes), count : 0..NNodes,
           kids : [RamDirs -> Seq(VNodes)], pdir : [Users -> VNodes \cup {NoNode}],
           pfile : [Users -> VNodes \cup {NoNode}],
           disk : [DiskNames -> FileType]]

Handles == [Users -> [Fds -> VNodes \cup {NoNode}]]

Elems(q)    == {q[i] : i \in 1..Len(q)}
Distinct(q) == \A i, j \in 1..Len(q) : q[i] = q[j] => i = j

\* The nodes in the tree.
Tree(kids, pdir, pfile) ==
    {n \in VNodes : \/ \E d \in RamDirs : n \in Elems(kids[d])
                    \/ \E u \in Users : n = pdir[u]
                    \/ \E u \in Users : n = pfile[u]}

\* Each of them is there once, and a process has no file without its directory.
Once(kids, pdir, pfile) ==
    /\ \A d \in RamDirs : Distinct(kids[d]) /\ Len(kids[d]) <= MaxKids
    /\ \A d, e \in RamDirs : \A n \in VNodes :
          n \in Elems(kids[d]) /\ n \in Elems(kids[e]) => d = e
    /\ \A d \in RamDirs, u \in Users : pdir[u] \notin Elems(kids[d]) /\ pfile[u] \notin Elems(kids[d])
    /\ \A u, v \in Users : u # v /\ pdir[u] # NoNode => pdir[u] # pdir[v]
    /\ \A u, v \in Users : u # v /\ pfile[u] # NoNode => pfile[u] # pfile[v]
    /\ \A u, v \in Users : pdir[u] # NoNode => pdir[u] # pfile[v]
    /\ \A u \in Users : pdir[u] = NoNode => pfile[u] = NoNode

\* Out of the tree, and freed by the last close.
Adrift(r) == r.mirror \/ r.orphaned

NodeOk(r) ==
    /\ Adrift(r) => r.refs > 0
    /\ r.dirty => r.mirror
    /\ r.mirror => r.name \in DiskNames /\ ~r.orphaned

\* A node is free, in the tree T, adrift, or in L: in nobody's hands but the caller's.
Pool(node, free, count, T, L) ==
    /\ Distinct(free) /\ T \cap L = {} /\ T \subseteq 1..count /\ L \subseteq 1..count
    /\ \A n \in Elems(free) : n <= count /\ n \notin T /\ n \notin L /\ node[n] = BlankNode
    /\ \A n \in VNodes : n > count => node[n] = BlankNode
    /\ \A n \in VNodes : NodeOk(node[n])
    /\ \A n \in T : ~Adrift(node[n])
    /\ \A n \in L : ~Adrift(node[n])
    /\ \A n \in 1..count : n \in Elems(free) \/ n \in T \/ n \in L \/ Adrift(node[n])

\* The count of a node is that of its descriptors, and one more for a handle not yet given out.
Holders(g, n) == {h \in Users \X Fds : g[h[1]][h[2]] = n}
Counted(node, g, hand) ==
    \A n \in VNodes : node[n].refs = Cardinality(Holders(g, n)) + (IF n = hand THEN 1 ELSE 0)

\* The mirror says t, or is known to lack it.
Agrees(r, t) == r.whole => r.text = t

\* The file says t, or is known not to.
Says(file, t) == file.stale \/ file.text = t

\* What was written to a file is in its mirror, or on the disk.
Saved(node, disk, l) ==
    /\ \A n \in VNodes : node[n].mirror =>
          /\ Agrees(node[n], l[node[n].name])
          /\ node[n].dirty \/ Says(disk[node[n].name], l[node[n].name])
    /\ \A n, m \in VNodes :
          node[n].mirror /\ node[m].mirror /\ node[n].name = node[m].name => n = m
    /\ \A f \in DiskNames :
          (\A n \in VNodes : ~(node[n].mirror /\ node[n].name = f)) => Says(disk[f], l[f])

Careful == ~OpensTwice /\ ~RemovesOpen

Good(s, g, l, hand) ==
    /\ s \in States /\ g \in Handles /\ l \in [DiskNames -> Contents \cup {NoFile}]
    /\ Once(s.kids, s.pdir, s.pfile)
    /\ Pool(s.node, s.free, s.count, Tree(s.kids, s.pdir, s.pfile), {})
    /\ Counted(s.node, g, hand)
    /\ Careful => Saved(s.node, s.disk, l)

VfsInv ==
    /\ Good(vfs, fdt, last, NoNode)
    /\ life \in [Users -> {"unborn", "live", "zombie", "gone"}]

----------------------------------------------------------------------------
(* Sequences without repetitions.                                           *)

\* Append adds its element, and no repetition if that was not there.
LEMMA AppendElems ==
  ASSUME NEW S, NEW q \in Seq(S), NEW n \in S
  PROVE  /\ Append(q, n) \in Seq(S) /\ Len(Append(q, n)) = Len(q) + 1
         /\ Elems(Append(q, n)) = Elems(q) \cup {n}
         /\ Distinct(q) /\ n \notin Elems(q) => Distinct(Append(q, n))
<1> DEFINE r == Append(q, n)
<1>1. r \in Seq(S) /\ Len(r) = Len(q) + 1 /\ Len(q) \in Nat
  OBVIOUS
<1>2. (\A i \in 1..Len(q) : r[i] = q[i]) /\ r[Len(q) + 1] = n
  OBVIOUS
<1> HIDE DEF r
<1>3. ASSUME NEW x PROVE x \in Elems(r) <=> x \in Elems(q) \cup {n}
  BY <1>1, <1>2 DEF Elems
<1>4. Elems(r) = Elems(q) \cup {n}
  BY <1>3
<1>5. ASSUME Distinct(q), n \notin Elems(q) PROVE Distinct(r)
  <2>1. \A i \in 1..Len(q) : q[i] # n
    BY <1>5 DEF Elems
  <2> QED
    BY <1>1, <1>2, <1>5, <2>1 DEF Distinct
<1> QED
  BY <1>1, <1>4, <1>5 DEF r

\* Front takes the last element away.
LEMMA FrontElems ==
  ASSUME NEW S, NEW q \in Seq(S), q # <<>>, Distinct(q)
  PROVE  /\ Last(q) \in S /\ Last(q) \in Elems(q)
         /\ Front(q) \in Seq(S) /\ Distinct(Front(q))
         /\ Elems(Front(q)) = Elems(q) \ {Last(q)}
<1> DEFINE r == Front(q)
<1>1. Len(q) \in Nat \ {0} /\ Last(q) = q[Len(q)]
  BY EmptySeq DEF Last
<1>2. r = [i \in 1..(Len(q) - 1) |-> q[i]]
  BY <1>1 DEF Front
<1>3. r \in Seq(S) /\ Len(r) = Len(q) - 1 /\ \A i \in 1..(Len(q) - 1) : r[i] = q[i]
  BY <1>1, <1>2
<1> HIDE DEF r
<1>4. Last(q) \in S /\ Last(q) \in Elems(q)
  BY <1>1 DEF Elems
<1>5. Distinct(r)
  BY <1>1, <1>3 DEF Distinct
<1>6. ASSUME NEW x \in Elems(r) PROVE x \in Elems(q) \ {Last(q)}
  BY <1>1, <1>3 DEF Elems, Distinct
<1>7. ASSUME NEW x \in Elems(q), x # Last(q) PROVE x \in Elems(r)
  BY <1>1, <1>3, <1>7 DEF Elems
<1> QED
  BY <1>3, <1>4, <1>5, <1>6, <1>7 DEF r

\* RemoveAt takes one element away.
LEMMA RemoveElems ==
  ASSUME NEW S, NEW q \in Seq(S), NEW k \in 1..Len(q), Distinct(q)
  PROVE  /\ RemoveAt(q, k) \in Seq(S) /\ Len(RemoveAt(q, k)) = Len(q) - 1
         /\ Distinct(RemoveAt(q, k))
         /\ Elems(RemoveAt(q, k)) = Elems(q) \ {q[k]}
<1> DEFINE r == RemoveAt(q, k)
<1>1. Len(q) \in Nat \ {0}
  OBVIOUS
<1> DEFINE A == SubSeq(q, 1, k - 1)
           B == SubSeq(q, k + 1, Len(q))
<1>2. A \in Seq(S) /\ Len(A) = k - 1 /\ B \in Seq(S) /\ Len(B) = Len(q) - k
  OBVIOUS
<1>3. (\A i \in 1..(k - 1) : A[i] = q[i]) /\ \A i \in 1..(Len(q) - k) : B[i] = q[k + i]
  OBVIOUS
<1>4. r = A \o B
  BY DEF RemoveAt
<1> HIDE DEF A, B, r
<1>5. r \in Seq(S) /\ Len(r) = Len(q) - 1
  <2>1. r \in Seq(S) /\ Len(r) = Len(A) + Len(B)
    BY <1>2, <1>4, ConcatProperties
  <2> QED
    BY <1>1, <1>2, <2>1
<1>6. ASSUME NEW i \in 1..(Len(q) - 1) PROVE r[i] = IF i < k THEN q[i] ELSE q[i + 1]
  <2>1. r[i] = IF i <= k - 1 THEN A[i] ELSE B[i - (k - 1)]
    BY <1>1, <1>2, <1>4
  <2>2. CASE i < k
    BY <1>3, <2>1, <2>2
  <2>3. CASE i >= k
    <3>1. i - (k - 1) \in 1..(Len(q) - k) /\ k + (i - (k - 1)) = i + 1
      BY <1>1, <2>3
    <3> QED
      BY <1>3, <2>1, <2>3, <3>1
  <2> QED
    BY <2>2, <2>3
<1>7. Distinct(r)
  BY <1>1, <1>5, <1>6 DEF Distinct
<1>8. ASSUME NEW x \in Elems(r) PROVE x \in Elems(q) \ {q[k]}
  <2>1. PICK i \in 1..(Len(q) - 1) : x = r[i]
    BY <1>5 DEF Elems
  <2> QED
    BY <1>1, <1>6, <2>1 DEF Elems, Distinct
<1>9. ASSUME NEW x \in Elems(q), x # q[k] PROVE x \in Elems(r)
  <2>1. PICK i \in 1..Len(q) : x = q[i]
    BY DEF Elems
  <2>2. CASE i < k
    <3>1. i \in 1..(Len(q) - 1) /\ r[i] = x
      BY <1>1, <1>6, <2>1, <2>2
    <3> QED
      BY <1>5, <3>1 DEF Elems
  <2>3. CASE i > k
    <3>1. i - 1 \in 1..(Len(q) - 1) /\ r[i - 1] = x
      BY <1>1, <1>6, <2>1, <2>3
    <3> QED
      BY <1>5, <3>1 DEF Elems
  <2> QED
    BY <1>9, <2>1, <2>2, <2>3
<1> QED
  BY <1>5, <1>7, <1>8, <1>9 DEF r

\* The elements are elements.
LEMMA ElemsIn ==
  ASSUME NEW S, NEW q \in Seq(S)
  PROVE  Elems(q) \subseteq S /\ \A i \in 1..Len(q) : q[i] \in Elems(q)
BY DEF Elems

----------------------------------------------------------------------------
(* The tree.                                                                *)

Shape(kids, pdir, pfile) ==
    /\ kids \in [RamDirs -> Seq(VNodes)]
    /\ pdir \in [Users -> VNodes \cup {NoNode}] /\ pfile \in [Users -> VNodes \cup {NoNode}]
    /\ Once(kids, pdir, pfile)

\* NoNode is not a node.
LEMMA NoNodeFacts ==
  /\ NoNode \notin VNodes /\ VNodes \subseteq Nat /\ NNodes \in Nat
  /\ \A n \in VNodes : n # NoNode
BY NNodesAssumption DEF NoNode, VNodes

\* What is in the tree is a node.
LEMMA InTree ==
  ASSUME NEW kids, NEW pdir, NEW pfile, Shape(kids, pdir, pfile)
  PROVE  /\ Tree(kids, pdir, pfile) \subseteq VNodes
         /\ \A d \in RamDirs : \A i \in 1..Len(kids[d]) : kids[d][i] \in Tree(kids, pdir, pfile)
         /\ \A u \in Users : pdir[u] # NoNode => pdir[u] \in Tree(kids, pdir, pfile)
         /\ \A u \in Users : pfile[u] # NoNode => pfile[u] \in Tree(kids, pdir, pfile)
<1>1. ASSUME NEW d \in RamDirs, NEW i \in 1..Len(kids[d])
      PROVE  kids[d][i] \in Tree(kids, pdir, pfile)
  <2>1. kids[d] \in Seq(VNodes)
    BY DEF Shape
  <2>2. kids[d][i] \in VNodes /\ kids[d][i] \in Elems(kids[d])
    BY <2>1, ElemsIn
  <2> QED
    BY <2>2 DEF Tree
<1> QED
  BY <1>1 DEF Tree, Shape

\* The tree is as it should be, with the nodes of T.
Treed(kids, pdir, pfile, T) == Shape(kids, pdir, pfile) /\ Tree(kids, pdir, pfile) = T

\* A node that is nowhere goes into a directory.
LEMMA HangKid ==
  ASSUME NEW kids, NEW pdir, NEW pfile, Shape(kids, pdir, pfile),
         NEW d \in RamDirs, NEW n \in VNodes, n \notin Tree(kids, pdir, pfile),
         Len(kids[d]) < MaxKids, NEW new, new = [kids EXCEPT ![d] = Append(@, n)]
  PROVE  Treed(new, pdir, pfile, Tree(kids, pdir, pfile) \cup {n})
<1>1. kids[d] \in Seq(VNodes) /\ kids \in [RamDirs -> Seq(VNodes)]
  BY DEF Shape
<1>2. n \notin Elems(kids[d]) /\ Distinct(kids[d])
  BY DEF Tree, Shape, Once
<1>3. Append(kids[d], n) \in Seq(VNodes) /\ Len(Append(kids[d], n)) = Len(kids[d]) + 1
      /\ Elems(Append(kids[d], n)) = Elems(kids[d]) \cup {n} /\ Distinct(Append(kids[d], n))
  BY <1>1, <1>2, AppendElems
<1>4. new[d] = Append(kids[d], n) /\ (\A e \in RamDirs : e # d => new[e] = kids[e])
      /\ new \in [RamDirs -> Seq(VNodes)]
  BY <1>1, <1>3
<1>5. (\A e \in RamDirs : n \notin Elems(kids[e])) /\ \A u \in Users : pdir[u] # n /\ pfile[u] # n
  BY DEF Tree
<1>6. \A e \in RamDirs : Distinct(new[e]) /\ Len(new[e]) <= MaxKids
  <2>1. Len(kids[d]) \in Nat /\ MaxKids \in Nat
    BY <1>1, NNodesAssumption
  <2>2. Len(new[d]) <= MaxKids
    BY <1>3, <1>4, <2>1
  <2> QED
    BY <1>3, <1>4, <2>2 DEF Shape, Once
<1>7. \A e \in RamDirs : Elems(new[e]) = IF e = d THEN Elems(kids[d]) \cup {n} ELSE Elems(kids[e])
  BY <1>3, <1>4
<1>8. \A e, g \in RamDirs : \A m \in VNodes :
         m \in Elems(new[e]) /\ m \in Elems(new[g]) => e = g
  BY <1>5, <1>7 DEF Shape, Once
<1>9. \A e \in RamDirs, u \in Users : pdir[u] \notin Elems(new[e]) /\ pfile[u] \notin Elems(new[e])
  BY <1>5, <1>7 DEF Shape, Once
<1>10. Shape(new, pdir, pfile)
  BY <1>4, <1>6, <1>8, <1>9 DEF Shape, Once
<1>11. ASSUME NEW m \in VNodes
       PROVE  m \in Tree(new, pdir, pfile) <=> (m \in Tree(kids, pdir, pfile) \/ m = n)
  BY <1>7 DEF Tree
<1>12. Tree(new, pdir, pfile) \subseteq VNodes /\ Tree(kids, pdir, pfile) \subseteq VNodes
  BY DEF Tree
<1>13. Tree(new, pdir, pfile) = Tree(kids, pdir, pfile) \cup {n}
  BY <1>11, <1>12
<1> QED
  BY <1>10, <1>13 DEF Treed

\* One is taken out of a directory.
LEMMA CutKid ==
  ASSUME NEW kids, NEW pdir, NEW pfile, Shape(kids, pdir, pfile),
         NEW d \in RamDirs, NEW i \in 1..Len(kids[d])
  PROVE  LET new == [kids EXCEPT ![d] = RemoveAt(@, i)]
         IN  /\ Shape(new, pdir, pfile)
             /\ Tree(new, pdir, pfile) = Tree(kids, pdir, pfile) \ {kids[d][i]}
<1> DEFINE new == [kids EXCEPT ![d] = RemoveAt(@, i)]
           n == kids[d][i]
<1>1. kids[d] \in Seq(VNodes) /\ kids \in [RamDirs -> Seq(VNodes)]
  BY DEF Shape
<1>2. n \in Elems(kids[d]) /\ n \in VNodes /\ Distinct(kids[d])
  BY <1>1, ElemsIn DEF Shape, Once
<1>3. RemoveAt(kids[d], i) \in Seq(VNodes) /\ Len(RemoveAt(kids[d], i)) = Len(kids[d]) - 1
      /\ Elems(RemoveAt(kids[d], i)) = Elems(kids[d]) \ {n} /\ Distinct(RemoveAt(kids[d], i))
  BY <1>1, <1>2, RemoveElems
<1>4. new[d] = RemoveAt(kids[d], i) /\ (\A e \in RamDirs : e # d => new[e] = kids[e])
      /\ new \in [RamDirs -> Seq(VNodes)]
  BY <1>1, <1>3
<1> HIDE DEF new, n
<1>5. (\A e \in RamDirs : e # d => n \notin Elems(kids[e]))
      /\ \A u \in Users : pdir[u] # n /\ pfile[u] # n
  BY <1>2 DEF Shape, Once
<1>6. \A e \in RamDirs : Distinct(new[e]) /\ Len(new[e]) <= MaxKids
  <2>1. Len(kids[d]) \in Nat /\ MaxKids \in Nat /\ Len(kids[d]) <= MaxKids
    BY <1>1, NNodesAssumption DEF Shape, Once
  <2>2. Len(new[d]) <= MaxKids
    BY <1>3, <1>4, <2>1
  <2> QED
    BY <1>3, <1>4, <2>2 DEF Shape, Once
<1>7. \A e \in RamDirs : Elems(new[e]) = IF e = d THEN Elems(kids[d]) \ {n} ELSE Elems(kids[e])
  BY <1>3, <1>4
<1>8. \A e, g \in RamDirs : \A m \in VNodes :
         m \in Elems(new[e]) /\ m \in Elems(new[g]) => e = g
  BY <1>7 DEF Shape, Once
<1>9. \A e \in RamDirs, u \in Users : pdir[u] \notin Elems(new[e]) /\ pfile[u] \notin Elems(new[e])
  BY <1>7 DEF Shape, Once
<1>10. Shape(new, pdir, pfile)
  BY <1>4, <1>6, <1>8, <1>9 DEF Shape, Once
<1>11. ASSUME NEW m \in VNodes
       PROVE  m \in Tree(new, pdir, pfile) <=> (m \in Tree(kids, pdir, pfile) /\ m # n)
  BY <1>2, <1>5, <1>7 DEF Tree
<1>12. Tree(new, pdir, pfile) \subseteq VNodes /\ Tree(kids, pdir, pfile) \subseteq VNodes
  BY DEF Tree
<1>13. Tree(new, pdir, pfile) = Tree(kids, pdir, pfile) \ {n}
  BY <1>11, <1>12
<1> QED
  BY <1>10, <1>13 DEF new, n

\* A process gets its directory in /proc.
LEMMA HangDir ==
  ASSUME NEW kids, NEW pdir, NEW pfile, Shape(kids, pdir, pfile),
         NEW u \in Users, pdir[u] = NoNode, NEW n \in VNodes, n \notin Tree(kids, pdir, pfile)
  PROVE  LET new == [pdir EXCEPT ![u] = n]
         IN  /\ Shape(kids, new, pfile)
             /\ Tree(kids, new, pfile) = Tree(kids, pdir, pfile) \cup {n}
<1> DEFINE new == [pdir EXCEPT ![u] = n]
<1>1. pdir \in [Users -> VNodes \cup {NoNode}] /\ n # NoNode
  BY NoNodeFacts DEF Shape
<1>2. new[u] = n /\ (\A v \in Users : v # u => new[v] = pdir[v])
      /\ new \in [Users -> VNodes \cup {NoNode}]
  BY <1>1
<1> HIDE DEF new
<1>3. (\A e \in RamDirs : n \notin Elems(kids[e])) /\ \A v \in Users : pdir[v] # n /\ pfile[v] # n
  BY DEF Tree
<1>4. \A d \in RamDirs, v \in Users : new[v] \notin Elems(kids[d]) /\ pfile[v] \notin Elems(kids[d])
  BY <1>2, <1>3 DEF Shape, Once
<1>5. \A v, w \in Users : v # w /\ new[v] # NoNode => new[v] # new[w]
  BY <1>2, <1>3 DEF Shape, Once
<1>6. \A v, w \in Users : new[v] # NoNode => new[v] # pfile[w]
  BY <1>2, <1>3 DEF Shape, Once
<1>7. \A v \in Users : new[v] = NoNode => pfile[v] = NoNode
  BY <1>1, <1>2 DEF Shape, Once
<1>8. Shape(kids, new, pfile)
  BY <1>2, <1>4, <1>5, <1>6, <1>7 DEF Shape, Once
<1>9. ASSUME NEW m \in VNodes
      PROVE  m \in Tree(kids, new, pfile) <=> (m \in Tree(kids, pdir, pfile) \/ m = n)
  <2>1. m # pdir[u]
    BY NoNodeFacts
  <2>2. (\E v \in Users : m = new[v]) <=> ((\E v \in Users : m = pdir[v]) \/ m = n)
    BY <1>2, <2>1
  <2> QED
    BY <2>2 DEF Tree
<1>10. Tree(kids, new, pfile) \subseteq VNodes /\ Tree(kids, pdir, pfile) \subseteq VNodes
  BY DEF Tree
<1>11. Tree(kids, new, pfile) = Tree(kids, pdir, pfile) \cup {n}
  BY <1>9, <1>10
<1> QED
  BY <1>8, <1>11 DEF new

\* ... and the file in it.
LEMMA HangFile ==
  ASSUME NEW kids, NEW pdir, NEW pfile, Shape(kids, pdir, pfile),
         NEW u \in Users, pdir[u] # NoNode, pfile[u] = NoNode,
         NEW n \in VNodes, n \notin Tree(kids, pdir, pfile)
  PROVE  LET new == [pfile EXCEPT ![u] = n]
         IN  /\ Shape(kids, pdir, new)
             /\ Tree(kids, pdir, new) = Tree(kids, pdir, pfile) \cup {n}
<1> DEFINE new == [pfile EXCEPT ![u] = n]
<1>1. pfile \in [Users -> VNodes \cup {NoNode}] /\ n # NoNode
  BY NoNodeFacts DEF Shape
<1>2. new[u] = n /\ (\A v \in Users : v # u => new[v] = pfile[v])
      /\ new \in [Users -> VNodes \cup {NoNode}]
  BY <1>1
<1> HIDE DEF new
<1>3. (\A e \in RamDirs : n \notin Elems(kids[e])) /\ \A v \in Users : pdir[v] # n /\ pfile[v] # n
  BY DEF Tree
<1>4. \A d \in RamDirs, v \in Users : pdir[v] \notin Elems(kids[d]) /\ new[v] \notin Elems(kids[d])
  BY <1>2, <1>3 DEF Shape, Once
<1>5. \A v, w \in Users : v # w /\ new[v] # NoNode => new[v] # new[w]
  BY <1>2, <1>3 DEF Shape, Once
<1>6. \A v, w \in Users : pdir[v] # NoNode => pdir[v] # new[w]
  BY <1>2, <1>3 DEF Shape, Once
<1>7. \A v \in Users : pdir[v] = NoNode => new[v] = NoNode
  BY <1>1, <1>2 DEF Shape, Once
<1>8. Shape(kids, pdir, new)
  BY <1>2, <1>4, <1>5, <1>6, <1>7 DEF Shape, Once
<1>9. ASSUME NEW m \in VNodes
      PROVE  m \in Tree(kids, pdir, new) <=> (m \in Tree(kids, pdir, pfile) \/ m = n)
  <2>1. m # pfile[u]
    BY NoNodeFacts
  <2>2. (\E v \in Users : m = new[v]) <=> ((\E v \in Users : m = pfile[v]) \/ m = n)
    BY <1>2, <2>1
  <2> QED
    BY <2>2 DEF Tree
<1>10. Tree(kids, pdir, new) \subseteq VNodes /\ Tree(kids, pdir, pfile) \subseteq VNodes
  BY DEF Tree
<1>11. Tree(kids, pdir, new) = Tree(kids, pdir, pfile) \cup {n}
  BY <1>9, <1>10
<1> QED
  BY <1>8, <1>11 DEF new

\* The file goes.
LEMMA CutFile ==
  ASSUME NEW kids, NEW pdir, NEW pfile, Shape(kids, pdir, pfile), NEW u \in Users
  PROVE  LET new == [pfile EXCEPT ![u] = NoNode]
         IN  /\ Shape(kids, pdir, new)
             /\ Tree(kids, pdir, new) = Tree(kids, pdir, pfile) \ {pfile[u]}
<1> DEFINE new == [pfile EXCEPT ![u] = NoNode]
<1>1. pfile \in [Users -> VNodes \cup {NoNode}]
  BY DEF Shape
<1>2. new[u] = NoNode /\ (\A v \in Users : v # u => new[v] = pfile[v])
      /\ new \in [Users -> VNodes \cup {NoNode}]
  BY <1>1
<1> HIDE DEF new
<1>3. \A d \in RamDirs : kids[d] \in Seq(VNodes) /\ Elems(kids[d]) \subseteq VNodes
  BY ElemsIn DEF Shape
<1>4. \A d \in RamDirs, v \in Users : pdir[v] \notin Elems(kids[d]) /\ new[v] \notin Elems(kids[d])
  BY <1>2, <1>3, NoNodeFacts DEF Shape, Once
<1>5. \A v, w \in Users : v # w /\ new[v] # NoNode => new[v] # new[w]
  BY <1>2 DEF Shape, Once
<1>6. \A v, w \in Users : pdir[v] # NoNode => pdir[v] # new[w]
  BY <1>2 DEF Shape, Once
<1>7. \A v \in Users : pdir[v] = NoNode => new[v] = NoNode
  BY <1>2 DEF Shape, Once
<1>8. Shape(kids, pdir, new)
  BY <1>2, <1>4, <1>5, <1>6, <1>7 DEF Shape, Once
<1>9. ASSUME NEW m \in VNodes
      PROVE  m \in Tree(kids, pdir, new) <=> (m \in Tree(kids, pdir, pfile) /\ m # pfile[u])
  <2>1. m # NoNode
    BY NoNodeFacts
  <2>2. (\E v \in Users : m = new[v]) <=> ((\E v \in Users : m = pfile[v]) /\ m # pfile[u])
    <3>1. \A v \in Users : v # u /\ pfile[v] # NoNode => pfile[v] # pfile[u]
      BY DEF Shape, Once
    <3> QED
      BY <1>2, <2>1, <3>1
  <2>3. m = pfile[u] => (\A d \in RamDirs : m \notin Elems(kids[d])) /\ \A v \in Users : m # pdir[v]
    BY <2>1 DEF Shape, Once
  <2> QED
    BY <2>2, <2>3 DEF Tree
<1>10. Tree(kids, pdir, new) \subseteq VNodes /\ Tree(kids, pdir, pfile) \subseteq VNodes
  BY DEF Tree
<1>11. Tree(kids, pdir, new) = Tree(kids, pdir, pfile) \ {pfile[u]}
  BY <1>9, <1>10
<1> QED
  BY <1>8, <1>11 DEF new

\* The directory goes, which has no file.
LEMMA CutDir ==
  ASSUME NEW kids, NEW pdir, NEW pfile, Shape(kids, pdir, pfile), NEW u \in Users,
         pfile[u] = NoNode
  PROVE  LET new == [pdir EXCEPT ![u] = NoNode]
         IN  /\ Shape(kids, new, pfile)
             /\ Tree(kids, new, pfile) = Tree(kids, pdir, pfile) \ {pdir[u]}
<1> DEFINE new == [pdir EXCEPT ![u] = NoNode]
<1>1. pdir \in [Users -> VNodes \cup {NoNode}]
  BY DEF Shape
<1>2. new[u] = NoNode /\ (\A v \in Users : v # u => new[v] = pdir[v])
      /\ new \in [Users -> VNodes \cup {NoNode}]
  BY <1>1
<1> HIDE DEF new
<1>3. \A d \in RamDirs : kids[d] \in Seq(VNodes) /\ Elems(kids[d]) \subseteq VNodes
  BY ElemsIn DEF Shape
<1>4. \A d \in RamDirs, v \in Users : new[v] \notin Elems(kids[d]) /\ pfile[v] \notin Elems(kids[d])
  BY <1>2, <1>3, NoNodeFacts DEF Shape, Once
<1>5. \A v, w \in Users : v # w /\ new[v] # NoNode => new[v] # new[w]
  BY <1>2 DEF Shape, Once
<1>6. \A v, w \in Users : new[v] # NoNode => new[v] # pfile[w]
  BY <1>2 DEF Shape, Once
<1>7. \A v \in Users : new[v] = NoNode => pfile[v] = NoNode
  BY <1>2 DEF Shape, Once
<1>8. Shape(kids, new, pfile)
  BY <1>2, <1>4, <1>5, <1>6, <1>7 DEF Shape, Once
<1>9. ASSUME NEW m \in VNodes
      PROVE  m \in Tree(kids, new, pfile) <=> (m \in Tree(kids, pdir, pfile) /\ m # pdir[u])
  <2>1. m # NoNode
    BY NoNodeFacts
  <2>2. (\E v \in Users : m = new[v]) <=> ((\E v \in Users : m = pdir[v]) /\ m # pdir[u])
    <3>1. \A v \in Users : v # u /\ pdir[v] # NoNode => pdir[v] # pdir[u]
      BY DEF Shape, Once
    <3> QED
      BY <1>2, <2>1, <3>1
  <2>3. m = pdir[u] => (\A d \in RamDirs : m \notin Elems(kids[d])) /\ \A v \in Users : m # pfile[v]
    BY <2>1 DEF Shape, Once
  <2> QED
    BY <2>2, <2>3 DEF Tree
<1>10. Tree(kids, new, pfile) \subseteq VNodes /\ Tree(kids, pdir, pfile) \subseteq VNodes
  BY DEF Tree
<1>11. Tree(kids, new, pfile) = Tree(kids, pdir, pfile) \ {pdir[u]}
  BY <1>9, <1>10
<1> QED
  BY <1>8, <1>11 DEF new

----------------------------------------------------------------------------
(* The pool.                                                                *)

\* A blank node is not adrift.
LEMMA BlankFacts ==
  /\ BlankNode \in NodeType /\ ~Adrift(BlankNode) /\ NodeOk(BlankNode)
  /\ BlankNode.refs = 0 /\ BlankNode.mirror = FALSE /\ BlankNode.orphaned = FALSE
  /\ BlankNode.dirty = FALSE
BY DEF BlankNode, NodeType, Adrift, NodeOk, Contents

\* The types of the parts of a state.
LEMMA StateFacts ==
  ASSUME NEW s \in States
  PROVE  /\ s.node \in [VNodes -> NodeType] /\ s.free \in Seq(VNodes) /\ s.count \in 0..NNodes
         /\ s.kids \in [RamDirs -> Seq(VNodes)]
         /\ s.pdir \in [Users -> VNodes \cup {NoNode}]
         /\ s.pfile \in [Users -> VNodes \cup {NoNode}]
         /\ s.disk \in [DiskNames -> FileType]
BY DEF States

\* Where a node of the pool is, from what it holds.
LEMMA PoolFacts ==
  ASSUME NEW node, NEW free, NEW count \in 0..NNodes, NEW T, NEW L,
         Pool(node, free, count, T, L), NEW n \in VNodes,
         n \in T \/ n \in L \/ node[n] # BlankNode
  PROVE  n \notin Elems(free) /\ n <= count
BY NoNodeFacts DEF Pool

\* A node changes, and stays where it is.
LEMMA KeepPool ==
  ASSUME NEW node \in [VNodes -> NodeType], NEW free, NEW count \in 0..NNodes, NEW T, NEW L,
         Pool(node, free, count, T, L), NEW n \in VNodes, NEW r \in NodeType,
         n \in T \/ n \in L \/ node[n] # BlankNode,
         NodeOk(r), Adrift(r) <=> Adrift(node[n])
  PROVE  Pool([node EXCEPT ![n] = r], free, count, T, L)
<1> DEFINE new == [node EXCEPT ![n] = r]
<1>1. new[n] = r /\ \A m \in VNodes : m # n => new[m] = node[m]
  OBVIOUS
<1> HIDE DEF new
<1>2. n \notin Elems(free) /\ n <= count
  BY PoolFacts
<1>3. T \subseteq VNodes /\ L \subseteq VNodes /\ 1..count \subseteq VNodes
  BY NoNodeFacts DEF Pool, VNodes
<1>4. \A m \in Elems(free) : m <= count /\ m \notin T /\ m \notin L /\ new[m] = BlankNode
  <2>1. ASSUME NEW m \in Elems(free) PROVE new[m] = BlankNode
    <3>1. m # n /\ node[m] = BlankNode
      BY <1>2 DEF Pool
    <3>2. new[m] = node[m]
      BY <3>1 DEF new
    <3> QED
      BY <3>1, <3>2
  <2> QED
    BY <2>1 DEF Pool
<1>5. \A m \in VNodes : m > count => new[m] = BlankNode
  BY <1>1, <1>2, NoNodeFacts DEF Pool
<1>6. \A m \in VNodes : NodeOk(new[m]) /\ (Adrift(new[m]) <=> Adrift(node[m]))
  BY <1>1 DEF Pool
<1> QED
  BY <1>3, <1>4, <1>5, <1>6 DEF Pool, new

\* One that is in nobody's hands goes into the tree.
LEMMA HangPool ==
  ASSUME NEW node, NEW free, NEW count, NEW T, NEW L,
         Pool(node, free, count, T, L), NEW n \in L
  PROVE  Pool(node, free, count, T \cup {n}, L \ {n})
BY DEF Pool

\* Some are taken out of it.
LEMMA CutPool ==
  ASSUME NEW node, NEW free, NEW count, NEW T, NEW L,
         Pool(node, free, count, T, L), NEW C \in SUBSET T
  PROVE  Pool(node, free, count, T \ C, L \cup C)
BY DEF Pool

\* alloc_node takes a blank one that is nowhere else.
LEMMA AllocPool ==
  ASSUME NEW s \in States, NEW T, NEW L, Pool(s.node, s.free, s.count, T, L), CanAlloc(s),
         NEW r \in NodeType, NodeOk(r)
  PROVE  LET t == Alloc(s, r)
             n == NextNode(s)
         IN  /\ t \in States /\ t.kids = s.kids /\ t.pdir = s.pdir /\ t.pfile = s.pfile
             /\ t.disk = s.disk /\ t.node = [s.node EXCEPT ![n] = r]
             /\ n \in VNodes /\ n \notin T /\ n \notin L /\ s.node[n] = BlankNode
             /\ Pool(t.node, t.free, t.count, T, IF Adrift(r) THEN L ELSE L \cup {n})
<1> DEFINE t == Alloc(s, r)
           n == NextNode(s)
<1>1. s.node \in [VNodes -> NodeType] /\ s.free \in Seq(VNodes) /\ s.count \in 0..NNodes
  BY StateFacts
<1>2. n \in VNodes /\ n \notin T /\ n \notin L /\ s.node[n] = BlankNode
  <2>1. CASE s.free # <<>>
    <3>1. n = Last(s.free)
      BY <2>1 DEF NextNode
    <3>2. n \in VNodes /\ n \in Elems(s.free)
      <4> HIDE DEF n
      <4>1. Distinct(s.free)
        BY DEF Pool
      <4> QED
        BY <1>1, <2>1, <3>1, <4>1, FrontElems, ZenonT(60)
    <3> QED
      BY <3>2 DEF Pool
  <2>2. CASE s.free = <<>>
    <3>1. n = s.count + 1 /\ s.count < NNodes
      BY <2>2 DEF NextNode, CanAlloc
    <3>2. n \in VNodes /\ n > s.count /\ n \notin 1..s.count
      BY <1>1, <3>1, NoNodeFacts DEF VNodes
    <3> QED
      BY <3>2 DEF Pool
  <2> QED
    BY <2>1, <2>2
<1> DEFINE free == IF s.free # <<>> THEN Front(s.free) ELSE s.free
           count == IF s.free # <<>> THEN s.count ELSE n
           node == [s.node EXCEPT ![n] = r]
<1>3. free \in Seq(VNodes) /\ count \in 0..NNodes /\ node \in [VNodes -> NodeType]
      /\ Distinct(free) /\ Elems(free) = Elems(s.free) \ {n} /\ s.count <= count /\ n <= count
  <2>1. CASE s.free # <<>>
    <3>1. n = Last(s.free)
      BY <2>1 DEF NextNode
    <3>2. Front(s.free) \in Seq(VNodes) /\ Distinct(Front(s.free))
          /\ Elems(Front(s.free)) = Elems(s.free) \ {n} /\ n \in Elems(s.free)
      <4> HIDE DEF n
      <4>1. Distinct(s.free)
        BY DEF Pool
      <4> QED
        BY <1>1, <2>1, <3>1, <4>1, FrontElems, ZenonT(60)
    <3>3. n <= s.count
      <4>1. \A m \in Elems(s.free) : m <= s.count
        BY DEF Pool
      <4> HIDE DEF n
      <4> QED
        BY <3>2, <4>1
    <3>4. free = Front(s.free) /\ count = s.count
      BY <2>1
    <3>5. node \in [VNodes -> NodeType]
      BY <1>1, <1>2
    <3> HIDE DEF n, free, count, node
    <3> QED
      BY <1>1, <3>2, <3>3, <3>4, <3>5
  <2>2. CASE s.free = <<>>
    <3>1. n = s.count + 1 /\ s.count < NNodes
      BY <2>2 DEF NextNode, CanAlloc
    <3>2. Elems(s.free) = {} /\ Distinct(s.free)
      <4>1. 1..Len(s.free) = {}
        BY <2>2
      <4> QED
        BY <4>1 DEF Elems, Distinct
    <3>4. free = s.free /\ count = n
      BY <2>2
    <3>5. node \in [VNodes -> NodeType]
      BY <1>1, <1>2
    <3> HIDE DEF n, free, count, node
    <3> QED
      BY <1>1, <3>1, <3>2, <3>4, <3>5, NoNodeFacts
  <2> QED
    BY <2>1, <2>2
<1>4. t \in States /\ t.kids = s.kids /\ t.pdir = s.pdir /\ t.pfile = s.pfile /\ t.disk = s.disk
      /\ t.node = node /\ t.free = free /\ t.count = count
  <2>1. CASE s.free # <<>>
    <3>1. t = [s EXCEPT !.free = Front(s.free), !.node = [s.node EXCEPT ![n] = r]]
      BY <2>1 DEF Alloc, States
    <3> HIDE DEF t, n
    <3> QED
      BY <1>3, <2>1, <3>1 DEF States
  <2>2. CASE s.free = <<>>
    <3>1. t = [s EXCEPT !.count = n, !.node = [s.node EXCEPT ![n] = r]]
      BY <2>2 DEF Alloc, States
    <3> HIDE DEF t, n
    <3> QED
      BY <1>3, <2>2, <3>1 DEF States
  <2> QED
    BY <2>1, <2>2
<1> DEFINE M == IF Adrift(r) THEN L ELSE L \cup {n}
<1>5. node[n] = r /\ \A m \in VNodes : m # n => node[m] = s.node[m]
  BY <1>1, <1>2
<1> HIDE DEF t, n, free, count, node
<1>6. 1..s.count \subseteq 1..count /\ n \in 1..count /\ 1..count \subseteq VNodes
  BY <1>1, <1>2, <1>3, NoNodeFacts DEF VNodes
<1>7. Elems(free) \subseteq VNodes
  BY <1>3, ElemsIn
<1>8. Pool(node, free, count, T, M)
  <2>1. T \cap M = {} /\ T \subseteq 1..count /\ M \subseteq 1..count
    BY <1>2, <1>6 DEF Pool
  <2>2. \A m \in Elems(free) : m <= count /\ m \notin T /\ m \notin M /\ node[m] = BlankNode
    <3>1. ASSUME NEW m \in Elems(free)
          PROVE  m <= count /\ m \notin T /\ m \notin M /\ node[m] = BlankNode
      <4>1. m \in Elems(s.free) /\ m # n /\ m \in VNodes
        BY <1>3, <1>7
      <4>2. m <= s.count /\ m \notin T /\ m \notin L /\ s.node[m] = BlankNode
        BY <4>1 DEF Pool
      <4> QED
        BY <1>1, <1>3, <1>5, <4>1, <4>2, NoNodeFacts
    <3> QED
      BY <3>1
  <2>3. \A m \in VNodes : m > count => node[m] = BlankNode
    BY <1>1, <1>3, <1>5, NoNodeFacts DEF Pool
  <2>4. \A m \in VNodes : NodeOk(node[m])
    BY <1>5 DEF Pool
  <2>5. (\A m \in T : ~Adrift(node[m])) /\ (\A m \in M : ~Adrift(node[m]))
    BY <1>2, <1>5, <1>6, <2>1 DEF Pool
  <2>6. \A m \in 1..count : m \in Elems(free) \/ m \in T \/ m \in M \/ Adrift(node[m])
    <3>1. ASSUME NEW m \in 1..count, m # n
          PROVE  m \in Elems(free) \/ m \in T \/ m \in M \/ Adrift(node[m])
      <4>1. m \in 1..s.count /\ m \in VNodes
        <5>1. CASE s.free # <<>>
          BY <1>6, <5>1 DEF count
        <5>2. CASE s.free = <<>>
          BY <1>1, <1>6, <3>1, <5>2 DEF count, n, NextNode
        <5> QED
          BY <5>1, <5>2
      <4>2. m \in Elems(s.free) \/ m \in T \/ m \in L \/ Adrift(s.node[m])
        BY <4>1 DEF Pool
      <4> QED
        BY <1>3, <1>5, <3>1, <4>1, <4>2
    <3> QED
      BY <1>5, <3>1
  <2> HIDE DEF M
  <2> QED
    BY <1>3, <2>1, <2>2, <2>3, <2>4, <2>5, <2>6 DEF Pool
<1> QED
  BY <1>2, <1>4, <1>8 DEF t, n, node

\* free_node takes one that is adrift, or in nobody's hands.
LEMMA FreePool ==
  ASSUME NEW s \in States, NEW T, NEW L, Pool(s.node, s.free, s.count, T, L),
         NEW n \in VNodes, n \in L \/ Adrift(s.node[n])
  PROVE  LET t == FreeNode(s, n)
         IN  /\ t \in States /\ t.kids = s.kids /\ t.pdir = s.pdir /\ t.pfile = s.pfile
             /\ t.disk = s.disk /\ t.node = [s.node EXCEPT ![n] = BlankNode]
             /\ Pool(t.node, t.free, t.count, T, L \ {n})
<1> DEFINE t == FreeNode(s, n)
           node == [s.node EXCEPT ![n] = BlankNode]
           free == Append(s.free, n)
<1>1. s.node \in [VNodes -> NodeType] /\ s.free \in Seq(VNodes) /\ s.count \in 0..NNodes
  BY StateFacts
<1>2. n \notin Elems(s.free) /\ n <= s.count
  BY <1>1, PoolFacts, BlankFacts
<1>3. n \notin T
  BY DEF Pool
<1>4. free \in Seq(VNodes) /\ Elems(free) = Elems(s.free) \cup {n} /\ Distinct(free)
      /\ node \in [VNodes -> NodeType]
  BY <1>1, <1>2, AppendElems, BlankFacts DEF Pool
<1>5. t \in States /\ t.kids = s.kids /\ t.pdir = s.pdir /\ t.pfile = s.pfile /\ t.disk = s.disk
      /\ t.node = node /\ t.free = free /\ t.count = s.count
  <2>1. t = [s EXCEPT !.free = free, !.node = node]
    BY DEF FreeNode, States
  <2> HIDE DEF t, free, node
  <2> QED
    BY <1>4, <2>1 DEF States
<1>6. node[n] = BlankNode /\ \A m \in VNodes : m # n => node[m] = s.node[m]
  BY <1>1
<1> HIDE DEF t, node, free
<1>7. 1..s.count \subseteq VNodes /\ Elems(s.free) \subseteq VNodes
  BY <1>1, ElemsIn, NoNodeFacts DEF VNodes
<1>8. Pool(node, free, s.count, T, L \ {n})
  <2>1. T \subseteq VNodes /\ L \subseteq VNodes
    BY <1>7 DEF Pool
  <2>2. \A m \in Elems(free) : m <= s.count /\ m \notin T /\ m \notin L \ {n} /\ node[m] = BlankNode
    BY <1>2, <1>3, <1>4, <1>6, <1>7 DEF Pool
  <2>3. \A m \in VNodes : m > s.count => node[m] = BlankNode
    BY <1>6 DEF Pool
  <2>4. \A m \in VNodes : NodeOk(node[m])
    BY <1>6, BlankFacts DEF Pool
  <2>5. (\A m \in T : ~Adrift(node[m])) /\ (\A m \in L \ {n} : ~Adrift(node[m]))
    BY <1>3, <1>6, <2>1 DEF Pool
  <2>6. \A m \in 1..s.count : m \in Elems(free) \/ m \in T \/ m \in L \ {n} \/ Adrift(node[m])
    BY <1>4, <1>6, <1>7 DEF Pool
  <2>7. T \cap (L \ {n}) = {} /\ T \subseteq 1..s.count /\ L \ {n} \subseteq 1..s.count
    BY DEF Pool
  <2> QED
    BY <1>4, <2>2, <2>3, <2>4, <2>5, <2>6, <2>7 DEF Pool
<1> QED
  BY <1>5, <1>8 DEF t, node

\* A node goes back that nobody has, or nobody but the caller.
GivenBack(s, t, n, T) ==
    /\ t \in States /\ t.kids = s.kids /\ t.pdir = s.pdir /\ t.pfile = s.pfile
    /\ t.disk = s.disk /\ t.node = [s.node EXCEPT ![n] = BlankNode]
    /\ Pool(t.node, t.free, t.count, T, {})

\* free_node, after which the caller has no node.
LEMMA GiveBack ==
  ASSUME NEW s \in States, NEW T, NEW n \in VNodes,
         \/ Pool(s.node, s.free, s.count, T, {n})
         \/ Pool(s.node, s.free, s.count, T, {}) /\ Adrift(s.node[n])
  PROVE  GivenBack(s, FreeNode(s, n), n, T)
<1> DEFINE L == IF Pool(s.node, s.free, s.count, T, {n}) THEN {n} ELSE {}
<1>1. (n \in L \/ Adrift(s.node[n])) /\ Pool(s.node, s.free, s.count, T, L) /\ L \ {n} = {}
  OBVIOUS
<1> HIDE DEF L
<1> DEFINE t == FreeNode(s, n)
<1>2. /\ t \in States /\ t.kids = s.kids /\ t.pdir = s.pdir /\ t.pfile = s.pfile
      /\ t.disk = s.disk /\ t.node = [s.node EXCEPT ![n] = BlankNode]
      /\ Pool(t.node, t.free, t.count, T, L \ {n})
  BY <1>1, FreePool, ZenonT(60)
<1> QED
  BY <1>1, <1>2 DEF GivenBack

\* A node that was taken out of the tree while it is open is adrift from then on.
LEMMA OrphanPool ==
  ASSUME NEW node \in [VNodes -> NodeType], NEW free, NEW count \in 0..NNodes, NEW T, NEW L,
         Pool(node, free, count, T, L), NEW n \in L, n \in VNodes, node[n].refs > 0
  PROVE  Pool([node EXCEPT ![n].orphaned = TRUE], free, count, T, L \ {n})
<1> DEFINE new == [node EXCEPT ![n].orphaned = TRUE]
<1>1. \A m \in VNodes : m # n => new[m] = node[m]
  OBVIOUS
<1>2. new[n].orphaned = TRUE /\ new[n].mirror = node[n].mirror /\ new[n].refs = node[n].refs
      /\ new[n].dirty = node[n].dirty
  BY DEF NodeType
<1> HIDE DEF new
<1>3. ~Adrift(node[n]) /\ n \notin T /\ n \notin Elems(free) /\ n <= count
  BY PoolFacts DEF Pool
<1>4. NodeOk(new[n]) /\ Adrift(new[n])
  BY <1>2, <1>3 DEF NodeOk, Adrift, Pool
<1>5. T \subseteq VNodes /\ L \subseteq VNodes /\ 1..count \subseteq VNodes
  BY NoNodeFacts DEF Pool, VNodes
<1>6. \A m \in Elems(free) : m <= count /\ m \notin T /\ m \notin L \ {n} /\ new[m] = BlankNode
  <2>1. ASSUME NEW m \in Elems(free) PROVE new[m] = BlankNode
    <3>1. m # n /\ node[m] = BlankNode
      BY <1>3 DEF Pool
    <3>2. new[m] = node[m]
      BY <3>1 DEF new
    <3> QED
      BY <3>1, <3>2
  <2> QED
    BY <2>1 DEF Pool
<1>7. \A m \in VNodes : m > count => new[m] = BlankNode
  BY <1>1, <1>3, NoNodeFacts DEF Pool
<1>8. \A m \in VNodes : NodeOk(new[m])
  BY <1>1, <1>4 DEF Pool
<1>9. (\A m \in T : ~Adrift(new[m])) /\ (\A m \in L \ {n} : ~Adrift(new[m]))
  BY <1>1, <1>3, <1>5 DEF Pool
<1>10. \A m \in 1..count : m \in Elems(free) \/ m \in T \/ m \in L \ {n} \/ Adrift(new[m])
  BY <1>1, <1>4, <1>5 DEF Pool
<1> QED
  BY <1>6, <1>7, <1>8, <1>9, <1>10 DEF Pool, new

----------------------------------------------------------------------------
(* /proc.                                                                   *)

\* Nodes change, but neither their counts nor what is a mirror.
Same(a, b) ==
    \A n \in VNodes : /\ b[n].refs = a[n].refs /\ b[n].mirror = a[n].mirror
                      /\ a[n].mirror => b[n] = a[n]

\* Then the counts are right and the files saved as before.
LEMMA SameKeeps ==
  ASSUME NEW a, NEW b, Same(a, b), NEW g, NEW hand, NEW disk, NEW l
  PROVE  /\ Counted(a, g, hand) => Counted(b, g, hand)
         /\ Saved(a, disk, l) => Saved(b, disk, l)
<1>1. Counted(a, g, hand) => Counted(b, g, hand)
  BY DEF Same, Counted
<1>2. ASSUME Saved(a, disk, l) PROVE Saved(b, disk, l)
  <2>1. \A n \in VNodes : b[n].mirror => a[n].mirror /\ b[n] = a[n]
    BY DEF Same
  <2>2. \A n \in VNodes : b[n].mirror =>
          /\ Agrees(b[n], l[b[n].name])
          /\ b[n].dirty \/ Says(disk[b[n].name], l[b[n].name])
    BY <1>2, <2>1 DEF Saved
  <2>3. \A n, m \in VNodes :
          b[n].mirror /\ b[m].mirror /\ b[n].name = b[m].name => n = m
    BY <1>2, <2>1 DEF Saved
  <2>4. ASSUME NEW f \in DiskNames, \A n \in VNodes : ~(b[n].mirror /\ b[n].name = f)
        PROVE  Says(disk[f], l[f])
    <3>1. \A n \in VNodes : ~(a[n].mirror /\ a[n].name = f)
      BY <2>4 DEF Same
    <3> QED
      BY <1>2, <3>1 DEF Saved
  <2> QED
    BY <2>2, <2>3, <2>4 DEF Saved
<1> QED
  BY <1>1, <1>2

\* One such change after another is one.
LEMMA SameTwice ==
  ASSUME NEW a, NEW b, NEW c, Same(a, b), Same(b, c)
  PROVE  Same(a, c)
BY DEF Same

\* The state and where its nodes are.
Held(s, T, L) == s \in States /\ Pool(s.node, s.free, s.count, T, L)

\* Nothing but nodes is different.
Beside(s, t) == /\ t.kids = s.kids /\ t.pdir = s.pdir /\ t.pfile = s.pfile /\ t.disk = s.disk
                /\ Same(s.node, t.node)

\* release_node puts what was taken out of the tree away.
LEMMA ReleaseKeeps ==
  ASSUME NEW s, NEW T, NEW L, Held(s, T, L), NEW n, n \in L \/ n = NoNode
  PROVE  Held(ReleaseNode(s, n), T, L \ {n}) /\ Beside(s, ReleaseNode(s, n))
<1> DEFINE t == ReleaseNode(s, n)
<1>1. s \in States /\ Pool(s.node, s.free, s.count, T, L)
  BY DEF Held
<1>2. s.node \in [VNodes -> NodeType] /\ s.count \in 0..NNodes
  BY <1>1, StateFacts
<1>3. L \subseteq VNodes
  <2>1. L \subseteq 1..s.count
    BY <1>1 DEF Pool
  <2> QED
    BY <1>2, <2>1, NoNodeFacts DEF VNodes
<1>4. CASE n = NoNode
  <2>1. t = s /\ L \ {n} = L
    BY <1>3, <1>4, NoNodeFacts DEF ReleaseNode
  <2> QED
    BY <2>1 DEF Held, Beside, Same
<1>5. CASE n # NoNode /\ s.node[n].refs > 0
  <2>1. n \in VNodes /\ n \in L
    BY <1>3, <1>5
  <2> DEFINE node == [s.node EXCEPT ![n].orphaned = TRUE]
  <2>2. t = [s EXCEPT !.node = node]
    BY <1>1, <1>5 DEF ReleaseNode, States
  <2>3. node \in [VNodes -> NodeType]
    BY <1>2, <2>1 DEF NodeType
  <2>4. Pool(node, s.free, s.count, T, L \ {n})
    BY <1>1, <1>2, <1>5, <2>1, OrphanPool
  <2>5. s.node[n].mirror = FALSE
    <3>1. ~Adrift(s.node[n])
      BY <1>1, <2>1 DEF Pool
    <3>2. s.node[n] \in NodeType
      BY <1>2, <2>1
    <3> QED
      BY <3>1, <3>2 DEF Adrift, NodeType
  <2>6. Same(s.node, node)
    <3>1. ASSUME NEW m \in VNodes
          PROVE  /\ node[m].refs = s.node[m].refs /\ node[m].mirror = s.node[m].mirror
                 /\ s.node[m].mirror => node[m] = s.node[m]
      <4>1. CASE m = n
        BY <1>2, <2>1, <2>5, <4>1 DEF NodeType
      <4>2. CASE m # n
        BY <1>2, <4>2
      <4> QED
        BY <4>1, <4>2
    <3> QED
      BY <3>1 DEF Same
  <2> HIDE DEF node, t
  <2>7. t \in States /\ t.node = node /\ t.free = s.free /\ t.count = s.count
        /\ t.kids = s.kids /\ t.pdir = s.pdir /\ t.pfile = s.pfile /\ t.disk = s.disk
    BY <1>1, <2>2, <2>3 DEF States
  <2> QED
    BY <2>4, <2>6, <2>7 DEF Held, Beside, t
<1>6. CASE n # NoNode /\ ~(s.node[n].refs > 0)
  <2>1. n \in VNodes /\ n \in L
    BY <1>3, <1>6
  <2>2. t = FreeNode(s, n)
    BY <1>6 DEF ReleaseNode
  <2> HIDE DEF t
  <2>3. t \in States /\ t.kids = s.kids /\ t.pdir = s.pdir /\ t.pfile = s.pfile
        /\ t.disk = s.disk /\ t.node = [s.node EXCEPT ![n] = BlankNode]
        /\ Pool(t.node, t.free, t.count, T, L \ {n})
    BY <1>1, <2>1, <2>2, FreePool
  <2>4. s.node[n].mirror = FALSE /\ s.node[n].refs = 0
    <3>1. ~Adrift(s.node[n])
      BY <1>1, <2>1 DEF Pool
    <3>2. s.node[n] \in NodeType
      BY <1>2, <2>1
    <3>3. s.node[n].refs \in Nat /\ s.node[n].mirror \in BOOLEAN
      BY <3>2 DEF NodeType
    <3>4. s.node[n].refs = 0
      BY <1>6, <3>3
    <3> QED
      BY <3>1, <3>3, <3>4 DEF Adrift
  <2>5. Same(s.node, t.node)
    <3>1. ASSUME NEW m \in VNodes
          PROVE  /\ t.node[m].refs = s.node[m].refs /\ t.node[m].mirror = s.node[m].mirror
                 /\ s.node[m].mirror => t.node[m] = s.node[m]
      <4>1. CASE m = n
        BY <1>2, <2>1, <2>3, <2>4, <4>1, BlankFacts
      <4>2. CASE m # n
        BY <1>2, <2>3, <4>2
      <4> QED
        BY <4>1, <4>2
    <3> QED
      BY <3>1 DEF Same
  <2> QED
    BY <2>3, <2>5 DEF Held, Beside, t
<1> QED
  BY <1>4, <1>5, <1>6

\* A node as alloc_node and its caller leave it, which nobody has open yet.
Fresh(r) == r \in NodeType /\ r.refs = 0 /\ ~r.mirror /\ ~r.orphaned /\ ~r.dirty

\* It comes from outside T, and is in nobody's hands.
FromPool(s, T, r) ==
    LET t == Alloc(s, r)
        n == NextNode(s)
    IN  /\ t \in States /\ n \in VNodes /\ n \notin T
        /\ Beside(s, t) /\ Held(t, T, {n}) /\ t.node[n] = r

\* alloc_node gives out a node that nobody has, with what the caller puts in it.
LEMMA AllocFresh ==
  ASSUME NEW s, NEW T, Held(s, T, {}), CanAlloc(s), NEW r, Fresh(r)
  PROVE  FromPool(s, T, r)
<1> DEFINE t == Alloc(s, r)
           n == NextNode(s)
<1>1. s \in States /\ Pool(s.node, s.free, s.count, T, {})
  BY DEF Held
<1>2. r \in NodeType /\ NodeOk(r) /\ ~Adrift(r) /\ r.refs = 0 /\ r.mirror = FALSE
  BY DEF Fresh, NodeOk, Adrift, NodeType
<1>3. /\ t \in States /\ t.kids = s.kids /\ t.pdir = s.pdir /\ t.pfile = s.pfile
      /\ t.disk = s.disk /\ t.node = [s.node EXCEPT ![n] = r]
      /\ n \in VNodes /\ n \notin T /\ n \notin {} /\ s.node[n] = BlankNode
      /\ Pool(t.node, t.free, t.count, T, IF Adrift(r) THEN {} ELSE {} \cup {n})
  BY <1>1, <1>2, AllocPool
<1> HIDE DEF t, n
<1>4. Held(t, T, {n})
  <2>1. (IF Adrift(r) THEN {} ELSE {} \cup {n}) = {n}
    BY <1>2
  <2> QED
    BY <1>3, <2>1 DEF Held
<1>5. t.node[n] = r /\ \A m \in VNodes : m # n => t.node[m] = s.node[m]
  BY <1>1, <1>3, StateFacts
<1>6. Beside(s, t)
  BY <1>2, <1>3, <1>5, BlankFacts DEF Beside, Same
<1> QED
  BY <1>3, <1>4, <1>5, <1>6 DEF t, n, FromPool

\* The one before its caller fills it in.
LEMMA AllocBlank ==
  ASSUME NEW s, NEW T, Held(s, T, {}), CanAlloc(s)
  PROVE  FromPool(s, T, BlankNode)
<1>1. Fresh(BlankNode)
  BY BlankFacts DEF Fresh
<1> QED
  BY <1>1, AllocFresh

\* One in nobody's hands goes into the tree.
LEMMA HangOne ==
  ASSUME NEW a, NEW T, NEW n, Held(a, T, {n}), NEW s \in States,
         s.node = a.node, s.free = a.free, s.count = a.count
  PROVE  Held(s, T \cup {n}, {})
<1>1. Pool(a.node, a.free, a.count, T \cup {n}, {n} \ {n})
  BY HangPool DEF Held
<1>2. {n} \ {n} = {}
  OBVIOUS
<1> QED
  BY <1>1, <1>2 DEF Held

\* The parts of Good.
LEMMA GoodParts ==
  ASSUME NEW s, NEW g, NEW l, NEW hand
  PROVE  Good(s, g, l, hand) <=>
            /\ s \in States /\ g \in Handles /\ l \in [DiskNames -> Contents \cup {NoFile}]
            /\ Shape(s.kids, s.pdir, s.pfile)
            /\ Held(s, Tree(s.kids, s.pdir, s.pfile), {})
            /\ Counted(s.node, g, hand)
            /\ Careful => Saved(s.node, s.disk, l)
BY StateFacts DEF Good, Shape, Held

\* The entries of a process that is gone.
LEMMA ForgetGood ==
  ASSUME NEW s, NEW g, NEW l, NEW hand, Good(s, g, l, hand), NEW u \in Users
  PROVE  Good(Forget(s, u), g, l, hand)
<1> SUFFICES ASSUME ~(InTable(u) \/ s.pdir[u] = NoNode) PROVE Good(Forget(s, u), g, l, hand)
  BY DEF Forget
<1> DEFINE T == Tree(s.kids, s.pdir, s.pfile)
           pf == s.pfile[u]
           pd == s.pdir[u]
           C == {pf, pd} \ {NoNode}
           t == ReleaseNode(s, pf)
           v == ReleaseNode(t, pd)
           r == [v EXCEPT !.pdir[u] = NoNode, !.pfile[u] = NoNode]
<1>1. s \in States /\ g \in Handles /\ l \in [DiskNames -> Contents \cup {NoFile}]
      /\ Shape(s.kids, s.pdir, s.pfile) /\ Held(s, T, {}) /\ Counted(s.node, g, hand)
      /\ (Careful => Saved(s.node, s.disk, l))
  BY GoodParts
<1>2. Forget(s, u) = r
  BY DEF Forget
<1>3. pf \in VNodes \cup {NoNode} /\ pd \in VNodes
  BY <1>1, StateFacts
<1>4. C \subseteq T /\ T \subseteq VNodes
  BY <1>1, InTree
<1>5. pf # pd
  BY <1>1 DEF Shape, Once
<1> HIDE DEF T, pf, pd, r
<1>6. Held(s, T \ C, C)
  <2>1. {} \cup C = C
    OBVIOUS
  <2> HIDE DEF C
  <2> QED
    <3>1. Pool(s.node, s.free, s.count, T, {}) /\ s \in States
      BY <1>1 DEF Held
    <3>2. Pool(s.node, s.free, s.count, T \ C, {} \cup C)
      BY <1>4, <3>1, CutPool
    <3> QED
      BY <2>1, <3>1, <3>2 DEF Held
<1>7. Held(t, T \ C, C \ {pf}) /\ Beside(s, t)
  <2>1. pf \in C \/ pf = NoNode
    OBVIOUS
  <2> HIDE DEF C, t
  <2> QED
    BY <1>6, <2>1, ReleaseKeeps DEF t
<1>8. Held(v, T \ C, (C \ {pf}) \ {pd}) /\ Beside(t, v)
  <2>1. pd \in C \ {pf}
    BY <1>3, <1>5, NoNodeFacts
  <2> HIDE DEF C, t, v
  <2> QED
    BY <1>7, <2>1, ReleaseKeeps DEF v
<1>9. (C \ {pf}) \ {pd} = {} /\ T \ C = (T \ {pf}) \ {pd}
  BY <1>4, NoNodeFacts
<1> HIDE DEF C, t, v
<1>10. v \in States /\ v.kids = s.kids /\ v.pdir = s.pdir /\ v.pfile = s.pfile /\ v.disk = s.disk
       /\ Same(s.node, v.node)
  BY <1>7, <1>8, SameTwice DEF Beside, Held
<1> DEFINE dir == [s.pdir EXCEPT ![u] = NoNode]
           file == [s.pfile EXCEPT ![u] = NoNode]
<1>11. dir \in [Users -> VNodes \cup {NoNode}] /\ file \in [Users -> VNodes \cup {NoNode}]
       /\ file[u] = NoNode
  BY <1>1, StateFacts
<1>12. r = [v EXCEPT !.pdir = dir, !.pfile = file]
  BY <1>10 DEF r, States
<1> HIDE DEF dir, file
<1>13. r \in States /\ r.kids = s.kids /\ r.pdir = dir /\ r.pfile = file /\ r.disk = s.disk
       /\ r.node = v.node /\ r.free = v.free /\ r.count = v.count
  BY <1>10, <1>11, <1>12 DEF States
<1>14. Shape(s.kids, s.pdir, file) /\ Tree(s.kids, s.pdir, file) = T \ {pf}
  BY <1>1, CutFile DEF file, T, pf
<1>15. Shape(s.kids, dir, file) /\ Tree(s.kids, dir, file) = (T \ {pf}) \ {pd}
  BY <1>11, <1>14, CutDir DEF dir, pd
<1>16. Held(r, Tree(r.kids, r.pdir, r.pfile), {})
  BY <1>8, <1>9, <1>13, <1>15 DEF Held
<1>17. Counted(r.node, g, hand) /\ (Careful => Saved(r.node, r.disk, l))
  BY <1>1, <1>10, <1>13, SameKeeps
<1>18. Good(r, g, l, hand)
  BY <1>1, <1>13, <1>15, <1>16, <1>17, GoodParts
<1> QED
  BY <1>2, <1>18

\* The directory of a process, and the file in it, as far as there are nodes.
LEMMA ShowGood ==
  ASSUME NEW s, NEW g, NEW l, NEW hand, Good(s, g, l, hand), NEW u \in Users
  PROVE  Good(Show(s, u), g, l, hand)
<1> SUFFICES ASSUME ~(~InTable(u) \/ s.pdir[u] # NoNode \/ ~CanAlloc(s))
             PROVE  Good(Show(s, u), g, l, hand)
  BY DEF Show
<1> DEFINE T == Tree(s.kids, s.pdir, s.pfile)
           n == NextNode(s)
           a == Alloc(s, BlankNode)
           dir == [a EXCEPT !.pdir[u] = n]
<1>1. s \in States /\ g \in Handles /\ l \in [DiskNames -> Contents \cup {NoFile}]
      /\ Shape(s.kids, s.pdir, s.pfile) /\ Held(s, T, {}) /\ Counted(s.node, g, hand)
      /\ (Careful => Saved(s.node, s.disk, l))
  BY GoodParts
<1>2. s.pdir[u] = NoNode /\ s.pfile[u] = NoNode /\ CanAlloc(s)
  BY <1>1 DEF Shape, Once
<1>3. a \in States /\ n \in VNodes /\ n \notin T /\ Beside(s, a) /\ Held(a, T, {n})
  <2>1. FromPool(s, T, BlankNode)
    BY <1>1, <1>2, AllocBlank
  <2> QED
    BY <2>1 DEF FromPool
<1> HIDE DEF T, a
<1> DEFINE pdir == [s.pdir EXCEPT ![u] = n]
<1>4. dir = [a EXCEPT !.pdir = pdir] /\ pdir \in [Users -> VNodes \cup {NoNode}]
  BY <1>1, <1>3, StateFacts DEF Beside, States
<1> HIDE DEF dir, pdir, n
<1>5. dir \in States /\ dir.kids = s.kids /\ dir.pdir = pdir /\ dir.pfile = s.pfile
      /\ dir.disk = s.disk /\ dir.node = a.node /\ dir.free = a.free /\ dir.count = a.count
  BY <1>3, <1>4 DEF States, Beside
<1>6. Shape(s.kids, pdir, s.pfile) /\ Tree(s.kids, pdir, s.pfile) = T \cup {n}
  BY <1>1, <1>2, <1>3, HangDir DEF pdir, T
<1>7. Held(dir, T \cup {n}, {})
  BY <1>3, <1>5, HangOne
<1>8. Same(s.node, dir.node)
  BY <1>3, <1>5 DEF Beside
<1>9. Good(dir, g, l, hand)
  <2>1. Counted(dir.node, g, hand) /\ (Careful => Saved(dir.node, dir.disk, l))
    BY <1>1, <1>5, <1>8, SameKeeps
  <2> QED
    BY <1>1, <1>5, <1>6, <1>7, <2>1, GoodParts
<1>10. CASE ~CanAlloc(dir)
  <2>1. Show(s, u) = dir
    BY <1>2, <1>10 DEF Show, dir, a, n
  <2> QED
    BY <1>9, <2>1
<1>11. CASE CanAlloc(dir)
  <2> DEFINE m == NextNode(dir)
             b == Alloc(dir, BlankNode)
             r == [b EXCEPT !.pfile[u] = m]
             pfile == [s.pfile EXCEPT ![u] = m]
  <2>1. Show(s, u) = r
    BY <1>2, <1>11 DEF Show, dir, a, n
  <2>2. b \in States /\ m \in VNodes /\ m \notin T \cup {n} /\ Beside(dir, b)
        /\ Held(b, T \cup {n}, {m})
    <3>1. FromPool(dir, T \cup {n}, BlankNode)
      BY <1>7, <1>11, AllocBlank
    <3> QED
      BY <3>1 DEF FromPool
  <2> HIDE DEF b
  <2>3. r = [b EXCEPT !.pfile = pfile] /\ pfile \in [Users -> VNodes \cup {NoNode}]
    BY <1>1, <1>5, <2>2, StateFacts DEF Beside, States
  <2> HIDE DEF r, pfile, m
  <2>4. r \in States /\ r.kids = s.kids /\ r.pdir = pdir /\ r.pfile = pfile
        /\ r.disk = s.disk /\ r.node = b.node /\ r.free = b.free /\ r.count = b.count
    BY <1>5, <2>2, <2>3 DEF States, Beside
  <2>5. pdir[u] # NoNode
    BY <1>1, <1>3, StateFacts, NoNodeFacts DEF pdir
  <2>6. Shape(s.kids, pdir, pfile) /\ Tree(s.kids, pdir, pfile) = (T \cup {n}) \cup {m}
    BY <1>2, <1>6, <2>2, <2>5, HangFile DEF pfile
  <2>7. Held(r, (T \cup {n}) \cup {m}, {})
    BY <2>2, <2>4, HangOne
  <2>8. Same(dir.node, r.node)
    BY <2>2, <2>4 DEF Beside
  <2>9. Counted(r.node, g, hand) /\ (Careful => Saved(r.node, r.disk, l))
    <3>1. Counted(dir.node, g, hand) /\ (Careful => Saved(dir.node, dir.disk, l))
      BY <1>9, GoodParts
    <3> QED
      BY <1>5, <2>4, <2>8, <3>1, SameKeeps
  <2>10. Good(r, g, l, hand)
    BY <1>1, <2>4, <2>6, <2>7, <2>9, GoodParts
  <2> QED
    BY <2>1, <2>10
<1> QED
  BY <1>10, <1>11

\* The processes are numbered.
LEMMA UsersFacts ==
  NUsers \in Nat /\ Users = 1..NUsers /\ TableOrder = [i \in 1..NUsers |-> i]
BY UsersAssumption DEF Users, TableOrder

\* proc_sync leaves everything as it should be.
LEMMA SyncedGood ==
  ASSUME NEW s, NEW g, NEW l, NEW hand, Good(s, g, l, hand)
  PROVE  Good(Synced(s), g, l, hand)
<1>1. PICK f : /\ f[0] = s /\ \A k \in 1..NUsers : f[k] = Forget(f[k - 1], k)
               /\ FoldLeft(Forget, s, [i \in 1..NUsers |-> i]) = f[NUsers]
  BY UsersFacts, ForgetFold
<1> DEFINE A == {k \in 0..NUsers : Good(f[k], g, l, hand)}
<1>2. 0 \in A
  BY <1>1, UsersFacts
<1>3. ASSUME NEW k \in 1..NUsers, k - 1 \in A PROVE k \in A
  <2>1. Good(f[k - 1], g, l, hand) /\ k \in Users /\ k \in 0..NUsers
    BY <1>3, UsersFacts
  <2>2. Good(Forget(f[k - 1], k), g, l, hand)
    BY <2>1, ForgetGood
  <2> QED
    BY <1>1, <2>1, <2>2
<1> HIDE DEF A
<1>4. NUsers \in A
  <2>1. \A k \in 0..NUsers : k \in A
    BY <1>2, <1>3, UsersFacts, UpTo
  <2> QED
    BY <2>1, UsersFacts
<1>5. Good(f[NUsers], g, l, hand)
  BY <1>4 DEF A
<1> DEFINE t == f[NUsers]
<1>6. PICK h : /\ h[0] = t /\ \A k \in 1..NUsers : h[k] = Show(h[k - 1], k)
               /\ FoldLeft(Show, t, [i \in 1..NUsers |-> i]) = h[NUsers]
  BY UsersFacts, ShowFold
<1> DEFINE B == {k \in 0..NUsers : Good(h[k], g, l, hand)}
<1>7. 0 \in B
  BY <1>5, <1>6, UsersFacts
<1>8. ASSUME NEW k \in 1..NUsers, k - 1 \in B PROVE k \in B
  <2>1. Good(h[k - 1], g, l, hand) /\ k \in Users /\ k \in 0..NUsers
    BY <1>8, UsersFacts
  <2>2. Good(Show(h[k - 1], k), g, l, hand)
    BY <2>1, ShowGood
  <2> QED
    BY <1>6, <2>1, <2>2
<1> HIDE DEF B
<1>9. NUsers \in B
  <2>1. \A k \in 0..NUsers : k \in B
    BY <1>7, <1>8, UsersFacts, UpTo
  <2> QED
    BY <2>1, UsersFacts
<1>10. Good(h[NUsers], g, l, hand)
  BY <1>9 DEF B
<1>11. Synced(s) = h[NUsers]
  BY <1>1, <1>6, UsersFacts DEF Synced
<1> QED
  BY <1>10, <1>11

----------------------------------------------------------------------------
(* The descriptors.                                                         *)

\* There are finitely many.
LEMMA HoldersFinite ==
  ASSUME NEW g, NEW n
  PROVE  IsFiniteSet(Holders(g, n)) /\ Cardinality(Holders(g, n)) \in Nat
<1>1. IsFiniteSet(Users) /\ IsFiniteSet(Fds)
  BY NNodesAssumption, UsersAssumption, FS_Interval DEF Users, Fds
<1>2. IsFiniteSet(Users \X Fds)
  BY <1>1, FS_Product
<1>3. Holders(g, n) \subseteq Users \X Fds
  BY DEF Holders
<1>4. IsFiniteSet(Holders(g, n))
  BY <1>2, <1>3, FS_Subset
<1> QED
  BY <1>4, FS_CardinalityType

\* One that is taken away leaves its handle with the caller.
LEMMA TakeHandle ==
  ASSUME NEW s, NEW g, NEW l, Good(s, g, l, NoNode), NEW u \in Users, NEW i \in Fds,
         g[u][i] # NoNode
  PROVE  /\ Good(s, [g EXCEPT ![u][i] = NoNode], l, g[u][i])
         /\ g[u][i] \in VNodes /\ s.node[g[u][i]].refs > 0
<1> DEFINE new == [g EXCEPT ![u][i] = NoNode]
           n == g[u][i]
<1>1. g \in Handles /\ Counted(s.node, g, NoNode) /\ s \in States
  BY GoodParts
<1>2. n \in VNodes /\ new \in Handles
  BY <1>1 DEF Handles
<1>3. new[u][i] = NoNode /\ \A v \in Users, j \in Fds : <<v, j>> # <<u, i>> => new[v][j] = g[v][j]
  BY <1>1 DEF Handles
<1> HIDE DEF new
<1>4. Holders(new, n) = Holders(g, n) \ {<<u, i>>} /\ <<u, i>> \in Holders(g, n)
  <2>1. <<u, i>> \in Holders(g, n)
    BY DEF Holders
  <2>2. ASSUME NEW h \in Users \X Fds
        PROVE  new[h[1]][h[2]] = n <=> (g[h[1]][h[2]] = n /\ h # <<u, i>>)
    BY <1>2, <1>3, NoNodeFacts
  <2> HIDE DEF n
  <2> QED
    BY <2>1, <2>2 DEF Holders
<1> HIDE DEF n
<1>5. ASSUME NEW m \in VNodes, m # n PROVE Holders(new, m) = Holders(g, m)
  <2>1. ASSUME NEW h \in Users \X Fds
        PROVE  new[h[1]][h[2]] = m <=> g[h[1]][h[2]] = m
    BY <1>3, <1>5, NoNodeFacts DEF n
  <2> QED
    BY <2>1 DEF Holders
<1>6. Cardinality(Holders(g, n)) = Cardinality(Holders(new, n)) + 1
  <2>1. IsFiniteSet(Holders(g, n)) /\ Cardinality(Holders(g, n)) \in Nat
        /\ Cardinality(Holders(new, n)) \in Nat
    BY HoldersFinite
  <2>2. Cardinality(Holders(g, n) \ {<<u, i>>}) = Cardinality(Holders(g, n)) - 1
    BY <1>4, <2>1, FS_RemoveElement
  <2> QED
    BY <1>4, <2>1, <2>2
<1>7. ASSUME NEW m \in VNodes
      PROVE  s.node[m].refs = Cardinality(Holders(new, m)) + (IF m = n THEN 1 ELSE 0)
  <2>1. s.node[m].refs = Cardinality(Holders(g, m)) + 0 /\ Cardinality(Holders(g, m)) \in Nat
    BY <1>1, NoNodeFacts, HoldersFinite DEF Counted
  <2> QED
    BY <1>5, <1>6, <2>1
<1>8. Counted(s.node, new, n)
  BY <1>7 DEF Counted
<1>9. s.node[n].refs > 0
  BY <1>2, <1>7, HoldersFinite
<1>10. Good(s, new, l, n)
  BY <1>2, <1>8, GoodParts
<1> QED
  BY <1>2, <1>9, <1>10 DEF new, n

\* A free one gets the handle.
LEMMA GiveHandle ==
  ASSUME NEW s, NEW g, NEW l, NEW n \in VNodes, Good(s, g, l, n), NEW u \in Users, NEW i \in Fds,
         g[u][i] = NoNode
  PROVE  Good(s, [g EXCEPT ![u][i] = n], l, NoNode)
<1> DEFINE new == [g EXCEPT ![u][i] = n]
<1>1. g \in Handles /\ Counted(s.node, g, n)
  BY GoodParts
<1>2. new \in Handles
  BY <1>1 DEF Handles
<1>3. new[u][i] = n /\ \A v \in Users, j \in Fds : <<v, j>> # <<u, i>> => new[v][j] = g[v][j]
  BY <1>1 DEF Handles
<1> HIDE DEF new
<1>4. Holders(new, n) = Holders(g, n) \cup {<<u, i>>} /\ <<u, i>> \notin Holders(g, n)
  <2>1. <<u, i>> \notin Holders(g, n) /\ <<u, i>> \in Users \X Fds
    BY NoNodeFacts DEF Holders
  <2>2. ASSUME NEW h \in Users \X Fds
        PROVE  new[h[1]][h[2]] = n <=> (g[h[1]][h[2]] = n \/ h = <<u, i>>)
    BY <1>3
  <2> QED
    BY <2>1, <2>2 DEF Holders
<1>5. ASSUME NEW m \in VNodes, m # n PROVE Holders(new, m) = Holders(g, m)
  <2>1. ASSUME NEW h \in Users \X Fds
        PROVE  new[h[1]][h[2]] = m <=> g[h[1]][h[2]] = m
    BY <1>3, <1>5, NoNodeFacts
  <2> QED
    BY <2>1 DEF Holders
<1>6. Cardinality(Holders(new, n)) = Cardinality(Holders(g, n)) + 1
  <2>1. IsFiniteSet(Holders(g, n)) /\ Cardinality(Holders(g, n)) \in Nat
    BY HoldersFinite
  <2>2. Cardinality(Holders(g, n) \cup {<<u, i>>}) = Cardinality(Holders(g, n)) + 1
    BY <1>4, <2>1, FS_AddElement
  <2> QED
    BY <1>4, <2>2
<1>7. ASSUME NEW m \in VNodes
      PROVE  s.node[m].refs = Cardinality(Holders(new, m)) + (IF m = NoNode THEN 1 ELSE 0)
  <2>1. s.node[m].refs = Cardinality(Holders(g, m)) + (IF m = n THEN 1 ELSE 0)
        /\ Cardinality(Holders(g, m)) \in Nat
    BY <1>1, HoldersFinite DEF Counted
  <2>2. m # NoNode
    BY NoNodeFacts
  <2> QED
    BY <1>5, <1>6, <2>1, <2>2
<1>8. Counted(s.node, new, NoNode)
  BY <1>7 DEF Counted
<1>9. Good(s, new, l, NoNode)
  BY <1>2, <1>8, GoodParts
<1> QED
  BY <1>9 DEF new

\* The first free one is free.
LEMMA FirstFree ==
  ASSUME NEW u \in Users, OpenFds(u) # Fds
  PROVE  /\ FirstOf(Fds \ OpenFds(u)) \in Fds
         /\ fdt[u][FirstOf(Fds \ OpenFds(u))] = NoNode
<1> DEFINE S == Fds \ OpenFds(u)
<1>1. S # {} /\ S \subseteq Nat
  BY DEF OpenFds, Fds
<1>2. PICK k \in S : \A j \in S : k <= j
  BY <1>1, LeastExists
<1>3. FirstOf(S) \in S
  BY <1>2 DEF FirstOf
<1> QED
  BY <1>3 DEF OpenFds

\* What is the first in a directory of that name is in it.
LEMMA FirstNamed ==
  ASSUME NEW s \in States, NEW d \in RamDirs, NEW f, NamedBy(s, d, f) # {}
  PROVE  FirstOf(NamedBy(s, d, f)) \in 1..Len(s.kids[d])
<1> DEFINE S == NamedBy(s, d, f)
<1>1. s.kids[d] \in Seq(VNodes)
  BY StateFacts
<1>2. S \subseteq 1..Len(s.kids[d]) /\ S \in SUBSET Nat
  BY <1>1 DEF NamedBy
<1> HIDE DEF S
<1>3. PICK k \in S : \A j \in S : k <= j
  BY <1>2, LeastExists DEF S
<1>4. FirstOf(S) \in S
  BY <1>3 DEF FirstOf
<1> QED
  BY <1>2, <1>4 DEF S

----------------------------------------------------------------------------
(* Aliases and closes.                                                      *)

\* Nodes change, but nothing of a mirror that tells what is saved.
Alike(a, b) ==
    \A n \in VNodes : /\ b[n].mirror = a[n].mirror
                      /\ a[n].mirror => /\ b[n].name = a[n].name /\ b[n].text = a[n].text
                                        /\ b[n].dirty = a[n].dirty /\ b[n].whole = a[n].whole

\* Where the mirrors are as they were, what was written is still saved.
LEMMA AlikeKeeps ==
  ASSUME NEW a, NEW b, Alike(a, b), NEW disk, NEW l, Saved(a, disk, l)
  PROVE  Saved(b, disk, l)
<1>1. \A n \in VNodes : b[n].mirror => a[n].mirror /\ b[n].name = a[n].name
                             /\ b[n].text = a[n].text /\ b[n].dirty = a[n].dirty
                             /\ b[n].whole = a[n].whole
  BY DEF Alike
<1>2. \A n \in VNodes : b[n].mirror =>
        /\ Agrees(b[n], l[b[n].name])
        /\ b[n].dirty \/ Says(disk[b[n].name], l[b[n].name])
  BY <1>1 DEF Saved, Agrees
<1>3. \A n, m \in VNodes :
        b[n].mirror /\ b[m].mirror /\ b[n].name = b[m].name => n = m
  BY <1>1 DEF Saved
<1>4. ASSUME NEW f \in DiskNames, \A n \in VNodes : ~(b[n].mirror /\ b[n].name = f)
      PROVE  Says(disk[f], l[f])
  <2>1. \A n \in VNodes : ~(a[n].mirror /\ a[n].name = f)
    BY <1>4 DEF Alike
  <2> QED
    BY <2>1 DEF Saved
<1> QED
  BY <1>2, <1>3, <1>4 DEF Saved

\* Of an open node only the count changes.
LEMMA RefsGood ==
  ASSUME NEW s, NEW g, NEW l, NEW hand, Good(s, g, l, hand), NEW n \in VNodes, NEW k \in Nat,
         n \in Tree(s.kids, s.pdir, s.pfile) \/ s.node[n] # BlankNode,
         Adrift(s.node[n]) => k > 0, NEW to,
         Counted([s.node EXCEPT ![n].refs = k], g, to)
  PROVE  Good([s EXCEPT !.node[n].refs = k], g, l, to)
<1> DEFINE node == [s.node EXCEPT ![n].refs = k]
           r == [s.node[n] EXCEPT !.refs = k]
           T == Tree(s.kids, s.pdir, s.pfile)
           t == [s EXCEPT !.node[n].refs = k]
<1>1. s \in States /\ g \in Handles /\ l \in [DiskNames -> Contents \cup {NoFile}]
      /\ Shape(s.kids, s.pdir, s.pfile) /\ Held(s, T, {})
      /\ (Careful => Saved(s.node, s.disk, l))
  BY GoodParts
<1> HIDE DEF T
<1>2. s.node \in [VNodes -> NodeType] /\ s.count \in 0..NNodes /\ s.node[n] \in NodeType
  BY <1>1, StateFacts
<1>3. r \in NodeType /\ r.refs = k /\ r.mirror = s.node[n].mirror /\ r.orphaned = s.node[n].orphaned
      /\ r.dirty = s.node[n].dirty /\ r.name = s.node[n].name /\ r.text = s.node[n].text
      /\ r.whole = s.node[n].whole
  BY <1>2 DEF NodeType
<1>4. node = [s.node EXCEPT ![n] = r] /\ t = [s EXCEPT !.node = node]
  BY <1>1, <1>2 DEF States
<1> HIDE DEF r, node, t
<1>5. node \in [VNodes -> NodeType] /\ node[n] = r /\ \A m \in VNodes : m # n => node[m] = s.node[m]
  BY <1>2, <1>3, <1>4
<1>6. t \in States /\ t.node = node /\ t.free = s.free /\ t.count = s.count
      /\ t.kids = s.kids /\ t.pdir = s.pdir /\ t.pfile = s.pfile /\ t.disk = s.disk
  BY <1>1, <1>4, <1>5 DEF States
<1>7. Pool(node, s.free, s.count, T, {})
  <2>1. Pool(s.node, s.free, s.count, T, {}) /\ NodeOk(s.node[n])
    BY <1>1 DEF Held, Pool
  <2>2. NodeOk(r) /\ (Adrift(r) <=> Adrift(s.node[n]))
    BY <1>3, <2>1 DEF NodeOk, Adrift
  <2>3. n \in T \/ n \in {} \/ s.node[n] # BlankNode
    BY DEF T
  <2> QED
    BY <1>2, <1>3, <1>4, <2>1, <2>2, <2>3, KeepPool
<1>8. Alike(s.node, node)
  BY <1>3, <1>5 DEF Alike
<1>9. Careful => Saved(t.node, t.disk, l)
  BY <1>1, <1>6, <1>8, AlikeKeeps
<1>10. Held(t, Tree(t.kids, t.pdir, t.pfile), {})
  BY <1>6, <1>7 DEF Held, T
<1>11. Counted(t.node, g, to)
  BY <1>6 DEF node
<1>12. Good(t, g, l, to)
  BY <1>1, <1>6, <1>9, <1>10, <1>11, GoodParts
<1> QED
  BY <1>12 DEF t

\* One more handle of a node that is there.
LEMMA AliasGood ==
  ASSUME NEW s, NEW g, NEW l, Good(s, g, l, NoNode), NEW n \in VNodes,
         n \in Tree(s.kids, s.pdir, s.pfile) \/ s.node[n].refs > 0
  PROVE  Good(WithAlias(s, n), g, l, n)
<1> DEFINE k == s.node[n].refs + 1
           node == [s.node EXCEPT ![n].refs = k]
<1>1. s \in States /\ Counted(s.node, g, NoNode)
  BY GoodParts
<1>2. s.node \in [VNodes -> NodeType] /\ s.node[n] \in NodeType
  BY <1>1, StateFacts
<1>3. k \in Nat /\ k > 0
  <2>1. s.node[n].refs \in Nat
    BY <1>2 DEF NodeType
  <2> QED
    BY <2>1
<1>4. s.node[n].refs > 0 => s.node[n] # BlankNode
  BY BlankFacts
<1>5. Counted(node, g, n)
  <2>1. ASSUME NEW m \in VNodes
        PROVE  node[m].refs = Cardinality(Holders(g, m)) + (IF m = n THEN 1 ELSE 0)
    <3>1. s.node[m].refs = Cardinality(Holders(g, m)) + 0 /\ Cardinality(Holders(g, m)) \in Nat
      BY <1>1, NoNodeFacts, HoldersFinite DEF Counted
    <3>2. CASE m = n
      <4>1. node[n].refs = s.node[n].refs + 1
        BY <1>2 DEF NodeType
      <4> HIDE DEF node
      <4> QED
        BY <3>1, <3>2, <4>1
    <3>3. CASE m # n
      BY <1>2, <3>1, <3>3
    <3> QED
      BY <3>2, <3>3
  <2> HIDE DEF node
  <2> QED
    BY <2>1 DEF Counted
<1>6. WithAlias(s, n) = [s EXCEPT !.node[n].refs = k]
  BY <1>1, <1>2 DEF WithAlias
<1> HIDE DEF k
<1>7. Good([s EXCEPT !.node[n].refs = k], g, l, n)
  BY <1>3, <1>4, <1>5, RefsGood
<1> QED
  BY <1>6, <1>7

\* A write of the whole text makes the file say so, unless it is known to fail.
LEMMA StoredFacts ==
  ASSUME NEW file \in FileType, NEW x \in Contents, NEW w \in BOOLEAN
  PROVE  /\ Stored(file, x, w) \in FileType
         /\ \A t : (w => x = t) => Says(Stored(file, x, w), t)
<1>1. CASE file.full
  <2>1. Stored(file, x, w) = [file EXCEPT !.stale = TRUE]
    BY <1>1 DEF Stored
  <2> QED
    BY <2>1 DEF FileType, Says
<1>2. CASE ~file.full
  <2>1. Stored(file, x, w) = [file EXCEPT !.text = x, !.stale = ~w]
    BY <1>2 DEF Stored
  <2>2. Stored(file, x, w) \in FileType /\ Stored(file, x, w).text = x
        /\ Stored(file, x, w).stale = ~w
    BY <2>1 DEF FileType
  <2> QED
    BY <2>2 DEF Says
<1> QED
  BY <1>1, <1>2

\* vfs_close gives one handle up.
LEMMA CloseGood ==
  ASSUME NEW s, NEW g, NEW l, NEW n \in VNodes, Good(s, g, l, n)
  PROVE  Good(CloseNode(s, n), g, l, NoNode)
<1> DEFINE k == s.node[n].refs - 1
           less == [s EXCEPT !.node[n].refs = @ - 1]
           T == Tree(s.kids, s.pdir, s.pfile)
<1>1. s \in States /\ g \in Handles /\ l \in [DiskNames -> Contents \cup {NoFile}]
      /\ Shape(s.kids, s.pdir, s.pfile) /\ Held(s, T, {}) /\ Counted(s.node, g, n)
      /\ (Careful => Saved(s.node, s.disk, l))
  BY GoodParts
<1> HIDE DEF T
<1>2. s.node \in [VNodes -> NodeType] /\ s.node[n] \in NodeType /\ s.count \in 0..NNodes
      /\ s.disk \in [DiskNames -> FileType]
  BY <1>1, StateFacts
<1>3. \A m \in VNodes : s.node[m].refs = Cardinality(Holders(g, m)) + (IF m = n THEN 1 ELSE 0)
                        /\ Cardinality(Holders(g, m)) \in Nat
  BY <1>1, HoldersFinite DEF Counted
<1>4. s.node[n].refs \in Nat /\ s.node[n].refs > 0 /\ k \in Nat /\ k = Cardinality(Holders(g, n))
  BY <1>3
<1>5. NodeOk(s.node[n]) /\ Pool(s.node, s.free, s.count, T, {})
  BY <1>1 DEF Held, Pool
<1>6. less = [s EXCEPT !.node[n].refs = k]
  BY <1>1, <1>2 DEF States
<1>7. CASE s.node[n].refs > 1 \/ ~Adrift(s.node[n])
  <2>1. CloseNode(s, n) = less
    <3>1. ~Adrift(s.node[n]) => ~s.node[n].dirty /\ ~s.node[n].mirror /\ ~s.node[n].orphaned
      BY <1>2, <1>5 DEF NodeOk, Adrift, NodeType
    <3> HIDE DEF less
    <3> QED
      BY <1>7, <3>1 DEF CloseNode, less
  <2>2. Counted([s.node EXCEPT ![n].refs = k], g, NoNode)
    <3> DEFINE node == [s.node EXCEPT ![n].refs = k]
    <3>1. node[n].refs = k /\ \A m \in VNodes : m # n => node[m].refs = s.node[m].refs
      BY <1>2 DEF NodeType
    <3> HIDE DEF node, k
    <3>2. ASSUME NEW m \in VNodes
          PROVE  node[m].refs = Cardinality(Holders(g, m)) + (IF m = NoNode THEN 1 ELSE 0)
      BY <1>3, <1>4, <3>1, NoNodeFacts
    <3>3. Counted(node, g, NoNode)
      BY <3>2 DEF Counted
    <3> QED
      BY <3>3 DEF node
  <2>3. Adrift(s.node[n]) => k > 0
    BY <1>4, <1>7
  <2>4. s.node[n] # BlankNode
    BY <1>4, BlankFacts
  <2> HIDE DEF k, less
  <2>5. Good([s EXCEPT !.node[n].refs = k], g, l, NoNode)
    BY <1>4, <2>2, <2>3, <2>4, RefsGood
  <2> QED
    BY <1>6, <2>1, <2>5
<1>8. CASE ~(s.node[n].refs > 1) /\ Adrift(s.node[n])
  <2> DEFINE name == s.node[n].name
             file == Stored(s.disk[name], s.node[n].text, s.node[n].whole)
             disk == IF s.node[n].dirty THEN [s.disk EXCEPT ![name] = file] ELSE s.disk
             f == FreeNode(s, n)
             t == CloseNode(s, n)
  <2>1. f \in States /\ f.kids = s.kids /\ f.pdir = s.pdir /\ f.pfile = s.pfile /\ f.disk = s.disk
        /\ f.node = [s.node EXCEPT ![n] = BlankNode] /\ Pool(f.node, f.free, f.count, T, {})
    <3>1. Pool(s.node, s.free, s.count, T, {}) /\ Adrift(s.node[n])
      BY <1>1, <1>5, <1>8
    <3>2. GivenBack(s, f, n, T)
      BY <1>1, <1>5, <3>1, GiveBack, ZenonT(60)
    <3> QED
      BY <3>2 DEF GivenBack
  <2>2. s.node[n].mirror => name \in DiskNames /\ ~s.node[n].orphaned
    BY <1>5 DEF NodeOk
  <2>3. s.node[n].dirty => s.node[n].mirror
    BY <1>5 DEF NodeOk
  <2>4. disk \in [DiskNames -> FileType]
    <3>1. s.node[n].text \in Contents /\ s.node[n].whole \in BOOLEAN
      BY <1>2 DEF NodeType
    <3>2. name \in DiskNames => file \in FileType
      BY <1>2, <3>1, StoredFacts
    <3> HIDE DEF file, name
    <3> QED
      BY <1>2, <2>2, <2>3, <3>2
  <2>5. t \in States /\ t.kids = s.kids /\ t.pdir = s.pdir /\ t.pfile = s.pfile /\ t.disk = disk
        /\ t.node = f.node /\ t.free = f.free /\ t.count = f.count
    <3> DEFINE kept == IF s.node[n].dirty /\ ~s.node[n].orphaned THEN Flushed(less, n) ELSE less
    <3>1. t = FreeNode(kept, n)
      BY <1>8 DEF CloseNode, Adrift
    <3>2. kept.free = s.free /\ kept.count = s.count /\ kept.kids = s.kids /\ kept.pdir = s.pdir
          /\ kept.pfile = s.pfile /\ kept.disk = disk /\ kept \in States
          /\ [kept.node EXCEPT ![n] = BlankNode] = [s.node EXCEPT ![n] = BlankNode]
      <4> DEFINE node == [s.node EXCEPT ![n].refs = k]
                 done == [node EXCEPT ![n].dirty = FALSE]
      <4>1. less = [s EXCEPT !.node = node] /\ node \in [VNodes -> NodeType]
            /\ node[n].name = name /\ node[n].text = s.node[n].text
            /\ node[n].whole = s.node[n].whole
            /\ [node EXCEPT ![n] = BlankNode] = [s.node EXCEPT ![n] = BlankNode]
        <5>1. less = [s EXCEPT !.node = node]
          BY <1>1, <1>2 DEF States
        <5>2. node \in [VNodes -> NodeType] /\ node[n].name = name /\ node[n].text = s.node[n].text
              /\ node[n].whole = s.node[n].whole
          BY <1>2, <1>4 DEF NodeType
        <5>3. [node EXCEPT ![n] = BlankNode] = [s.node EXCEPT ![n] = BlankNode]
          BY <1>2
        <5> QED
          BY <5>1, <5>2, <5>3
      <4>2. done \in [VNodes -> NodeType]
            /\ [done EXCEPT ![n] = BlankNode] = [node EXCEPT ![n] = BlankNode]
        <5> HIDE DEF node
        <5>1. done \in [VNodes -> NodeType]
          <6>1. node[n] \in NodeType
            BY <4>1
          <6>2. [node[n] EXCEPT !.dirty = FALSE] \in NodeType
            BY <6>1 DEF NodeType
          <6>3. done = [node EXCEPT ![n] = [node[n] EXCEPT !.dirty = FALSE]]
            BY <4>1
          <6> QED
            BY <4>1, <6>2, <6>3
        <5>2. [done EXCEPT ![n] = BlankNode] = [node EXCEPT ![n] = BlankNode]
          BY <4>1
        <5> QED
          BY <5>1, <5>2
      <4>3. less \in States /\ less.node = node /\ less.free = s.free /\ less.count = s.count
            /\ less.kids = s.kids /\ less.pdir = s.pdir /\ less.pfile = s.pfile
            /\ less.disk = s.disk
        <5> HIDE DEF less, node
        <5> QED
          BY <1>1, <4>1 DEF States
      <4>4. CASE s.node[n].dirty
        <5>1. kept = Flushed(less, n)
          BY <2>2, <2>3, <4>4
        <5> HIDE DEF less, node, kept
        <5>2. kept = [less EXCEPT !.disk = [s.disk EXCEPT ![name] = file], !.node = done]
          BY <4>1, <4>3, <5>1 DEF Flushed, States
        <5>3. disk = [s.disk EXCEPT ![name] = file]
          BY <4>4
        <5> HIDE DEF done, disk
        <5>4. kept = [less EXCEPT !.disk = disk, !.node = done]
          BY <5>2, <5>3
        <5>5. kept \in States /\ kept.node = done /\ kept.free = s.free /\ kept.count = s.count
              /\ kept.kids = s.kids /\ kept.pdir = s.pdir /\ kept.pfile = s.pfile
              /\ kept.disk = disk
          BY <2>4, <4>2, <4>3, <5>4 DEF States
        <5> QED
          BY <4>1, <4>2, <5>5
      <4>5. CASE ~s.node[n].dirty
        <5>1. kept = less /\ disk = s.disk
          BY <4>5
        <5> HIDE DEF less, node, kept, disk
        <5> QED
          BY <4>1, <4>3, <5>1
      <4> QED
        BY <4>4, <4>5
    <3> HIDE DEF kept, disk, less, t
    <3>3. t = [kept EXCEPT !.free = Append(kept.free, n),
                           !.node = [kept.node EXCEPT ![n] = BlankNode]]
      BY <3>1, <3>2 DEF FreeNode, States
    <3>4. f.free = Append(s.free, n) /\ f.count = s.count /\ f.free \in Seq(VNodes)
          /\ f.node \in [VNodes -> NodeType]
      <4>1. f.free = Append(s.free, n) /\ f.count = s.count
        BY <1>1 DEF FreeNode, States
      <4> HIDE DEF f
      <4> QED
        BY <2>1, <4>1, StateFacts
    <3> HIDE DEF f
    <3> QED
      BY <2>1, <3>2, <3>3, <3>4 DEF States
  <2> HIDE DEF t, f
  <2>6. t.node = [s.node EXCEPT ![n] = BlankNode]
    BY <2>1, <2>5
  <2>7. Counted(t.node, g, NoNode)
    <3>1. s.node[n].refs = 1
      BY <1>4, <1>8
    <3>2. ASSUME NEW m \in VNodes
          PROVE  t.node[m].refs = Cardinality(Holders(g, m)) + (IF m = NoNode THEN 1 ELSE 0)
      <4>1. CASE m = n
        <5>1. t.node[m].refs = 0
          BY <1>2, <2>6, <4>1, BlankFacts
        <5> QED
          BY <1>3, <3>1, <4>1, <5>1, NoNodeFacts
      <4>2. CASE m # n
        <5>1. t.node[m] = s.node[m]
          BY <1>2, <2>6, <4>2
        <5> QED
          BY <1>3, <4>2, <5>1, NoNodeFacts
      <4> QED
        BY <4>1, <4>2
    <3> QED
      BY <3>2 DEF Counted
  <2>8. ASSUME Careful PROVE Saved(t.node, disk, l)
    <3>1. Saved(s.node, s.disk, l)
      BY <1>1, <2>8
    <3>2. s.node[n].mirror => Says(disk[name], l[name])
      <4>1. CASE s.node[n].dirty
        <5>1. s.node[n].text \in Contents /\ s.node[n].whole \in BOOLEAN
          BY <1>2 DEF NodeType
        <5>2. name \in DiskNames /\ Agrees(s.node[n], l[name])
          BY <2>2, <2>3, <3>1, <4>1 DEF Saved
        <5>3. Says(file, l[name])
          BY <1>2, <5>1, <5>2, StoredFacts DEF Agrees
        <5>4. disk[name] = file
          BY <1>2, <4>1, <5>2
        <5> QED
          BY <5>3, <5>4
      <4>2. CASE ~s.node[n].dirty
        BY <3>1, <4>2 DEF Saved
      <4> QED
        BY <4>1, <4>2
    <3>3. \A e \in DiskNames : e # name => disk[e] = s.disk[e]
      BY <1>2
    <3>4. s.node[n].mirror \/ disk = s.disk
      BY <2>3
    <3> HIDE DEF disk
    <3>5. t.node[n].mirror = FALSE /\ \A m \in VNodes : m # n => t.node[m] = s.node[m]
      BY <1>2, <2>6, BlankFacts
    <3>6. \A m \in VNodes : t.node[m].mirror => m # n /\ t.node[m] = s.node[m]
      BY <3>5
    <3>7. ASSUME NEW m \in VNodes, t.node[m].mirror
          PROVE  /\ Agrees(t.node[m], l[t.node[m].name])
                 /\ t.node[m].dirty \/ Says(disk[t.node[m].name], l[t.node[m].name])
      <4>1. m # n /\ t.node[m] = s.node[m]
        BY <3>6, <3>7
      <4>2. Agrees(s.node[m], l[s.node[m].name])
            /\ (s.node[m].dirty \/ Says(s.disk[s.node[m].name], l[s.node[m].name]))
        BY <3>1, <3>7, <4>1 DEF Saved
      <4>3. disk[s.node[m].name] = s.disk[s.node[m].name]
        <5>1. s.node[m].name \in DiskNames
          <6>1. NodeOk(s.node[m])
            BY <1>5 DEF Pool
          <6> QED
            BY <3>7, <4>1, <6>1 DEF NodeOk
        <5>2. s.node[n].mirror => s.node[m].name # name
          BY <3>1, <3>7, <4>1 DEF Saved
        <5> QED
          BY <3>3, <3>4, <5>1, <5>2
      <4> QED
        BY <4>1, <4>2, <4>3
    <3>8. \A m, o \in VNodes : t.node[m].mirror /\ t.node[o].mirror
                               /\ t.node[m].name = t.node[o].name => m = o
      BY <3>1, <3>6 DEF Saved
    <3>9. ASSUME NEW e \in DiskNames, \A m \in VNodes : ~(t.node[m].mirror /\ t.node[m].name = e)
          PROVE  Says(disk[e], l[e])
      <4>1. CASE s.node[n].mirror /\ e = name
        BY <3>2, <4>1
      <4>2. CASE ~(s.node[n].mirror /\ e = name)
        <5>1. \A m \in VNodes : ~(s.node[m].mirror /\ s.node[m].name = e)
          BY <3>5, <3>9, <4>2
        <5>2. Says(s.disk[e], l[e])
          BY <3>1, <5>1 DEF Saved
        <5> QED
          BY <3>3, <3>4, <4>2, <5>2
      <4> QED
        BY <4>1, <4>2
    <3> HIDE DEF name
    <3> QED
      BY <3>7, <3>8, <3>9 DEF Saved
  <2>9. Held(t, Tree(t.kids, t.pdir, t.pfile), {})
    BY <2>1, <2>5 DEF Held, T
  <2> HIDE DEF disk
  <2>10. Good(t, g, l, NoNode)
    BY <1>1, <2>5, <2>7, <2>8, <2>9, GoodParts
  <2> QED
    BY <2>10 DEF t
<1> QED
  BY <1>7, <1>8

\* SYS_OPEN: with or without a free descriptor.
LEMMA GetsGood ==
  ASSUME NEW u \in Users, NEW s, NEW l, NEW n \in VNodes, Good(s, fdt, l, n), GetsFd(u, s, n)
  PROVE  Good(vfs', fdt', l, NoNode)
<1>1. CASE OpenFds(u) = Fds
  <2>1. vfs' = CloseNode(s, n) /\ fdt' = fdt
    BY <1>1 DEF GetsFd
  <2> QED
    BY <2>1, CloseGood
<1>2. CASE OpenFds(u) # Fds
  <2>1. vfs' = s /\ fdt' = [fdt EXCEPT ![u][FirstOf(Fds \ OpenFds(u))] = n]
    BY <1>2 DEF GetsFd
  <2>2. FirstOf(Fds \ OpenFds(u)) \in Fds /\ fdt[u][FirstOf(Fds \ OpenFds(u))] = NoNode
    BY <1>2, FirstFree
  <2> QED
    BY <2>1, <2>2, GiveHandle
<1> QED
  BY <1>1, <1>2

\* close_proc_fds closes one descriptor after the other.
LEMMA ClosedAllGood ==
  ASSUME NEW u \in Users, Good(vfs, fdt, last, NoNode), ClosedAll(u)
  PROVE  Good(vfs', fdt', last', NoNode)
<1> DEFINE g == [k \in 0..UserFds |->
                   [fdt EXCEPT ![u] = [i \in Fds |-> IF i <= k THEN NoNode ELSE fdt[u][i]]]]
<1>1. UserFds \in Nat /\ Fds = 1..UserFds /\ fdt \in Handles
  BY NNodesAssumption, GoodParts DEF Fds
<1>2. PICK f : /\ f[0] = vfs
               /\ \A k \in 1..UserFds :
                     f[k] = IF fdt[u][k] = NoNode THEN f[k - 1] ELSE CloseNode(f[k - 1], fdt[u][k])
               /\ vfs' = f[UserFds]
  BY <1>1, ClosedFold
<1>3. vfs' = f[UserFds] /\ last' = last /\ fdt' = [fdt EXCEPT ![u] = [i \in Fds |-> NoNode]]
  BY <1>2 DEF ClosedAll
<1>4. ASSUME NEW k \in 0..UserFds
      PROVE  /\ g[k] \in Handles
             /\ \A v \in Users, i \in Fds :
                   g[k][v][i] = IF v = u /\ i <= k THEN NoNode ELSE fdt[v][i]
  BY <1>1 DEF Handles
<1>5. g[0] = fdt
  <2>1. \A i \in Fds : ~(i <= 0)
    BY <1>1
  <2>2. \A v \in Users, i \in Fds : g[0][v][i] = fdt[v][i]
    BY <1>1, <1>4, <2>1
  <2>3. g[0] \in Handles
    BY <1>1, <1>4
  <2> HIDE DEF g
  <2> QED
    BY <1>1, <2>2, <2>3 DEF Handles
<1>6. g[UserFds] = fdt'
  <2>1. \A i \in Fds : i <= UserFds
    BY <1>1
  <2> HIDE DEF g
  <2>5. UserFds \in 0..UserFds
    BY <1>1
  <2>2. \A v \in Users, i \in Fds : g[UserFds][v][i] = IF v = u THEN NoNode ELSE fdt[v][i]
    BY <1>4, <2>1, <2>5
  <2>3. g[UserFds] \in Handles
    BY <1>4, <2>5
  <2>4. fdt' \in Handles /\ \A v \in Users, i \in Fds :
                              fdt'[v][i] = IF v = u THEN NoNode ELSE fdt[v][i]
    BY <1>1, <1>3 DEF Handles
  <2> HIDE DEF g
  <2> QED
    BY <2>2, <2>3, <2>4 DEF Handles
<1> HIDE DEF g
<1> DEFINE A == {k \in 0..UserFds : Good(f[k], g[k], last, NoNode)}
<1>7. 0 \in A
  <2>1. f[0] = vfs /\ g[0] = fdt /\ 0 \in 0..UserFds
    BY <1>1, <1>2, <1>5
  <2> QED
    BY <2>1
<1>8. ASSUME NEW k \in 1..UserFds, k - 1 \in A PROVE k \in A
  <2>1. Good(f[k - 1], g[k - 1], last, NoNode) /\ k \in Fds /\ k \in 0..UserFds
        /\ k - 1 \in 0..UserFds
    BY <1>1, <1>8
  <2>2. f[k] = IF fdt[u][k] = NoNode THEN f[k - 1] ELSE CloseNode(f[k - 1], fdt[u][k])
    BY <1>2
  <2>3. g[k - 1][u][k] = fdt[u][k]
    <3>1. ~(k <= k - 1)
      OBVIOUS
    <3> QED
      BY <1>4, <2>1, <3>1
  <2>4. g[k] = [g[k - 1] EXCEPT ![u][k] = NoNode]
    <3> DEFINE old == g[k - 1]
               new == [old EXCEPT ![u][k] = NoNode]
    <3>1. old \in Handles /\ g[k] \in Handles
      BY <1>4, <2>1
    <3>2. \A v \in Users, i \in Fds : old[v][i] = IF v = u /\ i <= k - 1 THEN NoNode ELSE fdt[v][i]
      BY <1>4, <2>1
    <3>3. \A v \in Users, i \in Fds : g[k][v][i] = IF v = u /\ i <= k THEN NoNode ELSE fdt[v][i]
      BY <1>4, <2>1
    <3> HIDE DEF old
    <3>4. new \in Handles /\ \A v \in Users, i \in Fds :
             new[v][i] = IF v = u /\ i = k THEN NoNode ELSE old[v][i]
      BY <2>1, <3>1 DEF Handles
    <3>5. \A i \in Fds : i <= k <=> (i <= k - 1 \/ i = k)
      BY <1>1, <2>1
    <3>6. \A v \in Users, i \in Fds : new[v][i] = g[k][v][i]
      BY <3>2, <3>3, <3>4, <3>5
    <3> HIDE DEF new
    <3>7. new = g[k]
      BY <3>1, <3>4, <3>6 DEF Handles
    <3> QED
      BY <3>7 DEF new, old
  <2>5. CASE fdt[u][k] = NoNode
    <3>1. g[k] = g[k - 1]
      <4> DEFINE old == g[k - 1]
      <4>1. old \in Handles /\ old[u][k] = NoNode
        BY <1>4, <2>1, <2>3, <2>5
      <4> HIDE DEF old
      <4>2. [old EXCEPT ![u][k] = NoNode] = old
        BY <2>1, <4>1 DEF Handles
      <4> QED
        BY <2>4, <4>2 DEF old
    <3> QED
      BY <2>1, <2>2, <2>5, <3>1
  <2>6. CASE fdt[u][k] # NoNode
    <3>1. Good(f[k - 1], g[k], last, fdt[u][k]) /\ fdt[u][k] \in VNodes
      BY <2>1, <2>3, <2>4, <2>6, TakeHandle
    <3>2. Good(CloseNode(f[k - 1], fdt[u][k]), g[k], last, NoNode)
      BY <3>1, CloseGood
    <3> QED
      BY <2>1, <2>2, <2>6, <3>2
  <2> QED
    BY <2>5, <2>6
<1> HIDE DEF A
<1>9. UserFds \in A
  <2>1. \A k \in 0..UserFds : k \in A
    BY <1>1, <1>7, <1>8, UpTo
  <2> QED
    BY <1>1, <2>1
<1>10. Good(f[UserFds], g[UserFds], last, NoNode)
  BY <1>9 DEF A
<1> QED
  BY <1>3, <1>6, <1>10

----------------------------------------------------------------------------
(* The calls.                                                               *)

\* What is unlinked is taken out of the tree and released.
LEMMA UnlinkGood ==
  ASSUME NEW s, NEW g, NEW l, Good(s, g, l, NoNode), NEW c \in States,
         c.node = s.node, c.free = s.free, c.count = s.count, c.disk = s.disk,
         Shape(c.kids, c.pdir, c.pfile),
         NEW n \in Tree(s.kids, s.pdir, s.pfile),
         Tree(c.kids, c.pdir, c.pfile) = Tree(s.kids, s.pdir, s.pfile) \ {n}
  PROVE  Good(ReleaseNode(c, n), g, l, NoNode)
<1> DEFINE T == Tree(s.kids, s.pdir, s.pfile)
           t == ReleaseNode(c, n)
<1>1. s \in States /\ g \in Handles /\ l \in [DiskNames -> Contents \cup {NoFile}]
      /\ Shape(s.kids, s.pdir, s.pfile) /\ Held(s, T, {}) /\ Counted(s.node, g, NoNode)
      /\ (Careful => Saved(s.node, s.disk, l))
  BY GoodParts
<1> HIDE DEF T
<1>2. Held(c, T \ {n}, {n})
  <2>1. Pool(s.node, s.free, s.count, T, {}) /\ {n} \in SUBSET T
    BY <1>1 DEF Held, T
  <2>2. Pool(s.node, s.free, s.count, T \ {n}, {} \cup {n})
    BY <2>1, CutPool
  <2>3. {} \cup {n} = {n}
    OBVIOUS
  <2> QED
    BY <2>2, <2>3 DEF Held
<1>3. Held(t, T \ {n}, {n} \ {n}) /\ Beside(c, t)
  BY <1>2, ReleaseKeeps
<1>4. {n} \ {n} = {}
  OBVIOUS
<1> HIDE DEF t
<1>5. t \in States /\ t.kids = c.kids /\ t.pdir = c.pdir /\ t.pfile = c.pfile /\ t.disk = s.disk
      /\ Same(s.node, t.node)
  BY <1>3 DEF Beside, Held
<1>6. Held(t, Tree(t.kids, t.pdir, t.pfile), {})
  BY <1>3, <1>4, <1>5 DEF T
<1>7. Counted(t.node, g, NoNode) /\ (Careful => Saved(t.node, t.disk, l))
  BY <1>1, <1>5, SameKeeps
<1>8. Good(t, g, l, NoNode)
  BY <1>1, <1>5, <1>6, <1>7, GoodParts
<1> QED
  BY <1>8 DEF t

\* A node of the tree is opened.
LEMMA OpenTreeGood ==
  ASSUME NEW u \in Users, NEW s, NEW l, Good(s, fdt, l, NoNode),
         NEW n \in Tree(s.kids, s.pdir, s.pfile), GetsFd(u, WithAlias(s, n), n)
  PROVE  Good(vfs', fdt', l, NoNode)
<1>1. n \in VNodes
  BY DEF Tree
<1>2. Good(WithAlias(s, n), fdt, l, n)
  BY <1>1, AliasGood
<1> QED
  BY <1>1, <1>2, GetsGood

\* vfs_open in the ramdisk: found, created, or refused for want of a node or of a
\* place in the directory.
LEMMA OpenRamGood ==
  ASSUME Good(vfs, fdt, last, NoNode), NEW u \in Users, NEW d \in RamDirs, NEW f \in RamNames,
         NEW create \in BOOLEAN, OpenRam(u, d, f, create)
  PROVE  Good(vfs', fdt', last', NoNode)
<1> DEFINE s == Synced(vfs)
           n == NextNode(s)
           r == [BlankNode EXCEPT !.name = f]
           a == Alloc(s, r)
           new == [a EXCEPT !.kids[d] = Append(@, n)]
           hits == NamedBy(s, d, f)
           T == Tree(s.kids, s.pdir, s.pfile)
<1>1. Good(s, fdt, last, NoNode) /\ last' = last
  BY SyncedGood DEF OpenRam
<1>2. \/ /\ hits # {}
         /\ GetsFd(u, WithAlias(s, s.kids[d][FirstOf(hits)]), s.kids[d][FirstOf(hits)])
      \/ /\ CanAlloc(s) /\ Len(s.kids[d]) < MaxKids
         /\ GetsFd(u, WithAlias(new, n), n)
      \/ vfs' = s /\ fdt' = fdt
      \/ /\ CanAlloc(s)
         /\ vfs' = FreeNode(Alloc(s, BlankNode), n) /\ fdt' = fdt
  BY DEF OpenRam
<1> HIDE DEF s, hits, T, n, new
<1>3. s \in States /\ fdt \in Handles /\ last \in [DiskNames -> Contents \cup {NoFile}]
      /\ Shape(s.kids, s.pdir, s.pfile) /\ Held(s, T, {}) /\ Counted(s.node, fdt, NoNode)
      /\ (Careful => Saved(s.node, s.disk, last))
  BY <1>1, GoodParts DEF T
<1>4. CASE /\ hits # {}
           /\ GetsFd(u, WithAlias(s, s.kids[d][FirstOf(hits)]), s.kids[d][FirstOf(hits)])
  <2>1. FirstOf(hits) \in 1..Len(s.kids[d])
    BY <1>3, <1>4, FirstNamed DEF hits
  <2>2. s.kids[d][FirstOf(hits)] \in Tree(s.kids, s.pdir, s.pfile)
    BY <1>3, <2>1, InTree
  <2> QED
    BY <1>1, <1>4, <2>2, OpenTreeGood
<1>5. CASE /\ CanAlloc(s) /\ Len(s.kids[d]) < MaxKids
           /\ GetsFd(u, WithAlias(new, n), n)
  <2>1. Fresh(r)
    BY DEF Fresh, BlankNode, NodeType, Contents
  <2> HIDE DEF r
  <2>2. a \in States /\ n \in VNodes /\ n \notin T /\ Beside(s, a) /\ Held(a, T, {n})
    <3>1. FromPool(s, T, r)
      BY <1>3, <1>5, <2>1, AllocFresh
    <3> QED
      BY <3>1 DEF FromPool, n
  <2> HIDE DEF a
  <2> DEFINE kids == [s.kids EXCEPT ![d] = Append(@, n)]
  <2>3. Shape(kids, s.pdir, s.pfile) /\ Tree(kids, s.pdir, s.pfile) = T \cup {n}
    <3>1. Shape(s.kids, s.pdir, s.pfile) /\ n \in VNodes /\ Len(s.kids[d]) < MaxKids
          /\ n \notin Tree(s.kids, s.pdir, s.pfile)
      BY <1>3, <1>5, <2>2 DEF T
    <3>2. Shape(kids, s.pdir, s.pfile)
          /\ Tree(kids, s.pdir, s.pfile) = Tree(s.kids, s.pdir, s.pfile) \cup {n}
      <4>1. kids = [s.kids EXCEPT ![d] = Append(@, n)]
        OBVIOUS
      <4> HIDE DEF kids
      <4>2. Treed(kids, s.pdir, s.pfile, Tree(s.kids, s.pdir, s.pfile) \cup {n})
        BY <3>1, <4>1, HangKid, ZenonT(60)
      <4> QED
        BY <4>2 DEF Treed
    <3> QED
      BY <3>2 DEF T
  <2>4. kids \in [RamDirs -> Seq(VNodes)]
    BY <2>3 DEF Shape
  <2>5. new = [a EXCEPT !.kids = kids]
    BY <2>2 DEF new, Beside, States
  <2> HIDE DEF kids
  <2>6. new \in States /\ new.kids = kids /\ new.pdir = s.pdir /\ new.pfile = s.pfile
        /\ new.disk = s.disk /\ new.node = a.node /\ new.free = a.free /\ new.count = a.count
    BY <2>2, <2>4, <2>5 DEF States, Beside
  <2>7. Held(new, T \cup {n}, {})
    BY <2>2, <2>6, HangOne
  <2>8. Same(s.node, new.node)
    BY <2>2, <2>6 DEF Beside
  <2>9. Counted(new.node, fdt, NoNode) /\ (Careful => Saved(new.node, new.disk, last))
    BY <1>3, <2>6, <2>8, SameKeeps
  <2>10. Good(new, fdt, last, NoNode)
    BY <1>3, <2>3, <2>6, <2>7, <2>9, GoodParts
  <2>11. n \in Tree(new.kids, new.pdir, new.pfile)
    BY <2>3, <2>6
  <2>12. Good(vfs', fdt', last, NoNode)
    BY <1>5, <2>10, <2>11, OpenTreeGood
  <2> QED
    BY <1>1, <2>12
<1>6. CASE vfs' = s /\ fdt' = fdt
  BY <1>1, <1>6
<1>7. CASE /\ CanAlloc(s)
           /\ vfs' = FreeNode(Alloc(s, BlankNode), n) /\ fdt' = fdt
  <2> DEFINE b == Alloc(s, BlankNode)
             t == FreeNode(b, n)
  <2>1. b \in States /\ n \in VNodes /\ n \notin T /\ Beside(s, b) /\ Held(b, T, {n})
        /\ b.node[n] = BlankNode
    <3>1. FromPool(s, T, BlankNode)
      BY <1>3, <1>7, AllocBlank
    <3> QED
      BY <3>1 DEF FromPool, n
  <2> HIDE DEF b
  <2>2. t \in States /\ t.kids = b.kids /\ t.pdir = b.pdir /\ t.pfile = b.pfile
        /\ t.disk = b.disk /\ t.node = [b.node EXCEPT ![n] = BlankNode]
        /\ Pool(t.node, t.free, t.count, T, {})
    <3>1. Pool(b.node, b.free, b.count, T, {n})
      BY <2>1 DEF Held
    <3>2. GivenBack(b, t, n, T)
      BY <2>1, <3>1, GiveBack, ZenonT(60)
    <3> QED
      BY <3>2 DEF GivenBack
  <2> HIDE DEF t
  <2>4. t.node = b.node
    BY <2>1, <2>2, StateFacts
  <2>5. Same(s.node, t.node)
    BY <2>1, <2>4 DEF Beside
  <2>6. t.kids = s.kids /\ t.pdir = s.pdir /\ t.pfile = s.pfile /\ t.disk = s.disk
    BY <2>1, <2>2 DEF Beside
  <2>7. Held(t, Tree(t.kids, t.pdir, t.pfile), {})
    BY <2>2, <2>6 DEF Held, T
  <2>8. Counted(t.node, fdt, NoNode) /\ (Careful => Saved(t.node, t.disk, last))
    BY <1>3, <2>5, <2>6, SameKeeps
  <2>9. Good(t, fdt, last, NoNode)
    BY <1>3, <2>2, <2>6, <2>7, <2>8, GoodParts
  <2> QED
    BY <1>1, <1>7, <2>9 DEF t, b
<1> QED
  BY <1>2, <1>4, <1>5, <1>6, <1>7

\* vfs_open in /proc.
LEMMA OpenProcGood ==
  ASSUME Good(vfs, fdt, last, NoNode), NEW u \in Users, NEW v \in Users,
         NEW dir \in BOOLEAN, OpenProc(u, v, dir)
  PROVE  Good(vfs', fdt', last', NoNode)
<1> DEFINE s == Synced(vfs)
           n == IF dir THEN s.pdir[v] ELSE s.pfile[v]
<1>1. Good(s, fdt, last, NoNode) /\ last' = last
  BY SyncedGood DEF OpenProc
<1>2. IF n = NoNode THEN vfs' = s /\ fdt' = fdt ELSE GetsFd(u, WithAlias(s, n), n)
  BY DEF OpenProc
<1> HIDE DEF s
<1>3. Shape(s.kids, s.pdir, s.pfile)
  BY <1>1, GoodParts
<1>4. n # NoNode => n \in Tree(s.kids, s.pdir, s.pfile)
  BY <1>3, InTree
<1> HIDE DEF n
<1> QED
  BY <1>1, <1>2, <1>4, OpenTreeGood

\* A file of the disk gets a mirror, and is created if it was not there.
LEMMA OpenDiskGood ==
  ASSUME Good(vfs, fdt, last, NoNode), NEW u \in Users, NEW f \in DiskNames,
         NEW create \in BOOLEAN, NEW memory \in BOOLEAN, OpenDisk(u, f, create, memory)
  PROVE  Good(vfs', fdt', last', NoNode)
<1> DEFINE s == Synced(vfs)
           n == NextNode(s)
           was == s.disk[f]
           exists == was.text # NoFile
           file == IF exists THEN was ELSE Stored(was, EmptyText, TRUE)
           text == IF exists /\ memory THEN was.text ELSE EmptyText
           whole == exists => ~was.stale /\ (memory \/ was.text = EmptyText)
           disk == [s.disk EXCEPT ![f] = file]
           made == [s EXCEPT !.disk[f] = file]
           r == [BlankNode EXCEPT !.name = f, !.refs = 1, !.mirror = TRUE, !.text = text,
                                  !.whole = whole]
           t == Alloc(made, r)
           T == Tree(s.kids, s.pdir, s.pfile)
<1>1. Good(s, fdt, last, NoNode)
  BY SyncedGood
<1>2. /\ OpensTwice \/ Mirrors(s, f) = {}
      /\ \/ /\ CanAlloc(s) /\ GetsFd(u, t, n)
            /\ last' = [last EXCEPT ![f] = IF exists THEN @ ELSE EmptyText]
         \/ vfs' = s /\ fdt' = fdt /\ last' = last
  BY DEF OpenDisk
<1>3. CanAlloc(made) = CanAlloc(s) /\ NextNode(made) = n
  <2>1. s \in States
    BY <1>1, GoodParts
  <2> HIDE DEF s, file
  <2>2. made.free = s.free /\ made.count = s.count
    BY <2>1 DEF States
  <2> HIDE DEF made
  <2> QED
    BY <2>2 DEF CanAlloc, NextNode
<1> HIDE DEF s, n
<1>4. s \in States /\ fdt \in Handles /\ last \in [DiskNames -> Contents \cup {NoFile}]
      /\ Shape(s.kids, s.pdir, s.pfile) /\ Held(s, T, {}) /\ Counted(s.node, fdt, NoNode)
      /\ (Careful => Saved(s.node, s.disk, last))
  BY <1>1, GoodParts
<1>5. s.node \in [VNodes -> NodeType] /\ s.disk \in [DiskNames -> FileType]
  BY <1>4, StateFacts
<1>6. was \in FileType /\ text \in Contents /\ whole \in BOOLEAN /\ exists \in BOOLEAN
  <2>1. was \in FileType
    BY <1>5
  <2> HIDE DEF was
  <2> QED
    BY <2>1 DEF FileType, Contents
<1> HIDE DEF was
<1>7. r \in NodeType /\ r.refs = 1 /\ r.mirror = TRUE /\ r.orphaned = FALSE /\ r.dirty = FALSE
      /\ r.name = f /\ r.text = text /\ r.whole = whole
  <2> HIDE DEF text, whole
  <2> QED
    BY <1>6 DEF NodeType, BlankNode
<1>8. disk \in [DiskNames -> FileType] /\ disk[f] = file
      /\ \A e \in DiskNames : e # f => disk[e] = s.disk[e]
  <2>1. EmptyText \in Contents
    BY DEF Contents
  <2>2. file \in FileType
    BY <1>6, <2>1, StoredFacts
  <2> HIDE DEF file
  <2> QED
    BY <1>5, <2>2
<1>9. made = [s EXCEPT !.disk = disk]
  <2> HIDE DEF file
  <2> QED
    BY <1>4 DEF States
<1> HIDE DEF r, made, disk, T, exists
<1>10. made \in States /\ made.node = s.node /\ made.free = s.free /\ made.count = s.count
       /\ made.kids = s.kids /\ made.pdir = s.pdir /\ made.pfile = s.pfile /\ made.disk = disk
  BY <1>4, <1>8, <1>9 DEF States
<1>11. CASE /\ CanAlloc(s) /\ GetsFd(u, t, n)
            /\ last' = [last EXCEPT ![f] = IF exists THEN @ ELSE EmptyText]
  <2>1. NodeOk(r) /\ Adrift(r)
    BY <1>7 DEF NodeOk, Adrift
  <2>2. Pool(made.node, made.free, made.count, T, {})
    BY <1>4, <1>10 DEF Held
  <2>3. /\ t \in States /\ t.kids = made.kids /\ t.pdir = made.pdir /\ t.pfile = made.pfile
        /\ t.disk = made.disk /\ t.node = [made.node EXCEPT ![NextNode(made)] = r]
        /\ NextNode(made) \in VNodes /\ NextNode(made) \notin T /\ NextNode(made) \notin {}
        /\ made.node[NextNode(made)] = BlankNode
        /\ Pool(t.node, t.free, t.count, T, IF Adrift(r) THEN {} ELSE {} \cup {NextNode(made)})
    BY <1>3, <1>7, <1>10, <1>11, <2>1, <2>2, AllocPool
  <2> HIDE DEF t
  <2>4. /\ t \in States /\ t.kids = s.kids /\ t.pdir = s.pdir /\ t.pfile = s.pfile
        /\ t.disk = disk /\ t.node = [s.node EXCEPT ![n] = r]
        /\ n \in VNodes /\ s.node[n] = BlankNode /\ Pool(t.node, t.free, t.count, T, {})
    BY <1>3, <1>10, <2>1, <2>3
  <2>5. t.node[n] = r /\ \A m \in VNodes : m # n => t.node[m] = s.node[m]
    BY <1>5, <2>4
  <2>6. Counted(t.node, fdt, n)
    <3>1. ASSUME NEW m \in VNodes
          PROVE  t.node[m].refs = Cardinality(Holders(fdt, m)) + (IF m = n THEN 1 ELSE 0)
      <4>1. s.node[m].refs = Cardinality(Holders(fdt, m)) + 0
            /\ Cardinality(Holders(fdt, m)) \in Nat
        BY <1>4, NoNodeFacts, HoldersFinite DEF Counted
      <4>2. CASE m = n
        <5>1. s.node[m].refs = 0 /\ t.node[m].refs = 1
          BY <1>7, <2>4, <2>5, <4>2, BlankFacts
        <5> QED
          BY <4>1, <4>2, <5>1
      <4>3. CASE m # n
        BY <2>5, <4>1, <4>3
      <4> QED
        BY <4>2, <4>3
    <3> QED
      BY <3>1 DEF Counted
  <2>7. last' \in [DiskNames -> Contents \cup {NoFile}]
        /\ (\A e \in DiskNames : e # f => last'[e] = last[e])
        /\ last'[f] = IF exists THEN last[f] ELSE EmptyText
    BY <1>4, <1>11 DEF Contents
  <2>8. ASSUME Careful PROVE Saved(t.node, disk, last')
    <3>1. Saved(s.node, s.disk, last) /\ Mirrors(s, f) = {}
      BY <1>2, <1>4, <2>8 DEF Careful
    <3>2. \A m \in VNodes : s.node[m].mirror => s.node[m].name # f
      BY <3>1 DEF Mirrors
    <3>3. Says(s.disk[f], last[f])
      BY <3>1, <3>2 DEF Saved
    <3>4. (whole => text = last'[f]) /\ Says(disk[f], last'[f])
      <4>1. CASE exists
        <5>1. last'[f] = last[f] /\ file = was /\ Says(was, last[f])
          BY <2>7, <3>3, <4>1 DEF was
        <5>2. whole => ~was.stale /\ was.text = last[f] /\ text = was.text
          BY <4>1, <5>1 DEF Says
        <5> QED
          BY <1>8, <5>1, <5>2
      <4>2. CASE ~exists
        <5>1. last'[f] = EmptyText /\ text = EmptyText /\ file = Stored(was, EmptyText, TRUE)
          BY <2>7, <4>2
        <5>2. EmptyText \in Contents
          BY DEF Contents
        <5>3. Says(file, EmptyText)
          BY <1>6, <5>1, <5>2, StoredFacts
        <5> QED
          BY <1>8, <5>1, <5>3
      <4> QED
        BY <4>1, <4>2
    <3> HIDE DEF text, whole
    <3>5. ASSUME NEW m \in VNodes, t.node[m].mirror
          PROVE  /\ Agrees(t.node[m], last'[t.node[m].name])
                 /\ t.node[m].dirty \/ Says(disk[t.node[m].name], last'[t.node[m].name])
      <4>1. CASE m = n
        BY <1>7, <2>5, <3>4, <4>1 DEF Agrees
      <4>2. CASE m # n
        <5>1. t.node[m] = s.node[m]
          BY <2>5, <4>2
        <5>2. s.node[m].name \in DiskNames /\ s.node[m].name # f
          <6>1. NodeOk(s.node[m])
            BY <1>4 DEF Held, Pool
          <6> QED
            BY <3>2, <3>5, <5>1, <6>1 DEF NodeOk
        <5>3. Agrees(s.node[m], last[s.node[m].name])
              /\ (s.node[m].dirty \/ Says(s.disk[s.node[m].name], last[s.node[m].name]))
          BY <3>1, <3>5, <5>1 DEF Saved
        <5> QED
          BY <1>8, <2>7, <5>1, <5>2, <5>3
      <4> QED
        BY <4>1, <4>2
    <3>6. ASSUME NEW m \in VNodes, NEW o \in VNodes, t.node[m].mirror, t.node[o].mirror,
                 t.node[m].name = t.node[o].name
          PROVE  m = o
      <4>1. CASE m # n /\ o # n
        <5>1. t.node[m] = s.node[m] /\ t.node[o] = s.node[o]
          BY <2>5, <4>1
        <5> QED
          BY <3>1, <3>6, <5>1 DEF Saved
      <4>2. CASE m = n /\ o # n
        <5>1. t.node[m].name = f /\ t.node[o] = s.node[o]
          BY <1>7, <2>5, <4>2
        <5> QED
          BY <3>2, <3>6, <5>1
      <4>3. CASE m # n /\ o = n
        <5>1. t.node[o].name = f /\ t.node[m] = s.node[m]
          BY <1>7, <2>5, <4>3
        <5> QED
          BY <3>2, <3>6, <5>1
      <4> QED
        BY <4>1, <4>2, <4>3
    <3>7. ASSUME NEW e \in DiskNames, \A m \in VNodes : ~(t.node[m].mirror /\ t.node[m].name = e)
          PROVE  Says(disk[e], last'[e])
      <4>1. CASE e = f
        BY <3>4, <4>1
      <4>2. CASE e # f
        <5>1. s.node[n].mirror = FALSE
          BY <2>4, BlankFacts
        <5>2. \A m \in VNodes : ~(s.node[m].mirror /\ s.node[m].name = e)
          BY <2>5, <3>7, <5>1
        <5>3. Says(s.disk[e], last[e])
          BY <3>1, <5>2 DEF Saved
        <5> QED
          BY <1>8, <2>7, <4>2, <5>3
      <4> QED
        BY <4>1, <4>2
    <3> QED
      BY <3>5, <3>6, <3>7 DEF Saved
  <2>9. Held(t, Tree(t.kids, t.pdir, t.pfile), {})
    BY <2>4 DEF Held, T
  <2>10. Good(t, fdt, last', n)
    BY <1>4, <2>4, <2>6, <2>7, <2>8, <2>9, GoodParts
  <2> QED
    BY <1>11, <2>4, <2>10, GetsGood
<1>12. CASE vfs' = s /\ fdt' = fdt /\ last' = last
  BY <1>1, <1>12
<1> QED
  BY <1>2, <1>11, <1>12

\* A write through a mirror marks it.
LEMMA MarkGood ==
  ASSUME Good(vfs, fdt, last, NoNode), NEW n \in VNodes, vfs.node[n].mirror,
         NEW text \in Contents, NEW whole \in BOOLEAN, NEW x \in Contents \cup {NoFile},
         whole => text = x \/ (~Careful), NEW name, name = vfs.node[n].name,
         NEW r, r = [vfs.node[n] EXCEPT !.text = text, !.dirty = TRUE, !.whole = whole],
         vfs' = [vfs EXCEPT !.node = [vfs.node EXCEPT ![n] = r]],
         last' = [last EXCEPT ![name] = x], fdt' = fdt
  PROVE  Good(vfs', fdt', last', NoNode)
<1> DEFINE node == [vfs.node EXCEPT ![n] = r]
           T == Tree(vfs.kids, vfs.pdir, vfs.pfile)
<1>2. vfs \in States /\ fdt \in Handles /\ last \in [DiskNames -> Contents \cup {NoFile}]
      /\ Shape(vfs.kids, vfs.pdir, vfs.pfile) /\ Held(vfs, T, {}) /\ Counted(vfs.node, fdt, NoNode)
      /\ (Careful => Saved(vfs.node, vfs.disk, last))
  BY GoodParts
<1> HIDE DEF T
<1>3. vfs.node \in [VNodes -> NodeType] /\ vfs.count \in 0..NNodes
  BY <1>2, StateFacts
<1>4. vfs.node[n] \in NodeType
  BY <1>3
<1>5. NodeOk(vfs.node[n]) /\ Pool(vfs.node, vfs.free, vfs.count, T, {})
  BY <1>2, <1>4 DEF Held, Pool
<1>6. name \in DiskNames
  BY <1>5 DEF NodeOk
<1>7. r \in NodeType /\ r.mirror = vfs.node[n].mirror /\ r.orphaned = vfs.node[n].orphaned
      /\ r.refs = vfs.node[n].refs /\ r.name = name /\ r.text = text /\ r.dirty = TRUE
      /\ r.whole = whole
  BY <1>4 DEF NodeType
<1>8. vfs' = [vfs EXCEPT !.node = node]
  OBVIOUS
<1>9. node \in [VNodes -> NodeType] /\ node[n] = r
      /\ \A m \in VNodes : m # n => node[m] = vfs.node[m]
  BY <1>3, <1>4, <1>7
<1>10. Pool(node, vfs.free, vfs.count, T, {})
  <2>1. NodeOk(r) /\ (Adrift(r) <=> Adrift(vfs.node[n]))
    BY <1>5, <1>7 DEF NodeOk, Adrift
  <2>2. vfs.node[n] # BlankNode
    BY BlankFacts
  <2> QED
    BY <1>3, <1>4, <1>5, <1>7, <2>1, <2>2, KeepPool
<1> HIDE DEF node
<1>11. vfs' \in States /\ vfs'.node = node /\ vfs'.free = vfs.free /\ vfs'.count = vfs.count
       /\ vfs'.kids = vfs.kids /\ vfs'.pdir = vfs.pdir /\ vfs'.pfile = vfs.pfile
       /\ vfs'.disk = vfs.disk
  BY <1>2, <1>8, <1>9 DEF States
<1>12. last' \in [DiskNames -> Contents \cup {NoFile}] /\ last'[name] = x
       /\ \A e \in DiskNames : e # name => last'[e] = last[e]
  BY <1>2, <1>6
<1>13. Counted(node, fdt, NoNode)
  <2>1. \A m \in VNodes : node[m].refs = vfs.node[m].refs
    BY <1>7, <1>9
  <2> QED
    BY <1>2, <2>1 DEF Counted
<1>14. ASSUME Careful PROVE Saved(node, vfs.disk, last')
  <2>1. Saved(vfs.node, vfs.disk, last)
    BY <1>2, <1>14
  <2>2. \A m \in VNodes : node[m].mirror = vfs.node[m].mirror /\ node[m].name = vfs.node[m].name
    BY <1>7, <1>9
  <2>3. \A m \in VNodes : vfs.node[m].mirror /\ m # n => vfs.node[m].name # name
    BY <1>4, <2>1 DEF Saved
  <2>4. ASSUME NEW m \in VNodes, node[m].mirror
        PROVE  /\ Agrees(node[m], last'[node[m].name])
               /\ node[m].dirty \/ Says(vfs.disk[node[m].name], last'[node[m].name])
    <3>1. CASE m = n
      <4>1. node[m] = r
        BY <1>9, <3>1
      <4>2. r.name = name /\ r.text = text /\ r.dirty = TRUE /\ r.whole = whole
        BY <1>7
      <4>3. whole => text = x
        BY <1>14
      <4>4. Agrees(r, x)
        BY <4>2, <4>3 DEF Agrees
      <4>5. last'[node[m].name] = x /\ node[m].dirty
        BY <1>12, <4>1, <4>2
      <4> QED
        BY <4>1, <4>4, <4>5
    <3>2. CASE m # n
      <4>1. node[m] = vfs.node[m] /\ vfs.node[m].mirror /\ vfs.node[m].name # name
        BY <1>9, <2>2, <2>3, <2>4, <3>2
      <4>2. vfs.node[m].name \in DiskNames
        <5>1. NodeOk(vfs.node[m])
          BY <1>5 DEF Pool
        <5> QED
          BY <4>1, <5>1 DEF NodeOk
      <4>3. Agrees(vfs.node[m], last[vfs.node[m].name])
            /\ (vfs.node[m].dirty \/ Says(vfs.disk[vfs.node[m].name], last[vfs.node[m].name]))
        BY <2>1, <4>1 DEF Saved
      <4> QED
        BY <1>12, <4>1, <4>2, <4>3
    <3> QED
      BY <3>1, <3>2
  <2>5. \A m, o \in VNodes : node[m].mirror /\ node[o].mirror /\ node[m].name = node[o].name => m = o
    BY <2>1, <2>2 DEF Saved
  <2>6. ASSUME NEW e \in DiskNames, \A m \in VNodes : ~(node[m].mirror /\ node[m].name = e)
        PROVE  Says(vfs.disk[e], last'[e])
    <3>1. \A m \in VNodes : ~(vfs.node[m].mirror /\ vfs.node[m].name = e)
      BY <2>2, <2>6
    <3>2. Says(vfs.disk[e], last[e]) /\ e # name
      BY <1>4, <2>1, <3>1 DEF Saved
    <3> QED
      BY <1>12, <3>2
  <2> QED
    BY <2>4, <2>5, <2>6 DEF Saved
<1>15. Held(vfs', Tree(vfs'.kids, vfs'.pdir, vfs'.pfile), {})
  BY <1>10, <1>11 DEF Held, T
<1>16. Shape(vfs'.kids, vfs'.pdir, vfs'.pfile) /\ Counted(vfs'.node, fdt, NoNode)
       /\ (Careful => Saved(vfs'.node, vfs'.disk, last'))
  BY <1>2, <1>11, <1>13, <1>14
<1>17. Good(vfs', fdt, last', NoNode)
  BY <1>2, <1>11, <1>12, <1>15, <1>16, GoodParts
<1> QED
  BY <1>17

\* vfs_pwrite of the whole text.
LEMMA WriteGood ==
  ASSUME Good(vfs, fdt, last, NoNode), NEW u \in Users, NEW i \in Fds, NEW x \in Texts,
         WriteText(u, i, x)
  PROVE  Good(vfs', fdt', last', NoNode)
<1> DEFINE n == fdt[u][i]
           name == vfs.node[n].name
           r == [vfs.node[n] EXCEPT !.text = x, !.dirty = TRUE, !.whole = TRUE]
<1>1. /\ n # NoNode /\ vfs.node[n].mirror
      /\ vfs' = [vfs EXCEPT !.node[n].text = x, !.node[n].dirty = TRUE, !.node[n].whole = TRUE]
      /\ last' = [last EXCEPT ![name] = x] /\ fdt' = fdt
  BY DEF WriteText
<1>2. vfs \in States /\ fdt \in Handles
  BY GoodParts
<1>3. vfs.node \in [VNodes -> NodeType]
  BY <1>2, StateFacts
<1>4. n \in VNodes
  BY <1>1, <1>2 DEF Handles
<1> HIDE DEF n
<1>5. vfs' = [vfs EXCEPT !.node = [vfs.node EXCEPT ![n] = r]]
  BY <1>1, <1>2, <1>3, <1>4 DEF States
<1>6. x \in Contents
  BY DEF Contents
<1> DEFINE whole == TRUE
           y == x
<1>7. r = [vfs.node[n] EXCEPT !.text = x, !.dirty = TRUE, !.whole = whole]
  OBVIOUS
<1>8. vfs.node[n].mirror /\ last' = [last EXCEPT ![name] = y] /\ fdt' = fdt
  BY <1>1
<1>9. name = vfs.node[n].name /\ whole \in BOOLEAN /\ (whole => x = y \/ ~Careful)
      /\ y \in Contents \cup {NoFile}
  BY <1>6
<1> HIDE DEF r, name, whole, y
<1> QED
  BY <1>4, <1>5, <1>6, <1>7, <1>8, <1>9, MarkGood

\* ... of a part of it.
LEMMA PartGood ==
  ASSUME Good(vfs, fdt, last, NoNode), NEW u \in Users, NEW i \in Fds, WritePart(u, i)
  PROVE  Good(vfs', fdt', last', NoNode)
<1> DEFINE n == fdt[u][i]
           name == vfs.node[n].name
           text == vfs.node[n].text
           whole == vfs.node[n].whole
           x == last[name]
           r == [vfs.node[n] EXCEPT !.text = text, !.dirty = TRUE, !.whole = whole]
<1>1. /\ n # NoNode /\ vfs.node[n].mirror
      /\ vfs' = [vfs EXCEPT !.node[n].dirty = TRUE] /\ last' = last /\ fdt' = fdt
  BY DEF WritePart
<1>2. vfs \in States /\ fdt \in Handles /\ last \in [DiskNames -> Contents \cup {NoFile}]
      /\ Held(vfs, Tree(vfs.kids, vfs.pdir, vfs.pfile), {})
      /\ (Careful => Saved(vfs.node, vfs.disk, last))
  BY GoodParts
<1>3. vfs.node \in [VNodes -> NodeType]
  BY <1>2, StateFacts
<1>4. n \in VNodes
  BY <1>1, <1>2 DEF Handles
<1> HIDE DEF n
<1>5. vfs.node[n] \in NodeType /\ NodeOk(vfs.node[n])
  BY <1>2, <1>3, <1>4 DEF Held, Pool
<1>6. text \in Contents /\ whole \in BOOLEAN /\ name \in DiskNames
  BY <1>1, <1>5 DEF NodeType, NodeOk
<1>7. [vfs.node[n] EXCEPT !.dirty = TRUE] = r
  BY <1>5 DEF NodeType
<1>8. vfs' = [vfs EXCEPT !.node = [vfs.node EXCEPT ![n] = r]]
  <2> HIDE DEF r
  <2> QED
    BY <1>1, <1>2, <1>3, <1>4, <1>7 DEF States
<1>9. x \in Contents \cup {NoFile} /\ last' = [last EXCEPT ![name] = x]
  <2> HIDE DEF name
  <2> QED
    BY <1>1, <1>2, <1>6
<1>10. whole => text = x \/ (~Careful)
  BY <1>1, <1>2, <1>4 DEF Saved, Agrees
<1>11. r = [vfs.node[n] EXCEPT !.text = text, !.dirty = TRUE, !.whole = whole]
       /\ name = vfs.node[n].name
  OBVIOUS
<1>12. vfs.node[n].mirror /\ fdt' = fdt
  BY <1>1
<1> HIDE DEF r, name, text, whole, x
<1> QED
  BY <1>12, <1>4, <1>6, <1>8, <1>9, <1>10, <1>11, MarkGood

\* SYS_CLOSE.
LEMMA CloseFdGood ==
  ASSUME Good(vfs, fdt, last, NoNode), NEW u \in Users, NEW i \in Fds, CloseFd(u, i)
  PROVE  Good(vfs', fdt', last', NoNode)
<1>1. fdt[u][i] # NoNode /\ vfs' = CloseNode(vfs, fdt[u][i])
      /\ fdt' = [fdt EXCEPT ![u][i] = NoNode] /\ last' = last
  BY DEF CloseFd
<1>2. Good(vfs, [fdt EXCEPT ![u][i] = NoNode], last, fdt[u][i]) /\ fdt[u][i] \in VNodes
  BY <1>1, TakeHandle
<1>3. Good(CloseNode(vfs, fdt[u][i]), [fdt EXCEPT ![u][i] = NoNode], last, NoNode)
  BY <1>2, CloseGood
<1> QED
  BY <1>1, <1>3

\* SYS_DUP.
LEMMA DupFdGood ==
  ASSUME Good(vfs, fdt, last, NoNode), NEW u \in Users, NEW i \in Fds, DupFd(u, i)
  PROVE  Good(vfs', fdt', last', NoNode)
<1> DEFINE n == fdt[u][i]
           j == FirstOf(Fds \ OpenFds(u))
<1>1. n # NoNode /\ OpenFds(u) # Fds /\ fdt' = [fdt EXCEPT ![u][j] = n]
      /\ vfs' = WithAlias(vfs, n) /\ last' = last
  BY DEF DupFd
<1>2. n \in VNodes /\ vfs.node[n].refs > 0
  BY <1>1, TakeHandle
<1>3. j \in Fds /\ fdt[u][j] = NoNode
  BY <1>1, FirstFree
<1> HIDE DEF n, j
<1>4. Good(WithAlias(vfs, n), fdt, last, n)
  BY <1>2, AliasGood
<1>5. Good(WithAlias(vfs, n), [fdt EXCEPT ![u][j] = n], last, NoNode)
  BY <1>2, <1>3, <1>4, GiveHandle
<1> QED
  BY <1>1, <1>5

\* SYS_DUP2: the old handle of the second descriptor is closed, and the first is moved there.
LEMMA Dup2FdGood ==
  ASSUME Good(vfs, fdt, last, NoNode), NEW u \in Users, NEW i \in Fds, NEW j \in Fds, Dup2Fd(u, i, j)
  PROVE  Good(vfs', fdt', last', NoNode)
<1> DEFINE n == fdt[u][i]
           g == [fdt EXCEPT ![u][j] = NoNode]
           h == [g EXCEPT ![u][i] = NoNode]
<1>1. /\ i # j /\ n # NoNode
      /\ vfs' = IF fdt[u][j] = NoNode THEN vfs ELSE CloseNode(vfs, fdt[u][j])
      /\ fdt' = [fdt EXCEPT ![u][j] = n, ![u][i] = NoNode] /\ last' = last
  BY DEF Dup2Fd
<1>2. fdt \in Handles
  BY GoodParts
<1>3. Good(vfs', g, last, NoNode)
  <2>1. CASE fdt[u][j] = NoNode
    <3>1. g = fdt
      BY <1>2, <2>1 DEF Handles
    <3> QED
      BY <1>1, <2>1, <3>1
  <2>2. CASE fdt[u][j] # NoNode
    <3>1. Good(vfs, g, last, fdt[u][j]) /\ fdt[u][j] \in VNodes
      BY <2>2, TakeHandle
    <3> HIDE DEF g
    <3> QED
      BY <1>1, <2>2, <3>1, CloseGood
  <2> QED
    BY <2>1, <2>2
<1>4. g[u][i] = n
  BY <1>1, <1>2 DEF Handles
<1>5. h[u][j] = NoNode
  BY <1>1, <1>2 DEF Handles
<1>6. [h EXCEPT ![u][j] = n] = fdt'
  <2>1. [h EXCEPT ![u][j] = n] \in [Users -> [Fds -> VNodes \cup {NoNode, n}]]
        /\ fdt' \in [Users -> [Fds -> VNodes \cup {NoNode, n}]]
    BY <1>1, <1>2 DEF Handles
  <2>2. ASSUME NEW v \in Users, NEW k \in Fds
        PROVE  [h EXCEPT ![u][j] = n][v][k] = fdt'[v][k]
    BY <1>1, <1>2 DEF Handles
  <2> HIDE DEF h, n
  <2> QED
    BY <2>1, <2>2
<1> HIDE DEF g, n
<1>7. Good(vfs', h, last, n) /\ n \in VNodes
  BY <1>1, <1>3, <1>4, TakeHandle
<1> HIDE DEF h
<1>8. Good(vfs', [h EXCEPT ![u][j] = n], last, NoNode)
  BY <1>5, <1>7, GiveHandle
<1> QED
  BY <1>1, <1>6, <1>8

\* vfs_unlink in the ramdisk.
LEMMA UnlinkRamGood ==
  ASSUME Good(vfs, fdt, last, NoNode), NEW d \in RamDirs, NEW f \in RamNames, UnlinkRam(d, f)
  PROVE  Good(vfs', fdt', last', NoNode)
<1> DEFINE i == FirstOf(NamedBy(vfs, d, f))
           kids == [vfs.kids EXCEPT ![d] = RemoveAt(@, i)]
           c == [vfs EXCEPT !.kids[d] = RemoveAt(@, i)]
           n == vfs.kids[d][i]
<1>1. NamedBy(vfs, d, f) # {} /\ vfs' = ReleaseNode(c, n) /\ fdt' = fdt /\ last' = last
  BY DEF UnlinkRam
<1>2. vfs \in States /\ Shape(vfs.kids, vfs.pdir, vfs.pfile)
  BY GoodParts
<1>3. i \in 1..Len(vfs.kids[d])
  BY <1>1, <1>2, FirstNamed
<1> HIDE DEF i
<1>4. n \in Tree(vfs.kids, vfs.pdir, vfs.pfile)
  BY <1>2, <1>3, InTree
<1>5. Shape(kids, vfs.pdir, vfs.pfile)
      /\ Tree(kids, vfs.pdir, vfs.pfile) = Tree(vfs.kids, vfs.pdir, vfs.pfile) \ {n}
  BY <1>2, <1>3, CutKid
<1>6. kids \in [RamDirs -> Seq(VNodes)]
  BY <1>5 DEF Shape
<1>7. c = [vfs EXCEPT !.kids = kids]
  BY <1>2 DEF States
<1> HIDE DEF kids, c, n
<1>8. c \in States /\ c.kids = kids /\ c.pdir = vfs.pdir /\ c.pfile = vfs.pfile
      /\ c.disk = vfs.disk /\ c.node = vfs.node /\ c.free = vfs.free /\ c.count = vfs.count
  BY <1>2, <1>6, <1>7 DEF States
<1>9. Shape(c.kids, c.pdir, c.pfile)
      /\ Tree(c.kids, c.pdir, c.pfile) = Tree(vfs.kids, vfs.pdir, vfs.pfile) \ {n}
  BY <1>5, <1>8
<1>10. Good(ReleaseNode(c, n), fdt, last, NoNode)
  BY <1>4, <1>8, <1>9, UnlinkGood
<1> QED
  BY <1>1, <1>10

\* ... and in /proc.
LEMMA UnlinkProcGood ==
  ASSUME Good(vfs, fdt, last, NoNode), NEW v \in Users, UnlinkProc(v)
  PROVE  Good(vfs', fdt', last', NoNode)
<1>1. vfs \in States /\ Shape(vfs.kids, vfs.pdir, vfs.pfile)
  BY GoodParts
<1>2. vfs.pdir[v] # NoNode /\ fdt' = fdt /\ last' = last
      /\ vfs' = IF vfs.pfile[v] # NoNode
                THEN ReleaseNode([vfs EXCEPT !.pfile[v] = NoNode], vfs.pfile[v])
                ELSE ReleaseNode([vfs EXCEPT !.pdir[v] = NoNode], vfs.pdir[v])
  BY DEF UnlinkProc
<1>3. CASE vfs.pfile[v] # NoNode
  <2> DEFINE n == vfs.pfile[v]
             pfile == [vfs.pfile EXCEPT ![v] = NoNode]
             c == [vfs EXCEPT !.pfile[v] = NoNode]
  <2>1. n \in Tree(vfs.kids, vfs.pdir, vfs.pfile)
    BY <1>1, <1>3, InTree
  <2>2. Shape(vfs.kids, vfs.pdir, pfile)
        /\ Tree(vfs.kids, vfs.pdir, pfile) = Tree(vfs.kids, vfs.pdir, vfs.pfile) \ {n}
    BY <1>1, CutFile
  <2>3. c = [vfs EXCEPT !.pfile = pfile] /\ pfile \in [Users -> VNodes \cup {NoNode}]
    BY <1>1, <2>2 DEF States, Shape
  <2> HIDE DEF n, pfile, c
  <2>4. c \in States /\ c.kids = vfs.kids /\ c.pdir = vfs.pdir /\ c.pfile = pfile
        /\ c.disk = vfs.disk /\ c.node = vfs.node /\ c.free = vfs.free /\ c.count = vfs.count
    BY <1>1, <2>3 DEF States
  <2>5. Shape(c.kids, c.pdir, c.pfile)
        /\ Tree(c.kids, c.pdir, c.pfile) = Tree(vfs.kids, vfs.pdir, vfs.pfile) \ {n}
    BY <2>2, <2>4
  <2>6. Good(ReleaseNode(c, n), fdt, last, NoNode)
    BY <2>1, <2>4, <2>5, UnlinkGood
  <2> QED
    BY <1>2, <1>3, <2>6 DEF c, n
<1>4. CASE vfs.pfile[v] = NoNode
  <2> DEFINE n == vfs.pdir[v]
             pdir == [vfs.pdir EXCEPT ![v] = NoNode]
             c == [vfs EXCEPT !.pdir[v] = NoNode]
  <2>1. n \in Tree(vfs.kids, vfs.pdir, vfs.pfile)
    BY <1>1, <1>2, InTree
  <2>2. Shape(vfs.kids, pdir, vfs.pfile)
        /\ Tree(vfs.kids, pdir, vfs.pfile) = Tree(vfs.kids, vfs.pdir, vfs.pfile) \ {n}
    BY <1>1, <1>4, CutDir
  <2>3. c = [vfs EXCEPT !.pdir = pdir] /\ pdir \in [Users -> VNodes \cup {NoNode}]
    BY <1>1, <2>2 DEF States, Shape
  <2> HIDE DEF n, pdir, c
  <2>4. c \in States /\ c.kids = vfs.kids /\ c.pdir = pdir /\ c.pfile = vfs.pfile
        /\ c.disk = vfs.disk /\ c.node = vfs.node /\ c.free = vfs.free /\ c.count = vfs.count
    BY <1>1, <2>3 DEF States
  <2>5. Shape(c.kids, c.pdir, c.pfile)
        /\ Tree(c.kids, c.pdir, c.pfile) = Tree(vfs.kids, vfs.pdir, vfs.pfile) \ {n}
    BY <2>2, <2>4
  <2>6. Good(ReleaseNode(c, n), fdt, last, NoNode)
    BY <2>1, <2>4, <2>5, UnlinkGood
  <2> QED
    BY <1>2, <1>4, <2>6 DEF c, n
<1> QED
  BY <1>3, <1>4

\* vfs_rename in the ramdisk leaves the node in the tree.
LEMMA RenameRamGood ==
  ASSUME Good(vfs, fdt, last, NoNode), NEW d \in RamDirs, NEW f \in RamNames,
         NEW e \in RamDirs, NEW g \in RamNames, RenameRam(d, f, e, g)
  PROVE  Good(vfs', fdt', last', NoNode)
<1> DEFINE i == FirstOf(NamedBy(vfs, d, f))
           n == vfs.kids[d][i]
           r == [vfs.node[n] EXCEPT !.name = g]
           node == [vfs.node EXCEPT ![n] = r]
           cut == [vfs.kids EXCEPT ![d] = RemoveAt(@, i)]
           moved == [cut EXCEPT ![e] = Append(@, n)]
           kids == IF d = e THEN vfs.kids ELSE moved
           T == Tree(vfs.kids, vfs.pdir, vfs.pfile)
<1>1. /\ NamedBy(vfs, d, f) # {} /\ (d # e => Len(vfs.kids[e]) < MaxKids)
      /\ vfs' = [vfs EXCEPT !.node[n].name = g,
                            !.kids[d] = IF d = e THEN @ ELSE RemoveAt(@, i),
                            !.kids[e] = IF d = e THEN @ ELSE Append(@, n)]
      /\ fdt' = fdt /\ last' = last
  BY DEF RenameRam
<1>2. vfs \in States /\ fdt \in Handles /\ last \in [DiskNames -> Contents \cup {NoFile}]
      /\ Shape(vfs.kids, vfs.pdir, vfs.pfile) /\ Held(vfs, T, {}) /\ Counted(vfs.node, fdt, NoNode)
      /\ (Careful => Saved(vfs.node, vfs.disk, last))
  BY GoodParts
<1>3. i \in 1..Len(vfs.kids[d])
  BY <1>1, <1>2, FirstNamed
<1> HIDE DEF i
<1>4. n \in T /\ n \in VNodes
  BY <1>2, <1>3, InTree
<1>5. vfs.node \in [VNodes -> NodeType] /\ vfs.count \in 0..NNodes
      /\ vfs.kids \in [RamDirs -> Seq(VNodes)] /\ vfs.node[n] \in NodeType
  BY <1>2, <1>4, StateFacts
<1>6. Treed(kids, vfs.pdir, vfs.pfile, T)
  <2>1. CASE d = e
    BY <1>2, <2>1 DEF Treed
  <2>2. CASE d # e
    <3>1. Shape(cut, vfs.pdir, vfs.pfile) /\ Tree(cut, vfs.pdir, vfs.pfile) = T \ {n}
      BY <1>2, <1>3, CutKid
    <3>2. cut[e] = vfs.kids[e] /\ n \notin T \ {n}
      BY <1>5, <2>2
    <3>3. moved = [cut EXCEPT ![e] = Append(@, n)]
      OBVIOUS
    <3> HIDE DEF cut, moved, n, T
    <3>4. Len(cut[e]) < MaxKids /\ n \notin Tree(cut, vfs.pdir, vfs.pfile)
      BY <1>1, <2>2, <3>1, <3>2
    <3>5. Treed(moved, vfs.pdir, vfs.pfile, Tree(cut, vfs.pdir, vfs.pfile) \cup {n})
      BY <1>4, <3>1, <3>3, <3>4, HangKid, ZenonT(60)
    <3>6. (T \ {n}) \cup {n} = T
      BY <1>4
    <3> QED
      BY <2>2, <3>1, <3>5, <3>6
  <2> QED
    BY <2>1, <2>2
<1>7. ~Adrift(vfs.node[n]) /\ NodeOk(vfs.node[n]) /\ Pool(vfs.node, vfs.free, vfs.count, T, {})
  BY <1>2, <1>4 DEF Held, Pool
<1>8. r \in NodeType /\ r.mirror = vfs.node[n].mirror /\ r.orphaned = vfs.node[n].orphaned
      /\ r.refs = vfs.node[n].refs /\ r.dirty = vfs.node[n].dirty
  BY <1>5 DEF NodeType
<1>9. vfs' = [vfs EXCEPT !.node = node, !.kids = kids]
  <2> DEFINE named == [vfs EXCEPT !.node[n].name = g]
  <2>1. vfs' = [[named EXCEPT !.kids[d] = IF d = e THEN @ ELSE RemoveAt(@, i)]
                  EXCEPT !.kids[e] = IF d = e THEN @ ELSE Append(@, n)]
    BY <1>1
  <2>2. named = [vfs EXCEPT !.node = node]
    BY <1>2, <1>5 DEF States
  <2> HIDE DEF named, node, n
  <2>3. named.kids = vfs.kids
    BY <1>2, <2>2 DEF States
  <2> DEFINE first == [named EXCEPT !.kids[d] = IF d = e THEN @ ELSE RemoveAt(@, i)]
             part == [vfs.kids EXCEPT ![d] = IF d = e THEN @ ELSE RemoveAt(@, i)]
  <2>4. first = [named EXCEPT !.kids = part]
    BY <1>2, <2>2, <2>3 DEF States
  <2>5. kids = [part EXCEPT ![e] = IF d = e THEN @ ELSE Append(@, n)]
    <3>1. CASE d = e
      BY <1>5, <3>1
    <3>2. CASE d # e
      BY <1>5, <3>2
    <3> QED
      BY <3>1, <3>2
  <2> HIDE DEF part, kids
  <2>6. first = [vfs EXCEPT !.node = node, !.kids = part]
    BY <1>2, <2>2, <2>4 DEF States
  <2>7. vfs' = [first EXCEPT !.kids[e] = IF d = e THEN @ ELSE Append(@, n)]
    BY <2>1
  <2> HIDE DEF first
  <2> QED
    BY <1>2, <2>5, <2>6, <2>7 DEF States
<1>10. kids \in [RamDirs -> Seq(VNodes)]
  BY <1>6 DEF Treed, Shape
<1> HIDE DEF r, n, kids, T
<1>11. node \in [VNodes -> NodeType] /\ node[n] = r
       /\ \A m \in VNodes : m # n => node[m] = vfs.node[m]
  BY <1>4, <1>5, <1>8
<1>12. Pool(node, vfs.free, vfs.count, T, {})
  <2>1. NodeOk(r) /\ (Adrift(r) <=> Adrift(vfs.node[n]))
    BY <1>7, <1>8 DEF NodeOk, Adrift
  <2> QED
    BY <1>4, <1>5, <1>7, <1>8, <2>1, KeepPool
<1> HIDE DEF node
<1>13. vfs' \in States /\ vfs'.node = node /\ vfs'.free = vfs.free /\ vfs'.count = vfs.count
       /\ vfs'.kids = kids /\ vfs'.pdir = vfs.pdir /\ vfs'.pfile = vfs.pfile
       /\ vfs'.disk = vfs.disk
  BY <1>2, <1>9, <1>10, <1>11 DEF States
<1>14. Same(vfs.node, node)
  <2>1. vfs.node[n].mirror = FALSE
    BY <1>5, <1>7 DEF Adrift, NodeType
  <2> QED
    BY <1>8, <1>11, <2>1 DEF Same
<1>15. Counted(node, fdt, NoNode) /\ (Careful => Saved(node, vfs.disk, last))
  BY <1>2, <1>14, SameKeeps
<1>16. Held(vfs', Tree(vfs'.kids, vfs'.pdir, vfs'.pfile), {})
  BY <1>6, <1>12, <1>13 DEF Held, Treed
<1>17. Good(vfs', fdt, last, NoNode)
  <2>1. Shape(vfs'.kids, vfs'.pdir, vfs'.pfile)
    BY <1>6, <1>13 DEF Treed
  <2> QED
    BY <1>2, <1>13, <1>15, <1>16, <2>1, GoodParts
<1> QED
  BY <1>1, <1>17

\* The disk changes where no mirror is.
LEMMA DiskGood ==
  ASSUME Good(vfs, fdt, last, NoNode), NEW D \in SUBSET DiskNames,
         NEW disk \in [DiskNames -> FileType], vfs' = [vfs EXCEPT !.disk = disk],
         last' \in [DiskNames -> Contents \cup {NoFile}], fdt' = fdt,
         \A f \in DiskNames \ D : disk[f] = vfs.disk[f] /\ last'[f] = last[f],
         Careful => \A f \in D : Mirrors(vfs, f) = {},
         Careful /\ Saved(vfs.node, vfs.disk, last) => \A f \in D : Says(disk[f], last'[f])
  PROVE  Good(vfs', fdt', last', NoNode)
<1>1. vfs \in States /\ fdt \in Handles
      /\ Shape(vfs.kids, vfs.pdir, vfs.pfile)
      /\ Held(vfs, Tree(vfs.kids, vfs.pdir, vfs.pfile), {}) /\ Counted(vfs.node, fdt, NoNode)
      /\ (Careful => Saved(vfs.node, vfs.disk, last))
  BY GoodParts
<1>2. vfs' \in States /\ vfs'.node = vfs.node /\ vfs'.free = vfs.free /\ vfs'.count = vfs.count
      /\ vfs'.kids = vfs.kids /\ vfs'.pdir = vfs.pdir /\ vfs'.pfile = vfs.pfile
      /\ vfs'.disk = disk
  BY <1>1 DEF States
<1>3. ASSUME Careful PROVE Saved(vfs.node, disk, last')
  <2>1. Saved(vfs.node, vfs.disk, last) /\ \A f \in D : Says(disk[f], last'[f])
    BY <1>1, <1>3
  <2>2. \A n \in VNodes : vfs.node[n].mirror => vfs.node[n].name \in DiskNames \ D
    <3>1. ASSUME NEW n \in VNodes, vfs.node[n].mirror PROVE vfs.node[n].name \in DiskNames \ D
      <4>1. NodeOk(vfs.node[n])
        BY <1>1 DEF Held, Pool
      <4>2. vfs.node[n].name \in DiskNames
        BY <3>1, <4>1 DEF NodeOk
      <4>3. n \in Mirrors(vfs, vfs.node[n].name)
        BY <3>1 DEF Mirrors
      <4> QED
        BY <1>3, <4>2, <4>3
    <3> QED
      BY <3>1
  <2>3. \A n \in VNodes : vfs.node[n].mirror =>
          /\ Agrees(vfs.node[n], last'[vfs.node[n].name])
          /\ vfs.node[n].dirty \/ Says(disk[vfs.node[n].name], last'[vfs.node[n].name])
    BY <2>1, <2>2 DEF Saved
  <2>4. ASSUME NEW f \in DiskNames, \A n \in VNodes : ~(vfs.node[n].mirror /\ vfs.node[n].name = f)
        PROVE  Says(disk[f], last'[f])
    <3>1. Says(vfs.disk[f], last[f])
      BY <2>1, <2>4 DEF Saved
    <3> QED
      BY <2>1, <3>1
  <2> QED
    BY <2>1, <2>3, <2>4 DEF Saved
<1>4. Held(vfs', Tree(vfs'.kids, vfs'.pdir, vfs'.pfile), {})
  BY <1>1, <1>2 DEF Held
<1>5. Good(vfs', fdt, last', NoNode)
  <2>1. Shape(vfs'.kids, vfs'.pdir, vfs'.pfile) /\ Counted(vfs'.node, fdt, NoNode)
        /\ (Careful => Saved(vfs'.node, vfs'.disk, last'))
    BY <1>1, <1>2, <1>3
  <2> QED
    BY <1>1, <1>2, <1>4, <2>1, GoodParts
<1> QED
  BY <1>5

\* vfs_unlink on the disk.
LEMMA UnlinkDiskGood ==
  ASSUME Good(vfs, fdt, last, NoNode), NEW f \in DiskNames, UnlinkDisk(f)
  PROVE  Good(vfs', fdt', last', NoNode)
<1> DEFINE file == Removed(vfs.disk[f])
           disk == [vfs.disk EXCEPT ![f] = file]
<1>1. MayRemove(f) /\ vfs' = [vfs EXCEPT !.disk[f] = Removed(vfs.disk[f])]
      /\ last' = [last EXCEPT ![f] = NoFile] /\ fdt' = fdt
  BY DEF UnlinkDisk
<1>2. vfs \in States /\ last \in [DiskNames -> Contents \cup {NoFile}]
      /\ vfs.disk \in [DiskNames -> FileType]
  BY GoodParts, StateFacts
<1>3. vfs' = [vfs EXCEPT !.disk = disk]
  BY <1>1, <1>2 DEF States
<1>4. disk \in [DiskNames -> FileType] /\ Says(disk[f], NoFile)
      /\ \A e \in DiskNames \ {f} : disk[e] = vfs.disk[e]
  <2>1. vfs.disk[f] \in FileType
    BY <1>2
  <2>2. file \in FileType /\ Says(file, NoFile)
    BY <2>1 DEF FileType, Says, Removed
  <2> HIDE DEF file
  <2> QED
    BY <1>2, <2>2
<1>5. last' \in [DiskNames -> Contents \cup {NoFile}] /\ last'[f] = NoFile
      /\ \A e \in DiskNames \ {f} : last'[e] = last[e]
  BY <1>1, <1>2
<1>6. Careful => Mirrors(vfs, f) = {}
  BY <1>1 DEF MayRemove, Careful
<1> DEFINE D == {f}
<1>7. D \in SUBSET DiskNames /\ \A e \in D : e = f
  OBVIOUS
<1>8. \A e \in DiskNames \ D : disk[e] = vfs.disk[e] /\ last'[e] = last[e]
  BY <1>4, <1>5
<1> HIDE DEF D, disk
<1>9. (Careful => \A e \in D : Mirrors(vfs, e) = {}) /\ \A e \in D : Says(disk[e], last'[e])
  BY <1>4, <1>5, <1>6, <1>7
<1>10. Careful => \A e \in D : Mirrors(vfs, e) = {}
  BY <1>9
<1>11. Careful /\ Saved(vfs.node, vfs.disk, last) => \A e \in D : Says(disk[e], last'[e])
  BY <1>9
<1>12. /\ disk \in [DiskNames -> FileType] /\ vfs' = [vfs EXCEPT !.disk = disk]
       /\ last' \in [DiskNames -> Contents \cup {NoFile}] /\ fdt' = fdt
       /\ D \in SUBSET DiskNames
  BY <1>1, <1>3, <1>4, <1>5, <1>7
<1> QED
  BY <1>8, <1>10, <1>11, <1>12, DiskGood, ZenonT(60)

\* vfs_rename on the disk, also of a file to itself.
LEMMA RenameDiskGood ==
  ASSUME Good(vfs, fdt, last, NoNode), NEW f \in DiskNames, NEW g \in DiskNames, RenameDisk(f, g)
  PROVE  Good(vfs', fdt', last', NoNode)
<1> DEFINE file == vfs.disk[f]
           copy == Stored(vfs.disk[g], file.text, ~file.stale)
           rest == Removed(file)
           disk == [vfs.disk EXCEPT ![g] = copy, ![f] = rest]
<1>1. MayRemove(f) /\ MayRemove(g) /\ vfs' = [vfs EXCEPT !.disk = disk] /\ file.text # NoFile
      /\ last' = [last EXCEPT ![g] = last[f], ![f] = NoFile] /\ fdt' = fdt
  BY DEF RenameDisk
<1>2. vfs \in States /\ last \in [DiskNames -> Contents \cup {NoFile}]
      /\ vfs.disk \in [DiskNames -> FileType]
      /\ (Careful => Saved(vfs.node, vfs.disk, last))
  BY GoodParts, StateFacts
<1>3. disk \in [DiskNames -> FileType] /\ Says(disk[f], NoFile)
      /\ (\A t : g # f /\ Says(vfs.disk[f], t) => Says(disk[g], t))
      /\ \A e \in DiskNames \ {f, g} : disk[e] = vfs.disk[e]
  <2>1. file \in FileType /\ vfs.disk[g] \in FileType
    BY <1>2
  <2> DEFINE w == ~file.stale
  <2> HIDE DEF file
  <2>2. file.text \in Contents /\ w \in BOOLEAN
    BY <1>1, <2>1 DEF FileType
  <2>3. rest \in FileType /\ Says(rest, NoFile)
    BY <2>1 DEF FileType, Says, Removed
  <2>4. copy \in FileType /\ \A t : (~file.stale => file.text = t) => Says(copy, t)
    <3> HIDE DEF w
    <3>1. /\ Stored(vfs.disk[g], file.text, w) \in FileType
          /\ \A t : (w => file.text = t) => Says(Stored(vfs.disk[g], file.text, w), t)
      BY <2>1, <2>2, StoredFacts
    <3> QED
      BY <3>1 DEF w
  <2> HIDE DEF copy, rest
  <2>5. /\ disk \in [DiskNames -> FileType] /\ disk[f] = rest /\ (g # f => disk[g] = copy)
        /\ \A e \in DiskNames \ {f, g} : disk[e] = vfs.disk[e]
    BY <1>2, <2>3, <2>4
  <2> HIDE DEF disk
  <2>6. ASSUME NEW t, g # f, Says(vfs.disk[f], t) PROVE Says(disk[g], t)
    <3>1. ~file.stale => file.text = t
      BY <2>6 DEF Says, file
    <3> QED
      BY <2>4, <2>5, <2>6, <3>1
  <2> QED
    BY <2>3, <2>5, <2>6
<1>4. last' \in [DiskNames -> Contents \cup {NoFile}] /\ last'[f] = NoFile
      /\ (g # f => last'[g] = last[f])
      /\ \A e \in DiskNames \ {f, g} : last'[e] = last[e]
  BY <1>1, <1>2
<1>5. Careful => Mirrors(vfs, f) = {} /\ Mirrors(vfs, g) = {}
  BY <1>1 DEF MayRemove, Careful
<1>6. Careful => Says(vfs.disk[f], last[f])
  BY <1>2, <1>5 DEF Saved, Mirrors
<1> DEFINE D == {f, g}
<1>7. D \in SUBSET DiskNames /\ \A e \in D : e = f \/ e = g
  OBVIOUS
<1>8. \A e \in DiskNames \ D : disk[e] = vfs.disk[e] /\ last'[e] = last[e]
  BY <1>3, <1>4
<1> HIDE DEF D, disk
<1>9. Careful => (\A e \in D : Mirrors(vfs, e) = {}) /\ \A e \in D : Says(disk[e], last'[e])
  BY <1>3, <1>4, <1>5, <1>6, <1>7
<1>10. Careful => \A e \in D : Mirrors(vfs, e) = {}
  BY <1>9
<1>11. Careful /\ Saved(vfs.node, vfs.disk, last) => \A e \in D : Says(disk[e], last'[e])
  BY <1>9
<1>12. /\ disk \in [DiskNames -> FileType] /\ vfs' = [vfs EXCEPT !.disk = disk]
       /\ last' \in [DiskNames -> Contents \cup {NoFile}] /\ fdt' = fdt
       /\ D \in SUBSET DiskNames
  BY <1>1, <1>3, <1>4, <1>7
<1> QED
  BY <1>8, <1>10, <1>11, <1>12, DiskGood, ZenonT(60)

\* ... when there is no room for the copy: a file that has the new name stays as it is, ...
LEMMA RenameKeepsGood ==
  ASSUME Good(vfs, fdt, last, NoNode), NEW f \in DiskNames, NEW g \in DiskNames,
         RenameFails(f, g), vfs.disk[g].text # NoFile
  PROVE  Good(vfs', fdt', last', NoNode)
<1>1. vfs \in States
  BY GoodParts
<1>2. vfs' = [vfs EXCEPT !.disk = [vfs.disk EXCEPT ![g] = vfs.disk[g]]]
      /\ last' = last /\ fdt' = fdt
  BY <1>1 DEF RenameFails, States
<1>3. [vfs.disk EXCEPT ![g] = vfs.disk[g]] = vfs.disk
  BY <1>1 DEF States
<1>4. vfs' = vfs
  BY <1>1, <1>2, <1>3 DEF States
<1> QED
  BY <1>2, <1>4

\* ... and a new name is left behind, empty.
LEMMA RenameLeavesGood ==
  ASSUME Good(vfs, fdt, last, NoNode), NEW f \in DiskNames, NEW g \in DiskNames,
         RenameFails(f, g), vfs.disk[g].text = NoFile
  PROVE  Good(vfs', fdt', last', NoNode)
<1> DEFINE file == [vfs.disk[g] EXCEPT !.text = EmptyText, !.stale = TRUE]
           disk == [vfs.disk EXCEPT ![g] = file]
<1>0. vfs \in States
  BY GoodParts
<1>1. MayRemove(g) /\ vfs' = [vfs EXCEPT !.disk[g] = [@ EXCEPT !.text = EmptyText, !.stale = TRUE]]
      /\ last' = last /\ fdt' = fdt
  BY <1>0 DEF RenameFails, States
<1>2. vfs \in States /\ last \in [DiskNames -> Contents \cup {NoFile}]
      /\ vfs.disk \in [DiskNames -> FileType]
  BY GoodParts, StateFacts
<1>3. vfs' = [vfs EXCEPT !.disk = disk]
  BY <1>1, <1>2 DEF States
<1>4. disk \in [DiskNames -> FileType] /\ (\A t : Says(disk[g], t))
      /\ \A e \in DiskNames \ {g} : disk[e] = vfs.disk[e]
  <2>1. vfs.disk[g] \in FileType
    BY <1>2
  <2>2. file \in FileType /\ \A t : Says(file, t)
    BY <2>1 DEF FileType, Says, Contents
  <2> HIDE DEF file
  <2> QED
    BY <1>2, <2>2
<1>5. Careful => Mirrors(vfs, g) = {}
  BY <1>1 DEF MayRemove, Careful
<1> DEFINE D == {g}
<1>6. D \in SUBSET DiskNames /\ \A e \in D : e = g
  OBVIOUS
<1>7. \A e \in DiskNames \ D : disk[e] = vfs.disk[e] /\ last'[e] = last[e]
  BY <1>1, <1>4
<1> HIDE DEF D, disk
<1>8. Careful => \A e \in D : Mirrors(vfs, e) = {}
  BY <1>5, <1>6
<1>9. Careful /\ Saved(vfs.node, vfs.disk, last) => \A e \in D : Says(disk[e], last'[e])
  BY <1>4, <1>6
<1>10. /\ disk \in [DiskNames -> FileType] /\ vfs' = [vfs EXCEPT !.disk = disk]
       /\ last' \in [DiskNames -> Contents \cup {NoFile}] /\ fdt' = fdt
       /\ D \in SUBSET DiskNames
  BY <1>1, <1>2, <1>3, <1>4, <1>6
<1> QED
  BY <1>7, <1>8, <1>9, <1>10, DiskGood, ZenonT(60)

LEMMA RenameFailsGood ==
  ASSUME Good(vfs, fdt, last, NoNode), NEW f \in DiskNames, NEW g \in DiskNames, RenameFails(f, g)
  PROVE  Good(vfs', fdt', last', NoNode)
BY RenameKeepsGood, RenameLeavesGood

\* What a file says does not depend on the room there is.
LEMMA RoomGood ==
  ASSUME Good(vfs, fdt, last, NoNode), NEW f \in DiskNames, RoomChanges(f)
  PROVE  Good(vfs', fdt', last', NoNode)
<1> DEFINE file == [vfs.disk[f] EXCEPT !.full = ~vfs.disk[f].full]
           disk == [vfs.disk EXCEPT ![f] = file]
<1>1. vfs' = [vfs EXCEPT !.disk[f].full = ~vfs.disk[f].full] /\ last' = last /\ fdt' = fdt
  BY DEF RoomChanges
<1>2. vfs \in States /\ fdt \in Handles /\ last \in [DiskNames -> Contents \cup {NoFile}]
      /\ Shape(vfs.kids, vfs.pdir, vfs.pfile)
      /\ Held(vfs, Tree(vfs.kids, vfs.pdir, vfs.pfile), {}) /\ Counted(vfs.node, fdt, NoNode)
      /\ (Careful => Saved(vfs.node, vfs.disk, last))
  BY GoodParts
<1>3. vfs.disk \in [DiskNames -> FileType]
  BY <1>2, StateFacts
<1>4. vfs' = [vfs EXCEPT !.disk = disk]
  BY <1>1, <1>2 DEF States
<1>5. disk \in [DiskNames -> FileType]
      /\ \A e \in DiskNames : \A t : Says(vfs.disk[e], t) => Says(disk[e], t)
  <2>1. vfs.disk[f] \in FileType
    BY <1>3
  <2>2. file \in FileType /\ \A t : Says(vfs.disk[f], t) => Says(file, t)
    BY <2>1 DEF FileType, Says
  <2> HIDE DEF file
  <2>3. disk \in [DiskNames -> FileType] /\ disk[f] = file
        /\ \A e \in DiskNames \ {f} : disk[e] = vfs.disk[e]
    BY <1>3, <2>2
  <2> HIDE DEF disk
  <2> QED
    BY <2>2, <2>3
<1> HIDE DEF disk
<1>6. vfs' \in States /\ vfs'.node = vfs.node /\ vfs'.free = vfs.free /\ vfs'.count = vfs.count
      /\ vfs'.kids = vfs.kids /\ vfs'.pdir = vfs.pdir /\ vfs'.pfile = vfs.pfile
      /\ vfs'.disk = disk
  BY <1>2, <1>4, <1>5 DEF States
<1>7. ASSUME Careful PROVE Saved(vfs.node, disk, last)
  <2>1. Saved(vfs.node, vfs.disk, last)
    BY <1>2, <1>7
  <2>2. \A n \in VNodes : vfs.node[n].mirror => vfs.node[n].name \in DiskNames
    BY <1>2 DEF Held, Pool, NodeOk
  <2> QED
    BY <1>5, <2>1, <2>2 DEF Saved
<1>8. Held(vfs', Tree(vfs'.kids, vfs'.pdir, vfs'.pfile), {})
  BY <1>2, <1>6 DEF Held
<1>9. Good(vfs', fdt, last, NoNode)
  <2>1. Shape(vfs'.kids, vfs'.pdir, vfs'.pfile) /\ Counted(vfs'.node, fdt, NoNode)
        /\ (Careful => Saved(vfs'.node, vfs'.disk, last))
    BY <1>2, <1>6, <1>7
  <2> QED
    BY <1>2, <1>6, <1>8, <2>1, GoodParts
<1> QED
  BY <1>1, <1>9

----------------------------------------------------------------------------
(* The invariant, and what follows from it.                                 *)

\* Before anything was opened.
LEMMA InitGood ==
  ASSUME VfsInit
  PROVE  VfsInv
<1>1. vfs.node = [n \in VNodes |-> BlankNode] /\ vfs.free = <<>> /\ vfs.count = 0
      /\ vfs.kids = [d \in RamDirs |-> <<>>] /\ vfs.pdir = [u \in Users |-> NoNode]
      /\ vfs.pfile = [u \in Users |-> NoNode] /\ vfs.disk = [f \in DiskNames |-> Missing]
      /\ fdt = [u \in Users |-> [i \in Fds |-> NoNode]] /\ last = [f \in DiskNames |-> NoFile]
  BY DEF VfsInit
<1>2. vfs \in States /\ fdt \in Handles /\ last \in [DiskNames -> Contents \cup {NoFile}]
  <2>1. vfs.node \in [VNodes -> NodeType]
    BY <1>1, BlankFacts
  <2>2. vfs.free \in Seq(VNodes) /\ vfs.kids \in [RamDirs -> Seq(VNodes)] /\ vfs.count \in 0..NNodes
    BY <1>1, NoNodeFacts
  <2>3. vfs = [node |-> vfs.node, free |-> vfs.free, count |-> vfs.count, kids |-> vfs.kids,
               pdir |-> vfs.pdir, pfile |-> vfs.pfile, disk |-> vfs.disk]
    BY DEF VfsInit
  <2>5. vfs.disk \in [DiskNames -> FileType]
    BY <1>1 DEF Missing, FileType
  <2> HIDE DEF NodeType
  <2>4. vfs \in States
    BY <1>1, <2>1, <2>2, <2>3, <2>5 DEF States
  <2> QED
    BY <1>1, <2>4 DEF Handles
<1>3. Elems(<<>>) = {} /\ Distinct(<<>>) /\ Len(<<>>) <= MaxKids
  BY NNodesAssumption DEF Elems, Distinct
<1>4. \A d \in RamDirs : Elems(vfs.kids[d]) = {} /\ Distinct(vfs.kids[d]) /\ Len(vfs.kids[d]) <= MaxKids
  BY <1>1, <1>3
<1>5. Shape(vfs.kids, vfs.pdir, vfs.pfile)
  <2>1. Once(vfs.kids, vfs.pdir, vfs.pfile)
    BY <1>1, <1>4 DEF Once
  <2> QED
    BY <1>2, <2>1, StateFacts DEF Shape
<1>6. Tree(vfs.kids, vfs.pdir, vfs.pfile) = {}
  BY <1>1, <1>4, NoNodeFacts DEF Tree
<1>7. Pool(vfs.node, vfs.free, vfs.count, {}, {})
  <2>1. \A n \in VNodes : vfs.node[n] = BlankNode /\ NodeOk(vfs.node[n])
    BY <1>1, BlankFacts
  <2> QED
    BY <1>1, <1>3, <2>1 DEF Pool
<1>8. Counted(vfs.node, fdt, NoNode)
  <2>1. ASSUME NEW n \in VNodes
        PROVE  vfs.node[n].refs = Cardinality(Holders(fdt, n)) + (IF n = NoNode THEN 1 ELSE 0)
    <3>1. Holders(fdt, n) = {}
      BY <1>1, NoNodeFacts DEF Holders
    <3>2. Cardinality(Holders(fdt, n)) = 0
      BY <3>1, FS_EmptySet
    <3> QED
      BY <1>1, <3>2, NoNodeFacts, BlankFacts
  <2> QED
    BY <2>1 DEF Counted
<1>9. Saved(vfs.node, vfs.disk, last)
  BY <1>1, BlankFacts DEF Saved, Says, Missing
<1>10. Good(vfs, fdt, last, NoNode)
  BY <1>2, <1>5, <1>6, <1>7, <1>8, <1>9, GoodParts DEF Held
<1> QED
  BY <1>10 DEF VfsInv, VfsInit

\* Every call keeps the invariant.
LEMMA StepGood ==
  ASSUME VfsInv, VfsNext
  PROVE  VfsInv'
<1>1. Good(vfs, fdt, last, NoNode)
  BY DEF VfsInv
<1>2. Good(vfs', fdt', last', NoNode)
  <2>1. ASSUME NEW u \in Users, Starts(u) \/ IsKilled(u) PROVE Good(vfs', fdt', last', NoNode)
    BY <1>1, <2>1 DEF Starts, IsKilled
  <2>2. ASSUME NEW u \in Users, ExitsOpen(u) \/ IsReaped(u) PROVE Good(vfs', fdt', last', NoNode)
    BY <1>1, <2>2, ClosedAllGood DEF ExitsOpen, IsReaped
  <2>3. ASSUME NEW u \in Users, NEW create \in BOOLEAN, NEW d \in RamDirs, NEW f \in RamNames,
               OpenRam(u, d, f, create)
        PROVE  Good(vfs', fdt', last', NoNode)
    BY <1>1, <2>3, OpenRamGood
  <2>4. ASSUME NEW u \in Users, NEW create \in BOOLEAN, NEW f \in DiskNames,
               NEW memory \in BOOLEAN, OpenDisk(u, f, create, memory)
        PROVE  Good(vfs', fdt', last', NoNode)
    BY <1>1, <2>4, OpenDiskGood
  <2>5. ASSUME NEW u \in Users, NEW v \in Users, NEW dir \in BOOLEAN, OpenProc(u, v, dir)
        PROVE  Good(vfs', fdt', last', NoNode)
    BY <1>1, <2>5, OpenProcGood
  <2>6. ASSUME NEW u \in Users, NEW i \in Fds,
               \/ CloseFd(u, i) \/ DupFd(u, i) \/ WritePart(u, i)
               \/ \E j \in Fds : Dup2Fd(u, i, j)
               \/ \E t \in Texts : WriteText(u, i, t)
        PROVE  Good(vfs', fdt', last', NoNode)
    <3>1. CASE CloseFd(u, i)
      BY <1>1, <3>1, CloseFdGood
    <3>2. CASE DupFd(u, i)
      BY <1>1, <3>2, DupFdGood
    <3>3. ASSUME NEW j \in Fds, Dup2Fd(u, i, j) PROVE Good(vfs', fdt', last', NoNode)
      BY <1>1, <3>3, Dup2FdGood
    <3>4. ASSUME NEW t \in Texts, WriteText(u, i, t) PROVE Good(vfs', fdt', last', NoNode)
      BY <1>1, <3>4, WriteGood
    <3>5. CASE WritePart(u, i)
      BY <1>1, <3>5, PartGood
    <3> QED
      BY <2>6, <3>1, <3>2, <3>3, <3>4, <3>5
  <2>7. ASSUME NEW d \in RamDirs, NEW f \in RamNames, UnlinkRam(d, f)
        PROVE  Good(vfs', fdt', last', NoNode)
    BY <1>1, <2>7, UnlinkRamGood
  <2>8. ASSUME NEW d \in RamDirs, NEW f \in RamNames, NEW e \in RamDirs, NEW g \in RamNames,
               RenameRam(d, f, e, g)
        PROVE  Good(vfs', fdt', last', NoNode)
    BY <1>1, <2>8, RenameRamGood
  <2>9. ASSUME NEW v \in Users, UnlinkProc(v) PROVE Good(vfs', fdt', last', NoNode)
    BY <1>1, <2>9, UnlinkProcGood
  <2>10. ASSUME NEW f \in DiskNames,
                \/ UnlinkDisk(f) \/ RoomChanges(f)
                \/ \E g \in DiskNames : RenameDisk(f, g) \/ RenameFails(f, g)
         PROVE  Good(vfs', fdt', last', NoNode)
    BY <1>1, <2>10, UnlinkDiskGood, RoomGood, RenameDiskGood, RenameFailsGood
  <2>11. ASSUME LooksUp PROVE Good(vfs', fdt', last', NoNode)
    BY <1>1, <2>11, SyncedGood DEF LooksUp
  <2> QED
    BY <2>1, <2>2, <2>3, <2>4, <2>5, <2>6, <2>7, <2>8, <2>9, <2>10, <2>11 DEF VfsNext
<1>3. life' \in [Users -> {"unborn", "live", "zombie", "gone"}]
  <2>1. life \in [Users -> {"unborn", "live", "zombie", "gone"}]
    BY DEF VfsInv
  <2> DEFINE L == [Users -> {"unborn", "live", "zombie", "gone"}]
  <2>2. ASSUME NEW u \in Users, Starts(u) \/ ExitsOpen(u) \/ IsKilled(u) \/ IsReaped(u)
        PROVE  life' \in L
    <3>1. life' = [life EXCEPT ![u] = "live"] \/ life' = [life EXCEPT ![u] = "zombie"]
          \/ life' = [life EXCEPT ![u] = "gone"]
      BY <2>2 DEF Starts, ExitsOpen, IsKilled, IsReaped
    <3> QED
      BY <2>1, <3>1
  <2>3. ASSUME NEW u \in Users, NEW create \in BOOLEAN,
               \/ \E d \in RamDirs, f \in RamNames : OpenRam(u, d, f, create)
               \/ \E f \in DiskNames, memory \in BOOLEAN : OpenDisk(u, f, create, memory)
        PROVE  life' = life
    BY <2>3 DEF OpenRam, OpenDisk
  <2>4. ASSUME NEW u \in Users, NEW v \in Users, NEW dir \in BOOLEAN, OpenProc(u, v, dir)
        PROVE  life' = life
    BY <2>4 DEF OpenProc
  <2>5. ASSUME NEW u \in Users, NEW i \in Fds,
               \/ CloseFd(u, i) \/ DupFd(u, i) \/ WritePart(u, i)
               \/ \E j \in Fds : Dup2Fd(u, i, j)
               \/ \E t \in Texts : WriteText(u, i, t)
        PROVE  life' = life
    BY <2>5 DEF CloseFd, DupFd, Dup2Fd, WriteText, WritePart
  <2>6. ASSUME NEW d \in RamDirs, NEW f \in RamNames,
               \/ UnlinkRam(d, f)
               \/ \E e \in RamDirs, g \in RamNames : RenameRam(d, f, e, g)
        PROVE  life' = life
    BY <2>6 DEF UnlinkRam, RenameRam
  <2>7. ASSUME NEW v \in Users, UnlinkProc(v) PROVE life' = life
    BY <2>7 DEF UnlinkProc
  <2>8. ASSUME NEW f \in DiskNames,
               \/ UnlinkDisk(f) \/ RoomChanges(f)
               \/ \E g \in DiskNames : RenameDisk(f, g) \/ RenameFails(f, g)
        PROVE  life' = life
    BY <2>8 DEF UnlinkDisk, RoomChanges, RenameDisk, RenameFails
  <2>9. ASSUME LooksUp PROVE life' = life
    BY <2>9 DEF LooksUp
  <2>10. life' = life => life' \in L
    BY <2>1
  <2> HIDE DEF L
  <2>11. life' \in L
    BY <2>2, <2>3, <2>4, <2>5, <2>6, <2>7, <2>8, <2>9, <2>10 DEF VfsNext
  <2> QED
    BY <2>11 DEF L
<1> QED
  BY <1>2, <1>3 DEF VfsInv

\* The invariant holds of every behaviour of the calls.
THEOREM VfsInvariant == VfsSpec => []VfsInv
<1>1. VfsInit => VfsInv
  BY InitGood
<1>2. VfsInv /\ [VfsNext]_userVars => VfsInv'
  <2>1. CASE VfsNext
    BY <2>1, StepGood
  <2>2. CASE UNCHANGED userVars
    BY <2>2 DEF userVars, VfsInv, Good, Counted, Holders, Saved, Careful
  <2> QED
    BY <2>1, <2>2
<1> QED
  BY <1>1, <1>2, PTL DEF VfsSpec

\* The types of the pool, the directories, /proc, the disk and the descriptors.
THEOREM VfsTypes == VfsSpec => []VfsTypeOK
<1>1. VfsInv => VfsTypeOK
  <2> SUFFICES ASSUME VfsInv PROVE VfsTypeOK
    OBVIOUS
  <2>1. vfs \in States /\ fdt \in Handles /\ last \in [DiskNames -> Contents \cup {NoFile}]
        /\ life \in [Users -> {"unborn", "live", "zombie", "gone"}]
    BY DEF VfsInv, Good
  <2> QED
    BY <2>1, StateFacts DEF VfsTypeOK, Handles, NodeType, FileType
<1> QED
  BY <1>1, VfsInvariant, PTL

\* A node of the tree is in one place of it, and one that is not in none.
LEMMA OnePlace ==
  ASSUME Shape(vfs.kids, vfs.pdir, vfs.pfile), NEW n \in VNodes
  PROVE  IF n \in Tree(vfs.kids, vfs.pdir, vfs.pfile)
         THEN \E x : TreePlaces(n) = {x} ELSE TreePlaces(n) = {}
<1> DEFINE K == {k \in RamDirs \X (1..MaxKids) :
                   k[2] <= Len(vfs.kids[k[1]]) /\ vfs.kids[k[1]][k[2]] = n}
           P == {<<"pdir", u>> : u \in {v \in Users : vfs.pdir[v] = n}}
           F == {<<"pfile", u>> : u \in {v \in Users : vfs.pfile[v] = n}}
<1>1. TreePlaces(n) = (K \cup P) \cup F
  BY DEF TreePlaces
<1>2. \A d \in RamDirs : /\ vfs.kids[d] \in Seq(VNodes) /\ Len(vfs.kids[d]) \in Nat
                         /\ Len(vfs.kids[d]) <= MaxKids /\ Distinct(vfs.kids[d])
  BY DEF Shape, Once
<1>3. MaxKids \in Nat /\ n # NoNode
  BY NNodesAssumption, NoNodeFacts
<1>4. ASSUME NEW k \in K
      PROVE  k[1] \in RamDirs /\ n \in Elems(vfs.kids[k[1]]) /\ k[2] \in 1..Len(vfs.kids[k[1]])
             /\ k = <<k[1], k[2]>> /\ vfs.kids[k[1]][k[2]] = n
  <2>1. k[1] \in RamDirs /\ k[2] \in 1..Len(vfs.kids[k[1]]) /\ vfs.kids[k[1]][k[2]] = n
        /\ k = <<k[1], k[2]>>
    BY <1>2, <1>3
  <2> QED
    BY <2>1 DEF Elems
<1>5. ASSUME NEW d \in RamDirs, n \in Elems(vfs.kids[d]) PROVE \E k \in K : k[1] = d
  <2>1. PICK i \in 1..Len(vfs.kids[d]) : vfs.kids[d][i] = n
    BY <1>5 DEF Elems
  <2>2. <<d, i>> \in K
    BY <1>2, <1>3, <2>1
  <2> QED
    BY <2>2
<1>6. \A k, h \in K : k = h
  <2> SUFFICES ASSUME NEW k \in K, NEW h \in K PROVE k = h
    OBVIOUS
  <2>1. k[1] = h[1]
    BY <1>4 DEF Shape, Once
  <2>2. k[2] = h[2]
    BY <1>2, <1>4, <2>1 DEF Distinct
  <2> QED
    BY <1>4, <2>1, <2>2
<1>7. P # {} <=> \E u \in Users : n = vfs.pdir[u]
  OBVIOUS
<1>8. F # {} <=> \E u \in Users : n = vfs.pfile[u]
  OBVIOUS
<1>9. \A x, y \in P : x = y
  BY <1>3 DEF Shape, Once
<1>10. \A x, y \in F : x = y
  BY <1>3 DEF Shape, Once
<1>11. (K = {} \/ P = {}) /\ (K = {} \/ F = {})
  <2>1. ASSUME NEW k \in K PROVE P = {} /\ F = {}
    <3>1. \A u \in Users : n # vfs.pdir[u] /\ n # vfs.pfile[u]
      BY <1>4 DEF Shape, Once
    <3> QED
      BY <3>1
  <2> HIDE DEF K, P, F
  <2> QED
    BY <2>1
<1>12. P = {} \/ F = {}
  <2>1. ASSUME NEW u \in Users, NEW v \in Users, n = vfs.pdir[u], n = vfs.pfile[v] PROVE FALSE
    BY <1>3, <2>1 DEF Shape, Once
  <2> HIDE DEF P, F
  <2> QED
    BY <1>7, <1>8, <2>1
<1>13. K # {} <=> \E d \in RamDirs : n \in Elems(vfs.kids[d])
  <2> HIDE DEF K
  <2> QED
    BY <1>4, <1>5
<1>14. n \in Tree(vfs.kids, vfs.pdir, vfs.pfile) <=> ((K # {} \/ P # {}) \/ F # {})
  <2> HIDE DEF K, P, F
  <2> QED
    BY <1>7, <1>8, <1>13 DEF Tree
<1> HIDE DEF K, P, F
<1>15. ASSUME NEW x \in (K \cup P) \cup F PROVE (K \cup P) \cup F = {x}
  BY <1>6, <1>9, <1>10, <1>11, <1>12
<1> QED
  BY <1>1, <1>14, <1>15

\* A node of the pool is in one place, and its count is that of its descriptors.
THEOREM PoolIsExact == VfsSpec => []PoolExact
<1>1. VfsInv => PoolExact
  <2> SUFFICES ASSUME VfsInv PROVE PoolExact
    OBVIOUS
  <2> DEFINE T == Tree(vfs.kids, vfs.pdir, vfs.pfile)
  <2>1. vfs \in States /\ Shape(vfs.kids, vfs.pdir, vfs.pfile)
        /\ Pool(vfs.node, vfs.free, vfs.count, T, {}) /\ Counted(vfs.node, fdt, NoNode)
    BY GoodParts DEF VfsInv, Held
  <2>2. vfs.free \in Seq(VNodes) /\ vfs.count \in 0..NNodes
    BY <2>1, StateFacts
  <2> HIDE DEF T
  <2> SUFFICES ASSUME NEW n \in VNodes
               PROVE  /\ vfs.node[n].refs = Cardinality(Descriptors(n))
                      /\ Cardinality(FreePlaces(n)) + Cardinality(TreePlaces(n))
                         + (IF vfs.node[n].refs > 0 /\ (vfs.node[n].mirror \/ vfs.node[n].orphaned)
                            THEN 1 ELSE 0)
                         = IF n <= vfs.count THEN 1 ELSE 0
    BY DEF PoolExact
  <2>3. vfs.node[n].refs = Cardinality(Descriptors(n))
    <3>1. Descriptors(n) = Holders(fdt, n)
      BY DEF Descriptors, Holders
    <3> QED
      BY <2>1, <3>1, NoNodeFacts, HoldersFinite DEF Counted
  <2>4. Cardinality(FreePlaces(n)) = IF n \in Elems(vfs.free) THEN 1 ELSE 0
    <3>1. FreePlaces(n) = {i \in 1..Len(vfs.free) : vfs.free[i] = n}
      BY <2>2 DEF FreePlaces
    <3>2. CASE n \in Elems(vfs.free)
      <4>1. PICK i \in 1..Len(vfs.free) : vfs.free[i] = n
        BY <3>2 DEF Elems
      <4>2. \A j \in 1..Len(vfs.free) : vfs.free[j] = n => j = i
        BY <2>1, <4>1 DEF Pool, Distinct
      <4>3. FreePlaces(n) = {i}
        BY <3>1, <4>1, <4>2
      <4> QED
        BY <3>2, <4>3, FS_Singleton
    <3>3. CASE n \notin Elems(vfs.free)
      <4>1. FreePlaces(n) = {}
        BY <3>1, <3>3 DEF Elems
      <4> QED
        BY <3>3, <4>1, FS_EmptySet
    <3> QED
      BY <3>2, <3>3
  <2>5. Cardinality(TreePlaces(n)) = IF n \in T THEN 1 ELSE 0
    <3>1. CASE n \in T
      <4>1. PICK x : TreePlaces(n) = {x}
        BY <2>1, <3>1, OnePlace DEF T
      <4> QED
        BY <3>1, <4>1, FS_Singleton
    <3>2. CASE n \notin T
      <4>1. TreePlaces(n) = {}
        BY <2>1, <3>2, OnePlace DEF T
      <4> QED
        BY <3>2, <4>1, FS_EmptySet
    <3> QED
      BY <3>1, <3>2
  <2>6. (vfs.node[n].refs > 0 /\ (vfs.node[n].mirror \/ vfs.node[n].orphaned))
           <=> Adrift(vfs.node[n])
    BY <2>1 DEF Pool, NodeOk, Adrift
  <2>7. CASE n <= vfs.count
    <3>1. n \in 1..vfs.count
      BY <2>2, <2>7 DEF VNodes
    <3>2. (n \in Elems(vfs.free) \/ n \in T) \/ Adrift(vfs.node[n])
      BY <2>1, <3>1 DEF Pool
    <3>3. n \in Elems(vfs.free) => n \notin T /\ ~Adrift(vfs.node[n])
      BY <2>1, BlankFacts DEF Pool
    <3>4. n \in T => ~Adrift(vfs.node[n])
      BY <2>1 DEF Pool
    <3> QED
      BY <2>3, <2>4, <2>5, <2>6, <2>7, <3>2, <3>3, <3>4
  <2>8. CASE ~(n <= vfs.count)
    <3>1. n > vfs.count /\ n \notin 1..vfs.count
      BY <2>2, <2>8 DEF VNodes
    <3>2. n \notin Elems(vfs.free) /\ n \notin T /\ ~Adrift(vfs.node[n])
      BY <2>1, <2>8, <3>1, BlankFacts DEF Pool
    <3> QED
      BY <2>3, <2>4, <2>5, <2>6, <2>8, <3>2
  <2> QED
    BY <2>7, <2>8
<1> QED
  BY <1>1, VfsInvariant, PTL

\* What was written last is on the disk when nobody has the file open, unless one file is open
\* twice or removed while it is open.
THEOREM SavedWhenClosed ==
  ASSUME ~OpensTwice, ~RemovesOpen
  PROVE  VfsSpec => []SavedAtLastClose
<1>1. VfsInv => SavedAtLastClose
  <2> SUFFICES ASSUME VfsInv, NEW f \in DiskNames, Mirrors(vfs, f) = {}
               PROVE  Says(vfs.disk[f], last[f])
    BY DEF SavedAtLastClose, Says
  <2>1. Saved(vfs.node, vfs.disk, last)
    BY DEF VfsInv, Good, Careful
  <2>2. \A n \in VNodes : ~(vfs.node[n].mirror /\ vfs.node[n].name = f)
    BY DEF Mirrors
  <2> QED
    BY <2>1, <2>2 DEF Saved
<1> QED
  BY <1>1, VfsInvariant, PTL
=============================================================================
