------------------------- MODULE Descriptors_proofs -------------------------
(***************************************************************************)
(* The counts of a pipe are exact, whatever the tasks do with descriptors, *)
(* for any number of tasks, pipes and descriptors; and, if a pipe has one  *)
(* reader at a time and the shell kills no task inside pipe_read, the pipe *)
(* and the task that sleeps in a read of it agree.                         *)
(*                                                                         *)
(* The descriptors, the sockets and the connections behind them agree, for *)
(* any number of programs and entries and a ring of any size, if a         *)
(* connection is not given up while a program has it.                      *)
(***************************************************************************)
EXTENDS PipesProps, SocketsProps, FiniteSetTheorems, WellFoundedInduction, TLAPS

PipeSet == [used : BOOLEAN, count : 0..PipeSize, reads : Nat, writes : Nat,
            waiter : Procs \cup {Nobody}]

End(i, w) == [pipe |-> i, write |-> w]

\* The count that the code keeps of an end.
Count(i, w) == IF w THEN pipe[i].writes ELSE pipe[i].reads

\* Which of the descriptors S of t refer to an end; there are Refs of them.
At(t, S, i, w) == {s \in S : fds[t][s] = End(i, w)}

Exact(i, w) ==
    /\ IsFiniteSet(Holders(i, w))
    /\ Count(i, w) = Cardinality(Holders(i, w)) + lost[End(i, w)]

\* A task that is not born has no descriptors.
UnbornHasNone == \A t \in Unborn : \A s \in Slots : fds[t][s] = NoFd

RefsInv ==
    /\ PipesTypeOK
    /\ UnbornHasNone
    /\ \A i \in PipeIds : \A w \in BOOLEAN : Exact(i, w)
    /\ \A i \in PipeIds : pipe[i].used <=> pipe[i].reads + pipe[i].writes > 0

----------------------------------------------------------------------------
(* Sets and numbers.                                                        *)

\* A set of numbers that is not empty has a least one.
LEMMA LeastExists ==
  ASSUME NEW T \in SUBSET Nat, T # {}
  PROVE  \E x \in T : \A y \in T : x <= y
<1> DEFINE W == {1..n : n \in T}
           R == StrictSubsetOrdering(Nat)
<1>1. W \subseteq FiniteSubsetsOf(Nat) /\ W # {}
  <2>1. \A n \in T : 1..n \in SUBSET Nat /\ IsFiniteSet(1..n)
    BY FS_Interval
  <2> QED
    BY <2>1 DEF FiniteSubsetsOf
<1>2. IsWellFoundedOn(R, FiniteSubsetsOf(Nat))
  BY FS_StrictSubsetOrderingWellFounded
<1>3. PICK w \in W : \A v \in W : <<v, w>> \notin R
  <2> HIDE DEF W, R
  <2> QED
    BY <1>1, <1>2, WFMin
<1>4. PICK m \in T : w = 1..m
  OBVIOUS
<1>5. ASSUME NEW n \in T PROVE m <= n
  <2>1. m \in Nat /\ n \in Nat
    OBVIOUS
  <2>2. CASE n < m
    <3>1. 1..n \subseteq 1..m /\ m \in 1..m /\ m \notin 1..n
      BY <2>1, <2>2
    <3>2. <<1..n, 1..m>> \in R
      BY <3>1 DEF StrictSubsetOrdering
    <3> QED
      BY <1>3, <1>4, <3>2
  <2> QED
    BY <2>1, <2>2
<1> QED
  BY <1>5

\* ufd_alloc returns a free descriptor, if there is one; pipe two different ones.
LEMMA FreeFacts ==
  ASSUME NEW t, FreeSlots(t) # {}
  PROVE  LowestFree(t) \in FreeSlots(t)
<1>1. FreeSlots(t) \in SUBSET Nat
  BY DEF FreeSlots, Slots
<1> QED
  BY <1>1, LeastExists DEF LowestFree

\* New members.
LEMMA CountGrows ==
  ASSUME NEW H, NEW D, IsFiniteSet(H), IsFiniteSet(D), H \cap D = {}
  PROVE  /\ IsFiniteSet(H \cup D) /\ Cardinality(H \cup D) = Cardinality(H) + Cardinality(D)
         /\ Cardinality(H) \in Nat /\ Cardinality(D) \in Nat
<1>1. /\ IsFiniteSet(H \cup D)
      /\ Cardinality(H \cup D) = Cardinality(H) + Cardinality(D) - Cardinality(H \cap D)
  BY FS_Union
<1>2. Cardinality(H \cap D) = 0
  BY FS_EmptySet
<1>3. Cardinality(H) \in Nat /\ Cardinality(D) \in Nat
  BY FS_CardinalityType
<1> QED
  BY <1>1, <1>2, <1>3

\* Members that leave.
LEMMA CountShrinks ==
  ASSUME NEW H, NEW D, IsFiniteSet(H), D \subseteq H
  PROVE  /\ IsFiniteSet(H \ D) /\ Cardinality(H \ D) = Cardinality(H) - Cardinality(D)
         /\ Cardinality(H) \in Nat /\ Cardinality(D) \in Nat /\ Cardinality(D) <= Cardinality(H)
<1>1. IsFiniteSet(D) /\ Cardinality(D) <= Cardinality(H)
  BY FS_Subset
<1>2. H \cap D = D
  OBVIOUS
<1>3. IsFiniteSet(H \ D) /\ Cardinality(H \ D) = Cardinality(H) - Cardinality(D)
  BY <1>2, FS_Difference
<1> QED
  BY <1>1, <1>3, FS_CardinalityType

\* What there is together.
LEMMA Sum == \A a, b \in Nat : a + b \in Nat
  OBVIOUS

\* What is left.
LEMMA Remainder ==
  ASSUME NEW a \in Nat, NEW b \in Nat, b <= a
  PROVE  a - b \in Nat /\ a - b <= a
  OBVIOUS

\* What one task holds.
LEMMA OneTask ==
  ASSUME NEW t, NEW A, IsFiniteSet(A)
  PROVE  IsFiniteSet({t} \X A) /\ Cardinality({t} \X A) = Cardinality(A)
<1>1. IsFiniteSet({t}) /\ Cardinality({t}) = 1
  BY FS_Singleton
<1>2. IsFiniteSet({t} \X A) /\ Cardinality({t} \X A) = 1 * Cardinality(A)
  BY <1>1, FS_Product
<1> QED
  BY <1>2, FS_CardinalityType

----------------------------------------------------------------------------
(* References.                                                              *)

\* Refs counts holders, and no more than the pipe does.
LEMMA RefsFacts ==
  ASSUME RefsInv, NEW t \in Procs, NEW S \in SUBSET Slots, NEW i \in PipeIds, NEW w \in BOOLEAN
  PROVE  /\ Refs(t, S, i, w) \in Nat /\ Refs(t, S, i, w) <= Count(i, w) /\ Count(i, w) \in Nat
         /\ {t} \X At(t, S, i, w) \subseteq Holders(i, w)
         /\ IsFiniteSet({t} \X At(t, S, i, w))
         /\ Cardinality({t} \X At(t, S, i, w)) = Refs(t, S, i, w)
         /\ Refs(t, S, i, w) = 0 <=> At(t, S, i, w) = {}
<1> DEFINE A == At(t, S, i, w)
<1>1. IsFiniteSet(Slots)
  BY FS_Interval, SizesAssumption DEF Slots
<1>2. IsFiniteSet(A)
  BY <1>1, FS_Subset DEF At
<1>3. Refs(t, S, i, w) = Cardinality(A)
  BY DEF Refs, At, End
<1>4. {t} \X A \subseteq Holders(i, w)
  BY DEF At, Holders, End
<1>5. IsFiniteSet({t} \X A) /\ Cardinality({t} \X A) = Cardinality(A)
  BY <1>2, OneTask
<1>6. /\ IsFiniteSet(Holders(i, w)) /\ lost[End(i, w)] \in Nat
      /\ Count(i, w) = Cardinality(Holders(i, w)) + lost[End(i, w)]
  BY DEF RefsInv, Exact, PipesTypeOK, Ends, End
<1>7. Cardinality({t} \X A) <= Cardinality(Holders(i, w)) /\ Cardinality(Holders(i, w)) \in Nat
      /\ Cardinality(A) \in Nat /\ (Cardinality(A) = 0 <=> A = {})
  BY <1>2, <1>4, <1>6, FS_Subset, FS_CardinalityType, FS_EmptySet
<1> DEFINE x == Cardinality(A)
           y == Cardinality(Holders(i, w))
           z == lost[End(i, w)]
<1>8. x \in Nat /\ y \in Nat /\ z \in Nat /\ x <= y /\ Count(i, w) = y + z
  BY <1>5, <1>6, <1>7
<1> HIDE DEF x, y, z
<1>9. x <= Count(i, w) /\ Count(i, w) \in Nat
  BY <1>8
<1> QED
  BY <1>3, <1>4, <1>5, <1>7, <1>8, <1>9 DEF x

\* The entries after pipe_incref.
LEMMA WithRefsFacts ==
  ASSUME RefsInv, NEW t \in Procs, NEW S \in SUBSET Slots
  PROVE  /\ WithRefs(t, S) \in [PipeIds -> PipeSet]
         /\ \A i \in PipeIds :
               /\ WithRefs(t, S)[i].reads = pipe[i].reads + Refs(t, S, i, FALSE)
               /\ WithRefs(t, S)[i].writes = pipe[i].writes + Refs(t, S, i, TRUE)
               /\ WithRefs(t, S)[i].used = pipe[i].used
               /\ WithRefs(t, S)[i].count = pipe[i].count
               /\ WithRefs(t, S)[i].waiter = pipe[i].waiter
<1>1. \A i \in PipeIds : Refs(t, S, i, FALSE) \in Nat /\ Refs(t, S, i, TRUE) \in Nat
  BY RefsFacts
<1>2. \A i \in PipeIds : pipe[i] \in PipeSet
  BY DEF RefsInv, PipesTypeOK, PipeSet
<1> SUFFICES ASSUME NEW i \in PipeIds
             PROVE  /\ WithRefs(t, S)[i] \in PipeSet
                    /\ WithRefs(t, S)[i].reads = pipe[i].reads + Refs(t, S, i, FALSE)
                    /\ WithRefs(t, S)[i].writes = pipe[i].writes + Refs(t, S, i, TRUE)
                    /\ WithRefs(t, S)[i].used = pipe[i].used
                    /\ WithRefs(t, S)[i].count = pipe[i].count
                    /\ WithRefs(t, S)[i].waiter = pipe[i].waiter
  BY DEF WithRefs
<1> DEFINE r == pipe[i].reads + Refs(t, S, i, FALSE)
           w == pipe[i].writes + Refs(t, S, i, TRUE)
<1>3. WithRefs(t, S)[i] = [pipe[i] EXCEPT !.reads = r, !.writes = w]
  BY DEF WithRefs
<1>4. r \in Nat /\ w \in Nat /\ pipe[i] \in PipeSet
  <2>1. pipe[i].reads \in Nat /\ pipe[i].writes \in Nat
    BY <1>2 DEF PipeSet
  <2>2. Refs(t, S, i, FALSE) \in Nat /\ Refs(t, S, i, TRUE) \in Nat
    BY <1>1
  <2> QED
    BY <1>2, <2>1, <2>2, Sum
<1> HIDE DEF r, w
<1>5. [pipe[i] EXCEPT !.reads = r, !.writes = w] \in PipeSet
  BY <1>4 DEF PipeSet
<1> QED
  BY <1>3, <1>4, <1>5 DEF PipeSet, r, w

\* The entries after pipe_close_end.
LEMMA DroppedFacts ==
  ASSUME RefsInv, NEW t \in Procs, NEW S \in SUBSET Slots
  PROVE  /\ Dropped(t, S) \in [PipeIds -> PipeSet]
         /\ \A i \in PipeIds :
               /\ Dropped(t, S)[i].reads = pipe[i].reads - Refs(t, S, i, FALSE)
               /\ Dropped(t, S)[i].writes = pipe[i].writes - Refs(t, S, i, TRUE)
               /\ Dropped(t, S)[i].used <=> Dropped(t, S)[i].reads + Dropped(t, S)[i].writes > 0
               /\ Dropped(t, S)[i].count = pipe[i].count
               /\ Dropped(t, S)[i].waiter = IF pipe[i].waiter \in Woken(t, S) THEN Nobody
                                            ELSE pipe[i].waiter
<1> SUFFICES ASSUME NEW i \in PipeIds
             PROVE  /\ Dropped(t, S)[i] \in PipeSet
                    /\ Dropped(t, S)[i].reads = pipe[i].reads - Refs(t, S, i, FALSE)
                    /\ Dropped(t, S)[i].writes = pipe[i].writes - Refs(t, S, i, TRUE)
                    /\ Dropped(t, S)[i].used
                       <=> Dropped(t, S)[i].reads + Dropped(t, S)[i].writes > 0
                    /\ Dropped(t, S)[i].count = pipe[i].count
                    /\ Dropped(t, S)[i].waiter = IF pipe[i].waiter \in Woken(t, S) THEN Nobody
                                                 ELSE pipe[i].waiter
  BY DEF Dropped
<1> DEFINE r == pipe[i].reads - Refs(t, S, i, FALSE)
           w == pipe[i].writes - Refs(t, S, i, TRUE)
           u == pipe[i].used /\ (r > 0 \/ w > 0)
           q == IF pipe[i].waiter \in Woken(t, S) THEN Nobody ELSE pipe[i].waiter
<1>1. pipe[i] \in PipeSet /\ (pipe[i].used <=> pipe[i].reads + pipe[i].writes > 0)
  BY DEF RefsInv, PipesTypeOK, PipeSet
<1>2. r \in Nat /\ w \in Nat /\ r <= pipe[i].reads /\ w <= pipe[i].writes
  <2>1. /\ Refs(t, S, i, FALSE) \in Nat /\ Refs(t, S, i, TRUE) \in Nat
        /\ Refs(t, S, i, FALSE) <= pipe[i].reads /\ Refs(t, S, i, TRUE) <= pipe[i].writes
        /\ pipe[i].reads \in Nat /\ pipe[i].writes \in Nat
    <3>1. TRUE \in BOOLEAN /\ FALSE \in BOOLEAN
      OBVIOUS
    <3>2. Count(i, TRUE) = pipe[i].writes /\ Count(i, FALSE) = pipe[i].reads
      BY DEF Count
    <3>3. Refs(t, S, i, FALSE) \in Nat /\ Refs(t, S, i, FALSE) <= Count(i, FALSE)
          /\ Count(i, FALSE) \in Nat
      BY <3>1, RefsFacts
    <3>4. Refs(t, S, i, TRUE) \in Nat /\ Refs(t, S, i, TRUE) <= Count(i, TRUE)
          /\ Count(i, TRUE) \in Nat
      BY <3>1, RefsFacts
    <3> QED
      BY <3>2, <3>3, <3>4
  <2> QED
    BY <2>1, Remainder
<1>3. Dropped(t, S)[i] = [pipe[i] EXCEPT !.reads = r, !.writes = w, !.used = u, !.waiter = q]
  BY DEF Dropped
<1>4. u \in BOOLEAN /\ q \in Procs \cup {Nobody}
  BY <1>1 DEF PipeSet
<1>5. u <=> r + w > 0
  <2> DEFINE a == pipe[i].reads
             b == pipe[i].writes
  <2>1. /\ a \in Nat /\ b \in Nat /\ r \in Nat /\ w \in Nat /\ r <= a /\ w <= b
        /\ (pipe[i].used <=> a + b > 0)
        /\ (u <=> pipe[i].used /\ (r > 0 \/ w > 0))
    BY <1>1, <1>2 DEF PipeSet
  <2> HIDE DEF a, b, r, w, u
  <2>2. (r > 0 \/ w > 0) <=> r + w > 0
    BY <2>1
  <2>3. r + w > 0 => a + b > 0
    BY <2>1
  <2> QED
    BY <2>1, <2>2, <2>3
<1> HIDE DEF r, w, u, q
<1>6. [pipe[i] EXCEPT !.reads = r, !.writes = w, !.used = u, !.waiter = q] \in PipeSet
  BY <1>1, <1>2, <1>4 DEF PipeSet
<1>7. /\ Dropped(t, S)[i].reads = r /\ Dropped(t, S)[i].writes = w /\ Dropped(t, S)[i].used = u
      /\ Dropped(t, S)[i].count = pipe[i].count /\ Dropped(t, S)[i].waiter = q
  BY <1>1, <1>3 DEF PipeSet
<1> QED
  BY <1>3, <1>5, <1>6, <1>7 DEF r, w, q

----------------------------------------------------------------------------
(* The counts are exact.                                                    *)

\* An end of which more descriptors are made, each counted.
LEMMA ExactGrows ==
  ASSUME NEW i \in PipeIds, NEW w \in BOOLEAN, PipesTypeOK, Exact(i, w),
         NEW D, IsFiniteSet(D), Holders(i, w) \cap D = {},
         Holders(i, w)' = Holders(i, w) \cup D,
         Count(i, w)' = Count(i, w) + Cardinality(D), lost' = lost
  PROVE  Exact(i, w)'
<1> DEFINE x == Cardinality(Holders(i, w))
           y == Cardinality(D)
           z == lost[End(i, w)]
<1>1. IsFiniteSet(Holders(i, w)') /\ Cardinality(Holders(i, w)') = x + y
      /\ x \in Nat /\ y \in Nat
  BY CountGrows DEF Exact
<1>2. Count(i, w) = x + z /\ z \in Nat
  BY DEF Exact, PipesTypeOK, Ends, End
<1> HIDE DEF x, y, z
<1>3. x + z + y = x + y + z
  BY <1>1, <1>2
<1>4. Count(i, w)' = x + z + y
  BY <1>2 DEF y
<1> QED
  BY <1>1, <1>3, <1>4 DEF Exact, z, End

\* An end to which descriptors D no longer refer.
LEMMA ExactShrinks ==
  ASSUME NEW i \in PipeIds, NEW w \in BOOLEAN, PipesTypeOK, Exact(i, w),
         NEW D, D \subseteq Holders(i, w),
         Holders(i, w)' = Holders(i, w) \ D,
         Count(i, w)' = Count(i, w) - Cardinality(D), lost' = lost
  PROVE  Exact(i, w)'
<1> DEFINE x == Cardinality(Holders(i, w))
           y == Cardinality(D)
           z == lost[End(i, w)]
<1>1. IsFiniteSet(Holders(i, w)') /\ Cardinality(Holders(i, w)') = x - y
      /\ x \in Nat /\ y \in Nat
  BY CountShrinks DEF Exact
<1>2. Count(i, w) = x + z /\ z \in Nat
  BY DEF Exact, PipesTypeOK, Ends, End
<1> HIDE DEF x, y, z
<1>3. x + z - y = x - y + z
  BY <1>1, <1>2
<1>4. Count(i, w)' = x + z - y
  <2> DEFINE c == Count(i, w)
             d == Count(i, w)'
  <2>1. c = x + z /\ d = c - y /\ x \in Nat /\ y \in Nat /\ z \in Nat
    BY <1>1, <1>2 DEF y
  <2> HIDE DEF c, d
  <2>2. d = x + z - y
    BY <2>1
  <2> QED
    BY <2>2 DEF d
<1> QED
  BY <1>1, <1>3, <1>4 DEF Exact, z, End

\* A slot that is not a pipe's end is no end.
LEMMA NoFdIsNoEnd ==
  ASSUME NEW i \in PipeIds, NEW w
  PROVE  NoFd # End(i, w)
<1>1. i # 0
  BY DEF PipeIds
<1>2. NoFd.pipe = 0 /\ End(i, w).pipe = i
  BY DEF NoFd, End
<1> QED
  BY <1>1, <1>2

\* Who holds an end after fds[t] has become f.
LEMMA HoldersAfter ==
  ASSUME RefsInv, NEW t \in Procs, NEW f \in [Slots -> Ends \cup {NoFd}],
         fds' = [fds EXCEPT ![t] = f], NEW i, NEW w
  PROVE  /\ fds' \in [Procs -> [Slots -> Ends \cup {NoFd}]]
         /\ \A u \in Procs, s \in Slots :
               /\ <<u, s>> \in Holders(i, w) <=> fds[u][s] = End(i, w)
               /\ <<u, s>> \in Holders(i, w)'
                  <=> IF u = t THEN f[s] = End(i, w) ELSE <<u, s>> \in Holders(i, w)
<1>1. fds \in [Procs -> [Slots -> Ends \cup {NoFd}]]
  BY DEF RefsInv, PipesTypeOK
<1>2. \A u \in Procs, s \in Slots :
         /\ <<u, s>> \in Holders(i, w) <=> fds[u][s] = End(i, w)
         /\ <<u, s>> \in Holders(i, w)' <=> fds'[u][s] = End(i, w)
  BY DEF Holders, End
<1>3. \A u \in Procs : fds'[u] = IF u = t THEN f ELSE fds[u]
  BY <1>1
<1> QED
  BY <1>1, <1>2, <1>3

\* pipe_close_end for the descriptors S of t.
LEMMA CloseKeeps ==
  ASSUME RefsInv, NEW t \in Procs, NEW S \in SUBSET Slots, NEW q \in {"run", "zombie", "gone"},
         CloseFds(t, S, q), lost' = lost, inRead' \in [Procs -> PipeIds \cup {0}]
  PROVE  RefsInv'
<1>1. /\ pipe' = Dropped(t, S)
      /\ fds' = [fds EXCEPT ![t] = Empty(t, S)]
      /\ pstate' = [u \in Procs |-> IF u = t THEN q
                                    ELSE IF u \in Woken(t, S) THEN "run" ELSE pstate[u]]
  BY DEF CloseFds
<1>2. Empty(t, S) \in [Slots -> Ends \cup {NoFd}]
  BY DEF RefsInv, PipesTypeOK, Empty
<1>3. PipesTypeOK'
  <2>1. fds' \in [Procs -> [Slots -> Ends \cup {NoFd}]]
    BY <1>1, <1>2, HoldersAfter
  <2>2. pipe' \in [PipeIds -> PipeSet]
    BY <1>1, DroppedFacts
  <2>3. pstate' \in [Procs -> {"unborn", "run", "blocked", "zombie", "gone"}]
    BY <1>1 DEF RefsInv, PipesTypeOK
  <2>4. lost' \in [Ends -> Nat]
    BY DEF RefsInv, PipesTypeOK
  <2> QED
    BY <2>1, <2>2, <2>3, <2>4 DEF PipesTypeOK, PipeSet
<1>4. UnbornHasNone'
  <2> SUFFICES ASSUME NEW u \in Procs, pstate'[u] = "unborn", NEW s \in Slots
               PROVE  fds'[u][s] = NoFd
    BY DEF UnbornHasNone, Unborn
  <2>1. u # t /\ pstate[u] = "unborn"
    BY <1>1
  <2>2. fds'[u] = fds[u]
    BY <1>1, <2>1 DEF RefsInv, PipesTypeOK
  <2> QED
    BY <2>1, <2>2 DEF RefsInv, UnbornHasNone, Unborn
<1>5. ASSUME NEW i \in PipeIds, NEW w \in BOOLEAN PROVE Exact(i, w)'
  <2> DEFINE D == {t} \X At(t, S, i, w)
  <2>1. D \subseteq Holders(i, w) /\ Cardinality(D) = Refs(t, S, i, w)
    BY RefsFacts
  <2>2. Holders(i, w)' = Holders(i, w) \ D
    <3>2. \A h \in Holders(i, w) \cup Holders(i, w)' : h \in Procs \X Slots
      BY DEF Holders
    <3>1. \A u \in Procs, s \in Slots :
             /\ <<u, s>> \in Holders(i, w) <=> fds[u][s] = End(i, w)
             /\ <<u, s>> \in Holders(i, w)'
                <=> IF u = t THEN Empty(t, S)[s] = End(i, w) ELSE <<u, s>> \in Holders(i, w)
      <4> DEFINE f == Empty(t, S)
      <4>1. f \in [Slots -> Ends \cup {NoFd}] /\ fds' = [fds EXCEPT ![t] = f]
        BY <1>1, <1>2
      <4> HIDE DEF f
      <4>2. \A u \in Procs, s \in Slots :
               /\ <<u, s>> \in Holders(i, w) <=> fds[u][s] = End(i, w)
               /\ <<u, s>> \in Holders(i, w)'
                  <=> IF u = t THEN f[s] = End(i, w) ELSE <<u, s>> \in Holders(i, w)
        BY <4>1, HoldersAfter
      <4> QED
        BY <4>2 DEF f
    <3>3. ASSUME NEW u \in Procs, NEW s \in Slots
          PROVE  <<u, s>> \in Holders(i, w)' <=> <<u, s>> \in Holders(i, w) \ D
      <4>1. /\ <<u, s>> \in Holders(i, w) <=> fds[u][s] = End(i, w)
            /\ <<u, s>> \in Holders(i, w)'
               <=> IF u = t THEN Empty(t, S)[s] = End(i, w) ELSE <<u, s>> \in Holders(i, w)
        BY <3>1
      <4>2. Empty(t, S)[s] = IF s \in S THEN NoFd ELSE fds[t][s]
        BY DEF Empty
      <4>3. <<u, s>> \in D <=> u = t /\ s \in S /\ fds[t][s] = End(i, w)
        BY DEF At
      <4>4. NoFd # End(i, w)
        BY NoFdIsNoEnd
      <4> QED
        BY <4>1, <4>2, <4>3, <4>4
    <3> QED
      BY <3>2, <3>3
  <2>3. Count(i, w)' = Count(i, w) - Refs(t, S, i, w)
    <3>1. CASE w = TRUE
      BY <1>1, <3>1, DroppedFacts DEF Count
    <3>2. CASE w = FALSE
      BY <1>1, <3>2, DroppedFacts DEF Count
    <3> QED
      BY <3>1, <3>2
  <2>4. PipesTypeOK /\ Exact(i, w)
    BY DEF RefsInv
  <2> HIDE DEF D
  <2> QED
    BY <2>1, <2>2, <2>3, <2>4, ExactShrinks
<1>6. \A i \in PipeIds : pipe'[i].used <=> pipe'[i].reads + pipe'[i].writes > 0
  BY <1>1, DroppedFacts
<1> QED
  BY <1>3, <1>4, <1>5, <1>6 DEF RefsInv

\* A step that moves no reference.
LEMMA SameRefsKeep ==
  ASSUME RefsInv, PipesTypeOK', fds' = fds, lost' = lost,
         \A i \in PipeIds : /\ pipe'[i].reads = pipe[i].reads /\ pipe'[i].writes = pipe[i].writes
                            /\ pipe'[i].used = pipe[i].used,
         \A u \in Procs : pstate'[u] = "unborn" => pstate[u] = "unborn"
  PROVE  RefsInv'
<1>1. UnbornHasNone'
  BY DEF RefsInv, UnbornHasNone, Unborn
<1>2. \A i \in PipeIds : \A w \in BOOLEAN : Exact(i, w)'
  <2> SUFFICES ASSUME NEW i \in PipeIds, NEW w \in BOOLEAN PROVE Exact(i, w)'
    OBVIOUS
  <2>1. Holders(i, w)' = Holders(i, w)
    BY DEF Holders
  <2>2. Count(i, w)' = Count(i, w)
    BY DEF Count
  <2>3. Exact(i, w)
    BY DEF RefsInv
  <2> QED
    BY <2>1, <2>2, <2>3 DEF Exact
<1>3. \A i \in PipeIds : pipe'[i].used <=> pipe'[i].reads + pipe'[i].writes > 0
  BY DEF RefsInv
<1> QED
  BY <1>1, <1>2, <1>3 DEF RefsInv

\* pipe_incref for the descriptors S of t, where as many more refer to each end.
LEMMA IncrefKeeps ==
  ASSUME RefsInv, NEW t \in Procs, NEW S \in SUBSET Slots, pipe' = WithRefs(t, S),
         lost' = lost, inRead' = inRead,
         pstate' \in [Procs -> {"unborn", "run", "blocked", "zombie", "gone"}],
         fds' \in [Procs -> [Slots -> Ends \cup {NoFd}]], UnbornHasNone',
         \A i \in PipeIds : \A w \in BOOLEAN :
            \E D : /\ IsFiniteSet(D) /\ Cardinality(D) = Refs(t, S, i, w)
                   /\ Holders(i, w) \cap D = {} /\ Holders(i, w)' = Holders(i, w) \cup D
  PROVE  RefsInv'
<1>1. PipesTypeOK'
  <2>1. pipe' \in [PipeIds -> PipeSet]
    BY WithRefsFacts
  <2> QED
    BY <2>1 DEF RefsInv, PipesTypeOK, PipeSet
<1>2. ASSUME NEW i \in PipeIds, NEW w \in BOOLEAN PROVE Exact(i, w)'
  <2>1. PICK D : /\ IsFiniteSet(D) /\ Cardinality(D) = Refs(t, S, i, w)
                 /\ Holders(i, w) \cap D = {} /\ Holders(i, w)' = Holders(i, w) \cup D
    OBVIOUS
  <2>2. Count(i, w)' = Count(i, w) + Refs(t, S, i, w)
    <3>1. CASE w = TRUE
      BY <3>1, WithRefsFacts DEF Count
    <3>2. CASE w = FALSE
      BY <3>2, WithRefsFacts DEF Count
    <3> QED
      BY <3>1, <3>2
  <2>3. PipesTypeOK /\ Exact(i, w)
    BY DEF RefsInv
  <2> QED
    BY <2>1, <2>2, <2>3, ExactGrows
<1>3. ASSUME NEW i \in PipeIds PROVE pipe'[i].used <=> pipe'[i].reads + pipe'[i].writes > 0
  <2> DEFINE a == pipe[i].reads
             b == pipe[i].writes
             r == Refs(t, S, i, FALSE)
             w == Refs(t, S, i, TRUE)
  <2>1. pipe'[i].reads = a + r /\ pipe'[i].writes = b + w /\ pipe'[i].used = pipe[i].used
        /\ (pipe[i].used <=> a + b > 0)
    <3>1. /\ WithRefs(t, S)[i].reads = a + r /\ WithRefs(t, S)[i].writes = b + w
          /\ WithRefs(t, S)[i].used = pipe[i].used
      BY WithRefsFacts, ZenonT(60)
    <3>2. pipe[i].used <=> a + b > 0
      BY DEF RefsInv
    <3> HIDE DEF a, b, r, w
    <3>3. pipe'[i] = WithRefs(t, S)[i]
      OBVIOUS
    <3> QED
      BY <3>1, <3>2, <3>3
  <2>2. /\ r \in Nat /\ w \in Nat /\ a \in Nat /\ b \in Nat /\ r <= a /\ w <= b
    <3>1. Count(i, TRUE) = b /\ Count(i, FALSE) = a
      BY DEF Count
    <3>2. r \in Nat /\ r <= Count(i, FALSE) /\ Count(i, FALSE) \in Nat
      BY RefsFacts
    <3>3. w \in Nat /\ w <= Count(i, TRUE) /\ Count(i, TRUE) \in Nat
      BY RefsFacts
    <3> QED
      BY <3>1, <3>2, <3>3
  <2> HIDE DEF a, b, r, w
  <2>3. (a + r) + (b + w) > 0 <=> a + b > 0
    BY <2>2
  <2> QED
    BY <2>1, <2>3
<1> QED
  BY <1>1, <1>2, <1>3 DEF RefsInv

\* One descriptor refers to one end.
LEMMA OneRef ==
  ASSUME NEW t \in Procs, NEW s \in Slots, NEW i \in PipeIds, NEW w \in BOOLEAN
  PROVE  /\ At(t, {s}, i, w) = IF fds[t][s] = End(i, w) THEN {s} ELSE {}
         /\ Refs(t, {s}, i, w) = IF fds[t][s] = End(i, w) THEN 1 ELSE 0
<1>1. Refs(t, {s}, i, w) = Cardinality(At(t, {s}, i, w))
  BY DEF Refs, At, End
<1>2. fds[t][s] = End(i, w) => At(t, {s}, i, w) = {s}
  BY DEF At
<1>3. fds[t][s] # End(i, w) => At(t, {s}, i, w) = {}
  BY DEF At
<1>4. Cardinality({s}) = 1 /\ Cardinality({}) = 0
  BY FS_Singleton, FS_EmptySet
<1> QED
  BY <1>1, <1>2, <1>3, <1>4

\* dup.
LEMMA DupKeeps ==
  ASSUME RefsInv, NEW t \in Procs, NEW s \in Slots, FdDup(t, s)
  PROVE  RefsInv'
<1> DEFINE l == LowestFree(t)
           f == [fds[t] EXCEPT ![l] = fds[t][s]]
<1>1. l \in Slots /\ fds[t][l] = NoFd
  BY FreeFacts DEF FdDup, FreeSlots
<1>2. /\ pipe' = WithRefs(t, {s}) /\ lost' = lost /\ inRead' = inRead /\ pstate' = pstate
      /\ fds' = [fds EXCEPT ![t] = f] /\ pstate[t] = "run"
  BY DEF FdDup, Calls
<1>3. f \in [Slots -> Ends \cup {NoFd}] /\ fds[t] \in [Slots -> Ends \cup {NoFd}]
  BY <1>1 DEF RefsInv, PipesTypeOK
<1>4. \A x \in Slots : f[x] = IF x = l THEN fds[t][s] ELSE fds[t][x]
  BY <1>1, <1>3
<1> HIDE DEF f, l
<1>5. fds' \in [Procs -> [Slots -> Ends \cup {NoFd}]]
  BY <1>2, <1>3, HoldersAfter
<1>6. UnbornHasNone'
  BY <1>2 DEF RefsInv, UnbornHasNone, Unborn, PipesTypeOK
<1>7. ASSUME NEW i \in PipeIds, NEW w \in BOOLEAN
      PROVE  \E D : /\ IsFiniteSet(D) /\ Cardinality(D) = Refs(t, {s}, i, w)
                    /\ Holders(i, w) \cap D = {} /\ Holders(i, w)' = Holders(i, w) \cup D
  <2> DEFINE D == {t} \X (IF fds[t][s] = End(i, w) THEN {l} ELSE {})
  <2>1. IsFiniteSet(D) /\ Cardinality(D) = Refs(t, {s}, i, w)
    <3> DEFINE B == IF fds[t][s] = End(i, w) THEN {l} ELSE {}
    <3>1. Refs(t, {s}, i, w) = IF fds[t][s] = End(i, w) THEN 1 ELSE 0
      BY OneRef
    <3>2. IsFiniteSet(B) /\ Cardinality(B) = Refs(t, {s}, i, w)
      <4>1. CASE fds[t][s] = End(i, w)
        <5>1. Refs(t, {s}, i, w) = 1
          BY <3>1, <4>1
        <5>2. B = {l}
          BY <4>1
        <5> HIDE DEF B
        <5> QED
          BY <5>1, <5>2, FS_Singleton
      <4>2. CASE fds[t][s] # End(i, w)
        <5>1. Refs(t, {s}, i, w) = 0
          BY <3>1, <4>2
        <5>2. B = {}
          BY <4>2
        <5> HIDE DEF B
        <5> QED
          BY <5>1, <5>2, FS_EmptySet
      <4> QED
        BY <4>1, <4>2
    <3> HIDE DEF B
    <3> QED
      BY <3>2, OneTask DEF B
  <2>2. \A u \in Procs, x \in Slots :
           /\ <<u, x>> \in Holders(i, w) <=> fds[u][x] = End(i, w)
           /\ <<u, x>> \in Holders(i, w)'
              <=> IF u = t THEN f[x] = End(i, w) ELSE <<u, x>> \in Holders(i, w)
    BY <1>2, <1>3, HoldersAfter
  <2>3. \A u, x : <<u, x>> \in D <=> u = t /\ x = l /\ fds[t][s] = End(i, w)
    OBVIOUS
  <2>4. \A h \in Holders(i, w) \cup Holders(i, w)' \cup D :
           h \in Procs \X Slots
    BY <1>1 DEF Holders
  <2>5. NoFd # End(i, w)
    BY NoFdIsNoEnd
  <2> HIDE DEF D
  <2>6. \A u \in Procs, x \in Slots :
           /\ <<u, x>> \in Holders(i, w)' <=> <<u, x>> \in Holders(i, w) \cup D
           /\ <<u, x>> \notin Holders(i, w) \cap D
    <3> TAKE u \in Procs, x \in Slots
    <3> DEFINE held == <<u, x>> \in Holders(i, w)
               holds == <<u, x>> \in Holders(i, w)'
               new == <<u, x>> \in D
    <3>1. /\ held <=> fds[u][x] = End(i, w)
          /\ holds <=> IF u = t THEN f[x] = End(i, w) ELSE held
      BY <2>2
    <3>2. new <=> u = t /\ x = l /\ fds[t][s] = End(i, w)
      BY <2>3
    <3>3. x = l => f[x] = fds[t][s]
      BY <1>4
    <3>4. x # l => f[x] = fds[t][x]
      BY <1>4
    <3>5. fds[t][l] # End(i, w)
      BY <1>1, <2>5
    <3> HIDE DEF held, holds, new
    <3>6. (holds <=> held \/ new) /\ ~(held /\ new)
      <4>1. CASE u = t /\ x = l
        BY <3>1, <3>2, <3>3, <3>5, <4>1
      <4>2. CASE u = t /\ x # l
        BY <3>1, <3>2, <3>4, <4>2
      <4>3. CASE u # t
        BY <3>1, <3>2, <4>3
      <4> QED
        BY <4>1, <4>2, <4>3
    <3> QED
      BY <3>6 DEF held, holds, new
  <2>7. Holders(i, w) \cap D = {} /\ Holders(i, w)' = Holders(i, w) \cup D
    BY <2>4, <2>6
  <2> QED
    BY <2>1, <2>7
<1>8. {s} \in SUBSET Slots /\ pstate' \in [Procs -> {"unborn", "run", "blocked", "zombie", "gone"}]
  BY <1>2 DEF RefsInv, PipesTypeOK
<1> QED
  BY <1>2, <1>5, <1>6, <1>7, <1>8, IncrefKeeps

\* do_fork.
LEMMA ForkKeeps ==
  ASSUME RefsInv, NEW t \in Procs, NEW c \in Procs, PipeFork(t, c)
  PROVE  RefsInv'
<1>1. /\ c \in Unborn /\ c # t /\ pipe' = WithRefs(t, Slots) /\ lost' = lost /\ inRead' = inRead
      /\ pstate' = [pstate EXCEPT ![c] = "run"] /\ fds' = [fds EXCEPT ![c] = fds[t]]
  BY DEF PipeFork, Calls, Unborn
<1>2. fds[t] \in [Slots -> Ends \cup {NoFd}]
  BY DEF RefsInv, PipesTypeOK
<1>3. \A x \in Slots : fds[c][x] = NoFd
  BY <1>1 DEF RefsInv, UnbornHasNone
<1>4. fds' \in [Procs -> [Slots -> Ends \cup {NoFd}]]
  BY <1>1, <1>2, HoldersAfter
<1>5. pstate' \in [Procs -> {"unborn", "run", "blocked", "zombie", "gone"}]
  BY <1>1 DEF RefsInv, PipesTypeOK
<1>6. UnbornHasNone'
  BY <1>1 DEF RefsInv, UnbornHasNone, Unborn, PipesTypeOK
<1>7. ASSUME NEW i \in PipeIds, NEW w \in BOOLEAN
      PROVE  \E D : /\ IsFiniteSet(D) /\ Cardinality(D) = Refs(t, Slots, i, w)
                    /\ Holders(i, w) \cap D = {} /\ Holders(i, w)' = Holders(i, w) \cup D
  <2> DEFINE A == At(t, Slots, i, w)
             D == {c} \X A
  <2>1. IsFiniteSet(D) /\ Cardinality(D) = Refs(t, Slots, i, w)
    <3>1. IsFiniteSet(Slots)
      BY FS_Interval, SizesAssumption DEF Slots
    <3>2. IsFiniteSet(A)
      BY <3>1, FS_Subset DEF At
    <3>3. Refs(t, Slots, i, w) = Cardinality(A)
      BY DEF Refs, At, End
    <3> QED
      BY <3>2, <3>3, OneTask
  <2>2. \A u \in Procs, x \in Slots :
           /\ <<u, x>> \in Holders(i, w) <=> fds[u][x] = End(i, w)
           /\ <<u, x>> \in Holders(i, w)'
              <=> IF u = c THEN fds[t][x] = End(i, w) ELSE <<u, x>> \in Holders(i, w)
    BY <1>1, <1>2, HoldersAfter
  <2>3. \A u, x : <<u, x>> \in D <=> u = c /\ x \in Slots /\ fds[t][x] = End(i, w)
    BY DEF At
  <2>4. \A h \in Holders(i, w) \cup Holders(i, w)' \cup D :
           h \in Procs \X Slots
    BY DEF Holders, At
  <2>5. NoFd # End(i, w)
    BY NoFdIsNoEnd
  <2> HIDE DEF D
  <2>6. \A u \in Procs, x \in Slots :
           /\ <<u, x>> \in Holders(i, w)' <=> <<u, x>> \in Holders(i, w) \cup D
           /\ <<u, x>> \notin Holders(i, w) \cap D
    BY <1>3, <2>2, <2>3, <2>5
  <2>7. Holders(i, w) \cap D = {} /\ Holders(i, w)' = Holders(i, w) \cup D
    BY <2>4, <2>6
  <2> QED
    BY <2>1, <2>7
<1> QED
  BY <1>1, <1>4, <1>5, <1>6, <1>7, IncrefKeeps

\* dup2: s is closed first, then it refers to what r refers to.
LEMMA Dup2Keeps ==
  ASSUME RefsInv, NEW t \in Procs, NEW r \in Slots, NEW s \in Slots, FdDup2(t, r, s)
  PROVE  RefsInv'
<1> DEFINE f == [fds[t] EXCEPT ![s] = fds[t][r]]
           was == Dropped(t, {s})
<1>1. /\ r # s /\ lost' = lost /\ inRead' = inRead /\ pstate[t] = "run"
      /\ fds' = [fds EXCEPT ![t] = f]
      /\ pipe' = [i \in PipeIds |-> [was[i] EXCEPT !.reads = @ + Refs(t, {r}, i, FALSE),
                                                   !.writes = @ + Refs(t, {r}, i, TRUE)]]
      /\ pstate' = [u \in Procs |-> IF u \in Woken(t, {s}) THEN "run" ELSE pstate[u]]
  BY DEF FdDup2, Calls
<1>2. f \in [Slots -> Ends \cup {NoFd}] /\ \A x \in Slots : f[x] = IF x = s THEN fds[t][r] ELSE fds[t][x]
  BY DEF RefsInv, PipesTypeOK
<1> HIDE DEF f
<1>3. /\ was \in [PipeIds -> PipeSet]
      /\ \A i \in PipeIds :
            /\ was[i].reads = pipe[i].reads - Refs(t, {s}, i, FALSE)
            /\ was[i].writes = pipe[i].writes - Refs(t, {s}, i, TRUE)
            /\ was[i].used <=> was[i].reads + was[i].writes > 0
  <2>1. {s} \in SUBSET Slots
    OBVIOUS
  <2> QED
    BY <2>1, DroppedFacts
<1> HIDE DEF was
<1>4. \A i \in PipeIds : Refs(t, {r}, i, FALSE) \in Nat /\ Refs(t, {r}, i, TRUE) \in Nat
  <2>1. {r} \in SUBSET Slots
    OBVIOUS
  <2> QED
    BY <2>1, RefsFacts
<1>5. ASSUME NEW i \in PipeIds
      PROVE  /\ pipe'[i] \in PipeSet /\ pipe'[i].used = was[i].used
             /\ pipe'[i].reads = was[i].reads + Refs(t, {r}, i, FALSE)
             /\ pipe'[i].writes = was[i].writes + Refs(t, {r}, i, TRUE)
  <2> DEFINE a == was[i].reads + Refs(t, {r}, i, FALSE)
             b == was[i].writes + Refs(t, {r}, i, TRUE)
  <2>1. pipe'[i] = [was[i] EXCEPT !.reads = a, !.writes = b] /\ was[i] \in PipeSet
    BY <1>1, <1>3
  <2>2. a \in Nat /\ b \in Nat
    <3>1. was[i].reads \in Nat /\ was[i].writes \in Nat
      BY <2>1 DEF PipeSet
    <3>2. Refs(t, {r}, i, FALSE) \in Nat /\ Refs(t, {r}, i, TRUE) \in Nat
      BY <1>4
    <3> QED
      BY <3>1, <3>2, Sum
  <2> HIDE DEF a, b
  <2>3. pipe'[i] \in PipeSet /\ pipe'[i].used = was[i].used /\ pipe'[i].reads = a /\ pipe'[i].writes = b
    BY <2>1, <2>2 DEF PipeSet
  <2> QED
    BY <2>3 DEF a, b
<1>6. PipesTypeOK'
  <2>1. fds' \in [Procs -> [Slots -> Ends \cup {NoFd}]]
    BY <1>1, <1>2, HoldersAfter
  <2>2. pipe' \in [PipeIds -> PipeSet]
    <3>1. pipe' = [i \in PipeIds |-> pipe'[i]]
      BY <1>1
    <3> QED
      BY <1>5, <3>1
  <2>3. pstate' \in [Procs -> {"unborn", "run", "blocked", "zombie", "gone"}]
    BY <1>1 DEF RefsInv, PipesTypeOK
  <2> QED
    BY <1>1, <2>1, <2>2, <2>3 DEF RefsInv, PipesTypeOK, PipeSet
<1>7. UnbornHasNone'
  <2> SUFFICES ASSUME NEW u \in Procs, pstate'[u] = "unborn", NEW x \in Slots
               PROVE  fds'[u][x] = NoFd
    BY DEF UnbornHasNone, Unborn
  <2>1. pstate[u] = "unborn" /\ u # t
    BY <1>1
  <2>2. fds'[u] = fds[u]
    BY <1>1, <2>1 DEF RefsInv, PipesTypeOK
  <2> QED
    BY <2>1, <2>2 DEF RefsInv, UnbornHasNone, Unborn
<1>8. ASSUME NEW i \in PipeIds, NEW w \in BOOLEAN
      PROVE  /\ Exact(i, w)'
             /\ Count(i, w)' = Count(i, w) - Refs(t, {s}, i, w) + Refs(t, {r}, i, w)
             /\ Refs(t, {r}, i, w) > 0 => Count(i, w) - Refs(t, {s}, i, w) > 0
  <2> DEFINE H == Holders(i, w)
             D == {t} \X At(t, {s}, i, w)
             B == IF fds[t][r] = End(i, w) THEN {s} ELSE {}
             N == {t} \X B
  <2>1. /\ D \subseteq H /\ Cardinality(D) = Refs(t, {s}, i, w)
        /\ Refs(t, {s}, i, w) \in Nat
    <3>1. {s} \in SUBSET Slots
      OBVIOUS
    <3> QED
      BY <3>1, RefsFacts
  <2>2. /\ At(t, {s}, i, w) = IF fds[t][s] = End(i, w) THEN {s} ELSE {}
        /\ Refs(t, {r}, i, w) = IF fds[t][r] = End(i, w) THEN 1 ELSE 0
    BY OneRef
  <2>3. IsFiniteSet(N) /\ Cardinality(N) = Refs(t, {r}, i, w) /\ Refs(t, {r}, i, w) \in Nat
    <3>1. IsFiniteSet(B) /\ Cardinality(B) = Refs(t, {r}, i, w)
      <4>1. CASE fds[t][r] = End(i, w)
        <5>1. Refs(t, {r}, i, w) = 1 /\ B = {s}
          BY <2>2, <4>1
        <5> HIDE DEF B
        <5> QED
          BY <5>1, FS_Singleton
      <4>2. CASE fds[t][r] # End(i, w)
        <5>1. Refs(t, {r}, i, w) = 0 /\ B = {}
          BY <2>2, <4>2
        <5> HIDE DEF B
        <5> QED
          BY <5>1, FS_EmptySet
      <4> QED
        BY <4>1, <4>2
    <3> HIDE DEF B
    <3> QED
      BY <3>1, OneTask, FS_CardinalityType
  <2>4. \A u \in Procs, x \in Slots :
           /\ <<u, x>> \in H <=> fds[u][x] = End(i, w)
           /\ <<u, x>> \in H' <=> IF u = t THEN f[x] = End(i, w) ELSE <<u, x>> \in H
    BY <1>1, <1>2, HoldersAfter
  <2>5. /\ \A u, x : <<u, x>> \in D <=> u = t /\ x = s /\ fds[t][s] = End(i, w)
        /\ \A u, x : <<u, x>> \in N <=> u = t /\ x = s /\ fds[t][r] = End(i, w)
    BY <2>2
  <2>6. \A h \in H \cup H' \cup N : h \in Procs \X Slots
    BY DEF Holders
  <2>7. Count(i, w)' = Count(i, w) - Refs(t, {s}, i, w) + Refs(t, {r}, i, w)
    <3>1. CASE w = TRUE
      BY <1>3, <1>5, <3>1 DEF Count
    <3>2. CASE w = FALSE
      BY <1>3, <1>5, <3>2 DEF Count
    <3> QED
      BY <3>1, <3>2
  <2>8. Refs(t, {r}, i, w) > 0 => <<t, r>> \in H \ D
    <3>1. <<t, r>> \in H <=> fds[t][r] = End(i, w)
      BY <2>4
    <3>2. <<t, r>> \notin D
      BY <1>1, <2>5
    <3> QED
      BY <2>2, <3>1, <3>2
  <2>9. IsFiniteSet(H) /\ Count(i, w) = Cardinality(H) + lost[End(i, w)] /\ lost[End(i, w)] \in Nat
    BY DEF RefsInv, Exact, PipesTypeOK, Ends, End
  <2> HIDE DEF D, N, B, H
  <2>10. (H \ D) \cap N = {} /\ H' = (H \ D) \cup N
    <3>1. ASSUME NEW u \in Procs, NEW x \in Slots
          PROVE  /\ <<u, x>> \in H' <=> <<u, x>> \in (H \ D) \cup N
                 /\ <<u, x>> \notin (H \ D) \cap N
      <4> DEFINE held == <<u, x>> \in H
                 holds == <<u, x>> \in H'
                 old == <<u, x>> \in D
                 new == <<u, x>> \in N
      <4>1. /\ held <=> fds[u][x] = End(i, w)
            /\ holds <=> IF u = t THEN f[x] = End(i, w) ELSE held
        BY <2>4
      <4>2. /\ old <=> u = t /\ x = s /\ fds[t][s] = End(i, w)
            /\ new <=> u = t /\ x = s /\ fds[t][r] = End(i, w)
        BY <2>5
      <4>3. /\ x = s => f[x] = fds[t][r]
            /\ x # s => f[x] = fds[t][x]
        BY <1>2
      <4> HIDE DEF held, holds, old, new
      <4>4. (holds <=> (held /\ ~old) \/ new) /\ ~((held /\ ~old) /\ new)
        <5>1. CASE u = t /\ x = s
          BY <4>1, <4>2, <4>3, <5>1
        <5>2. CASE u = t /\ x # s
          BY <4>1, <4>2, <4>3, <5>2
        <5>3. CASE u # t
          BY <4>1, <4>2, <5>3
        <5> QED
          BY <5>1, <5>2, <5>3
      <4> QED
        BY <4>4 DEF held, holds, old, new
    <3> QED
      BY <2>6, <3>1
  <2>11. /\ IsFiniteSet(H \ D) /\ Cardinality(H \ D) = Cardinality(H) - Cardinality(D)
         /\ Cardinality(H) \in Nat /\ Cardinality(D) \in Nat /\ Cardinality(D) <= Cardinality(H)
    BY <2>1, <2>9, CountShrinks
  <2>12. /\ IsFiniteSet(H') /\ Cardinality(H') = Cardinality(H \ D) + Cardinality(N)
    BY <2>3, <2>10, <2>11, CountGrows
  <2>13. Refs(t, {r}, i, w) > 0 => Cardinality(H \ D) # 0
    BY <2>8, <2>11, FS_EmptySet
  <2> DEFINE c == Count(i, w)
             k == Cardinality(H)
             d == Refs(t, {s}, i, w)
             n == Refs(t, {r}, i, w)
             z == lost[End(i, w)]
  <2>14. /\ k \in Nat /\ d \in Nat /\ d <= k /\ z \in Nat /\ n \in Nat /\ c = k + z
         /\ Cardinality(H \ D) = k - d /\ Cardinality(H') = Cardinality(H \ D) + n
         /\ n > 0 => Cardinality(H \ D) # 0
    BY <2>1, <2>3, <2>9, <2>11, <2>12, <2>13
  <2>15. Count(i, w)' = c - d + n
    BY <2>7
  <2> HIDE DEF c, k, d, n, z
  <2>16. c - d + n = Cardinality(H') + z /\ (n > 0 => c - d > 0)
    BY <2>14
  <2>17. lost'[End(i, w)] = z
    BY <1>1 DEF z
  <2>18. Exact(i, w)'
    BY <2>12, <2>15, <2>16, <2>17 DEF Exact, H, End
  <2> QED
    BY <2>15, <2>16, <2>18 DEF c, d, n
<1>9. ASSUME NEW i \in PipeIds PROVE pipe'[i].used <=> pipe'[i].reads + pipe'[i].writes > 0
  <2> DEFINE a == was[i].reads
             b == was[i].writes
             m == Refs(t, {r}, i, FALSE)
             n == Refs(t, {r}, i, TRUE)
  <2>1. /\ pipe'[i].reads = a + m /\ pipe'[i].writes = b + n /\ pipe'[i].used = was[i].used
        /\ (was[i].used <=> a + b > 0)
    BY <1>3, <1>5
  <2>2. m \in Nat /\ n \in Nat /\ a \in Nat /\ b \in Nat
    BY <1>3, <1>4 DEF PipeSet
  <2>3. Count(i, TRUE) = pipe[i].writes /\ Count(i, FALSE) = pipe[i].reads
    BY DEF Count
  <2>4. m > 0 => a > 0
    <3>1. Refs(t, {r}, i, FALSE) > 0 => Count(i, FALSE) - Refs(t, {s}, i, FALSE) > 0
      BY <1>8
    <3> QED
      BY <1>3, <2>3, <3>1
  <2>5. n > 0 => b > 0
    <3>1. Refs(t, {r}, i, TRUE) > 0 => Count(i, TRUE) - Refs(t, {s}, i, TRUE) > 0
      BY <1>8
    <3> QED
      BY <1>3, <2>3, <3>1
  <2> HIDE DEF a, b, m, n
  <2>6. (a + m) + (b + n) > 0 <=> a + b > 0
    BY <2>2, <2>4, <2>5
  <2> QED
    BY <2>1, <2>6
<1> QED
  BY <1>6, <1>7, <1>8, <1>9 DEF RefsInv

\* do_fork that fails: its references stay.
LEMMA ForkFailsKeeps ==
  ASSUME RefsInv, NEW t \in Procs, NEW c \in Procs, PipeForkFails(t, c)
  PROVE  RefsInv'
<1>1. /\ pstate' = [pstate EXCEPT ![c] = "gone"] /\ pipe' = WithRefs(t, Slots)
      /\ lost' = [e \in Ends |-> lost[e] + Refs(t, Slots, e.pipe, e.write)]
      /\ inRead' = inRead /\ fds' = fds
  BY DEF PipeForkFails
<1>2. ASSUME NEW i \in PipeIds, NEW w \in BOOLEAN
      PROVE  /\ lost'[End(i, w)] = lost[End(i, w)] + Refs(t, Slots, i, w)
             /\ lost[End(i, w)] \in Nat /\ Refs(t, Slots, i, w) \in Nat
             /\ Refs(t, Slots, i, w) <= Count(i, w) /\ Count(i, w) \in Nat
             /\ Count(i, w)' = Count(i, w) + Refs(t, Slots, i, w)
  <2>1. End(i, w) \in Ends /\ End(i, w).pipe = i /\ End(i, w).write = w
    BY DEF Ends, End
  <2>2. Refs(t, Slots, i, w) \in Nat /\ Refs(t, Slots, i, w) <= Count(i, w) /\ Count(i, w) \in Nat
    <3>1. Slots \in SUBSET Slots
      OBVIOUS
    <3> QED
      BY <3>1, RefsFacts
  <2>3. Count(i, w)' = Count(i, w) + Refs(t, Slots, i, w)
    <3>1. CASE w = TRUE
      BY <1>1, <3>1, WithRefsFacts DEF Count
    <3>2. CASE w = FALSE
      BY <1>1, <3>2, WithRefsFacts DEF Count
    <3> QED
      BY <3>1, <3>2
  <2>4. lost'[End(i, w)] = lost[End(i, w)] + Refs(t, Slots, i, w)
    BY <1>1, <2>1
  <2>5. lost[End(i, w)] \in Nat
    BY <2>1 DEF RefsInv, PipesTypeOK
  <2> QED
    BY <2>2, <2>3, <2>4, <2>5
<1>3. PipesTypeOK'
  <2>1. pipe' \in [PipeIds -> PipeSet]
    BY <1>1, WithRefsFacts
  <2>2. lost' \in [Ends -> Nat]
    <3>1. ASSUME NEW e \in Ends PROVE lost'[e] \in Nat
      <4>1. e.pipe \in PipeIds /\ e.write \in BOOLEAN /\ e = End(e.pipe, e.write)
        BY DEF Ends, End
      <4>2. /\ lost'[End(e.pipe, e.write)] = lost[End(e.pipe, e.write)] + Refs(t, Slots, e.pipe, e.write)
            /\ lost[End(e.pipe, e.write)] \in Nat /\ Refs(t, Slots, e.pipe, e.write) \in Nat
        BY <1>2, <4>1
      <4> QED
        BY <4>1, <4>2, Sum
    <3> QED
      BY <1>1, <3>1
  <2>3. pstate' \in [Procs -> {"unborn", "run", "blocked", "zombie", "gone"}]
    BY <1>1 DEF RefsInv, PipesTypeOK
  <2> QED
    BY <1>1, <2>1, <2>2, <2>3 DEF RefsInv, PipesTypeOK, PipeSet
<1>4. UnbornHasNone'
  BY <1>1 DEF RefsInv, UnbornHasNone, Unborn, PipesTypeOK
<1>5. ASSUME NEW i \in PipeIds, NEW w \in BOOLEAN PROVE Exact(i, w)'
  <2> DEFINE x == Cardinality(Holders(i, w))
             y == Refs(t, Slots, i, w)
             z == lost[End(i, w)]
             d == Count(i, w)'
  <2>1. Holders(i, w)' = Holders(i, w)
    BY <1>1 DEF Holders
  <2>2. IsFiniteSet(Holders(i, w)) /\ Count(i, w) = x + z
    BY DEF RefsInv, Exact
  <2>3. x \in Nat /\ y \in Nat /\ z \in Nat /\ d = x + z + y /\ lost'[End(i, w)] = z + y
    BY <1>2, <2>2, FS_CardinalityType
  <2> HIDE DEF x, y, z, d
  <2>4. d = x + (z + y)
    BY <2>3
  <2> QED
    BY <2>1, <2>2, <2>3, <2>4 DEF Exact, x, d, End
<1>6. ASSUME NEW i \in PipeIds PROVE pipe'[i].used <=> pipe'[i].reads + pipe'[i].writes > 0
  <2> DEFINE a == pipe[i].reads
             b == pipe[i].writes
             r == Refs(t, Slots, i, FALSE)
             w == Refs(t, Slots, i, TRUE)
  <2>1. pipe'[i].reads = a + r /\ pipe'[i].writes = b + w /\ pipe'[i].used = pipe[i].used
        /\ (pipe[i].used <=> a + b > 0)
    BY <1>1, WithRefsFacts DEF RefsInv
  <2>2. /\ r \in Nat /\ w \in Nat /\ a \in Nat /\ b \in Nat /\ r <= a /\ w <= b
    <3>1. Count(i, TRUE) = b /\ Count(i, FALSE) = a
      BY DEF Count
    <3>2. r \in Nat /\ r <= Count(i, FALSE) /\ Count(i, FALSE) \in Nat
      BY <1>2
    <3>3. w \in Nat /\ w <= Count(i, TRUE) /\ Count(i, TRUE) \in Nat
      BY <1>2
    <3> QED
      BY <3>1, <3>2, <3>3
  <2> HIDE DEF a, b, r, w
  <2>3. (a + r) + (b + w) > 0 <=> a + b > 0
    BY <2>2
  <2> QED
    BY <2>1, <2>3
<1> QED
  BY <1>3, <1>4, <1>5, <1>6 DEF RefsInv

\* pipe: two free descriptors for the two ends of a free pipe.
LEMMA MakeKeeps ==
  ASSUME RefsInv, NEW t \in Procs, MakePipe(t)
  PROVE  RefsInv'
<1> DEFINE s == LowestFree(t)
           r == CHOOSE u \in FreeSlots(t) \ {s} : \A v \in FreeSlots(t) \ {s} : u <= v
           new == [used |-> TRUE, count |-> 0, reads |-> 1, writes |-> 1, waiter |-> Nobody]
<1>1. PICK i \in PipeIds :
         /\ ~pipe[i].used /\ pipe' = [pipe EXCEPT ![i] = new]
         /\ fds' = [fds EXCEPT ![t][s] = [pipe |-> i, write |-> FALSE],
                               ![t][r] = [pipe |-> i, write |-> TRUE]]
  BY DEF MakePipe
<1>2. Cardinality(FreeSlots(t)) >= 2 /\ pstate[t] = "run" /\ UNCHANGED <<pstate, inRead, lost>>
  BY DEF MakePipe, Calls
<1>3. s \in FreeSlots(t)
  <2>1. FreeSlots(t) # {}
    <3>1. FreeSlots(t) = {} => Cardinality(FreeSlots(t)) = 0
      BY FS_EmptySet
    <3> QED
      BY <1>2, <3>1
  <2> QED
    BY <2>1, FreeFacts
<1> HIDE DEF s
<1>4. r \in FreeSlots(t) \ {s}
  <2> DEFINE F == FreeSlots(t) \ {s}
  <2>1. F # {}
    <3>1. FreeSlots(t) = {s} => Cardinality(FreeSlots(t)) = 1
      BY FS_Singleton
    <3> QED
      BY <1>2, <1>3, <3>1
  <2>2. F \in SUBSET Nat
    BY DEF FreeSlots, Slots
  <2> HIDE DEF F
  <2>3. \E u \in F : \A v \in F : u <= v
    BY <2>1, <2>2, LeastExists
  <2> QED
    BY <2>3 DEF F
<1> HIDE DEF r
<1> DEFINE f == [fds[t] EXCEPT ![s] = End(i, FALSE), ![r] = End(i, TRUE)]
<1>5. /\ s \in Slots /\ r \in Slots /\ r # s /\ fds[t][s] = NoFd /\ fds[t][r] = NoFd
  BY <1>3, <1>4 DEF FreeSlots
<1>6. fds' = [fds EXCEPT ![t] = f]
  BY <1>1 DEF End
<1>7. /\ f \in [Slots -> Ends \cup {NoFd}]
      /\ \A x \in Slots : f[x] = IF x = r THEN End(i, TRUE) ELSE IF x = s THEN End(i, FALSE)
                                 ELSE fds[t][x]
  <2>1. End(i, TRUE) \in Ends /\ End(i, FALSE) \in Ends
    BY DEF Ends, End
  <2>2. fds[t] \in [Slots -> Ends \cup {NoFd}]
    BY DEF RefsInv, PipesTypeOK
  <2> QED
    BY <1>5, <2>1, <2>2
<1> HIDE DEF f
<1>8. PipesTypeOK'
  <2>1. new \in PipeSet
    BY SizesAssumption DEF PipeSet
  <2>2. pipe' \in [PipeIds -> PipeSet]
    BY <1>1, <2>1 DEF RefsInv, PipesTypeOK, PipeSet
  <2>3. fds' \in [Procs -> [Slots -> Ends \cup {NoFd}]]
    BY <1>6, <1>7, HoldersAfter
  <2> QED
    BY <1>2, <2>2, <2>3 DEF RefsInv, PipesTypeOK, PipeSet
<1>9. UnbornHasNone'
  BY <1>2, <1>6 DEF RefsInv, UnbornHasNone, Unborn, PipesTypeOK
<1>10. /\ pipe'[i] = new /\ \A j \in PipeIds : j # i => pipe'[j] = pipe[j]
  BY <1>1 DEF RefsInv, PipesTypeOK
<1>11. ASSUME NEW w \in BOOLEAN PROVE Holders(i, w) = {} /\ lost[End(i, w)] = 0
  <2> DEFINE a == pipe[i].reads
             b == pipe[i].writes
             x == Cardinality(Holders(i, w))
             z == lost[End(i, w)]
  <2>1. a \in Nat /\ b \in Nat /\ ~(a + b > 0)
    BY <1>1 DEF RefsInv, PipesTypeOK
  <2>2. Count(i, w) = a \/ Count(i, w) = b
    BY DEF Count
  <2>3. IsFiniteSet(Holders(i, w)) /\ Count(i, w) = x + z /\ z \in Nat
    BY DEF RefsInv, Exact, PipesTypeOK, Ends, End
  <2>4. x \in Nat
    BY <2>3, FS_CardinalityType
  <2>5. x + z = a \/ x + z = b
    BY <2>2, <2>3
  <2> HIDE DEF a, b, x, z
  <2>6. x = 0 /\ z = 0
    BY <2>1, <2>3, <2>4, <2>5
  <2> QED
    BY <2>3, <2>6, FS_EmptySet DEF x, z
<1>12. ASSUME NEW j \in PipeIds, NEW w \in BOOLEAN PROVE Exact(j, w)'
  <2>1. \A u \in Procs, x \in Slots :
           /\ <<u, x>> \in Holders(j, w) <=> fds[u][x] = End(j, w)
           /\ <<u, x>> \in Holders(j, w)'
              <=> IF u = t THEN f[x] = End(j, w) ELSE <<u, x>> \in Holders(j, w)
    BY <1>6, <1>7, HoldersAfter
  <2>2. \A h \in Holders(j, w) \cup Holders(j, w)' : h \in Procs \X Slots
    BY DEF Holders
  <2>3. /\ \A v : End(i, v) = End(j, w) <=> i = j /\ v = w
        /\ NoFd # End(j, w)
    BY NoFdIsNoEnd DEF End
  <2>4. CASE j # i
    <3>1. ASSUME NEW u \in Procs, NEW x \in Slots
          PROVE  <<u, x>> \in Holders(j, w)' <=> <<u, x>> \in Holders(j, w)
      <4>1. CASE u = t /\ (x = s \/ x = r)
        <5>1. f[x] # End(j, w) /\ fds[u][x] # End(j, w)
          BY <1>5, <1>7, <2>3, <2>4, <4>1
        <5> QED
          BY <2>1, <4>1, <5>1
      <4>2. CASE u = t /\ x # s /\ x # r
        <5>1. f[x] = fds[u][x]
          BY <1>7, <4>2
        <5> QED
          BY <2>1, <4>2, <5>1
      <4>3. CASE u # t
        BY <2>1, <4>3
      <4> QED
        BY <4>1, <4>2, <4>3
    <3>2. Holders(j, w)' = Holders(j, w)
      BY <2>2, <3>1
    <3>3. Count(j, w)' = Count(j, w)
      BY <1>10, <2>4 DEF Count
    <3>4. Exact(j, w)
      BY DEF RefsInv
    <3> QED
      BY <1>2, <3>2, <3>3, <3>4 DEF Exact
  <2>5. CASE j = i
    <3> DEFINE y == IF w THEN r ELSE s
    <3>1. ASSUME NEW u \in Procs, NEW x \in Slots
          PROVE  <<u, x>> \in Holders(j, w)' <=> u = t /\ x = y
      <4>1. CASE u # t
        BY <1>11, <2>1, <2>5, <4>1
      <4>2. CASE u = t /\ x # s /\ x # r
        <5>1. f[x] = fds[u][x] /\ <<u, x>> \notin Holders(j, w)
          BY <1>7, <1>11, <2>5, <4>2
        <5> QED
          BY <2>1, <4>2, <5>1
      <4>3. CASE u = t /\ x = s
        <5>1. f[x] = End(i, FALSE)
          BY <1>5, <1>7, <4>3
        <5>2. <<u, x>> \in Holders(j, w)' <=> FALSE = w
          BY <2>1, <2>3, <2>5, <4>3, <5>1
        <5> QED
          BY <1>5, <4>3, <5>2
      <4>4. CASE u = t /\ x = r
        <5>1. f[x] = End(i, TRUE)
          BY <1>5, <1>7, <4>4
        <5>2. <<u, x>> \in Holders(j, w)' <=> TRUE = w
          BY <2>1, <2>3, <2>5, <4>4, <5>1
        <5> QED
          BY <1>5, <4>4, <5>2
      <4> QED
        BY <4>1, <4>2, <4>3, <4>4
    <3>2. y \in Slots
      BY <1>5
    <3> HIDE DEF y
    <3>3. Holders(j, w)' = {<<t, y>>}
      BY <2>2, <3>1, <3>2
    <3>4. IsFiniteSet(Holders(j, w)') /\ Cardinality(Holders(j, w)') = 1
      BY <3>3, FS_Singleton
    <3>5. Count(j, w)' = 1
      BY <1>10, <2>5 DEF Count
    <3>6. lost'[End(j, w)] = 0
      BY <1>2, <1>11, <2>5
    <3>7. Count(j, w)' = Cardinality(Holders(j, w)') + lost'[End(j, w)]
      <4>1. 1 = 1 + 0
        OBVIOUS
      <4> QED
        BY <3>4, <3>5, <3>6, <4>1
    <3> QED
      BY <3>4, <3>7 DEF Exact, End
  <2> QED
    BY <2>4, <2>5
<1>13. \A j \in PipeIds : pipe'[j].used <=> pipe'[j].reads + pipe'[j].writes > 0
  BY <1>10 DEF RefsInv
<1> QED
  BY <1>8, <1>9, <1>12, <1>13 DEF RefsInv

\* One entry changes, but none of its counts.
LEMMA EntryKeeps ==
  ASSUME RefsInv, NEW i \in PipeIds, NEW n \in 0..PipeSize, NEW p \in Procs \cup {Nobody},
         pipe' = [pipe EXCEPT ![i] = [pipe[i] EXCEPT !.count = n, !.waiter = p]],
         fds' = fds, lost' = lost,
         pstate' \in [Procs -> {"unborn", "run", "blocked", "zombie", "gone"}],
         inRead' \in [Procs -> PipeIds \cup {0}],
         \A u \in Procs : pstate'[u] = "unborn" => pstate[u] = "unborn"
  PROVE  RefsInv'
<1>1. pipe[i] \in PipeSet /\ pipe \in [PipeIds -> PipeSet]
  BY DEF RefsInv, PipesTypeOK, PipeSet
<1> DEFINE new == [pipe[i] EXCEPT !.count = n, !.waiter = p]
<1>2. new \in PipeSet
  BY <1>1 DEF PipeSet
<1>3. new.reads = pipe[i].reads /\ new.writes = pipe[i].writes /\ new.used = pipe[i].used
  BY <1>1 DEF PipeSet
<1>4. pipe' = [pipe EXCEPT ![i] = new]
  OBVIOUS
<1> HIDE DEF new
<1>5. pipe' \in [PipeIds -> PipeSet]
  BY <1>1, <1>2, <1>4
<1>6. \A j \in PipeIds : /\ pipe'[j].reads = pipe[j].reads /\ pipe'[j].writes = pipe[j].writes
                         /\ pipe'[j].used = pipe[j].used
  BY <1>1, <1>3, <1>4
<1>7. PipesTypeOK'
  BY <1>5 DEF RefsInv, PipesTypeOK, PipeSet
<1> QED
  BY <1>6, <1>7, SameRefsKeep

\* pipe_write.
LEMMA WriteKeeps ==
  ASSUME RefsInv, NEW t \in Procs, NEW s \in Slots, NEW n \in 1..PipeSize, PipeWrite(t, s, n)
  PROVE  RefsInv'
<1> DEFINE i == fds[t][s].pipe
           w == IF n <= PipeSize - pipe[i].count THEN n ELSE PipeSize - pipe[i].count
<1>1. i \in PipeIds
  BY DEF PipeWrite, RefsInv, PipesTypeOK, Ends, NoFd
<1>2. /\ w > 0 /\ fds' = fds /\ lost' = lost /\ inRead' = inRead
      /\ pipe' = [pipe EXCEPT ![i].count = @ + w, ![i].waiter = Nobody]
      /\ pstate' = [u \in Procs |-> IF u = pipe[i].waiter THEN "run" ELSE pstate[u]]
  BY DEF PipeWrite
<1>3. pipe[i].count + w \in 0..PipeSize
  <2> DEFINE c == pipe[i].count
  <2>1. c \in 0..PipeSize /\ PipeSize \in Nat /\ n \in Nat
        /\ w = IF n <= PipeSize - c THEN n ELSE PipeSize - c
    BY <1>1, SizesAssumption DEF RefsInv, PipesTypeOK
  <2> HIDE DEF c, w
  <2>2. c + w \in 0..PipeSize
    BY <2>1
  <2> QED
    BY <2>2 DEF c
<1> DEFINE m == pipe[i].count + w
<1>4. pipe' = [pipe EXCEPT ![i] = [pipe[i] EXCEPT !.count = m, !.waiter = Nobody]]
  <2>1. pipe' = [pipe EXCEPT ![i] = [pipe[i] EXCEPT !.count = @ + w, !.waiter = Nobody]]
    BY <1>1, <1>2 DEF RefsInv, PipesTypeOK
  <2>2. [pipe[i] EXCEPT !.count = @ + w, !.waiter = Nobody]
        = [pipe[i] EXCEPT !.count = m, !.waiter = Nobody]
    OBVIOUS
  <2> QED
    BY <2>1, <2>2
<1>5. m \in 0..PipeSize /\ Nobody \in Procs \cup {Nobody}
  BY <1>3
<1>6. /\ pstate' \in [Procs -> {"unborn", "run", "blocked", "zombie", "gone"}]
      /\ \A u \in Procs : pstate'[u] = "unborn" => pstate[u] = "unborn"
      /\ inRead' \in [Procs -> PipeIds \cup {0}]
  BY <1>2 DEF RefsInv, PipesTypeOK
<1>7. fds' = fds /\ lost' = lost
  BY <1>2
<1> HIDE DEF m, i, w
<1>8. \E k \in 0..PipeSize, p \in Procs \cup {Nobody} :
         pipe' = [pipe EXCEPT ![i] = [pipe[i] EXCEPT !.count = k, !.waiter = p]]
  BY <1>4, <1>5
<1> QED
  BY <1>1, <1>6, <1>7, <1>8, EntryKeeps

\* A round of pipe_read.
LEMMA RoundKeeps ==
  ASSUME RefsInv, NEW t \in Procs, NEW i \in PipeIds, NEW n \in 1..PipeSize, ReadRound(t, i, n),
         pstate[t] = "run"
  PROVE  RefsInv'
<1>1. /\ pipe \in [PipeIds -> PipeSet] /\ pipe[i] \in PipeSet /\ PipeSize \in Nat
      /\ pipe[i].count \in 0..PipeSize /\ pipe[i].waiter \in Procs \cup {Nobody}
  BY SizesAssumption DEF RefsInv, PipesTypeOK, PipeSet
<1>2. fds' = fds /\ lost' = lost
  BY DEF ReadRound
<1>3. /\ pstate' \in [Procs -> {"unborn", "run", "blocked", "zombie", "gone"}]
      /\ \A u \in Procs : pstate'[u] = "unborn" => pstate[u] = "unborn"
      /\ inRead' \in [Procs -> PipeIds \cup {0}]
  <2>1. /\ pstate \in [Procs -> {"unborn", "run", "blocked", "zombie", "gone"}]
        /\ inRead \in [Procs -> PipeIds \cup {0}]
    BY DEF RefsInv, PipesTypeOK
  <2>2. pstate' = pstate \/ pstate' = [pstate EXCEPT ![t] = "blocked"]
    BY DEF ReadRound
  <2>3. inRead' = [inRead EXCEPT ![t] = 0] \/ inRead' = [inRead EXCEPT ![t] = i]
    BY DEF ReadRound
  <2>4. inRead' \in [Procs -> PipeIds \cup {0}]
    BY <2>1, <2>3
  <2> QED
    BY <2>1, <2>2, <2>4
<1>4. \E m \in 0..PipeSize, p \in Procs \cup {Nobody} :
         pipe' = [pipe EXCEPT ![i] = [pipe[i] EXCEPT !.count = m, !.waiter = p]]
  <2>1. CASE pipe' = [pipe EXCEPT ![i].count = IF n < @ THEN @ - n ELSE 0]
    <3> DEFINE c == pipe[i].count
               m == IF n < c THEN c - n ELSE 0
               p == pipe[i].waiter
    <3>1. m \in 0..PipeSize /\ p \in Procs \cup {Nobody}
      BY <1>1
    <3>2. pipe' = [pipe EXCEPT ![i] = [pipe[i] EXCEPT !.count = m]]
      BY <2>1
    <3> HIDE DEF m
    <3>3. [pipe[i] EXCEPT !.count = m] = [pipe[i] EXCEPT !.count = m, !.waiter = p]
      BY <1>1 DEF PipeSet
    <3>4. pipe' = [pipe EXCEPT ![i] = [pipe[i] EXCEPT !.count = m, !.waiter = p]]
      BY <3>2, <3>3
    <3> HIDE DEF p
    <3> QED
      BY <3>1, <3>4
  <2>2. CASE pipe' = pipe
    <3> DEFINE m == pipe[i].count
               p == pipe[i].waiter
    <3>1. [pipe[i] EXCEPT !.count = m, !.waiter = p] = pipe[i]
      BY <1>1 DEF PipeSet
    <3>2. pipe' = [pipe EXCEPT ![i] = [pipe[i] EXCEPT !.count = m, !.waiter = p]]
      BY <1>1, <2>2, <3>1
    <3> QED
      BY <1>1, <3>2
  <2>3. CASE pipe' = [pipe EXCEPT ![i].waiter = t]
    <3> DEFINE m == pipe[i].count
    <3>1. [pipe[i] EXCEPT !.waiter = t] = [pipe[i] EXCEPT !.count = m, !.waiter = t]
      BY <1>1 DEF PipeSet
    <3>2. pipe' = [pipe EXCEPT ![i] = [pipe[i] EXCEPT !.count = m, !.waiter = t]]
      BY <2>3, <3>1
    <3> QED
      BY <1>1, <3>2
  <2> QED
    BY <2>1, <2>2, <2>3 DEF ReadRound
<1> QED
  BY <1>2, <1>3, <1>4, EntryKeeps

----------------------------------------------------------------------------
(* The invariant of the counts.                                             *)

\* At first there is no pipe.
LEMMA RefsInit == PipeInit => RefsInv
<1> SUFFICES ASSUME PipeInit PROVE RefsInv
  OBVIOUS
<1>1. PipesTypeOK
  <2> DEFINE p == [used |-> FALSE, count |-> 0, reads |-> 0, writes |-> 0, waiter |-> Nobody]
  <2>1. p \in PipeSet
    BY SizesAssumption DEF PipeSet
  <2>2. pipe = [i \in PipeIds |-> p]
    BY DEF PipeInit
  <2> HIDE DEF p
  <2>3. pipe \in [PipeIds -> PipeSet]
    BY <2>1, <2>2
  <2>4. pstate \in [Procs -> {"unborn", "run", "blocked", "zombie", "gone"}]
    BY DEF PipeInit
  <2>5. /\ inRead \in [Procs -> PipeIds \cup {0}] /\ lost \in [Ends -> Nat]
        /\ fds \in [Procs -> [Slots -> Ends \cup {NoFd}]]
    BY DEF PipeInit
  <2> QED
    BY <2>3, <2>4, <2>5 DEF PipesTypeOK, PipeSet
<1>2. UnbornHasNone
  BY DEF PipeInit, UnbornHasNone, Unborn
<1>3. ASSUME NEW i \in PipeIds, NEW w \in BOOLEAN PROVE Exact(i, w)
  <2>1. Holders(i, w) = {}
    <3>1. NoFd # End(i, w)
      BY NoFdIsNoEnd
    <3>2. \A u \in Procs, s \in Slots : fds[u][s] = NoFd
      BY DEF PipeInit
    <3> QED
      BY <3>1, <3>2 DEF Holders, End
  <2>2. Count(i, w) = 0 /\ lost[End(i, w)] = 0
    BY DEF PipeInit, Count, Ends, End
  <2>3. IsFiniteSet({}) /\ Cardinality({}) = 0 /\ 0 = 0 + 0
    BY FS_EmptySet
  <2> QED
    BY <2>1, <2>2, <2>3 DEF Exact
<1>4. \A i \in PipeIds : pipe[i].used <=> pipe[i].reads + pipe[i].writes > 0
  BY DEF PipeInit
<1> QED
  BY <1>1, <1>2, <1>3, <1>4 DEF RefsInv

\* Every step keeps the counts exact.
LEMMA RefsNext == RefsInv /\ [PipeNext]_pipeVars => RefsInv'
<1> SUFFICES ASSUME RefsInv, [PipeNext]_pipeVars PROVE RefsInv'
  OBVIOUS
<1>1. /\ inRead \in [Procs -> PipeIds \cup {0}]
      /\ pstate \in [Procs -> {"unborn", "run", "blocked", "zombie", "gone"}]
  BY DEF RefsInv, PipesTypeOK
<1>2. ASSUME NEW t \in Procs, MakePipe(t) PROVE RefsInv'
  BY <1>2, MakeKeeps
<1>3. ASSUME NEW t \in Procs, TaskExit(t) PROVE RefsInv'
  <2>1. CloseFds(t, Slots, "zombie") /\ lost' = lost /\ inRead' \in [Procs -> PipeIds \cup {0}]
        /\ Slots \in SUBSET Slots
    BY <1>1, <1>3 DEF TaskExit
  <2> QED
    BY <2>1, CloseKeeps
<1>4. ASSUME NEW t \in Procs, Signalled(t) \/ TaskKill(t) PROVE RefsInv'
  <2>1. /\ UNCHANGED <<inRead, fds, pipe, lost>>
        /\ pstate[t] # "unborn"
        /\ pstate' = [pstate EXCEPT ![t] = "run"] \/ pstate' = [pstate EXCEPT ![t] = "zombie"]
    BY <1>4 DEF Signalled, TaskKill
  <2>2. PipesTypeOK'
    BY <1>1, <2>1 DEF RefsInv, PipesTypeOK
  <2>3. \A u \in Procs : pstate'[u] = "unborn" => pstate[u] = "unborn"
    BY <1>1, <2>1
  <2> QED
    BY <2>1, <2>2, <2>3, SameRefsKeep
<1>5. ASSUME NEW t \in Procs, TaskReap(t) PROVE RefsInv'
  <2>1. CloseFds(t, Slots, "gone") /\ lost' = lost /\ inRead' \in [Procs -> PipeIds \cup {0}]
        /\ Slots \in SUBSET Slots
    BY <1>1, <1>5 DEF TaskReap
  <2> QED
    BY <2>1, CloseKeeps
<1>6. ASSUME NEW t \in Procs, NEW s \in Slots, FdClose(t, s) PROVE RefsInv'
  <2>1. CloseFds(t, {s}, "run") /\ lost' = lost /\ inRead' \in [Procs -> PipeIds \cup {0}]
        /\ {s} \in SUBSET Slots
    BY <1>1, <1>6 DEF FdClose
  <2> QED
    BY <2>1, CloseKeeps
<1>7. ASSUME NEW t \in Procs, NEW s \in Slots, FdDup(t, s) PROVE RefsInv'
  BY <1>7, DupKeeps
<1>8. ASSUME NEW t \in Procs, NEW s \in Slots, NEW r \in Slots, FdDup2(t, r, s) PROVE RefsInv'
  BY <1>8, Dup2Keeps
<1>9. ASSUME NEW t \in Procs, NEW s \in Slots, NEW n \in 1..PipeSize, PipeWrite(t, s, n)
      PROVE  RefsInv'
  BY <1>9, WriteKeeps
<1>10. ASSUME NEW t \in Procs, NEW s \in Slots, NEW n \in 1..PipeSize, PipeRead(t, s, n)
       PROVE  RefsInv'
  <2>1. fds[t][s].pipe \in PipeIds
    BY <1>10 DEF PipeRead, RefsInv, PipesTypeOK, Ends, NoFd
  <2>2. ReadRound(t, fds[t][s].pipe, n) /\ pstate[t] = "run"
    BY <1>10 DEF PipeRead, Calls
  <2> QED
    BY <2>1, <2>2, RoundKeeps
<1>11. ASSUME NEW t \in Procs, NEW n \in 1..PipeSize, Resumes(t, n) PROVE RefsInv'
  <2>1. inRead[t] \in PipeIds /\ ReadRound(t, inRead[t], n) /\ pstate[t] = "run"
    BY <1>1, <1>11 DEF Resumes
  <2> QED
    BY <2>1, RoundKeeps
<1>12. ASSUME NEW t \in Procs, NEW c \in Procs, PipeFork(t, c) PROVE RefsInv'
  BY <1>12, ForkKeeps
<1>13. ASSUME NEW t \in Procs, NEW c \in Procs, PipeForkFails(t, c) PROVE RefsInv'
  BY <1>13, ForkFailsKeeps
<1>14. CASE UNCHANGED pipeVars
  <2>1. pstate' = pstate /\ inRead' = inRead /\ fds' = fds /\ pipe' = pipe /\ lost' = lost
    BY <1>14 DEF pipeVars
  <2>2. PipesTypeOK'
    BY <2>1 DEF RefsInv, PipesTypeOK
  <2> QED
    BY <2>1, <2>2, SameRefsKeep
<1> QED
  BY <1>2, <1>3, <1>4, <1>5, <1>6, <1>7, <1>8, <1>9, <1>10, <1>11, <1>12, <1>13, <1>14 DEF PipeNext

\* What pipe_incref and pipe_close_end count, for every way in which descriptors come and go.
THEOREM RefsInvariance == PipeSpec => []RefsInv
  BY RefsInit, RefsNext, PTL DEF PipeSpec

\* readers and writers of a pipe are the number of descriptors that refer to its ends, plus what
\* failed forks left behind, and pipe_new hands out only what nobody refers to.
THEOREM CountsMatchDescriptors == PipeSpec => []RefsExact
<1>1. RefsInv => RefsExact
  <2> SUFFICES ASSUME RefsInv, NEW i \in PipeIds
               PROVE  /\ pipe[i].reads = Cardinality(Holders(i, FALSE)) + lost[[pipe |-> i, write |-> FALSE]]
                      /\ pipe[i].writes = Cardinality(Holders(i, TRUE)) + lost[[pipe |-> i, write |-> TRUE]]
                      /\ pipe[i].used <=> pipe[i].reads + pipe[i].writes > 0
    BY DEF RefsExact
  <2>1. Exact(i, FALSE) /\ Exact(i, TRUE)
    BY DEF RefsInv
  <2> QED
    BY <2>1 DEF RefsInv, Exact, Count, End
<1> QED
  BY <1>1, RefsInvariance, PTL

----------------------------------------------------------------------------
(* Sleeping readers.                                                        *)

\* A pipe and the one task that may be in a read of it: who sleeps there is its waiter, and a
\* waiter is in the read, of a pipe that is empty and has a writer.
Parked ==
    /\ \A t \in Procs : inRead[t] # 0 => pstate[t] \in {"run", "blocked"}
    /\ \A t \in Procs : pstate[t] = "blocked" => inRead[t] # 0 /\ pipe[inRead[t]].waiter = t
    /\ \A t, u \in Procs : inRead[t] = inRead[u] /\ inRead[t] # 0 => t = u
    /\ \A i \in PipeIds : pipe[i].waiter # Nobody
                          => /\ pipe[i].count = 0 /\ pipe[i].writes > 0
                             /\ inRead[pipe[i].waiter] = i

\* A step that makes no task sleep, takes nothing out of a pipe, and no reference away.
LEMMA ParkedStays ==
  ASSUME RefsInv, Parked, inRead' = inRead,
         \A u \in Procs : /\ pstate'[u] = "blocked" => pstate[u] = "blocked"
                          /\ inRead[u] # 0 => pstate'[u] \in {pstate[u], "run"},
         \A i \in PipeIds : /\ pipe'[i].waiter = pipe[i].waiter /\ pipe'[i].count = pipe[i].count
                            /\ pipe[i].writes > 0 => pipe'[i].writes > 0
  PROVE  Parked'
<1>1. \A u \in Procs : inRead[u] \in PipeIds \cup {0}
  BY DEF RefsInv, PipesTypeOK
<1>2. \A t \in Procs : inRead'[t] # 0 => pstate'[t] \in {"run", "blocked"}
  BY DEF Parked
<1>3. \A t \in Procs : pstate'[t] = "blocked" => inRead'[t] # 0 /\ pipe'[inRead'[t]].waiter = t
  BY <1>1 DEF Parked
<1>4. \A t, u \in Procs : inRead'[t] = inRead'[u] /\ inRead'[t] # 0 => t = u
  BY DEF Parked
<1>5. \A i \in PipeIds : pipe'[i].waiter # Nobody
                         => /\ pipe'[i].count = 0 /\ pipe'[i].writes > 0
                            /\ inRead'[pipe'[i].waiter] = i
  BY DEF Parked
<1> QED
  BY <1>2, <1>3, <1>4, <1>5 DEF Parked

\* A task that is not in a read closes descriptors: who waits for a last writer is woken.
LEMMA ParkedAfterClose ==
  ASSUME RefsInv, Parked, NEW t \in Procs, NEW S \in SUBSET Slots, NEW q, q # "blocked",
         inRead[t] = 0, inRead' = inRead,
         \A u \in Procs : pstate'[u] = IF u = t THEN q
                                       ELSE IF u \in Woken(t, S) THEN "run" ELSE pstate[u],
         \A i \in PipeIds :
            /\ pipe'[i].waiter = IF pipe[i].waiter \in Woken(t, S) THEN Nobody ELSE pipe[i].waiter
            /\ pipe'[i].count = pipe[i].count
            /\ pipe[i].writes - Refs(t, S, i, TRUE) > 0 => pipe'[i].writes > 0
  PROVE  Parked'
<1>1. \A u \in Procs : inRead[u] \in PipeIds \cup {0}
  BY DEF RefsInv, PipesTypeOK
<1>2. \A u \in Procs : inRead'[u] # 0 => pstate'[u] \in {"run", "blocked"}
  BY DEF Parked
<1>3. ASSUME NEW u \in Procs, pstate'[u] = "blocked"
      PROVE  inRead'[u] # 0 /\ pipe'[inRead'[u]].waiter = u
  <2>1. u # t /\ u \notin Woken(t, S) /\ pstate[u] = "blocked"
    BY <1>3
  <2>2. inRead[u] # 0 /\ inRead[u] \in PipeIds /\ pipe[inRead[u]].waiter = u
    BY <1>1, <2>1 DEF Parked
  <2> QED
    BY <2>1, <2>2
<1>4. \A u, v \in Procs : inRead'[u] = inRead'[v] /\ inRead'[u] # 0 => u = v
  BY DEF Parked
<1>5. ASSUME NEW i \in PipeIds, pipe'[i].waiter # Nobody
      PROVE  pipe'[i].count = 0 /\ pipe'[i].writes > 0 /\ inRead'[pipe'[i].waiter] = i
  <2>1. pipe[i].waiter \notin Woken(t, S) /\ pipe'[i].waiter = pipe[i].waiter
    BY <1>5
  <2>2. pipe[i].count = 0 /\ pipe[i].writes > 0 /\ inRead[pipe[i].waiter] = i
    BY <1>5, <2>1 DEF Parked
  <2>3. ~LastWriter(t, S, i)
    BY <2>1 DEF Woken
  <2> DEFINE r == Refs(t, S, i, TRUE)
             b == pipe[i].writes
  <2>4. r \in Nat /\ b \in Nat /\ r <= b
    <3>1. Count(i, TRUE) = b
      BY DEF Count
    <3>2. r \in Nat /\ r <= Count(i, TRUE) /\ Count(i, TRUE) \in Nat
      BY RefsFacts
    <3> QED
      BY <3>1, <3>2
  <2>5. b > 0 /\ ~(r > 0 /\ b = r)
    BY <2>2, <2>3 DEF LastWriter
  <2> HIDE DEF r, b
  <2>6. b - r > 0
    BY <2>4, <2>5
  <2> QED
    BY <2>1, <2>2, <2>6 DEF r, b
<1> QED
  BY <1>2, <1>3, <1>4, <1>5 DEF Parked

\* A round of the reader t, when no other is in a read of the pipe.
LEMMA ParkedAfterRound ==
  ASSUME RefsInv, Parked, NEW t \in Procs, NEW i \in PipeIds, NEW n \in 1..PipeSize,
         ReadRound(t, i, n), pstate[t] = "run", inRead[t] \in {0, i},
         \A u \in Procs : inRead[u] = i => u = t
  PROVE  Parked'
<1>1. /\ \A u \in Procs : inRead[u] \in PipeIds \cup {0}
      /\ DOMAIN inRead = Procs /\ DOMAIN pstate = Procs
      /\ pipe \in [PipeIds -> PipeSet] /\ \A j \in PipeIds : pipe[j].waiter \in Procs \cup {Nobody}
  BY DEF RefsInv, PipesTypeOK, PipeSet
<1>2. /\ i # 0 /\ pipe[i] \in PipeSet
  BY <1>1 DEF PipeIds
<1>3. \A j \in PipeIds : pipe[j].waiter = t => j = i
  BY <1>2, ProcsAssumption DEF Parked, PipeIds
<1>4. pipe[i].waiter \in {t, Nobody}
  BY <1>1 DEF Parked
<1>5. \A u \in Procs : pstate[u] = "blocked" => inRead[u] # i
  BY DEF Parked
<1>6. \A j \in PipeIds : j # i => pipe'[j] = pipe[j]
  BY <1>1 DEF ReadRound
<1>7. \A u \in Procs : u # t => inRead'[u] = inRead[u] /\ pstate'[u] = pstate[u]
  BY <1>1 DEF ReadRound
<1>8. CASE pipe[i].count > 0 \/ pipe[i].writes = 0
  <2>1. pipe[i].waiter = Nobody
    <3>1. pipe[i].count \in Nat /\ pipe[i].writes \in Nat
      BY <1>2, SizesAssumption DEF PipeSet
    <3> QED
      BY <1>8, <3>1 DEF Parked
  <2>2. /\ inRead'[t] = 0 /\ pstate'[t] = "run" /\ pipe'[i].waiter = Nobody
    <3>1. inRead' = [inRead EXCEPT ![t] = 0] /\ pstate' = pstate
          /\ \/ pipe' = pipe
             \/ pipe' = [pipe EXCEPT ![i].count = IF n < @ THEN @ - n ELSE 0]
      <4>1. pipe[i].count \in Nat /\ pipe[i].writes \in Nat
        BY <1>2, SizesAssumption DEF PipeSet
      <4> QED
        BY <1>8, <4>1 DEF ReadRound
    <3>2. pipe'[i].waiter = pipe[i].waiter
      <4>1. CASE pipe' = [pipe EXCEPT ![i].count = IF n < @ THEN @ - n ELSE 0]
        BY <1>1, <1>2, <4>1 DEF PipeSet
      <4> QED
        BY <3>1, <4>1
    <3> QED
      BY <1>1, <2>1, <3>1, <3>2
  <2>3. \A u \in Procs : inRead'[u] # 0 => u # t /\ pstate'[u] \in {"run", "blocked"}
    BY <1>7, <2>2 DEF Parked
  <2>4. ASSUME NEW u \in Procs, pstate'[u] = "blocked"
        PROVE  inRead'[u] # 0 /\ pipe'[inRead'[u]].waiter = u
    <3>1. u # t /\ pstate[u] = "blocked" /\ inRead'[u] = inRead[u] /\ inRead[u] # i
      BY <1>5, <1>7, <2>2, <2>4
    <3>2. inRead[u] # 0 /\ inRead[u] \in PipeIds /\ pipe[inRead[u]].waiter = u
      BY <1>1, <3>1 DEF Parked
    <3> QED
      BY <1>6, <3>1, <3>2
  <2>5. \A u, v \in Procs : inRead'[u] = inRead'[v] /\ inRead'[u] # 0 => u = v
    BY <1>7, <2>2 DEF Parked
  <2>6. ASSUME NEW j \in PipeIds, pipe'[j].waiter # Nobody
        PROVE  pipe'[j].count = 0 /\ pipe'[j].writes > 0 /\ inRead'[pipe'[j].waiter] = j
    <3>1. j # i /\ pipe'[j] = pipe[j]
      BY <1>6, <2>2, <2>6
    <3>2. pipe[j].waiter \in Procs /\ pipe[j].waiter # t
      BY <1>1, <1>3, <2>6, <3>1
    <3> QED
      BY <1>7, <2>6, <3>1, <3>2 DEF Parked
  <2> QED
    BY <2>3, <2>4, <2>5, <2>6 DEF Parked
<1>9. CASE pipe[i].count = 0 /\ pipe[i].writes > 0
  <2>1. /\ pstate' = [pstate EXCEPT ![t] = "blocked"]
        /\ inRead' = [inRead EXCEPT ![t] = i]
        /\ pipe' = [pipe EXCEPT ![i].waiter = t]
    BY <1>9 DEF ReadRound
  <2>2. inRead'[t] = i /\ pstate'[t] = "blocked"
    BY <1>1, <2>1
  <2>3. pipe'[i].waiter = t /\ pipe'[i].count = 0 /\ pipe'[i].writes > 0
    BY <1>1, <1>2, <1>9, <2>1 DEF PipeSet
  <2>4. \A u \in Procs : inRead'[u] # 0 => pstate'[u] \in {"run", "blocked"}
    BY <1>7, <2>2 DEF Parked
  <2>5. ASSUME NEW u \in Procs, pstate'[u] = "blocked"
        PROVE  inRead'[u] # 0 /\ pipe'[inRead'[u]].waiter = u
    <3>1. CASE u = t
      BY <1>2, <2>2, <2>3, <3>1
    <3>2. CASE u # t
      <4>1. pstate[u] = "blocked" /\ inRead'[u] = inRead[u] /\ inRead[u] # i
        BY <1>5, <1>7, <2>5, <3>2
      <4>2. inRead[u] # 0 /\ inRead[u] \in PipeIds /\ pipe[inRead[u]].waiter = u
        BY <1>1, <4>1 DEF Parked
      <4> QED
        BY <1>6, <4>1, <4>2
    <3> QED
      BY <3>1, <3>2
  <2>6. \A u, v \in Procs : inRead'[u] = inRead'[v] /\ inRead'[u] # 0 => u = v
    BY <1>7, <2>2 DEF Parked
  <2>7. ASSUME NEW j \in PipeIds, pipe'[j].waiter # Nobody
        PROVE  pipe'[j].count = 0 /\ pipe'[j].writes > 0 /\ inRead'[pipe'[j].waiter] = j
    <3>1. CASE j = i
      BY <2>2, <2>3, <3>1
    <3>2. CASE j # i
      <4>1. pipe'[j] = pipe[j]
        BY <1>6, <3>2
      <4>2. pipe[j].waiter \in Procs /\ pipe[j].waiter # t
        BY <1>1, <1>3, <2>7, <3>2, <4>1
      <4> QED
        BY <1>7, <2>7, <4>1, <4>2 DEF Parked
    <3> QED
      BY <3>1, <3>2
  <2> QED
    BY <2>4, <2>5, <2>6, <2>7 DEF Parked
<1> QED
  BY <1>8, <1>9 DEF ReadRound

\* pipe: the pipe is one that nobody waits for.
LEMMA ParkedAfterMake ==
  ASSUME RefsInv, Parked, NEW t \in Procs, MakePipe(t)
  PROVE  Parked'
<1> DEFINE new == [used |-> TRUE, count |-> 0, reads |-> 1, writes |-> 1, waiter |-> Nobody]
<1>1. PICK i \in PipeIds : ~pipe[i].used /\ pipe' = [pipe EXCEPT ![i] = new]
  BY DEF MakePipe
<1>2. pstate' = pstate /\ inRead' = inRead
  BY DEF MakePipe
<1>3. pipe[i].waiter = Nobody
  <2> DEFINE a == pipe[i].reads
             b == pipe[i].writes
  <2>1. a \in Nat /\ b \in Nat /\ ~(a + b > 0)
    BY <1>1 DEF RefsInv, PipesTypeOK
  <2> HIDE DEF a, b
  <2>2. ~(b > 0)
    BY <2>1
  <2> QED
    BY <2>2 DEF b, Parked
<1>4. /\ pipe'[i].waiter = Nobody /\ \A j \in PipeIds : j # i => pipe'[j] = pipe[j]
  BY <1>1 DEF RefsInv, PipesTypeOK
<1>5. \A j \in PipeIds : pipe'[j].waiter = pipe[j].waiter
                         /\ (pipe'[j].waiter # Nobody => pipe'[j] = pipe[j])
  BY <1>3, <1>4
<1>6. \A u \in Procs : inRead[u] \in PipeIds \cup {0}
  BY DEF RefsInv, PipesTypeOK
<1> QED
  BY <1>2, <1>5, <1>6 DEF Parked

\* pipe_write wakes the one that sleeps.
LEMMA ParkedAfterWrite ==
  ASSUME RefsInv, Parked, NEW t \in Procs, NEW s \in Slots, NEW n \in 1..PipeSize, PipeWrite(t, s, n)
  PROVE  Parked'
<1> DEFINE i == fds[t][s].pipe
           w == IF n <= PipeSize - pipe[i].count THEN n ELSE PipeSize - pipe[i].count
           x == pipe[i].waiter
<1>1. /\ i \in PipeIds /\ \A u \in Procs : inRead[u] \in PipeIds \cup {0}
      /\ pipe \in [PipeIds -> PipeSet]
  BY DEF PipeWrite, RefsInv, PipesTypeOK, Ends, NoFd, PipeSet
<1>2. /\ inRead' = inRead
      /\ pipe' = [pipe EXCEPT ![i].count = @ + w, ![i].waiter = Nobody]
      /\ \A u \in Procs : pstate'[u] = IF u = x THEN "run" ELSE pstate[u]
  BY DEF PipeWrite
<1>3. /\ pipe'[i].waiter = Nobody /\ \A j \in PipeIds : j # i => pipe'[j] = pipe[j]
  <2> HIDE DEF i, w
  <2> QED
    BY <1>1, <1>2 DEF PipeSet
<1> HIDE DEF i, x, w
<1>4. \A u \in Procs : inRead'[u] # 0 => pstate'[u] \in {"run", "blocked"}
  BY <1>2 DEF Parked
<1>5. ASSUME NEW u \in Procs, pstate'[u] = "blocked"
      PROVE  inRead'[u] # 0 /\ pipe'[inRead'[u]].waiter = u
  <2>1. u # x /\ pstate[u] = "blocked"
    BY <1>2, <1>5
  <2>2. inRead[u] # 0 /\ inRead[u] \in PipeIds /\ pipe[inRead[u]].waiter = u
    BY <1>1, <2>1 DEF Parked
  <2>3. inRead[u] # i
    BY <2>1, <2>2 DEF x
  <2> QED
    BY <1>2, <1>3, <2>2, <2>3
<1>6. \A u, v \in Procs : inRead'[u] = inRead'[v] /\ inRead'[u] # 0 => u = v
  BY <1>2 DEF Parked
<1>7. ASSUME NEW j \in PipeIds, pipe'[j].waiter # Nobody
      PROVE  pipe'[j].count = 0 /\ pipe'[j].writes > 0 /\ inRead'[pipe'[j].waiter] = j
  <2>1. j # i /\ pipe'[j] = pipe[j]
    BY <1>3, <1>7
  <2> QED
    BY <1>2, <1>7, <2>1 DEF Parked
<1> QED
  BY <1>4, <1>5, <1>6, <1>7 DEF Parked

\* CloseFds by a task that is not in a read.
LEMMA ParkedAfterCloseFds ==
  ASSUME RefsInv, Parked, NEW t \in Procs, NEW S \in SUBSET Slots,
         NEW q \in {"run", "zombie", "gone"}, CloseFds(t, S, q), inRead[t] = 0, inRead' = inRead
  PROVE  Parked'
<1>1. \A u \in Procs : pstate'[u] = IF u = t THEN q
                                    ELSE IF u \in Woken(t, S) THEN "run" ELSE pstate[u]
  BY DEF CloseFds
<1>2. \A i \in PipeIds :
         /\ pipe'[i].waiter = IF pipe[i].waiter \in Woken(t, S) THEN Nobody ELSE pipe[i].waiter
         /\ pipe'[i].count = pipe[i].count
         /\ pipe'[i].writes = pipe[i].writes - Refs(t, S, i, TRUE)
  BY DroppedFacts DEF CloseFds
<1>3. q # "blocked"
  OBVIOUS
<1> QED
  BY <1>1, <1>2, <1>3, ParkedAfterClose

\* dup2.
LEMMA ParkedAfterDup2 ==
  ASSUME RefsInv, Parked, NEW t \in Procs, NEW r \in Slots, NEW s \in Slots, FdDup2(t, r, s)
  PROVE  Parked'
<1> DEFINE was == Dropped(t, {s})
<1>1. /\ inRead' = inRead /\ inRead[t] = 0 /\ pstate[t] = "run"
      /\ pipe' = [i \in PipeIds |-> [was[i] EXCEPT !.reads = @ + Refs(t, {r}, i, FALSE),
                                                   !.writes = @ + Refs(t, {r}, i, TRUE)]]
      /\ pstate' = [u \in Procs |-> IF u \in Woken(t, {s}) THEN "run" ELSE pstate[u]]
  BY DEF FdDup2, Calls
<1>2. {s} \in SUBSET Slots /\ {r} \in SUBSET Slots
  OBVIOUS
<1>3. /\ was \in [PipeIds -> PipeSet]
      /\ \A i \in PipeIds :
            /\ was[i].writes = pipe[i].writes - Refs(t, {s}, i, TRUE)
            /\ was[i].count = pipe[i].count
            /\ was[i].waiter = IF pipe[i].waiter \in Woken(t, {s}) THEN Nobody ELSE pipe[i].waiter
  BY <1>2, DroppedFacts
<1> HIDE DEF was
<1>4. ASSUME NEW i \in PipeIds
      PROVE  /\ pipe'[i].waiter = IF pipe[i].waiter \in Woken(t, {s}) THEN Nobody
                                  ELSE pipe[i].waiter
             /\ pipe'[i].count = pipe[i].count
             /\ pipe[i].writes - Refs(t, {s}, i, TRUE) > 0 => pipe'[i].writes > 0
  <2> DEFINE a == was[i].reads + Refs(t, {r}, i, FALSE)
             b == was[i].writes + Refs(t, {r}, i, TRUE)
  <2>1. pipe'[i] = [was[i] EXCEPT !.reads = a, !.writes = b] /\ was[i] \in PipeSet
    BY <1>1, <1>3
  <2>2. was[i].writes > 0 => b > 0
    <3> DEFINE m == was[i].writes
               n == Refs(t, {r}, i, TRUE)
    <3>1. m \in Nat
      BY <2>1 DEF PipeSet
    <3>2. n \in Nat
      BY <1>2, RefsFacts
    <3> HIDE DEF m, n
    <3>3. m > 0 => m + n > 0
      BY <3>1, <3>2
    <3> QED
      BY <3>3 DEF m, n
  <2> HIDE DEF a, b
  <2>3. pipe'[i].writes = b /\ pipe'[i].count = was[i].count /\ pipe'[i].waiter = was[i].waiter
    BY <2>1 DEF PipeSet
  <2> QED
    BY <1>3, <2>2, <2>3
<1>5. \A u \in Procs : pstate'[u] = IF u = t THEN "run"
                                    ELSE IF u \in Woken(t, {s}) THEN "run" ELSE pstate[u]
  BY <1>1
<1>6. "run" # "blocked"
  OBVIOUS
<1> QED
  BY <1>1, <1>2, <1>4, <1>5, <1>6, ParkedAfterClose, ZenonT(60)

\* dup and fork: more references.
LEMMA ParkedAfterIncref ==
  ASSUME RefsInv, Parked, NEW t \in Procs, NEW S \in SUBSET Slots, pipe' = WithRefs(t, S),
         inRead' = inRead,
         \A u \in Procs : /\ pstate'[u] = "blocked" => pstate[u] = "blocked"
                          /\ inRead[u] # 0 => pstate'[u] \in {pstate[u], "run"}
  PROVE  Parked'
<1>1. ASSUME NEW i \in PipeIds
      PROVE  /\ pipe'[i].waiter = pipe[i].waiter /\ pipe'[i].count = pipe[i].count
             /\ pipe[i].writes > 0 => pipe'[i].writes > 0
  <2> DEFINE m == pipe[i].writes
             n == Refs(t, S, i, TRUE)
  <2>1. /\ pipe'[i].waiter = pipe[i].waiter /\ pipe'[i].count = pipe[i].count
        /\ pipe'[i].writes = m + n
    BY WithRefsFacts
  <2>2. m \in Nat /\ n \in Nat
    <3>1. n \in Nat
      BY RefsFacts
    <3>2. m \in Nat
      BY DEF RefsInv, PipesTypeOK
    <3> QED
      BY <3>1, <3>2
  <2> HIDE DEF m, n
  <2>3. m > 0 => m + n > 0
    BY <2>2
  <2> QED
    BY <2>1, <2>3 DEF m
<1> QED
  BY <1>1, ParkedStays

\* Every step keeps a pipe and its reader in agreement.
LEMMA ParkedNext ==
  ASSUME ~SharedReads, ~KillsParked, RefsInv, Parked, [PipeNext]_pipeVars
  PROVE  Parked'
<1>1. /\ \A u \in Procs : inRead[u] \in PipeIds \cup {0}
      /\ DOMAIN inRead = Procs /\ DOMAIN pstate = Procs
  BY DEF RefsInv, PipesTypeOK
<1>2. Slots \in SUBSET Slots
  OBVIOUS
<1>3. ASSUME NEW t \in Procs, MakePipe(t) PROVE Parked'
  BY <1>3, ParkedAfterMake
<1>4. ASSUME NEW t \in Procs, TaskExit(t) PROVE Parked'
  BY <1>2, <1>4, ParkedAfterCloseFds DEF TaskExit, Calls
<1>5. ASSUME NEW t \in Procs, Signalled(t) PROVE Parked'
  <2>1. /\ UNCHANGED <<inRead, pipe>>
        /\ \A u \in Procs : pstate'[u] = IF u = t THEN "run" ELSE pstate[u]
    BY <1>1, <1>5 DEF Signalled
  <2> QED
    BY <2>1, ParkedStays
<1>6. ASSUME NEW t \in Procs, TaskKill(t) PROVE Parked'
  <2>1. /\ UNCHANGED <<inRead, pipe>> /\ inRead[t] = 0
        /\ \A u \in Procs : pstate'[u] = IF u = t THEN "zombie" ELSE pstate[u]
    BY <1>1, <1>6 DEF TaskKill
  <2> QED
    BY <2>1, ParkedStays
<1>7. ASSUME NEW t \in Procs, TaskReap(t) PROVE Parked'
  <2>1. CloseFds(t, Slots, "gone") /\ pstate[t] = "zombie" /\ inRead' = [inRead EXCEPT ![t] = 0]
    BY <1>7 DEF TaskReap
  <2>2. inRead[t] = 0
    BY <2>1 DEF Parked
  <2>3. inRead' = inRead
    BY <2>1, <2>2 DEF RefsInv, PipesTypeOK
  <2> QED
    BY <1>2, <2>1, <2>2, <2>3, ParkedAfterCloseFds
<1>8. ASSUME NEW t \in Procs, NEW s \in Slots, FdClose(t, s) PROVE Parked'
  <2>1. {s} \in SUBSET Slots
    OBVIOUS
  <2> QED
    BY <1>8, <2>1, ParkedAfterCloseFds DEF FdClose, Calls
<1>9. ASSUME NEW t \in Procs, NEW s \in Slots, FdDup(t, s) PROVE Parked'
  <2>1. {s} \in SUBSET Slots /\ pipe' = WithRefs(t, {s}) /\ inRead' = inRead /\ pstate' = pstate
    BY <1>9 DEF FdDup
  <2> QED
    BY <2>1, ParkedAfterIncref
<1>10. ASSUME NEW t \in Procs, NEW s \in Slots, NEW r \in Slots, FdDup2(t, r, s) PROVE Parked'
  BY <1>10, ParkedAfterDup2
<1>11. ASSUME NEW t \in Procs, NEW s \in Slots, NEW n \in 1..PipeSize, PipeWrite(t, s, n)
       PROVE  Parked'
  BY <1>11, ParkedAfterWrite
<1>12. ASSUME NEW t \in Procs, NEW s \in Slots, NEW n \in 1..PipeSize, PipeRead(t, s, n)
       PROVE  Parked'
  <2> DEFINE i == fds[t][s].pipe
  <2>1. i \in PipeIds
    BY <1>12 DEF PipeRead, RefsInv, PipesTypeOK, Ends, NoFd
  <2>2. ReadRound(t, i, n) /\ pstate[t] = "run" /\ inRead[t] = 0 /\ \A u \in Procs : inRead[u] # i
    BY <1>12 DEF PipeRead, Calls
  <2> HIDE DEF i
  <2> QED
    BY <2>1, <2>2, ParkedAfterRound
<1>13. ASSUME NEW t \in Procs, NEW n \in 1..PipeSize, Resumes(t, n) PROVE Parked'
  <2> DEFINE i == inRead[t]
  <2>1. i \in PipeIds /\ ReadRound(t, i, n) /\ pstate[t] = "run" /\ inRead[t] = i
    BY <1>1, <1>13 DEF Resumes
  <2>2. \A u \in Procs : inRead[u] = i => u = t
    BY <1>13 DEF Resumes, Parked
  <2> HIDE DEF i
  <2> QED
    BY <2>1, <2>2, ParkedAfterRound
<1>14. ASSUME NEW t \in Procs, NEW c \in Procs, PipeFork(t, c) \/ PipeForkFails(t, c) PROVE Parked'
  <2>1. /\ pipe' = WithRefs(t, Slots) /\ inRead' = inRead /\ pstate[c] = "unborn"
        /\ \/ pstate' = [pstate EXCEPT ![c] = "run"]
           \/ pstate' = [pstate EXCEPT ![c] = "gone"]
    BY <1>14 DEF PipeFork, PipeForkFails, Unborn
  <2>2. inRead[c] = 0
    BY <2>1 DEF Parked
  <2>3. \A u \in Procs : /\ pstate'[u] = "blocked" => pstate[u] = "blocked"
                         /\ inRead[u] # 0 => pstate'[u] \in {pstate[u], "run"}
    BY <1>1, <2>1, <2>2
  <2> QED
    BY <1>2, <2>1, <2>3, ParkedAfterIncref
<1>15. CASE UNCHANGED pipeVars
  <2>1. pstate' = pstate /\ inRead' = inRead /\ pipe' = pipe
    BY <1>15 DEF pipeVars
  <2> QED
    BY <2>1, ParkedStays
<1> QED
  BY <1>3, <1>4, <1>5, <1>6, <1>7, <1>8, <1>9, <1>10, <1>11, <1>12, <1>13, <1>14, <1>15 DEF PipeNext

\* pipe_write and the last pipe_close_end wake the task that sleeps in pipe_read, and nobody else,
\* if no two tasks read from one pipe at a time and the shell kills no task inside pipe_read.
THEOREM SleepersAreWoken ==
  ASSUME ~SharedReads, ~KillsParked
  PROVE  PipeSpec => []WakesItsReader
<1>1. PipeInit => Parked
  BY DEF PipeInit, Parked
<1>2. RefsInv /\ Parked /\ [PipeNext]_pipeVars => Parked'
  BY ParkedNext
<1>3. RefsInv /\ Parked => WakesItsReader
  <2> SUFFICES ASSUME RefsInv, Parked PROVE WakesItsReader
    OBVIOUS
  <2>1. /\ \A u \in Procs : inRead[u] \in PipeIds \cup {0}
        /\ \A i \in PipeIds : pipe[i].waiter \in Procs \cup {Nobody}
    BY DEF RefsInv, PipesTypeOK
  <2>2. SleeperIsRemembered
    <3> SUFFICES ASSUME NEW t \in Procs, pstate[t] = "blocked"
                 PROVE  /\ pipe[inRead[t]].count = 0 /\ pipe[inRead[t]].writes > 0
                        /\ pipe[inRead[t]].waiter = t
      BY DEF SleeperIsRemembered
    <3>1. inRead[t] \in PipeIds /\ pipe[inRead[t]].waiter = t
      BY <2>1 DEF Parked
    <3>2. t # Nobody
      BY ProcsAssumption
    <3> QED
      BY <3>1, <3>2 DEF Parked
  <2>3. WaiterReads
    <3> SUFFICES ASSUME NEW i \in PipeIds, pipe[i].waiter # Nobody
                 PROVE  /\ pstate[pipe[i].waiter] \in {"blocked", "run"}
                        /\ inRead[pipe[i].waiter] = i
      BY DEF WaiterReads
    <3>1. pipe[i].waiter \in Procs /\ inRead[pipe[i].waiter] = i /\ i # 0
      BY <2>1 DEF Parked, PipeIds
    <3> QED
      BY <3>1 DEF Parked
  <2> QED
    BY <2>2, <2>3 DEF WakesItsReader
<1> QED
  BY <1>1, <1>2, <1>3, RefsInvariance, PTL DEF PipeSpec

----------------------------------------------------------------------------
(* Sockets.                                                                 *)

\* The states of an entry that a socket can be on.
HeldStates == {"LISTEN", "SYN_SENT", "ESTABLISHED", "CLOSE_WAIT"}

\* What the state of an entry says of its ports and of accept.
EntryOK(c) ==
    /\ conns[c].state = "CLOSED" => conns[c] = Inactive
    /\ conns[c].state = "LISTEN" => conns[c].sport \in Ports /\ conns[c].dport = NoPort
    /\ conns[c].state \notin {"CLOSED", "LISTEN"} =>
          /\ conns[c].dport # NoPort /\ conns[c].sport # NoPort
          /\ conns[c].sport \in Ports \/ conns[c].sport >= EphemeralBase
    /\ conns[c].state = "SYN_SENT" => conns[c].sport >= EphemeralBase
    /\ conns[c].state = "SYN_RCVD" => conns[c].sport \in Ports /\ ~conns[c].accepted

\* The entry is in the way of a new one with its ports.
Open(c) == conns[c].state \notin {"CLOSED", "LISTEN"}

\* Until the source ports have been around once, the next one is above those of all entries.
TuplesApart ==
    FirstRound =>
       /\ PairsDiffer
       /\ dialled < EphemeralEnd - EphemeralBase => ephemeral = EphemeralBase + dialled
       /\ \A c \in ConnIds : Open(c) => conns[c].sport < EphemeralBase + dialled

\* A socket is on an entry that was made for it or that it accepted, and that is not closed.
HeldOK(s) ==
    LET c == nsocks[s].conn
    IN  /\ Ports2(conns[c]) = nsocks[s].mine
        /\ conns[c].state \in HeldStates
        /\ conns[c].state = "LISTEN" \/ conns[c].accepted \/ conns[c].sport >= EphemeralBase

HeldOnce == \A s, r \in InUse : nsocks[s].conn = nsocks[r].conn => s = r

SynsHaveSource == \A i \in 1..Len(ring) : ring[i].kind = "SYN" => ring[i].from # NoPort

\* A socket in use has one descriptor.
OneFd(s) ==
    IF nsocks[s].used
    THEN \E h \in Peers \X SFds : Fd(s) = {h}
    ELSE Fd(s) = {}

Kept(c) ==
    \/ conns[c].state \in {"LISTEN", "SYN_SENT"}
    \/ /\ conns[c].state \in {"ESTABLISHED", "CLOSE_WAIT"}
       /\ conns[c].accepted \/ conns[c].sport >= EphemeralBase
    => c \in orphans \/ \E s \in InUse : nsocks[s].conn = c

SockInv ==
    /\ SockTypeOK
    /\ ephemeral >= EphemeralBase
    /\ \A c \in ConnIds : EntryOK(c)
    /\ TuplesApart
    /\ \A s \in InUse : HeldOK(s)
    /\ HeldOnce
    /\ SynsHaveSource
    /\ \A s \in SockIds : OneFd(s)
    /\ \A c \in ConnIds : Kept(c)
----------------------------------------------------------------------------
LEMMA LowestIsIn ==
    ASSUME NEW S \in SUBSET Nat, S # {}
    PROVE  Lowest1(S) \in S
BY LeastExists DEF Lowest1

\* One index in each table is free, or none.
LEMMA FreeOnes ==
    /\ FreeConns # {} => Lowest1(FreeConns) \in ConnIds /\ conns[Lowest1(FreeConns)].state = "CLOSED"
    /\ FreeSocks # {} => Lowest1(FreeSocks) \in SockIds /\ ~nsocks[Lowest1(FreeSocks)].used
    /\ \A t \in Peers : FreeFds(t) # {} =>
          Lowest1(FreeFds(t)) \in SFds /\ sfds[t][Lowest1(FreeFds(t))] = NoSock
<1>1. FreeConns \in SUBSET Nat /\ FreeSocks \in SUBSET Nat /\ \A t \in Peers : FreeFds(t) \in SUBSET Nat
  BY TablesAssumption DEF FreeConns, FreeSocks, FreeFds, ConnIds, SockIds, SFds
<1>2. FreeConns # {} => Lowest1(FreeConns) \in FreeConns
  BY <1>1, LowestIsIn
<1>3. FreeSocks # {} => Lowest1(FreeSocks) \in FreeSocks
  BY <1>1, LowestIsIn
<1>4. \A t \in Peers : FreeFds(t) # {} => Lowest1(FreeFds(t)) \in FreeFds(t)
  BY <1>1, LowestIsIn
<1> QED
  BY <1>2, <1>3, <1>4 DEF FreeConns, FreeSocks, FreeFds

ConnSet == [state : ConnStates, accepted : BOOLEAN, sport : AllPorts, dport : AllPorts, due : BOOLEAN]
SockSet == [used : BOOLEAN, conn : ConnIds \cup {NoConn}, listening : BOOLEAN,
            mine : {<<>>} \cup (AllPorts \X AllPorts)]
SegSet  == [kind : {"SYN", "SYNACK", "ACK", "FIN", "RST"}, from : AllPorts, to : AllPorts,
            covers : BOOLEAN]

\* What a step keeps for the entries, ...
EntriesRight ==
    /\ conns \in [ConnIds -> ConnSet]
    /\ ephemeral \in AllPorts /\ ephemeral >= EphemeralBase /\ dialled \in 0..MaxConnects
    /\ \A c \in ConnIds : EntryOK(c)
    /\ TuplesApart
\* ... for the ring, ...
RingRight == ring \in Seq(SegSet) /\ Len(ring) <= RingLen /\ SynsHaveSource
\* ... for the sockets, ...
SocketsRight ==
    /\ nsocks \in [SockIds -> SockSet]
    /\ \A s \in InUse : HeldOK(s)
    /\ HeldOnce
    /\ orphans \subseteq ConnIds
    /\ \A c \in ConnIds : Kept(c)
\* ... and for the descriptors.
FdsRight ==
    /\ sfds \in [Peers -> [SFds -> SockIds \cup {NoSock}]]
    /\ \A s \in SockIds : OneFd(s)

\* Together they are the invariant, before a step and after it.
LEMMA Parts == SockInv <=> EntriesRight /\ RingRight /\ SocketsRight /\ FdsRight /\ made \in 0..MaxSockets
BY DEF SockInv, SockTypeOK, EntriesRight, RingRight, SocketsRight, FdsRight, ConnSet, SockSet,
       SegSet

LEMMA Whole ==
    EntriesRight' /\ RingRight' /\ SocketsRight' /\ FdsRight' /\ made' \in 0..MaxSockets => SockInv'
BY DEF SockInv, SockTypeOK, EntriesRight, RingRight, SocketsRight, FdsRight, ConnSet, SockSet,
       SegSet

LEMMA PortFacts ==
    /\ NoPort \in AllPorts /\ AllPorts \subseteq Nat /\ Ports \subseteq AllPorts
    /\ \A p \in Ports : p \in Nat /\ p # NoPort /\ p < EphemeralBase
    /\ EphemeralBase \in Nat
<1>1. EphemeralEnd \in Nat /\ EphemeralBase \in Nat /\ NoPort \in Nat
  BY PortsAssumption DEF NoPort
<1>2. EphemeralBase..(EphemeralEnd - 1) \subseteq Nat
  BY <1>1
<1> QED
  BY <1>1, <1>2, PortsAssumption DEF AllPorts

LEMMA PortsLow == \A p \in Ports : p \in Nat /\ p < EphemeralBase /\ ~(p >= EphemeralBase)
<1> SUFFICES ASSUME NEW p \in Ports PROVE p \in Nat /\ p < EphemeralBase /\ ~(p >= EphemeralBase)
  OBVIOUS
<1>1. p \in Nat /\ EphemeralBase \in Nat /\ p < EphemeralBase
  BY PortsAssumption
<1> QED
  BY <1>1

----------------------------------------------------------------------------
(* The ring.                                                                *)

\* A segment may be put in the ring if a SYN of it says where it comes from.
MayGo(g) == g \in SegSet /\ (g.kind = "SYN" => g.from # NoPort)

LEMMA EnqueuedRight ==
    ASSUME NEW r \in Seq(SegSet), Len(r) <= RingLen,
           \A i \in 1..Len(r) : r[i].kind = "SYN" => r[i].from # NoPort,
           NEW g, MayGo(g)
    PROVE  /\ Enqueued(r, g) \in Seq(SegSet) /\ Len(Enqueued(r, g)) <= RingLen
           /\ \A i \in 1..Len(Enqueued(r, g)) : Enqueued(r, g)[i].kind = "SYN" => Enqueued(r, g)[i].from # NoPort
<1> HIDE DEF SegSet
<1>1. CASE Len(r) < RingLen
  <2>1. Enqueued(r, g) = Append(r, g) /\ g \in SegSet
    BY <1>1 DEF Enqueued, MayGo
  <2>2. /\ Append(r, g) \in Seq(SegSet) /\ Len(Append(r, g)) = Len(r) + 1 /\ Len(r) \in Nat
        /\ \A i \in 1..Len(r) : Append(r, g)[i] = r[i]
        /\ Append(r, g)[Len(r) + 1] = g
    BY <2>1
  <2> QED
    BY <1>1, <2>1, <2>2, TablesAssumption DEF MayGo
<1>2. CASE ~(Len(r) < RingLen)
  BY <1>2 DEF Enqueued
<1> QED
  BY <1>1, <1>2

LEMMA RingTail ==
    ASSUME RingRight, ring # <<>>
    PROVE  /\ Tail(ring) \in Seq(SegSet) /\ Len(Tail(ring)) <= RingLen
           /\ \A i \in 1..Len(Tail(ring)) : Tail(ring)[i].kind = "SYN" => Tail(ring)[i].from # NoPort
           /\ Head(ring) \in SegSet /\ (Head(ring).kind = "SYN" => Head(ring).from # NoPort)
<1> HIDE DEF SegSet
<1>1. ring \in Seq(SegSet) /\ Len(ring) \in Nat /\ Len(ring) > 0
  BY DEF RingRight
<1>2. /\ Tail(ring) \in Seq(SegSet) /\ Len(Tail(ring)) = Len(ring) - 1
      /\ \A i \in 1..Len(Tail(ring)) : Tail(ring)[i] = ring[i + 1]
      /\ Head(ring) = ring[1] /\ Head(ring) \in SegSet
  BY <1>1
<1> QED
  BY <1>1, <1>2, TablesAssumption DEF RingRight, SynsHaveSource

LEMMA RingGoes ==
    ASSUME RingRight,
           \/ ring' = ring
           \/ \E g : MayGo(g) /\ Sends(g)
           \/ ring # <<>> /\ (Takes \/ \E g : MayGo(g) /\ TakesAndSends(g))
    PROVE  RingRight'
<1>1. CASE ring' = ring
  BY <1>1 DEF RingRight, SynsHaveSource
<1>2. ASSUME NEW g, MayGo(g), Sends(g) PROVE RingRight'
  BY <1>2, EnqueuedRight DEF Sends, RingRight, SynsHaveSource
<1>3. CASE ring # <<>> /\ Takes
  BY <1>3, RingTail DEF Takes, RingRight, SynsHaveSource
<1>4. ASSUME NEW g, MayGo(g), ring # <<>>, TakesAndSends(g) PROVE RingRight'
  BY <1>4, RingTail, EnqueuedRight DEF TakesAndSends, RingRight, SynsHaveSource
<1> QED
  BY <1>1, <1>2, <1>3, <1>4

\* What an open entry sends may go.
LEMMA OpenMaySend ==
    ASSUME NEW c \in ConnSet, c.sport # NoPort, NEW kind \in {"SYN", "SYNACK", "ACK", "FIN"}
    PROVE  MayGo(SegOf(kind, c))
BY DEF MayGo, SegOf, Seg, SegSet, ConnSet, TakenFin

----------------------------------------------------------------------------
(* The entries.                                                             *)

\* No source port is taken, or one is.
PortsStay == UNCHANGED <<ephemeral, dialled>>
PortTaken == /\ ephemeral' = NextPort(ephemeral)
             /\ dialled < MaxConnects /\ dialled' = dialled + 1

LEMMA PortsMove ==
    ASSUME EntriesRight, PortsStay \/ PortTaken
    PROVE  /\ ephemeral' \in AllPorts /\ ephemeral' >= EphemeralBase /\ dialled' \in 0..MaxConnects
           /\ FirstRound' =>
                 /\ FirstRound /\ dialled' >= dialled
                 /\ dialled' < EphemeralEnd - EphemeralBase => ephemeral' = EphemeralBase + dialled'
                 /\ PortTaken => ephemeral = EphemeralBase + dialled
<1>1. /\ ephemeral \in Nat /\ dialled \in Nat /\ dialled <= MaxConnects /\ MaxConnects \in Nat
      /\ ephemeral \in AllPorts /\ ephemeral >= EphemeralBase
  BY PortFacts, TablesAssumption DEF EntriesRight
<1>2. EphemeralBase \in Nat /\ EphemeralEnd \in Nat /\ EphemeralBase < EphemeralEnd
  BY PortsAssumption
<1>3. FirstRound /\ dialled < EphemeralEnd - EphemeralBase => ephemeral = EphemeralBase + dialled
  BY DEF EntriesRight, TuplesApart
<1>4. CASE PortsStay
  <2>1. ephemeral' = ephemeral /\ dialled' = dialled
    BY <1>4 DEF PortsStay
  <2>2. ~PortTaken
    BY <1>1, <2>1 DEF PortTaken
  <2> QED
    BY <1>1, <1>2, <1>3, <2>1, <2>2 DEF FirstRound
<1>5. CASE PortTaken
  <2>1. ephemeral' = NextPort(ephemeral) /\ dialled < MaxConnects /\ dialled' = dialled + 1
    BY <1>5 DEF PortTaken
  <2>2. EphemeralBase..(EphemeralEnd - 1) \subseteq AllPorts
    BY DEF AllPorts
  <2>3. ephemeral' \in EphemeralBase..(EphemeralEnd - 1)
    BY <1>1, <1>2, <2>1 DEF NextPort
  <2>4. ephemeral' \in AllPorts /\ ephemeral' >= EphemeralBase
    BY <1>1, <1>2, <2>2, <2>3
  <2>5. dialled' \in 0..MaxConnects /\ dialled' >= dialled
    BY <1>1, <2>1
  <2>6. ASSUME FirstRound'
        PROVE  /\ FirstRound /\ ephemeral = EphemeralBase + dialled
               /\ dialled' < EphemeralEnd - EphemeralBase => ephemeral' = EphemeralBase + dialled'
    <3>1. dialled + 1 <= EphemeralEnd - EphemeralBase
      BY <2>1, <2>6 DEF FirstRound
    <3>2. FirstRound /\ ephemeral = EphemeralBase + dialled
      BY <1>1, <1>2, <1>3, <3>1 DEF FirstRound
    <3>3. ASSUME dialled' < EphemeralEnd - EphemeralBase PROVE ephemeral' = EphemeralBase + dialled'
      BY <1>1, <1>2, <2>1, <3>2, <3>3 DEF NextPort
    <3> QED
      BY <3>2, <3>3
  <2> QED
    BY <2>4, <2>5, <2>6
<1> QED
  BY <1>4, <1>5

\* The pairs of ports of the open entries are the same as before.
LEMMA PairsStay ==
    ASSUME EntriesRight, PortsStay,
           \A c \in ConnIds : Open(c)' => Open(c) /\ conns'[c].sport = conns[c].sport,
           FirstRound => PairsDiffer'
    PROVE  TuplesApart'
<1>1. (FirstRound' <=> FirstRound) /\ ephemeral' = ephemeral /\ dialled' = dialled
  BY DEF PortsStay, FirstRound
<1> QED
  BY <1>1 DEF EntriesRight, TuplesApart

LEMMA EntriesStay ==
    ASSUME EntriesRight, conns' = conns, PortsStay \/ PortTaken
    PROVE  EntriesRight'
<1>1. \A c \in ConnIds : EntryOK(c)'
  BY DEF EntriesRight, EntryOK
<1>2. /\ ephemeral' \in AllPorts /\ ephemeral' >= EphemeralBase /\ dialled' \in 0..MaxConnects
      /\ FirstRound' =>
            /\ FirstRound /\ dialled' >= dialled
            /\ dialled' < EphemeralEnd - EphemeralBase => ephemeral' = EphemeralBase + dialled'
  BY PortsMove
<1>3. ASSUME FirstRound' PROVE PairsDiffer'
  BY <1>2, <1>3 DEF EntriesRight, TuplesApart, PairsDiffer
<1>4. ASSUME FirstRound', NEW c \in ConnIds, Open(c)'
      PROVE  conns'[c].sport < EphemeralBase + dialled'
  <2>1. conns'[c] = conns[c] /\ Open(c) /\ FirstRound /\ dialled' >= dialled
    BY <1>2, <1>4 DEF Open
  <2>2. conns[c].sport < EphemeralBase + dialled
    BY <2>1 DEF EntriesRight, TuplesApart
  <2>3. conns[c].sport \in Nat
    <3>1. \A e \in ConnSet : e.sport \in Nat
      BY PortFacts DEF ConnSet
    <3> QED
      BY <3>1 DEF EntriesRight
  <2>4. dialled \in Nat /\ dialled' \in Nat /\ EphemeralBase \in Nat
    BY <1>2, PortFacts, TablesAssumption DEF EntriesRight
  <2> QED
    BY <2>1, <2>2, <2>3, <2>4
<1>5. TuplesApart'
  BY <1>2, <1>3, <1>4 DEF TuplesApart
<1> QED
  BY <1>1, <1>2, <1>5 DEF EntriesRight

\* Entry c is released.
LEMMA ReleaseEntries ==
    ASSUME EntriesRight, NEW c \in ConnIds, conns' = Without(c), PortsStay
    PROVE  EntriesRight'
<1>1. /\ conns'[c] = Inactive /\ \A d \in ConnIds \ {c} : conns'[d] = conns[d]
      /\ Inactive \in ConnSet /\ Inactive.state = "CLOSED" /\ Inactive.dport = NoPort
      /\ Inactive.sport = NoPort
  BY PortFacts DEF EntriesRight, Without, Inactive, ConnSet, ConnStates
<1>2. conns' \in [ConnIds -> ConnSet]
  BY <1>1 DEF EntriesRight, Without
<1> HIDE DEF ConnSet
<1>3. \A d \in ConnIds : EntryOK(d)'
  BY <1>1 DEF EntriesRight, EntryOK
<1>4. ASSUME FirstRound PROVE PairsDiffer'
  <2> SUFFICES ASSUME NEW d \in ConnIds, NEW e \in ConnIds, Open(d)', Ports2(conns'[d]) = Ports2(conns'[e])
               PROVE  d = e
    BY DEF PairsDiffer, Open
  <2>1. d # c /\ conns'[d] = conns[d] /\ Open(d)
    BY <1>1 DEF Open
  <2>2. conns[d].dport # NoPort
    BY <2>1 DEF EntriesRight, EntryOK, Open
  <2>3. e # c
    BY <1>1, <2>1, <2>2 DEF Ports2
  <2>4. PairsDiffer
    BY <1>4 DEF EntriesRight, TuplesApart
  <2> QED
    BY <1>1, <2>1, <2>3, <2>4 DEF PairsDiffer, Open
<1>5. \A d \in ConnIds : Open(d)' => Open(d) /\ conns'[d].sport = conns[d].sport
  BY <1>1 DEF Open
<1> QED
  BY <1>2, <1>3, <1>4, <1>5, PairsStay, PortsMove DEF EntriesRight

\* An entry goes on, in a state that does not tell where it comes from.
LEMMA ChangeEntries ==
    ASSUME EntriesRight, NEW c \in ConnIds, Open(c), NEW new \in ConnSet,
           Ports2(new) = Ports2(conns[c]),
           \/ new.state = conns[c].state /\ new.accepted = conns[c].accepted
           \/ new.state \notin {"CLOSED", "LISTEN", "SYN_SENT", "SYN_RCVD"},
           conns' = [conns EXCEPT ![c] = new], PortsStay
    PROVE  EntriesRight'
<1> HIDE DEF ConnSet
<1>1. /\ conns'[c] = new /\ \A d \in ConnIds \ {c} : conns'[d] = conns[d]
      /\ conns' \in [ConnIds -> ConnSet]
  BY DEF EntriesRight
<1>2. new.sport = conns[c].sport /\ new.dport = conns[c].dport
  BY DEF Ports2
<1>3. new.state \notin {"CLOSED", "LISTEN"}
  BY DEF Open
<1>4. \A d \in ConnIds : EntryOK(d)'
  BY <1>1, <1>2, <1>3 DEF EntriesRight, EntryOK, Open
<1>5. \A d \in ConnIds : Ports2(conns'[d]) = Ports2(conns[d]) /\ (Open(d)' <=> Open(d))
  BY <1>1, <1>3 DEF Open
<1>6. FirstRound => PairsDiffer'
  BY <1>5 DEF EntriesRight, TuplesApart, PairsDiffer, Open
<1>7. \A d \in ConnIds : Open(d)' => Open(d) /\ conns'[d].sport = conns[d].sport
  BY <1>1, <1>2, <1>5
<1> QED
  BY <1>1, <1>4, <1>6, <1>7, PairsStay, PortsMove DEF EntriesRight

\* A new entry: one that listens, one of a pair of ports that no open entry has, or one of the
\* next source port.
LEMMA AddEntry ==
    ASSUME EntriesRight, NEW c \in ConnIds, NEW new \in ConnSet, conns[c].state = "CLOSED",
           conns' = [conns EXCEPT ![c] = new],
           \/ PortsStay /\ new.state = "LISTEN" /\ new.sport \in Ports /\ new.dport = NoPort
           \/ /\ new.dport # NoPort /\ new.sport # NoPort
              /\ \/ PortTaken /\ new.state = "SYN_SENT" /\ new.sport = ephemeral
                 \/ /\ PortsStay /\ new.state = "SYN_RCVD" /\ new.sport \in Ports /\ ~new.accepted
                    /\ \A d \in ConnIds : Open(d) => Ports2(conns[d]) # Ports2(new)
    PROVE  EntriesRight'
<1> HIDE DEF ConnSet
<1>1. /\ conns'[c] = new /\ \A d \in ConnIds \ {c} : conns'[d] = conns[d]
      /\ conns' \in [ConnIds -> ConnSet]
  BY DEF EntriesRight
<1>2. /\ ephemeral \in Nat /\ EphemeralBase \in Nat /\ ephemeral >= EphemeralBase
      /\ dialled \in Nat /\ MaxConnects \in Nat
  BY PortFacts, TablesAssumption DEF EntriesRight
<1>3. \A d \in ConnIds : EntryOK(d)'
  <2> SUFFICES ASSUME NEW d \in ConnIds PROVE EntryOK(d)'
    OBVIOUS
  <2>1. CASE d = c
    BY <1>1, <1>2, <2>1, PortFacts DEF EntryOK
  <2>2. CASE d # c
    BY <1>1, <1>2, <2>2 DEF EntryOK, EntriesRight
  <2> QED
    BY <2>1, <2>2
<1>4. PortsStay \/ PortTaken
  OBVIOUS
<1>5. /\ ephemeral' \in AllPorts /\ ephemeral' >= EphemeralBase /\ dialled' \in 0..MaxConnects
      /\ FirstRound' =>
            /\ FirstRound /\ dialled' >= dialled
            /\ dialled' < EphemeralEnd - EphemeralBase => ephemeral' = EphemeralBase + dialled'
            /\ PortTaken => ephemeral = EphemeralBase + dialled
  BY <1>4, PortsMove
<1>6. ASSUME FirstRound'
      PROVE  \A d \in ConnIds : /\ Open(d) => Ports2(conns[d]) # Ports2(new) \/ new.state = "LISTEN"
                                /\ Open(d)' => conns'[d].sport < EphemeralBase + dialled'
  <2>1. /\ FirstRound /\ dialled' >= dialled /\ dialled' \in Nat
        /\ PortTaken => ephemeral = EphemeralBase + dialled
    BY <1>2, <1>5, <1>6
  <2>2. \A d \in ConnIds : Open(d) => conns[d].sport < EphemeralBase + dialled
    BY <2>1 DEF EntriesRight, TuplesApart
  <2>3. \A d \in ConnIds : conns[d].sport \in Nat
    <3>1. \A e \in ConnSet : e.sport \in Nat
      BY PortFacts DEF ConnSet
    <3> QED
      BY <3>1 DEF EntriesRight
  <2>4. CASE PortTaken /\ new.state = "SYN_SENT" /\ new.sport = ephemeral
    <3>1. new.sport = EphemeralBase + dialled /\ dialled' = dialled + 1
      BY <2>1, <2>4 DEF PortTaken
    <3>2. \A d \in ConnIds : Open(d) => conns[d].sport # new.sport
      BY <1>2, <2>2, <2>3, <3>1
    <3>3. ASSUME NEW d \in ConnIds, Open(d)' PROVE conns'[d].sport < EphemeralBase + dialled'
      <4>1. d # c => Open(d) /\ conns'[d] = conns[d]
        BY <1>1, <3>3 DEF Open
      <4>2. d # c => conns[d].sport < EphemeralBase + dialled /\ conns[d].sport \in Nat
        BY <2>2, <2>3, <4>1
      <4>3. d = c => conns'[d].sport = EphemeralBase + dialled
        BY <1>1, <3>1
      <4> QED
        BY <1>2, <3>1, <4>1, <4>2, <4>3
    <3> QED
      BY <3>2, <3>3 DEF Ports2
  <2>5. CASE new.sport \in Ports
    <3>1. new.sport \in Nat /\ new.sport < EphemeralBase
      BY <2>5, PortsLow
    <3>2. ASSUME NEW d \in ConnIds, Open(d)' PROVE conns'[d].sport < EphemeralBase + dialled'
      <4>1. d # c => Open(d) /\ conns'[d] = conns[d]
        BY <1>1, <3>2 DEF Open
      <4>2. d # c => conns[d].sport < EphemeralBase + dialled /\ conns[d].sport \in Nat
        BY <2>2, <2>3, <4>1
      <4>3. d = c => conns'[d].sport = new.sport
        BY <1>1
      <4> QED
        BY <1>2, <2>1, <3>1, <4>1, <4>2, <4>3
    <3>3. new.state # "SYN_SENT"
      BY <1>2, <3>1
    <3>4. new.state = "LISTEN" \/ \A d \in ConnIds : Open(d) => Ports2(conns[d]) # Ports2(new)
      BY <3>3
    <3> QED
      BY <3>2, <3>4
  <2> QED
    BY <2>4, <2>5
<1>7. ASSUME FirstRound' PROVE PairsDiffer'
  <2> SUFFICES ASSUME NEW d \in ConnIds, NEW e \in ConnIds, Open(d)', Ports2(conns'[d]) = Ports2(conns'[e])
               PROVE  d = e
    BY DEF PairsDiffer, Open
  <2>0. conns[c] = Inactive /\ Inactive.dport = NoPort
    BY DEF EntriesRight, EntryOK, Inactive
  <2>1. CASE d # c /\ e # c
    <3>1. PairsDiffer
      BY <1>5, <1>7 DEF EntriesRight, TuplesApart
    <3> QED
      BY <1>1, <2>1, <3>1 DEF PairsDiffer, Open
  <2>2. CASE d # c /\ e = c
    <3>1. Open(d) /\ conns'[d] = conns[d] /\ conns[d].dport # NoPort
      BY <1>1, <2>2 DEF EntriesRight, EntryOK, Open
    <3>2. conns'[e] = new
      BY <1>1, <2>2
    <3>3. CASE new.state = "LISTEN"
      <4>1. new.dport = NoPort
        BY <3>3
      <4> QED
        BY <3>1, <3>2, <4>1 DEF Ports2
    <3>4. CASE new.state # "LISTEN"
      BY <1>6, <1>7, <3>1, <3>2, <3>4
    <3> QED
      BY <3>3, <3>4
  <2>3. CASE d = c /\ e # c
    <3>1. new.state # "LISTEN" /\ new.dport # NoPort
      BY <1>1, <2>3 DEF Open
    <3>2. conns'[d] = new /\ conns'[e] = conns[e]
      BY <1>1, <2>3
    <3>3. ~Open(e)
      BY <1>6, <1>7, <3>1, <3>2
    <3>4. conns[e].dport = NoPort
      BY <3>3 DEF Open, EntriesRight, EntryOK, Inactive
    <3> QED
      BY <3>1, <3>2, <3>4 DEF Ports2
  <2> QED
    BY <2>1, <2>2, <2>3
<1>8. TuplesApart'
  BY <1>5, <1>6, <1>7 DEF TuplesApart
<1> QED
  BY <1>1, <1>3, <1>5, <1>8 DEF EntriesRight

----------------------------------------------------------------------------
(* The sockets.                                                             *)

OnNobody(c) == \A s \in InUse : nsocks[s].conn # c
\* What an entry c looks like that no socket has and none has to have.
Loose(e) ==
    /\ e.state \notin {"LISTEN", "SYN_SENT"}
    /\ e.state \in {"ESTABLISHED", "CLOSE_WAIT"} => ~e.accepted /\ ~(e.sport >= EphemeralBase)

\* A step of the network on an entry that nobody has.
LEMMA LooseStep ==
    ASSUME SocketsRight, conns \in [ConnIds -> ConnSet], NEW c \in ConnIds, OnNobody(c),
           NEW new, Loose(new), conns' = [conns EXCEPT ![c] = new], nsocks' = nsocks,
           orphans' \in {orphans, orphans \ {c}}
    PROVE  SocketsRight'
<1> HIDE DEF ConnSet, SockSet
<1>1. conns'[c] = new /\ \A d \in ConnIds \ {c} : conns'[d] = conns[d]
  OBVIOUS
<1>2. InUse' = InUse /\ \A s \in InUse : nsocks[s].conn \in ConnIds \ {c}
  BY DEF InUse, OnNobody, SocketsRight, SockSet
<1>3. \A s \in InUse' : HeldOK(s)'
  BY <1>1, <1>2 DEF SocketsRight, HeldOK
<1>4. \A d \in ConnIds : Kept(d)'
  <2> SUFFICES ASSUME NEW d \in ConnIds PROVE Kept(d)'
    OBVIOUS
  <2>1. CASE d = c
    BY <1>1, <2>1 DEF Kept, Loose
  <2>2. CASE d # c
    BY <1>1, <1>2, <2>2 DEF Kept, SocketsRight
  <2> QED
    BY <2>1, <2>2
<1> QED
  BY <1>2, <1>3, <1>4 DEF SocketsRight, HeldOnce

\* A step of the network on an entry that stays what it is for its socket.
LEMMA HeldStep ==
    ASSUME SocketsRight, conns \in [ConnIds -> ConnSet], NEW c \in ConnIds,
           NEW new, Ports2(new) = Ports2(conns[c]), new.accepted = conns[c].accepted,
           conns[c].state \in HeldStates, new.state \in HeldStates,
           conns[c].state = "SYN_SENT" => conns[c].sport >= EphemeralBase,
           (conns[c].state = "LISTEN") = (new.state = "LISTEN"),
           new.state = "SYN_SENT" => conns[c].state = "SYN_SENT",
           conns' = [conns EXCEPT ![c] = new], nsocks' = nsocks, orphans' = orphans
    PROVE  SocketsRight'
<1> HIDE DEF ConnSet, SockSet
<1>1. conns'[c] = new /\ \A d \in ConnIds \ {c} : conns'[d] = conns[d]
  OBVIOUS
<1>2. InUse' = InUse /\ \A s \in InUse : nsocks[s].conn \in ConnIds
  BY DEF InUse, SocketsRight, SockSet
<1>a. new.sport = conns[c].sport
  BY DEF Ports2
<1>3. \A s \in InUse' : HeldOK(s)'
  BY <1>1, <1>2, <1>a DEF SocketsRight, HeldOK
<1>4. \A d \in ConnIds : Kept(d)'
  <2> SUFFICES ASSUME NEW d \in ConnIds PROVE Kept(d)'
    OBVIOUS
  <2>1. CASE d = c
    BY <1>1, <1>2, <1>a, <2>1 DEF Kept, SocketsRight, HeldStates
  <2>2. CASE d # c
    BY <1>1, <1>2, <2>2 DEF Kept, SocketsRight
  <2> QED
    BY <2>1, <2>2
<1> QED
  BY <1>2, <1>3, <1>4 DEF SocketsRight, HeldOnce

\* Socket s gets a new entry c, and leaves behind what it had.
LEMMA AttachStep ==
    ASSUME SocketsRight, conns \in [ConnIds -> ConnSet], NEW s \in SockIds, nsocks[s].used,
           NEW c \in ConnIds, conns[c].state = "CLOSED", NEW new \in ConnSet,
           new.state = "LISTEN" \/ (new.state = "SYN_SENT" /\ new.sport >= EphemeralBase),
           conns' = [conns EXCEPT ![c] = new], NEW listening \in BOOLEAN, Attached(s, c, listening)
    PROVE  SocketsRight'
<1> HIDE DEF ConnSet
<1>1. /\ conns'[c] = new /\ \A d \in ConnIds \ {c} : conns'[d] = conns[d]
  OBVIOUS
<1>0. c # NoConn /\ Ports2(new) \in AllPorts \X AllPorts
  BY TablesAssumption DEF ConnIds, NoConn, Ports2, ConnSet
<1>2. /\ nsocks' \in [SockIds -> SockSet]
      /\ nsocks'[s].conn = c /\ nsocks'[s].used /\ nsocks'[s].mine = Ports2(new)
      /\ \A r \in SockIds \ {s} : nsocks'[r] = nsocks[r]
  <2> DEFINE got == [nsocks[s] EXCEPT !.conn = c, !.listening = @ \/ listening, !.mine = Ports2(new)]
  <2>1. nsocks[s] \in SockSet
    BY DEF SocketsRight
  <2>2. got \in SockSet /\ got.conn = c /\ got.used /\ got.mine = Ports2(new)
    BY <1>0, <2>1 DEF SockSet
  <2>3. nsocks' = [nsocks EXCEPT ![s] = got]
    BY <1>1, <2>1 DEF Attached, SocketsRight, SockSet
  <2> HIDE DEF got
  <2> QED
    BY <2>2, <2>3 DEF SocketsRight
<1>3. InUse' = InUse \cup {s}
  BY <1>0, <1>2 DEF InUse
<1>4. \A r \in InUse : nsocks[r].conn \in ConnIds \ {c} /\ r \in SockIds
  BY DEF InUse, SocketsRight, SockSet, HeldOK, HeldStates
<1>5. \A r \in InUse' : HeldOK(r)'
  <2> SUFFICES ASSUME NEW r \in InUse' PROVE HeldOK(r)'
    OBVIOUS
  <2>1. CASE r = s
    BY <1>1, <1>2, <2>1 DEF HeldOK, HeldStates
  <2>2. CASE r # s
    BY <1>1, <1>2, <1>3, <1>4, <2>2 DEF HeldOK, SocketsRight
  <2> QED
    BY <2>1, <2>2
<1>6. HeldOnce'
  BY <1>2, <1>3, <1>4 DEF HeldOnce, SocketsRight
<1>7. orphans \subseteq orphans' /\ orphans' \subseteq ConnIds
      /\ (s \in InUse => nsocks[s].conn \in orphans')
  <2>1. orphans' = orphans \cup {old \in {nsocks[s].conn} \ {NoConn} : conns[old].state # "CLOSED"}
    BY DEF Attached
  <2>2. nsocks[s].conn \in ConnIds \cup {NoConn} /\ orphans \subseteq ConnIds
    BY DEF SocketsRight, SockSet
  <2>3. s \in InUse => nsocks[s].conn # NoConn /\ conns[nsocks[s].conn].state # "CLOSED"
    BY DEF SocketsRight, HeldOK, HeldStates, InUse
  <2> QED
    BY <2>1, <2>2, <2>3
<1>8. \A d \in ConnIds : Kept(d)'
  <2> SUFFICES ASSUME NEW d \in ConnIds PROVE Kept(d)'
    OBVIOUS
  <2>1. CASE d = c
    BY <1>2, <1>3, <2>1 DEF Kept
  <2>2. CASE d # c
    <3>1. conns'[d] = conns[d] /\ Kept(d)
      BY <1>1, <2>2 DEF SocketsRight
    <3>2. \A r \in InUse : nsocks[r].conn = d => d \in orphans' \/ (r \in InUse' /\ nsocks'[r].conn = d)
      BY <1>2, <1>3, <1>4, <1>7
    <3> QED
      BY <1>7, <3>1, <3>2 DEF Kept
  <2> QED
    BY <2>1, <2>2
<1> QED
  BY <1>2, <1>5, <1>6, <1>7, <1>8 DEF SocketsRight

\* A free socket is used, without a connection.
LEMMA NewSockStep ==
    ASSUME SocketsRight, NEW s \in SockIds, ~nsocks[s].used, nsocks' = [nsocks EXCEPT ![s] = NewSock],
           UNCHANGED <<conns, orphans>>
    PROVE  SocketsRight'
<1>1. /\ NewSock \in SockSet /\ NewSock.conn = NoConn /\ nsocks'[s] = NewSock
      /\ \A r \in SockIds \ {s} : nsocks'[r] = nsocks[r]
      /\ nsocks' \in [SockIds -> SockSet]
  BY DEF NewSock, SockSet, SocketsRight
<1>2. InUse' = InUse /\ s \notin InUse
  BY <1>1 DEF InUse
<1>3. \A r \in InUse : nsocks'[r] = nsocks[r]
  BY <1>1, <1>2 DEF InUse
<1>4. \A r \in InUse' : HeldOK(r)'
  BY <1>2, <1>3 DEF HeldOK, SocketsRight
<1>5. \A d \in ConnIds : Kept(d)'
  BY <1>2, <1>3 DEF Kept, SocketsRight
<1> QED
  BY <1>1, <1>2, <1>3, <1>4, <1>5 DEF SocketsRight, HeldOnce

\* A free socket gets a connection that was waiting.
LEMMA AcceptStep ==
    ASSUME SocketsRight, conns \in [ConnIds -> ConnSet], NEW s \in SockIds, ~nsocks[s].used,
           NEW c \in ConnIds, conns[c].state \in {"ESTABLISHED", "CLOSE_WAIT"}, OnNobody(c),
           conns' = [conns EXCEPT ![c].accepted = TRUE],
           nsocks' = [nsocks EXCEPT ![s] = [NewSock EXCEPT !.conn = c, !.mine = Ports2(conns[c])]],
           orphans' = orphans
    PROVE  SocketsRight'
<1> DEFINE got == [NewSock EXCEPT !.conn = c, !.mine = Ports2(conns[c])]
<1>0. c # NoConn /\ Ports2(conns[c]) \in AllPorts \X AllPorts
  BY TablesAssumption DEF ConnIds, NoConn, Ports2, ConnSet
<1>1. /\ got \in SockSet /\ got.conn = c /\ got.used /\ got.mine = Ports2(conns[c])
      /\ nsocks'[s] = got
      /\ \A r \in SockIds \ {s} : nsocks'[r] = nsocks[r]
      /\ nsocks' \in [SockIds -> SockSet]
  BY <1>0 DEF NewSock, SockSet, SocketsRight
<1>2. /\ \A d \in ConnIds \ {c} : conns'[d] = conns[d]
      /\ Ports2(conns'[c]) = Ports2(conns[c]) /\ conns'[c].state = conns[c].state
      /\ conns'[c].accepted
  BY DEF Ports2, ConnSet
<1> HIDE DEF ConnSet, got
<1>3. InUse' = InUse \cup {s} /\ s \notin InUse
  BY <1>0, <1>1 DEF InUse
<1>4. \A r \in InUse : nsocks'[r] = nsocks[r] /\ nsocks[r].conn \in ConnIds \ {c}
  BY <1>1, <1>3 DEF InUse, SocketsRight, SockSet, OnNobody
<1>5. \A r \in InUse' : HeldOK(r)'
  <2> SUFFICES ASSUME NEW r \in InUse' PROVE HeldOK(r)'
    OBVIOUS
  <2>1. CASE r = s
    BY <1>1, <1>2, <2>1 DEF HeldOK, HeldStates
  <2>2. CASE r # s
    BY <1>2, <1>3, <1>4, <2>2 DEF HeldOK, SocketsRight
  <2> QED
    BY <2>1, <2>2
<1>6. HeldOnce'
  BY <1>1, <1>3, <1>4 DEF HeldOnce, SocketsRight
<1>7. \A d \in ConnIds : Kept(d)'
  <2> SUFFICES ASSUME NEW d \in ConnIds PROVE Kept(d)'
    OBVIOUS
  <2>1. CASE d = c
    BY <1>1, <1>3, <2>1 DEF Kept
  <2>2. CASE d # c
    BY <1>2, <1>3, <1>4, <2>2 DEF Kept, SocketsRight
  <2> QED
    BY <2>1, <2>2
<1> QED
  BY <1>1, <1>5, <1>6, <1>7 DEF SocketsRight

\* Without a free socket nobody has it.
LEMMA LostStep ==
    ASSUME SocketsRight, conns \in [ConnIds -> ConnSet], NEW c \in ConnIds, OnNobody(c),
           conns' = [conns EXCEPT ![c].accepted = TRUE], nsocks' = nsocks,
           orphans' = orphans \cup {c}
    PROVE  SocketsRight'
<1> HIDE DEF ConnSet, SockSet
<1>1. \A d \in ConnIds \ {c} : conns'[d] = conns[d]
  OBVIOUS
<1>2. InUse' = InUse /\ \A s \in InUse : nsocks[s].conn \in ConnIds \ {c}
  BY DEF InUse, OnNobody, SocketsRight, SockSet
<1>3. \A s \in InUse' : HeldOK(s)'
  BY <1>1, <1>2 DEF SocketsRight, HeldOK
<1>4. \A d \in ConnIds : Kept(d)'
  <2> SUFFICES ASSUME NEW d \in ConnIds PROVE Kept(d)'
    OBVIOUS
  <2>1. CASE d = c
    BY <2>1 DEF Kept
  <2>2. CASE d # c
    BY <1>1, <1>2, <2>2 DEF Kept, SocketsRight
  <2> QED
    BY <2>1, <2>2
<1> QED
  BY <1>2, <1>3, <1>4 DEF SocketsRight, HeldOnce

\* A socket is closed, and its entry is no longer one of a program.
LEMMA CloseStep ==
    ASSUME SocketsRight, conns \in [ConnIds -> ConnSet], NEW s \in SockIds, nsocks[s].used,
           nsocks' = [nsocks EXCEPT ![s] = NotUsed], orphans' = orphans,
           \/ nsocks[s].conn = NoConn /\ conns' = conns
           \/ /\ nsocks[s].conn # NoConn
              /\ \E new \in ConnSet : /\ conns' = [conns EXCEPT ![nsocks[s].conn] = new]
                                      /\ new.state \in {"CLOSED", "FIN_WAIT1", "LAST_ACK"}
    PROVE  SocketsRight'
<1>1. /\ NotUsed \in SockSet /\ ~NotUsed.used /\ nsocks'[s] = NotUsed
      /\ \A r \in SockIds \ {s} : nsocks'[r] = nsocks[r]
      /\ nsocks' \in [SockIds -> SockSet]
  BY DEF NotUsed, NewSock, SockSet, SocketsRight
<1>2. InUse' = InUse \ {s}
  BY <1>1 DEF InUse
<1>3. /\ \A r \in InUse' : nsocks'[r] = nsocks[r] /\ nsocks[r].conn # nsocks[s].conn
      /\ \A r \in InUse' : nsocks[r].conn \in ConnIds
  BY <1>1, <1>2 DEF SocketsRight, HeldOnce, InUse, SockSet
<1>4. /\ \A d \in ConnIds : d # nsocks[s].conn => conns'[d] = conns[d]
      /\ nsocks[s].conn \in ConnIds => conns'[nsocks[s].conn].state \in {"CLOSED", "FIN_WAIT1", "LAST_ACK"}
  BY TablesAssumption DEF ConnIds, NoConn
<1> HIDE DEF ConnSet
<1>5. \A r \in InUse' : HeldOK(r)'
  BY <1>2, <1>3, <1>4 DEF HeldOK, SocketsRight
<1>6. \A d \in ConnIds : Kept(d)'
  <2> SUFFICES ASSUME NEW d \in ConnIds PROVE Kept(d)'
    OBVIOUS
  <2>1. CASE d = nsocks[s].conn
    BY <1>4, <2>1 DEF Kept
  <2>2. CASE d # nsocks[s].conn
    BY <1>2, <1>3, <1>4, <2>2 DEF Kept, SocketsRight
  <2> QED
    BY <2>1, <2>2
<1> QED
  BY <1>1, <1>2, <1>3, <1>5, <1>6 DEF SocketsRight, HeldOnce

----------------------------------------------------------------------------
(* The descriptors.                                                         *)

\* A socket that a descriptor refers to is in use.
LEMMA FdUsed ==
    ASSUME FdsRight, NEW t \in Peers, NEW f \in SFds, sfds[t][f] # NoSock
    PROVE  sfds[t][f] \in SockIds /\ nsocks[sfds[t][f]].used /\ Fd(sfds[t][f]) = {<<t, f>>}
<1>1. sfds[t][f] \in SockIds /\ <<t, f>> \in Fd(sfds[t][f])
  BY DEF FdsRight, Fd
<1> QED
  BY <1>1 DEF FdsRight, OneFd

\* A free descriptor refers to a socket that was free.
LEMMA FdAdded ==
    ASSUME FdsRight, NEW t \in Peers, NEW f \in SFds, sfds[t][f] = NoSock,
           NEW s \in SockIds, ~nsocks[s].used, nsocks'[s].used,
           \A r \in SockIds \ {s} : nsocks'[r].used = nsocks[r].used,
           sfds' = [sfds EXCEPT ![t][f] = s]
    PROVE  FdsRight'
<1>1. /\ sfds' \in [Peers -> [SFds -> SockIds \cup {NoSock}]]
      /\ \A u \in Peers, g \in SFds : sfds'[u][g] = IF u = t /\ g = f THEN s ELSE sfds[u][g]
  BY DEF FdsRight
<1>2. NoSock \notin SockIds
  BY TablesAssumption DEF SockIds, NoSock
<1>3. Fd(s) = {}
  BY DEF FdsRight, OneFd
<1>4. Fd(s)' = {<<t, f>>}
  BY <1>1, <1>3 DEF Fd
<1>5. \A r \in SockIds \ {s} : Fd(r)' = Fd(r)
  BY <1>1, <1>2 DEF Fd
<1>6. \A r \in SockIds : OneFd(r)'
  BY <1>4, <1>5 DEF OneFd, FdsRight
<1> QED
  BY <1>1, <1>6 DEF FdsRight

\* A descriptor is closed with its socket.
LEMMA FdTaken ==
    ASSUME FdsRight, NEW t \in Peers, NEW f \in SFds, NEW s \in SockIds, sfds[t][f] = s,
           ~nsocks'[s].used, \A r \in SockIds \ {s} : nsocks'[r].used = nsocks[r].used,
           sfds' = [sfds EXCEPT ![t][f] = NoSock]
    PROVE  FdsRight'
<1>1. /\ sfds' \in [Peers -> [SFds -> SockIds \cup {NoSock}]]
      /\ \A u \in Peers, g \in SFds : sfds'[u][g] = IF u = t /\ g = f THEN NoSock ELSE sfds[u][g]
  BY DEF FdsRight
<1>2. NoSock \notin SockIds
  BY TablesAssumption DEF SockIds, NoSock
<1>3. Fd(s) = {<<t, f>>}
  BY <1>2, FdUsed
<1>4. Fd(s)' = {}
  BY <1>1, <1>2, <1>3 DEF Fd
<1>5. \A r \in SockIds \ {s} : Fd(r)' = Fd(r)
  BY <1>1, <1>2 DEF Fd
<1>6. \A r \in SockIds : OneFd(r)'
  BY <1>4, <1>5 DEF OneFd, FdsRight
<1> QED
  BY <1>1, <1>6 DEF FdsRight

LEMMA FdsStay ==
    ASSUME FdsRight, sfds' = sfds, \A r \in SockIds : nsocks'[r].used = nsocks[r].used
    PROVE  FdsRight'
BY DEF FdsRight, OneFd, Fd

----------------------------------------------------------------------------
(* The calls.                                                               *)

\* What an entry in a state to be shut or shut down becomes.
LEMMA ShutStep ==
    ASSUME EntriesRight, RingRight, NEW c \in ConnIds, Shut(c), PortsStay
    PROVE  /\ EntriesRight' /\ RingRight'
           /\ \E new \in ConnSet : /\ conns' = [conns EXCEPT ![c] = new]
                                   /\ new.state \in {"CLOSED", "FIN_WAIT1", "LAST_ACK"}
<1> DEFINE to == IF conns[c].state = "ESTABLISHED" THEN "FIN_WAIT1" ELSE "LAST_ACK"
           shut == [conns[c] EXCEPT !.state = to, !.due = TRUE]
<1>0. c # NoConn
  BY TablesAssumption DEF ConnIds, NoConn
<1>1. CASE conns[c].state \in {"ESTABLISHED", "CLOSE_WAIT"}
  <2>1. conns' = [conns EXCEPT ![c] = shut] /\ Sends(SegOf("FIN", shut))
    BY <1>0, <1>1 DEF Shut
  <2>2. conns[c] \in ConnSet /\ conns[c].sport # NoPort
    BY <1>1, PortFacts DEF EntriesRight, EntryOK
  <2>3. /\ shut \in ConnSet /\ Ports2(shut) = Ports2(conns[c]) /\ shut.sport = conns[c].sport
        /\ shut.state \in {"FIN_WAIT1", "LAST_ACK"}
    BY <2>2 DEF ConnSet, ConnStates, Ports2
  <2> HIDE DEF shut, ConnSet
  <2>4. EntriesRight'
    BY <1>1, <2>1, <2>3, ChangeEntries DEF Open
  <2>5. RingRight'
    BY <2>1, <2>2, <2>3, OpenMaySend, RingGoes
  <2> QED
    BY <2>1, <2>3, <2>4, <2>5
<1>2. CASE conns[c].state \notin {"ESTABLISHED", "CLOSE_WAIT"}
  <2>1. conns' = Without(c) /\ ring' = ring
    BY <1>0, <1>2 DEF Shut
  <2>2. Inactive \in ConnSet /\ Inactive.state = "CLOSED"
    BY PortFacts DEF Inactive, ConnSet, ConnStates
  <2> QED
    BY <2>1, <2>2, ReleaseEntries, RingGoes DEF Without
<1> QED
  BY <1>1, <1>2

LEMMA SocketKeeps ==
    ASSUME SockInv, NEW t \in Peers, Socket(t)
    PROVE  SockInv'
<1> DEFINE s == Lowest1(FreeSocks)
           f == Lowest1(FreeFds(t))
<1>1. EntriesRight /\ RingRight /\ SocketsRight /\ FdsRight /\ made \in 0..MaxSockets
  BY Parts
<1>2. s \in SockIds /\ ~nsocks[s].used /\ f \in SFds /\ sfds[t][f] = NoSock
  BY FreeOnes DEF Socket
<1>3. /\ nsocks' = [nsocks EXCEPT ![s] = NewSock] /\ sfds' = [sfds EXCEPT ![t][f] = s]
      /\ UNCHANGED <<conns, ring, ephemeral, dialled, orphans>> /\ made' \in 0..MaxSockets
  BY <1>1, TablesAssumption DEF Socket
<1> HIDE DEF s, f
<1>4. SocketsRight'
  BY <1>1, <1>2, <1>3, NewSockStep
<1>5. nsocks'[s].used /\ \A r \in SockIds \ {s} : nsocks'[r].used = nsocks[r].used
  BY <1>1, <1>2, <1>3 DEF SocketsRight, NewSock
<1>6. FdsRight'
  BY <1>1, <1>2, <1>3, <1>5, FdAdded
<1>7. EntriesRight' /\ RingRight'
  BY <1>1, <1>3, RingGoes, EntriesStay DEF PortsStay
<1> QED
  BY <1>3, <1>4, <1>6, <1>7, Whole

\* A connection for a socket that t has.
LEMMA AttachKeeps ==
    ASSUME SockInv, NEW t \in Peers, NEW f \in SFds, sfds[t][f] # NoSock,
           NEW c \in ConnIds, conns[c].state = "CLOSED", NEW new \in ConnSet,
           conns' = [conns EXCEPT ![c] = new], NEW listening \in BOOLEAN,
           Attached(sfds[t][f], c, listening), sfds' = sfds, made' = made,
           \/ PortsStay /\ new.state = "LISTEN" /\ new.sport \in Ports /\ new.dport = NoPort
           \/ /\ PortTaken /\ new.state = "SYN_SENT" /\ new.sport = ephemeral
              /\ new.dport # NoPort /\ new.sport # NoPort,
           ring' = ring \/ (new.state = "SYN_SENT" /\ Sends(SegOf("SYN", new)))
    PROVE  SockInv'
<1>1. EntriesRight /\ RingRight /\ SocketsRight /\ FdsRight /\ made \in 0..MaxSockets
  BY Parts
<1>2. sfds[t][f] \in SockIds /\ nsocks[sfds[t][f]].used
  BY <1>1, FdUsed
<1>3. conns \in [ConnIds -> ConnSet] /\ ephemeral \in Nat /\ EphemeralBase \in Nat /\ ephemeral >= EphemeralBase
  BY <1>1, PortFacts DEF EntriesRight
<1> HIDE DEF ConnSet
<1>4. SocketsRight'
  <2>1. new.state = "LISTEN" \/ (new.state = "SYN_SENT" /\ new.sport >= EphemeralBase)
    BY <1>3
  <2> QED
    BY <1>1, <1>2, <1>3, <2>1, AttachStep
<1>5. EntriesRight'
  BY <1>1, AddEntry
<1>6. RingRight'
  <2>1. CASE new.state = "SYN_SENT" /\ new.sport # NoPort /\ Sends(SegOf("SYN", new))
    BY <1>1, <2>1, PortFacts, OpenMaySend, RingGoes
  <2>2. CASE ring' = ring
    BY <1>1, <2>2, RingGoes
  <2> QED
    BY <2>1, <2>2, PortFacts
<1>7. FdsRight'
  <2>1. \A r \in SockIds : nsocks'[r].used = nsocks[r].used
    BY <1>1, <1>2 DEF Attached, SocketsRight, SockSet
  <2> QED
    BY <1>1, <2>1, FdsStay
<1> QED
  BY <1>1, <1>4, <1>5, <1>6, <1>7, Whole

LEMMA ListenKeeps ==
    ASSUME SockInv, NEW t \in Peers, NEW f \in SFds, sfds[t][f] # NoSock, NEW port \in Ports,
           Listen(sfds[t][f], port)
    PROVE  SockInv'
<1> DEFINE c == Lowest1(FreeConns)
           new == [NewConn("LISTEN", port, NoPort) EXCEPT !.due = FALSE]
<1>1. c \in ConnIds /\ conns[c].state = "CLOSED"
  BY FreeOnes DEF Listen
<1>2. new \in ConnSet /\ new.state = "LISTEN" /\ new.sport = port /\ new.dport = NoPort
  BY PortFacts DEF NewConn, ConnSet, ConnStates
<1>3. /\ conns' = [conns EXCEPT ![c] = new] /\ Attached(sfds[t][f], c, TRUE)
      /\ UNCHANGED <<sfds, ring, made>> /\ PortsStay
  BY DEF Listen, PortsStay
<1> HIDE DEF c, new, ConnSet
<1> QED
  BY <1>1, <1>2, <1>3, AttachKeeps

LEMMA ConnectKeeps ==
    ASSUME SockInv, NEW t \in Peers, NEW f \in SFds, sfds[t][f] # NoSock, NEW port \in Ports,
           ConnectTo(sfds[t][f], port)
    PROVE  SockInv'
<1> DEFINE c == Lowest1(FreeConns)
           new == NewConn("SYN_SENT", ephemeral, port)
<1>1. ephemeral \in AllPorts /\ ephemeral # NoPort /\ PortTaken
  <2>1. /\ ephemeral \in AllPorts /\ ephemeral \in Nat /\ ephemeral >= EphemeralBase
        /\ EphemeralBase \in Nat
    BY PortFacts DEF SockInv, SockTypeOK
  <2>2. port \in Nat /\ port # 0 /\ port < EphemeralBase
    BY PortsAssumption DEF NoPort
  <2>3. ephemeral # NoPort
    BY <2>1, <2>2 DEF NoPort
  <2> QED
    BY <2>1, <2>3 DEF ConnectTo, PortTaken
<1>2. CASE FreeConns # {}
  <2>1. c \in ConnIds /\ conns[c].state = "CLOSED"
    BY <1>2, FreeOnes
  <2>2. /\ new \in ConnSet /\ new.state = "SYN_SENT" /\ new.sport = ephemeral /\ new.dport = port
        /\ port # NoPort
    BY <1>1, PortFacts DEF NewConn, ConnSet, ConnStates
  <2>3. /\ conns' = [conns EXCEPT ![c] = new] /\ Attached(sfds[t][f], c, FALSE)
        /\ Sends(SegOf("SYN", new)) /\ sfds' = sfds /\ made' = made
    BY <1>2 DEF ConnectTo
  <2>4. new.dport # NoPort /\ new.sport # NoPort /\ FALSE \in BOOLEAN
    BY <1>1, <2>2
  <2> HIDE DEF c, new, ConnSet
  <2> QED
    BY <1>1, <2>1, <2>2, <2>3, <2>4, AttachKeeps
<1>3. CASE FreeConns = {}
  <2>1. UNCHANGED <<conns, nsocks, ring, orphans, sfds, made>>
    BY <1>3 DEF ConnectTo
  <2>2. EntriesRight /\ RingRight /\ SocketsRight /\ FdsRight /\ made \in 0..MaxSockets
    BY Parts
  <2>4. EntriesRight'
    BY <1>1, <2>1, <2>2, EntriesStay
  <2>5. RingRight' /\ FdsRight'
    BY <2>1, <2>2, RingGoes, FdsStay
  <2>6. SocketsRight'
    BY <2>1, <2>2 DEF SocketsRight, InUse, HeldOK, HeldOnce, Kept
  <2> QED
    BY <2>1, <2>2, <2>4, <2>5, <2>6, Whole
<1> QED
  BY <1>2, <1>3

\* What waits for an accept is on no socket.
LEMMA WaitingIsFree ==
    ASSUME SockInv, NEW l \in ConnIds, conns[l].state = "LISTEN", Waiting(l) # {}
    PROVE  LET c == Lowest1(Waiting(l))
           IN  /\ c \in ConnIds /\ conns[c].state \in {"ESTABLISHED", "CLOSE_WAIT"}
               /\ ~conns[c].accepted /\ ~(conns[c].sport >= EphemeralBase) /\ OnNobody(c)
<1> DEFINE c == Lowest1(Waiting(l))
<1>1. c \in Waiting(l)
  <2>1. Waiting(l) \in SUBSET Nat
    BY TablesAssumption DEF Waiting, ConnIds
  <2> QED
    BY <2>1, LowestIsIn
<1> HIDE DEF c
<1>2. /\ c \in ConnIds /\ conns[c].state \in {"ESTABLISHED", "CLOSE_WAIT"}
      /\ ~conns[c].accepted /\ conns[c].sport = conns[l].sport
  BY <1>1 DEF Waiting
<1>3. conns[l].sport \in Ports
  BY DEF SockInv, EntryOK
<1>4. ~(conns[c].sport >= EphemeralBase)
  BY <1>2, <1>3, PortsLow
<1>5. OnNobody(c)
  BY <1>2, <1>4 DEF SockInv, HeldOK, OnNobody
<1> QED
  BY <1>2, <1>4, <1>5 DEF c

LEMMA AcceptsKeeps ==
    ASSUME SockInv, NEW t \in Peers, NEW f \in SFds, sfds[t][f] # NoSock, Accepts(t, sfds[t][f])
    PROVE  SockInv'
<1> DEFINE l == nsocks[sfds[t][f]].conn
           c == Lowest1(Waiting(l))
           s == Lowest1(FreeSocks)
           g == Lowest1(FreeFds(t))
<1>1. EntriesRight /\ RingRight /\ SocketsRight /\ FdsRight /\ made \in 0..MaxSockets
  BY Parts
<1>2. l \in ConnIds /\ conns[l].state = "LISTEN" /\ Waiting(l) # {}
  <2>1. sfds[t][f] \in SockIds
    BY <1>1, FdUsed
  <2> QED
    BY <1>1, <2>1 DEF Accepts, SocketsRight, SockSet
<1>3. /\ c \in ConnIds /\ conns[c].state \in {"ESTABLISHED", "CLOSE_WAIT"}
      /\ ~conns[c].accepted /\ ~(conns[c].sport >= EphemeralBase) /\ OnNobody(c)
  BY <1>2, WaitingIsFree
<1>4. conns \in [ConnIds -> ConnSet] /\ conns[c] \in ConnSet
  BY <1>1, <1>3 DEF EntriesRight
<1>5. PortsStay /\ made' = made
  BY DEF Accepts, PortsStay
<1>6. ASSUME conns' = [conns EXCEPT ![c].accepted = TRUE] PROVE EntriesRight'
  <2> DEFINE new == [conns[c] EXCEPT !.accepted = TRUE]
  <2>1. /\ new \in ConnSet /\ Ports2(new) = Ports2(conns[c]) /\ new.state = conns[c].state
        /\ conns' = [conns EXCEPT ![c] = new]
    BY <1>4, <1>6 DEF ConnSet, Ports2
  <2>2. new.state \notin {"CLOSED", "LISTEN", "SYN_SENT", "SYN_RCVD"} /\ Open(c)
    BY <1>3, <2>1 DEF Open
  <2> HIDE DEF new, c, ConnSet
  <2> QED
    BY <1>1, <1>3, <1>5, <2>1, <2>2, ChangeEntries
<1>a. \/ /\ FreeSocks # {} /\ FreeFds(t) # {}
         /\ conns' = [conns EXCEPT ![c].accepted = TRUE]
         /\ nsocks' = [nsocks EXCEPT ![s] = [NewSock EXCEPT !.conn = c, !.mine = Ports2(conns[c])]]
         /\ sfds' = [sfds EXCEPT ![t][g] = s]
         /\ UNCHANGED <<ring, orphans>>
      \/ ClosedAgain(t, c)
      \/ /\ conns' = [conns EXCEPT ![c].accepted = TRUE]
         /\ orphans' = orphans \cup {c}
         /\ UNCHANGED <<nsocks, sfds, ring>>
  BY DEF Accepts
<1>7. CASE /\ FreeSocks # {} /\ FreeFds(t) # {}
           /\ conns' = [conns EXCEPT ![c].accepted = TRUE]
           /\ nsocks' = [nsocks EXCEPT ![s] = [NewSock EXCEPT !.conn = c, !.mine = Ports2(conns[c])]]
           /\ sfds' = [sfds EXCEPT ![t][g] = s]
           /\ UNCHANGED <<ring, orphans>>
  <2>1. s \in SockIds /\ ~nsocks[s].used /\ g \in SFds /\ sfds[t][g] = NoSock
    BY <1>7, FreeOnes
  <2> HIDE DEF c, s, g, ConnSet, SockSet
  <2>2. SocketsRight'
    BY <1>1, <1>3, <1>4, <1>7, <2>1, AcceptStep
  <2>3. nsocks'[s].used /\ \A r \in SockIds \ {s} : nsocks'[r].used = nsocks[r].used
    BY <1>1, <1>7, <2>1 DEF SocketsRight, NewSock
  <2>4. FdsRight'
    BY <1>1, <1>7, <2>1, <2>3, FdAdded
  <2> QED
    BY <1>1, <1>5, <1>6, <1>7, <2>2, <2>4, RingGoes, Whole
<1>8. CASE ClosedAgain(t, c)
  <2> HIDE DEF c, ConnSet, SockSet
  <2>1. Shut(c) /\ UNCHANGED <<nsocks, sfds, orphans>>
    BY <1>8 DEF ClosedAgain
  <2>2. /\ EntriesRight' /\ RingRight'
        /\ \E new \in ConnSet : /\ conns' = [conns EXCEPT ![c] = new]
                                /\ new.state \in {"CLOSED", "FIN_WAIT1", "LAST_ACK"}
    BY <1>1, <1>3, <1>5, <2>1, ShutStep
  <2>3. SocketsRight'
    BY <1>1, <1>3, <1>4, <2>1, <2>2, LooseStep DEF Loose
  <2> QED
    BY <1>1, <1>5, <2>1, <2>2, <2>3, FdsStay, Whole
<1>9. CASE /\ conns' = [conns EXCEPT ![c].accepted = TRUE]
           /\ orphans' = orphans \cup {c}
           /\ UNCHANGED <<nsocks, sfds, ring>>
  <2> HIDE DEF c, ConnSet, SockSet
  <2>1. SocketsRight'
    BY <1>1, <1>3, <1>4, <1>9, LostStep
  <2> QED
    BY <1>1, <1>5, <1>6, <1>9, <2>1, RingGoes, FdsStay, Whole
<1> QED
  BY <1>a, <1>7, <1>8, <1>9

LEMMA CloseSockKeeps ==
    ASSUME SockInv, NEW t \in Peers, NEW f \in SFds, sfds[t][f] # NoSock, CloseSock(t, f)
    PROVE  SockInv'
<1> DEFINE s == sfds[t][f]
           c == nsocks[s].conn
<1>1. EntriesRight /\ RingRight /\ SocketsRight /\ FdsRight /\ made \in 0..MaxSockets
  BY Parts
<1>2. s \in SockIds /\ nsocks[s].used /\ c \in ConnIds \cup {NoConn}
  BY <1>1, FdUsed DEF SocketsRight, SockSet
<1>3. /\ Shut(c) /\ nsocks' = [nsocks EXCEPT ![s] = NotUsed] /\ sfds' = [sfds EXCEPT ![t][f] = NoSock]
      /\ UNCHANGED <<made, orphans>> /\ PortsStay
  BY DEF CloseSock, PortsStay
<1>4. ~nsocks'[s].used /\ \A r \in SockIds \ {s} : nsocks'[r].used = nsocks[r].used
  BY <1>1, <1>2, <1>3 DEF SocketsRight, NotUsed, NewSock
<1>5. FdsRight'
  BY <1>1, <1>2, <1>3, <1>4, FdTaken
<1>6. conns \in [ConnIds -> ConnSet]
  BY <1>1 DEF EntriesRight
<1> HIDE DEF s, ConnSet, SockSet
<1>7. CASE c = NoConn
  <2>1. conns' = conns /\ ring' = ring
    BY <1>3, <1>7 DEF Shut
  <2>2. SocketsRight'
    BY <1>1, <1>2, <1>3, <1>6, <1>7, <2>1, CloseStep
  <2>3. EntriesRight' /\ RingRight'
    BY <1>1, <1>3, <2>1, RingGoes, EntriesStay
  <2> QED
    BY <1>1, <1>3, <1>5, <2>2, <2>3, Whole
<1>8. CASE c # NoConn
  <2>1. /\ EntriesRight' /\ RingRight'
        /\ \E new \in ConnSet : /\ conns' = [conns EXCEPT ![c] = new]
                                /\ new.state \in {"CLOSED", "FIN_WAIT1", "LAST_ACK"}
    BY <1>1, <1>2, <1>3, <1>8, ShutStep
  <2>2. SocketsRight'
    BY <1>1, <1>2, <1>3, <1>6, <1>8, <2>1, CloseStep
  <2> QED
    BY <1>1, <1>3, <1>5, <2>1, <2>2, Whole
<1> QED
  BY <1>7, <1>8

----------------------------------------------------------------------------
(* The polls.                                                               *)

\* A poll leaves sockets and descriptors alone.
PollFrame == UNCHANGED <<nsocks, sfds, ephemeral, made, dialled>>

LEMMA PollKeeps ==
    ASSUME SockInv, PollFrame, EntriesRight', RingRight', SocketsRight'
    PROVE  SockInv'
BY Parts, FdsStay, Whole DEF PollFrame

\* A socket is on no entry that is closed or on its way to be.
LEMMA NotHeld ==
    ASSUME SockInv, NEW c \in ConnIds,
           \/ conns[c].state \notin HeldStates
           \/ conns[c].state # "LISTEN" /\ ~conns[c].accepted /\ conns[c].sport \in Ports
    PROVE  OnNobody(c)
BY PortsLow DEF SockInv, OnNobody, HeldOK

LEMMA SynKeeps ==
    ASSUME SockInv, PollFrame, ring # <<>>, SynArrives(Head(ring))
    PROVE  SockInv'
<1> DEFINE p == Head(ring)
           c == Lowest1(FreeConns)
           new == NewConn("SYN_RCVD", p.to, p.from)
<1>1. EntriesRight /\ RingRight /\ SocketsRight
  BY Parts
<1>2. p \in SegSet /\ p.from # NoPort
  BY <1>1, RingTail DEF SynArrives, Acceptable
<1>3. p.to \in Ports
  BY <1>1 DEF SynArrives, Acceptable, EntriesRight, EntryOK
<1>4. c \in ConnIds /\ conns[c].state = "CLOSED" /\ conns' = [conns EXCEPT ![c] = new]
      /\ TakesAndSends(SegOf("SYNACK", new)) /\ orphans' = orphans
  BY FreeOnes DEF SynArrives, Acceptable
<1>5. /\ new \in ConnSet /\ new.state = "SYN_RCVD" /\ new.sport = p.to /\ new.dport = p.from
      /\ ~new.accepted
  BY <1>2, <1>3, PortFacts DEF NewConn, ConnSet, ConnStates, SegSet
<1>6. \A d \in ConnIds : Open(d) => Ports2(conns[d]) # Ports2(new)
  BY <1>5 DEF SynArrives, Matching, Open, Ports2
<1>7. OnNobody(c)
  BY <1>4, NotHeld DEF HeldStates
<1>8. new.sport # NoPort /\ new.dport # NoPort /\ ~(new.sport >= EphemeralBase)
  BY <1>2, <1>3, <1>5, PortFacts, PortsLow
<1>9. Loose(new)
  BY <1>5, <1>8 DEF Loose
<1>10. nsocks' = nsocks /\ PortsStay
  BY DEF PollFrame, PortsStay
<1> HIDE DEF p, c, new, ConnSet, SockSet, SegSet
<1>11. EntriesRight'
  BY <1>1, <1>3, <1>4, <1>5, <1>6, <1>8, <1>10, AddEntry
<1>12. RingRight'
  BY <1>1, <1>4, <1>5, <1>8, OpenMaySend, RingGoes
<1>13. SocketsRight'
  BY <1>1, <1>4, <1>7, <1>9, <1>10, LooseStep DEF EntriesRight
<1> QED
  BY <1>11, <1>12, <1>13, PollKeeps

LEMMA RefusedKeeps ==
    ASSUME SockInv, PollFrame, ring # <<>>, Refused(Head(ring))
    PROVE  SockInv'
<1>1. EntriesRight /\ RingRight /\ SocketsRight
  BY Parts
<1>2. UNCHANGED <<conns, orphans, nsocks>> /\ PortsStay
  BY DEF Refused, PollFrame, PortsStay
<1>3. RingRight'
  <2>1. \A covers \in BOOLEAN : MayGo(Seg("RST", Head(ring).to, Head(ring).from, covers))
    BY <1>1, RingTail DEF MayGo, Seg, SegSet
  <2> QED
    BY <1>1, <2>1, RingGoes DEF Refused
<1>4. EntriesRight' /\ SocketsRight'
  BY <1>1, <1>2, EntriesStay DEF SocketsRight, InUse, HeldOK, HeldOnce, Kept
<1> QED
  BY <1>3, <1>4, PollKeeps

LEMMA ResendsKeeps ==
    ASSUME SockInv, PollFrame, NEW c \in ConnIds, Resends(c)
    PROVE  SockInv'
<1>1. EntriesRight /\ RingRight /\ SocketsRight
  BY Parts
<1>2. UNCHANGED <<conns, orphans, nsocks>> /\ PortsStay /\ Sends(Unanswered(conns[c]))
  BY DEF Resends, PollFrame, PortsStay
<1>3. MayGo(Unanswered(conns[c]))
  <2>1. conns[c] \in ConnSet /\ (conns[c].state = "SYN_SENT" => conns[c].sport # NoPort)
    BY <1>1 DEF EntriesRight, EntryOK
  <2> QED
    BY <2>1 DEF Unanswered, MayGo, SegOf, Seg, SegSet, ConnSet, TakenFin
<1>4. RingRight'
  BY <1>1, <1>2, <1>3, RingGoes
<1>5. EntriesRight' /\ SocketsRight'
  BY <1>1, <1>2, EntriesStay DEF SocketsRight, InUse, HeldOK, HeldOnce, Kept
<1> QED
  BY <1>4, <1>5, PollKeeps

LEMMA GivesUpKeeps ==
    ASSUME SockInv, ~CutsOff, PollFrame, NEW c \in ConnIds, GivesUp(c)
    PROVE  SockInv'
<1>1. EntriesRight /\ RingRight /\ SocketsRight
  BY Parts
<1>2. conns' = Without(c) /\ orphans' = orphans \ {c} /\ UNCHANGED <<ring, nsocks>> /\ PortsStay
  BY DEF GivesUp, PollFrame, PortsStay
<1>3. OnNobody(c) /\ Loose(Inactive)
  BY DEF GivesUp, OnNobody, InUse, Loose, Inactive
<1>4. SocketsRight'
  BY <1>1, <1>2, <1>3, LooseStep DEF EntriesRight, Without
<1>5. EntriesRight' /\ RingRight'
  BY <1>1, <1>2, ReleaseEntries, RingGoes
<1> QED
  BY <1>4, <1>5, PollKeeps

\* What an acknowledgement does to an entry.
LEMMA AckedKeeps ==
    ASSUME NEW e \in ConnSet, NEW p
    PROVE  /\ Acked(e, p) \in ConnSet /\ Ports2(Acked(e, p)) = Ports2(e)
           /\ Acked(e, p).accepted = e.accepted /\ Acked(e, p).sport = e.sport
           /\ Acked(e, p).dport = e.dport
           /\ \/ Acked(e, p).state = e.state
              \/ e.state = "FIN_WAIT1" /\ Acked(e, p).state = "FIN_WAIT2"
              \/ e.state = "SYN_RCVD" /\ Acked(e, p).state = "ESTABLISHED"
BY DEF Acked, ConnSet, ConnStates, Ports2

\* How an entry goes on with a segment, and where it ends.
LEMMA ArrivesCases ==
    ASSUME SockInv, PollFrame, ring # <<>>, Arrives(Head(ring))
    PROVE  \E c \in ConnIds :
              /\ Open(c) /\ RingRight'
              /\ \/ /\ conns[c].state \in {"LAST_ACK", "FIN_WAIT1", "FIN_WAIT2"}
                    /\ conns' = Without(c) /\ orphans' = orphans \ {c}
                 \/ \E new \in ConnSet :
                       /\ conns' = [conns EXCEPT ![c] = new] /\ orphans' = orphans
                       /\ Ports2(new) = Ports2(conns[c]) /\ new.accepted = conns[c].accepted
                       /\ \/ new.state = conns[c].state
                          \/ conns[c].state = "SYN_SENT" /\ new.state = "ESTABLISHED"
                          \/ conns[c].state = "ESTABLISHED" /\ new.state = "CLOSE_WAIT"
                          \/ conns[c].state = "FIN_WAIT1" /\ new.state = "FIN_WAIT2"
                          \/ conns[c].state = "SYN_RCVD" /\ new.state \in {"ESTABLISHED", "CLOSE_WAIT"}
<1> DEFINE p == Head(ring)
           c == Lowest1(Matching(p))
           a == Acked(conns[c], p)
           Released == conns' = Without(c) /\ orphans' = orphans \ {c}
           Becomes(state) == conns' = [conns EXCEPT ![c] = [a EXCEPT !.state = state]] /\ UNCHANGED orphans
           ack == Seg("ACK", a.sport, a.dport, TRUE)
<1>1. EntriesRight /\ RingRight
  BY Parts
<1>2. c \in ConnIds /\ Open(c)
  <2>0. Matching(p) # {}
    BY DEF Arrives
  <2>1. Matching(p) \in SUBSET Nat
    BY TablesAssumption DEF Matching, ConnIds
  <2>2. c \in Matching(p)
    BY <2>0, <2>1, LowestIsIn
  <2> QED
    BY <2>2 DEF Matching, Open
<1>3. conns[c] \in ConnSet /\ conns[c].sport # NoPort
  BY <1>1, <1>2 DEF EntriesRight, EntryOK, Open
<1>4. /\ a \in ConnSet /\ Ports2(a) = Ports2(conns[c]) /\ a.accepted = conns[c].accepted
      /\ a.sport # NoPort /\ a.sport \in AllPorts /\ a.dport \in AllPorts
      /\ \/ a.state = conns[c].state
         \/ conns[c].state = "FIN_WAIT1" /\ a.state = "FIN_WAIT2"
         \/ conns[c].state = "SYN_RCVD" /\ a.state = "ESTABLISHED"
  <2>1. \A e \in ConnSet : e.sport \in AllPorts /\ e.dport \in AllPorts
    BY DEF ConnSet
  <2> QED
    BY <1>3, <2>1, AckedKeeps
<1>5. /\ \A state \in ConnStates :
            LET new == [a EXCEPT !.state = state]
            IN  new \in ConnSet /\ Ports2(new) = Ports2(a) /\ new.accepted = a.accepted /\ new.state = state
      /\ a.state \in ConnStates
  BY <1>4 DEF ConnSet, Ports2
<1>6. MayGo(ack) /\ MayGo(SegOf("ACK", a))
  BY <1>4 DEF MayGo, Seg, SegOf, SegSet, TakenFin
<1>7. \/ a.state = "LAST_ACK" /\ Released /\ Takes
      \/ a.state = "SYN_SENT" /\ Becomes("ESTABLISHED") /\ TakesAndSends(SegOf("ACK", a))
      \/ a.state = "ESTABLISHED" /\ Becomes("CLOSE_WAIT") /\ TakesAndSends(ack)
      \/ a.state \in {"FIN_WAIT1", "FIN_WAIT2"} /\ Released /\ TakesAndSends(ack)
      \/ Becomes(a.state) /\ Takes
  BY DEF Arrives
<1> HIDE DEF p, c, a, ack, ConnSet
<1>8. RingRight'
  BY <1>1, <1>6, <1>7, RingGoes
<1>9. CASE Released /\ a.state \in {"LAST_ACK", "FIN_WAIT1", "FIN_WAIT2"}
  BY <1>2, <1>4, <1>8, <1>9
<1>10. ASSUME NEW state \in ConnStates, Becomes(state),
              \/ state = a.state
              \/ a.state = "SYN_SENT" /\ state = "ESTABLISHED"
              \/ a.state = "ESTABLISHED" /\ state = "CLOSE_WAIT"
       PROVE  \E new \in ConnSet :
                 /\ conns' = [conns EXCEPT ![c] = new] /\ orphans' = orphans
                 /\ Ports2(new) = Ports2(conns[c]) /\ new.accepted = conns[c].accepted
                 /\ \/ new.state = conns[c].state
                    \/ conns[c].state = "SYN_SENT" /\ new.state = "ESTABLISHED"
                    \/ conns[c].state = "ESTABLISHED" /\ new.state = "CLOSE_WAIT"
                    \/ conns[c].state = "FIN_WAIT1" /\ new.state = "FIN_WAIT2"
                    \/ conns[c].state = "SYN_RCVD" /\ new.state \in {"ESTABLISHED", "CLOSE_WAIT"}
  <2> DEFINE new == [a EXCEPT !.state = state]
  <2>1. new \in ConnSet /\ Ports2(new) = Ports2(a) /\ new.accepted = a.accepted /\ new.state = state
    BY <1>5, <1>10
  <2>2. conns' = [conns EXCEPT ![c] = new] /\ orphans' = orphans
    BY <1>10
  <2> HIDE DEF new
  <2> QED
    BY <1>4, <1>10, <2>1, <2>2
<1>11. {"ESTABLISHED", "CLOSE_WAIT"} \subseteq ConnStates
  BY DEF ConnStates
<1> HIDE DEF Becomes, Released
<1>12. \/ Released /\ a.state \in {"LAST_ACK", "FIN_WAIT1", "FIN_WAIT2"}
       \/ \E state \in ConnStates :
             Becomes(state) /\ \/ state = a.state
                               \/ a.state = "SYN_SENT" /\ state = "ESTABLISHED"
                               \/ a.state = "ESTABLISHED" /\ state = "CLOSE_WAIT"
  BY <1>5, <1>7, <1>11
<1> QED
  BY <1>2, <1>8, <1>9, <1>10, <1>12

LEMMA ArrivesKeeps ==
    ASSUME SockInv, PollFrame, ring # <<>>, Arrives(Head(ring))
    PROVE  SockInv'
<1>1. EntriesRight /\ RingRight /\ SocketsRight /\ nsocks' = nsocks /\ PortsStay
  BY Parts DEF PollFrame, PortsStay
<1>2. conns \in [ConnIds -> ConnSet]
  BY <1>1 DEF EntriesRight
<1> HIDE DEF ConnSet, SockSet
<1>3. ASSUME NEW c \in ConnIds, conns[c].state \in {"LAST_ACK", "FIN_WAIT1", "FIN_WAIT2"},
             conns' = Without(c), orphans' = orphans \ {c}
      PROVE  EntriesRight' /\ SocketsRight'
  <2>1. OnNobody(c) /\ Loose(Inactive)
    BY <1>3, NotHeld DEF HeldStates, Loose, Inactive
  <2> QED
    BY <1>1, <1>2, <1>3, <2>1, ReleaseEntries, LooseStep DEF Without
<1>4. ASSUME NEW c \in ConnIds, NEW new \in ConnSet, Open(c),
             conns' = [conns EXCEPT ![c] = new], orphans' = orphans,
             Ports2(new) = Ports2(conns[c]), new.accepted = conns[c].accepted,
             \/ new.state = conns[c].state
             \/ conns[c].state = "SYN_SENT" /\ new.state = "ESTABLISHED"
             \/ conns[c].state = "ESTABLISHED" /\ new.state = "CLOSE_WAIT"
             \/ conns[c].state = "FIN_WAIT1" /\ new.state = "FIN_WAIT2"
             \/ conns[c].state = "SYN_RCVD" /\ new.state \in {"ESTABLISHED", "CLOSE_WAIT"}
      PROVE  EntriesRight' /\ SocketsRight'
  <2>1. EntriesRight'
    BY <1>1, <1>4, ChangeEntries
  <2>2. EntryOK(c)
    BY <1>1 DEF EntriesRight
  <2>3. CASE conns[c].state \in {"SYN_SENT", "ESTABLISHED", "CLOSE_WAIT"}
    <3>1. conns[c].state = "SYN_SENT" => conns[c].sport >= EphemeralBase
      BY <2>2 DEF EntryOK
    <3> QED
      BY <1>1, <1>2, <1>4, <2>1, <2>3, <3>1, HeldStep DEF HeldStates
  <2>4. CASE conns[c].state \notin {"SYN_SENT", "ESTABLISHED", "CLOSE_WAIT"}
    <3>1. OnNobody(c)
      BY <1>4, <2>4, NotHeld DEF HeldStates, Open
    <3>2. new.sport = conns[c].sport
      BY <1>4 DEF Ports2
    <3>3. conns[c].state = "SYN_RCVD" => ~conns[c].accepted /\ ~(conns[c].sport >= EphemeralBase)
      BY <2>2, PortsLow DEF EntryOK
    <3>4. Loose(new)
      BY <1>4, <2>4, <3>2, <3>3 DEF Loose, Open
    <3> QED
      BY <1>1, <1>2, <1>4, <2>1, <3>1, <3>4, LooseStep
  <2> QED
    BY <2>3, <2>4
<1> QED
  BY <1>3, <1>4, ArrivesCases, PollKeeps

----------------------------------------------------------------------------
LEMMA SocketsStart == ASSUME SockInit PROVE SockInv
<1>1. EntriesRight
  <2>1. \A c \in ConnIds : conns[c] = Inactive
    BY DEF SockInit
  <2>2. Inactive \in ConnSet /\ Inactive.state = "CLOSED"
    BY PortFacts DEF Inactive, ConnSet, ConnStates
  <2>3. conns \in [ConnIds -> ConnSet]
    BY <2>2 DEF SockInit
  <2>4. /\ ephemeral \in AllPorts /\ ephemeral >= EphemeralBase /\ dialled \in 0..MaxConnects
        /\ ephemeral = EphemeralBase + dialled
    BY PortsAssumption, TablesAssumption DEF SockInit, AllPorts
  <2> HIDE DEF ConnSet
  <2>5. \A c \in ConnIds : ~Open(c) /\ EntryOK(c)
    BY <2>1, <2>2 DEF Open, EntryOK
  <2>6. TuplesApart
    BY <2>4, <2>5 DEF TuplesApart, PairsDiffer, Open
  <2> QED
    BY <2>3, <2>4, <2>5, <2>6 DEF EntriesRight
<1>2. RingRight
  BY TablesAssumption DEF SockInit, RingRight, SynsHaveSource
<1>3. SocketsRight
  BY DEF SockInit, SocketsRight, NotUsed, NewSock, SockSet, InUse, HeldOnce, Kept, Inactive
<1>4. FdsRight
  BY TablesAssumption DEF SockInit, FdsRight, OneFd, Fd, NotUsed, NewSock, SockIds, NoSock
<1>5. made \in 0..MaxSockets
  BY TablesAssumption DEF SockInit
<1> QED
  BY <1>1, <1>2, <1>3, <1>4, <1>5, Parts

LEMMA SocketsKeep == ASSUME ~CutsOff, SockInv, [SockNext]_sockVars PROVE SockInv'
<1>1. CASE UNCHANGED sockVars
  BY <1>1 DEF sockVars, SockInv, SockTypeOK, EntryOK, TuplesApart, FirstRound, PairsDiffer, Open, InUse,
              HeldOK, HeldOnce, SynsHaveSource, OneFd, Fd, Kept
<1>2. ASSUME NEW t \in Peers, NEW f \in SFds, sfds[t][f] # NoSock,
             \/ CloseSock(t, f) \/ Accepts(t, sfds[t][f])
             \/ \E port \in Ports : Listen(sfds[t][f], port) \/ ConnectTo(sfds[t][f], port)
      PROVE  SockInv'
  BY <1>2, CloseSockKeeps, AcceptsKeeps, ListenKeeps, ConnectKeeps
<1>3. CASE \E t \in Peers : Socket(t)
  BY <1>3, SocketKeeps
<1>4. CASE /\ \/ ring # <<>> /\ (SynArrives(Head(ring)) \/ Refused(Head(ring)) \/ Arrives(Head(ring)))
              \/ \E c \in ConnIds : Resends(c) \/ GivesUp(c)
           /\ PollFrame
  BY <1>4, SynKeeps, RefusedKeeps, ArrivesKeeps, ResendsKeeps, GivesUpKeeps
<1> QED
  BY <1>1, <1>2, <1>3, <1>4 DEF SockNext, PollFrame

\* For any number of programs, sockets, connections and packets in the ring: the descriptors, nsocks[]
\* and conns[] agree (SockInv), whatever socket, listen, connect, accept, close and the polls do.
THEOREM SocketInvariance == ASSUME ~CutsOff PROVE SockSpec => []SockInv
BY SocketsStart, SocketsKeep, PTL DEF SockSpec

\* Programs do not meet in a connection: no two sockets have one entry of conns[], it is still the
\* one that the socket was given, and as long as nsock_connect has not been through its range of
\* source ports find_conn_by_tuple has one entry for a segment.
THEOREM ProgramsDoNotMeet == ASSUME ~CutsOff PROVE SockSpec => []SessionsApart
<1>1. SockInv => SessionsApart
  BY DEF SockInv, SessionsApart, HeldOK, HeldOnce, TuplesApart
<1> QED
  BY <1>1, SocketInvariance, PTL

\* SYS_ACCEPT, SYS_CLOSE and close_proc_fds lose nothing between the tables: a socket has one
\* descriptor, and a connection that a program has not closed has a socket.
THEOREM NothingIsLost == ASSUME ~CutsOff PROVE SockSpec => []HandlesExact
<1>1. ASSUME SockInv PROVE HandlesExact
  <2>1. ASSUME NEW s \in SockIds PROVE Cardinality(Fd(s)) = IF nsocks[s].used THEN 1 ELSE 0
    <3>1. Cardinality({}) = 0 /\ \A h : Cardinality({h}) = 1
      BY FS_EmptySet, FS_Singleton
    <3> QED
      BY <1>1, <3>1 DEF SockInv, OneFd
  <2> QED
    BY <1>1, <2>1 DEF SockInv, HandlesExact, Kept
<1> QED
  BY <1>1, SocketInvariance, PTL
=============================================================================
