---------------------------- MODULE Cores_proofs ----------------------------
(***************************************************************************)
(* Proofs about what threads and cores do to each other: the mutex of      *)
(* threads.c over the futex, the shootdown of the TLB, and the slots of a  *)
(* core from which a system call returns.                                  *)
(*                                                                         *)
(* Mutual exclusion, and no lost wake-up, for the mutex: for any number of *)
(* threads, rounds and signals.  A sleeper has slept because the word was  *)
(* Held; the word is Held exactly while somebody is inside, and a thread   *)
(* leaves only after it has looked for sleepers.                           *)
(*                                                                         *)
(* A shootdown leaves no old translation behind, for any number of cores,  *)
(* callers, entries and changes.  The lock gives the request to one caller *)
(* at a time; a core that still holds a translation waits to hear of it    *)
(* from a caller, or has the interrupt pending; and until a wait times out *)
(* the pending interrupts are those that the caller waits for.             *)
(*                                                                         *)
(* A task comes back from a system call, a fault or a handler to the       *)
(* context it should be in, whatever the other tasks do on the core in the *)
(* meantime: for any number of tasks and signals, as long as every call    *)
(* that sleeps comes back with interrupts masked.                          *)
(*                                                                         *)
(* The slots of the core are the problem: they belong to whoever made the  *)
(* last call.  From where a task has set them, or restored them from its   *)
(* own stack, up to iretq nobody else gets the core (RunsMasked), so they  *)
(* are still its own (SlotsRight).  What a handler has interrupted is kept *)
(* twice, by the kernel in sig_saved and by the program itself;            *)
(* HandlersRight says that there is never more than one.                   *)
(***************************************************************************)
EXTENDS FutexProps, TlbProps, SyscallsProps, FiniteSetTheorems, SequenceTheorems,
        WellFoundedInduction, TLAPS

Critical(t) == pc[t] = "critical"

\* What the steps preserve.
FutexInv ==
    /\ lock \in {Free, Held}
    /\ pc \in [Threads -> {"take", "wait", "futex", "critical", "wake", "exit"}]
    /\ asleep \subseteq Threads /\ futexKey \in [Threads -> {NoKey, LockKey}]
    /\ lock = Held <=> \E t \in Threads : Critical(t)
    /\ \A t, u \in Threads : Critical(t) /\ Critical(u) => t = u
    /\ \A t \in asleep : pc[t] = "futex" /\ futexKey[t] = LockKey
    /\ SomebodyWakes

\* Nobody is inside at the start.
LEMMA FutexInvInit == FutexInit => FutexInv
  BY DEF FutexInit, FutexInv, Critical, SomebodyWakes, Free, Held, NoKey, LockKey

\* A thread that goes to sleep leaves somebody inside, who is awake.
LEMMA FutexSleepKeeps ==
  ASSUME FutexInv, NEW t \in Threads, pc[t] \in {"wait", "futex"}, t \notin asleep,
         SleepIfHeld(t), lock' = lock
  PROVE  FutexInv'
<1>1. CASE lock = Held
  <2>1. PICK c \in Threads : Critical(c)
    BY <1>1 DEF FutexInv
  <2>2. c # t /\ c \notin asleep
    BY <2>1 DEF FutexInv, Critical
  <2>3. asleep' = asleep \cup {t} /\ pc' = [pc EXCEPT ![t] = "futex"]
        /\ futexKey' = [futexKey EXCEPT ![t] = LockKey]
    BY <1>1 DEF SleepIfHeld, Goes
  <2> QED
    BY <1>1, <2>1, <2>2, <2>3 DEF FutexInv, Critical, SomebodyWakes, Free, Held, NoKey, LockKey
<1>2. CASE lock # Held
  BY <1>2 DEF FutexInv, Critical, SomebodyWakes, SleepIfHeld, Goes, Free, Held, NoKey, LockKey
<1> QED
  BY <1>1, <1>2

\* Every step keeps it.
LEMMA FutexInvNext == FutexInv /\ [FutexNext]_futexVars => FutexInv'
<1> SUFFICES ASSUME FutexInv, [FutexNext]_futexVars PROVE FutexInv'
  OBVIOUS
<1> USE DEF Free, Held, NoKey, LockKey
<1>1. ASSUME NEW t \in Threads, Take(t) PROVE FutexInv'
  BY <1>1 DEF FutexInv, Take, At, Goes, Critical, SomebodyWakes
<1>2. ASSUME NEW t \in Threads, FutexWait(t) PROVE FutexInv'
  BY <1>2, FutexSleepKeeps DEF FutexWait, At
<1>3. ASSUME NEW t \in Threads, FutexResumes(t) PROVE FutexInv'
  <2>1. CASE futexKey[t] = NoKey
    BY <1>3, <2>1 DEF FutexInv, FutexResumes, At, Goes, Critical, SomebodyWakes
  <2>2. CASE futexKey[t] # NoKey
    BY <1>3, <2>2, FutexSleepKeeps DEF FutexResumes, At
  <2> QED
    BY <2>1, <2>2
<1>4. ASSUME NEW t \in Threads, Unlock(t) PROVE FutexInv'
  BY <1>4 DEF FutexInv, Unlock, At, Goes, Critical, SomebodyWakes
<1>5. ASSUME NEW t \in Threads, FutexWake(t) PROVE FutexInv'
  <2> DEFINE sleepers == {u \in asleep : futexKey[u] = LockKey}
  <2>1. sleepers = asleep
    BY DEF FutexInv
  <2>2. pc'[t] \in {"take", "exit"} /\ pc[t] = "wake" /\ t \notin asleep /\ lock' = lock
        /\ pc' = [pc EXCEPT ![t] = pc'[t]]
    BY <1>5 DEF FutexInv, FutexWake, At, Goes
  <2>3. CASE sleepers = {} /\ UNCHANGED <<asleep, futexKey>>
    BY <2>1, <2>2, <2>3 DEF FutexInv, Critical, SomebodyWakes
  <2>4. ASSUME NEW u \in sleepers, asleep' = asleep \ {u},
               futexKey' = [futexKey EXCEPT ![u] = NoKey]
        PROVE  FutexInv'
    BY <2>1, <2>2, <2>4 DEF FutexInv, Critical, SomebodyWakes
  <2> QED
    BY <1>5, <2>3, <2>4 DEF FutexWake
<1>6. ASSUME NEW t \in Threads, Nudge(t) PROVE FutexInv'
  BY <1>6 DEF FutexInv, Nudge, Critical, SomebodyWakes
<1>7. CASE UNCHANGED futexVars
  BY <1>7 DEF FutexInv, futexVars, Critical, SomebodyWakes
<1> QED
  BY <1>1, <1>2, <1>3, <1>4, <1>5, <1>6, <1>7 DEF FutexNext

THEOREM FutexInvariant == FutexSpec => []FutexInv
  BY FutexInvInit, FutexInvNext, PTL DEF FutexSpec

\* Between lock_acquire and lock_release of user/threads.c there is one thread at a time.
THEOREM MutualExclusion == FutexSpec => []OneInside
<1>1. FutexInv => OneInside
  <2> DEFINE inside == {t \in Threads : pc[t] = "critical"}
  <2> SUFFICES ASSUME FutexInv PROVE Cardinality(inside) <= 1
    BY DEF OneInside
  <2>1. CASE inside = {}
    BY <2>1, FS_EmptySet
  <2>2. CASE inside # {}
    <3>1. PICK t : inside = {t}
      BY <2>2 DEF FutexInv, Critical
    <3> QED
      BY <3>1, FS_Singleton
  <2> QED
    BY <2>1, <2>2
<1> QED
  BY <1>1, FutexInvariant, PTL

\* do_futex loses no wake-up: while a thread sleeps for the lock, another is awake and not done.
THEOREM NoWakeupLost == FutexSpec => []SomebodyWakes
<1>1. FutexInv => SomebodyWakes
  BY DEF FutexInv
<1> QED
  BY <1>1, FutexInvariant, PTL

----------------------------------------------------------------------------
(* The shootdown.                                                           *)

\* At the start no core holds an old translation.
LEMMA TlbInvInit == TlbInit => TlbInv
<1> SUFFICES ASSUME TlbInit PROVE TlbInv
  OBVIOUS
<1>1. NoEntry \in Entries
  BY CallersAssumption DEF NoEntry
<1>2. TlbTypeOK
  <2>1. changes \in 0..MaxChanges
    BY ChangesAssumption DEF TlbInit
  <2>2. step \in [Callers -> {"idle", "lock", "post", "send", "wait"}]
        /\ target \in [Callers -> Entries]
    BY <1>1 DEF TlbInit
  <2>3. handler \in [Cores -> {"none", "flushed", "invalidated"}]
        /\ stale \in [Cores -> SUBSET Entries]
    BY DEF TlbInit
  <2>4. shootdown_lock \in Callers \cup {NoCaller} /\ shootdown_addr \in Entries
        /\ warned \in BOOLEAN
    BY <1>1 DEF TlbInit
  <2>5. shootdown_pending \subseteq Cores /\ ipi \subseteq Cores /\ off \subseteq Cores
    BY DEF TlbInit
  <2> QED
    BY <2>1, <2>2, <2>3, <2>4, <2>5 DEF TlbTypeOK
<1>3. LockHeld /\ StaleHears /\ Asked
  BY DEF TlbInit, LockHeld, InLock, StaleHears, Asked, Interrupted
<1> QED
  BY <1>2, <1>3 DEF TlbInv

\* A change makes the other cores stale, and its caller will tell them.
LEMMA ChangeKeeps ==
  ASSUME TlbInv, NEW t \in Callers, NEW e \in Entries, Change(t, e)
  PROVE  TlbInv'
<1> USE DEF TlbInv, Change
<1>1. TlbTypeOK'
  BY ChangesAssumption DEF TlbTypeOK
<1>2. LockHeld'
  BY DEF LockHeld, InLock, TlbTypeOK
<1>3. StaleHears'
  <2> SUFFICES ASSUME NEW c \in Cores, NEW f \in stale'[c]
               PROVE  \/ \E u \in Callers : step'[u] \in {"lock", "post", "send"}
                                            /\ target'[u] = f /\ CoreOf(u) # c
                      \/ c \in ipi'
                         /\ (warned' \/ \E u \in Callers : step'[u] = "wait" /\ target'[u] = f)
    BY DEF StaleHears
  <2>1. step'[t] = "lock" /\ target'[t] = e
    BY DEF TlbTypeOK
  <2>2. \A u \in Callers : u # t => step'[u] = step[u] /\ target'[u] = target[u]
    BY DEF TlbTypeOK
  <2>3. CASE f = e
    <3>1. c # CoreOf(t)
      BY <2>3 DEF TlbTypeOK
    <3> QED
      BY <2>1, <2>3, <3>1
  <2>4. CASE f # e
    <3>1. f \in stale[c]
      BY <2>4 DEF TlbTypeOK
    <3> QED
      BY <2>2, <3>1 DEF StaleHears
  <2> QED
    BY <2>3, <2>4
<1>4. Asked'
  BY DEF Asked, Interrupted, TlbTypeOK
<1> QED
  BY <1>1, <1>2, <1>3, <1>4

\* A caller that moves on towards the wait still tells the same cores.
LEMMA TakeLockKeeps ==
  ASSUME TlbInv, NEW t \in Callers, TakeLock(t)
  PROVE  TlbInv'
<1> USE DEF TlbInv, TakeLock, Steps
<1>1. TlbTypeOK'
  BY DEF TlbTypeOK
<1>2. LockHeld'
  BY CallersAssumption DEF LockHeld, InLock, TlbTypeOK, NoCaller
<1>3. StaleHears'
  BY DEF StaleHears, TlbTypeOK
<1>4. Asked'
  BY DEF Asked, Interrupted, TlbTypeOK
<1> QED
  BY <1>1, <1>2, <1>3, <1>4

\* Only the holder of the lock posts, so nobody waits for what it overwrites.
LEMMA PostKeeps ==
  ASSUME TlbInv, NEW t \in Callers, Post(t)
  PROVE  TlbInv'
<1> USE DEF TlbInv, Post, Steps
<1>1. TlbTypeOK'
  BY DEF TlbTypeOK
<1>2. LockHeld'
  BY DEF LockHeld, InLock, TlbTypeOK
<1>3. StaleHears'
  BY DEF StaleHears, TlbTypeOK
<1>4. \A u \in Callers : u # t => step[u] \notin {"wait", "send"} /\ step'[u] = step[u]
  BY DEF LockHeld, InLock, TlbTypeOK
<1>5. ~warned => Interrupted = {}
  BY <1>4 DEF Asked
<1>6. Asked'
  BY <1>4, <1>5 DEF Asked, Interrupted
<1> QED
  BY <1>1, <1>2, <1>3, <1>6

\* The interrupt goes to every core that the caller has to tell.
LEMMA SendIpiKeeps ==
  ASSUME TlbInv, NEW t \in Callers, SendIpi(t)
  PROVE  TlbInv'
<1> USE DEF TlbInv, SendIpi, Steps
<1>1. TlbTypeOK'
  BY DEF TlbTypeOK
<1>2. LockHeld'
  BY DEF LockHeld, InLock, TlbTypeOK
<1>3. /\ step'[t] = "wait"
      /\ \A u \in Callers : u # t => step[u] \notin {"wait", "send"} /\ step'[u] = step[u]
  BY DEF LockHeld, InLock, TlbTypeOK
<1>4. StaleHears'
  <2> SUFFICES ASSUME NEW c \in Cores, NEW f \in stale[c]
               PROVE  \/ \E u \in Callers : step'[u] \in {"lock", "post", "send"}
                                            /\ target[u] = f /\ CoreOf(u) # c
                      \/ c \in ipi'
                         /\ (warned \/ \E u \in Callers : step'[u] = "wait" /\ target[u] = f)
    BY DEF StaleHears
  <2>1. CASE \E u \in Callers : u # t /\ step[u] \in {"lock", "post", "send"} /\ target[u] = f
                                /\ CoreOf(u) # c
    BY <2>1, <1>3
  <2>2. CASE target[t] = f /\ CoreOf(t) # c
    BY <2>2, <1>3
  <2>3. CASE c \in ipi /\ (warned \/ \E u \in Callers : step[u] = "wait" /\ target[u] = f)
    BY <2>3, <1>3
  <2> QED
    BY <2>1, <2>2, <2>3 DEF StaleHears
<1>5. ~warned => Interrupted = {} /\ shootdown_pending = Cores \ {CoreOf(t)}
  BY <1>3 DEF Asked
<1>6. Asked'
  BY <1>3, <1>5 DEF Asked, Interrupted
<1> QED
  BY <1>1, <1>2, <1>4, <1>6

\* A caller that returns without the warning leaves no interrupt pending.
LEMMA FinishKeeps ==
  ASSUME TlbInv, NEW t \in Callers, Finish(t)
  PROVE  TlbInv'
<1> USE DEF TlbInv, Finish, Steps
<1>1. TlbTypeOK'
  BY DEF TlbTypeOK
<1>2. step'[t] = "idle" /\ \A u \in Callers : u # t => ~InLock(u) /\ step'[u] = step[u]
  BY DEF LockHeld, InLock, TlbTypeOK
<1>3. LockHeld'
  BY <1>2 DEF LockHeld, InLock
<1>4. ~warned' => Interrupted = {}
  BY DEF Asked
<1>5. StaleHears'
  BY <1>2, <1>4 DEF StaleHears, InLock, Interrupted, TlbTypeOK
<1>6. Asked'
  BY <1>2, <1>4 DEF Asked, Interrupted, InLock
<1> QED
  BY <1>1, <1>3, <1>5, <1>6

\* A core that takes the interrupt is not stale any more.
LEMMA EnterKeeps ==
  ASSUME TlbInv, NEW c \in Cores, EnterHandler(c)
  PROVE  TlbInv'
<1> USE DEF TlbInv, EnterHandler
<1>1. TlbTypeOK'
  BY DEF TlbTypeOK
<1>2. LockHeld'
  BY DEF LockHeld, InLock
<1>3. StaleHears'
  BY DEF StaleHears, TlbTypeOK
<1>4. Interrupted' = Interrupted
  BY DEF Interrupted, TlbTypeOK
<1>5. Asked'
  BY <1>4 DEF Asked, TlbTypeOK
<1> QED
  BY <1>1, <1>2, <1>3, <1>5

\* The entry it invalidates was flushed already.
LEMMA InvalidateKeeps ==
  ASSUME TlbInv, NEW c \in Cores, Invalidate(c)
  PROVE  TlbInv'
<1> USE DEF TlbInv, Invalidate
<1>1. TlbTypeOK'
  BY DEF TlbTypeOK
<1>2. LockHeld'
  BY DEF LockHeld, InLock
<1>3. StaleHears'
  BY DEF StaleHears, TlbTypeOK
<1>4. Interrupted' = Interrupted
  BY DEF Interrupted, TlbTypeOK
<1>5. Asked'
  BY <1>4 DEF Asked, TlbTypeOK
<1> QED
  BY <1>1, <1>2, <1>3, <1>5

\* A core answers for itself only, and is then interrupted no more.
LEMMA AnswerKeeps ==
  ASSUME TlbInv, NEW c \in Cores, Answer(c)
  PROVE  TlbInv'
<1> USE DEF TlbInv, Answer
<1>1. TlbTypeOK'
  BY DEF TlbTypeOK
<1>2. LockHeld'
  BY DEF LockHeld, InLock
<1>3. StaleHears'
  BY DEF StaleHears
<1>4. ~warned => c \notin ipi
  BY DEF Asked
<1>5. ~warned => Interrupted' = Interrupted \ {c}
  BY <1>4 DEF Interrupted, TlbTypeOK
<1>6. ~warned => \A t \in Callers : step[t] # "send"
  <2>1. c \in Interrupted
    BY DEF Interrupted
  <2> QED
    BY <2>1 DEF Asked, LockHeld, InLock
<1>7. Asked'
  BY <1>4, <1>5, <1>6 DEF Asked, TlbTypeOK
<1> QED
  BY <1>1, <1>2, <1>3, <1>7

\* Every step keeps the invariant.
LEMMA TlbInvNext == TlbInv /\ [TlbNext]_tlbVars => TlbInv'
<1> SUFFICES ASSUME TlbInv, [TlbNext]_tlbVars PROVE TlbInv'
  OBVIOUS
<1>1. ASSUME NEW c \in Cores, Toggle(c) PROVE TlbInv'
  BY <1>1 DEF TlbInv, Toggle, TlbTypeOK, LockHeld, InLock, StaleHears, Asked, Interrupted
<1>2. CASE UNCHANGED tlbVars
  BY <1>2 DEF tlbVars, TlbInv, TlbTypeOK, LockHeld, InLock, StaleHears, Asked, Interrupted
<1> QED
  BY <1>1, <1>2, ChangeKeeps, TakeLockKeeps, PostKeeps, SendIpiKeeps, FinishKeeps, EnterKeeps,
     InvalidateKeeps, AnswerKeeps DEF TlbNext

\* The invariant of the shootdown: who holds the lock, whom a stale core will hear from, and whom
\* a caller waits for.
THEOREM ShootdownInvariant == TlbSpec => []TlbInv
  BY TlbInvInit, TlbInvNext, PTL DEF TlbSpec

\* When tlb_shootdown has returned, no core uses the old translation; after a timeout, none that
\* will not drop it at its next interrupt.
THEOREM NoOldTranslations == TlbSpec => []OldTranslationsGone
<1>1. TlbInv => OldTranslationsGone
  <2> SUFFICES ASSUME TlbInv, NEW c \in Cores, NEW e \in stale[c]
               PROVE  ShotDown(e) \/ (warned /\ c \in ipi)
    BY DEF OldTranslationsGone
  <2> QED
    BY DEF TlbInv, StaleHears, ShotDown
<1> QED
  BY <1>1, ShootdownInvariant, PTL

----------------------------------------------------------------------------
(* The way back from a system call.                                         *)

InCall == {"call", "asleep", "woken", "done"}
Leaving == {"leaving", "out"}

\* The kinds of the calls during which, or after which, interrupts are enabled.
Unmasked == {"open", "shootdown"}

\* The stack pointer and page tables with which t has to return.
Own(t) == [rsp |-> Stack(should[t]), cr3 |-> t]

\* Interrupts are masked in the kernel, and only ring 3 and sleepers give up the core.
RunsMasked(t) ==
    /\ irqOn[t] = FALSE
    /\ where[t] \in InCall => kind[t] \notin Unmasked
    /\ where[t] \in {"call", "done"} \cup Leaving => running = t

\* Who is in a call that sleeps has a copy of its slots, who leaves has them in the core.
SlotsRight(t) ==
    /\ where[t] \in InCall => kept[t] = Own(t)
    /\ where[t] \in Leaving => slot = Own(t)
    /\ where[t] = "user" => stack[t] = Stack(should[t])
    /\ root[t] = t

\* The frame is that of the context; a handler has interrupted one context, which sig_saved has.
HandlersRight(t) ==
    /\ frame[t] = should[t]
    /\ sig[t].active = {} => owed[t] = <<>> /\ (should[t].of # Main => should[t].at = "jump")
    /\ sig[t].active # {} => /\ should[t].of # Main /\ should[t].at # "jump"
                             /\ owed[t] = <<sig[t].saved>>
                             /\ sig[t].savedRsp = Stack(sig[t].saved)
                             /\ sig[t].saved.of # Main => sig[t].saved.at = "jump"

TaskInv(t) == RunsMasked(t) /\ SlotsRight(t) /\ HandlersRight(t)

AtMostOne == {<<>>} \cup {<<c>> : c \in Contexts}

ReturnTypes ==
    /\ SyscallsTypeOK
    /\ should \in [Programs -> Contexts] /\ owed \in [Programs -> AtMostOne]

ReturnInv == ReturnTypes /\ \A t \in Programs : TaskInv(t)

\* A set of numbers has a least one, and Lowest is it.
LEMMA LowestOf ==
    ASSUME NEW S \in SUBSET Nat, S # {}
    PROVE  Lowest(S) \in S /\ \A r \in S : Lowest(S) <= r
<1> DEFINE R == {ss \in Nat \X Nat : ss[1] < ss[2]}
<1>1. IsWellFoundedOn(R, Nat)
  BY NatLessThanWellFounded DEF OpToRel
<1>2. PICK x \in S : \A y \in S : <<y, x>> \notin R
  <2> HIDE DEF R
  <2> QED
    BY <1>1, WFMin
<1>3. ASSUME NEW y \in S PROVE x <= y
  <2>1. ~(y < x)
    BY <1>2, <1>3
  <2> QED
    BY <2>1
<1> QED
  BY <1>3 DEF Lowest

\* One context in a sequence.
LEMMA OneOwed ==
    ASSUME NEW c \in Contexts
    PROVE  <<c>> \o <<>> = <<c>> /\ Head(<<c>>) = c /\ Tail(<<c>>) = <<>>
<1>1. <<c>> \in Seq(Contexts)
  OBVIOUS
<1> QED
  BY <1>1, ConcatEmptySeq

\* Main and the handlers are contexts, and so are the stacks.
LEMMA ContextTypes ==
    ASSUME NEW t \in Programs, NEW of \in Signos \cup {Main}, NEW at \in Points
    PROVE  Context(t, of, at) \in Contexts /\ Context(t, of, at).of = of /\ Context(t, of, at).at = at
           /\ Stack(Context(t, of, at)) = Context(t, of, "first")
  BY DEF Context, Contexts, Points, Stack

\* The stack of a context does not depend on how far it is.
LEMMA StackOf ==
    ASSUME NEW c \in Contexts, NEW at \in Points
    PROVE  Stack(c) \in Contexts /\ [c EXCEPT !.at = at] \in Contexts
           /\ [c EXCEPT !.at = at].of = c.of /\ [c EXCEPT !.at = at].at = at
           /\ Stack([c EXCEPT !.at = at]) = Stack(c)
  BY DEF Contexts, Points, Stack

\* What t does concerns t only, and it writes to the slots of the core only when it has the core.
Apart(t) ==
    /\ \A q \in Programs \ {t} :
          /\ where'[q] = where[q] /\ kind'[q] = kind[q] /\ irqOn'[q] = irqOn[q] /\ frame'[q] = frame[q]
          /\ stack'[q] = stack[q] /\ root'[q] = root[q] /\ kept'[q] = kept[q]
          /\ sig'[q] = sig[q] /\ should'[q] = should[q] /\ owed'[q] = owed[q]
    /\ running' = running
    /\ slot' = slot \/ running = t

LEMMA Local ==
    ASSUME ReturnInv, ReturnTypes', NEW t \in Programs, Apart(t), TaskInv(t)'
    PROVE  ReturnInv'
<1> SUFFICES ASSUME NEW q \in Programs, q # t PROVE TaskInv(q)'
  BY DEF ReturnInv
<1>1. TaskInv(q)
  BY DEF ReturnInv
<1>2. RunsMasked(q)'
  BY <1>1 DEF TaskInv, RunsMasked, Apart
<1>3. Own(q)' = Own(q)
  BY DEF Own, Apart
<1>4. where[q] \in Leaving => slot' = slot
  BY <1>1 DEF TaskInv, RunsMasked, Apart
<1>5. SlotsRight(q)'
  BY <1>1, <1>3, <1>4 DEF TaskInv, SlotsRight, Apart
<1>6. HandlersRight(q)'
  BY <1>1 DEF TaskInv, HandlersRight, Apart
<1> QED
  BY <1>2, <1>5, <1>6 DEF TaskInv

----------------------------------------------------------------------------
(* The steps of a call.                                                     *)

\* The tick takes the core only from ring 3 and from sleepers.
LEMMA PreemptKeeps == ASSUME ReturnInv, NEW t \in Programs, Preempt(t) PROVE ReturnInv'
<1>1. /\ where[running] \in {"user", "asleep", "woken"} /\ running' = t /\ t # running /\ running \in Programs
      /\ UNCHANGED <<where, kind, irqOn, frame, stack, slot, kept, sig, should, owed>>
  <2>1. running \in Programs /\ irqOn[running] = FALSE
    BY DEF ReturnInv, ReturnTypes, SyscallsTypeOK, TaskInv, RunsMasked
  <2> QED
    BY <2>1 DEF Preempt, ghosts
<1>2. root' = root
  <2>1. root \in [Programs -> Programs] /\ root[t] = t
    BY DEF ReturnInv, ReturnTypes, SyscallsTypeOK, TaskInv, SlotsRight
  <2> QED
    BY <2>1 DEF Preempt
<1>3. ReturnTypes'
  BY <1>1, <1>2 DEF ReturnInv, ReturnTypes, SyscallsTypeOK
<1>4. ASSUME NEW q \in Programs PROVE TaskInv(q)'
  <2>1. TaskInv(q)
    BY DEF ReturnInv
  <2>2. where[q] \notin {"call", "done"} \cup Leaving
    BY <1>1, <2>1 DEF TaskInv, RunsMasked, Leaving
  <2>3. RunsMasked(q)'
    BY <1>1, <2>1, <2>2 DEF TaskInv, RunsMasked
  <2>4. SlotsRight(q)' /\ HandlersRight(q)'
    BY <1>1, <1>2, <2>1 DEF TaskInv, SlotsRight, HandlersRight, Own
  <2> QED
    BY <2>3, <2>4 DEF TaskInv
<1> QED
  BY <1>3, <1>4 DEF ReturnInv

\* Nothing changes but where t is, and what it may still do with interrupts masked.
LEMMA MoveKeeps ==
    ASSUME ReturnInv, NEW t \in Programs, NEW place \in InCall, Moves(t, place), where[t] \in InCall,
           UNCHANGED <<running, kind, irqOn, frame, ring3Vars, slot, kept, sig, ghosts>>,
           place \in {"call", "done"} => running = t
    PROVE  ReturnInv'
<1>1. /\ where' = [where EXCEPT ![t] = place]
      /\ UNCHANGED <<running, kind, irqOn, frame, stack, root, slot, kept, sig, should, owed>>
  BY DEF Moves, ring3Vars, ghosts
<1>2. where'[t] = place /\ \A q \in Programs \ {t} : where'[q] = where[q]
  BY <1>1 DEF ReturnInv, ReturnTypes, SyscallsTypeOK
<1>3. ReturnTypes'
  BY <1>1 DEF ReturnInv, ReturnTypes, SyscallsTypeOK, InCall
<1>4. TaskInv(t)'
  BY <1>1, <1>2 DEF ReturnInv, TaskInv, RunsMasked, SlotsRight, HandlersRight, Own, InCall, Leaving
<1>5. Apart(t)
  BY <1>1, <1>2 DEF Apart
<1> QED
  BY <1>3, <1>4, <1>5, Local

\* sti; hlt, what wakes it, and the loop around it.
LEMMA SleepKeeps ==
    ASSUME ReturnInv, NEW t \in Programs, Sleeps(t) \/ Awaken(t) \/ LooksAgain(t)
    PROVE  ReturnInv'
<1>1. CASE Sleeps(t)
  BY <1>1, MoveKeeps DEF Sleeps, Is, InCall
<1>2. CASE Awaken(t)
  BY <1>2, MoveKeeps DEF Awaken, InCall
<1>3. CASE LooksAgain(t)
  BY <1>3, MoveKeeps DEF LooksAgain, Is, InCall
<1> QED
  BY <1>1, <1>2, <1>3

\* The call is done, and leaves interrupts masked.
LEMMA DoneKeeps == ASSUME ReturnInv, NEW t \in Programs, Done(t) PROVE ReturnInv'
<1>1. TaskInv(t) /\ where[t] = "call" /\ running = t /\ irqOn[t] = FALSE /\ kind[t] \notin Unmasked
  BY DEF ReturnInv, TaskInv, RunsMasked, Done, Is, InCall
<1>2. kind[t] # "open" /\ kind[t] # "shootdown"
  BY <1>1 DEF Unmasked
<1>3. irqOn' = irqOn /\ Moves(t, "done")
  <2>1. irqOn \in [Programs -> BOOLEAN] /\ irqOn' = [irqOn EXCEPT ![t] = FALSE]
    BY <1>2 DEF ReturnInv, ReturnTypes, SyscallsTypeOK, Done
  <2>2. Moves(t, "done")
    BY <1>2 DEF Done, Moves
  <2> QED
    BY <1>1, <2>1, <2>2
<1> QED
  BY <1>1, <1>3, MoveKeeps DEF Done, InCall

\* It puts its own slots back into the core.
LEMMA RestoresKeeps == ASSUME ReturnInv, NEW t \in Programs, Restores(t) PROVE ReturnInv'
<1>1. /\ where' = [where EXCEPT ![t] = "leaving"] /\ slot' = kept[t]
      /\ UNCHANGED <<running, kind, irqOn, frame, stack, root, kept, sig, should, owed>>
      /\ running = t /\ where[t] = "done" /\ TaskInv(t)
  BY DEF Restores, Is, Moves, ring3Vars, ghosts, ReturnInv
<1>2. where'[t] = "leaving" /\ \A q \in Programs \ {t} : where'[q] = where[q]
  BY <1>1 DEF ReturnInv, ReturnTypes, SyscallsTypeOK
<1>3. ReturnTypes'
  BY <1>1 DEF ReturnInv, ReturnTypes, SyscallsTypeOK
<1>4. TaskInv(t)'
  BY <1>1, <1>2 DEF TaskInv, RunsMasked, SlotsRight, HandlersRight, Own, InCall, Leaving
<1>5. Apart(t)
  BY <1>1, <1>2 DEF Apart
<1> QED
  BY <1>3, <1>4, <1>5, Local

\* The call of a program: its slots are its own, and it goes on to its next place.
LEMMA CallKeeps ==
    ASSUME Kinds \cap Unmasked = {}, ReturnInv, NEW t \in Programs, NEW k \in Kinds, Call(t, k)
    PROVE  ReturnInv'
<1> DEFINE at == IF frame[t].at = "first" THEN "second" ELSE "first"
           next == [frame[t] EXCEPT !.at = at]
           place == IF k = "short" THEN "leaving" ELSE "call"
<1>1. /\ running = t /\ where[t] = "user" /\ frame[t].at # "jump" /\ TaskInv(t)
      /\ frame[t] \in Contexts /\ k \in CallKinds /\ k \notin Unmasked
  BY KindsAssumption DEF Call, Is, ReturnInv, ReturnTypes, SyscallsTypeOK
<1>2. at \in Points /\ place \in {"leaving", "call"} /\ at # "jump" /\ (place = "call" <=> k # "short")
  BY DEF Points
<1>3. /\ slot' = [rsp |-> stack[t], cr3 |-> root[t]]
      /\ irqOn' = [irqOn EXCEPT ![t] = FALSE]
      /\ kind' = [kind EXCEPT ![t] = k] /\ where' = [where EXCEPT ![t] = place]
      /\ frame' = [frame EXCEPT ![t] = next] /\ should' = [should EXCEPT ![t] = next]
      /\ kept' = [kept EXCEPT ![t] = slot']
      /\ UNCHANGED <<running, stack, root, sig, owed>>
  <2>1. frame[t] = should[t] /\ next.at = at
    BY <1>1, <1>2, StackOf DEF TaskInv, HandlersRight
  <2>2. should \in [Programs -> Contexts]
    BY DEF ReturnInv, ReturnTypes
  <2> QED
    BY <1>1, <2>1, <2>2 DEF Call, Stash, Moves, ring3Vars, Unmasked
<1>4. next \in Contexts /\ next.of = frame[t].of /\ next.at = at /\ Stack(next) = Stack(frame[t])
  BY <1>1, <1>2, StackOf
<1>5. slot' = Own(t) /\ slot' \in Slots3 /\ Own(t)' = Own(t)
  <2>1. stack[t] = Stack(should[t]) /\ root[t] = t /\ frame[t] = should[t]
    BY <1>1 DEF TaskInv, SlotsRight, HandlersRight
  <2>2. stack[t] \in Contexts /\ should \in [Programs -> Contexts]
    BY DEF ReturnInv, ReturnTypes, SyscallsTypeOK
  <2>3. should'[t] = next
    BY <1>3, <2>2
  <2> QED
    BY <1>3, <1>4, <2>1, <2>2, <2>3 DEF Own, Slots3
<1> HIDE DEF at, next, place
<1>6. ReturnTypes'
  BY <1>2, <1>3, <1>4, <1>5, <1>1 DEF ReturnInv, ReturnTypes, SyscallsTypeOK
<1>7. /\ where'[t] = place /\ kind'[t] = k /\ frame'[t] = next /\ should'[t] = next /\ irqOn'[t] = FALSE
      /\ kept'[t] = slot'
  BY <1>3 DEF ReturnInv, ReturnTypes, SyscallsTypeOK
<1>8. TaskInv(t)'
  <2>1. RunsMasked(t)'
    BY <1>1, <1>3, <1>7 DEF RunsMasked
  <2>2. SlotsRight(t)'
    BY <1>1, <1>2, <1>3, <1>5, <1>7 DEF TaskInv, SlotsRight, InCall, Leaving
  <2>3. HandlersRight(t)'
    BY <1>1, <1>2, <1>3, <1>4, <1>7 DEF TaskInv, HandlersRight
  <2> QED
    BY <2>1, <2>2, <2>3 DEF TaskInv
<1>9. Apart(t)
  BY <1>1, <1>3 DEF Apart, ReturnInv, ReturnTypes, SyscallsTypeOK
<1> QED
  BY <1>6, <1>8, <1>9, Local

----------------------------------------------------------------------------
(* Signals.                                                                 *)

SigTypes == [pending : SUBSET Signos, mask : SUBSET Signos, active : SUBSET Signos,
             saved : Contexts, savedRsp : Contexts]

\* The fields of what t knows of its signals.
LEMMA SigFields ==
    ASSUME ReturnInv, NEW t \in Programs
    PROVE  /\ sig[t] \in SigTypes /\ sig \in [Programs -> SigTypes]
           /\ sig[t].pending \in SUBSET Signos /\ sig[t].mask \in SUBSET Signos
           /\ sig[t].active \in SUBSET Signos /\ sig[t].saved \in Contexts /\ sig[t].savedRsp \in Contexts
<1>1. sig \in [Programs -> SigTypes]
  BY DEF ReturnInv, ReturnTypes, SyscallsTypeOK, SigTypes
<1> QED
  BY <1>1 DEF SigTypes

\* Signals with t in a handler of s, which has interrupted the context c.
InHandler(t, s, pending, c) ==
    /\ sig' = [sig EXCEPT ![t] = [pending |-> pending, mask |-> sig[t].mask \cup {s},
                                 active |-> sig[t].active \cup {s}, saved |-> c, savedRsp |-> Stack(c)]]
    /\ frame' = [frame EXCEPT ![t] = Context(t, s, "first")]
    /\ should' = [should EXCEPT ![t] = Context(t, s, "first")]
    /\ owed' = [owed EXCEPT ![t] = <<c>>]

LEMMA HandlerEntered ==
    ASSUME ReturnInv, NEW t \in Programs, NEW s \in Signos, NEW pending \in SUBSET Signos,
           sig[t].active = {}, InHandler(t, s, pending, should[t])
    PROVE  /\ sig' \in [Programs -> SigTypes] /\ frame' \in [Programs -> Contexts]
           /\ should' \in [Programs -> Contexts] /\ owed' \in [Programs -> AtMostOne]
           /\ HandlersRight(t)' /\ should'[t] = Context(t, s, "first")
           /\ Stack(should[t])' = Context(t, s, "first") /\ Context(t, s, "first") \in Contexts
           /\ \A q \in Programs \ {t} : sig'[q] = sig[q] /\ frame'[q] = frame[q]
                                       /\ should'[q] = should[q] /\ owed'[q] = owed[q]
<1> DEFINE c == should[t]
           new == [pending |-> pending, mask |-> sig[t].mask \cup {s},
                   active |-> sig[t].active \cup {s}, saved |-> c, savedRsp |-> Stack(c)]
           h == Context(t, s, "first")
<1>1. c \in Contexts /\ Stack(c) \in Contexts
  <2>1. c \in Contexts
    BY DEF ReturnInv, ReturnTypes
  <2> QED
    BY <2>1, StackOf DEF Points
<1>2. new \in SigTypes /\ new.active # {} /\ new.saved = c /\ new.savedRsp = Stack(c)
  BY <1>1, SigFields DEF SigTypes
<1>3. h \in Contexts /\ h.of = s /\ h.at = "first" /\ Stack(h) = h /\ s # Main
  BY ContextTypes, SignosAssumption DEF Points, Main
<1>4. sig' = [sig EXCEPT ![t] = new] /\ frame' = [frame EXCEPT ![t] = h]
      /\ should' = [should EXCEPT ![t] = h] /\ owed' = [owed EXCEPT ![t] = <<c>>]
  BY DEF InHandler
<1>5. sig \in [Programs -> SigTypes] /\ frame \in [Programs -> Contexts]
      /\ should \in [Programs -> Contexts] /\ owed \in [Programs -> AtMostOne] /\ <<c>> \in AtMostOne
  BY <1>1, SigFields DEF ReturnInv, ReturnTypes, SyscallsTypeOK, AtMostOne
<1> HIDE DEF c, new, h
<1>6. sig'[t] = new /\ frame'[t] = h /\ should'[t] = h /\ owed'[t] = <<c>>
  BY <1>4, <1>5
<1>7. Stack(should[t])' = h
  BY <1>3, <1>6 DEF Stack
<1>8. HandlersRight(t)'
  <2>1. Stack(sig[t].saved)' = Stack(c)
    BY <1>2, <1>6 DEF Stack
  <2>2. c.of # Main => c.at = "jump"
    BY DEF ReturnInv, TaskInv, HandlersRight, c
  <2> QED
    BY <1>2, <1>3, <1>6, <2>1, <2>2 DEF HandlersRight
<1>9. /\ sig' \in [Programs -> SigTypes] /\ frame' \in [Programs -> Contexts]
      /\ should' \in [Programs -> Contexts] /\ owed' \in [Programs -> AtMostOne]
      /\ \A q \in Programs \ {t} : sig'[q] = sig[q] /\ frame'[q] = frame[q]
                                  /\ should'[q] = should[q] /\ owed'[q] = owed[q]
  BY <1>2, <1>3, <1>4, <1>5
<1> QED
  BY <1>3, <1>6, <1>7, <1>8, <1>9 DEF h

\* signal_dispatch: the task keeps its slots, or its stack pointer becomes that of the handler.
LEMMA DispatchKeeps == ASSUME ReturnInv, NEW t \in Programs, Dispatch(t) PROVE ReturnInv'
<1>1. /\ running = t /\ where[t] = "leaving" /\ where' = [where EXCEPT ![t] = "out"] /\ TaskInv(t)
      /\ UNCHANGED <<running, kind, irqOn, stack, root, kept>>
  BY DEF Dispatch, Is, Moves, ring3Vars, ReturnInv
<1>2. where'[t] = "out" /\ \A q \in Programs \ {t} : where'[q] = where[q]
  BY <1>1 DEF ReturnInv, ReturnTypes, SyscallsTypeOK
<1>3. frame[t] = should[t] /\ slot = Own(t) /\ slot.rsp = Stack(should[t])
  BY <1>1 DEF TaskInv, HandlersRight, SlotsRight, Own, Leaving
<1>4. RunsMasked(t)'
  BY <1>1, <1>2 DEF TaskInv, RunsMasked, InCall, Leaving
<1>5. CASE Deliverable(t) # {} /\ sig[t].active = {}
  <2> DEFINE s == Lowest(Deliverable(t))
             pending == sig[t].pending \ {s}
  <2>1. s \in Signos /\ pending \in SUBSET Signos
    BY <1>5, SigFields, LowestOf, SignosAssumption DEF Deliverable
  <2>2. owed[t] = <<>> /\ <<should[t]>> \o owed[t] = <<should[t]>>
    <3>1. owed[t] = <<>> /\ should[t] \in Contexts
      BY <1>1, <1>5 DEF TaskInv, HandlersRight, ReturnInv, ReturnTypes
    <3> QED
      BY <3>1, OneOwed
  <2>3. InHandler(t, s, pending, should[t]) /\ slot' = [slot EXCEPT !.rsp = Context(t, s, "first")]
    <3>1. Diverted(t, s, frame[t], slot.rsp) /\ slot' = [slot EXCEPT !.rsp = Context(t, s, "first")]
      BY <1>5 DEF Dispatch
    <3>2. sig' = [sig EXCEPT ![t] = [pending |-> sig[t].pending \ {s}, mask |-> sig[t].mask \cup {s},
                                  active |-> sig[t].active \cup {s}, saved |-> frame[t], savedRsp |-> slot.rsp]]
      BY <3>1, SigFields DEF Diverted
    <3>3. owed' = [owed EXCEPT ![t] = <<should[t]>> \o owed[t]]
      BY <3>1 DEF Diverted, ReturnInv, ReturnTypes
    <3> QED
      BY <1>3, <2>2, <3>1, <3>2, <3>3 DEF Diverted, InHandler
  <2> HIDE DEF s, pending
  <2>4. slot' = [rsp |-> Context(t, s, "first"), cr3 |-> t]
    BY <1>3, <2>3 DEF Own
  <2>5. ReturnTypes'
    <3>1. slot' \in Slots3
      <4>1. Context(t, s, "first") \in Contexts
        BY <2>1, ContextTypes DEF Points
      <4> QED
        BY <2>4, <4>1 DEF Slots3
    <3>2. /\ sig' \in [Programs -> SigTypes] /\ frame' \in [Programs -> Contexts]
          /\ should' \in [Programs -> Contexts] /\ owed' \in [Programs -> AtMostOne]
      BY <1>5, <2>1, <2>3, HandlerEntered
    <3> QED
      BY <1>1, <3>1, <3>2 DEF ReturnInv, ReturnTypes, SyscallsTypeOK, SigTypes
  <2>6. SlotsRight(t)'
    <3>1. Own(t)' = slot'
      BY <1>5, <2>1, <2>3, <2>4, HandlerEntered DEF Own
    <3> QED
      BY <1>1, <1>2, <3>1 DEF TaskInv, SlotsRight, InCall, Leaving
  <2>7. TaskInv(t)'
    BY <1>4, <1>5, <2>1, <2>3, <2>6, HandlerEntered DEF TaskInv
  <2>8. Apart(t)
    BY <1>1, <1>2, <1>5, <2>1, <2>3, HandlerEntered DEF Apart
  <2> QED
    BY <2>5, <2>7, <2>8, Local
<1>6. CASE ~(Deliverable(t) # {} /\ sig[t].active = {})
  <2>1. UNCHANGED <<sig, frame, slot, should, owed>>
    BY <1>6 DEF Dispatch, ghosts
  <2>2. ReturnTypes'
    BY <1>1, <2>1 DEF ReturnInv, ReturnTypes, SyscallsTypeOK
  <2>3. TaskInv(t)'
    BY <1>1, <1>2, <1>4, <2>1 DEF TaskInv, SlotsRight, HandlersRight, Own, InCall, Leaving
  <2>4. Apart(t)
    BY <1>1, <1>2, <2>1 DEF Apart
  <2> QED
    BY <2>2, <2>3, <2>4, Local
<1> QED
  BY <1>5, <1>6

\* iretq, with the slots of the core.
LEMMA ReturnToUserKeeps == ASSUME ReturnInv, NEW t \in Programs, ReturnToUser(t) PROVE ReturnInv'
<1>1. /\ running = t /\ where[t] = "out" /\ where' = [where EXCEPT ![t] = "user"] /\ TaskInv(t)
      /\ UNCHANGED <<running, kind, frame, slot, kept, sig, should, owed>>
      /\ irqOn' = [irqOn EXCEPT ![t] = FALSE]
      /\ stack' = [stack EXCEPT ![t] = slot.rsp] /\ root' = [root EXCEPT ![t] = slot.cr3]
  BY DEF ReturnToUser, Masks, Is, Moves, ghosts, ReturnInv
<1>2. slot = Own(t) /\ slot.rsp = Stack(should[t]) /\ slot.cr3 = t
  BY <1>1 DEF TaskInv, SlotsRight, Own, Leaving
<1>3. slot.rsp \in Contexts
  BY DEF ReturnInv, ReturnTypes, SyscallsTypeOK, Slots3
<1>4. ReturnTypes'
  BY <1>1, <1>2, <1>3 DEF ReturnInv, ReturnTypes, SyscallsTypeOK
<1>5. where'[t] = "user" /\ irqOn'[t] = FALSE /\ stack'[t] = Stack(should[t]) /\ root'[t] = t
  BY <1>1, <1>2 DEF ReturnInv, ReturnTypes, SyscallsTypeOK
<1>6. TaskInv(t)'
  <2>1. Stack(should[t])' = Stack(should[t])
    BY <1>1 DEF Stack
  <2> QED
    BY <1>1, <1>5, <2>1 DEF TaskInv, RunsMasked, SlotsRight, HandlersRight, InCall, Leaving, Stack
<1>7. Apart(t)
  BY <1>1 DEF Apart, ReturnInv, ReturnTypes, SyscallsTypeOK
<1> QED
  BY <1>4, <1>6, <1>7, Local

\* Raising a signal changes what is pending and wakes a sleeper.
LEMMA RaiseKeeps ==
    ASSUME ReturnInv, NEW t \in Programs, NEW s \in Signos, Raise(t, s)
    PROVE  ReturnInv'
<1> DEFINE new == [sig[t] EXCEPT !.pending = @ \cup {s}]
           place == IF where[t] = "asleep" THEN "woken" ELSE where[t]
<1>1. /\ sig' = [sig EXCEPT ![t] = new] /\ where' = [where EXCEPT ![t] = place] /\ TaskInv(t)
      /\ UNCHANGED <<running, kind, irqOn, frame, stack, root, slot, kept, should, owed>>
  BY SigFields DEF Raise, Moves, ring3Vars, ghosts, ReturnInv, ReturnTypes, SyscallsTypeOK
<1>2. /\ new \in SigTypes /\ new.active = sig[t].active /\ new.saved = sig[t].saved
      /\ new.savedRsp = sig[t].savedRsp
  BY SigFields DEF SigTypes
<1> HIDE DEF new
<1>3. sig'[t] = new /\ where'[t] = place /\ sig' \in [Programs -> SigTypes]
      /\ \A q \in Programs \ {t} : sig'[q] = sig[q] /\ where'[q] = where[q]
  BY <1>1, <1>2, SigFields DEF ReturnInv, ReturnTypes, SyscallsTypeOK
<1>4. ReturnTypes'
  BY <1>1, <1>3 DEF ReturnInv, ReturnTypes, SyscallsTypeOK, SigTypes
<1>5. TaskInv(t)'
  <2>1. RunsMasked(t)' /\ SlotsRight(t)'
    BY <1>1, <1>3 DEF TaskInv, RunsMasked, SlotsRight, Own, InCall, Leaving, Stack
  <2>2. HandlersRight(t)'
    BY <1>1, <1>2, <1>3 DEF TaskInv, HandlersRight, Stack
  <2> QED
    BY <2>1, <2>2 DEF TaskInv
<1>6. Apart(t)
  BY <1>1, <1>3 DEF Apart
<1> QED
  BY <1>4, <1>5, <1>6, Local

\* A fault enters the handler from ring 3.
LEMMA FaultKeeps ==
    ASSUME ReturnInv, NEW t \in Programs, NEW s \in Signos, Fault(t, s)
    PROVE  ReturnInv'
<1> DEFINE h == Context(t, s, "first")
           pending == sig[t].pending
<1>1. /\ running = t /\ where[t] = "user" /\ sig[t].active = {} /\ TaskInv(t)
      /\ stack' = [stack EXCEPT ![t] = h] /\ slot' = [slot EXCEPT !.cr3 = t]
      /\ UNCHANGED <<running, where, kind, irqOn, root, kept>>
  BY DEF Fault, Is, ReturnInv
<1>2. frame[t] = should[t] /\ stack[t] = Stack(should[t]) /\ owed[t] = <<>> /\ root[t] = t /\ irqOn[t] = FALSE
  BY <1>1 DEF TaskInv, HandlersRight, SlotsRight, RunsMasked
<1>3. pending \in SUBSET Signos /\ h \in Contexts
  BY SigFields, ContextTypes DEF Points
<1>4. InHandler(t, s, pending, should[t])
  <2>1. <<should[t]>> \o owed[t] = <<should[t]>>
    <3>1. should[t] \in Contexts
      BY DEF ReturnInv, ReturnTypes
    <3> QED
      BY <1>2, <3>1, OneOwed
  <2>2. sig' = [sig EXCEPT ![t] = [pending |-> sig[t].pending, mask |-> sig[t].mask \cup {s},
                                active |-> sig[t].active \cup {s}, saved |-> frame[t], savedRsp |-> stack[t]]]
    BY SigFields DEF Fault
  <2>3. owed' = [owed EXCEPT ![t] = <<should[t]>> \o owed[t]]
    BY DEF Fault, ReturnInv, ReturnTypes
  <2> QED
    BY <1>2, <2>1, <2>2, <2>3 DEF Fault, InHandler
<1> HIDE DEF h, pending
<1>5. stack'[t] = h /\ stack' \in [Programs -> Contexts] /\ slot' \in Slots3
      /\ \A q \in Programs \ {t} : stack'[q] = stack[q]
  BY <1>1, <1>3 DEF ReturnInv, ReturnTypes, SyscallsTypeOK, Slots3
<1>6. /\ sig' \in [Programs -> SigTypes] /\ frame' \in [Programs -> Contexts]
      /\ should' \in [Programs -> Contexts] /\ owed' \in [Programs -> AtMostOne]
      /\ HandlersRight(t)' /\ Stack(should[t])' = h
      /\ \A q \in Programs \ {t} : sig'[q] = sig[q] /\ frame'[q] = frame[q]
                                  /\ should'[q] = should[q] /\ owed'[q] = owed[q]
  BY <1>1, <1>3, <1>4, HandlerEntered DEF h
<1>7. ReturnTypes'
  BY <1>1, <1>5, <1>6 DEF ReturnInv, ReturnTypes, SyscallsTypeOK, SigTypes
<1>8. TaskInv(t)'
  <2>1. RunsMasked(t)' /\ SlotsRight(t)'
    BY <1>1, <1>2, <1>5, <1>6 DEF TaskInv, RunsMasked, SlotsRight, InCall, Leaving
  <2> QED
    BY <1>6, <2>1 DEF TaskInv
<1>9. Apart(t)
  BY <1>1, <1>5, <1>6 DEF Apart
<1> QED
  BY <1>7, <1>8, <1>9, Local

\* A handler is left: what it interrupted goes on.
LEMMA SigreturnKeeps == ASSUME ReturnInv, NEW t \in Programs, Sigreturn(t) PROVE ReturnInv'
<1> DEFINE c == sig[t].saved
           new == [sig[t] EXCEPT !.mask = sig[t].mask \ sig[t].active, !.active = {}]
<1>1. /\ running = t /\ where[t] = "user" /\ TaskInv(t) /\ sig[t].active # {}
      /\ owed[t] = <<c>> /\ root[t] = t /\ sig[t].savedRsp = Stack(c)
      /\ c.of # Main => c.at = "jump"
  BY DEF Sigreturn, Is, ReturnInv, TaskInv, HandlersRight, SlotsRight
<1>2. c \in Contexts /\ Head(owed[t]) = c /\ Tail(owed[t]) = <<>>
  BY <1>1, SigFields, OneOwed
<1>3. new \in SigTypes /\ new.active = {}
  BY SigFields DEF SigTypes
<1>4. /\ sig' = [sig EXCEPT ![t] = new] /\ where' = [where EXCEPT ![t] = "leaving"]
      /\ irqOn' = [irqOn EXCEPT ![t] = FALSE] /\ kind' = [kind EXCEPT ![t] = "short"]
      /\ frame' = [frame EXCEPT ![t] = c] /\ should' = [should EXCEPT ![t] = c]
      /\ owed' = [owed EXCEPT ![t] = <<>>] /\ slot' = [rsp |-> Stack(c), cr3 |-> t]
      /\ UNCHANGED <<running, stack, root, kept>>
  <2>1. sig' = [sig EXCEPT ![t] = new]
    BY <1>1, SigFields DEF Sigreturn
  <2>2. owed' = [owed EXCEPT ![t] = <<>>]
    BY <1>2 DEF Sigreturn, ReturnInv, ReturnTypes
  <2> QED
    BY <1>1, <1>2, <2>1, <2>2 DEF Sigreturn, Masks, Moves, ring3Vars
<1>5. Stack(c) \in Contexts
  BY <1>2, StackOf DEF Points
<1> HIDE DEF c, new
<1>6. /\ sig'[t] = new /\ where'[t] = "leaving" /\ irqOn'[t] = FALSE /\ frame'[t] = c /\ should'[t] = c
      /\ owed'[t] = <<>>
  BY <1>4, SigFields DEF ReturnInv, ReturnTypes, SyscallsTypeOK
<1>7. ReturnTypes'
  <2>1. sig' \in [Programs -> SigTypes] /\ owed' \in [Programs -> AtMostOne]
    BY <1>3, <1>4, SigFields DEF ReturnInv, ReturnTypes, AtMostOne
  <2>2. slot' \in Slots3
    BY <1>4, <1>5 DEF Slots3
  <2> QED
    BY <1>2, <1>4, <2>1, <2>2 DEF ReturnInv, ReturnTypes, SyscallsTypeOK, SigTypes, CallKinds
<1>8. TaskInv(t)'
  <2>1. Own(t)' = slot'
    BY <1>4, <1>6 DEF Own, Stack
  <2> QED
    BY <1>1, <1>3, <1>4, <1>6, <2>1 DEF TaskInv, RunsMasked, SlotsRight, HandlersRight, InCall, Leaving
<1>9. Apart(t)
  BY <1>1, <1>4, SigFields DEF Apart, ReturnInv, ReturnTypes, SyscallsTypeOK
<1> QED
  BY <1>7, <1>8, <1>9, Local

\* main changes its mask: it is in no handler, and stays so.
LEMMA SigprocmaskKeeps ==
    ASSUME ReturnInv, NEW t \in Programs, NEW set \in SUBSET Signos, Sigprocmask(t, set)
    PROVE  ReturnInv'
<1> DEFINE new == [sig[t] EXCEPT !.mask = set, !.active = sig[t].active \cap set]
<1>1. /\ running = t /\ where[t] = "user" /\ TaskInv(t) /\ sig[t].active = {}
      /\ root[t] = t /\ stack[t] = Stack(should[t])
  BY DEF Sigprocmask, Is, ReturnInv, TaskInv, HandlersRight, SlotsRight
<1>2. new \in SigTypes /\ new.active = {} /\ new.saved = sig[t].saved /\ new.savedRsp = sig[t].savedRsp
  BY <1>1, SigFields DEF SigTypes
<1>3. /\ sig' = [sig EXCEPT ![t] = new] /\ where' = [where EXCEPT ![t] = "leaving"]
      /\ irqOn' = [irqOn EXCEPT ![t] = FALSE] /\ kind' = [kind EXCEPT ![t] = "short"]
      /\ slot' = Own(t)
      /\ UNCHANGED <<running, frame, stack, root, kept, should, owed>>
  <2>1. sig' = [sig EXCEPT ![t] = new]
    BY SigFields DEF Sigprocmask, Masked
  <2> QED
    BY <1>1, <2>1 DEF Sigprocmask, Stash, Masks, Moves, ring3Vars, ghosts, Own
<1> HIDE DEF new
<1>4. sig'[t] = new /\ where'[t] = "leaving" /\ irqOn'[t] = FALSE /\ sig' \in [Programs -> SigTypes]
  BY <1>2, <1>3, SigFields DEF ReturnInv, ReturnTypes, SyscallsTypeOK
<1>5. Own(t)' = Own(t)
  BY <1>3 DEF Own, Stack
<1>6. ReturnTypes'
  <2>1. slot' \in Slots3
    BY <1>1, <1>3 DEF Own, Slots3, ReturnInv, ReturnTypes, SyscallsTypeOK
  <2> QED
    BY <1>3, <1>4, <2>1 DEF ReturnInv, ReturnTypes, SyscallsTypeOK, SigTypes, CallKinds
<1>7. TaskInv(t)'
  BY <1>1, <1>2, <1>3, <1>4, <1>5 DEF TaskInv, RunsMasked, SlotsRight, HandlersRight, InCall, Leaving
<1>8. Apart(t)
  BY <1>1, <1>3, SigFields DEF Apart, ReturnInv, ReturnTypes, SyscallsTypeOK
<1> QED
  BY <1>6, <1>7, <1>8, Local

\* siglongjmp gives up what the handler interrupted.
LEMMA SiglongjmpKeeps == ASSUME ReturnInv, NEW t \in Programs, Siglongjmp(t) PROVE ReturnInv'
<1> DEFINE new == [sig[t] EXCEPT !.mask = {}, !.active = sig[t].active \cap {}]
           c == [should[t] EXCEPT !.at = "jump"]
<1>1. /\ running = t /\ where[t] = "user" /\ TaskInv(t) /\ sig[t].active # {}
      /\ owed[t] = <<sig[t].saved>> /\ root[t] = t /\ stack[t] = Stack(should[t]) /\ frame[t] = should[t]
      /\ should[t] \in Contexts
  BY DEF Siglongjmp, Is, ReturnInv, TaskInv, HandlersRight, SlotsRight, ReturnTypes
<1>2. c \in Contexts /\ c.at = "jump" /\ Stack(c) = Stack(should[t])
  BY <1>1, StackOf DEF Points
<1>3. new \in SigTypes /\ new.active = {}
  BY SigFields DEF SigTypes
<1>4. /\ sig' = [sig EXCEPT ![t] = new] /\ where' = [where EXCEPT ![t] = "leaving"]
      /\ irqOn' = [irqOn EXCEPT ![t] = FALSE] /\ kind' = [kind EXCEPT ![t] = "short"]
      /\ slot' = Own(t) /\ frame' = [frame EXCEPT ![t] = c] /\ should' = [should EXCEPT ![t] = c]
      /\ owed' = [owed EXCEPT ![t] = <<>>]
      /\ UNCHANGED <<running, stack, root, kept>>
  <2>1. sig' = [sig EXCEPT ![t] = new]
    BY SigFields DEF Siglongjmp, Masked
  <2>2. owed' = [owed EXCEPT ![t] = <<>>]
    <3>1. Tail(owed[t]) = <<>>
      BY <1>1, SigFields, OneOwed
    <3> QED
      BY <3>1 DEF Siglongjmp, ReturnInv, ReturnTypes
  <2>3. frame' = [frame EXCEPT ![t] = c] /\ should' = [should EXCEPT ![t] = c]
    BY <1>1 DEF Siglongjmp, ReturnInv, ReturnTypes, SyscallsTypeOK
  <2> QED
    BY <1>1, <2>1, <2>2, <2>3 DEF Siglongjmp, Stash, Masks, Moves, ring3Vars, Own
<1> HIDE DEF c, new
<1>5. /\ sig'[t] = new /\ where'[t] = "leaving" /\ irqOn'[t] = FALSE /\ frame'[t] = c /\ should'[t] = c
      /\ owed'[t] = <<>>
  BY <1>4, SigFields DEF ReturnInv, ReturnTypes, SyscallsTypeOK
<1>6. Own(t)' = Own(t)
  BY <1>2, <1>4, <1>5 DEF Own, Stack
<1>7. ReturnTypes'
  <2>1. sig' \in [Programs -> SigTypes] /\ owed' \in [Programs -> AtMostOne]
    BY <1>3, <1>4, SigFields DEF ReturnInv, ReturnTypes, AtMostOne
  <2>2. slot' \in Slots3
    BY <1>1, <1>4 DEF Own, Slots3, ReturnInv, ReturnTypes, SyscallsTypeOK
  <2> QED
    BY <1>2, <1>4, <2>1, <2>2 DEF ReturnInv, ReturnTypes, SyscallsTypeOK, SigTypes, CallKinds
<1>8. TaskInv(t)'
  BY <1>1, <1>2, <1>3, <1>4, <1>5, <1>6
     DEF TaskInv, RunsMasked, SlotsRight, HandlersRight, InCall, Leaving
<1>9. Apart(t)
  BY <1>1, <1>4, SigFields DEF Apart, ReturnInv, ReturnTypes, SyscallsTypeOK
<1> QED
  BY <1>7, <1>8, <1>9, Local

\* ... and jumps to main.
LEMMA JumpKeeps == ASSUME ReturnInv, NEW t \in Programs, Jump(t) PROVE ReturnInv'
<1> DEFINE c == First(t)
<1>1. /\ running = t /\ where[t] = "user" /\ TaskInv(t) /\ frame[t].at = "jump"
      /\ frame' = [frame EXCEPT ![t] = c] /\ stack' = [stack EXCEPT ![t] = c]
      /\ should' = [should EXCEPT ![t] = c]
      /\ UNCHANGED <<running, where, kind, irqOn, root, slot, kept, sig, owed>>
  BY DEF Jump, Is, ReturnInv
<1>2. c \in Contexts /\ c.of = Main /\ Stack(c) = c
  BY ContextTypes DEF First, Points
<1>3. sig[t].active = {}
  BY <1>1 DEF TaskInv, HandlersRight
<1> HIDE DEF c
<1>4. frame'[t] = c /\ stack'[t] = c /\ should'[t] = c
  BY <1>1 DEF ReturnInv, ReturnTypes, SyscallsTypeOK
<1>5. ReturnTypes'
  BY <1>1, <1>2 DEF ReturnInv, ReturnTypes, SyscallsTypeOK
<1>6. TaskInv(t)'
  <2>1. Stack(should[t])' = c
    BY <1>2, <1>4 DEF Stack
  <2> QED
    BY <1>1, <1>2, <1>3, <1>4, <2>1 DEF TaskInv, RunsMasked, SlotsRight, HandlersRight, InCall, Leaving
<1>7. Apart(t)
  BY <1>1 DEF Apart, ReturnInv, ReturnTypes, SyscallsTypeOK
<1> QED
  BY <1>5, <1>6, <1>7, Local

----------------------------------------------------------------------------
(* The specification.                                                       *)

LEMMA ReturnStarts == ASSUME SyscallsInit PROVE ReturnInv
<1>1. \A t \in Programs : First(t) \in Contexts /\ First(t).of = Main /\ Stack(First(t)) = First(t)
  BY ContextTypes DEF First, Points
<1>2. slot \in Slots3
  BY <1>1 DEF SyscallsInit, Slots3
<1>3. sig \in [Programs -> SigTypes]
  BY <1>1 DEF SyscallsInit, SigTypes
<1>4. ReturnTypes
  <2>1. owed \in [Programs -> AtMostOne]
    BY DEF SyscallsInit, AtMostOne
  <2> QED
    BY <1>1, <1>2, <1>3, <2>1 DEF SyscallsInit, ReturnTypes, SyscallsTypeOK, SigTypes, CallKinds
<1>5. ASSUME NEW t \in Programs PROVE TaskInv(t)
  BY <1>1 DEF SyscallsInit, TaskInv, RunsMasked, SlotsRight, HandlersRight, InCall, Leaving
<1> QED
  BY <1>4, <1>5 DEF ReturnInv

LEMMA ReturnKept ==
    ASSUME Kinds \cap Unmasked = {}, ReturnInv, [SyscallsNext]_callVars
    PROVE  ReturnInv'
<1>1. CASE UNCHANGED callVars
  <2>1. ReturnTypes'
    BY <1>1 DEF callVars, ReturnInv, ReturnTypes, SyscallsTypeOK
  <2>2. ASSUME NEW t \in Programs PROVE TaskInv(t)'
    BY <1>1 DEF callVars, ReturnInv, TaskInv, RunsMasked, SlotsRight, HandlersRight, Own, Stack
  <2> QED
    BY <2>1, <2>2 DEF ReturnInv
<1>2. CASE SyscallsNext
  <2>1. PICK t \in Programs :
           \/ Preempt(t) \/ Sleeps(t) \/ Awaken(t) \/ LooksAgain(t) \/ Done(t) \/ Restores(t)
           \/ Dispatch(t) \/ ReturnToUser(t) \/ Sigreturn(t) \/ Siglongjmp(t) \/ Jump(t)
           \/ \E k \in Kinds : Call(t, k)
           \/ \E s \in Signos : Raise(t, s) \/ Fault(t, s)
           \/ \E set \in SUBSET Signos : Sigprocmask(t, set)
    BY <1>2 DEF SyscallsNext
  <2>2. CASE Preempt(t)
    BY <2>2, PreemptKeeps
  <2>3. CASE Sleeps(t) \/ Awaken(t) \/ LooksAgain(t)
    BY <2>3, SleepKeeps
  <2>4. CASE Done(t)
    BY <2>4, DoneKeeps
  <2>5. CASE Restores(t)
    BY <2>5, RestoresKeeps
  <2>6. CASE Dispatch(t)
    BY <2>6, DispatchKeeps
  <2>7. CASE ReturnToUser(t)
    BY <2>7, ReturnToUserKeeps
  <2>8. CASE Sigreturn(t)
    BY <2>8, SigreturnKeeps
  <2>9. CASE Siglongjmp(t)
    BY <2>9, SiglongjmpKeeps
  <2>10. CASE Jump(t)
    BY <2>10, JumpKeeps
  <2>11. ASSUME NEW k \in Kinds, Call(t, k) PROVE ReturnInv'
    BY <2>11, CallKeeps
  <2>12. ASSUME NEW s \in Signos, Raise(t, s) \/ Fault(t, s) PROVE ReturnInv'
    BY <2>12, RaiseKeeps, FaultKeeps
  <2>13. ASSUME NEW set \in SUBSET Signos, Sigprocmask(t, set) PROVE ReturnInv'
    BY <2>13, SigprocmaskKeeps
  <2> QED
    BY <2>1, <2>2, <2>3, <2>4, <2>5, <2>6, <2>7, <2>8, <2>9, <2>10, <2>11, <2>12, <2>13
<1> QED
  BY <1>1, <1>2

\* Whoever made calls in the meantime, and whatever handlers it went through, a task is back in
\* ring 3 with its own registers, stack and page tables (syscall_entry, signal_dispatch and
\* signal_return) - as long as no sleeping call comes back with interrupts enabled.
THEOREM ContextsComeBack ==
    ASSUME Kinds \cap Unmasked = {}
    PROVE  SyscallsSpec => []ReturnsToItself
<1>1. SyscallsInit => ReturnInv
  BY ReturnStarts
<1>2. ReturnInv /\ [SyscallsNext]_callVars => ReturnInv'
  BY ReturnKept
<1>3. ReturnInv => ReturnsToItself
  BY DEF ReturnInv, TaskInv, SlotsRight, HandlersRight, ReturnsToItself
<1> QED
  BY <1>1, <1>2, <1>3, PTL DEF SyscallsSpec

=============================================================================
