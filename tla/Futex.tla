------------------------------- MODULE Futex --------------------------------
(***************************************************************************)
(* The futex system call, and the mutex that the threads program builds on *)
(* it.  Sources: do_futex in kernel/proc/process.c; signal_raise in        *)
(* kernel/proc/signal.c; lock_acquire, lock_release and worker in          *)
(* user/threads.c.                                                         *)
(*                                                                         *)
(* The threads of a group run on one core.  A system call is a step up to  *)
(* where it sleeps; between user instructions any other thread may run.    *)
(***************************************************************************)
EXTENDS Integers, FiniteSets

CONSTANTS
    Threads,   \* NTHREADS workers
    Iters,     \* how often each takes the lock
    MaxSignals \* bound: signals that reach the threads

Free == 0
Held == 1
NoKey == 0
LockKey == 1   \* the physical address of lock

VARIABLES
    lock,      \* the word in user memory
    pc,        \* where a thread is
    rounds,    \* how often it still takes the lock
    asleep,    \* the threads in PROC_BLOCKED
    futexKey,  \* futex_key
    signals    \* how many signals are still to come

futexVars == <<lock, pc, rounds, asleep, futexKey, signals>>

FutexInit ==
    /\ lock = Free
    /\ pc = [t \in Threads |-> "take"]
    /\ rounds = [t \in Threads |-> Iters]
    /\ asleep = {}
    /\ futexKey = [t \in Threads |-> NoKey]
    /\ signals = MaxSignals

At(t, where) == pc[t] = where /\ t \notin asleep
Goes(t, where) == pc' = [pc EXCEPT ![t] = where]

\* lock_acquire: the exchange that takes a free lock, or finds it held.
Take(t) ==
    /\ At(t, "take")
    /\ lock' = Held
    /\ Goes(t, IF lock = Free THEN "critical" ELSE "wait")
    /\ UNCHANGED <<rounds, asleep, futexKey, signals>>

\* Mutant: FUTEX_WAIT sleeps without looking at the word again.
SleepUnchecked(t) ==
    /\ asleep' = asleep \cup {t} /\ Goes(t, "futex")
    /\ futexKey' = [futexKey EXCEPT ![t] = LockKey]

\* One round of FUTEX_WAIT with val = 1: sleep while the word is unchanged.
SleepIfHeld(t) ==
    \/ /\ lock = Held
       /\ asleep' = asleep \cup {t} /\ Goes(t, "futex")
       /\ futexKey' = [futexKey EXCEPT ![t] = LockKey]
    \/ /\ lock # Held
       /\ Goes(t, "take")
       /\ futexKey' = [futexKey EXCEPT ![t] = NoKey]
       /\ UNCHANGED asleep

FutexWait(t) ==
    /\ At(t, "wait")
    /\ SleepIfHeld(t)
    /\ UNCHANGED <<lock, rounds, signals>>

\* Mutant: a woken thread takes the lock for its own.
ResumesAsOwner(t) ==
    /\ At(t, "futex")
    /\ \/ futexKey[t] = NoKey /\ Goes(t, "critical") /\ UNCHANGED <<asleep, futexKey>>
       \/ futexKey[t] # NoKey /\ SleepIfHeld(t)
    /\ UNCHANGED <<lock, rounds, signals>>

\* The scheduler resumes a thread in do_futex: released by a wake, or to look again.
FutexResumes(t) ==
    /\ At(t, "futex")
    /\ \/ futexKey[t] = NoKey /\ Goes(t, "take") /\ UNCHANGED <<asleep, futexKey>>
       \/ futexKey[t] # NoKey /\ SleepIfHeld(t)
    /\ UNCHANGED <<lock, rounds, signals>>

\* lock_release, the store ...
Unlock(t) ==
    /\ At(t, "critical")
    /\ lock' = Free
    /\ Goes(t, "wake")
    /\ UNCHANGED <<rounds, asleep, futexKey, signals>>

\* ... and FUTEX_WAKE of one sleeper, whichever comes first in the process table.
FutexWake(t) ==
    LET sleepers == {u \in asleep : futexKey[u] = LockKey}
    IN  /\ At(t, "wake")
        /\ \/ /\ sleepers = {}
              /\ UNCHANGED <<asleep, futexKey>>
           \/ \E u \in sleepers :
                 /\ asleep' = asleep \ {u}
                 /\ futexKey' = [futexKey EXCEPT ![u] = NoKey]
        /\ rounds' = [rounds EXCEPT ![t] = @ - 1]
        /\ Goes(t, IF rounds[t] > 1 THEN "take" ELSE "exit")
        /\ UNCHANGED <<lock, signals>>

\* signal_raise makes a sleeper run; it stays in do_futex.
Nudge(t) ==
    /\ signals > 0 /\ t \in asleep
    /\ asleep' = asleep \ {t} /\ signals' = signals - 1
    /\ UNCHANGED <<lock, pc, rounds, futexKey>>

FutexNext ==
    \E t \in Threads :
       Take(t) \/ FutexWait(t) \/ FutexResumes(t) \/ Unlock(t) \/ FutexWake(t) \/ Nudge(t)

FutexSpec == FutexInit /\ [][FutexNext]_futexVars
=============================================================================
