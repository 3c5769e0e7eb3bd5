----------------------------- MODULE FutexProps -----------------------------
(***************************************************************************)
(* What the futex has to guarantee for a mutex built on it.                *)
(***************************************************************************)
EXTENDS Futex

\* The types of the variables.
FutexTypeOK ==
    /\ lock \in {Free, Held}
    /\ pc \in [Threads -> {"take", "wait", "futex", "critical", "wake", "exit"}]
    /\ rounds \in [Threads -> 0..Iters] /\ signals \in 0..MaxSignals
    /\ asleep \subseteq Threads /\ futexKey \in [Threads -> {NoKey, LockKey}]

\* The increment of counter that lock_acquire and lock_release enclose has one thread at a time.
OneInside ==
    Cardinality({t \in Threads : pc[t] = "critical"}) <= 1

\* Whoever sleeps for the lock, somebody is awake who has the lock or is on the way to take it or
\* to wake a sleeper: no wake-up is lost between the test of the word and the sleep.
SomebodyWakes ==
    asleep # {} => \E t \in Threads \ asleep : pc[t] # "exit"
=============================================================================
