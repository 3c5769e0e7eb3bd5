------------------------------ MODULE TlbProps -------------------------------
(***************************************************************************)
(* What a TLB shootdown promises.                                          *)
(***************************************************************************)
EXTENDS Tlb

TlbTypeOK ==
    /\ step \in [Callers -> {"idle", "lock", "post", "send", "wait"}]
    /\ target \in [Callers -> Entries]
    /\ shootdown_lock \in Callers \cup {NoCaller}
    /\ shootdown_addr \in Entries
    /\ shootdown_pending \subseteq Cores /\ ipi \subseteq Cores /\ off \subseteq Cores
    /\ handler \in [Cores -> {"none", "flushed", "invalidated"}]
    /\ stale \in [Cores -> SUBSET Entries]
    /\ warned \in BOOLEAN
    /\ changes \in 0..MaxChanges

ShotDown(e) == \E t \in Callers : step[t] # "idle" /\ target[t] = e

\* When tlb_shootdown returns no core uses the old translation any more, for
\* whatever shootdowns run at once and whenever cores have their interrupts
\* off.  Once a wait has timed out (the warning says that a TLB may be stale),
\* a core that still holds one has the interrupt pending that will drop it:
\* also when it answered another shootdown's request in the meantime.
OldTranslationsGone ==
    \A c \in Cores : \A e \in stale[c] : ShotDown(e) \/ (warned /\ c \in ipi)
----------------------------------------------------------------------------
(* Why it holds: the invariant that Locks_proofs shows to be inductive.    *)

InLock(t) == step[t] \in {"post", "send", "wait"}

\* Whoever is past spin_lock holds the lock.
LockHeld == \A t \in Callers : InLock(t) => shootdown_lock = t

\* A core that still has a translation of e will hear from a caller on another core, or has
\* heard: of one that waits for it, or of one that has given up.
StaleHears ==
    \A c \in Cores : \A e \in stale[c] :
       \/ \E t \in Callers :
             step[t] \in {"lock", "post", "send"} /\ target[t] = e /\ CoreOf(t) # c
       \/ c \in ipi /\ (warned \/ \E t \in Callers : step[t] = "wait" /\ target[t] = e)

\* Until a wait times out, the cores that are interrupted are those that somebody waits for.
Interrupted == ipi \cup {c \in Cores : handler[c] # "none"}

Asked ==
    ~warned =>
    /\ Interrupted \subseteq shootdown_pending
    /\ Interrupted # {} => \E t \in Callers : step[t] = "wait"
    /\ \A t \in Callers : step[t] = "send" => shootdown_pending = Cores \ {CoreOf(t)}
    \* an interrupt is not pending at a core that is still answering the one before
    /\ \A c \in ipi : handler[c] = "none"

TlbInv == TlbTypeOK /\ LockHeld /\ StaleHears /\ Asked
=============================================================================
