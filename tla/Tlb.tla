-------------------------------- MODULE Tlb ---------------------------------
(***************************************************************************)
(* The TLB shootdown: a core that has changed a page table entry makes the *)
(* others drop what they cached of it.  Sources: tlb_shootdown and         *)
(* tlb_shootdown_ipi in kernel/core/smp.c; tlb_ipi_stub in                 *)
(* kernel/core/isr_stubs.asm.                                              *)
(*                                                                         *)
(* What a core has cached is taken at its worst: whenever an entry changes *)
(* every other core holds the old translation.  A shootdown runs with      *)
(* interrupts on, so other callers of its core run between its steps.      *)
(***************************************************************************)
EXTENDS Integers, FiniteSets

CONSTANTS
    NCores,      \* cpu_count
    Callers,     \* the tasks that change page tables
    Entries,     \* the page table entries they change
    MaxChanges   \* bound: changes of entries

ASSUME CoresAssumption   == NCores \in Nat /\ NCores > 1
ASSUME CallersAssumption == Callers \subseteq Nat \ {0} /\ Entries # {}
ASSUME ChangesAssumption == MaxChanges \in Nat

Cores     == 0..(NCores - 1)
NoCaller  == 0
CoreOf(t) == t % NCores
NoEntry   == CHOOSE e \in Entries : TRUE   \* whatever is named before the first

VARIABLES
    step,            \* where a caller is in tlb_shootdown
    target,          \* the entry it shoots down
    shootdown_lock,  \* who holds the lock, or NoCaller
    shootdown_addr,
    shootdown_pending,
    ipi,             \* the cores at which the interrupt is pending
    handler,         \* where a core is in the interrupt's handler
    off,             \* the cores that run with interrupts disabled
    stale,           \* the entries of which a core holds an old translation
    warned,          \* warned: a wait has timed out
    changes

tlbVars == <<step, target, shootdown_lock, shootdown_addr, shootdown_pending,
             ipi, handler, off, stale, warned, changes>>

TlbInit ==
    /\ step = [t \in Callers |-> "idle"]
    /\ target = [t \in Callers |-> NoEntry]
    /\ shootdown_lock = NoCaller
    /\ shootdown_addr = NoEntry
    /\ shootdown_pending = {}
    /\ ipi = {}
    /\ handler = [c \in Cores |-> "none"]
    /\ off = {}
    /\ stale = [c \in Cores |-> {}]
    /\ warned = FALSE
    /\ changes = 0

\* The code of a caller runs: its core is in no handler, and not in other code
\* that has disabled interrupts.
Steps(t, from, to) ==
    /\ step[t] = from /\ handler[CoreOf(t)] = "none" /\ CoreOf(t) \notin off
    /\ step' = [step EXCEPT ![t] = to]

\* A caller changes an entry, drops it from its own TLB, and enables interrupts.
Change(t, e) ==
    /\ changes < MaxChanges
    /\ step[t] = "idle" /\ handler[CoreOf(t)] = "none"
    /\ step' = [step EXCEPT ![t] = "lock"]
    /\ target' = [target EXCEPT ![t] = e]
    /\ stale' = [c \in Cores |-> IF c = CoreOf(t) THEN stale[c] \ {e} ELSE stale[c] \cup {e}]
    /\ off' = off \ {CoreOf(t)}
    /\ changes' = changes + 1
    /\ UNCHANGED <<shootdown_lock, shootdown_addr, shootdown_pending, ipi, handler, warned>>

\* Mutant: nothing keeps two shootdowns apart.
TakeLockAnyway(t) ==
    /\ Steps(t, "lock", "post")
    /\ shootdown_lock' = t
    /\ UNCHANGED <<target, shootdown_addr, shootdown_pending, ipi, handler, off, stale,
                   warned, changes>>

\* spin_lock(&shootdown_lock).
TakeLock(t) ==
    /\ shootdown_lock = NoCaller
    /\ Steps(t, "lock", "post")
    /\ shootdown_lock' = t
    /\ UNCHANGED <<target, shootdown_addr, shootdown_pending, ipi, handler, off, stale,
                   warned, changes>>

\* It names the entry and the cores that have to answer.
Post(t) ==
    /\ Steps(t, "post", "send")
    /\ shootdown_addr' = target[t]
    /\ shootdown_pending' = Cores \ {CoreOf(t)}
    /\ UNCHANGED <<target, shootdown_lock, ipi, handler, off, stale, warned, changes>>

\* apic_send_ipi_all_but_self: one more is lost on a core where one is pending.
SendIpi(t) ==
    /\ Steps(t, "send", "wait")
    /\ ipi' = ipi \cup (Cores \ {CoreOf(t)})
    /\ UNCHANGED <<target, shootdown_lock, shootdown_addr, shootdown_pending, handler, off,
                   stale, warned, changes>>

\* Everybody has answered, or the bounded wait is over and it says so.
Finish(t) ==
    /\ Steps(t, "wait", "idle")
    /\ warned' = (warned \/ shootdown_pending # {})
    /\ shootdown_pending' = {}
    /\ shootdown_lock' = NoCaller
    /\ UNCHANGED <<target, shootdown_addr, ipi, handler, off, stale, changes>>

\* The stub reloads cr3, which empties the TLB: no translation is global.
EnterHandler(c) ==
    /\ c \in ipi /\ handler[c] = "none" /\ c \notin off
    /\ ipi' = ipi \ {c}
    /\ handler' = [handler EXCEPT ![c] = "flushed"]
    /\ stale' = [stale EXCEPT ![c] = {}]
    /\ UNCHANGED <<step, target, shootdown_lock, shootdown_addr, shootdown_pending, off,
                   warned, changes>>

Invalidate(c) ==
    /\ handler[c] = "flushed"
    /\ handler' = [handler EXCEPT ![c] = "invalidated"]
    /\ stale' = [stale EXCEPT ![c] = @ \ {shootdown_addr}]
    /\ UNCHANGED <<step, target, shootdown_lock, shootdown_addr, shootdown_pending, ipi, off,
                   warned, changes>>

\* It clears its bit, whoever is waiting for it, and leaves through the stub,
\* which loads the interrupted cr3.
Answer(c) ==
    /\ handler[c] = "invalidated"
    /\ handler' = [handler EXCEPT ![c] = "none"]
    /\ shootdown_pending' = shootdown_pending \ {c}
    /\ UNCHANGED <<step, target, shootdown_lock, shootdown_addr, ipi, off, stale, warned, changes>>

\* Other code of a core disables interrupts for a while.
Toggle(c) ==
    /\ handler[c] = "none"
    /\ off' = IF c \in off THEN off \ {c} ELSE off \cup {c}
    /\ UNCHANGED <<step, target, shootdown_lock, shootdown_addr, shootdown_pending, ipi,
                   handler, stale, warned, changes>>

TlbNext ==
    \/ \E t \in Callers, e \in Entries : Change(t, e)
    \/ \E t \in Callers : TakeLock(t) \/ Post(t) \/ SendIpi(t) \/ Finish(t)
    \/ \E c \in Cores : EnterHandler(c) \/ Invalidate(c) \/ Answer(c) \/ Toggle(c)

TlbSpec == TlbInit /\ [][TlbNext]_tlbVars
=============================================================================
