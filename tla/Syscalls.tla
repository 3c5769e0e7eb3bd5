------------------------------ MODULE Syscalls ------------------------------
(***************************************************************************)
(* The way of a task from ring 3 through a system call and back: what      *)
(* syscall_entry stashes in the per-CPU block, calls that sleep while      *)
(* others make calls, and signal handlers, which are entered by rewriting  *)
(* what the task returns to.                                               *)
(* Sources: syscall_entry in kernel/core/isr_stubs.asm; proc/signal.c; the *)
(* sleeping calls: do_waitpid, do_futex, pipe_read, do_sleep_ms, SYS_POLL  *)
(* and the reads of the terminal; tlb_shootdown in core/smp.c; siglongjmp  *)
(* in user/libc.c.                                                         *)
(*                                                                         *)
(* The tasks are those of one core.  A context names what the registers (and the *)
(* stack pointer) of a task belong to: the main program or a handler, and  *)
(* how far it is.  Signals that end or stop a task are in Process; here    *)
(* each has a handler.  Programs unblock a signal inside its handler only  *)
(* to jump out of it, and main has called sigsetjmp with nothing blocked.  *)
(***************************************************************************)
EXTENDS Integers, FiniteSets, Sequences

CONSTANTS
    Programs,  \* the tasks
    Catchers,  \* those that get signals
    Signos,    \* the signals
    Faults,    \* those of them that a fault raises
    Kinds      \* of the calls: "short", "masked", "open" and "shootdown", see Call and Done

ASSUME CatchersAssumption == Catchers \subseteq Programs
ASSUME SignosAssumption   == Signos \subseteq Nat \ {0} /\ Faults \subseteq Signos
CallKinds == {"short", "masked", "open", "shootdown"}
ASSUME KindsAssumption    == Kinds \subseteq CallKinds

Main  == 0
Points == {"first", "second", "jump"}   \* where the code of a context is
Context(t, of, at) == [task |-> t, of |-> of, at |-> at]
Contexts == [task : Programs, of : Signos \cup {Main}, at : Points]

VARIABLES
    running,  \* whose registers the core holds
    where,    \* where a task is on the way
    kind,     \* the call it is in
    irqOn,    \* whether it runs the kernel with interrupts enabled
    frame,    \* the frame on its kernel stack; in ring 3, its registers
    stack,    \* its stack pointer in ring 3
    root,     \* the page tables it uses in ring 3, by their owner
    slot,     \* user_rsp and user_cr3 in the core's cpu_info
    kept,     \* the copy of those that a sleeping call has on its stack
    sig,      \* sig_pending, sig_mask, sig_active and sig_saved
    should,   \* the context that the program is in
    owed      \* the contexts that its handlers have interrupted, latest first

callVars == <<running, where, kind, irqOn, frame, stack, root, slot, kept, sig, should, owed>>
ring3Vars == <<stack, root>>
ghosts    == <<should, owed>>

First(t) == Context(t, Main, "first")

\* The stack of a context: a position in it is not told apart.
Stack(c) == [c EXCEPT !.at = "first"]

SyscallsInit ==
    /\ running \in Programs
    /\ where = [t \in Programs |-> "user"]
    /\ kind = [t \in Programs |-> "short"]
    /\ irqOn = [t \in Programs |-> FALSE]
    /\ frame = [t \in Programs |-> First(t)]
    /\ stack = [t \in Programs |-> First(t)]
    /\ root = [t \in Programs |-> t]
    /\ slot = [rsp |-> First(running), cr3 |-> running]
    /\ kept = [t \in Programs |-> slot]
    /\ sig = [t \in Programs |-> [pending |-> {}, mask |-> {}, active |-> {}, saved |-> First(t),
                                  savedRsp |-> First(t)]]
    /\ should = [t \in Programs |-> First(t)]
    /\ owed = [t \in Programs |-> <<>>]

\* Task t has the core, and is at that place of its way.
Is(t, place) == running = t /\ where[t] = place
Moves(t, place) == where' = [where EXCEPT ![t] = place]

\* The tick takes the core from a task in ring 3, asleep, or with interrupts enabled.  A task that
\* is resumed in ring 3 gets its own page tables, one that is in the kernel the kernel's.
Preempt(t) ==
    /\ t # running /\ where[t] # "asleep"
    /\ where[running] \in {"user", "asleep", "woken"} \/ irqOn[running]
    /\ running' = t
    /\ root' = [root EXCEPT ![t] = IF where[t] = "user" THEN t ELSE @]
    /\ UNCHANGED <<where, kind, irqOn, frame, stack, slot, kept, sig, ghosts>>

\* syscall_entry: the stack pointer and cr3 go to the slots of the core, the other registers to
\* the task's own kernel stack.
Stash(t) == slot' = [rsp |-> stack[t], cr3 |-> root[t]]

Masks(t) == irqOn' = [irqOn EXCEPT ![t] = FALSE]

\* A call from main or a handler, which goes on to its next step.  A "short" one neither sleeps
\* nor lets interrupts in.  On a machine with two or more cores munmap and mprotect are of the
\* kind "shootdown": tlb_shootdown executes sti, and waits for the other cores.
Call(t, k) ==
    LET next == [frame[t] EXCEPT !.at = IF @ = "first" THEN "second" ELSE "first"]
    IN  /\ Is(t, "user") /\ frame[t].at # "jump" /\ k \in Kinds
        /\ Stash(t)
        /\ irqOn' = [irqOn EXCEPT ![t] = k = "shootdown"]
        /\ kind' = [kind EXCEPT ![t] = k]
        /\ Moves(t, IF k = "short" THEN "leaving" ELSE "call")
        /\ frame' = [frame EXCEPT ![t] = next]
        /\ should' = [should EXCEPT ![t] = [@ EXCEPT !.at = next.at]]
        /\ kept' = [kept EXCEPT ![t] = slot']
        /\ UNCHANGED <<running, ring3Vars, sig, owed>>

\* A sleeping call finds nothing yet: sti; hlt.
Sleeps(t) ==
    /\ Is(t, "call") /\ kind[t] # "shootdown"
    /\ Moves(t, "asleep")
    /\ UNCHANGED <<running, kind, irqOn, frame, ring3Vars, slot, kept, sig, ghosts>>

\* What it waits for happens, or a signal arrives.
Awaken(t) ==
    /\ where[t] = "asleep"
    /\ Moves(t, "woken")
    /\ UNCHANGED <<running, kind, irqOn, frame, ring3Vars, slot, kept, sig, ghosts>>

LooksAgain(t) ==
    /\ Is(t, "woken")
    /\ Moves(t, "call")
    /\ UNCHANGED <<running, kind, irqOn, frame, ring3Vars, slot, kept, sig, ghosts>>

\* The call is done.  One kind (waitpid, pipe_read, poll) leaves interrupts masked until ring 3;
\* the other (sleep, futex, a read of the terminal that a signal ends) has executed sti.  The
\* shootdown has its answers: popfq masks interrupts again, and there is no copy to restore.
Done(t) ==
    /\ Is(t, "call")
    /\ Moves(t, IF kind[t] = "shootdown" THEN "leaving" ELSE "done")
    /\ irqOn' = [irqOn EXCEPT ![t] = kind[t] = "open"]
    /\ UNCHANGED <<running, kind, frame, ring3Vars, slot, kept, sig, ghosts>>

\* user_cr3 = saved_cr3, user_rsp = saved_ursp.
Restores(t) ==
    /\ Is(t, "done")
    /\ Moves(t, "leaving")
    /\ slot' = kept[t]
    /\ UNCHANGED <<running, kind, irqOn, frame, ring3Vars, kept, sig, ghosts>>

----------------------------------------------------------------------------
(* Signals.                                                                 *)

Deliverable(t) == sig[t].pending \ sig[t].mask
Lowest(S) == CHOOSE s \in S : \A r \in S : s <= r

\* The handler of s runs next, and what it interrupts is saved: registers and stack pointer.
Diverted(t, s, regs, rsp) ==
    /\ sig' = [sig EXCEPT ![t] = [pending |-> @.pending \ {s}, mask |-> @.mask \cup {s},
                                  active |-> @.active \cup {s}, saved |-> regs, savedRsp |-> rsp]]
    /\ frame' = [frame EXCEPT ![t] = Context(t, s, "first")]
    /\ should' = [should EXCEPT ![t] = Context(t, s, "first")]
    /\ owed' = [owed EXCEPT ![t] = <<should[t]>> \o @]

\* Mutant: a handler may interrupt another.
DispatchNested(t) ==
    /\ Is(t, "leaving")
    /\ Moves(t, "out")
    /\ IF Deliverable(t) # {}
       THEN LET s == Lowest(Deliverable(t))
            IN  /\ Diverted(t, s, frame[t], slot.rsp)
                /\ slot' = [slot EXCEPT !.rsp = Context(t, s, "first")]
       ELSE UNCHANGED <<sig, frame, slot, ghosts>>
    /\ UNCHANGED <<running, kind, irqOn, ring3Vars, kept>>

\* signal_dispatch: the lowest signal that is deliverable; while a handler is active it waits.
Dispatch(t) ==
    /\ Is(t, "leaving")
    /\ Moves(t, "out")
    /\ IF Deliverable(t) # {} /\ sig[t].active = {}
       THEN LET s == Lowest(Deliverable(t))
            IN  /\ Diverted(t, s, frame[t], slot.rsp)
                /\ slot' = [slot EXCEPT !.rsp = Context(t, s, "first")]
       ELSE UNCHANGED <<sig, frame, slot, ghosts>>
    /\ UNCHANGED <<running, kind, irqOn, ring3Vars, kept>>

\* cli, and back to ring 3 with the slots of the core and the frame of the task.
ReturnToUser(t) ==
    /\ Is(t, "out")
    /\ Moves(t, "user")
    /\ Masks(t)
    /\ stack' = [stack EXCEPT ![t] = slot.rsp]
    /\ root' = [root EXCEPT ![t] = slot.cr3]
    /\ UNCHANGED <<running, kind, frame, slot, kept, sig, ghosts>>

\* signal_raise by another task or an interrupt.
Raise(t, s) ==
    /\ t \in Catchers /\ s \notin sig[t].pending
    /\ sig' = [sig EXCEPT ![t].pending = @ \cup {s}]
    /\ IF where[t] = "asleep" THEN Moves(t, "woken") ELSE UNCHANGED where
    /\ UNCHANGED <<running, kind, irqOn, frame, ring3Vars, slot, kept, ghosts>>

\* A fault in ring 3 enters its handler at once, blocked or not, unless a handler is active: the
\* task is terminated then.
Fault(t, s) ==
    /\ Is(t, "user") /\ t \in Catchers /\ s \in Faults /\ sig[t].active = {}
    /\ sig' = [sig EXCEPT ![t] = [pending |-> @.pending, mask |-> @.mask \cup {s},
                                  active |-> @.active \cup {s}, saved |-> frame[t],
                                  savedRsp |-> stack[t]]]
    /\ frame' = [frame EXCEPT ![t] = Context(t, s, "first")]
    /\ stack' = [stack EXCEPT ![t] = Context(t, s, "first")]
    /\ should' = [should EXCEPT ![t] = Context(t, s, "first")]
    /\ owed' = [owed EXCEPT ![t] = <<should[t]>> \o @]
    /\ slot' = [slot EXCEPT !.cr3 = t]
    /\ UNCHANGED <<running, where, kind, irqOn, root, kept>>

\* A handler returns: the trampoline makes SYS_SIGRETURN.  Without an active handler the call
\* changes nothing, and returns to behind the trampoline.
Sigreturn(t) ==
    /\ Is(t, "user") /\ frame[t].of # Main /\ frame[t].at # "jump"
    /\ Masks(t)
    /\ kind' = [kind EXCEPT ![t] = "short"]
    /\ Moves(t, "leaving")
    /\ IF sig[t].active = {}
       THEN /\ slot' = [rsp |-> stack[t], cr3 |-> root[t]]
            /\ UNCHANGED <<frame, sig>>
       ELSE /\ slot' = [rsp |-> sig[t].savedRsp, cr3 |-> root[t]]
            /\ frame' = [frame EXCEPT ![t] = sig[t].saved]
            /\ sig' = [sig EXCEPT ![t].mask = @ \ sig[t].active, ![t].active = {}]
    /\ should' = [should EXCEPT ![t] = Head(owed[t])]
    /\ owed' = [owed EXCEPT ![t] = Tail(@)]
    /\ UNCHANGED <<running, ring3Vars, kept>>

\* SYS_SIGPROCMASK: signals that it unblocks are no longer in their handlers.
Masked(t, set) == sig' = [sig EXCEPT ![t].mask = set, ![t].active = @ \cap set]

\* main changes its mask.
Sigprocmask(t, set) ==
    /\ Is(t, "user") /\ t \in Catchers /\ frame[t].of = Main
    /\ Stash(t) /\ Masks(t) /\ Moves(t, "leaving")
    /\ kind' = [kind EXCEPT ![t] = "short"]
    /\ Masked(t, set)
    /\ UNCHANGED <<running, frame, ring3Vars, kept, ghosts>>

\* siglongjmp from a handler: it gives up what the handler interrupted, restores the mask of
\* sigsetjmp with a call, and jumps when it is back from that.
Siglongjmp(t) ==
    /\ Is(t, "user") /\ frame[t].of # Main /\ frame[t].at # "jump"
    /\ Stash(t) /\ Masks(t) /\ Moves(t, "leaving")
    /\ kind' = [kind EXCEPT ![t] = "short"]
    /\ Masked(t, {})
    /\ frame' = [frame EXCEPT ![t].at = "jump"]
    /\ should' = [should EXCEPT ![t] = [@ EXCEPT !.at = "jump"]]
    /\ owed' = [owed EXCEPT ![t] = Tail(@)]
    /\ UNCHANGED <<running, ring3Vars, kept>>

Jump(t) ==
    /\ Is(t, "user") /\ frame[t].at = "jump"
    /\ frame' = [frame EXCEPT ![t] = First(t)]
    /\ stack' = [stack EXCEPT ![t] = First(t)]
    /\ should' = [should EXCEPT ![t] = First(t)]
    /\ UNCHANGED <<running, where, kind, irqOn, root, slot, kept, sig, owed>>

SyscallsNext ==
    \E t \in Programs :
       \/ Preempt(t) \/ Sleeps(t) \/ Awaken(t) \/ LooksAgain(t) \/ Done(t) \/ Restores(t)
       \/ Dispatch(t) \/ ReturnToUser(t) \/ Sigreturn(t) \/ Siglongjmp(t) \/ Jump(t)
       \/ \E k \in Kinds : Call(t, k)
       \/ \E s \in Signos : Raise(t, s) \/ Fault(t, s)
       \/ \E set \in SUBSET Signos : Sigprocmask(t, set)

SyscallsSpec == SyscallsInit /\ [][SyscallsNext]_callVars
=============================================================================
