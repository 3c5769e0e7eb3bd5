---------------------------- MODULE SyscallsProps ----------------------------
(***************************************************************************)
(* What a task may rely on when it comes back to ring 3.                   *)
(***************************************************************************)
EXTENDS Syscalls

Slots3 == [rsp : Contexts, cr3 : Programs]

\* The types of the variables.
SyscallsTypeOK ==
    /\ running \in Programs
    /\ where \in [Programs -> {"user", "call", "asleep", "woken", "done", "leaving", "out"}]
    /\ kind \in [Programs -> CallKinds]
    /\ irqOn \in [Programs -> BOOLEAN]
    /\ frame \in [Programs -> Contexts] /\ stack \in [Programs -> Contexts]
    /\ root \in [Programs -> Programs]
    /\ slot \in Slots3 /\ kept \in [Programs -> Slots3]
    /\ sig \in [Programs -> [pending : SUBSET Signos, mask : SUBSET Signos, active : SUBSET Signos,
                             saved : Contexts, savedRsp : Contexts]]

\* Whoever made calls in the meantime, and whatever handlers it went through, a task is back in
\* ring 3 in the context it should be in: with its registers, on its stack, in its address space.
ReturnsToItself ==
    \A t \in Programs :
       where[t] = "user" => frame[t] = should[t] /\ stack[t] = Stack(should[t]) /\ root[t] = t
=============================================================================
