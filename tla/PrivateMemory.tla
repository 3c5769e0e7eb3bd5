---------------------------- MODULE PrivateMemory ----------------------------
(***************************************************************************)
(* What demand paging and copy-on-write promise: every process has memory  *)
(* of its own.  A fresh page reads as zero, fork gives the child the       *)
(* parent's contents, and from then on nobody but the owner changes it.    *)
(* The specification that AddressSpace implements.                         *)
(***************************************************************************)
CONSTANTS Spaces, Pages, Values, Zero

VARIABLES
    exists,   \* the processes that have an address space
    mem       \* what each reads in each page

vars == <<exists, mem>>

Blank == [v \in Pages |-> Zero]

Init == exists = {} /\ mem = [p \in Spaces |-> Blank]

Spawn(q) ==
    /\ q \notin exists
    /\ exists' = exists \cup {q}
    /\ UNCHANGED mem

Fork(p, q) ==
    /\ p \in exists /\ q \notin exists
    /\ exists' = exists \cup {q}
    /\ mem' = [mem EXCEPT ![q] = mem[p]]

Write(p, v, x) ==
    /\ p \in exists
    /\ mem' = [mem EXCEPT ![p][v] = x]
    /\ UNCHANGED exists

Unmap(p, v) == Write(p, v, Zero)

Exit(p) ==
    /\ p \in exists
    /\ exists' = exists \ {p}
    /\ mem' = [mem EXCEPT ![p] = Blank]

Next ==
    \/ \E p \in Spaces : Spawn(p) \/ Exit(p)
    \/ \E p, q \in Spaces : Fork(p, q)
    \/ \E p \in Spaces, v \in Pages, x \in Values : Write(p, v, x)
    \/ \E p \in Spaces, v \in Pages : Unmap(p, v)

Spec == Init /\ [][Next]_vars
=============================================================================
