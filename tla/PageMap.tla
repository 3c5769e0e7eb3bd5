------------------------------ MODULE PageMap -------------------------------
(***************************************************************************)
(* What mmap, munmap and mprotect promise: a protection for each page of an*)
(* address space.  Unmapping or protecting a range changes the pages of    *)
(* that range and no other, and a page is never handed out twice.          *)
(***************************************************************************)
EXTENDS Integers

CONSTANTS Spaces, NPages, Prots

Pages    == 0..(NPages - 1)
Unmapped == "unmapped"
Empty    == [g \in Pages |-> Unmapped]

VARIABLES
    map,     \* the protection of a page of a space
    asked    \* the call: op on the pages of [from, to) of a space

MapInit == map = [s \in Spaces |-> Empty]

\* The space of the call becomes f, the others stay.
Becomes(new, f) == new = [map EXCEPT ![asked'.space] = f]

\* The pages of the range of the call get the protection.
Covered(was, prot) ==
    [g \in Pages |-> IF asked'.from <= g /\ g < asked'.to THEN prot ELSE was[g]]

\* A range is reserved where nothing is mapped.
Reserve(was, new) ==
    /\ asked'.op = "mmap"
    /\ \A g \in asked'.from..(asked'.to - 1) : was[g] = Unmapped
    /\ Becomes(new, Covered(was, asked'.prot))

Release(was, new) ==
    /\ asked'.op \in {"munmap", "free"}
    /\ Becomes(new, Covered(was, Unmapped))

Protect(was, new) ==
    /\ asked'.op = "mprotect"
    /\ Becomes(new, [g \in Pages |-> IF was[g] = Unmapped THEN Unmapped
                                     ELSE Covered(was, asked'.prot)[g]])

Duplicate(new) ==
    /\ asked'.op = "copy"
    /\ Becomes(new, map[asked'.from])

MapNext ==
    LET new == map'
        was == map[asked'.space]
    IN  \/ Reserve(was, new) \/ Release(was, new) \/ Protect(was, new)
        \/ Duplicate(new)
        \/ asked'.op = "none" /\ new = map

MapSpec == MapInit /\ [][MapNext]_<<map, asked>>
=============================================================================
