--------------------------- MODULE MCAddressSpace ---------------------------
(* AddressSpace on small instances for TLC.                                 *)
EXTENDS AddressSpaceProps, TLC

CONSTANTS a, b, c

MCSpaces  == {a, b, c}
MCSpaces2 == {a, b}

\* What is left in a frame that no entry maps and no fault holds is never read before it is
\* overwritten.
Read(f) == \/ \E p \in Spaces, v \in Pages : pte[p][v].frame = f
           \/ \E p \in Spaces : hold[p] = f /\ ~At(p, "cowCopy")

\* All there is to a frame but its number: alloc_page takes the lowest that is free, and
\* nothing else depends on the numbers of the frames.
FrameFacts(f) ==
    [pinned |-> f \in Libc, free |-> f \in free, ref |-> ref[f],
     content |-> IF Read(f) THEN content[f] ELSE Zero,
     leaves |-> {<<p, v>> \in Spaces \X Pages : pte[p][v].frame = f},
     tables |-> {p \in Spaces : tab[p] = f}, roots |-> {p \in Spaces : root[p] = f},
     held |-> {p \in Spaces : hold[p] = f}]

\* States that differ in the numbers of the frames only, or in what is never read, count as one.
StateView ==
    LET Facts == {FrameFacts(f) : f \in Frames}
    IN  <<[x \in Facts |-> Cardinality({f \in Frames : FrameFacts(f) = x})],
          [p \in Spaces |-> [v \in Pages |-> [w |-> pte[p][v].w, cow |-> pte[p][v].cow]]],
          prot, pc, page, child>>

SpaceSymmetry == Permutations(Spaces)
=============================================================================
