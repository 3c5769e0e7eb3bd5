----------------------------- MODULE MCProcess -----------------------------
(* Process and its properties on small instances for TLC.                   *)
EXTENDS ProcessProps, TLC

CONSTANTS a, b, c, shell

MCUsers  == {a, b, c}
MCUsers2 == {a, b}
MCWeight == [p \in Users \cup {Shell} |-> IF p = Shell THEN 2 ELSE 1]
MCWeightOne == [p \in Users \cup {Shell} |-> 1]
UserSymmetry == Permutations(Users)
============================================================================
