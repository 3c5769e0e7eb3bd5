----------------------------- MODULE Namespace ------------------------------
(***************************************************************************)
(* What a file system promises about names: at any time, and so after a    *)
(* crash, a tree of files with a size and directories, of which each       *)
(* operation changes one place, and only a directory that is empty goes.   *)
(* TreeTorn is the worst that a crash may do to it.                        *)
(***************************************************************************)
EXTENDS Integers, Sequences

CONSTANTS Names, MaxSize

Paths   == {<<a>> : a \in Names} \cup {<<a, b>> : a, b \in Names}
Absent  == [kind |-> "none", size |-> 0]
Folder  == [kind |-> "dir", size |-> 0]
File(s) == [kind |-> "file", size |-> s]

VARIABLE tree    \* what is at a path

Below(path) == {q \in Paths : Len(q) > Len(path) /\ q[1] = path[1]}

\* In each, was becomes new.
Make(was, new, path, what) ==
    /\ was[path] = Absent
    /\ Len(path) = 2 => was[<<path[1]>>] = Folder
    /\ new = [was EXCEPT ![path] = what]

Drop(was, new, path) ==
    /\ \A q \in Below(path) : was[q] = Absent
    /\ new = [was EXCEPT ![path] = Absent]

Resize(was, new, path, size) ==
    /\ was[path].kind = "file"
    /\ new = [was EXCEPT ![path] = File(size)]

Lose(was, new, gone) ==
    new = [q \in Paths |-> IF \E g \in gone : q = g \/ q \in Below(g) THEN Absent ELSE was[q]]

TreeInit == tree = [path \in Paths |-> Absent]

TreeNext ==
    LET was == tree
        new == tree'
    IN  \E path \in Paths :
           /\ new[path] # was[path]
           /\ \/ Make(was, new, path, Folder) \/ Make(was, new, path, File(0))
              \/ Drop(was, new, path)
              \/ \E size \in 0..MaxSize : Resize(was, new, path, size)

\* Names of one directory are gone.
TreeTorn ==
    \E dir \in {<<>>} \cup {<<a>> : a \in Names}, names \in SUBSET Names :
       Lose(tree, tree', {Append(dir, n) : n \in names})

TreeSpec == TreeInit /\ [][TreeNext]_tree
=============================================================================
