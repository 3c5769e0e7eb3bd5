----------------------------- MODULE ExitStatus -----------------------------
(***************************************************************************)
(* What fork, exit and waitpid promise, and nothing about how: every exit  *)
(* status is kept until the parent that is alive to ask for it collects it,*)
(* exactly once; only a status nobody can ask for is dropped.  waitpid     *)
(* answers "no such child, or none ready" only when no child it could      *)
(* collect has exited.  The specification that the process table           *)
(* implements (comments of do_waitpid and reap_zombies, process.c).        *)
(***************************************************************************)
CONSTANTS Users, Shell, Nil

Procs == Users \cup {Shell}

VARIABLES
    life,    \* "unborn", "live", "exited" or "gone"
    owner,   \* the parent
    status,  \* why it ended
    asks     \* what a process waits for in waitpid: "no", a child, or Nil for any child

vars == <<life, owner, status, asks>>

MayCollect(p, q) == life[q] = "exited" /\ owner[q] = p /\ asks[p] \in {q, Nil}

Init ==
    /\ life = [p \in Procs |-> IF p = Shell THEN "live" ELSE "unborn"]
    /\ owner = [p \in Procs |-> Nil]
    /\ status = [p \in Procs |-> "none"]
    /\ asks = [p \in Procs |-> "no"]

Born(q) ==
    /\ life[q] = "unborn"
    /\ \E p \in Procs : life[p] = "live" /\ owner' = [owner EXCEPT ![q] = p]
    /\ life' = [life EXCEPT ![q] = "live"]
    /\ UNCHANGED <<status, asks>>

\* p exits, is killed, or dies of a signal; it stops asking.
Ends(p) ==
    /\ p # Shell /\ life[p] = "live"
    /\ life' = [life EXCEPT ![p] = "exited"]
    /\ \E why \in {"exit", "killed", "signal"} : status' = [status EXCEPT ![p] = why]
    /\ asks' = [asks EXCEPT ![p] = "no"]
    /\ UNCHANGED owner

Asks(p) ==
    /\ life[p] = "live" /\ asks[p] = "no"
    /\ \E w \in Users \cup {Nil} : asks' = [asks EXCEPT ![p] = w]
    /\ UNCHANGED <<life, owner, status>>

\* waitpid settles on one of the children that have exited.
Settles(p, q) ==
    /\ MayCollect(p, q)
    /\ asks' = [asks EXCEPT ![p] = q]
    /\ UNCHANGED <<life, owner, status>>

\* waitpid without an exit status: -1, 0, or a stop.
Refuses(p) ==
    /\ asks[p] # "no"
    /\ \A q \in Users : ~MayCollect(p, q)
    /\ asks' = [asks EXCEPT ![p] = "no"]
    /\ UNCHANGED <<life, owner, status>>

Vanishes(q) ==
    /\ life' = [life EXCEPT ![q] = "gone"]
    /\ owner' = [owner EXCEPT ![q] = Nil]
    /\ status' = [status EXCEPT ![q] = "none"]

Collects(p, q) ==
    /\ life[p] = "live" /\ MayCollect(p, q) /\ asks[p] = q
    /\ Vanishes(q)
    /\ asks' = [asks EXCEPT ![p] = "no"]

\* Dropped unread: the parent is the kernel, or has itself ended.
Discards(q) ==
    /\ life[q] = "exited"
    /\ owner[q] \notin Users \/ life[owner[q]] # "live"
    /\ Vanishes(q)
    /\ UNCHANGED asks

Next ==
    \/ \E q \in Users : Born(q) \/ Ends(q) \/ Asks(q) \/ Refuses(q) \/ Discards(q)
    \/ \E p, q \in Users : Settles(p, q) \/ Collects(p, q)

Spec == Init /\ [][Next]_vars
=============================================================================
