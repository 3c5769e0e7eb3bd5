----------------------------- MODULE PipesProps -----------------------------
(***************************************************************************)
(* What pipes have to guarantee.                                           *)
(***************************************************************************)
EXTENDS Pipes

\* The types of the variables.
PipesTypeOK ==
    /\ pstate \in [Procs -> {"unborn", "run", "blocked", "zombie", "gone"}]
    /\ inRead \in [Procs -> PipeIds \cup {0}]
    /\ fds \in [Procs -> [Slots -> Ends \cup {NoFd}]]
    /\ pipe \in [PipeIds -> [used : BOOLEAN, count : 0..PipeSize, reads : Nat, writes : Nat,
                             waiter : Procs \cup {Nobody}]]
    /\ lost \in [Ends -> Nat]

\* Those who hold the end w of pipe i, by task and slot.
Holders(i, w) == {h \in Procs \X Slots : fds[h[1]][h[2]] = [pipe |-> i, write |-> w]}

\* The counts of a pipe are the number of descriptors that refer to its ends, over pipe, dup, dup2,
\* fork, close, exit, kill and reap, plus what failed forks left behind; a pipe is free exactly
\* when both are zero, so no descriptor refers to a slot that pipe_new may hand out.
RefsExact ==
    \A i \in PipeIds :
       /\ pipe[i].reads = Cardinality(Holders(i, FALSE)) + lost[[pipe |-> i, write |-> FALSE]]
       /\ pipe[i].writes = Cardinality(Holders(i, TRUE)) + lost[[pipe |-> i, write |-> TRUE]]
       /\ pipe[i].used <=> pipe[i].reads + pipe[i].writes > 0

\* A reader never sleeps through what it waits for: while it sleeps the pipe is empty, there is
\* still a reference that can write, and the pipe knows whom to wake.
SleeperIsRemembered ==
    \A t \in Procs :
       pstate[t] = "blocked" =>
       LET p == pipe[inRead[t]] IN p.count = 0 /\ p.writes > 0 /\ p.waiter = t

\* The task that a pipe will wake is in a read of that pipe, asleep or about to look again: waking
\* it never makes a task run that has exited, was freed, or waits for something else.
WaiterReads ==
    \A i \in PipeIds :
       pipe[i].waiter # Nobody
       => pstate[pipe[i].waiter] \in {"blocked", "run"} /\ inRead[pipe[i].waiter] = i

\* Both: a pipe and the task that sleeps in a read of it agree, so that every wake-up reaches the
\* reader and nobody else.
WakesItsReader == SleeperIsRemembered /\ WaiterReads
=============================================================================
