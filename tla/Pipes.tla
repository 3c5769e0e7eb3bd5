------------------------------- MODULE Pipes --------------------------------
(***************************************************************************)
(* Pipes and the descriptors that refer to their ends: pipe, read, write,  *)
(* close, dup, dup2, what fork and exit do to them, and a reader that      *)
(* sleeps until there is something to read or nobody left to write.        *)
(* Sources: kernel/proc/pipe.c; SYS_READ, SYS_WRITE, SYS_CLOSE, SYS_PIPE,  *)
(* SYS_DUP, SYS_DUP2 and SYS_EXIT in kernel/core/syscall.c; do_fork,       *)
(* close_proc_fds, destroy_process and reap_user_process in                *)
(* kernel/proc/process.c.                                                  *)
(*                                                                         *)
(* A system call runs with interrupts masked, so it is a step, up to where *)
(* it sleeps.  Tasks have one thread each and all run on one core.  Of the *)
(* bytes in the ring only their number is kept.                            *)
(***************************************************************************)
EXTENDS Integers, FiniteSets

CONSTANTS
    Procs,         \* the tasks, in the order in which fork makes them
    NPipes,        \* MAX_PIPES
    NFds,          \* PROC_MAX_FDS
    PipeSize,      \* PIPE_BUF_SIZE
    SharedReads,   \* whether two tasks may read from one pipe at a time
    KillsParked    \* whether the shell may kill a task inside pipe_read

PipeIds == 1..NPipes
Slots   == 1..NFds
Nobody  == 0

ASSUME ProcsAssumption == Procs \subseteq Nat \ {Nobody}
ASSUME SizesAssumption == NPipes \in Nat /\ NFds \in Nat /\ PipeSize \in Nat \ {0}

Ends == [pipe : PipeIds, write : BOOLEAN]
NoFd == [pipe |-> 0, write |-> FALSE]

VARIABLES
    pstate,    \* the state of a task; "unborn" before fork and "gone" once reaped
    inRead,    \* the pipe that it is reading from, 0 when it is not in pipe_read
    fds,       \* its descriptors for pipe ends
    pipe,      \* pipes[]
    lost       \* for an end, the references of forks that failed

pipeVars == <<pstate, inRead, fds, pipe, lost>>

Unborn == {t \in Procs : pstate[t] = "unborn"}

PipeInit ==
    /\ pstate = [t \in Procs |-> IF \A u \in Procs : t <= u THEN "run" ELSE "unborn"]
    /\ inRead = [t \in Procs |-> 0]
    /\ fds = [t \in Procs |-> [s \in Slots |-> NoFd]]
    /\ pipe = [i \in PipeIds |-> [used |-> FALSE, count |-> 0, reads |-> 0, writes |-> 0,
                                  waiter |-> Nobody]]
    /\ lost = [e \in Ends |-> 0]

\* A task that makes a system call.
Calls(t) == pstate[t] = "run" /\ inRead[t] = 0

FreeSlots(t) == {s \in Slots : fds[t][s] = NoFd}

\* ufd_alloc takes the lowest.
LowestFree(t) == CHOOSE s \in FreeSlots(t) : \A r \in FreeSlots(t) : s <= r

----------------------------------------------------------------------------
(* References.                                                              *)

\* How many of the descriptors S of t refer to an end.
Refs(t, S, i, w) == Cardinality({s \in S : fds[t][s] = [pipe |-> i, write |-> w]})

\* pipe_incref for the descriptors S of t.
WithRefs(t, S) ==
    [i \in PipeIds |-> [pipe[i] EXCEPT !.reads = @ + Refs(t, S, i, FALSE),
                                       !.writes = @ + Refs(t, S, i, TRUE)]]

\* The last writer leaves pipe i when t closes S.
LastWriter(t, S, i) == Refs(t, S, i, TRUE) > 0 /\ pipe[i].writes = Refs(t, S, i, TRUE)

\* Mutant: the sleeping reader hears of the end of the file only when the pipe is freed.
WokenLate(t, S) ==
    {pipe[i].waiter : i \in {j \in PipeIds : LastWriter(t, S, j) /\ pipe[j].reads = 0}}

\* The readers that pipe_close_end wakes.
Woken(t, S) == {pipe[i].waiter : i \in {j \in PipeIds : LastWriter(t, S, j)}}

\* pipe_close_end for the descriptors S of t.
Dropped(t, S) ==
    [i \in PipeIds |->
       LET r == pipe[i].reads - Refs(t, S, i, FALSE)
           w == pipe[i].writes - Refs(t, S, i, TRUE)
       IN  [pipe[i] EXCEPT !.reads = r, !.writes = w, !.used = @ /\ (r > 0 \/ w > 0),
                           !.waiter = IF @ \in Woken(t, S) THEN Nobody ELSE @]]

Empty(t, S) == [s \in Slots |-> IF s \in S THEN NoFd ELSE fds[t][s]]

\* t closes S and is in state q afterwards.
CloseFds(t, S, q) ==
    /\ pipe' = Dropped(t, S)
    /\ fds' = [fds EXCEPT ![t] = Empty(t, S)]
    /\ pstate' = [u \in Procs |-> IF u = t THEN q
                                  ELSE IF u \in Woken(t, S) THEN "run" ELSE pstate[u]]

----------------------------------------------------------------------------
(* System calls.                                                            *)

\* SYS_PIPE: a fresh pipe; with fewer than two descriptors free it is given back.
MakePipe(t) ==
    /\ Calls(t) /\ Cardinality(FreeSlots(t)) >= 2
    /\ \E i \in PipeIds :
          /\ ~pipe[i].used /\ \A j \in PipeIds : j < i => pipe[j].used
          /\ pipe' = [pipe EXCEPT ![i] = [used |-> TRUE, count |-> 0, reads |-> 1, writes |-> 1,
                                          waiter |-> Nobody]]
          /\ LET s == LowestFree(t)
                 r == CHOOSE u \in FreeSlots(t) \ {s} : \A v \in FreeSlots(t) \ {s} : u <= v
             IN  fds' = [fds EXCEPT ![t][s] = [pipe |-> i, write |-> FALSE],
                                    ![t][r] = [pipe |-> i, write |-> TRUE]]
    /\ UNCHANGED <<pstate, inRead, lost>>

\* pipe_write of n bytes: as many as fit, and the sleeping reader is woken.
PipeWrite(t, s, n) ==
    LET i == fds[t][s].pipe
        w == IF n <= PipeSize - pipe[i].count THEN n ELSE PipeSize - pipe[i].count
    IN  /\ Calls(t) /\ fds[t][s].write
        /\ pipe[i].reads > 0 /\ w > 0
        /\ pipe' = [pipe EXCEPT ![i].count = @ + w, ![i].waiter = Nobody]
        /\ pstate' = [u \in Procs |-> IF u = pipe[i].waiter THEN "run" ELSE pstate[u]]
        /\ UNCHANGED <<inRead, fds, lost>>

\* One round of the loop in pipe_read: up to n bytes, the end of the file, or to sleep.
ReadRound(t, i, n) ==
    /\ \/ /\ pipe[i].count > 0
          /\ pipe' = [pipe EXCEPT ![i].count = IF n < @ THEN @ - n ELSE 0]
          /\ inRead' = [inRead EXCEPT ![t] = 0]
          /\ UNCHANGED pstate
       \/ /\ pipe[i].count = 0 /\ pipe[i].writes = 0
          /\ inRead' = [inRead EXCEPT ![t] = 0]
          /\ UNCHANGED <<pstate, pipe>>
       \/ /\ pipe[i].count = 0 /\ pipe[i].writes > 0
          /\ pstate' = [pstate EXCEPT ![t] = "blocked"]
          /\ inRead' = [inRead EXCEPT ![t] = i]
          /\ pipe' = [pipe EXCEPT ![i].waiter = t]
    /\ UNCHANGED <<fds, lost>>

PipeRead(t, s, n) ==
    LET i == fds[t][s].pipe
    IN  /\ Calls(t) /\ i # 0 /\ ~fds[t][s].write
        /\ SharedReads \/ \A u \in Procs : inRead[u] # i
        /\ ReadRound(t, i, n)

\* The scheduler resumes a woken reader.
Resumes(t, n) == pstate[t] = "run" /\ inRead[t] # 0 /\ ReadRound(t, inRead[t], n)

FdClose(t, s) ==
    /\ Calls(t) /\ fds[t][s] # NoFd
    /\ CloseFds(t, {s}, "run")
    /\ UNCHANGED <<inRead, lost>>

\* Mutant: dup does not count the new reference.
FdDupUncounted(t, s) ==
    /\ Calls(t) /\ fds[t][s] # NoFd /\ FreeSlots(t) # {}
    /\ fds' = [fds EXCEPT ![t][LowestFree(t)] = fds[t][s]]
    /\ UNCHANGED <<pstate, inRead, pipe, lost>>

FdDup(t, s) ==
    /\ Calls(t) /\ fds[t][s] # NoFd /\ FreeSlots(t) # {}
    /\ fds' = [fds EXCEPT ![t][LowestFree(t)] = fds[t][s]]
    /\ pipe' = WithRefs(t, {s})
    /\ UNCHANGED <<pstate, inRead, lost>>

\* dup2 closes what s held and makes it refer to what r does.
FdDup2(t, r, s) ==
    /\ Calls(t) /\ r # s /\ fds[t][r] # NoFd
    /\ fds' = [fds EXCEPT ![t][s] = fds[t][r]]
    /\ LET was == Dropped(t, {s})
       IN  pipe' = [i \in PipeIds |-> [was[i] EXCEPT !.reads = @ + Refs(t, {r}, i, FALSE),
                                                     !.writes = @ + Refs(t, {r}, i, TRUE)]]
    /\ pstate' = [u \in Procs |-> IF u \in Woken(t, {s}) THEN "run" ELSE pstate[u]]
    /\ UNCHANGED <<inRead, lost>>

----------------------------------------------------------------------------
(* Tasks.                                                                   *)

\* do_fork: the child inherits the ends, each counted.
PipeFork(t, c) ==
    /\ Calls(t) /\ c \in Unborn /\ \A u \in Unborn : c <= u
    /\ pstate' = [pstate EXCEPT ![c] = "run"]
    /\ fds' = [fds EXCEPT ![c] = fds[t]]
    /\ pipe' = WithRefs(t, Slots)
    /\ UNCHANGED <<inRead, lost>>

\* ... and counted they stay when the child's stack cannot be had; the pid is used up.
PipeForkFails(t, c) ==
    /\ Calls(t) /\ c \in Unborn /\ \A u \in Unborn : c <= u
    /\ pstate' = [pstate EXCEPT ![c] = "gone"]
    /\ pipe' = WithRefs(t, Slots)
    /\ lost' = [e \in Ends |-> lost[e] + Refs(t, Slots, e.pipe, e.write)]
    /\ UNCHANGED <<inRead, fds>>

\* SYS_EXIT.
TaskExit(t) ==
    /\ Calls(t)
    /\ CloseFds(t, Slots, "zombie")
    /\ UNCHANGED <<inRead, lost>>

\* do_kill wakes a task that sleeps; pipe_read does not ask why.
Signalled(t) ==
    /\ pstate[t] = "blocked"
    /\ pstate' = [pstate EXCEPT ![t] = "run"]
    /\ UNCHANGED <<inRead, fds, pipe, lost>>

\* destroy_process, from the shell, or signal_terminate: the descriptors stay open for now.
TaskKill(t) ==
    /\ pstate[t] \in {"run", "blocked"}
    /\ inRead[t] # 0 => KillsParked
    /\ pstate' = [pstate EXCEPT ![t] = "zombie"]
    /\ UNCHANGED <<inRead, fds, pipe, lost>>

\* reap_user_process.
TaskReap(t) ==
    /\ pstate[t] = "zombie"
    /\ CloseFds(t, Slots, "gone")
    /\ inRead' = [inRead EXCEPT ![t] = 0]
    /\ UNCHANGED lost

PipeNext ==
    \E t \in Procs :
       \/ MakePipe(t) \/ TaskExit(t) \/ Signalled(t) \/ TaskKill(t) \/ TaskReap(t)
       \/ \E s \in Slots :
             \/ FdClose(t, s) \/ FdDup(t, s)
             \/ \E r \in Slots : FdDup2(t, r, s)
             \/ \E n \in 1..PipeSize : PipeWrite(t, s, n) \/ PipeRead(t, s, n)
       \/ \E n \in 1..PipeSize : Resumes(t, n)
       \/ \E c \in Procs : PipeFork(t, c) \/ PipeForkFails(t, c)

PipeSpec == PipeInit /\ [][PipeNext]_pipeVars
=============================================================================
