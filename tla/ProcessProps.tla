---------------------------- MODULE ProcessProps ----------------------------
(* What the process table promises.                                         *)
EXTENDS Process

PcValues == {"none", "user", "ret", "dead", "stopped", "fork", "forkAppend", "wait", "collect", "waitPark", "sleep",
             "sleepHalt", "sleepStopped", "shell", "reap", "kwait", "kwaitPark", "kall",
             "kallPark", "ksleep", "spawn", "append",
             "wakeParent", "remove", "reapFree"}

TypeOK ==
    /\ slot \in [1..MaxSlots -> Procs \cup {Nil}]
    /\ count \in 0..MaxSlots
    /\ curIdx \in 1..MaxSlots
    /\ schedCur \in [Cpus -> Procs \cup {Nil}]
    /\ scan \in [Cpus -> 1..MaxSlots]
    /\ onCpu \in [Cpus -> Procs \cup {Nil}]
    /\ st \in [Procs -> States]
    /\ ppid \in [Procs -> Procs \cup {Nil}]
    /\ cpu \in [Procs -> Cpus]
    /\ quantum \in [Procs -> Nat]
    /\ waitFor \in [Procs -> Procs \cup {Nil}]
    /\ wakeAt \in [Procs -> BOOLEAN]
    /\ expired \in [Procs -> BOOLEAN]
    /\ pend \in [Procs -> SUBSET Sigs]
    /\ reported \in [Procs -> BOOLEAN]
    /\ code \in [Procs -> {"none", "exit", "killed", "signal"}]
    /\ pc \in [Procs -> PcValues]
    /\ want \in [Procs -> Procs \cup {Nil}]
    /\ opt \in [Procs -> {"none", "nohang", "untraced"}]
    /\ idx \in [Procs -> Nat] /\ num \in [Procs -> Nat]

\* get_current_process() on the BSP answers with the process that is really executing:
\* every swap-remove keeps current_idx on the running process (process.c, do_waitpid,
\* reap_zombies, reap_user_process).
KnowsItself == CurrentProcess(0) = onCpu[0]

\* The table holds every process that exists exactly once (except between the two halves
\* of the shell's own removal).
TableExact == pc[Shell] # "remove" =>
    /\ \A i, j \in 1..count : slot[i] = slot[j] => i = j
    /\ Live = {p \in Procs : st[p] \notin {"none", "freed"}}

\* A process executes on one core at a time: the two schedulers never both resume it.
OneCoreEach == \A j, k \in Cpus : onCpu[j] = onCpu[k] /\ onCpu[j] # Nil => j = k

\* No lost wake-up: a process parked in waitpid still has a child to wait for, and none
\* of the children it waits for has exited or (WUNTRACED) stopped unreported.
ParkedWaiter(p) == st[p] = "BLOCKED" /\ pc[p] = "wait"
NoLostWakeup == pc[Shell] \notin {"wakeParent", "remove"} =>
    \A p \in Users : ParkedWaiter(p) =>
        /\ \E q \in Users : Matches(p, q)
        /\ ZombieSlots(p) = {} /\ StopSlots(p) = {}

\* A process back in ring 3 is runnable: no return path leaves it BLOCKED or STOPPED,
\* which no later event would undo.
RingThreeRuns == \A p \in Users : pc[p] \in {"user", "ret"} => st[p] \in {"RUN", "ZOMBIE", "freed"}

\* A zombie stays one, with its exit status, until it is freed, and what is freed stays so:
\* no wake-up brings a dead process back.
ZombieStep ==
    \A p \in Procs : /\ st[p] = "ZOMBIE" => \/ st'[p] = "ZOMBIE" /\ code'[p] = code[p]
                                          \/ st'[p] = "freed"
                     /\ st[p] = "freed" => st'[p] = "freed"
DeadStayDead == [][ZombieStep]_vars

----------------------------------------------------------------------------
(* On one core, with no tick inside the shell's table updates, the table    *)
(* properties are parts of one inductive invariant.                         *)

SingleCore == Aps = {} /\ Preemptible = FALSE

UserPcs  == {"none", "user", "ret", "dead", "stopped", "fork", "forkAppend", "wait", "collect",
             "waitPark", "sleep", "sleepHalt", "sleepStopped"}
ShellPcs == {"shell", "spawn", "append", "wakeParent", "remove", "reap", "reapFree", "kwait",
             "kwaitPark", "kall", "kallPark", "ksleep"}

\* Exists while it has a slot; the shell always does, in the first.
Exists(p) == st[p] \notin {"none", "freed"}
Used == IF pc[Shell] = "remove" THEN num[Shell] ELSE count
SlotsExact ==
    /\ \A i \in 1..Used : slot[i] \in Procs /\ Exists(slot[i])
    /\ \A i, j \in 1..Used : slot[i] = slot[j] => i = j
    /\ \A p \in Procs : Exists(p) => \E i \in 1..Used : slot[i] = p
    /\ slot[1] = Shell

\* current_idx names the slot of what runs.
CursorExact == curIdx \in 1..count /\ slot[curIdx] = onCpu[0]

\* In these places the timer cannot take the core away.
Undisturbed == {"fork", "forkAppend", "collect", "spawn", "append", "wakeParent", "remove",
                "reap", "reapFree"}
MaskedRun == \A p \in Procs : pc[p] \in Undisturbed => onCpu[0] = p

\* What a process relies on in the middle of an update of the table.
RoomLeft ==
    /\ \A p \in Procs : pc[p] \in {"fork", "spawn"} => count < MaxSlots
    /\ \A p \in Procs : pc[p] \in {"forkAppend", "append"} => count < MaxSlots /\ num[p] = count
AboutToFree(p) ==
    /\ want[p] \in Users /\ st[want[p]] = "ZOMBIE"
    /\ idx[p] \in 2..Used /\ idx[p] # curIdx /\ slot[idx[p]] = want[p]
Choices ==
    /\ \A p \in Procs : pc[p] \in {"collect", "reapFree", "remove"} => AboutToFree(p)
    /\ pc[Shell] = "remove" => num[Shell] = count + 1 /\ num[Shell] <= MaxSlots
    /\ pc[Shell] = "wakeParent" => want[Shell] \in Users /\ st[want[Shell]] = "ZOMBIE"
    /\ pc[Shell] = "reap" => idx[Shell] >= 1

\* Where the code of a process is agrees with its state; a zombie that runs has done exiting.
PcExact ==
    /\ pc[Shell] \in ShellPcs /\ st[Shell] \in {"RUN", "BLOCKED"}
    /\ \A p \in Users : pc[p] \in UserPcs /\ (pc[p] = "none" <=> ~Exists(p))
    /\ \A p \in Users : onCpu[0] = p /\ st[p] = "ZOMBIE" => pc[p] = "dead"

IndInv == TypeOK /\ SlotsExact /\ CursorExact /\ MaskedRun /\ RoomLeft /\ Choices /\ PcExact

\* Where the code of a process is says in which states it can be: what blocks or stops it is in
\* the call that did so, and it leaves that call runnable or dead.
Fits(p) ==
    /\ pc[p] \in {"user", "ret", "fork", "forkAppend", "collect", "sleep"} =>
          st[p] \in {"RUN", "ZOMBIE"}
    /\ pc[p] \in {"wait", "waitPark", "sleepHalt"} => st[p] \in {"RUN", "BLOCKED", "ZOMBIE"}
    /\ pc[p] \in {"stopped", "sleepStopped"} => st[p] \in {"RUN", "STOPPED", "ZOMBIE"}
    /\ pc[p] = "dead" => st[p] = "ZOMBIE"
PlaceFits == \A p \in Users : Fits(p)

\* The children that p waits for, and what of them its scan would report.
Awaited(p, q)    == Exists(q) /\ ppid[q] = p /\ want[p] \in {Nil, q}
Reportable(p, q) ==
    \/ st[q] = "ZOMBIE"
    \/ opt[p] = "untraced" /\ st[q] = "STOPPED" /\ ~reported[q]

\* Who is parked in waitpid, or between its scan and there, has a child to wait for; none of
\* those has anything to report, but the one whose parent the shell is about to wake; and
\* wake_waiters will find the parked one by what it waits for.
Waits(p) == ParkedWaiter(p) \/ pc[p] = "waitPark"
Informed(p) ==
    /\ pc[p] = "waitPark" => onCpu[0] = p
    /\ ParkedWaiter(p) => waitFor[p] = want[p]
    /\ Waits(p) => opt[p] # "nohang" /\ \E q \in Users : Awaited(p, q)
    /\ \A q \in Users : Waits(p) /\ Awaited(p, q) /\ Reportable(p, q) =>
                       pc[Shell] = "wakeParent" /\ want[Shell] = q
WaitersInformed == \A p \in Users : Informed(p)

\* Only the parent collects, and the reaper takes nothing from a live parent in ring 3.
Entitled ==
    /\ \A p \in Users : pc[p] = "collect" => ppid[want[p]] = p
    /\ \A p \in Users : pc[Shell] = "reapFree" /\ ppid[want[Shell]] = p =>
                         ~Exists(p) \/ st[p] = "ZOMBIE"

WaitInv == PlaceFits /\ WaitersInformed /\ Entitled

\* The shell is not between the halves of its own removal.
NoRemoval == pc[Shell] # "remove"

----------------------------------------------------------------------------
(* The process table implements ExitStatus: no status is lost or handed out *)
(* twice between exit, waitpid, kill and the reaper.                        *)

InWaitpid(p) == pc[p] \in {"wait", "waitPark", "collect"}
Dead(p) == st[p] \in {"ZOMBIE", "freed"}

Life == [p \in Procs |-> IF st[p] = "none" THEN "unborn"
                        ELSE IF st[p] = "ZOMBIE" THEN "exited"
                        ELSE IF st[p] = "freed" THEN "gone" ELSE "live"]
Asking == [p \in Procs |-> IF p \in Users /\ InWaitpid(p) /\ ~Dead(p) THEN want[p] ELSE "no"]

\* "no" marks who asks for nobody, so it is nobody's name.
ASSUME NameAssumption == "no" \notin Procs \cup {Nil}

Promise == INSTANCE ExitStatus WITH life <- Life, owner <- ppid, status <- code, asks <- Asking

\* Every behaviour of the kernel is one that ExitStatus allows (do_waitpid, SYS_EXIT,
\* destroy_process and reap_zombies together).
ExitStatusKept == Promise!Spec

----------------------------------------------------------------------------
(* Liveness, under FairSpec.                                                *)

\* A zombie that no live ring-3 parent will collect is freed by the reaper, although the
\* reaper skips the slot that is running and the table shifts under its index.  (It is the
\* shell thread that reaps: while it sits in a `wait` command nothing is reaped.)
OrphansReaped ==
    \A p \in Users : st[p] = "ZOMBIE" /\ ~ParentCollects(p) ~> st[p] = "freed"

\* do_sleep_ms comes back: whatever else wakes or blocks the process, a sleep ends.
SleepReturns ==
    \A p \in Users : pc[p] \in {"sleep", "sleepHalt"} ~>
                       pc[p] \notin {"sleep", "sleepHalt"} \/ st[p] = "ZOMBIE"

\* waitpid collects a child that exits: the wake-up reaches the parent wherever it is
\* between its scan and its hlt.
WaitpidReturns ==
    \A p \in Users : InWaitpid(p) /\ ZombieSlots(p) # {} ~> ~InWaitpid(p)

\* Round robin starves nobody: what is runnable on the BSP gets to run.
EveryoneRuns ==
    \A p \in Users : st[p] = "RUN" /\ cpu[p] = 0 ~> Runs(p) \/ st[p] # "RUN"

\* A process parked in waitpid acts on a fatal signal (signal.c says do_kill wakes it so its
\* wait returns EINTR and delivery runs).
SignalEndsWait ==
    \A p \in Users : InWaitpid(p) /\ "KILL" \in pend[p] ~> ~InWaitpid(p)
=============================================================================
