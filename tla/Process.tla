------------------------------ MODULE Process ------------------------------
(***************************************************************************)
(* The process table of the kernel and everything that moves a process     *)
(* between its states: the BSP and AP schedulers, fork, exit, the blocking *)
(* waits (waitpid, kwait, kwait_all, sleep), the wake-ups that end them,   *)
(* job-control signals, the `kill` shell command and the reaper.           *)
(* Sources: kernel/proc/process.c, kernel/proc/signal.c, the SYS_EXIT and  *)
(* sleep parts of kernel/core/syscall.c, kernel/core/timer.c, and the AP   *)
(* scheduler of kernel/core/smp.c.                                         *)
(*                                                                         *)
(* A step is a stretch of kernel code that runs with interrupts masked, so *)
(* on one core nothing can come between its statements.  Where the code    *)
(* lets another core (or, for the shell thread, the timer) in between two  *)
(* statements, the stretch is split and the place is a program counter.    *)
(***************************************************************************)
EXTENDS Integers, FiniteSets

CONSTANTS
    Users,       \* process_t's that ring-3 processes can get; each is used once
    Shell,       \* the compositor thread, a kernel thread on the BSP; `init` and `idle`, which
                 \* sit in slots of their own and are never scheduled, are left out
    Nil,         \* the NULL process_t, and pid 0
    Aps,         \* application processors; the BSP is CPU 0
    MaxSlots,    \* MAX_PROCESSES
    Weight,      \* sched_weight of every process
    Sigs,        \* the signals that are sent, out of {"KILL", "CONT", "STOP"}
    ShellDoes,   \* the commands typed at the shell
    Preemptible  \* can a tick land inside the shell's table updates?

ASSUME NilAssumption   == Nil \notin Users \cup {Shell} /\ Shell \notin Users
ASSUME CpuAssumption   == Aps \subseteq Nat \ {0} /\ IsFiniteSet(Aps)
ASSUME SlotAssumption  == MaxSlots \in Nat \ {0}
ASSUME WeightAssumption == Weight \in [Users \cup {Shell} -> Nat \ {0}]
ASSUME SigAssumption   == Sigs \subseteq {"KILL", "CONT", "STOP"}
ASSUME PreemptAssumption == Preemptible \in BOOLEAN

Procs == Users \cup {Shell}
Cpus  == Aps \cup {0}
States == {"none", "RUN", "ZOMBIE", "BLOCKED", "STOPPED", "freed"}

VARIABLES
    slot,      \* process_table[0 .. MAX_PROCESSES-1], counted from 1 here
    count,     \* process_count
    curIdx,    \* current_idx: the BSP's scan cursor, which is also how it knows who runs
    schedCur,  \* cpu_info[c].sched_cur
    scan,      \* cpu_info[c].sched_scan of an AP
    onCpu,     \* whose kernel or user context CPU c really executes (Nil: its idle loop)
    st,        \* p->state; "none" before it exists, "freed" after kfree
    ppid,      \* p->ppid
    cpu,       \* p->sched_cpu
    quantum,   \* p->sched_quantum
    waitFor,   \* p->waiting_for
    wakeAt,    \* p->wake_tick # 0
    expired,   \* has the deadline of p's current sleep passed?
    pend,      \* p->sig_pending
    reported,  \* p->stopped_reported
    code,      \* p->exit_code
    pc,        \* where p's own code is
    want,      \* the wpid / pid argument of p's wait (Nil: any child)
    opt,       \* the options argument of p's waitpid
    idx,       \* an index into process_table that p's code holds
    num        \* the process_count that p's code loaded

tableVars == <<slot, count, curIdx>>
cpuVars   == <<schedCur, scan, onCpu>>
waitVars  == <<waitFor, wakeAt, expired>>
argVars   == <<want, opt, idx, num>>
vars == <<tableVars, cpuVars, st, ppid, cpu, quantum, waitVars, pend, reported,
          code, pc, argVars>>

----------------------------------------------------------------------------
(* Looking processes up.                                                    *)

Lowest(S)  == {i \in S : \A j \in S : i <= j}
Highest(S) == {i \in S : \A j \in S : j <= i}

Live == {slot[i] : i \in 1..count} \ {Nil}   \* what a scan of the table finds
Found(p) == p \in Live                       \* find_process(pid) # NULL

\* get_current_process(), as CPU c answers it.
CurrentProcess(c) ==
    IF c # 0 THEN schedCur[c]
    ELSE IF curIdx \in 1..count THEN slot[curIdx] ELSE Nil

\* p's own code executes on some CPU.
Runs(p) == \E c \in Cpus : onCpu[c] = p

----------------------------------------------------------------------------
(* Wake-ups.  Each returns the new states; every caller assigns st'.        *)

\* Mutant: only a parent waiting for this very child is woken.
WakesExactWaiter(child) ==
    /\ Found(ppid[child])
    /\ st[ppid[child]] = "BLOCKED"
    /\ waitFor[ppid[child]] = child

\* wake_waiters: does this exit or stop end the wait of the child's parent?
WakesParent(child) ==
    /\ Found(ppid[child])
    /\ st[ppid[child]] = "BLOCKED"
    /\ waitFor[ppid[child]] \in {child, Nil}

\* child enters state s (a zombie or stopped) and wakes its parent.
EnterAndWake(child, s) ==
    /\ st' = [p \in Procs |-> IF p = child THEN s
                              ELSE IF p = ppid[child] /\ WakesParent(child) THEN "RUN"
                              ELSE st[p]]
    /\ waitFor' = [p \in Procs |-> IF p = ppid[child] /\ p # child /\ WakesParent(child)
                                   THEN Nil ELSE waitFor[p]]

\* Mutant: SIGCONT and the wake-up do not look at the state they change.
RaiseAnything(p, sig) ==
    /\ pend' = [pend EXCEPT ![p] = IF p = Shell THEN {} ELSE @ \cup {sig}]
    /\ st' = [st EXCEPT ![p] = "RUN"]
    /\ waitFor' = [waitFor EXCEPT ![p] = Nil]
    /\ wakeAt' = [wakeAt EXCEPT ![p] = FALSE]

\* signal_raise: post sig to p, resuming it from a stop or out of a block.  The shell is a
\* kernel thread: it never looks at its pending signals, and they are not recorded here.
Raise(p, sig) ==
    /\ pend' = [pend EXCEPT ![p] = IF p = Shell THEN {} ELSE @ \cup {sig}]
    /\ st' = [st EXCEPT ![p] = IF \/ @ = "BLOCKED"
                                  \/ @ = "STOPPED" /\ sig = "CONT" THEN "RUN" ELSE @]
    /\ waitFor' = [waitFor EXCEPT ![p] = IF st[p] = "BLOCKED" THEN Nil ELSE @]
    /\ wakeAt' = [wakeAt EXCEPT ![p] = IF st[p] = "BLOCKED" THEN FALSE ELSE @]

----------------------------------------------------------------------------
(* Schedulers.                                                              *)

\* The timer is held off while the code on c has interrupts masked.
IrqOff(p) ==
    pc[p] \in {"fork", "forkAppend", "collect", "waitPark", "kwaitPark", "kallPark"}
              \cup (IF Preemptible THEN {} ELSE {"spawn", "append", "wakeParent", "remove"})

\* Mutant: the scheduler forgets that processes are pinned to a core.
ReadyAnywhere(c, s) == {i \in 1..count : slot[i] # Nil /\ s[slot[i]] = "RUN"}

\* Slots whose process CPU c may run when the process states are s, and the one of them
\* that round-robin order reaches first after `from`.
Ready(c, s) == {i \in 1..count : slot[i] # Nil /\ s[slot[i]] = "RUN" /\ cpu[slot[i]] = c}
After(from, i) == (i - from - 1) % count

\* Mutant: every scan starts at slot 0.
PickFirst(c, from, s) == Lowest(Ready(c, s))

Pick(c, from, s) == {i \in Ready(c, s) : \A j \in Ready(c, s) : After(from, i) <= After(from, j)}

\* In a sleep whose deadline the clock has not reached.
Sleeping == {p \in Live : pc[p] \in {"sleep", "sleepHalt", "sleepStopped", "ksleep"} /\ ~expired[p]}

\* Mutant: the turn ends only on the tick that finds one tick left; a process that was never
\* given a turn (the shell at boot) counts down from 0.
RescheduleAtOne(cur, s) ==
    \/ /\ s[cur] = "RUN" /\ quantum[cur] # 1
       /\ quantum' = [quantum EXCEPT ![cur] = @ - 1]
       /\ UNCHANGED <<curIdx, schedCur, onCpu>>
    \/ /\ ~(s[cur] = "RUN" /\ quantum[cur] # 1)
       /\ \E next \in Pick(0, curIdx, s) :
             /\ curIdx' = next
             /\ schedCur' = [schedCur EXCEPT ![0] = slot[next]]
             /\ onCpu' = [onCpu EXCEPT ![0] = slot[next]]
             /\ quantum' = [quantum EXCEPT ![slot[next]] = Weight[slot[next]]]

\* The second half of irq_scheduler_tick: cur goes on while its quantum lasts, then the
\* next process in turn gets the core; cur itself, if there is no other.
Reschedule(cur, s) ==
    \/ /\ s[cur] = "RUN" /\ quantum[cur] > 1
       /\ quantum' = [quantum EXCEPT ![cur] = @ - 1]
       /\ UNCHANGED <<curIdx, schedCur, onCpu>>
    \/ /\ ~(s[cur] = "RUN" /\ quantum[cur] > 1)
       /\ \E next \in Pick(0, curIdx, s) :
             /\ curIdx' = next
             /\ schedCur' = [schedCur EXCEPT ![0] = slot[next]]
             /\ onCpu' = [onCpu EXCEPT ![0] = slot[next]]
             /\ quantum' = [quantum EXCEPT ![slot[next]] = Weight[slot[next]]]
    \/ /\ ~(s[cur] = "RUN" /\ quantum[cur] > 1)
       /\ Ready(0, s) = {}
       /\ quantum' = [quantum EXCEPT ![cur] = IF s[cur] = "RUN" THEN Weight[cur] ELSE @]
       /\ UNCHANGED <<curIdx, schedCur, onCpu>>

\* An interrupt on the BSP: irq_handler, then irq_scheduler_tick.  The clock passes the
\* deadlines of the processes in late (none, when it is not the timer that interrupts);
\* every sleeper that is late is woken, then the next process is picked.
TickBsp(late) ==
    /\ ~IrqOff(onCpu[0])
    /\ late \subseteq Sleeping
    /\ expired' = [p \in Procs |-> expired[p] \/ p \in late]
    /\ LET due(p) == p \in Live /\ st[p] = "BLOCKED" /\ wakeAt[p] /\ expired'[p]
           awake == [p \in Procs |-> IF due(p) THEN "RUN" ELSE st[p]]
           cur == CurrentProcess(0)
       IN  /\ st' = awake
           /\ wakeAt' = [p \in Procs |-> wakeAt[p] /\ ~due(p)]
           /\ \/ /\ cur = Nil \/ pc[Shell] \in {"reap", "reapFree"}
                 /\ UNCHANGED <<curIdx, schedCur, onCpu, quantum>>
              \/ /\ cur # Nil /\ pc[Shell] \notin {"reap", "reapFree"}
                 /\ Reschedule(cur, awake)
    /\ UNCHANGED <<slot, count, scan, ppid, cpu, waitFor, pend, reported, code, pc, argVars>>

\* ap_scheduler_tick, on application processor c.
TickAp(c) ==
    /\ onCpu[c] # Nil => ~IrqOff(onCpu[c])
    /\ \/ \E next \in Pick(c, scan[c], st) :
             /\ scan' = [scan EXCEPT ![c] = next]
             /\ schedCur' = [schedCur EXCEPT ![c] = slot[next]]
             /\ onCpu' = [onCpu EXCEPT ![c] = slot[next]]
       \/ /\ Ready(c, st) = {}
          /\ schedCur' = [schedCur EXCEPT ![c] = Nil]
          /\ onCpu' = [onCpu EXCEPT ![c] = Nil]
          /\ UNCHANGED scan
    /\ UNCHANGED <<tableVars, st, ppid, cpu, quantum, waitVars, pend, reported, code,
                   pc, argVars>>

----------------------------------------------------------------------------
(* Leaving the table.                                                       *)

\* process_table[i] = process_table[last]; process_table[last] = NULL.
SwapRemove(i, last) == [slot EXCEPT ![i] = slot[last], ![last] = Nil]

\* sched_forget: no core keeps a pointer to p.
Forget(p) == [c \in Cpus |-> IF schedCur[c] = p THEN Nil ELSE schedCur[c]]

\* kfree: nothing of p is left; the freeing process goes on at where.
Release(p, self, where) ==
    /\ st' = [st EXCEPT ![p] = "freed"]
    /\ pc' = [pc EXCEPT ![p] = "none", ![self] = where]
    /\ ppid' = [ppid EXCEPT ![p] = Nil]
    /\ quantum' = [quantum EXCEPT ![p] = 0]
    /\ waitFor' = [waitFor EXCEPT ![p] = Nil]
    /\ wakeAt' = [wakeAt EXCEPT ![p] = FALSE]
    /\ expired' = [expired EXCEPT ![p] = FALSE]
    /\ pend' = [pend EXCEPT ![p] = {}]
    /\ reported' = [reported EXCEPT ![p] = FALSE]
    /\ code' = [code EXCEPT ![p] = "none"]
    /\ want' = [want EXCEPT ![p] = Nil, ![self] = Nil]
    /\ opt' = [opt EXCEPT ![p] = "none", ![self] = "none"]
    /\ num' = [num EXCEPT ![p] = 0, ![self] = 0]

\* Mutant: the process that was last in the table is moved and current_idx is not.
TakeOutBlindly(i) ==
    /\ slot' = SwapRemove(i, count)
    /\ count' = count - 1
    /\ UNCHANGED curIdx

\* Mutant: the hole is left in the middle of the table.
TakeOutLast(i) ==
    /\ slot' = [slot EXCEPT ![count] = Nil]
    /\ curIdx' = curIdx
    /\ count' = count - 1

\* What do_waitpid and reap_zombies do to the table to take out the entry at i.
TakeOut(i) ==
    /\ slot' = SwapRemove(i, count)
    /\ curIdx' = IF curIdx = count THEN i ELSE curIdx
    /\ count' = count - 1

\* process_table[process_count++] = child, the second half: n is the count that was loaded.
\* The new process belongs to p and is pinned to core c.
Append(p, child, n, c, where) ==
    /\ slot' = [slot EXCEPT ![n + 1] = child]
    /\ count' = n + 1
    /\ st' = [st EXCEPT ![child] = "RUN"]
    /\ ppid' = [ppid EXCEPT ![child] = p]
    /\ cpu' = [cpu EXCEPT ![child] = c]
    /\ pc' = [pc EXCEPT ![p] = where, ![child] = "user"]
    /\ num' = [num EXCEPT ![p] = 0]
    /\ UNCHANGED <<curIdx, cpuVars, quantum, waitVars, pend, reported, code, want, opt, idx>>

Matches(p, child) ==
    /\ Found(child) /\ ppid[child] = p
    /\ want[p] \in {Nil, child}

\* Slots of p's matching children that do_waitpid's scan would stop or note.
ZombieSlots(p) ==
    {i \in 1..count : Matches(p, slot[i]) /\ st[slot[i]] = "ZOMBIE"}
StopSlots(p) ==
    {i \in 1..count : /\ Matches(p, slot[i]) /\ opt[p] = "untraced"
                      /\ st[slot[i]] = "STOPPED" /\ ~reported[slot[i]]}

----------------------------------------------------------------------------
(* What a ring-3 process does.                                              *)

Goto(p, where) == pc' = [pc EXCEPT ![p] = where]

\* Returning from a wait: its arguments are gone.
LeaveCall(p, where) ==
    /\ Goto(p, where)
    /\ want' = [want EXCEPT ![p] = Nil]
    /\ opt' = [opt EXCEPT ![p] = "none"]

At(p, where) == Runs(p) /\ pc[p] = where

\* SYS_FORK: check the limit, build the child, append it.  The child goes to the BSP,
\* whatever core the parent is on.
Fork(p) ==
    /\ At(p, "user")
    /\ count < MaxSlots
    /\ \E child \in Users : st[child] = "none"
    /\ Goto(p, "fork")
    /\ UNCHANGED <<tableVars, cpuVars, st, ppid, cpu, quantum, waitVars, pend, reported,
                   code, argVars>>

ForkLoad(p) ==
    /\ At(p, "fork")
    /\ num' = [num EXCEPT ![p] = count]
    /\ Goto(p, "forkAppend")
    /\ UNCHANGED <<tableVars, cpuVars, st, ppid, cpu, quantum, waitVars, pend, reported,
                   code, want, opt, idx>>

ForkStore(p, child) ==
    /\ At(p, "forkAppend")
    /\ st[child] = "none"
    /\ Append(p, child, num[p], 0, "ret")

\* SYS_EXIT (a ring-3 fault nobody handles ends the same way): zombie, wake the
\* parent, then halt for ever.
Exit(p) ==
    /\ At(p, "user")
    /\ EnterAndWake(p, "ZOMBIE")
    /\ code' = [code EXCEPT ![p] = "exit"]
    /\ Goto(p, "dead")
    /\ UNCHANGED <<tableVars, cpuVars, ppid, cpu, quantum, wakeAt, expired, pend, reported,
                   argVars>>

\* SYS_KILL by a process, or do_kill by the shell.
Kill(p, q, sig) ==
    /\ p = Shell => "signal" \in ShellDoes
    /\ At(p, IF p = Shell THEN "shell" ELSE "user")
    /\ Found(q)
    /\ Raise(q, sig)
    /\ Goto(p, IF p = Shell THEN "shell" ELSE "ret")
    /\ UNCHANGED <<tableVars, cpuVars, ppid, cpu, quantum, expired, reported, code, argVars>>

\* Any other system call: it matters only because signals are delivered on return.
OtherSyscall(p) ==
    /\ At(p, "user") /\ pend[p] # {}
    /\ Goto(p, "ret")
    /\ UNCHANGED <<tableVars, cpuVars, st, ppid, cpu, quantum, waitVars, pend, reported,
                   code, argVars>>

\* Entering waitpid(w, o): w = Nil stands for wpid <= 0.
CallWaitpid(p, w, o) ==
    /\ At(p, "user")
    /\ want' = [want EXCEPT ![p] = w]
    /\ opt' = [opt EXCEPT ![p] = o]
    /\ Goto(p, "wait")
    /\ UNCHANGED <<tableVars, cpuVars, st, ppid, cpu, quantum, waitVars, pend, reported,
                   code, idx, num>>

\* One pass of do_waitpid's scan that finds an exited child.
WaitFound(p) ==
    /\ At(p, "wait")
    /\ \E zi \in Lowest(ZombieSlots(p)) :
          /\ idx' = [idx EXCEPT ![p] = zi]
          /\ want' = [want EXCEPT ![p] = slot[zi]]
    /\ Goto(p, "collect")
    /\ UNCHANGED <<tableVars, cpuVars, st, ppid, cpu, quantum, waitVars, pend, reported,
                   code, opt, num>>

\* Collecting the child (want[p] by now): its slot goes, then the process_t.
WaitReap(p) ==
    /\ At(p, "collect")
    /\ TakeOut(idx[p])
    /\ Release(want[p], p, "ret")
    /\ idx' = [idx EXCEPT ![p] = 0]
    /\ UNCHANGED <<cpuVars, cpu>>

\* A pass that finds a stop not reported yet (WUNTRACED).
WaitStopped(p) ==
    /\ At(p, "wait")
    /\ ZombieSlots(p) = {}
    /\ \E si \in Highest(StopSlots(p)) : reported' = [reported EXCEPT ![slot[si]] = TRUE]
    /\ LeaveCall(p, "ret")
    /\ UNCHANGED <<tableVars, cpuVars, st, ppid, cpu, quantum, waitVars, pend, code, idx, num>>

\* A pass that finds no such child (-1) or, with WNOHANG, none that is ready (0).
WaitNothing(p) ==
    /\ At(p, "wait")
    /\ ZombieSlots(p) = {} /\ StopSlots(p) = {}
    /\ opt[p] = "nohang" \/ ~\E q \in Users : Matches(p, q)
    /\ LeaveCall(p, "ret")
    /\ UNCHANGED <<tableVars, cpuVars, st, ppid, cpu, quantum, waitVars, pend, reported,
                   code, idx, num>>

\* A pass that finds only children that are not ready: decide to park.
WaitNotReady(p) ==
    /\ At(p, "wait")
    /\ ZombieSlots(p) = {} /\ StopSlots(p) = {}
    /\ opt[p] # "nohang" /\ \E q \in Users : Matches(p, q)
    /\ Goto(p, "waitPark")
    /\ UNCHANGED <<tableVars, cpuVars, st, ppid, cpu, quantum, waitVars, pend, reported,
                   code, argVars>>

\* Parking; any interrupt ends the hlt and the loop scans again.
WaitPark(p) ==
    /\ At(p, "waitPark")
    /\ st' = [st EXCEPT ![p] = "BLOCKED"]
    /\ waitFor' = [waitFor EXCEPT ![p] = want[p]]
    /\ Goto(p, "wait")
    /\ UNCHANGED <<tableVars, cpuVars, ppid, cpu, quantum, wakeAt, expired, pend, reported,
                   code, argVars>>

\* Entering do_sleep_ms.
CallSleep(p) ==
    /\ At(p, "user")
    /\ Goto(p, "sleep")
    /\ UNCHANGED <<tableVars, cpuVars, st, ppid, cpu, quantum, waitVars, pend,
                   reported, code, argVars>>

\* The deadline passed, or a signal that does not stop the process is pending (EINTR).
SleepEnds(p) ==
    /\ At(p, "sleep")
    /\ expired[p] \/ (pend[p] # {} /\ "STOP" \notin pend[p])
    /\ expired' = [expired EXCEPT ![p] = FALSE]
    /\ Goto(p, "ret")
    /\ UNCHANGED <<tableVars, cpuVars, st, ppid, cpu, quantum, waitFor, wakeAt, pend,
                   reported, code, argVars>>

\* signal_check_stop: p stops inside its sleep, which restarts after SIGCONT.
SleepStops(p) ==
    /\ At(p, "sleep")
    /\ ~expired[p] /\ "STOP" \in pend[p]
    /\ pend' = [pend EXCEPT ![p] = @ \ {"STOP"}]
    /\ reported' = [reported EXCEPT ![p] = FALSE]
    /\ EnterAndWake(p, "STOPPED")
    /\ Goto(p, "sleepStopped")
    /\ UNCHANGED <<tableVars, cpuVars, ppid, cpu, quantum, wakeAt, expired, code, argVars>>

\* Mutant: blocked without a deadline.
SleepParksForever(p) ==
    /\ At(p, "sleep")
    /\ ~expired[p] /\ pend[p] = {}
    /\ st' = [st EXCEPT ![p] = "BLOCKED"]
    /\ Goto(p, "sleepHalt")
    /\ UNCHANGED <<tableVars, cpuVars, ppid, cpu, quantum, waitVars, pend, reported,
                   code, argVars>>

SleepParks(p) ==
    /\ At(p, "sleep")
    /\ ~expired[p] /\ pend[p] = {}
    /\ wakeAt' = [wakeAt EXCEPT ![p] = TRUE]
    /\ st' = [st EXCEPT ![p] = "BLOCKED"]
    /\ Goto(p, "sleepHalt")
    /\ UNCHANGED <<tableVars, cpuVars, ppid, cpu, quantum, waitFor, expired, pend, reported,
                   code, argVars>>

\* After the hlt, whatever ended it.
SleepWakes(p) ==
    /\ At(p, "sleepHalt")
    /\ wakeAt' = [wakeAt EXCEPT ![p] = FALSE]
    /\ st' = [st EXCEPT ![p] = IF @ = "BLOCKED" THEN "RUN" ELSE @]
    /\ Goto(p, "sleep")
    /\ UNCHANGED <<tableVars, cpuVars, ppid, cpu, quantum, waitFor, expired, pend, reported,
                   code, argVars>>

----------------------------------------------------------------------------
(* signal_dispatch, on the way back to ring 3 (default dispositions): at    *)
(* most one signal, the lowest-numbered one pending.                        *)

\* SIGKILL = 9 < SIGCONT = 18 < SIGSTOP = 19
NextSignal(p) == IF "KILL" \in pend[p] THEN "KILL"
                 ELSE IF "CONT" \in pend[p] THEN "CONT"
                 ELSE IF "STOP" \in pend[p] THEN "STOP" ELSE "none"

\* Nothing pending, or SIGCONT, whose default is to be ignored.
ReturnToUser(p) ==
    /\ At(p, "ret")
    /\ NextSignal(p) \in {"none", "CONT"}
    /\ pend' = [pend EXCEPT ![p] = @ \ {"CONT"}]
    /\ Goto(p, "user")
    /\ UNCHANGED <<tableVars, cpuVars, st, ppid, cpu, quantum, waitVars, reported, code,
                   argVars>>

Terminate(p) ==
    /\ At(p, "ret")
    /\ NextSignal(p) = "KILL"
    /\ pend' = [pend EXCEPT ![p] = @ \ {"KILL"}]
    /\ code' = [code EXCEPT ![p] = "signal"]
    /\ EnterAndWake(p, "ZOMBIE")
    /\ Goto(p, "dead")
    /\ UNCHANGED <<tableVars, cpuVars, ppid, cpu, quantum, wakeAt, expired, reported, argVars>>

Stop(p) ==
    /\ At(p, "ret")
    /\ NextSignal(p) = "STOP"
    /\ pend' = [pend EXCEPT ![p] = @ \ {"STOP"}]
    /\ reported' = [reported EXCEPT ![p] = FALSE]
    /\ EnterAndWake(p, "STOPPED")
    /\ Goto(p, "stopped")
    /\ UNCHANGED <<tableVars, cpuVars, ppid, cpu, quantum, wakeAt, expired, code, argVars>>

\* Mutant: one hlt instead of a loop; any interrupt lets a stopped process go on.
ResumeUnasked(p) ==
    /\ Runs(p) /\ pc[p] \in {"stopped", "sleepStopped"}
    /\ pend' = [pend EXCEPT ![p] = @ \ {"CONT"}]
    /\ Goto(p, IF pc[p] = "stopped" THEN "user" ELSE "sleep")
    /\ UNCHANGED <<tableVars, cpuVars, st, ppid, cpu, quantum, waitVars, reported, code,
                   argVars>>

\* The hlt loop of a stopped process sees that it is not stopped any more.
Resume(p) ==
    /\ Runs(p) /\ pc[p] \in {"stopped", "sleepStopped"}
    /\ st[p] # "STOPPED"
    /\ pend' = [pend EXCEPT ![p] = @ \ {"CONT"}]
    /\ Goto(p, IF pc[p] = "stopped" THEN "user" ELSE "sleep")
    /\ UNCHANGED <<tableVars, cpuVars, st, ppid, cpu, quantum, waitVars, reported, code,
                   argVars>>

----------------------------------------------------------------------------
(* The shell thread.  spawn: check the limit, load process_count, store the *)
(* slot and the count; create_user_process masks no interrupts for it.      *)

SpawnCheck ==
    /\ At(Shell, "shell") /\ "spawn" \in ShellDoes
    /\ count < MaxSlots
    /\ \E p \in Users : st[p] = "none"
    /\ Goto(Shell, "spawn")
    /\ UNCHANGED <<tableVars, cpuVars, st, ppid, cpu, quantum, waitVars, pend, reported,
                   code, argVars>>

SpawnLoad ==
    /\ At(Shell, "spawn")
    /\ num' = [num EXCEPT ![Shell] = count]
    /\ Goto(Shell, "append")
    /\ UNCHANGED <<tableVars, cpuVars, st, ppid, cpu, quantum, waitVars, pend, reported,
                   code, want, opt, idx>>

\* The new process becomes visible to a scheduler only with sched_managed, set after
\* its slot; c is where smp_user_balance puts it.
SpawnStore(p, c) ==
    /\ At(Shell, "append")
    /\ st[p] = "none"
    /\ Append(Shell, p, num[Shell], c, "shell")

\* `kill <pid>` of a process that is still alive: destroy_process leaves it to the reaper.
KillLive(p) ==
    /\ At(Shell, "shell") /\ "kill" \in ShellDoes
    /\ Found(p) /\ p # Shell /\ st[p] # "ZOMBIE"
    /\ code' = [code EXCEPT ![p] = "killed"]
    /\ st' = [st EXCEPT ![p] = "ZOMBIE"]
    /\ want' = [want EXCEPT ![Shell] = p]
    /\ Goto(Shell, "wakeParent")
    /\ UNCHANGED <<tableVars, cpuVars, ppid, cpu, quantum, waitVars, pend, reported,
                   opt, idx, num>>

KillWakes ==
    /\ At(Shell, "wakeParent")
    /\ EnterAndWake(want[Shell], st[want[Shell]])
    /\ LeaveCall(Shell, "shell")
    /\ UNCHANGED <<tableVars, cpuVars, ppid, cpu, quantum, wakeAt, expired, pend, reported,
                   code, idx, num>>

\* `kill <pid>` of a zombie: reap_user_process, first half: --process_count.
KillZombie(p) ==
    /\ At(Shell, "shell") /\ "killzombie" \in ShellDoes
    /\ Found(p) /\ p # Shell /\ st[p] = "ZOMBIE"
    /\ want' = [want EXCEPT ![Shell] = p]
    /\ \E i \in Lowest({j \in 1..count : slot[j] = p}) : idx' = [idx EXCEPT ![Shell] = i]
    /\ num' = [num EXCEPT ![Shell] = count]
    /\ count' = count - 1
    /\ Goto(Shell, "remove")
    /\ UNCHANGED <<slot, curIdx, cpuVars, st, ppid, cpu, quantum, waitVars, pend, reported,
                   code, opt>>

\* Second half: move the last entry down (the vacated slot keeps its pointer) and free.
KillZombieMove ==
    /\ At(Shell, "remove")
    /\ slot' = [slot EXCEPT ![idx[Shell]] = slot[num[Shell]]]
    /\ Release(want[Shell], Shell, "shell")
    /\ schedCur' = Forget(want[Shell])
    /\ idx' = [idx EXCEPT ![Shell] = 0]
    /\ UNCHANGED <<count, curIdx, scan, onCpu, cpu>>

\* reap_zombies, from the compositor's background tasks, preemption disabled.
ReapBegin ==
    /\ At(Shell, "shell")
    /\ idx' = [idx EXCEPT ![Shell] = 1]
    /\ Goto(Shell, "reap")
    /\ UNCHANGED <<tableVars, cpuVars, st, ppid, cpu, quantum, waitVars, pend, reported,
                   code, want, opt, num>>

\* Left to waitpid: the zombie of a parent that is a live ring-3 process.
ParentCollects(p) == Found(ppid[p]) /\ ppid[p] # Shell /\ st[ppid[p]] # "ZOMBIE"

\* Mutant: any parent that exists keeps the reaper away, the shell included.
ReapsOrphansOnly(i) ==
    /\ slot[i] # Nil /\ st[slot[i]] = "ZOMBIE"
    /\ i # curIdx
    /\ ~Found(ppid[slot[i]])

\* Mutant: every zombie is reaped, whoever may still ask for its status.
ReapsEverything(i) ==
    /\ slot[i] # Nil /\ st[slot[i]] = "ZOMBIE"
    /\ i # curIdx

ReapsHere(i) ==
    /\ slot[i] # Nil /\ st[slot[i]] = "ZOMBIE"
    /\ i # curIdx
    /\ ~ParentCollects(slot[i])

\* The slot under the index is to be reaped: the address space and stack go first ...
ReapSlot ==
    /\ At(Shell, "reap") /\ idx[Shell] <= count
    /\ ReapsHere(idx[Shell])
    /\ want' = [want EXCEPT ![Shell] = slot[idx[Shell]]]
    /\ Goto(Shell, "reapFree")
    /\ UNCHANGED <<tableVars, cpuVars, st, ppid, cpu, quantum, waitVars, pend, reported,
                   code, opt, idx, num>>

\* ... then, under sched_lock, the slot and every core's pointer, and the process_t.
ReapFree ==
    /\ At(Shell, "reapFree")
    /\ TakeOut(idx[Shell])
    /\ schedCur' = Forget(want[Shell])
    /\ Release(want[Shell], Shell, "reap")
    /\ UNCHANGED <<scan, onCpu, cpu, idx>>

ReapSkip ==
    /\ At(Shell, "reap") /\ idx[Shell] <= count
    /\ ~ReapsHere(idx[Shell])
    /\ idx' = [idx EXCEPT ![Shell] = @ + 1]
    /\ UNCHANGED <<tableVars, cpuVars, st, ppid, cpu, quantum, waitVars, pend, reported,
                   code, pc, want, opt, num>>

ReapEnd ==
    /\ At(Shell, "reap") /\ idx[Shell] > count
    /\ idx' = [idx EXCEPT ![Shell] = 0]
    /\ Goto(Shell, "shell")
    /\ UNCHANGED <<tableVars, cpuVars, st, ppid, cpu, quantum, waitVars, pend, reported,
                   code, want, opt, num>>

\* `wait <pid>`: kwait takes whatever pid was typed.
CallKwait(q) ==
    /\ At(Shell, "shell")
    /\ Found(q) /\ q # Shell
    /\ \/ "wait" \in ShellDoes /\ ppid[q] = Shell
       \/ "waitany" \in ShellDoes
    /\ want' = [want EXCEPT ![Shell] = q]
    /\ Goto(Shell, "kwait")
    /\ UNCHANGED <<tableVars, cpuVars, st, ppid, cpu, quantum, waitVars, pend, reported,
                   code, opt, idx, num>>

\* `wait` without an argument: kwait_all.
CallKwaitAll ==
    /\ At(Shell, "shell") /\ "waitall" \in ShellDoes
    /\ Goto(Shell, "kall")
    /\ UNCHANGED <<tableVars, cpuVars, st, ppid, cpu, quantum, waitVars, pend, reported,
                   code, argVars>>

\* The foreground-exec loop and the idle compositor: sleep(ms) of timer.c.
CallKsleep ==
    /\ At(Shell, "shell") /\ "sleep" \in ShellDoes
    /\ Goto(Shell, "ksleep")
    /\ UNCHANGED <<tableVars, cpuVars, st, ppid, cpu, quantum, waitVars, pend,
                   reported, code, argVars>>

KwaitDone == ~Found(want[Shell]) \/ st[want[Shell]] = "ZOMBIE"
KallDone  == \A p \in Users : Found(p) /\ ppid[p] = Shell => st[p] = "ZOMBIE"

\* One pass of either loop: return to the shell, or go and park.
KwaitScan ==
    /\ At(Shell, "kwait")
    /\ Goto(Shell, IF KwaitDone THEN "shell" ELSE "kwaitPark")
    /\ want' = [want EXCEPT ![Shell] = IF KwaitDone THEN Nil ELSE @]
    /\ UNCHANGED <<tableVars, cpuVars, st, ppid, cpu, quantum, waitVars, pend, reported,
                   code, opt, idx, num>>

KallScan ==
    /\ At(Shell, "kall")
    /\ Goto(Shell, IF KallDone THEN "shell" ELSE "kallPark")
    /\ UNCHANGED <<tableVars, cpuVars, st, ppid, cpu, quantum, waitVars, pend, reported,
                   code, argVars>>

\* want[Shell] is the pid kwait waits for, and Nil in kwait_all.
KwaitParks ==
    /\ Runs(Shell) /\ pc[Shell] \in {"kwaitPark", "kallPark"}
    /\ st' = [st EXCEPT ![Shell] = "BLOCKED"]
    /\ waitFor' = [waitFor EXCEPT ![Shell] = want[Shell]]
    /\ Goto(Shell, IF pc[Shell] = "kwaitPark" THEN "kwait" ELSE "kall")
    /\ UNCHANGED <<tableVars, cpuVars, ppid, cpu, quantum, wakeAt, expired, pend, reported,
                   code, argVars>>

\* sleep(): block until the deadline, whatever else wakes the thread meanwhile.
KsleepEnds ==
    /\ At(Shell, "ksleep") /\ expired[Shell]
    /\ wakeAt' = [wakeAt EXCEPT ![Shell] = FALSE]
    /\ expired' = [expired EXCEPT ![Shell] = FALSE]
    /\ Goto(Shell, "shell")
    /\ UNCHANGED <<tableVars, cpuVars, st, ppid, cpu, quantum, waitFor, pend,
                   reported, code, argVars>>

KsleepParks ==
    /\ At(Shell, "ksleep") /\ ~expired[Shell]
    /\ ~(st[Shell] = "BLOCKED" /\ wakeAt[Shell])     \* parking again changes nothing
    /\ wakeAt' = [wakeAt EXCEPT ![Shell] = TRUE]
    /\ st' = [st EXCEPT ![Shell] = "BLOCKED"]
    /\ UNCHANGED <<tableVars, cpuVars, ppid, cpu, quantum, waitFor, expired, pend, reported,
                   code, pc, argVars>>

----------------------------------------------------------------------------
Init ==
    /\ slot = [i \in 1..MaxSlots |-> IF i = 1 THEN Shell ELSE Nil]
    /\ count = 1 /\ curIdx = 1
    /\ schedCur = [c \in Cpus |-> Nil]
    /\ scan = [c \in Cpus |-> 1]
    /\ onCpu = [c \in Cpus |-> IF c = 0 THEN Shell ELSE Nil]
    /\ st = [p \in Procs |-> IF p = Shell THEN "RUN" ELSE "none"]
    /\ ppid = [p \in Procs |-> Nil]
    /\ cpu = [p \in Procs |-> 0]
    /\ quantum = [p \in Procs |-> 0]
    /\ waitFor = [p \in Procs |-> Nil]
    /\ wakeAt = [p \in Procs |-> FALSE]
    /\ expired = [p \in Procs |-> FALSE]
    /\ pend = [p \in Procs |-> {}]
    /\ reported = [p \in Procs |-> FALSE]
    /\ code = [p \in Procs |-> "none"]
    /\ pc = [p \in Procs |-> IF p = Shell THEN "shell" ELSE "none"]
    /\ want = [p \in Procs |-> Nil]
    /\ opt = [p \in Procs |-> "none"]
    /\ idx = [p \in Procs |-> 0]
    /\ num = [p \in Procs |-> 0]

\* What p's kernel code goes on to do once it is inside a call.
ForkStep(p) == ForkLoad(p) \/ \E child \in Users : ForkStore(p, child)
WaitStep(p) == WaitFound(p) \/ WaitReap(p) \/ WaitStopped(p) \/ WaitNothing(p)
               \/ WaitNotReady(p) \/ WaitPark(p)
SleepStep(p) == SleepEnds(p) \/ SleepStops(p) \/ SleepParks(p) \/ SleepWakes(p)
SignalStep(p) == ReturnToUser(p) \/ Terminate(p) \/ Stop(p) \/ Resume(p)
KernelStep(p) == ForkStep(p) \/ WaitStep(p) \/ SleepStep(p) \/ SignalStep(p)

UserStep(p) ==
    \/ Fork(p) \/ Exit(p) \/ OtherSyscall(p) \/ CallSleep(p)
    \/ \E w \in Users \cup {Nil}, o \in {"none", "nohang", "untraced"} : CallWaitpid(p, w, o)

ReapStep == ReapSlot \/ ReapFree \/ ReapSkip \/ ReapEnd
ShellStep ==
    \/ SpawnLoad \/ \E p \in Users, c \in Cpus : SpawnStore(p, c)
    \/ KillWakes \/ KillZombieMove \/ ReapStep
    \/ KwaitScan \/ KallScan \/ KwaitParks \/ KsleepEnds \/ KsleepParks
ShellCommand ==
    \/ SpawnCheck \/ ReapBegin \/ CallKwaitAll \/ CallKsleep
    \/ \E p \in Users : KillLive(p) \/ KillZombie(p) \/ CallKwait(p)

Next ==
    \/ \E late \in SUBSET Sleeping : TickBsp(late)
    \/ \E c \in Aps : TickAp(c)
    \/ \E p \in Users : UserStep(p) \/ KernelStep(p)
    \/ \E p \in Procs, q \in Procs, sig \in Sigs : Kill(p, q, sig)
    \/ ShellStep \/ ShellCommand

Spec == Init /\ [][Next]_vars

\* A masked interrupt stays latched, so a tick that is possible again and again comes, and
\* the clock reaches every deadline; code that runs again and again gets somewhere in one
\* of its 10 ms slices; the compositor's loop runs the reaper on every iteration.  Nothing
\* makes ring-3 code call, exit or signal, or anyone type a command.
Fairness ==
    /\ SF_vars(\E late \in SUBSET Sleeping : TickBsp(late))
    /\ \A p \in Procs : SF_vars(\E late \in SUBSET Sleeping : p \in late /\ TickBsp(late))
    /\ \A c \in Aps : SF_vars(TickAp(c))
    /\ \A p \in Users : SF_vars(KernelStep(p))
    /\ SF_vars(ShellStep) /\ SF_vars(ReapBegin)

FairSpec == Spec /\ Fairness
=============================================================================
