--------------------------- MODULE Process_proofs ---------------------------
(***************************************************************************)
(* Proofs about the process table, for every number of processes and every *)
(* size of the table: on one core, IndInv is inductive, so the table stays *)
(* exact and current_idx names what runs; and no step brings a dead        *)
(* process back.                                                           *)
(*                                                                         *)
(* Most steps leave the table alone: QuietUser and QuietShell say what such*)
(* a step has to respect, and the lemma of each action checks that it does.*)
(* The steps that change the table have proofs of their own.               *)
(*                                                                         *)
(* On IndInv rests WaitInv, about the waits: no wake-up of waitpid is lost,*)
(* code in ring 3 is runnable, and the table implements ExitStatus.        *)
(* Last comes what survives on any number of cores: no two of them run the *)
(* same process.                                                           *)
(***************************************************************************)
EXTENDS ProcessProps, TLAPS

\* The process that acts is the one that current_idx names, and it is no zombie.
LEMMA Acting ==
    ASSUME SingleCore, IndInv, NEW p \in Procs, Runs(p)
    PROVE  /\ onCpu[0] = p /\ curIdx \in 1..count /\ slot[curIdx] = p
           /\ Exists(p)
           /\ p \in Users /\ pc[p] # "dead" => st[p] # "ZOMBIE"
           /\ \A q \in Procs : pc[q] \in Undisturbed => q = p
<1>1. onCpu[0] = p
  BY DEF SingleCore, Runs, Cpus
<1>2. curIdx \in 1..count /\ slot[curIdx] = p
  BY <1>1 DEF IndInv, CursorExact
<1>3. curIdx \in 1..Used
  BY <1>2 DEF IndInv, Used, Choices, TypeOK
<1>4. Exists(p)
  BY <1>2, <1>3 DEF IndInv, SlotsExact
<1> QED
  BY <1>1, <1>2, <1>4 DEF IndInv, MaskedRun, PcExact

\* A step of user code or of a system call that leaves the table alone: only p's own
\* program counter and arguments change, and only p may die, if it is done exiting.
LEMMA QuietUser ==
    ASSUME SingleCore, IndInv, TypeOK',
           NEW p \in Users, Runs(p),
           UNCHANGED <<slot, count, curIdx, onCpu>>,
           \A q \in Procs : q # p => pc'[q] = pc[q],
           pc'[p] \in UserPcs, pc'[p] \notin Undisturbed, pc'[p] # "none",
           \A q \in Procs : Exists(q)' <=> Exists(q),
           st'[Shell] \in {"RUN", "BLOCKED"},
           \A q \in Users : q # p => (st'[q] = "ZOMBIE" <=> st[q] = "ZOMBIE"),
           st'[p] = "ZOMBIE" => pc'[p] = "dead"
    PROVE  IndInv'
<1>1. /\ p \in Procs /\ Shell \in Procs /\ p # Shell
      /\ \A q \in Procs : pc'[q] \notin Undisturbed
  BY Acting, NilAssumption DEF Procs
<1>2. Used' = Used
  BY <1>1, Acting DEF Used, Undisturbed
<1>3. SlotsExact' /\ CursorExact'
  BY <1>1, <1>2 DEF IndInv, SlotsExact, CursorExact
<1>4. MaskedRun' /\ RoomLeft' /\ Choices'
  BY <1>1 DEF MaskedRun, RoomLeft, Choices, Undisturbed
<1>5. PcExact'
  BY <1>1, Acting DEF IndInv, PcExact, Procs
<1> QED BY <1>3, <1>4, <1>5 DEF IndInv

----------------------------------------------------------------------------
(* The steps of user processes that leave the table alone.                   *)

USE DEF tableVars, cpuVars, waitVars, argVars, Goto, At

\* Entering a state and waking the parent assigns states only.
LEMMA EnteringTyped ==
    ASSUME TypeOK, NEW p \in Procs, NEW s \in States, EnterAndWake(p, s)
    PROVE  st' \in [Procs -> States] /\ waitFor' \in [Procs -> Procs \cup {Nil}]
<1>1. "RUN" \in States
  BY DEF States
<1>2. st' \in [Procs -> States]
  BY <1>1 DEF EnterAndWake, TypeOK
<1>3. waitFor' \in [Procs -> Procs \cup {Nil}]
  BY DEF EnterAndWake, TypeOK
<1> QED
  BY <1>2, <1>3

\* A user process that becomes a zombie or stops, and the parent it wakes.
LEMMA EnteringKeeps ==
    ASSUME SingleCore, IndInv, TypeOK', NEW p \in Users, Runs(p), pc[p] # "dead",
           NEW s \in {"ZOMBIE", "STOPPED"}, EnterAndWake(p, s),
           Goto(p, IF s = "ZOMBIE" THEN "dead" ELSE "stopped"),
           UNCHANGED <<slot, count, curIdx, onCpu>>
    PROVE  IndInv'
<1>1. p \in Procs /\ p # Shell /\ Shell \in Procs /\ TypeOK /\ Exists(p)
  BY Acting, NilAssumption DEF Procs, IndInv
<1>2. /\ st'[p] = s
      /\ \A q \in Procs : q # p => st'[q] = st[q] \/ (st[q] = "BLOCKED" /\ st'[q] = "RUN")
  BY <1>1 DEF EnterAndWake, WakesParent
<1>3. \A q \in Procs : Exists(q)' <=> Exists(q)
  BY <1>1, <1>2 DEF Exists
<1>4. st'[Shell] \in {"RUN", "BLOCKED"}
  BY <1>1, <1>2 DEF IndInv, PcExact
<1>5. /\ \A q \in Procs : q # p => pc'[q] = pc[q]
      /\ pc'[p] = IF s = "ZOMBIE" THEN "dead" ELSE "stopped"
  BY <1>1 DEF Goto, TypeOK
<1>6. \A q \in Users : q # p => (st'[q] = "ZOMBIE" <=> st[q] = "ZOMBIE")
  BY <1>2 DEF Procs
<1>7. pc'[p] \in UserPcs /\ pc'[p] \notin Undisturbed /\ pc'[p] # "none"
  BY <1>5 DEF UserPcs, Undisturbed
<1>8. st'[p] = "ZOMBIE" => pc'[p] = "dead"
  BY <1>2, <1>5
<1> QED
  BY <1>3, <1>4, <1>5, <1>6, <1>7, <1>8, QuietUser

LEMMA ExitKeeps ==
    ASSUME SingleCore, IndInv, NEW p \in Users, Exit(p)
    PROVE  IndInv'
<1>1. p \in Procs /\ Runs(p) /\ TypeOK
  BY DEF Procs, IndInv, Exit
<1>2. TypeOK'
  <2>1. st' \in [Procs -> States] /\ waitFor' \in [Procs -> Procs \cup {Nil}]
    BY <1>1, EnteringTyped DEF Exit, States
  <2> QED
    BY <1>1, <2>1 DEF TypeOK, Exit, PcValues
<1> QED
  BY <1>1, <1>2, EnteringKeeps DEF Exit

LEMMA OtherSyscallKeeps ==
    ASSUME SingleCore, IndInv, NEW p \in Users, OtherSyscall(p)
    PROVE  IndInv'
<1>1. p \in Procs /\ Runs(p) /\ TypeOK
  BY DEF Procs, IndInv, OtherSyscall
<1>2. TypeOK'
  BY <1>1 DEF TypeOK, OtherSyscall, PcValues, States, Procs
<1> QED
  BY <1>1, <1>2, Acting, QuietUser, NilAssumption
  DEF OtherSyscall, UserPcs, Undisturbed, Exists, IndInv, PcExact, TypeOK, Procs

LEMMA CallSleepKeeps ==
    ASSUME SingleCore, IndInv, NEW p \in Users, CallSleep(p)
    PROVE  IndInv'
<1>1. p \in Procs /\ Runs(p) /\ TypeOK
  BY DEF Procs, IndInv, CallSleep
<1>2. TypeOK'
  BY <1>1 DEF TypeOK, CallSleep, PcValues, States, Procs
<1> QED
  BY <1>1, <1>2, Acting, QuietUser, NilAssumption
  DEF CallSleep, UserPcs, Undisturbed, Exists, IndInv, PcExact, TypeOK, Procs

LEMMA CallWaitpidKeeps ==
    ASSUME SingleCore, IndInv, NEW p \in Users,
           NEW w \in Users \cup {Nil}, NEW o \in {"none", "nohang", "untraced"}, CallWaitpid(p, w, o)
    PROVE  IndInv'
<1>1. p \in Procs /\ Runs(p) /\ TypeOK
  BY DEF Procs, IndInv, CallWaitpid
<1>2. TypeOK'
  BY <1>1 DEF TypeOK, CallWaitpid, PcValues, States, Procs
<1> QED
  BY <1>1, <1>2, Acting, QuietUser, NilAssumption
  DEF CallWaitpid, UserPcs, Undisturbed, Exists, IndInv, PcExact, TypeOK, Procs

LEMMA WaitStoppedKeeps ==
    ASSUME SingleCore, IndInv, NEW p \in Users, WaitStopped(p)
    PROVE  IndInv'
<1>1. p \in Procs /\ Runs(p) /\ TypeOK
  BY DEF Procs, IndInv, WaitStopped
<1>2. PICK si \in Highest(StopSlots(p)) : reported' = [reported EXCEPT ![slot[si]] = TRUE]
  BY DEF WaitStopped
<1>3. TypeOK'
  BY <1>1, <1>2 DEF TypeOK, WaitStopped, LeaveCall, PcValues
<1> QED
  BY <1>1, <1>3, Acting, QuietUser, NilAssumption
  DEF WaitStopped, LeaveCall, UserPcs, Undisturbed, Exists, IndInv, PcExact, TypeOK, Procs

LEMMA WaitNothingKeeps ==
    ASSUME SingleCore, IndInv, NEW p \in Users, WaitNothing(p)
    PROVE  IndInv'
<1>1. p \in Procs /\ Runs(p) /\ TypeOK
  BY DEF Procs, IndInv, WaitNothing
<1>2. TypeOK'
  BY <1>1 DEF TypeOK, WaitNothing, LeaveCall, PcValues, States, Procs
<1> QED
  BY <1>1, <1>2, Acting, QuietUser, NilAssumption
  DEF WaitNothing, LeaveCall, UserPcs, Undisturbed, Exists, IndInv, PcExact, TypeOK, Procs

LEMMA WaitNotReadyKeeps ==
    ASSUME SingleCore, IndInv, NEW p \in Users, WaitNotReady(p)
    PROVE  IndInv'
<1>1. p \in Procs /\ Runs(p) /\ TypeOK
  BY DEF Procs, IndInv, WaitNotReady
<1>2. TypeOK'
  BY <1>1 DEF TypeOK, WaitNotReady, PcValues, States, Procs
<1> QED
  BY <1>1, <1>2, Acting, QuietUser, NilAssumption
  DEF WaitNotReady, UserPcs, Undisturbed, Exists, IndInv, PcExact, TypeOK, Procs

LEMMA WaitParkKeeps ==
    ASSUME SingleCore, IndInv, NEW p \in Users, WaitPark(p)
    PROVE  IndInv'
<1>1. p \in Procs /\ Runs(p) /\ TypeOK
  BY DEF Procs, IndInv, WaitPark
<1>2. TypeOK'
  BY <1>1 DEF TypeOK, WaitPark, PcValues, States, Procs
<1> QED
  BY <1>1, <1>2, Acting, QuietUser, NilAssumption
  DEF WaitPark, UserPcs, Undisturbed, Exists, IndInv, PcExact, TypeOK, Procs

LEMMA SleepEndsKeeps ==
    ASSUME SingleCore, IndInv, NEW p \in Users, SleepEnds(p)
    PROVE  IndInv'
<1>1. p \in Procs /\ Runs(p) /\ TypeOK
  BY DEF Procs, IndInv, SleepEnds
<1>2. TypeOK'
  BY <1>1 DEF TypeOK, SleepEnds, PcValues, States, Procs
<1> QED
  BY <1>1, <1>2, Acting, QuietUser, NilAssumption
  DEF SleepEnds, UserPcs, Undisturbed, Exists, IndInv, PcExact, TypeOK, Procs

LEMMA SleepStopsKeeps ==
    ASSUME SingleCore, IndInv, NEW p \in Users, SleepStops(p)
    PROVE  IndInv'
<1>1. p \in Procs /\ Runs(p) /\ TypeOK
  BY DEF Procs, IndInv, SleepStops
<1>2. TypeOK'
  BY <1>1 DEF TypeOK, SleepStops, EnterAndWake, WakesParent, PcValues, States, Procs
<1> QED
  BY <1>1, <1>2, Acting, QuietUser, NilAssumption
  DEF SleepStops, EnterAndWake, WakesParent, UserPcs, Undisturbed, Exists, IndInv, PcExact, TypeOK, Procs

LEMMA SleepParksKeeps ==
    ASSUME SingleCore, IndInv, NEW p \in Users, SleepParks(p)
    PROVE  IndInv'
<1>1. p \in Procs /\ Runs(p) /\ TypeOK
  BY DEF Procs, IndInv, SleepParks
<1>2. TypeOK'
  BY <1>1 DEF TypeOK, SleepParks, PcValues, States, Procs
<1> QED
  BY <1>1, <1>2, Acting, QuietUser, NilAssumption
  DEF SleepParks, UserPcs, Undisturbed, Exists, IndInv, PcExact, TypeOK, Procs

LEMMA SleepWakesKeeps ==
    ASSUME SingleCore, IndInv, NEW p \in Users, SleepWakes(p)
    PROVE  IndInv'
<1>1. p \in Procs /\ Runs(p) /\ TypeOK
  BY DEF Procs, IndInv, SleepWakes
<1>2. TypeOK'
  BY <1>1 DEF TypeOK, SleepWakes, PcValues, States, Procs
<1> QED
  BY <1>1, <1>2, Acting, QuietUser, NilAssumption
  DEF SleepWakes, UserPcs, Undisturbed, Exists, IndInv, PcExact, TypeOK, Procs

LEMMA ReturnToUserKeeps ==
    ASSUME SingleCore, IndInv, NEW p \in Users, ReturnToUser(p)
    PROVE  IndInv'
<1>1. p \in Procs /\ Runs(p) /\ TypeOK
  BY DEF Procs, IndInv, ReturnToUser
<1>2. TypeOK'
  BY <1>1 DEF TypeOK, ReturnToUser, PcValues, States, Procs
<1> QED
  BY <1>1, <1>2, Acting, QuietUser, NilAssumption
  DEF ReturnToUser, UserPcs, Undisturbed, Exists, IndInv, PcExact, TypeOK, Procs

LEMMA TerminateKeeps ==
    ASSUME SingleCore, IndInv, NEW p \in Users, Terminate(p)
    PROVE  IndInv'
<1>1. p \in Procs /\ Runs(p) /\ TypeOK
  BY DEF Procs, IndInv, Terminate
<1>2. TypeOK'
  <2>1. st' \in [Procs -> States] /\ waitFor' \in [Procs -> Procs \cup {Nil}]
    BY <1>1, EnteringTyped DEF Terminate, States
  <2> QED
    BY <1>1, <2>1 DEF TypeOK, Terminate, PcValues
<1> QED
  BY <1>1, <1>2, EnteringKeeps DEF Terminate

LEMMA StopKeeps ==
    ASSUME SingleCore, IndInv, NEW p \in Users, Stop(p)
    PROVE  IndInv'
<1>1. p \in Procs /\ Runs(p) /\ TypeOK
  BY DEF Procs, IndInv, Stop
<1>2. TypeOK'
  <2>1. st' \in [Procs -> States] /\ waitFor' \in [Procs -> Procs \cup {Nil}]
    BY <1>1, EnteringTyped DEF Stop, States
  <2> QED
    BY <1>1, <2>1 DEF TypeOK, Stop, PcValues
<1> QED
  BY <1>1, <1>2, EnteringKeeps DEF Stop

LEMMA ResumeKeeps ==
    ASSUME SingleCore, IndInv, NEW p \in Users, Resume(p)
    PROVE  IndInv'
<1>1. p \in Procs /\ Runs(p) /\ TypeOK
  BY DEF Procs, IndInv, Resume
<1>2. TypeOK'
  BY <1>1 DEF TypeOK, Resume, PcValues, States, Procs
<1> QED
  BY <1>1, <1>2, Acting, QuietUser, NilAssumption
  DEF Resume, UserPcs, Undisturbed, Exists, IndInv, PcExact, TypeOK, Procs

----------------------------------------------------------------------------
(* What the table is like after a step that keeps, adds or takes out an entry. *)

LEMMA SameSlots ==
    ASSUME SlotsExact, Used' = Used, slot' = slot, \A q \in Procs : Exists(q)' <=> Exists(q)
    PROVE  SlotsExact'
BY DEF SlotsExact, Exists

LEMMA AddedSlot ==
    ASSUME SlotsExact, Used \in Nat, NEW child \in Procs, ~Exists(child),
           Used' = Used + 1, slot'[Used + 1] = child, \A i \in 1..Used : slot'[i] = slot[i],
           slot'[1] = slot[1],
           \A q \in Procs : Exists(q)' <=> Exists(q) \/ q = child
    PROVE  SlotsExact'
<1>1. \A i \in 1..Used' : slot'[i] \in Procs /\ Exists(slot[i])'
  BY DEF SlotsExact, Exists
<1>2. \A i, j \in 1..Used' : slot'[i] = slot'[j] => i = j
  BY DEF SlotsExact, Exists
<1>3. \A q \in Procs : Exists(q)' => \E i \in 1..Used' : slot'[i] = q
  BY DEF SlotsExact, Exists
<1> QED
  BY <1>1, <1>2, <1>3 DEF SlotsExact, Exists

LEMMA TakenSlot ==
    ASSUME SlotsExact, Used \in Nat, NEW v \in Procs, NEW i \in 2..Used, slot[i] = v,
           Used' = Used - 1,
           \A j \in 1..(Used - 1) : slot'[j] = IF j = i THEN slot[Used] ELSE slot[j],
           \A q \in Procs : Exists(q)' <=> Exists(q) /\ q # v
    PROVE  SlotsExact'
<1>1. \A j \in 1..Used' : slot'[j] \in Procs /\ Exists(slot[j])'
  BY DEF SlotsExact, Exists
<1>2. \A j, k \in 1..Used' : slot'[j] = slot'[k] => j = k
  BY DEF SlotsExact, Exists
<1>3. ASSUME NEW q \in Procs, Exists(q)' PROVE \E j \in 1..Used' : slot'[j] = q
  <2>1. PICK j \in 1..Used : slot[j] = q
    BY <1>3 DEF SlotsExact, Exists
  <2>2. j # i
    BY <1>3, <2>1
  <2>3. CASE j = Used
    BY <2>1, <2>2, <2>3
  <2>4. CASE j # Used
    BY <2>1, <2>2, <2>4
  <2> QED BY <2>3, <2>4
<1>4. slot'[1] = Shell
  BY DEF SlotsExact, Exists
<1> QED
  BY <1>1, <1>2, <1>3, <1>4 DEF SlotsExact, Exists

----------------------------------------------------------------------------
(* fork: the table grows by the child, which runs in user code from then on. *)

LEMMA ForkKeeps ==
    ASSUME SingleCore, IndInv, NEW p \in Users, Fork(p)
    PROVE  IndInv'
<1>1. p \in Procs /\ p # Shell /\ Runs(p) /\ TypeOK
  BY NilAssumption DEF Procs, IndInv, Fork
<1>2. TypeOK'
  BY <1>1 DEF TypeOK, Fork, PcValues
<1>3. SlotsExact' /\ CursorExact'
  BY <1>1, SameSlots DEF Fork, IndInv, CursorExact, Used, Exists, TypeOK
<1>4. MaskedRun' /\ RoomLeft' /\ Choices'
  BY <1>1, Acting DEF Fork, IndInv, MaskedRun, RoomLeft, Choices, Undisturbed, TypeOK
<1>5. PcExact'
  BY <1>1, Acting DEF Fork, IndInv, PcExact, UserPcs, Exists, TypeOK
<1> QED
  BY <1>2, <1>3, <1>4, <1>5 DEF IndInv

LEMMA ForkLoadKeeps ==
    ASSUME SingleCore, IndInv, NEW p \in Users, ForkLoad(p)
    PROVE  IndInv'
<1>1. p \in Procs /\ p # Shell /\ Runs(p) /\ TypeOK
  BY NilAssumption DEF Procs, IndInv, ForkLoad
<1>2. TypeOK'
  BY <1>1 DEF TypeOK, ForkLoad, PcValues
<1>3. SlotsExact' /\ CursorExact'
  BY <1>1, SameSlots DEF ForkLoad, IndInv, CursorExact, Used, Exists, TypeOK
<1>4. MaskedRun' /\ RoomLeft' /\ Choices'
  BY <1>1, Acting DEF ForkLoad, IndInv, MaskedRun, RoomLeft, Choices, Undisturbed, TypeOK
<1>5. PcExact'
  BY <1>1, Acting DEF ForkLoad, IndInv, PcExact, UserPcs, Exists, TypeOK
<1> QED
  BY <1>2, <1>3, <1>4, <1>5 DEF IndInv

LEMMA ForkStoreKeeps ==
    ASSUME SingleCore, IndInv, NEW p \in Users, NEW child \in Users, ForkStore(p, child)
    PROVE  IndInv'
<1>1. /\ p \in Procs /\ child \in Procs /\ Runs(p) /\ TypeOK
      /\ p # Shell /\ child # Shell /\ child # p /\ Shell \in Procs
  BY Acting, NilAssumption DEF Procs, IndInv, ForkStore, Exists
<1>2. num[p] = count /\ count \in Nat /\ count + 1 \in 1..MaxSlots /\ Used = count
  <2>1. pc[p] = "forkAppend" /\ pc[Shell] # "remove"
    BY <1>1, Acting DEF ForkStore, Undisturbed
  <2> QED
    BY <1>1, <2>1, SlotAssumption DEF IndInv, RoomLeft, TypeOK, Used
<1>3. TypeOK'
  <2>1. slot' \in [1..MaxSlots -> Procs \cup {Nil}] /\ count' \in 0..MaxSlots
    BY <1>1, <1>2 DEF TypeOK, ForkStore, Append
  <2>2. st' \in [Procs -> States] /\ pc' \in [Procs -> PcValues]
    BY <1>1 DEF TypeOK, ForkStore, Append, States, PcValues
  <2>3. /\ ppid' \in [Procs -> Procs \cup {Nil}] /\ cpu' \in [Procs -> Cpus]
        /\ quantum' \in [Procs -> Nat]
    BY <1>1 DEF TypeOK, ForkStore, Append, Cpus
  <2> QED
    BY <1>1, <2>1, <2>2, <2>3 DEF TypeOK, ForkStore, Append
<1>4. SlotsExact'
  <2>1. Used' = count + 1
    BY <1>1, <1>2, Acting DEF ForkStore, Append, Used, Undisturbed, TypeOK
  <2>2. /\ slot'[count + 1] = child
        /\ \A i \in 1..count : slot'[i] = slot[i]
    BY <1>1, <1>2 DEF ForkStore, Append, TypeOK
  <2>3. \A q \in Procs : Exists(q)' <=> Exists(q) \/ q = child
    BY <1>1 DEF ForkStore, Append, Exists, TypeOK
  <2>4. 1 \in 1..count
    BY <1>1, <1>2, Acting
  <2> QED
    BY <1>1, <1>2, <2>1, <2>2, <2>3, <2>4, AddedSlot DEF IndInv, ForkStore, Exists
<1>5. CursorExact'
  <2>1. curIdx \in 1..count /\ curIdx # count + 1 /\ slot[curIdx] = onCpu[0]
    BY <1>1, <1>2, Acting
  <2>2. count' = count + 1 /\ UNCHANGED <<curIdx, onCpu>> /\ slot'[curIdx] = slot[curIdx]
    BY <1>1, <1>2, <2>1 DEF ForkStore, Append, cpuVars, TypeOK
  <2> QED
    BY <1>2, <2>1, <2>2 DEF CursorExact
<1>6. MaskedRun' /\ RoomLeft' /\ Choices'
  <2>1. \A q \in Procs : pc'[q] \notin Undisturbed
    BY <1>1, Acting DEF ForkStore, Append, Undisturbed, TypeOK
  <2> QED
    BY <1>1, <2>1 DEF MaskedRun, RoomLeft, Choices, Undisturbed
<1>7. PcExact'
  <2>1. pc'[Shell] = pc[Shell] /\ st'[Shell] = st[Shell]
    BY <1>1 DEF ForkStore, Append, TypeOK
  <2>2. ASSUME NEW q \in Users, q # child, q # p
        PROVE  pc'[q] = pc[q] /\ st'[q] = st[q]
    BY <1>1, <2>2 DEF ForkStore, Append, TypeOK, Procs
  <2>3. pc'[child] = "user" /\ st'[child] = "RUN" /\ pc'[p] = "ret" /\ st'[p] = st[p]
    BY <1>1 DEF ForkStore, Append, TypeOK
  <2>4. onCpu' = onCpu /\ Exists(p) /\ st[p] # "ZOMBIE"
    BY <1>1, Acting DEF ForkStore, Append
  <2> QED
    BY <1>1, <2>1, <2>2, <2>3, <2>4 DEF IndInv, PcExact, UserPcs, Exists
<1> QED
  BY <1>3, <1>4, <1>5, <1>6, <1>7 DEF IndInv

----------------------------------------------------------------------------
(* waitpid and the reaper: an entry goes, and current_idx follows the running *)
(* process if that is the one that is moved.                                  *)

LEMMA Freeing ==
    ASSUME SingleCore, IndInv, NEW p \in Procs, Runs(p), NEW where \in PcValues,
           pc[p] \in {"collect", "reapFree", "remove"}, Release(want[p], p, where)
    PROVE  /\ want[p] \in Users /\ want[p] # p /\ want[p] # Shell /\ Shell \in Procs
           /\ idx[p] \in 2..Used /\ idx[p] # curIdx /\ slot[idx[p]] = want[p]
           /\ \A q \in Procs : Exists(q)' <=> Exists(q) /\ q # want[p]
           /\ \A q \in Procs : st'[q] = IF q = want[p] THEN "freed" ELSE st[q]
           /\ \A q \in Procs : pc'[q] = IF q = p THEN where
                                       ELSE IF q = want[p] THEN "none" ELSE pc[q]
<1>1. want[p] \in Users /\ st[want[p]] = "ZOMBIE" /\ Shell \in Procs
      /\ idx[p] \in 2..Used /\ idx[p] # curIdx /\ slot[idx[p]] = want[p]
  BY DEF IndInv, Choices, AboutToFree, Procs
<1>2. want[p] # p /\ want[p] # Shell
  BY <1>1, Acting, NilAssumption DEF Procs
<1>3. \A q \in Procs : st'[q] = IF q = want[p] THEN "freed" ELSE st[q]
  BY <1>1 DEF Release, IndInv, TypeOK
<1>4. \A q \in Procs : pc'[q] = IF q = p THEN where
                             ELSE IF q = want[p] THEN "none" ELSE pc[q]
  BY <1>1 DEF Release, IndInv, TypeOK
<1>5. \A q \in Procs : Exists(q)' <=> Exists(q) /\ q # want[p]
  BY <1>1, <1>3 DEF Exists
<1> QED
  BY <1>1, <1>2, <1>3, <1>4, <1>5

LEMMA FreeingTyped ==
    ASSUME TypeOK, NEW p \in Procs, NEW v \in Procs, NEW where \in PcValues,
           Release(v, p, where)
    PROVE  /\ st' \in [Procs -> States] /\ ppid' \in [Procs -> Procs \cup {Nil}]
           /\ quantum' \in [Procs -> Nat] /\ waitFor' \in [Procs -> Procs \cup {Nil}]
           /\ wakeAt' \in [Procs -> BOOLEAN] /\ expired' \in [Procs -> BOOLEAN]
           /\ pend' \in [Procs -> SUBSET Sigs] /\ reported' \in [Procs -> BOOLEAN]
           /\ code' \in [Procs -> {"none", "exit", "killed", "signal"}]
           /\ pc' \in [Procs -> PcValues] /\ want' \in [Procs -> Procs \cup {Nil}]
           /\ opt' \in [Procs -> {"none", "nohang", "untraced"}]
           /\ num' \in [Procs -> Nat]
BY DEF TypeOK, Release, States, PcValues

LEMMA TakingOut ==
    ASSUME SingleCore, IndInv, NEW p \in Procs, Runs(p), NEW where \in PcValues \ {"remove"},
           pc[p] \in {"collect", "reapFree"}, TakeOut(idx[p]), Release(want[p], p, where),
           UNCHANGED onCpu
    PROVE  SlotsExact' /\ CursorExact'
<1>1. /\ Used = count /\ count \in Nat /\ count <= MaxSlots /\ MaxSlots \in Nat
      /\ curIdx \in 1..count /\ slot[curIdx] = onCpu[0]
      /\ slot \in [1..MaxSlots -> Procs \cup {Nil}]
  BY Acting, SlotAssumption DEF Used, Undisturbed, IndInv, TypeOK, CursorExact, Procs
<1>2. idx[p] \in 2..count /\ idx[p] # curIdx /\ slot[idx[p]] = want[p] /\ want[p] \in Procs
  BY <1>1, Freeing DEF Procs
<1>3. count' = count - 1 /\ Used' = Used - 1
  BY <1>1, Freeing, Acting DEF TakeOut, Used, Undisturbed
<1>4. \A j \in 1..(count - 1) : slot'[j] = IF j = idx[p] THEN slot[count] ELSE slot[j]
  BY <1>1, <1>2 DEF TakeOut, SwapRemove
<1>5. SlotsExact'
  BY <1>1, <1>2, <1>3, <1>4, Freeing, TakenSlot DEF IndInv
<1>6. CursorExact'
  BY <1>1, <1>2, <1>3, <1>4 DEF CursorExact, TakeOut
<1> QED
  BY <1>5, <1>6

LEMMA WaitFoundKeeps ==
    ASSUME SingleCore, IndInv, NEW p \in Users, WaitFound(p)
    PROVE  IndInv'
<1>1. /\ p \in Procs /\ p # Shell /\ Runs(p) /\ TypeOK
      /\ curIdx \in 1..count /\ slot[curIdx] = p /\ st[p] # "ZOMBIE" /\ pc[Shell] # "remove"
  BY Acting, NilAssumption DEF Procs, IndInv, WaitFound, Undisturbed
<1>2. PICK zi \in 1..count :
          /\ st[slot[zi]] = "ZOMBIE"
          /\ idx' = [idx EXCEPT ![p] = zi] /\ want' = [want EXCEPT ![p] = slot[zi]]
  BY DEF WaitFound, Lowest, ZombieSlots
<1>3. Used = count /\ slot[1] = Shell /\ st[Shell] # "ZOMBIE" /\ slot[zi] \in Procs
  BY <1>1 DEF Used, IndInv, SlotsExact, PcExact
<1>4. slot[zi] \in Users /\ zi \in 2..count /\ zi # curIdx
  BY <1>1, <1>2, <1>3 DEF Procs
<1>5. TypeOK'
  <2>1. /\ idx' \in [Procs -> Nat] /\ want' \in [Procs -> Procs \cup {Nil}]
        /\ pc' \in [Procs -> PcValues]
    <3>1. zi \in Nat
      OBVIOUS
    <3> QED
      BY <1>1, <1>2, <1>3, <3>1 DEF TypeOK, WaitFound, PcValues
  <2> QED
    BY <1>1, <2>1 DEF TypeOK, WaitFound
<1>6. SlotsExact' /\ CursorExact'
  BY <1>1, SameSlots DEF WaitFound, IndInv, CursorExact, Used, Exists, TypeOK
<1>7. MaskedRun' /\ RoomLeft'
  BY <1>1, Acting DEF WaitFound, IndInv, MaskedRun, RoomLeft, Undisturbed, TypeOK
<1>8. Choices'
  <2>1. AboutToFree(p)'
    BY <1>1, <1>2, <1>3, <1>4 DEF AboutToFree, WaitFound, TypeOK, Used
  <2>2. \A q \in Procs : q # p => pc'[q] \notin Undisturbed
    BY <1>1, Acting DEF WaitFound, TypeOK
  <2> QED
    BY <1>1, <2>1, <2>2 DEF Choices, Undisturbed, Procs
<1>9. PcExact'
  BY <1>1, Acting DEF WaitFound, IndInv, PcExact, UserPcs, Exists, TypeOK
<1> QED
  BY <1>5, <1>6, <1>7, <1>8, <1>9 DEF IndInv

LEMMA WaitReapKeeps ==
    ASSUME SingleCore, IndInv, NEW p \in Users, WaitReap(p)
    PROVE  IndInv'
<1>1. /\ p \in Procs /\ p # Shell /\ Runs(p) /\ TypeOK /\ pc[p] = "collect"
      /\ st[p] # "ZOMBIE" /\ Exists(p) /\ Used = count /\ "ret" \in PcValues \ {"remove"}
  BY Acting, NilAssumption DEF Procs, IndInv, WaitReap, Undisturbed, Used, PcValues
<1>2. idx[p] \in 2..count /\ want[p] \in Procs /\ count' = count - 1 /\ onCpu' = onCpu
  BY <1>1, Freeing DEF WaitReap, TakeOut, Procs
<1>3. TypeOK'
  <2>1. slot' \in [1..MaxSlots -> Procs \cup {Nil}] /\ idx' \in [Procs -> Nat]
    <3>1. slot[count] \in Procs \cup {Nil}
      BY <1>1, <1>2, SlotAssumption DEF TypeOK
    <3> QED
      BY <1>1, <3>1 DEF TypeOK, WaitReap, TakeOut, SwapRemove
  <2>2. count' \in 0..MaxSlots /\ curIdx' \in 1..MaxSlots
    BY <1>1, <1>2, SlotAssumption DEF TypeOK, WaitReap, TakeOut
  <2> QED
    BY <1>1, <1>2, <2>1, <2>2, FreeingTyped DEF TypeOK, WaitReap
<1>4. SlotsExact' /\ CursorExact'
  BY <1>1, <1>2, TakingOut DEF WaitReap
<1>5. /\ \A q \in Procs : pc'[q] \notin Undisturbed /\ pc'[Shell] = pc[Shell]
      /\ \A q \in Procs : st'[q] = IF q = want[p] THEN "freed" ELSE st[q]
      /\ \A q \in Procs : pc'[q] = IF q = p THEN "ret" ELSE IF q = want[p] THEN "none" ELSE pc[q]
      /\ want[p] # Shell /\ want[p] # p
  BY <1>1, Acting, Freeing DEF WaitReap, Undisturbed
<1>6. MaskedRun' /\ RoomLeft' /\ Choices'
  BY <1>5 DEF MaskedRun, RoomLeft, Choices, Undisturbed, Procs
<1>7. PcExact'
  BY <1>1, <1>2, <1>5, Acting DEF IndInv, PcExact, UserPcs, Exists, Procs
<1> QED
  BY <1>3, <1>4, <1>6, <1>7 DEF IndInv

----------------------------------------------------------------------------
(* The shell thread.                                                         *)

\* A step of the shell that leaves the table alone, and starts or ends no removal.
LEMMA QuietShell ==
    ASSUME SingleCore, IndInv, TypeOK', RoomLeft', Choices', Runs(Shell),
           UNCHANGED <<slot, count, curIdx, onCpu>>,
           \A q \in Users : pc'[q] = pc[q],
           pc[Shell] # "remove", pc'[Shell] \in ShellPcs \ {"remove"},
           \A q \in Procs : Exists(q)' <=> Exists(q),
           st'[Shell] \in {"RUN", "BLOCKED"}
    PROVE  IndInv'
<1>1. Shell \in Procs /\ \A q \in Procs : q # Shell => q \in Users /\ onCpu[0] # q
  BY Acting, NilAssumption DEF Procs
<1>2. SlotsExact' /\ CursorExact'
  BY SameSlots DEF IndInv, CursorExact, Used
<1>3. MaskedRun'
  BY <1>1, Acting DEF MaskedRun
<1>4. PcExact'
  <2>1. \A q \in Users : pc[q] \in UserPcs /\ (pc[q] = "none" <=> ~Exists(q))
    BY DEF IndInv, PcExact
  <2>2. \A q \in Users : onCpu'[0] # q
    BY <1>1, NilAssumption DEF Procs
  <2> QED
    BY <2>1, <2>2 DEF PcExact, Exists, Procs
<1> QED
  BY <1>2, <1>3, <1>4 DEF IndInv

\* While the shell runs, no ring-3 process is in the middle of an update of the table.
LEMMA ShellActs ==
    ASSUME SingleCore, IndInv, Runs(Shell)
    PROVE  /\ Shell \in Procs /\ TypeOK /\ Exists(Shell)
           /\ \A q \in Users : q \in Procs /\ q # Shell /\ pc[q] \notin Undisturbed
BY Acting, NilAssumption DEF Procs, IndInv

\* A process that a scan of the table finds exists.
LEMMA FoundExists ==
    ASSUME IndInv, pc[Shell] # "remove", NEW p \in Procs, Found(p)
    PROVE  Exists(p)
BY DEF Found, Live, IndInv, SlotsExact, Used

LEMMA SpawnCheckKeeps ==
    ASSUME SingleCore, IndInv, SpawnCheck
    PROVE  IndInv'
<1>1. Runs(Shell) /\ Shell \in Procs /\ TypeOK
  BY ShellActs DEF SpawnCheck
<1>2. TypeOK'
  BY <1>1 DEF TypeOK, SpawnCheck, PcValues, States, Procs
<1>3. /\ pc[Shell] # "remove" /\ pc'[Shell] \in ShellPcs \ {"remove"}
      /\ \A q \in Users : pc'[q] = pc[q]
      /\ \A q \in Procs : Exists(q)' <=> Exists(q)
      /\ st'[Shell] \in {"RUN", "BLOCKED"}
  BY <1>1, ShellActs DEF SpawnCheck, TypeOK, Exists, ShellPcs, IndInv, PcExact
<1>4. RoomLeft'
  BY <1>1, <1>3, ShellActs DEF SpawnCheck, RoomLeft, Undisturbed, Procs, TypeOK
<1>5. Choices'
  BY <1>1, <1>3, ShellActs DEF SpawnCheck, Choices, Undisturbed, Procs, TypeOK
<1> QED
  BY <1>1, <1>2, <1>3, <1>4, <1>5, QuietShell DEF SpawnCheck

LEMMA SpawnLoadKeeps ==
    ASSUME SingleCore, IndInv, SpawnLoad
    PROVE  IndInv'
<1>1. Runs(Shell) /\ Shell \in Procs /\ TypeOK
  BY ShellActs DEF SpawnLoad
<1>2. TypeOK'
  BY <1>1 DEF TypeOK, SpawnLoad, PcValues, States, Procs
<1>3. /\ pc[Shell] # "remove" /\ pc'[Shell] \in ShellPcs \ {"remove"}
      /\ \A q \in Users : pc'[q] = pc[q]
      /\ \A q \in Procs : Exists(q)' <=> Exists(q)
      /\ st'[Shell] \in {"RUN", "BLOCKED"}
  BY <1>1, ShellActs DEF SpawnLoad, TypeOK, Exists, ShellPcs, IndInv, PcExact
<1>4. RoomLeft'
  BY <1>1, <1>3, ShellActs DEF SpawnLoad, IndInv, RoomLeft, Undisturbed, Procs, TypeOK
<1>5. Choices'
  BY <1>1, <1>3, ShellActs DEF SpawnLoad, Choices, Undisturbed, Procs, TypeOK
<1> QED
  BY <1>1, <1>2, <1>3, <1>4, <1>5, QuietShell DEF SpawnLoad

LEMMA KillLiveKeeps ==
    ASSUME SingleCore, IndInv, NEW p \in Users, KillLive(p)
    PROVE  IndInv'
<1>1. Runs(Shell) /\ Shell \in Procs /\ TypeOK /\ pc[Shell] = "shell" /\ Found(p)
  BY ShellActs DEF KillLive
<1>2. TypeOK'
  BY <1>1 DEF TypeOK, KillLive, PcValues, States, Procs
<1>3. Exists(p)
  BY <1>1, FoundExists DEF Procs
<1>4. /\ pc[Shell] # "remove" /\ pc'[Shell] \in ShellPcs \ {"remove"}
      /\ \A q \in Users : pc'[q] = pc[q]
      /\ \A q \in Procs : Exists(q)' <=> Exists(q)
      /\ st'[Shell] \in {"RUN", "BLOCKED"}
  BY <1>1, <1>3, ShellActs DEF KillLive, TypeOK, Exists, ShellPcs, IndInv, PcExact
<1>5. RoomLeft'
  BY <1>1, <1>4, ShellActs DEF KillLive, RoomLeft, Undisturbed, Procs, TypeOK
<1>6. Choices'
  BY <1>1, <1>4, ShellActs DEF KillLive, Choices, Undisturbed, Procs, TypeOK
<1> QED
  BY <1>1, <1>2, <1>4, <1>5, <1>6, QuietShell DEF KillLive

LEMMA KillWakesKeeps ==
    ASSUME SingleCore, IndInv, KillWakes
    PROVE  IndInv'
<1>1. Runs(Shell) /\ Shell \in Procs /\ TypeOK
  BY ShellActs DEF KillWakes
<1>2. TypeOK'
  BY <1>1 DEF TypeOK, KillWakes, LeaveCall, EnterAndWake, WakesParent, PcValues, States, Procs
<1>3. /\ pc[Shell] # "remove" /\ pc'[Shell] \in ShellPcs \ {"remove"}
      /\ \A q \in Users : pc'[q] = pc[q]
      /\ \A q \in Procs : Exists(q)' <=> Exists(q)
      /\ st'[Shell] \in {"RUN", "BLOCKED"}
  BY <1>1, ShellActs DEF KillWakes, LeaveCall, EnterAndWake, WakesParent, TypeOK, Exists, ShellPcs, IndInv, PcExact
<1>4. RoomLeft'
  BY <1>1, <1>3, ShellActs DEF KillWakes, LeaveCall, EnterAndWake, WakesParent, RoomLeft, Undisturbed, Procs, TypeOK
<1>5. Choices'
  BY <1>1, <1>3, ShellActs DEF KillWakes, LeaveCall, EnterAndWake, WakesParent, Choices, Undisturbed, Procs, TypeOK
<1> QED
  BY <1>1, <1>2, <1>3, <1>4, <1>5, QuietShell DEF KillWakes

LEMMA ReapBeginKeeps ==
    ASSUME SingleCore, IndInv, ReapBegin
    PROVE  IndInv'
<1>1. Runs(Shell) /\ Shell \in Procs /\ TypeOK
  BY ShellActs DEF ReapBegin
<1>2. TypeOK'
  BY <1>1 DEF TypeOK, ReapBegin, PcValues, States, Procs
<1>3. /\ pc[Shell] # "remove" /\ pc'[Shell] \in ShellPcs \ {"remove"}
      /\ \A q \in Users : pc'[q] = pc[q]
      /\ \A q \in Procs : Exists(q)' <=> Exists(q)
      /\ st'[Shell] \in {"RUN", "BLOCKED"}
  BY <1>1, ShellActs DEF ReapBegin, TypeOK, Exists, ShellPcs, IndInv, PcExact
<1>4. RoomLeft'
  BY <1>1, <1>3, ShellActs DEF ReapBegin, RoomLeft, Undisturbed, Procs, TypeOK
<1>5. Choices'
  BY <1>1, <1>3, ShellActs DEF ReapBegin, Choices, Undisturbed, Procs, TypeOK
<1> QED
  BY <1>1, <1>2, <1>3, <1>4, <1>5, QuietShell DEF ReapBegin

LEMMA ReapSlotKeeps ==
    ASSUME SingleCore, IndInv, ReapSlot
    PROVE  IndInv'
<1>1. Runs(Shell) /\ Shell \in Procs /\ TypeOK /\ pc[Shell] = "reap"
  BY ShellActs DEF ReapSlot
<1> DEFINE i == idx[Shell]
<1>2. i \in 1..Used /\ i # curIdx /\ st[slot[i]] = "ZOMBIE" /\ Used = count
  BY <1>1 DEF ReapSlot, ReapsHere, IndInv, Choices, Used, TypeOK
<1>3. slot[i] \in Users /\ i # 1
  BY <1>1, <1>2 DEF IndInv, SlotsExact, PcExact, Procs
<1>4. TypeOK'
  BY <1>1, <1>3 DEF TypeOK, ReapSlot, PcValues, Procs
<1>5. /\ pc'[Shell] = "reapFree" /\ \A q \in Users : pc'[q] = pc[q]
      /\ \A q \in Procs : Exists(q)' <=> Exists(q)
      /\ st'[Shell] \in {"RUN", "BLOCKED"}
  BY <1>1, ShellActs DEF ReapSlot, TypeOK, Exists, IndInv, PcExact
<1>6. RoomLeft'
  BY <1>1, <1>5, ShellActs DEF ReapSlot, RoomLeft, Undisturbed, Procs
<1>7. Choices'
  <2>1. AboutToFree(Shell)'
    BY <1>1, <1>2, <1>3, <1>5 DEF AboutToFree, ReapSlot, Used, TypeOK
  <2> QED
    BY <1>5, <2>1, ShellActs, <1>1 DEF Choices, Undisturbed, Procs
<1> QED
  BY <1>1, <1>4, <1>5, <1>6, <1>7, QuietShell DEF ReapSlot, ShellPcs

LEMMA ReapSkipKeeps ==
    ASSUME SingleCore, IndInv, ReapSkip
    PROVE  IndInv'
<1>1. Runs(Shell) /\ Shell \in Procs /\ TypeOK
  BY ShellActs DEF ReapSkip
<1>2. TypeOK'
  BY <1>1 DEF TypeOK, ReapSkip, PcValues, States, Procs
<1>3. /\ pc[Shell] # "remove" /\ pc'[Shell] \in ShellPcs \ {"remove"}
      /\ \A q \in Users : pc'[q] = pc[q]
      /\ \A q \in Procs : Exists(q)' <=> Exists(q)
      /\ st'[Shell] \in {"RUN", "BLOCKED"}
  BY <1>1, ShellActs DEF ReapSkip, TypeOK, Exists, ShellPcs, IndInv, PcExact
<1>4. RoomLeft'
  BY <1>1, <1>3, ShellActs DEF ReapSkip, RoomLeft, Undisturbed, Procs, TypeOK
<1>5. Choices'
  BY <1>1, <1>3, ShellActs DEF ReapSkip, Choices, Undisturbed, Procs, TypeOK
<1> QED
  BY <1>1, <1>2, <1>3, <1>4, <1>5, QuietShell DEF ReapSkip

LEMMA ReapEndKeeps ==
    ASSUME SingleCore, IndInv, ReapEnd
    PROVE  IndInv'
<1>1. Runs(Shell) /\ Shell \in Procs /\ TypeOK
  BY ShellActs DEF ReapEnd
<1>2. TypeOK'
  BY <1>1 DEF TypeOK, ReapEnd, PcValues, States, Procs
<1>3. /\ pc[Shell] # "remove" /\ pc'[Shell] \in ShellPcs \ {"remove"}
      /\ \A q \in Users : pc'[q] = pc[q]
      /\ \A q \in Procs : Exists(q)' <=> Exists(q)
      /\ st'[Shell] \in {"RUN", "BLOCKED"}
  BY <1>1, ShellActs DEF ReapEnd, TypeOK, Exists, ShellPcs, IndInv, PcExact
<1>4. RoomLeft'
  BY <1>1, <1>3, ShellActs DEF ReapEnd, RoomLeft, Undisturbed, Procs, TypeOK
<1>5. Choices'
  BY <1>1, <1>3, ShellActs DEF ReapEnd, Choices, Undisturbed, Procs, TypeOK
<1> QED
  BY <1>1, <1>2, <1>3, <1>4, <1>5, QuietShell DEF ReapEnd

LEMMA CallKwaitKeeps ==
    ASSUME SingleCore, IndInv, NEW p \in Users, CallKwait(p)
    PROVE  IndInv'
<1>1. Runs(Shell) /\ Shell \in Procs /\ TypeOK
  BY ShellActs DEF CallKwait
<1>2. TypeOK'
  BY <1>1 DEF TypeOK, CallKwait, PcValues, States, Procs
<1>3. /\ pc[Shell] # "remove" /\ pc'[Shell] \in ShellPcs \ {"remove"}
      /\ \A q \in Users : pc'[q] = pc[q]
      /\ \A q \in Procs : Exists(q)' <=> Exists(q)
      /\ st'[Shell] \in {"RUN", "BLOCKED"}
  BY <1>1, ShellActs DEF CallKwait, TypeOK, Exists, ShellPcs, IndInv, PcExact
<1>4. RoomLeft'
  BY <1>1, <1>3, ShellActs DEF CallKwait, RoomLeft, Undisturbed, Procs, TypeOK
<1>5. Choices'
  BY <1>1, <1>3, ShellActs DEF CallKwait, Choices, Undisturbed, Procs, TypeOK
<1> QED
  BY <1>1, <1>2, <1>3, <1>4, <1>5, QuietShell DEF CallKwait

LEMMA CallKwaitAllKeeps ==
    ASSUME SingleCore, IndInv, CallKwaitAll
    PROVE  IndInv'
<1>1. Runs(Shell) /\ Shell \in Procs /\ TypeOK
  BY ShellActs DEF CallKwaitAll
<1>2. TypeOK'
  BY <1>1 DEF TypeOK, CallKwaitAll, PcValues, States, Procs
<1>3. /\ pc[Shell] # "remove" /\ pc'[Shell] \in ShellPcs \ {"remove"}
      /\ \A q \in Users : pc'[q] = pc[q]
      /\ \A q \in Procs : Exists(q)' <=> Exists(q)
      /\ st'[Shell] \in {"RUN", "BLOCKED"}
  BY <1>1, ShellActs DEF CallKwaitAll, TypeOK, Exists, ShellPcs, IndInv, PcExact
<1>4. RoomLeft'
  BY <1>1, <1>3, ShellActs DEF CallKwaitAll, RoomLeft, Undisturbed, Procs, TypeOK
<1>5. Choices'
  BY <1>1, <1>3, ShellActs DEF CallKwaitAll, Choices, Undisturbed, Procs, TypeOK
<1> QED
  BY <1>1, <1>2, <1>3, <1>4, <1>5, QuietShell DEF CallKwaitAll

LEMMA CallKsleepKeeps ==
    ASSUME SingleCore, IndInv, CallKsleep
    PROVE  IndInv'
<1>1. Runs(Shell) /\ Shell \in Procs /\ TypeOK
  BY ShellActs DEF CallKsleep
<1>2. TypeOK'
  BY <1>1 DEF TypeOK, CallKsleep, PcValues, States, Procs
<1>3. /\ pc[Shell] # "remove" /\ pc'[Shell] \in ShellPcs \ {"remove"}
      /\ \A q \in Users : pc'[q] = pc[q]
      /\ \A q \in Procs : Exists(q)' <=> Exists(q)
      /\ st'[Shell] \in {"RUN", "BLOCKED"}
  BY <1>1, ShellActs DEF CallKsleep, TypeOK, Exists, ShellPcs, IndInv, PcExact
<1>4. RoomLeft'
  BY <1>1, <1>3, ShellActs DEF CallKsleep, RoomLeft, Undisturbed, Procs, TypeOK
<1>5. Choices'
  BY <1>1, <1>3, ShellActs DEF CallKsleep, Choices, Undisturbed, Procs, TypeOK
<1> QED
  BY <1>1, <1>2, <1>3, <1>4, <1>5, QuietShell DEF CallKsleep

LEMMA KwaitScanKeeps ==
    ASSUME SingleCore, IndInv, KwaitScan
    PROVE  IndInv'
<1>1. Runs(Shell) /\ Shell \in Procs /\ TypeOK
  BY ShellActs DEF KwaitScan
<1>2. TypeOK'
  BY <1>1 DEF TypeOK, KwaitScan, PcValues, States, Procs
<1>3. /\ pc[Shell] # "remove" /\ pc'[Shell] \in ShellPcs \ {"remove"}
      /\ \A q \in Users : pc'[q] = pc[q]
      /\ \A q \in Procs : Exists(q)' <=> Exists(q)
      /\ st'[Shell] \in {"RUN", "BLOCKED"}
  BY <1>1, ShellActs DEF KwaitScan, TypeOK, Exists, ShellPcs, IndInv, PcExact
<1>4. RoomLeft'
  BY <1>1, <1>3, ShellActs DEF KwaitScan, RoomLeft, Undisturbed, Procs, TypeOK
<1>5. Choices'
  BY <1>1, <1>3, ShellActs DEF KwaitScan, Choices, Undisturbed, Procs, TypeOK
<1> QED
  BY <1>1, <1>2, <1>3, <1>4, <1>5, QuietShell DEF KwaitScan

LEMMA KallScanKeeps ==
    ASSUME SingleCore, IndInv, KallScan
    PROVE  IndInv'
<1>1. Runs(Shell) /\ Shell \in Procs /\ TypeOK
  BY ShellActs DEF KallScan
<1>2. TypeOK'
  BY <1>1 DEF TypeOK, KallScan, PcValues, States, Procs
<1>3. /\ pc[Shell] # "remove" /\ pc'[Shell] \in ShellPcs \ {"remove"}
      /\ \A q \in Users : pc'[q] = pc[q]
      /\ \A q \in Procs : Exists(q)' <=> Exists(q)
      /\ st'[Shell] \in {"RUN", "BLOCKED"}
  BY <1>1, ShellActs DEF KallScan, TypeOK, Exists, ShellPcs, IndInv, PcExact
<1>4. RoomLeft'
  BY <1>1, <1>3, ShellActs DEF KallScan, RoomLeft, Undisturbed, Procs, TypeOK
<1>5. Choices'
  BY <1>1, <1>3, ShellActs DEF KallScan, Choices, Undisturbed, Procs, TypeOK
<1> QED
  BY <1>1, <1>2, <1>3, <1>4, <1>5, QuietShell DEF KallScan

LEMMA KwaitParksKeeps ==
    ASSUME SingleCore, IndInv, KwaitParks
    PROVE  IndInv'
<1>1. Runs(Shell) /\ Shell \in Procs /\ TypeOK
  BY ShellActs DEF KwaitParks
<1>2. TypeOK'
  BY <1>1 DEF TypeOK, KwaitParks, PcValues, States, Procs
<1>3. /\ pc[Shell] # "remove" /\ pc'[Shell] \in ShellPcs \ {"remove"}
      /\ \A q \in Users : pc'[q] = pc[q]
      /\ \A q \in Procs : Exists(q)' <=> Exists(q)
      /\ st'[Shell] \in {"RUN", "BLOCKED"}
  BY <1>1, ShellActs DEF KwaitParks, TypeOK, Exists, ShellPcs, IndInv, PcExact
<1>4. RoomLeft'
  BY <1>1, <1>3, ShellActs DEF KwaitParks, RoomLeft, Undisturbed, Procs, TypeOK
<1>5. Choices'
  BY <1>1, <1>3, ShellActs DEF KwaitParks, Choices, Undisturbed, Procs, TypeOK
<1> QED
  BY <1>1, <1>2, <1>3, <1>4, <1>5, QuietShell DEF KwaitParks

LEMMA KsleepEndsKeeps ==
    ASSUME SingleCore, IndInv, KsleepEnds
    PROVE  IndInv'
<1>1. Runs(Shell) /\ Shell \in Procs /\ TypeOK
  BY ShellActs DEF KsleepEnds
<1>2. TypeOK'
  BY <1>1 DEF TypeOK, KsleepEnds, PcValues, States, Procs
<1>3. /\ pc[Shell] # "remove" /\ pc'[Shell] \in ShellPcs \ {"remove"}
      /\ \A q \in Users : pc'[q] = pc[q]
      /\ \A q \in Procs : Exists(q)' <=> Exists(q)
      /\ st'[Shell] \in {"RUN", "BLOCKED"}
  BY <1>1, ShellActs DEF KsleepEnds, TypeOK, Exists, ShellPcs, IndInv, PcExact
<1>4. RoomLeft'
  BY <1>1, <1>3, ShellActs DEF KsleepEnds, RoomLeft, Undisturbed, Procs, TypeOK
<1>5. Choices'
  BY <1>1, <1>3, ShellActs DEF KsleepEnds, Choices, Undisturbed, Procs, TypeOK
<1> QED
  BY <1>1, <1>2, <1>3, <1>4, <1>5, QuietShell DEF KsleepEnds

LEMMA KsleepParksKeeps ==
    ASSUME SingleCore, IndInv, KsleepParks
    PROVE  IndInv'
<1>1. Runs(Shell) /\ Shell \in Procs /\ TypeOK
  BY ShellActs DEF KsleepParks
<1>2. TypeOK'
  BY <1>1 DEF TypeOK, KsleepParks, PcValues, States, Procs
<1>3. /\ pc[Shell] # "remove" /\ pc'[Shell] \in ShellPcs \ {"remove"}
      /\ \A q \in Users : pc'[q] = pc[q]
      /\ \A q \in Procs : Exists(q)' <=> Exists(q)
      /\ st'[Shell] \in {"RUN", "BLOCKED"}
  BY <1>1, ShellActs DEF KsleepParks, TypeOK, Exists, ShellPcs, IndInv, PcExact
<1>4. RoomLeft'
  BY <1>1, <1>3, ShellActs DEF KsleepParks, RoomLeft, Undisturbed, Procs, TypeOK
<1>5. Choices'
  BY <1>1, <1>3, ShellActs DEF KsleepParks, Choices, Undisturbed, Procs, TypeOK
<1> QED
  BY <1>1, <1>2, <1>3, <1>4, <1>5, QuietShell DEF KsleepParks

LEMMA SpawnStoreKeeps ==
    ASSUME SingleCore, IndInv, NEW p \in Users, NEW c \in Cpus, SpawnStore(p, c)
    PROVE  IndInv'
<1>1. /\ Runs(Shell) /\ Shell \in Procs /\ TypeOK /\ p \in Procs /\ p # Shell
      /\ pc[Shell] = "append" /\ onCpu[0] = Shell
  BY ShellActs, Acting DEF SpawnStore
<1>2. num[Shell] = count /\ count \in Nat /\ count + 1 \in 1..MaxSlots /\ Used = count
  BY <1>1, SlotAssumption DEF IndInv, RoomLeft, TypeOK, Used
<1>3. TypeOK'
  <2>1. slot' \in [1..MaxSlots -> Procs \cup {Nil}] /\ count' \in 0..MaxSlots
    BY <1>1, <1>2 DEF TypeOK, SpawnStore, Append
  <2>2. st' \in [Procs -> States] /\ pc' \in [Procs -> PcValues]
    BY <1>1 DEF TypeOK, SpawnStore, Append, States, PcValues
  <2> QED
    BY <1>1, <2>1, <2>2 DEF TypeOK, SpawnStore, Append
<1>4. /\ \A q \in Procs : pc'[q] = IF q = Shell THEN "shell" ELSE IF q = p THEN "user" ELSE pc[q]
      /\ \A q \in Procs : st'[q] = IF q = p THEN "RUN" ELSE st[q]
      /\ onCpu' = onCpu
  BY <1>1 DEF SpawnStore, Append, TypeOK
<1>5. SlotsExact'
  <2>1. Used' = count + 1
    <3>1. count' = count + 1 /\ pc'[Shell] = "shell"
      BY <1>1, <1>2, <1>4 DEF SpawnStore, Append
    <3> QED
      BY <3>1 DEF Used
  <2>2. /\ slot'[count + 1] = p
        /\ \A i \in 1..count : slot'[i] = slot[i]
    BY <1>1, <1>2 DEF SpawnStore, Append, TypeOK
  <2>3. \A q \in Procs : Exists(q)' <=> Exists(q) \/ q = p
    BY <1>4 DEF Exists
  <2>4. 1 \in 1..count
    BY <1>1, <1>2, Acting
  <2> QED
    BY <1>1, <1>2, <2>1, <2>2, <2>3, <2>4, AddedSlot DEF IndInv, SpawnStore, Exists
<1>6. CursorExact'
  BY <1>1, <1>2, <1>4, Acting DEF SpawnStore, Append, CursorExact, TypeOK
<1>7. MaskedRun' /\ RoomLeft' /\ Choices'
  BY <1>1, <1>4, ShellActs DEF MaskedRun, RoomLeft, Choices, Undisturbed, Procs
<1>8. PcExact'
  BY <1>1, <1>4, ShellActs DEF IndInv, PcExact, UserPcs, ShellPcs, Exists, Procs
<1> QED
  BY <1>3, <1>5, <1>6, <1>7, <1>8 DEF IndInv

LEMMA ReapFreeKeeps ==
    ASSUME SingleCore, IndInv, ReapFree
    PROVE  IndInv'
<1>1. /\ Runs(Shell) /\ Shell \in Procs /\ TypeOK /\ pc[Shell] = "reapFree" /\ onCpu[0] = Shell
      /\ Used = count /\ "reap" \in PcValues \ {"remove"}
  BY ShellActs, Acting DEF ReapFree, Used, PcValues
<1>2. idx[Shell] \in 2..count /\ want[Shell] \in Procs /\ count' = count - 1 /\ onCpu' = onCpu
  BY <1>1, Freeing DEF ReapFree, TakeOut, Procs
<1>3. TypeOK'
  <2>1. slot' \in [1..MaxSlots -> Procs \cup {Nil}]
    <3>1. slot[count] \in Procs \cup {Nil}
      BY <1>1, <1>2, SlotAssumption DEF TypeOK
    <3> QED
      BY <1>1, <3>1 DEF TypeOK, ReapFree, TakeOut, SwapRemove
  <2>2. count' \in 0..MaxSlots /\ curIdx' \in 1..MaxSlots
    BY <1>1, <1>2, SlotAssumption DEF TypeOK, ReapFree, TakeOut
  <2>3. schedCur' \in [Cpus -> Procs \cup {Nil}]
    BY <1>1 DEF TypeOK, ReapFree, Forget
  <2> QED
    BY <1>1, <1>2, <2>1, <2>2, <2>3, FreeingTyped DEF TypeOK, ReapFree
<1>4. SlotsExact' /\ CursorExact'
  BY <1>1, <1>2, TakingOut DEF ReapFree
<1>5. /\ \A q \in Procs : st'[q] = IF q = want[Shell] THEN "freed" ELSE st[q]
      /\ \A q \in Procs : pc'[q] = IF q = Shell THEN "reap"
                                   ELSE IF q = want[Shell] THEN "none" ELSE pc[q]
      /\ want[Shell] # Shell
  BY <1>1, Freeing DEF ReapFree
<1>6. MaskedRun' /\ RoomLeft'
  BY <1>1, <1>2, <1>5, ShellActs DEF MaskedRun, RoomLeft, Undisturbed, Procs
<1>7. Choices'
  <2>1. pc'[Shell] = "reap" /\ idx'[Shell] >= 1
    BY <1>1, <1>2, <1>5 DEF ReapFree
  <2>2. \A q \in Users : pc'[q] \notin Undisturbed
    BY <1>1, <1>5, ShellActs DEF Undisturbed
  <2> QED
    BY <2>1, <2>2 DEF Choices, Undisturbed, Procs
<1>8. PcExact'
  BY <1>1, <1>2, <1>5, ShellActs DEF IndInv, PcExact, UserPcs, ShellPcs, Exists, Procs
<1> QED
  BY <1>3, <1>4, <1>6, <1>7, <1>8 DEF IndInv

LEMMA KillZombieKeeps ==
    ASSUME SingleCore, IndInv, NEW p \in Users, KillZombie(p)
    PROVE  IndInv'
<1>1. /\ Runs(Shell) /\ Shell \in Procs /\ TypeOK /\ pc[Shell] = "shell" /\ onCpu[0] = Shell
      /\ curIdx \in 1..count /\ slot[curIdx] = Shell /\ p \in Procs /\ p # Shell
  BY ShellActs, Acting DEF KillZombie
<1>2. PICK i \in 1..count : slot[i] = p /\ idx' = [idx EXCEPT ![Shell] = i]
  BY DEF KillZombie, Lowest
<1>3. Used = count /\ count \in Nat /\ count <= MaxSlots /\ MaxSlots \in Nat
  BY <1>1, SlotAssumption DEF Used, TypeOK
<1>4. slot[1] = Shell /\ curIdx = 1 /\ i \in 2..count
  BY <1>1, <1>2, <1>3 DEF IndInv, SlotsExact
<1>5. TypeOK'
  <2>1. /\ pc' \in [Procs -> PcValues] /\ num' \in [Procs -> Nat] /\ idx' \in [Procs -> Nat]
        /\ want' \in [Procs -> Procs \cup {Nil}]
    BY <1>1, <1>2, <1>3, <1>4 DEF TypeOK, KillZombie, PcValues, Procs
  <2>2. count' \in 0..MaxSlots
    BY <1>1, <1>3, SlotAssumption DEF TypeOK, KillZombie
  <2> QED
    BY <1>1, <2>1, <2>2 DEF TypeOK, KillZombie
<1>6. /\ pc' = [pc EXCEPT ![Shell] = "remove"] /\ num'[Shell] = count /\ count' = count - 1
      /\ idx'[Shell] = i /\ want'[Shell] = p
  BY <1>1, <1>2 DEF KillZombie, TypeOK
<1>7. Used' = Used
  BY <1>1, <1>3, <1>6 DEF Used, TypeOK
<1>8. SlotsExact'
  BY <1>7, SameSlots DEF KillZombie, IndInv, Exists
<1>9. CursorExact'
  BY <1>1, <1>3, <1>4, <1>6 DEF KillZombie, CursorExact
<1>10. MaskedRun' /\ RoomLeft'
  BY <1>1, <1>6, ShellActs DEF KillZombie, MaskedRun, RoomLeft, Undisturbed, Procs, TypeOK
<1>11. Choices'
  <2>1. AboutToFree(Shell)'
    BY <1>1, <1>2, <1>3, <1>4, <1>6, <1>7 DEF AboutToFree, KillZombie
  <2> QED
    BY <1>1, <1>3, <1>6, <2>1, ShellActs DEF Choices, Undisturbed, Procs, TypeOK
<1>12. PcExact'
  <2>1. pc'[Shell] = "remove" /\ \A q \in Users : pc'[q] = pc[q]
    BY <1>1, <1>6, ShellActs DEF TypeOK
  <2>2. UNCHANGED <<st, onCpu>>
    BY DEF KillZombie, cpuVars
  <2> QED
    BY <2>1, <2>2 DEF IndInv, PcExact, ShellPcs, Exists
<1> QED
  BY <1>5, <1>8, <1>9, <1>10, <1>11, <1>12 DEF IndInv

LEMMA KillZombieMoveKeeps ==
    ASSUME SingleCore, IndInv, KillZombieMove
    PROVE  IndInv'
<1>1. /\ Runs(Shell) /\ Shell \in Procs /\ TypeOK /\ pc[Shell] = "remove" /\ onCpu[0] = Shell
      /\ "shell" \in PcValues
  BY ShellActs, Acting DEF KillZombieMove, PcValues
<1>2. /\ Used = num[Shell] /\ num[Shell] = count + 1 /\ count \in Nat /\ count + 1 \in 1..MaxSlots
      /\ curIdx \in 1..count /\ slot[curIdx] = Shell
  BY <1>1, SlotAssumption DEF Used, IndInv, Choices, CursorExact, TypeOK
<1>3. /\ idx[Shell] \in 2..(count + 1) /\ idx[Shell] # curIdx /\ slot[idx[Shell]] = want[Shell]
      /\ want[Shell] \in Procs /\ want[Shell] # Shell
      /\ \A q \in Procs : Exists(q)' <=> Exists(q) /\ q # want[Shell]
      /\ \A q \in Procs : st'[q] = IF q = want[Shell] THEN "freed" ELSE st[q]
      /\ \A q \in Procs : pc'[q] = IF q = Shell THEN "shell"
                                   ELSE IF q = want[Shell] THEN "none" ELSE pc[q]
  BY <1>1, <1>2, Freeing DEF KillZombieMove, Procs
<1>4. TypeOK'
  <2>1. slot' \in [1..MaxSlots -> Procs \cup {Nil}]
    <3>1. slot' = [slot EXCEPT ![idx[Shell]] = slot[count + 1]]
      BY <1>2 DEF KillZombieMove
    <3>2. slot[count + 1] \in Procs \cup {Nil}
      BY <1>1, <1>2 DEF TypeOK
    <3> QED
      BY <1>1, <3>1, <3>2 DEF TypeOK
  <2>2. schedCur' \in [Cpus -> Procs \cup {Nil}] /\ idx' \in [Procs -> Nat]
    BY <1>1 DEF TypeOK, KillZombieMove, Forget
  <2> QED
    BY <1>1, <1>3, <2>1, <2>2, FreeingTyped DEF TypeOK, KillZombieMove
<1>5. SlotsExact'
  <2>1. Used' = Used - 1
    BY <1>1, <1>2, <1>3 DEF KillZombieMove, Used
  <2>2. \A j \in 1..count : slot'[j] = IF j = idx[Shell] THEN slot[Used] ELSE slot[j]
    <3>1. slot' = [slot EXCEPT ![idx[Shell]] = slot[Used]]
      BY <1>2 DEF KillZombieMove
    <3>2. \A j \in 1..count : j \in DOMAIN slot
      BY <1>1, <1>2, SlotAssumption DEF TypeOK
    <3> QED
      BY <3>1, <3>2
  <2> QED
    BY <1>2, <1>3, <2>1, <2>2, TakenSlot DEF IndInv
<1>6. CursorExact'
  BY <1>1, <1>2, <1>3 DEF KillZombieMove, CursorExact, TypeOK
<1>7. MaskedRun' /\ RoomLeft' /\ Choices'
  BY <1>1, <1>3, ShellActs DEF KillZombieMove, MaskedRun, RoomLeft, Choices, Undisturbed, Procs
<1>8. PcExact'
  BY <1>1, <1>3, ShellActs DEF KillZombieMove, IndInv, PcExact, UserPcs, ShellPcs, Exists, Procs
<1> QED
  BY <1>4, <1>5, <1>6, <1>7, <1>8 DEF IndInv

----------------------------------------------------------------------------
(* Signals and the timer.                                                    *)

LEMMA KillKeeps ==
    ASSUME SingleCore, IndInv, NEW p \in Procs, NEW q \in Procs, NEW sig \in Sigs,
           Kill(p, q, sig)
    PROVE  IndInv'
<1>1. TypeOK /\ Runs(p)
  BY DEF IndInv, Kill
<1>2. TypeOK'
  BY <1>1 DEF TypeOK, Kill, Raise, PcValues, States, Procs
<1>3. \A r \in Procs : /\ Exists(r)' <=> Exists(r)
                       /\ st'[r] = "ZOMBIE" <=> st[r] = "ZOMBIE"
                       /\ st'[r] = st[r] \/ st'[r] = "RUN"
  BY <1>1 DEF Kill, Raise, Exists, TypeOK
<1>4. CASE p = Shell
  <2>1. /\ Runs(Shell) /\ \A r \in Procs : pc'[r] = pc[r]
        /\ pc[Shell] = "shell" /\ st'[Shell] \in {"RUN", "BLOCKED"}
    BY <1>1, <1>3, <1>4 DEF Kill, TypeOK, IndInv, PcExact
  <2>2. RoomLeft' /\ Choices'
    BY <2>1, ShellActs DEF RoomLeft, Choices, Undisturbed, Procs
  <2> QED
    BY <1>1, <1>2, <1>3, <2>1, <2>2, QuietShell DEF Kill, ShellPcs, Procs
<1>5. CASE p # Shell
  <2>1. /\ p \in Users /\ pc'[p] = "ret" /\ \A r \in Procs : r # p => pc'[r] = pc[r]
        /\ st'[Shell] \in {"RUN", "BLOCKED"} /\ st[p] # "ZOMBIE"
    BY <1>1, <1>3, <1>5, Acting DEF Kill, TypeOK, IndInv, PcExact, Procs
  <2> QED
    BY <1>1, <1>2, <1>3, <2>1, QuietUser DEF Kill, UserPcs, Undisturbed, Procs
<1> QED
  BY <1>4, <1>5

LEMMA TickBspKeeps ==
    ASSUME SingleCore, IndInv, NEW late \in SUBSET Sleeping, TickBsp(late)
    PROVE  IndInv'
<1> DEFINE awake == [p \in Procs |->
                       IF p \in Live /\ st[p] = "BLOCKED" /\ wakeAt[p] /\ expired'[p]
                       THEN "RUN" ELSE st[p]]
           cur == CurrentProcess(0)
<1>1. /\ TypeOK /\ Shell \in Procs
      /\ st' = awake
      /\ UNCHANGED <<slot, count, scan, ppid, cpu, waitFor, pend, reported, code, pc, argVars>>
      /\ \/ UNCHANGED <<curIdx, schedCur, onCpu, quantum>>
         \/ /\ cur # Nil /\ pc[Shell] \notin {"reap", "reapFree"}
            /\ Reschedule(cur, awake)
  BY DEF TickBsp, IndInv, Procs
<1>2. /\ curIdx \in 1..count /\ slot[curIdx] = onCpu[0] /\ cur = onCpu[0]
      /\ count \in Nat /\ count <= MaxSlots
  BY <1>1, SlotAssumption DEF IndInv, CursorExact, CurrentProcess, TypeOK
<1>3. /\ \A p \in Procs : Exists(p)' <=> Exists(p)
      /\ \A p \in Procs : st'[p] = "ZOMBIE" <=> st[p] = "ZOMBIE"
      /\ st'[Shell] \in {"RUN", "BLOCKED"}
      /\ st' \in [Procs -> States]
  BY <1>1 DEF Exists, IndInv, PcExact, TypeOK, States
<1>4. \/ UNCHANGED <<curIdx, onCpu>>
      \/ /\ pc[Shell] \notin {"reap", "reapFree"}
         /\ curIdx' \in 1..count /\ slot[curIdx'] # Nil
         /\ onCpu'[0] = slot[curIdx'] /\ st'[slot[curIdx']] = "RUN"
  <2>1. CASE UNCHANGED <<curIdx, onCpu>>
    BY <2>1
  <2>2. CASE \E next \in Pick(0, curIdx, awake) :
               curIdx' = next /\ onCpu' = [onCpu EXCEPT ![0] = slot[next]]
    <3>1. (cur # Nil /\ pc[Shell] \notin {"reap", "reapFree"}) \/ UNCHANGED <<curIdx, onCpu>>
      BY <1>1
    <3>2. PICK next \in Pick(0, curIdx, awake) :
             curIdx' = next /\ onCpu' = [onCpu EXCEPT ![0] = slot[next]]
      BY <2>2
    <3>3. next \in 1..count /\ slot[next] # Nil /\ awake[slot[next]] = "RUN"
      BY <3>2 DEF Pick, Ready
    <3>4. onCpu'[0] = slot[next]
      BY <1>1, <3>2 DEF TypeOK, Cpus
    <3> QED
      BY <1>1, <3>1, <3>2, <3>3, <3>4
  <2> QED
    BY <1>1, <2>1, <2>2 DEF Reschedule
<1>5. Used' = Used /\ slot' = slot
  BY <1>1 DEF Used, argVars
<1>6. SlotsExact' /\ CursorExact'
  BY <1>1, <1>2, <1>3, <1>4, <1>5, SameSlots DEF IndInv, CursorExact
<1>7. \A p \in Procs : pc[p] \in Undisturbed => onCpu[0] = p
  BY DEF IndInv, MaskedRun
<1>8. \A p \in Procs : pc[p] \in Undisturbed => p = Shell /\ pc[Shell] \in {"reap", "reapFree"}
  BY <1>1, <1>7 DEF TickBsp, IrqOff, SingleCore, Undisturbed, IndInv, PcExact, UserPcs, Procs
<1>9. MaskedRun' /\ RoomLeft'
  BY <1>1, <1>4, <1>7, <1>8 DEF MaskedRun, RoomLeft, Undisturbed
<1>10. Choices'
  BY <1>1, <1>3, <1>4, <1>5, <1>8
  DEF IndInv, Choices, AboutToFree, Undisturbed, argVars, Procs
<1>11. PcExact'
  BY <1>1, <1>3, <1>4 DEF IndInv, PcExact, Exists, Procs
<1>12. TypeOK'
  <2>1. curIdx' \in 1..MaxSlots /\ cur \in Procs
    <3>1. curIdx' \in 1..count
      BY <1>2, <1>4
    <3>2. curIdx \in 1..Used
      BY <1>2 DEF IndInv, Choices, Used
    <3> QED
      BY <1>2, <3>1, <3>2, SlotAssumption DEF IndInv, SlotsExact
  <2>2. /\ schedCur' \in [Cpus -> Procs \cup {Nil}] /\ onCpu' \in [Cpus -> Procs \cup {Nil}]
        /\ quantum' \in [Procs -> Nat]
    <3>1. CASE UNCHANGED <<schedCur, onCpu, quantum>>
      BY <1>1, <3>1 DEF TypeOK
    <3>2. CASE quantum[cur] > 1 /\ quantum' = [quantum EXCEPT ![cur] = @ - 1]
               /\ UNCHANGED <<schedCur, onCpu>>
      BY <1>1, <2>1, <3>2 DEF TypeOK
    <3>3. CASE \E next \in Pick(0, curIdx, awake) :
                 /\ schedCur' = [schedCur EXCEPT ![0] = slot[next]]
                 /\ onCpu' = [onCpu EXCEPT ![0] = slot[next]]
                 /\ quantum' = [quantum EXCEPT ![slot[next]] = Weight[slot[next]]]
      <4>1. PICK next \in 1..count :
                 /\ slot[next] # Nil
                 /\ schedCur' = [schedCur EXCEPT ![0] = slot[next]]
                 /\ onCpu' = [onCpu EXCEPT ![0] = slot[next]]
                 /\ quantum' = [quantum EXCEPT ![slot[next]] = Weight[slot[next]]]
        BY <3>3 DEF Pick, Ready
      <4>2. slot[next] \in Procs
        <5>1. slot \in [1..MaxSlots -> Procs \cup {Nil}]
          BY <1>1 DEF TypeOK
        <5>2. next \in 1..MaxSlots
          BY <1>2, SlotAssumption
        <5> QED
          BY <4>1, <5>1, <5>2
      <4>3. Weight[slot[next]] \in Nat
        BY <4>2, WeightAssumption DEF Procs
      <4> QED
        BY <1>1, <4>1, <4>2, <4>3 DEF TypeOK
    <3>4. CASE /\ UNCHANGED <<schedCur, onCpu>>
               /\ quantum' = [quantum EXCEPT ![cur] = IF awake[cur] = "RUN" THEN Weight[cur] ELSE @]
      BY <1>1, <1>2, <3>4, WeightAssumption DEF TypeOK, Procs
    <3> QED
      BY <1>1, <3>1, <3>2, <3>3, <3>4 DEF Reschedule
  <2>3. wakeAt' \in [Procs -> BOOLEAN] /\ expired' \in [Procs -> BOOLEAN]
    BY <1>1 DEF TickBsp, TypeOK
  <2> QED
    BY <1>1, <1>3, <2>1, <2>2, <2>3 DEF TypeOK, argVars
<1> QED
  BY <1>6, <1>9, <1>10, <1>11, <1>12 DEF IndInv

----------------------------------------------------------------------------
(* The theorems.                                                             *)

LEMMA InitKeeps == ASSUME SingleCore, Init PROVE IndInv
<1>1. Shell \in Procs /\ 0 \in Cpus /\ MaxSlots \in Nat /\ 1 \in 1..MaxSlots
  BY SlotAssumption DEF Procs, Cpus
<1>2. TypeOK
  BY <1>1 DEF Init, TypeOK, States, PcValues
<1>3. SlotsExact
  BY <1>1, NilAssumption DEF Init, SlotsExact, Used, Exists, Procs
<1> QED
  BY <1>1, <1>2, <1>3, NilAssumption
  DEF Init, IndInv, CursorExact, MaskedRun, Undisturbed, RoomLeft, Choices, PcExact, UserPcs,
      ShellPcs, Exists, Procs

LEMMA NextKeeps == ASSUME SingleCore, IndInv, [Next]_vars PROVE IndInv'
<1>1. CASE UNCHANGED vars
  <2>1. TypeOK'
    BY <1>1 DEF vars, IndInv, TypeOK
  <2>2. Used' = Used /\ \A p \in Procs : Exists(p)' <=> Exists(p)
    BY <1>1 DEF vars, Used, Exists
  <2>3. SlotsExact' /\ CursorExact' /\ MaskedRun' /\ RoomLeft'
    BY <1>1, <2>2, SameSlots DEF vars, IndInv, CursorExact, MaskedRun, RoomLeft
  <2>4. Choices' /\ PcExact'
    BY <1>1, <2>2 DEF vars, IndInv, Choices, AboutToFree, PcExact, Exists
  <2> QED
    BY <2>1, <2>3, <2>4 DEF IndInv
<1>2. CASE \E late \in SUBSET Sleeping : TickBsp(late)
  BY <1>2, TickBspKeeps
<1>3. CASE \E c \in Aps : TickAp(c)
  BY <1>3 DEF SingleCore
<1>4. ASSUME NEW p \in Users, UserStep(p) PROVE IndInv'
  BY <1>4, ForkKeeps, ExitKeeps, OtherSyscallKeeps, CallSleepKeeps, CallWaitpidKeeps
  DEF UserStep
<1>5. ASSUME NEW p \in Users, KernelStep(p) PROVE IndInv'
  <2>1. CASE ForkStep(p)
    BY <2>1, ForkLoadKeeps, ForkStoreKeeps DEF ForkStep
  <2>2. CASE WaitStep(p)
    BY <2>2, WaitFoundKeeps, WaitReapKeeps, WaitStoppedKeeps, WaitNothingKeeps,
       WaitNotReadyKeeps, WaitParkKeeps DEF WaitStep
  <2>3. CASE SleepStep(p)
    BY <2>3, SleepEndsKeeps, SleepStopsKeeps, SleepParksKeeps, SleepWakesKeeps DEF SleepStep
  <2>4. CASE SignalStep(p)
    BY <2>4, ReturnToUserKeeps, TerminateKeeps, StopKeeps, ResumeKeeps DEF SignalStep
  <2> QED
    BY <1>5, <2>1, <2>2, <2>3, <2>4 DEF KernelStep
<1>6. CASE \E p \in Procs, q \in Procs, sig \in Sigs : Kill(p, q, sig)
  BY <1>6, KillKeeps
<1>7. CASE ShellStep
  BY <1>7, SpawnLoadKeeps, SpawnStoreKeeps, KillWakesKeeps, KillZombieMoveKeeps, ReapSlotKeeps,
     ReapFreeKeeps, ReapSkipKeeps, ReapEndKeeps, KwaitScanKeeps, KallScanKeeps,
     KwaitParksKeeps, KsleepEndsKeeps, KsleepParksKeeps DEF ShellStep, ReapStep
<1>8. CASE ShellCommand
  BY <1>8, SpawnCheckKeeps, ReapBeginKeeps, CallKwaitAllKeeps, CallKsleepKeeps, KillLiveKeeps,
     KillZombieKeeps, CallKwaitKeeps DEF ShellCommand
<1> QED
  BY <1>1, <1>2, <1>3, <1>4, <1>5, <1>6, <1>7, <1>8 DEF Next

\* On one core, whatever the number of processes, the size of the table and the order of
\* ticks, calls and signals: the table, the cursor and the program counters agree.
THEOREM Invariance == ASSUME SingleCore PROVE Spec => []IndInv
<1>1. Init => IndInv
  BY InitKeeps
<1>2. IndInv /\ [Next]_vars => IndInv'
  BY NextKeeps
<1> QED
  BY <1>1, <1>2, PTL DEF Spec

\* Every variable keeps to its type: no count or cursor leaves the table (do_fork,
\* create_user_process and the three removals).
THEOREM TypeCorrect == ASSUME SingleCore PROVE Spec => []TypeOK
<1>1. IndInv => TypeOK
  BY DEF IndInv
<1> QED
  BY <1>1, Invariance, PTL

\* get_current_process() answers with the process that executes, through every swap-remove
\* of do_waitpid, reap_zombies and reap_user_process.
THEOREM CurrentIsRunning == ASSUME SingleCore PROVE Spec => []KnowsItself
<1>1. IndInv => KnowsItself
  BY DEF IndInv, KnowsItself, CurrentProcess, CursorExact
<1> QED
  BY <1>1, Invariance, PTL

\* The process table holds each existing process once and nothing else.
THEOREM TableIsExact == ASSUME SingleCore PROVE Spec => []TableExact
<1>1. ASSUME IndInv PROVE TableExact
  <2>1. ASSUME pc[Shell] # "remove"
        PROVE  /\ \A i, j \in 1..count : slot[i] = slot[j] => i = j
               /\ Live = {p \in Procs : st[p] \notin {"none", "freed"}}
    <3>1. Used = count
      BY <2>1 DEF Used
    <3>2. /\ \A i \in 1..count : slot[i] \in Procs /\ st[slot[i]] \notin {"none", "freed"}
          /\ \A p \in Procs : st[p] \notin {"none", "freed"} => \E i \in 1..count : slot[i] = p
      BY <1>1, <3>1 DEF IndInv, SlotsExact, Exists
    <3> QED
      BY <1>1, <3>1, <3>2, NilAssumption DEF IndInv, SlotsExact, Live, Procs
  <2> QED
    BY <2>1 DEF TableExact
<1> QED
  BY <1>1, Invariance, PTL

\* A step that moves only live processes and writes only their exit status.
LEMMA DeadUntouched ==
    ASSUME \A q \in Procs : st[q] \in {"ZOMBIE", "freed"} => st'[q] = st[q] /\ code'[q] = code[q]
    PROVE  ZombieStep
BY DEF ZombieStep

LEMMA DeadStep == ASSUME SingleCore, IndInv, [Next]_vars PROVE ZombieStep
<1>0. TypeOK
  BY DEF IndInv
<1>1. CASE UNCHANGED <<st, code>>
  BY <1>1, DeadUntouched
<1>2. CASE \E late \in SUBSET Sleeping : TickBsp(late)
  BY <1>2, <1>0, DeadUntouched DEF TickBsp, TypeOK
<1>3. ASSUME NEW p \in Users, p \in Procs, Runs(p), pc[p] # "dead",
             \/ EnterAndWake(p, "ZOMBIE") /\ \A q \in Procs : q # p => code'[q] = code[q]
             \/ EnterAndWake(p, "STOPPED") /\ code' = code
             \/ code' = code /\ \A q \in Procs : q # p => st'[q] = st[q]
      PROVE  ZombieStep
  <2>1. st[p] \notin {"ZOMBIE", "freed"}
    BY <1>3, Acting DEF Exists
  <2> QED
    BY <1>0, <1>3, <2>1, DeadUntouched DEF EnterAndWake, WakesParent
<1>4. ASSUME NEW p \in Users, UserStep(p) PROVE ZombieStep
  <2>1. CASE Exit(p)
    BY <1>0, <1>3, <2>1 DEF Exit, TypeOK, Procs
  <2>2. CASE ~Exit(p)
    BY <1>1, <1>4, <2>2 DEF UserStep, Fork, OtherSyscall, CallSleep, CallWaitpid
  <2> QED
    BY <2>1, <2>2
<1>5. ASSUME NEW p \in Users, KernelStep(p) PROVE ZombieStep
  <2>1. CASE \E child \in Users : ForkStore(p, child)
    BY <1>0, <2>1, DeadUntouched DEF ForkStore, Append, TypeOK
  <2>2. CASE WaitReap(p)
    <3>1. Runs(p) /\ p \in Procs /\ pc[p] = "collect" /\ "ret" \in PcValues
      BY <2>2 DEF WaitReap, Procs, PcValues
    <3> QED
      BY <1>0, <2>2, <3>1, Freeing DEF WaitReap, ZombieStep, Release, TypeOK
  <2>3. CASE Terminate(p)
    BY <1>0, <1>3, <2>3 DEF Terminate, TypeOK, Procs
  <2>4. CASE SleepStops(p) \/ Stop(p)
    BY <1>3, <2>4 DEF SleepStops, Stop, Procs
  <2>5. CASE WaitPark(p) \/ SleepParks(p) \/ SleepWakes(p)
    BY <1>0, <1>3, <2>5 DEF WaitPark, SleepParks, SleepWakes, TypeOK, Procs
  <2>6. CASE \/ ForkLoad(p) \/ WaitFound(p) \/ WaitStopped(p) \/ WaitNothing(p) \/ WaitNotReady(p)
             \/ SleepEnds(p) \/ ReturnToUser(p) \/ Resume(p)
    BY <1>1, <2>6 DEF ForkLoad, WaitFound, WaitStopped, WaitNothing, WaitNotReady,
                      SleepEnds, ReturnToUser, Resume
  <2> QED
    BY <1>5, <2>1, <2>2, <2>3, <2>4, <2>5, <2>6
    DEF KernelStep, ForkStep, WaitStep, SleepStep, SignalStep
<1>6. CASE \E p \in Procs, q \in Procs, sig \in Sigs : Kill(p, q, sig)
  BY <1>0, <1>6, DeadUntouched DEF Kill, Raise, TypeOK
<1>7. CASE ShellStep
  <2>1. CASE \E p \in Users, c \in Cpus : SpawnStore(p, c)
    BY <1>0, <2>1, DeadUntouched DEF SpawnStore, Append, TypeOK
  <2>2. CASE KillWakes
    <3>1. want[Shell] \in Users /\ code' = code /\ EnterAndWake(want[Shell], st[want[Shell]])
      BY <2>2 DEF KillWakes, IndInv, Choices
    <3> QED
      BY <1>0, <3>1, DeadUntouched DEF EnterAndWake, WakesParent
  <2>3. CASE KillZombieMove \/ ReapFree
    <3>1. /\ Runs(Shell) /\ Shell \in Procs /\ pc[Shell] \in {"remove", "reapFree"}
          /\ \E where \in PcValues : Release(want[Shell], Shell, where)
      BY <2>3 DEF KillZombieMove, ReapFree, Procs, PcValues
    <3> QED
      BY <1>0, <3>1, Freeing DEF ZombieStep, Release, TypeOK
  <2>4. CASE KwaitParks \/ KsleepParks
    <3>1. Shell \in Procs /\ st[Shell] \in {"RUN", "BLOCKED"}
      BY DEF IndInv, PcExact, Procs
    <3> QED
      BY <1>0, <2>4, <3>1, DeadUntouched DEF KwaitParks, KsleepParks, TypeOK
  <2>5. CASE \/ SpawnLoad \/ ReapSlot \/ ReapSkip \/ ReapEnd \/ KwaitScan \/ KallScan \/ KsleepEnds
    BY <1>1, <2>5 DEF SpawnLoad, ReapSlot, ReapSkip, ReapEnd, KwaitScan, KallScan, KsleepEnds
  <2> QED
    BY <1>7, <2>1, <2>2, <2>3, <2>4, <2>5 DEF ShellStep, ReapStep
<1>8. CASE ShellCommand
  <2>1. CASE \E p \in Users : KillLive(p)
    <3>1. PICK p \in Users : KillLive(p)
      BY <2>1
    <3>2. p \in Procs /\ pc[Shell] = "shell" /\ Found(p) /\ st[p] # "ZOMBIE"
      BY <3>1 DEF KillLive, Procs
    <3>3. Exists(p)
      BY <3>2, FoundExists
    <3> QED
      BY <1>0, <3>1, <3>2, <3>3, DeadUntouched DEF KillLive, TypeOK, Exists
  <2>2. CASE \/ SpawnCheck \/ ReapBegin \/ CallKwaitAll \/ CallKsleep
             \/ \E p \in Users : KillZombie(p) \/ CallKwait(p)
    BY <1>1, <2>2 DEF SpawnCheck, ReapBegin, CallKwaitAll, CallKsleep, KillZombie, CallKwait
  <2> QED
    BY <1>8, <2>1, <2>2 DEF ShellCommand
<1>9. CASE UNCHANGED vars
  BY <1>1, <1>9 DEF vars
<1>10. CASE \E c \in Aps : TickAp(c)
  BY <1>10 DEF SingleCore
<1> QED
  BY <1>2, <1>4, <1>5, <1>6, <1>7, <1>8, <1>9, <1>10 DEF Next

\* No wake-up brings a dead process back, and nothing rewrites the exit status of a zombie
\* (signal_raise, wake_waiters, irq_scheduler_tick and destroy_process all look first).
THEOREM TheDeadStayDead == ASSUME SingleCore PROVE Spec => DeadStayDead
<1>1. IndInv /\ [Next]_vars => ZombieStep
  BY DeadStep
<1>2. [Next]_vars /\ IndInv => [ZombieStep]_vars
  BY <1>1
<1> QED
  BY <1>2, Invariance, PTL DEF Spec, DeadStayDead

----------------------------------------------------------------------------
(* The waits.  What a step has to respect is in Frame; OwnStep and          *)
(* ShellStepFrame are the two ways most steps respect it.                   *)

\* What the actor, the table and the types say of every step.
LEMMA Typed ==
    ASSUME IndInv
    PROVE  /\ TypeOK /\ Shell \in Procs
           /\ \A q \in Users : q \in Procs /\ q # Shell /\ q # Nil
           /\ st[Shell] \in {"RUN", "BLOCKED"}
BY NilAssumption DEF IndInv, PcExact, Procs

\* What exists is found by a scan of the table, unless the shell is half-way through a removal.
LEMMA ExistsFound ==
    ASSUME IndInv, pc[Shell] # "remove", NEW p \in Procs
    PROVE  Exists(p) <=> Found(p)
<1>1. Used = count
  BY DEF Used
<1>2. Exists(p) => Found(p)
  BY <1>1, Typed, NilAssumption DEF Found, Live, IndInv, SlotsExact, Procs
<1> QED
  BY <1>2, FoundExists

\* The parts of WaitInv, process by process.
LEMMA Waiting ==
    ASSUME \A q \in Users : Fits(q)', \A q \in Users : Waits(q)' => Informed(q)', Entitled'
    PROVE  WaitInv'
BY DEF WaitInv, PlaceFits, WaitersInformed, Informed, Waits

\* A step respects the waiters: nobody begins to wait or changes what it waits for; no child goes
\* but a zombie, none dies or stops, and those that come are runnable.
LEMMA Frame ==
    ASSUME IndInv, WaitInv, pc[Shell] # "wakeParent", Entitled',
           \A q \in Users : Fits(q)',
           \A q \in Users : pc'[q] = "waitPark" => onCpu'[0] = q,
           \A q \in Users : Waits(q)' =>
              \/ Informed(q)'
              \/ /\ Waits(q) /\ want'[q] = want[q] /\ opt'[q] = opt[q]
                 /\ ParkedWaiter(q)' => ParkedWaiter(q) /\ waitFor'[q] = waitFor[q],
           \A r \in Users : Exists(r) /\ st[r] # "ZOMBIE" => Exists(r)' /\ ppid'[r] = ppid[r],
           \A r \in Users : Exists(r)' => (Exists(r) /\ ppid'[r] = ppid[r]) \/ st'[r] = "RUN",
           \A r \in Users : st'[r] \in {"ZOMBIE", "STOPPED"} =>
                               st'[r] = st[r] /\ (reported[r] => reported'[r])
    PROVE  WaitInv'
<1>1. PlaceFits'
  BY DEF PlaceFits
<1>2. ASSUME NEW p \in Users PROVE Informed(p)'
  <2>1. Informed(p)
    BY DEF WaitInv, WaitersInformed
  <2>2. pc'[p] = "waitPark" => onCpu'[0] = p
    BY <2>1 DEF Informed
  <2>3. ParkedWaiter(p)' => waitFor'[p] = want'[p]
    BY <2>1 DEF Informed, Waits
  <2>4. Waits(p)' => opt'[p] # "nohang" /\ \E q \in Users : Awaited(p, q)'
    BY <2>1 DEF Informed, Awaited, Reportable
  <2>5. ASSUME NEW q \in Users, Waits(p)', Awaited(p, q)', Reportable(p, q)'
        PROVE  pc'[Shell] = "wakeParent" /\ want'[Shell] = q
    BY <2>1, <2>5 DEF Informed, Awaited, Reportable
  <2> QED
    BY <2>2, <2>3, <2>4, <2>5 DEF Informed
<1> QED
  BY <1>1, <1>2 DEF WaitInv, WaitersInformed

\* A step of a system call that changes nothing of anybody else's, and does not end up waiting.
LEMMA OwnStep ==
    ASSUME IndInv, WaitInv, SingleCore, NEW p \in Users, Runs(p),
           UNCHANGED <<ppid, onCpu>>,
           \A q \in Procs : q # p => /\ pc'[q] = pc[q] /\ st'[q] = st[q] /\ want'[q] = want[q]
                                     /\ opt'[q] = opt[q] /\ waitFor'[q] = waitFor[q],
           \A r \in Users : reported[r] => reported'[r],
           Fits(p)', Exists(p)', st'[p] \in {"RUN", "BLOCKED"}, ~Waits(p)',
           pc'[p] = "collect" => ppid[want'[p]] = p,
           st[p] # "ZOMBIE"
    PROVE  WaitInv'
<1>1. \A q \in Users : q \in Procs /\ q # Shell /\ (q # p => Fits(q)')
  BY Typed DEF WaitInv, PlaceFits, Fits
<1>2. Exists(p)
  BY <1>1, Acting
<1>3. \A q \in Procs : q # p => pc[q] \notin Undisturbed
  BY <1>1, Acting
<1>4. Entitled'
  BY <1>1, <1>3, Typed DEF Entitled, Undisturbed
<1>5. \A q \in Users : pc'[q] # "waitPark"
  BY <1>1, Acting DEF WaitInv, WaitersInformed, Informed, Waits
<1> QED
  BY <1>1, <1>2, <1>3, <1>4, <1>5, Typed, Frame DEF Exists, Waits, ParkedWaiter, Undisturbed

----------------------------------------------------------------------------
(* Steps of a system call of one process.                                    *)

USE DEF tableVars, cpuVars, waitVars, argVars, Goto, At

\* What is known of a user process that acts.
LEMMA UserActs ==
    ASSUME SingleCore, IndInv, WaitInv, NEW p \in Users, Runs(p)
    PROVE  /\ p \in Procs /\ p # Shell /\ Shell \in Procs /\ TypeOK
           /\ Fits(p) /\ Informed(p) /\ Exists(p) /\ onCpu[0] = p
           /\ pc[p] # "dead" => st[p] # "ZOMBIE"
           /\ pc[Shell] \notin Undisturbed
           /\ \A q \in Users : pc[q] = "waitPark" => q = p
BY Acting, Typed DEF WaitInv, PlaceFits, WaitersInformed, Informed

LEMMA ForkWaits ==
    ASSUME SingleCore, IndInv, WaitInv, NEW p \in Users, Fork(p)
    PROVE  WaitInv'
<1>1. Runs(p)
  BY DEF Fork
<1>2. /\ Fits(p)' /\ Exists(p)' /\ ~Waits(p)' /\ pc'[p] # "collect"
      /\ st'[p] \in {"RUN", "BLOCKED"} /\ st[p] # "ZOMBIE"
  BY <1>1, UserActs DEF Fork, Fits, Exists, Waits, ParkedWaiter, TypeOK, States
<1> QED
  BY <1>1, <1>2, UserActs, OwnStep DEF Fork, TypeOK

LEMMA ForkLoadWaits ==
    ASSUME SingleCore, IndInv, WaitInv, NEW p \in Users, ForkLoad(p)
    PROVE  WaitInv'
<1>1. Runs(p)
  BY DEF ForkLoad
<1>2. /\ Fits(p)' /\ Exists(p)' /\ ~Waits(p)' /\ pc'[p] # "collect"
      /\ st'[p] \in {"RUN", "BLOCKED"} /\ st[p] # "ZOMBIE"
  BY <1>1, UserActs DEF ForkLoad, Fits, Exists, Waits, ParkedWaiter, TypeOK, States
<1> QED
  BY <1>1, <1>2, UserActs, OwnStep DEF ForkLoad, TypeOK

LEMMA OtherSyscallWaits ==
    ASSUME SingleCore, IndInv, WaitInv, NEW p \in Users, OtherSyscall(p)
    PROVE  WaitInv'
<1>1. Runs(p)
  BY DEF OtherSyscall
<1>2. /\ Fits(p)' /\ Exists(p)' /\ ~Waits(p)' /\ pc'[p] # "collect"
      /\ st'[p] \in {"RUN", "BLOCKED"} /\ st[p] # "ZOMBIE"
  BY <1>1, UserActs DEF OtherSyscall, Fits, Exists, Waits, ParkedWaiter, TypeOK, States
<1> QED
  BY <1>1, <1>2, UserActs, OwnStep DEF OtherSyscall, TypeOK

LEMMA CallSleepWaits ==
    ASSUME SingleCore, IndInv, WaitInv, NEW p \in Users, CallSleep(p)
    PROVE  WaitInv'
<1>1. Runs(p)
  BY DEF CallSleep
<1>2. /\ Fits(p)' /\ Exists(p)' /\ ~Waits(p)' /\ pc'[p] # "collect"
      /\ st'[p] \in {"RUN", "BLOCKED"} /\ st[p] # "ZOMBIE"
  BY <1>1, UserActs DEF CallSleep, Fits, Exists, Waits, ParkedWaiter, TypeOK, States
<1> QED
  BY <1>1, <1>2, UserActs, OwnStep DEF CallSleep, TypeOK

LEMMA SleepEndsWaits ==
    ASSUME SingleCore, IndInv, WaitInv, NEW p \in Users, SleepEnds(p)
    PROVE  WaitInv'
<1>1. Runs(p)
  BY DEF SleepEnds
<1>2. /\ Fits(p)' /\ Exists(p)' /\ ~Waits(p)' /\ pc'[p] # "collect"
      /\ st'[p] \in {"RUN", "BLOCKED"} /\ st[p] # "ZOMBIE"
  BY <1>1, UserActs DEF SleepEnds, Fits, Exists, Waits, ParkedWaiter, TypeOK, States
<1> QED
  BY <1>1, <1>2, UserActs, OwnStep DEF SleepEnds, TypeOK

LEMMA SleepParksWaits ==
    ASSUME SingleCore, IndInv, WaitInv, NEW p \in Users, SleepParks(p)
    PROVE  WaitInv'
<1>1. Runs(p)
  BY DEF SleepParks
<1>2. /\ Fits(p)' /\ Exists(p)' /\ ~Waits(p)' /\ pc'[p] # "collect"
      /\ st'[p] \in {"RUN", "BLOCKED"} /\ st[p] # "ZOMBIE"
  BY <1>1, UserActs DEF SleepParks, Fits, Exists, Waits, ParkedWaiter, TypeOK, States
<1> QED
  BY <1>1, <1>2, UserActs, OwnStep DEF SleepParks, TypeOK

LEMMA SleepWakesWaits ==
    ASSUME SingleCore, IndInv, WaitInv, NEW p \in Users, SleepWakes(p)
    PROVE  WaitInv'
<1>1. Runs(p)
  BY DEF SleepWakes
<1>2. /\ Fits(p)' /\ Exists(p)' /\ ~Waits(p)' /\ pc'[p] # "collect"
      /\ st'[p] \in {"RUN", "BLOCKED"} /\ st[p] # "ZOMBIE"
  BY <1>1, UserActs DEF SleepWakes, Fits, Exists, Waits, ParkedWaiter, TypeOK, States
<1> QED
  BY <1>1, <1>2, UserActs, OwnStep DEF SleepWakes, TypeOK

LEMMA ReturnToUserWaits ==
    ASSUME SingleCore, IndInv, WaitInv, NEW p \in Users, ReturnToUser(p)
    PROVE  WaitInv'
<1>1. Runs(p)
  BY DEF ReturnToUser
<1>2. /\ Fits(p)' /\ Exists(p)' /\ ~Waits(p)' /\ pc'[p] # "collect"
      /\ st'[p] \in {"RUN", "BLOCKED"} /\ st[p] # "ZOMBIE"
  BY <1>1, UserActs DEF ReturnToUser, Fits, Exists, Waits, ParkedWaiter, TypeOK, States
<1> QED
  BY <1>1, <1>2, UserActs, OwnStep DEF ReturnToUser, TypeOK

LEMMA ResumeWaits ==
    ASSUME SingleCore, IndInv, WaitInv, NEW p \in Users, Resume(p)
    PROVE  WaitInv'
<1>1. Runs(p)
  BY DEF Resume
<1>2. /\ Fits(p)' /\ Exists(p)' /\ ~Waits(p)' /\ pc'[p] # "collect"
      /\ st'[p] \in {"RUN", "BLOCKED"} /\ st[p] # "ZOMBIE"
  BY <1>1, UserActs DEF Resume, Fits, Exists, Waits, ParkedWaiter, TypeOK, States
<1> QED
  BY <1>1, <1>2, UserActs, OwnStep DEF Resume, TypeOK

LEMMA CallWaitpidWaits ==
    ASSUME SingleCore, IndInv, WaitInv, NEW p \in Users,
           NEW w \in Users \cup {Nil}, NEW o \in {"none", "nohang", "untraced"}, CallWaitpid(p, w, o)
    PROVE  WaitInv'
<1>1. Runs(p)
  BY DEF CallWaitpid
<1>2. /\ Fits(p)' /\ Exists(p)' /\ ~Waits(p)' /\ pc'[p] # "collect"
      /\ st'[p] \in {"RUN", "BLOCKED"} /\ st[p] # "ZOMBIE"
  BY <1>1, UserActs DEF CallWaitpid, Fits, Exists, Waits, ParkedWaiter, TypeOK, States
<1> QED
  BY <1>1, <1>2, UserActs, OwnStep DEF CallWaitpid, TypeOK

----------------------------------------------------------------------------
(* waitpid.                                                                  *)

\* What one pass over the table finds is so, and a process that is parked would find nothing.
LEMMA ScanTrue ==
    ASSUME SingleCore, IndInv, WaitInv, NEW p \in Users, At(p, "wait")
    PROVE  /\ \A q \in Users : Matches(p, q) <=> Awaited(p, q)
           /\ \A i \in ZombieSlots(p) : slot[i] \in Users /\ Awaited(p, slot[i]) /\ st[slot[i]] = "ZOMBIE"
           /\ ZombieSlots(p) = {} /\ StopSlots(p) = {} =>
                 \A q \in Users : ~(Awaited(p, q) /\ Reportable(p, q))
           /\ st[p] = "BLOCKED" => /\ opt[p] # "nohang" /\ \E q \in Users : Matches(p, q)
                                   /\ ZombieSlots(p) = {} /\ StopSlots(p) = {}
<1>1. /\ p \in Procs /\ Shell \in Procs /\ pc[Shell] \notin Undisturbed /\ Informed(p)
      /\ \A q \in Users : q \in Procs
  BY UserActs, Typed
<1>2. Used = count /\ \A i \in 1..count : slot[i] \in Procs /\ Exists(slot[i])
  BY <1>1 DEF Undisturbed, Used, IndInv, SlotsExact
<1>3. \A q \in Users : Matches(p, q) <=> Awaited(p, q)
  BY <1>1, ExistsFound DEF Matches, Awaited, Undisturbed
<1>4. \A i \in 1..count : st[slot[i]] \in {"ZOMBIE", "STOPPED"} => slot[i] \in Users
  BY <1>2, Typed DEF Procs
<1>5. ASSUME NEW q \in Users, Awaited(p, q)
      PROVE  /\ st[q] = "ZOMBIE" => ZombieSlots(p) # {}
             /\ opt[p] = "untraced" /\ st[q] = "STOPPED" /\ ~reported[q] => StopSlots(p) # {}
  <2>1. PICK i \in 1..count : slot[i] = q
    BY <1>1, <1>2, <1>5 DEF Awaited, IndInv, SlotsExact
  <2> QED
    BY <1>3, <1>5, <2>1 DEF ZombieSlots, StopSlots
<1>6. /\ \A i \in ZombieSlots(p) : /\ slot[i] \in Users /\ Awaited(p, slot[i])
                                   /\ st[slot[i]] = "ZOMBIE"
      /\ \A i \in StopSlots(p) : /\ slot[i] \in Users /\ Awaited(p, slot[i])
                                 /\ Reportable(p, slot[i])
  BY <1>3, <1>4 DEF ZombieSlots, StopSlots, Reportable
<1>7. st[p] = "BLOCKED" => /\ opt[p] # "nohang" /\ \E q \in Users : Matches(p, q)
                           /\ ZombieSlots(p) = {} /\ StopSlots(p) = {}
  BY <1>1, <1>3, <1>6 DEF Informed, Waits, ParkedWaiter, Reportable, Undisturbed
<1> QED
  BY <1>3, <1>5, <1>6, <1>7 DEF Reportable

LEMMA WaitFoundWaits ==
    ASSUME SingleCore, IndInv, WaitInv, NEW p \in Users, WaitFound(p)
    PROVE  WaitInv'
<1>1. Runs(p) /\ At(p, "wait")
  BY DEF WaitFound
<1>2. PICK zi \in ZombieSlots(p) : want' = [want EXCEPT ![p] = slot[zi]]
  BY DEF WaitFound, Lowest
<1>3. slot[zi] \in Users /\ ppid[slot[zi]] = p /\ st[p] # "BLOCKED"
  BY <1>1, <1>2, ScanTrue DEF Awaited
<1>4. /\ Fits(p)' /\ Exists(p)' /\ ~Waits(p)' /\ ppid[want'[p]] = p
      /\ st'[p] \in {"RUN", "BLOCKED"} /\ st[p] # "ZOMBIE"
  BY <1>1, <1>2, <1>3, UserActs DEF WaitFound, Fits, Exists, Waits, ParkedWaiter, TypeOK, States
<1> QED
  BY <1>1, <1>2, <1>4, UserActs, OwnStep DEF WaitFound, TypeOK

LEMMA WaitStoppedWaits ==
    ASSUME SingleCore, IndInv, WaitInv, NEW p \in Users, WaitStopped(p)
    PROVE  WaitInv'
<1>1. Runs(p) /\ At(p, "wait")
  BY DEF WaitStopped
<1>2. PICK si \in StopSlots(p) : reported' = [reported EXCEPT ![slot[si]] = TRUE]
  BY DEF WaitStopped, Highest
<1>3. st[p] # "BLOCKED"
  BY <1>1, <1>2, ScanTrue
<1>4. /\ Fits(p)' /\ Exists(p)' /\ ~Waits(p)' /\ pc'[p] # "collect"
      /\ st'[p] \in {"RUN", "BLOCKED"} /\ st[p] # "ZOMBIE"
  BY <1>1, <1>3, UserActs
  DEF WaitStopped, LeaveCall, Fits, Exists, Waits, ParkedWaiter, TypeOK, States
<1>5. \A r \in Users : reported[r] => reported'[r]
  BY <1>2, Typed DEF TypeOK
<1> QED
  BY <1>1, <1>4, <1>5, UserActs, OwnStep DEF WaitStopped, LeaveCall, TypeOK

LEMMA WaitNothingWaits ==
    ASSUME SingleCore, IndInv, WaitInv, NEW p \in Users, WaitNothing(p)
    PROVE  WaitInv'
<1>1. Runs(p) /\ At(p, "wait")
  BY DEF WaitNothing
<1>2. st[p] # "BLOCKED"
  BY <1>1, ScanTrue DEF WaitNothing
<1>3. /\ Fits(p)' /\ Exists(p)' /\ ~Waits(p)' /\ pc'[p] # "collect"
      /\ st'[p] \in {"RUN", "BLOCKED"} /\ st[p] # "ZOMBIE"
  BY <1>1, <1>2, UserActs
  DEF WaitNothing, LeaveCall, Fits, Exists, Waits, ParkedWaiter, TypeOK, States
<1> QED
  BY <1>1, <1>3, UserActs, OwnStep DEF WaitNothing, LeaveCall, TypeOK

LEMMA WaitNotReadyWaits ==
    ASSUME SingleCore, IndInv, WaitInv, NEW p \in Users, WaitNotReady(p)
    PROVE  WaitInv'
<1>1. Runs(p) /\ At(p, "wait") /\ p \in Procs /\ onCpu[0] = p
  BY UserActs DEF WaitNotReady
<1>2. /\ pc'[p] = "waitPark" /\ \A q \in Procs : q # p => pc'[q] = pc[q] /\ pc[q] \notin Undisturbed
      /\ UNCHANGED <<onCpu, st, ppid, waitFor, reported, want, opt>>
  BY <1>1, Acting, UserActs DEF WaitNotReady, TypeOK
<1>3. \A q \in Users : Fits(q)'
  BY <1>1, <1>2, Typed DEF WaitInv, PlaceFits, Fits
<1>4. Informed(p)'
  <2>1. opt[p] # "nohang" /\ \E q \in Users : Awaited(p, q)
    BY <1>1, ScanTrue DEF WaitNotReady
  <2>2. \A q \in Users : ~(Awaited(p, q) /\ Reportable(p, q))
    BY <1>1, ScanTrue DEF WaitNotReady
  <2> QED
    BY <1>1, <1>2, <2>1, <2>2 DEF Informed, Awaited, Reportable, Exists, ParkedWaiter
<1>5. Entitled'
  BY <1>2, Typed DEF Entitled, Undisturbed
<1> QED
  BY <1>1, <1>2, <1>3, <1>4, <1>5, UserActs, Typed, Frame
  DEF Exists, Waits, ParkedWaiter, Undisturbed

LEMMA WaitParkWaits ==
    ASSUME SingleCore, IndInv, WaitInv, NEW p \in Users, WaitPark(p)
    PROVE  WaitInv'
<1>1. Runs(p) /\ pc[p] = "waitPark" /\ p \in Procs /\ onCpu[0] = p /\ Informed(p)
  BY UserActs DEF WaitPark
<1>2. /\ pc'[p] = "wait" /\ st'[p] = "BLOCKED" /\ waitFor'[p] = want[p] /\ st[p] # "ZOMBIE" /\ Exists(p)
      /\ \A q \in Procs : q # p => /\ pc'[q] = pc[q] /\ pc[q] \notin Undisturbed
                                   /\ st'[q] = st[q] /\ waitFor'[q] = waitFor[q]
      /\ UNCHANGED <<onCpu, ppid, reported, want, opt>>
  BY <1>1, Acting, UserActs DEF WaitPark, TypeOK
<1>3. \A q \in Users : Fits(q)'
  BY <1>1, <1>2, Typed DEF WaitInv, PlaceFits, Fits
<1>4. Informed(p)'
  <2>1. \A q \in Users : Awaited(p, q)' <=> Awaited(p, q)
    BY <1>1, <1>2, Typed DEF Awaited, Exists
  <2>2. \A q \in Users : Awaited(p, q) => ~Reportable(p, q)
    BY <1>1, UserActs DEF Informed, Waits, Undisturbed
  <2>3. \A q \in Users : Reportable(p, q)' => Reportable(p, q)
    BY <1>1, <1>2, Typed DEF Reportable
  <2> QED
    BY <1>1, <1>2, <2>1, <2>2, <2>3 DEF Informed, Waits
<1>5. Entitled'
  BY <1>2, Typed DEF Entitled, Undisturbed
<1> QED
  BY <1>1, <1>2, <1>3, <1>4, <1>5, UserActs, Typed, Frame
  DEF Exists, Waits, ParkedWaiter, Undisturbed

----------------------------------------------------------------------------
(* Dying and stopping: wake_waiters.                                         *)

\* A process dies or stops.  A parent that stays parked was not waiting for it.
LEMMA EnteringInforms ==
    ASSUME SingleCore, IndInv, WaitInv, NEW p \in Users, Runs(p), pc[p] # "dead",
           NEW s \in {"ZOMBIE", "STOPPED"}, EnterAndWake(p, s),
           \A q \in Procs : q # p => pc'[q] = pc[q] /\ reported'[q] = reported[q],
           s = "ZOMBIE" => pc'[p] = "dead",
           s = "STOPPED" => pc'[p] \in {"stopped", "sleepStopped"},
           UNCHANGED <<onCpu, ppid, want, opt>>
    PROVE  WaitInv'
<1>1. /\ p \in Procs /\ Exists(p) /\ st[p] # "ZOMBIE" /\ pc[Shell] \notin Undisturbed /\ p # Shell
      /\ \A q \in Procs : q # p => pc[q] \notin Undisturbed
      /\ \A q \in Users : q \in Procs /\ q # Shell /\ q # Nil
      /\ \A q \in Users : pc[q] = "waitPark" => q = p
  BY UserActs, Acting, Typed
<1>2. /\ st'[p] = s /\ ~Waits(p)'
      /\ \A q \in Procs : q # p => \/ st'[q] = st[q] /\ (waitFor'[q] = waitFor[q])
                                   \/ st[q] = "BLOCKED" /\ st'[q] = "RUN"
  BY <1>1 DEF EnterAndWake, WakesParent, Waits, ParkedWaiter, Undisturbed
<1>3. \A q \in Users : Fits(q)'
  <2>1. Fits(p)'
    BY <1>1, <1>2 DEF Fits
  <2>2. ASSUME NEW q \in Users, q # p PROVE Fits(q)'
    <3>1. pc'[q] = pc[q] /\ Fits(q)
      BY <1>1, <2>2 DEF WaitInv, PlaceFits
    <3> QED
      BY <1>1, <1>2, <2>2, <3>1 DEF Fits
  <2> QED
    BY <2>1, <2>2
<1>4. ASSUME NEW q \in Users, Waits(q)' PROVE Informed(q)'
  <2>1. q # p /\ ParkedWaiter(q)' /\ pc'[q] = pc[q] /\ pc[q] # "waitPark"
    BY <1>1, <1>2, <1>4 DEF Waits
  <2>2. st[q] = "BLOCKED" /\ st'[q] = "BLOCKED" /\ waitFor'[q] = waitFor[q] /\ ParkedWaiter(q)
    BY <1>1, <1>2, <2>1 DEF ParkedWaiter
  <2>3. Informed(q) /\ waitFor[q] = want[q]
    BY <2>2 DEF WaitInv, WaitersInformed, Informed
  <2>4. ~Awaited(q, p)
    <3>1. Exists(q) /\ Found(q)
      BY <1>1, <2>2, ExistsFound DEF Exists, Undisturbed
    <3>2. SUFFICES ASSUME Awaited(q, p) PROVE FALSE
      OBVIOUS
    <3>3. WakesParent(p) /\ ppid[p] = q
      BY <2>2, <2>3, <3>1, <3>2 DEF WakesParent, Awaited
    <3> QED
      BY <1>1, <2>1, <2>2, <3>3 DEF EnterAndWake
  <2>5. \A r \in Users : Awaited(q, r)' <=> Awaited(q, r)
    BY <1>1, <1>2 DEF Awaited, Exists
  <2>6. \A r \in Users : r # p /\ Reportable(q, r)' => Reportable(q, r)
    BY <1>1, <1>2 DEF Reportable
  <2> QED
    BY <1>1, <2>1, <2>2, <2>3, <2>4, <2>5, <2>6 DEF Informed, Waits, Undisturbed
<1>5. Entitled'
  BY <1>1, <1>2, Typed DEF Entitled, Undisturbed
<1> QED
  BY <1>3, <1>4, <1>5, Waiting

LEMMA ExitWaits ==
    ASSUME SingleCore, IndInv, WaitInv, NEW p \in Users, Exit(p)
    PROVE  WaitInv'
<1>1. Runs(p) /\ p \in Procs /\ TypeOK
  BY UserActs DEF Exit
<1> QED
  BY <1>1, EnteringInforms DEF Exit, TypeOK

LEMMA TerminateWaits ==
    ASSUME SingleCore, IndInv, WaitInv, NEW p \in Users, Terminate(p)
    PROVE  WaitInv'
<1>1. Runs(p) /\ p \in Procs /\ TypeOK
  BY UserActs DEF Terminate
<1> QED
  BY <1>1, EnteringInforms DEF Terminate, TypeOK

LEMMA StopWaits ==
    ASSUME SingleCore, IndInv, WaitInv, NEW p \in Users, Stop(p)
    PROVE  WaitInv'
<1>1. Runs(p) /\ p \in Procs /\ TypeOK
  BY UserActs DEF Stop
<1> QED
  BY <1>1, EnteringInforms DEF Stop, TypeOK

LEMMA SleepStopsWaits ==
    ASSUME SingleCore, IndInv, WaitInv, NEW p \in Users, SleepStops(p)
    PROVE  WaitInv'
<1>1. Runs(p) /\ p \in Procs /\ TypeOK
  BY UserActs DEF SleepStops
<1> QED
  BY <1>1, EnteringInforms DEF SleepStops, TypeOK

----------------------------------------------------------------------------
(* Coming and going: fork, spawn and the three ways a process is freed.      *)

\* A new process is nobody's news, and its parent does not wait.
LEMMA AppendWaits ==
    ASSUME SingleCore, IndInv, WaitInv, NEW p \in Procs, Runs(p), NEW child \in Users,
           st[child] = "none", pc[p] \in {"forkAppend", "append"},
           NEW n \in Nat, NEW c \in Cpus, NEW where \in {"ret", "shell"},
           where = "ret" <=> p # Shell, p # Shell => st[p] = "RUN", Append(p, child, n, c, where)
    PROVE  WaitInv'
<1>1. /\ TypeOK /\ Shell \in Procs /\ Exists(p) /\ child # p /\ child \in Procs
      /\ p # Shell => p \in Users /\ Fits(p) /\ st[p] # "ZOMBIE"
      /\ \A q \in Procs : q # p => pc[q] \notin Undisturbed
      /\ \A q \in Users : q \in Procs /\ q # Shell
  BY Acting, UserActs, Typed DEF Exists, Undisturbed, Procs
<1>2. /\ \A q \in Procs : st'[q] = IF q = child THEN "RUN" ELSE st[q]
      /\ \A q \in Procs : pc'[q] = IF q = p THEN where ELSE IF q = child THEN "user" ELSE pc[q]
      /\ \A q \in Procs : ppid'[q] = IF q = child THEN p ELSE ppid[q]
      /\ UNCHANGED <<onCpu, waitFor, reported, want, opt>>
  BY <1>1 DEF Append, TypeOK
<1>3. \A q \in Users : Fits(q)'
  BY <1>1, <1>2 DEF WaitInv, PlaceFits, Fits
<1>4. \A q \in Users : Waits(q)' => Waits(q)
  BY <1>1, <1>2 DEF Waits, ParkedWaiter
<1>5. Entitled'
  BY <1>1, <1>2 DEF Entitled, Undisturbed
<1>6. \A q \in Users : pc'[q] # "waitPark"
  BY <1>1, <1>2, Acting DEF WaitInv, WaitersInformed, Informed
<1> QED
  BY <1>1, <1>2, <1>3, <1>4, <1>5, <1>6, Frame DEF Exists, Waits, ParkedWaiter, Undisturbed

LEMMA ForkStoreWaits ==
    ASSUME SingleCore, IndInv, WaitInv, NEW p \in Users, NEW child \in Users, ForkStore(p, child)
    PROVE  WaitInv'
<1>1. /\ Runs(p) /\ p \in Procs /\ p # Shell /\ TypeOK /\ num[p] \in Nat /\ 0 \in Cpus
      /\ st[p] = "RUN"
  BY UserActs DEF ForkStore, TypeOK, Cpus, Fits
<1> QED
  BY <1>1, AppendWaits DEF ForkStore

LEMMA SpawnStoreWaits ==
    ASSUME SingleCore, IndInv, WaitInv, NEW p \in Users, NEW c \in Cpus, SpawnStore(p, c)
    PROVE  WaitInv'
<1>1. Runs(Shell) /\ Shell \in Procs /\ TypeOK /\ num[Shell] \in Nat
  BY Typed DEF SpawnStore, TypeOK
<1> QED
  BY <1>1, AppendWaits DEF SpawnStore

\* Nobody waits for the process that is freed: it is a zombie, which a waiter would have found.
LEMMA FreeingWaits ==
    ASSUME SingleCore, IndInv, WaitInv, NEW p \in Procs, Runs(p), NEW where \in {"ret", "shell", "reap"},
           where = "ret" <=> p # Shell, p # Shell => st[p] = "RUN",
           pc[p] \in {"collect", "reapFree", "remove"}, Release(want[p], p, where), UNCHANGED onCpu
    PROVE  WaitInv'
<1> DEFINE v == want[p]
<1>1. /\ TypeOK /\ Shell \in Procs /\ Exists(p) /\ v \in Users /\ v # p /\ v \in Procs /\ v # Shell
      /\ st[v] = "ZOMBIE" /\ where \in PcValues
      /\ \A q \in Procs : q # p => pc[q] \notin Undisturbed
      /\ \A q \in Users : q \in Procs /\ q # Shell
  BY Acting, Typed, Freeing DEF IndInv, Choices, AboutToFree, Undisturbed, PcValues, Procs
<1>2. /\ \A q \in Procs : st'[q] = IF q = v THEN "freed" ELSE st[q]
      /\ \A q \in Procs : pc'[q] = IF q = p THEN where ELSE IF q = v THEN "none" ELSE pc[q]
      /\ \A q \in Procs : Exists(q)' <=> Exists(q) /\ q # v
      /\ \A q \in Procs : q # v => ppid'[q] = ppid[q] /\ waitFor'[q] = waitFor[q]
                                   /\ reported'[q] = reported[q]
      /\ \A q \in Procs : q # v /\ q # p => want'[q] = want[q] /\ opt'[q] = opt[q]
  <2>1. /\ \A q \in Procs : st'[q] = IF q = v THEN "freed" ELSE st[q]
        /\ \A q \in Procs : pc'[q] = IF q = p THEN where ELSE IF q = v THEN "none" ELSE pc[q]
        /\ \A q \in Procs : Exists(q)' <=> Exists(q) /\ q # v
    BY <1>1, Freeing
  <2>2. /\ \A q \in Procs : q # v => ppid'[q] = ppid[q] /\ waitFor'[q] = waitFor[q]
                                     /\ reported'[q] = reported[q]
        /\ \A q \in Procs : q # v /\ q # p => want'[q] = want[q] /\ opt'[q] = opt[q]
    BY <1>1 DEF Release, TypeOK
  <2> QED
    BY <2>1, <2>2
<1>3. \A q \in Users : Fits(q)'
  BY <1>1, <1>2 DEF WaitInv, PlaceFits, Fits, Procs
<1>4. \A q \in Users : Waits(q)' => Waits(q) /\ q # v /\ q # p
  BY <1>1, <1>2 DEF Waits, ParkedWaiter, Procs
<1>5. Entitled'
  BY <1>1, <1>2 DEF Entitled, Undisturbed
<1>6. \A q \in Users : pc'[q] # "waitPark"
  BY <1>1, <1>2, Acting DEF WaitInv, WaitersInformed, Informed
<1> QED
  BY <1>1, <1>2, <1>3, <1>4, <1>5, <1>6, Frame DEF Exists, Waits, ParkedWaiter, Undisturbed

LEMMA WaitReapWaits ==
    ASSUME SingleCore, IndInv, WaitInv, NEW p \in Users, WaitReap(p)
    PROVE  WaitInv'
<1>1. Runs(p) /\ p \in Procs /\ p # Shell /\ pc[p] = "collect" /\ st[p] = "RUN"
  BY UserActs DEF WaitReap, Fits
<1> QED
  BY <1>1, FreeingWaits DEF WaitReap, TakeOut

LEMMA KillZombieMoveWaits ==
    ASSUME SingleCore, IndInv, WaitInv, KillZombieMove
    PROVE  WaitInv'
BY Typed, FreeingWaits DEF KillZombieMove

LEMMA ReapFreeWaits ==
    ASSUME SingleCore, IndInv, WaitInv, ReapFree
    PROVE  WaitInv'
BY Typed, FreeingWaits DEF ReapFree, TakeOut

----------------------------------------------------------------------------
(* Signals and the timer.                                                    *)

\* signal_raise ends a wait or resumes a stop; it begins neither.
LEMMA KillWaits ==
    ASSUME SingleCore, IndInv, WaitInv, NEW p \in Procs, NEW q \in Procs, NEW sig \in Sigs,
           Kill(p, q, sig)
    PROVE  WaitInv'
<1>1. /\ Runs(p) /\ TypeOK /\ pc[Shell] \notin Undisturbed
      /\ pc[p] \in {"user", "shell"} /\ (p # Shell => p \in Users /\ pc[p] = "user")
      /\ \A r \in Users : r \in Procs /\ r # Shell
  BY UserActs, Typed DEF Kill, Undisturbed, Procs
<1>2. /\ \A r \in Procs : st'[r] = st[r] \/ (st[r] \in {"BLOCKED", "STOPPED"} /\ st'[r] = "RUN")
      /\ \A r \in Procs : st'[r] = "BLOCKED" => waitFor'[r] = waitFor[r]
      /\ \A r \in Users : pc'[r] = pc[r] \/ (pc[r] = "user" /\ pc'[r] = "ret")
      /\ pc'[Shell] = pc[Shell]
      /\ UNCHANGED <<onCpu, ppid, reported, want, opt>>
  BY <1>1, Typed DEF Kill, Raise, TypeOK
<1>3. \A r \in Users : Fits(r)'
  BY <1>1, <1>2 DEF WaitInv, PlaceFits, Fits
<1>4. Entitled'
  BY <1>1, <1>2 DEF WaitInv, Entitled, Undisturbed
<1>5. \A r \in Users : pc'[r] = "waitPark" => onCpu'[0] = r
  BY <1>2 DEF WaitInv, WaitersInformed, Informed
<1> QED
  BY <1>1, <1>2, <1>3, <1>4, <1>5, Frame DEF Exists, Waits, ParkedWaiter, Undisturbed

\* The timer wakes sleepers, and cannot come between waitpid's scan and its park.
LEMMA TickBspWaits ==
    ASSUME SingleCore, IndInv, WaitInv, NEW late \in SUBSET Sleeping, TickBsp(late)
    PROVE  WaitInv'
<1>1. /\ TypeOK /\ Shell \in Procs /\ \A r \in Users : r \in Procs /\ pc[r] # "waitPark"
      /\ pc[Shell] # "wakeParent"
  BY Typed DEF TickBsp, IrqOff, SingleCore, IndInv, MaskedRun, Undisturbed, WaitInv,
               WaitersInformed, Informed
<1>2. /\ \A r \in Procs : st'[r] = st[r] \/ (st[r] = "BLOCKED" /\ st'[r] = "RUN")
      /\ UNCHANGED <<pc, ppid, waitFor, reported, want, opt>>
  BY DEF TickBsp
<1>3. \A r \in Users : Fits(r)'
  BY <1>1, <1>2 DEF WaitInv, PlaceFits, Fits
<1>4. Entitled'
  BY <1>1, <1>2 DEF WaitInv, Entitled, Exists
<1> QED
  BY <1>1, <1>2, <1>3, <1>4, Frame DEF Exists, Waits, ParkedWaiter

----------------------------------------------------------------------------
(* The shell.                                                                *)

\* A step of the shell's that changes nothing of a ring-3 process.
LEMMA ShellStepFrame ==
    ASSUME SingleCore, IndInv, WaitInv, Runs(Shell), pc[Shell] # "wakeParent",
           UNCHANGED <<ppid, onCpu, reported>>,
           \A q \in Users : /\ pc'[q] = pc[q] /\ st'[q] = st[q] /\ want'[q] = want[q]
                            /\ opt'[q] = opt[q] /\ waitFor'[q] = waitFor[q],
           pc'[Shell] = "reapFree" =>
               \A p \in Users : ppid[want'[Shell]] = p => ~Exists(p) \/ st[p] = "ZOMBIE"
    PROVE  WaitInv'
<1>1. /\ Shell \in Procs /\ \A q \in Users : q \in Procs /\ q # Shell /\ pc[q] \notin Undisturbed
  BY ShellActs
<1>2. \A q \in Users : Fits(q)'
  BY <1>1 DEF WaitInv, PlaceFits, Fits
<1>3. Entitled'
  BY <1>1 DEF Entitled, Exists, Undisturbed
<1>4. \A q \in Users : pc'[q] = "waitPark" => onCpu'[0] = q
  BY DEF WaitInv, WaitersInformed, Informed
<1> QED
  BY <1>1, <1>2, <1>3, <1>4, Frame DEF Exists, Waits, ParkedWaiter

LEMMA SpawnCheckWaits ==
    ASSUME SingleCore, IndInv, WaitInv, SpawnCheck
    PROVE  WaitInv'
BY Typed, ShellStepFrame DEF SpawnCheck, TypeOK

LEMMA SpawnLoadWaits ==
    ASSUME SingleCore, IndInv, WaitInv, SpawnLoad
    PROVE  WaitInv'
BY Typed, ShellStepFrame DEF SpawnLoad, TypeOK

LEMMA ReapBeginWaits ==
    ASSUME SingleCore, IndInv, WaitInv, ReapBegin
    PROVE  WaitInv'
BY Typed, ShellStepFrame DEF ReapBegin, TypeOK

LEMMA ReapSkipWaits ==
    ASSUME SingleCore, IndInv, WaitInv, ReapSkip
    PROVE  WaitInv'
BY Typed, ShellStepFrame DEF ReapSkip, TypeOK

LEMMA ReapEndWaits ==
    ASSUME SingleCore, IndInv, WaitInv, ReapEnd
    PROVE  WaitInv'
BY Typed, ShellStepFrame DEF ReapEnd, TypeOK

LEMMA CallKwaitAllWaits ==
    ASSUME SingleCore, IndInv, WaitInv, CallKwaitAll
    PROVE  WaitInv'
BY Typed, ShellStepFrame DEF CallKwaitAll, TypeOK

LEMMA CallKsleepWaits ==
    ASSUME SingleCore, IndInv, WaitInv, CallKsleep
    PROVE  WaitInv'
BY Typed, ShellStepFrame DEF CallKsleep, TypeOK

LEMMA KwaitScanWaits ==
    ASSUME SingleCore, IndInv, WaitInv, KwaitScan
    PROVE  WaitInv'
BY Typed, ShellStepFrame DEF KwaitScan, TypeOK

LEMMA KallScanWaits ==
    ASSUME SingleCore, IndInv, WaitInv, KallScan
    PROVE  WaitInv'
BY Typed, ShellStepFrame DEF KallScan, TypeOK

LEMMA KwaitParksWaits ==
    ASSUME SingleCore, IndInv, WaitInv, KwaitParks
    PROVE  WaitInv'
BY Typed, ShellStepFrame DEF KwaitParks, TypeOK

LEMMA KsleepEndsWaits ==
    ASSUME SingleCore, IndInv, WaitInv, KsleepEnds
    PROVE  WaitInv'
BY Typed, ShellStepFrame DEF KsleepEnds, TypeOK

LEMMA KsleepParksWaits ==
    ASSUME SingleCore, IndInv, WaitInv, KsleepParks
    PROVE  WaitInv'
BY Typed, ShellStepFrame DEF KsleepParks, TypeOK

LEMMA KillZombieWaits ==
    ASSUME SingleCore, IndInv, WaitInv, NEW p \in Users, KillZombie(p)
    PROVE  WaitInv'
BY Typed, ShellStepFrame DEF KillZombie, TypeOK

LEMMA CallKwaitWaits ==
    ASSUME SingleCore, IndInv, WaitInv, NEW p \in Users, CallKwait(p)
    PROVE  WaitInv'
BY Typed, ShellStepFrame DEF CallKwait, TypeOK

\* The reaper takes the zombie under its index only if no live ring-3 process is its parent.
LEMMA ReapSlotWaits ==
    ASSUME SingleCore, IndInv, WaitInv, ReapSlot
    PROVE  WaitInv'
<1>1. TypeOK /\ Runs(Shell) /\ pc[Shell] = "reap" /\ Shell \in Procs
  BY Typed DEF ReapSlot
<1>2. ASSUME NEW p \in Users, ppid[want'[Shell]] = p PROVE ~Exists(p) \/ st[p] = "ZOMBIE"
  <2>1. ~ParentCollects(want'[Shell]) /\ p \in Procs /\ p # Shell
    BY <1>1, Typed DEF ReapSlot, ReapsHere, TypeOK
  <2> QED
    BY <1>1, <1>2, <2>1, ExistsFound DEF ParentCollects
<1> QED
  BY <1>1, <1>2, Typed, ShellStepFrame DEF ReapSlot, TypeOK

\* destroy_process of a live process: its parent is not woken yet.
LEMMA KillLiveWaits ==
    ASSUME SingleCore, IndInv, WaitInv, NEW p \in Users, KillLive(p)
    PROVE  WaitInv'
<1>1. /\ Runs(Shell) /\ TypeOK /\ Shell \in Procs /\ p \in Procs /\ Exists(p) /\ pc[Shell] = "shell"
      /\ \A q \in Users : q \in Procs /\ q # Shell /\ pc[q] \notin Undisturbed
      /\ \A q \in Users : pc[q] # "waitPark"
  <2>1. Runs(Shell) /\ pc[Shell] = "shell" /\ p \in Procs /\ Found(p)
    BY DEF KillLive, Procs
  <2> QED
    BY <2>1, ShellActs, FoundExists, Acting DEF WaitInv, WaitersInformed, Informed
<1>2. /\ pc'[Shell] = "wakeParent" /\ want'[Shell] = p
      /\ \A q \in Procs : st'[q] = IF q = p THEN "ZOMBIE" ELSE st[q]
      /\ \A q \in Users : pc'[q] = pc[q] /\ want'[q] = want[q]
      /\ UNCHANGED <<onCpu, ppid, waitFor, reported, opt>>
  BY <1>1 DEF KillLive, TypeOK
<1>3. \A q \in Users : Fits(q)'
  BY <1>1, <1>2 DEF WaitInv, PlaceFits, Fits
<1>4. ASSUME NEW q \in Users, Waits(q)' PROVE Informed(q)'
  <2>1. q # p /\ ParkedWaiter(q) /\ ParkedWaiter(q)' /\ Informed(q) /\ pc'[q] # "waitPark"
    BY <1>1, <1>2, <1>4 DEF Waits, ParkedWaiter, WaitInv, WaitersInformed
  <2>2. \A r \in Users : Awaited(q, r)' <=> Awaited(q, r)
    BY <1>1, <1>2 DEF Awaited, Exists
  <2>3. \A r \in Users : r # p /\ Reportable(q, r)' => Reportable(q, r)
    BY <1>1, <1>2 DEF Reportable
  <2> QED
    BY <1>1, <1>2, <2>1, <2>2, <2>3 DEF Informed, Waits
<1>5. Entitled'
  BY <1>1, <1>2 DEF Entitled, Undisturbed
<1> QED
  BY <1>3, <1>4, <1>5, Waiting

\* ... and now it is, if it waits.
LEMMA KillWakesWaits ==
    ASSUME SingleCore, IndInv, WaitInv, KillWakes
    PROVE  WaitInv'
<1> DEFINE v == want[Shell]
<1>1. /\ Runs(Shell) /\ TypeOK /\ Shell \in Procs /\ pc[Shell] = "wakeParent"
      /\ v \in Users /\ v \in Procs /\ st[v] = "ZOMBIE"
      /\ \A q \in Users : q \in Procs /\ q # Shell /\ q # Nil /\ pc[q] \notin Undisturbed
      /\ \A q \in Users : pc[q] # "waitPark"
  <2>1. Runs(Shell) /\ pc[Shell] = "wakeParent" /\ v \in Users /\ st[v] = "ZOMBIE"
    BY DEF KillWakes, IndInv, Choices
  <2> QED
    BY <2>1, ShellActs, Typed, Acting DEF WaitInv, WaitersInformed, Informed
<1>2. /\ pc'[Shell] = "shell"
      /\ \A q \in Procs : \/ st'[q] = st[q] /\ waitFor'[q] = waitFor[q]
                          \/ st[q] = "BLOCKED" /\ st'[q] = "RUN"
      /\ \A q \in Users : pc'[q] = pc[q] /\ want'[q] = want[q] /\ opt'[q] = opt[q]
      /\ UNCHANGED <<onCpu, ppid, reported>>
  BY <1>1 DEF KillWakes, EnterAndWake, WakesParent, LeaveCall, TypeOK
<1>3. \A q \in Users : Fits(q)'
  BY <1>1, <1>2 DEF WaitInv, PlaceFits, Fits
<1>4. ASSUME NEW q \in Users, Waits(q)' PROVE Informed(q)'
  <2>1. /\ ParkedWaiter(q) /\ ParkedWaiter(q)' /\ Informed(q) /\ pc'[q] # "waitPark"
        /\ st[q] = "BLOCKED" /\ st'[q] = "BLOCKED" /\ waitFor'[q] = waitFor[q] /\ q # v
    BY <1>1, <1>2, <1>4 DEF Waits, ParkedWaiter, WaitInv, WaitersInformed
  <2>2. waitFor[q] = want[q]
    BY <2>1 DEF Informed
  <2>3. ~Awaited(q, v)
    <3>1. Exists(q) /\ Found(q)
      BY <1>1, <2>1, ExistsFound DEF Exists
    <3>2. SUFFICES ASSUME Awaited(q, v) PROVE FALSE
      OBVIOUS
    <3>3. WakesParent(v) /\ ppid[v] = q
      BY <2>1, <2>2, <3>1, <3>2 DEF WakesParent, Awaited
    <3> QED
      BY <1>1, <2>1, <3>3 DEF KillWakes, EnterAndWake
  <2>4. \A r \in Users : Awaited(q, r)' <=> Awaited(q, r)
    BY <1>1, <1>2 DEF Awaited, Exists
  <2>5. \A r \in Users : Reportable(q, r)' => Reportable(q, r)
    BY <1>1, <1>2 DEF Reportable
  <2> QED
    BY <1>1, <1>2, <2>1, <2>2, <2>3, <2>4, <2>5 DEF Informed, Waits
<1>5. Entitled'
  BY <1>1, <1>2 DEF Entitled, Undisturbed
<1> QED
  BY <1>3, <1>4, <1>5, Waiting

----------------------------------------------------------------------------
(* The invariant and what it says.                                           *)

LEMMA InitWaits == ASSUME SingleCore, Init PROVE WaitInv
<1>1. \A p \in Users : p \in Procs /\ p # Shell /\ pc[p] = "none" /\ st[p] = "none"
  BY NilAssumption DEF Init, Procs
<1>2. Shell \in Procs /\ pc[Shell] = "shell"
  BY DEF Init, Procs
<1> QED
  BY <1>1, <1>2 DEF WaitInv, PlaceFits, Fits, WaitersInformed, Informed, Waits, ParkedWaiter,
                    Entitled

LEMMA NextWaits == ASSUME SingleCore, IndInv, WaitInv, [Next]_vars PROVE WaitInv'
<1>1. CASE UNCHANGED vars
  BY <1>1 DEF vars, WaitInv, PlaceFits, Fits, WaitersInformed, Informed, Waits, ParkedWaiter,
              Awaited, Reportable, Exists, Entitled
<1>2. CASE \E late \in SUBSET Sleeping : TickBsp(late)
  BY <1>2, TickBspWaits
<1>3. CASE \E c \in Aps : TickAp(c)
  BY <1>3 DEF SingleCore
<1>4. ASSUME NEW p \in Users, UserStep(p) PROVE WaitInv'
  BY <1>4, ForkWaits, ExitWaits, OtherSyscallWaits, CallSleepWaits, CallWaitpidWaits
  DEF UserStep
<1>5. ASSUME NEW p \in Users, KernelStep(p) PROVE WaitInv'
  <2>1. CASE ForkStep(p)
    BY <2>1, ForkLoadWaits, ForkStoreWaits DEF ForkStep
  <2>2. CASE WaitStep(p)
    BY <2>2, WaitFoundWaits, WaitReapWaits, WaitStoppedWaits, WaitNothingWaits,
       WaitNotReadyWaits, WaitParkWaits DEF WaitStep
  <2>3. CASE SleepStep(p)
    BY <2>3, SleepEndsWaits, SleepStopsWaits, SleepParksWaits, SleepWakesWaits DEF SleepStep
  <2>4. CASE SignalStep(p)
    BY <2>4, ReturnToUserWaits, TerminateWaits, StopWaits, ResumeWaits DEF SignalStep
  <2> QED
    BY <1>5, <2>1, <2>2, <2>3, <2>4 DEF KernelStep
<1>6. CASE \E p \in Procs, q \in Procs, sig \in Sigs : Kill(p, q, sig)
  BY <1>6, KillWaits
<1>7. CASE ShellStep
  BY <1>7, SpawnLoadWaits, SpawnStoreWaits, KillWakesWaits, KillZombieMoveWaits, ReapSlotWaits,
     ReapFreeWaits, ReapSkipWaits, ReapEndWaits, KwaitScanWaits, KallScanWaits,
     KwaitParksWaits, KsleepEndsWaits, KsleepParksWaits DEF ShellStep, ReapStep
<1>8. CASE ShellCommand
  BY <1>8, SpawnCheckWaits, ReapBeginWaits, CallKwaitAllWaits, CallKsleepWaits, KillLiveWaits,
     KillZombieWaits, CallKwaitWaits DEF ShellCommand
<1> QED
  BY <1>1, <1>2, <1>3, <1>4, <1>5, <1>6, <1>7, <1>8 DEF Next

\* On one core: what waits in waitpid is where wake_waiters finds it and has been told of every
\* child that ended or stopped, and a zombie is freed by its parent or, if that is not a live
\* ring-3 process, by the reaper.
THEOREM WaitInvariance == ASSUME SingleCore PROVE Spec => [](IndInv /\ WaitInv)
<1>1. Init => IndInv /\ WaitInv
  BY InitKeeps, InitWaits
<1>2. IndInv /\ WaitInv /\ [Next]_vars => (IndInv /\ WaitInv)'
  BY NextKeeps, NextWaits
<1> QED
  BY <1>1, <1>2, PTL DEF Spec

\* No exit, stop, kill or signal slips between the scan of do_waitpid and its hlt: a parked
\* process has a child to wait for, and none that it should have been told of.
THEOREM NoWakeupIsLost == ASSUME SingleCore PROVE Spec => []NoLostWakeup
<1>1. ASSUME IndInv, WaitInv PROVE NoLostWakeup
  <2>1. SUFFICES ASSUME pc[Shell] \notin {"wakeParent", "remove"},
                        NEW p \in Users, ParkedWaiter(p)
                 PROVE  /\ \E q \in Users : Matches(p, q)
                        /\ ZombieSlots(p) = {} /\ StopSlots(p) = {}
    BY DEF NoLostWakeup
  <2>2. /\ \E q \in Users : Awaited(p, q)
        /\ \A q \in Users : Awaited(p, q) => ~Reportable(p, q)
    BY <1>1, <2>1 DEF WaitInv, WaitersInformed, Informed, Waits
  <2>3. \A q \in Users : Matches(p, q) <=> Awaited(p, q)
    BY <1>1, <2>1, Typed, ExistsFound DEF Matches, Awaited
  <2>4. ASSUME NEW i \in 1..count, st[slot[i]] \in {"ZOMBIE", "STOPPED"} PROVE slot[i] \in Users
    BY <1>1, <2>1, <2>4, Typed DEF IndInv, SlotsExact, Used, Procs
  <2> QED
    BY <2>2, <2>3, <2>4 DEF ZombieSlots, StopSlots, Reportable
<1> QED
  BY <1>1, WaitInvariance, PTL

\* The return paths of waitpid, sleep and the stop loop leave nothing BLOCKED or STOPPED behind.
THEOREM RingThreeIsRunnable == ASSUME SingleCore PROVE Spec => []RingThreeRuns
<1>1. WaitInv => RingThreeRuns
  BY DEF WaitInv, PlaceFits, Fits, RingThreeRuns
<1> QED
  BY <1>1, WaitInvariance, PTL

----------------------------------------------------------------------------
(* The process table implements ExitStatus.                                  *)

LEMMA PromiseInit == ASSUME Init PROVE Promise!Init
<1>1. Life = [p \in Procs |-> IF p = Shell THEN "live" ELSE "unborn"]
  BY DEF Init, Life
<1>2. Asking = [p \in Procs |-> "no"]
  BY DEF Init, Asking, InWaitpid, Procs
<1> QED
  BY <1>1, <1>2 DEF Init, Promise!Init, Promise!Procs, Procs

\* Two states that look the same.
LEMMA Stutters ==
    ASSUME UNCHANGED <<ppid, code>>,
           \A p \in Procs : st'[p] = st[p]
                            \/ {st[p], st'[p]} \subseteq {"RUN", "BLOCKED", "STOPPED"},
           \A p \in Users : ~Dead(p) => (InWaitpid(p)' <=> InWaitpid(p))
                                        /\ (InWaitpid(p) => want'[p] = want[p])
    PROVE  UNCHANGED Promise!vars
<1>1. Life' = Life
  BY DEF Life
<1>2. Asking' = Asking
  <2>1. \A p \in Procs : Dead(p)' <=> Dead(p)
    BY DEF Dead
  <2> QED
    BY <2>1 DEF Asking, Procs
<1> QED
  BY <1>1, <1>2 DEF Promise!vars

LEMMA Bears ==
    ASSUME SingleCore, IndInv, WaitInv, NEW p \in Procs, Runs(p), NEW child \in Users,
           st[child] = "none", pc[p] \in {"forkAppend", "append"},
           NEW n \in Nat, NEW c \in Cpus, NEW where \in {"ret", "shell"},
           Append(p, child, n, c, where)
    PROVE  Promise!Born(child)
<1>1. /\ TypeOK /\ p # child /\ child \in Procs /\ pc[child] = "none"
      /\ st[p] \in {"RUN", "BLOCKED", "STOPPED"}
  <2>1. Exists(p) /\ TypeOK /\ (p # Shell => st[p] # "ZOMBIE")
    BY Acting, Typed DEF Procs
  <2> QED
    BY <2>1, Typed DEF Exists, IndInv, PcExact, TypeOK, States
<1>2. /\ \A q \in Procs : st'[q] = IF q = child THEN "RUN" ELSE st[q]
      /\ \A q \in Procs : pc'[q] = IF q = p THEN where ELSE IF q = child THEN "user" ELSE pc[q]
      /\ ppid' = [ppid EXCEPT ![child] = p]
      /\ UNCHANGED <<code, want>>
  BY <1>1 DEF Append, TypeOK
<1>3. Life[p] = "live" /\ Life[child] = "unborn"
  BY <1>1 DEF Life
<1>4. Life' = [Life EXCEPT ![child] = "live"]
  BY <1>1, <1>2 DEF Life
<1>5. Asking' = Asking
  BY <1>1, <1>2 DEF Asking, InWaitpid, Dead, Procs
<1> QED
  BY <1>1, <1>2, <1>3, <1>4, <1>5 DEF Promise!Born, Promise!Procs, Procs

\* SYS_EXIT, a fatal signal or the shell's kill.
LEMMA EndsIt ==
    ASSUME IndInv, NEW p \in Users, Exists(p), st[p] # "ZOMBIE", st'[p] = "ZOMBIE",
           \A q \in Procs : q # p => st'[q] = st[q] \/ (st[q] = "BLOCKED" /\ st'[q] = "RUN"),
           ppid' = ppid, NEW why \in {"exit", "killed", "signal"},
           code' = [code EXCEPT ![p] = why],
           \A q \in Users : q # p => pc'[q] = pc[q] /\ want'[q] = want[q]
    PROVE  Promise!Ends(p)
<1>1. p \in Procs /\ p # Shell /\ st[p] \notin {"none", "freed", "ZOMBIE"}
  BY Typed DEF Exists
<1>2. Life[p] = "live" /\ Life' = [Life EXCEPT ![p] = "exited"]
  BY <1>1 DEF Life
<1>3. Asking' = [Asking EXCEPT ![p] = "no"]
  <2>1. ~(InWaitpid(p) /\ ~Dead(p))'
    BY <1>1 DEF InWaitpid, Dead
  <2>2. \A q \in Users : q # p => /\ (InWaitpid(q) <=> InWaitpid(q)') /\ want'[q] = want[q]
                                  /\ (Dead(q) <=> Dead(q)')
    BY <1>1 DEF InWaitpid, Dead, Procs
  <2>3. \A q \in Procs : q \in Users /\ q # p
           => (InWaitpid(q)' /\ ~Dead(q)' <=> InWaitpid(q) /\ ~Dead(q))
    BY <2>2
  <2> QED
    BY <1>1, <2>1, <2>2, <2>3 DEF Asking
<1> QED
  BY <1>1, <1>2, <1>3 DEF Promise!Ends

\* A process that is freed leaves ExitStatus with its status.
LEMMA LeavesIt ==
    ASSUME SingleCore, IndInv, NEW p \in Procs, Runs(p), NEW where \in {"ret", "reap"},
           pc[p] \in {"collect", "reapFree"}, Release(want[p], p, where)
    PROVE  /\ want[p] \in Users /\ want[p] \in Procs /\ Life[want[p]] = "exited"
           /\ Promise!Vanishes(want[p])
           /\ Asking' = [Asking EXCEPT ![p] = "no"]
<1> DEFINE v == want[p]
<1>1. /\ TypeOK /\ Shell \in Procs /\ v \in Users /\ v # p /\ v \in Procs /\ v # Shell
      /\ st[v] = "ZOMBIE" /\ where \in PcValues
  BY Acting, Typed, Freeing DEF IndInv, Choices, AboutToFree, PcValues, Procs
<1>2. /\ \A q \in Procs : st'[q] = IF q = v THEN "freed" ELSE st[q]
      /\ \A q \in Procs : pc'[q] = IF q = p THEN where ELSE IF q = v THEN "none" ELSE pc[q]
  BY <1>1, Freeing
<1>3. /\ \A q \in Procs : q # v /\ q # p => want'[q] = want[q]
      /\ ppid' = [ppid EXCEPT ![v] = Nil] /\ code' = [code EXCEPT ![v] = "none"]
  BY <1>1 DEF Release, TypeOK
<1>4. Life[v] = "exited" /\ Life' = [Life EXCEPT ![v] = "gone"]
  BY <1>1, <1>2 DEF Life
<1>5. Asking' = [Asking EXCEPT ![p] = "no"]
  <2> HIDE DEF v
  <2>1. pc'[p] = where /\ st'[v] = "freed" /\ v \in Procs /\ v # p /\ st[v] = "ZOMBIE"
    BY <1>1, <1>2
  <2>4. ~InWaitpid(p)' /\ \A q \in Procs : q = v => Dead(q)' /\ Dead(q)
    BY <2>1 DEF InWaitpid, Dead
  <2>2. \A q \in Procs : q # v /\ q # p
           => want'[q] = want[q] /\ (InWaitpid(q)' /\ ~Dead(q)' <=> InWaitpid(q) /\ ~Dead(q))
    BY <1>2, <1>3 DEF InWaitpid, Dead
  <2>5. ASSUME NEW q \in Procs
        PROVE  (IF q \in Users /\ InWaitpid(q)' /\ ~Dead(q)' THEN want'[q] ELSE "no")
               = IF q = p THEN "no"
                 ELSE IF q \in Users /\ InWaitpid(q) /\ ~Dead(q) THEN want[q] ELSE "no"
    <3>1. CASE q = p
      BY <2>4, <3>1
    <3>2. CASE q = v
      <4>1. q # p /\ Dead(q)' /\ Dead(q)
        BY <2>1, <2>4, <3>2
      <4> QED
        BY <4>1
    <3>3. CASE q # v /\ q # p
      BY <2>2, <3>3
    <3> QED
      BY <3>1, <3>2, <3>3
  <2> QED
    BY <2>5 DEF Asking
<1> QED
  BY <1>1, <1>3, <1>4, <1>5 DEF Promise!Vanishes

----------------------------------------------------------------------------
(* The calls of a process.                                                   *)

LEMMA UserStepPromise ==
    ASSUME SingleCore, IndInv, WaitInv, NEW p \in Users, UserStep(p)
    PROVE  [Promise!Next]_(Promise!vars)
<1>1. Runs(p) /\ pc[p] = "user" /\ TypeOK /\ p \in Procs /\ Exists(p) /\ st[p] # "ZOMBIE"
  <2>1. Runs(p) /\ pc[p] = "user"
    BY DEF UserStep, Fork, Exit, OtherSyscall, CallSleep, CallWaitpid
  <2> QED
    BY <2>1, UserActs
<1>2. CASE Fork(p) \/ OtherSyscall(p) \/ CallSleep(p)
  BY <1>1, <1>2, Typed, Stutters DEF Fork, OtherSyscall, CallSleep, TypeOK, InWaitpid
<1>3. CASE Exit(p)
  <2>1. Promise!Ends(p)
    BY <1>1, <1>3, Typed, EndsIt DEF Exit, EnterAndWake, WakesParent, TypeOK
  <2> QED
    BY <2>1 DEF Promise!Next
<1>4. ASSUME NEW w \in Users \cup {Nil}, NEW o \in {"none", "nohang", "untraced"},
             CallWaitpid(p, w, o)
      PROVE  Promise!Asks(p)
  <2>1. /\ want' = [want EXCEPT ![p] = w] /\ pc' = [pc EXCEPT ![p] = "wait"]
        /\ UNCHANGED <<st, ppid, code>>
    BY <1>4 DEF CallWaitpid
  <2>2. Life[p] = "live" /\ Life' = Life
    BY <1>1, <2>1 DEF Life, Exists
  <2>3. Asking[p] = "no" /\ Asking' = [Asking EXCEPT ![p] = w]
    BY <1>1, <2>1 DEF Asking, InWaitpid, Dead, Exists, TypeOK, Procs
  <2> QED
    BY <2>1, <2>2, <2>3 DEF Promise!Asks
<1> QED
  BY <1>2, <1>3, <1>4 DEF UserStep, Promise!Next

\* A scan of do_waitpid, seen from ExitStatus: who could be collected was found.
LEMMA ScanPromise ==
    ASSUME SingleCore, IndInv, WaitInv, NEW p \in Users, At(p, "wait")
    PROVE  /\ Asking[p] = want[p] /\ Life[p] = "live" /\ want[p] # "no"
           /\ \A i \in ZombieSlots(p) : slot[i] \in Users /\ Promise!MayCollect(p, slot[i])
           /\ ZombieSlots(p) = {} => \A q \in Users : ~Promise!MayCollect(p, q)
<1>1. /\ p \in Procs /\ st[p] \notin {"none", "freed", "ZOMBIE"} /\ TypeOK
      /\ \A q \in Users : q \in Procs
  BY UserActs, Typed DEF Exists
<1>2. Asking[p] = want[p] /\ Life[p] = "live"
  BY <1>1 DEF Asking, Life, InWaitpid, Dead
<1>3. \A q \in Users : Promise!MayCollect(p, q) <=> Awaited(p, q) /\ st[q] = "ZOMBIE"
  BY <1>1, <1>2 DEF Promise!MayCollect, Awaited, Life, Exists
<1>4. ASSUME NEW q \in Users, Promise!MayCollect(p, q) PROVE ZombieSlots(p) # {}
  <2>1. Matches(p, q) /\ st[q] = "ZOMBIE"
    BY <1>3, <1>4, ScanTrue
  <2>2. PICK i \in 1..count : slot[i] = q
    BY <2>1 DEF Matches, Found, Live
  <2> QED
    BY <2>1, <2>2 DEF ZombieSlots
<1>5. want[p] # "no"
  BY <1>1, NameAssumption DEF TypeOK
<1> QED
  BY <1>2, <1>3, <1>4, <1>5, ScanTrue

LEMMA ForkStepPromise ==
    ASSUME SingleCore, IndInv, WaitInv, NEW p \in Users, ForkStep(p)
    PROVE  [Promise!Next]_(Promise!vars)
<1>1. CASE ForkLoad(p)
  BY <1>1, UserActs, Stutters DEF ForkLoad, TypeOK, InWaitpid
<1>2. ASSUME NEW child \in Users, ForkStore(p, child) PROVE Promise!Born(child)
  <2>1. Runs(p) /\ p \in Procs /\ num[p] \in Nat /\ 0 \in Cpus
    BY <1>2, UserActs DEF ForkStore, TypeOK, Cpus
  <2> QED
    BY <1>2, <2>1, Bears DEF ForkStore
<1> QED
  BY <1>1, <1>2 DEF ForkStep, Promise!Next

\* waitpid settles on a child that has exited, collects it, refuses, or goes on.
LEMMA WaitStepPromise ==
    ASSUME SingleCore, IndInv, WaitInv, NEW p \in Users, WaitStep(p)
    PROVE  [Promise!Next]_(Promise!vars)
<1>1. /\ Runs(p) /\ TypeOK /\ p \in Procs /\ pc[p] # "dead" /\ Exists(p) /\ st[p] # "ZOMBIE"
  <2>1. Runs(p) /\ pc[p] # "dead"
    BY DEF WaitStep, WaitFound, WaitReap, WaitStopped, WaitNothing, WaitNotReady, WaitPark
  <2> QED
    BY <2>1, UserActs
<1>2. CASE WaitFound(p)
  <2>1. PICK zi \in ZombieSlots(p) : want' = [want EXCEPT ![p] = slot[zi]]
    BY <1>2 DEF WaitFound, Lowest
  <2>2. /\ slot[zi] \in Users /\ Promise!MayCollect(p, slot[zi])
    BY <1>2, ScanPromise DEF WaitFound
  <2>3. UNCHANGED <<st, ppid, code>> /\ pc[p] = "wait" /\ pc' = [pc EXCEPT ![p] = "collect"]
    BY <1>2 DEF WaitFound
  <2>4. Life' = Life
    BY <2>3 DEF Life
  <2>5. Asking' = [Asking EXCEPT ![p] = slot[zi]]
    BY <1>1, <2>1, <2>3 DEF Asking, InWaitpid, Dead, TypeOK, Exists
  <2> QED
    BY <2>2, <2>3, <2>4, <2>5 DEF Promise!Settles, Promise!Next
<1>3. CASE WaitReap(p)
  <2>1. pc[p] = "collect" /\ Release(want[p], p, "ret") /\ ppid[want[p]] = p
    BY <1>3 DEF WaitReap, WaitInv, Entitled
  <2>2. Asking[p] = want[p] /\ Life[p] = "live"
    BY <1>1, <2>1 DEF Asking, Life, InWaitpid, Dead, Exists
  <2> QED
    BY <1>1, <2>1, <2>2, LeavesIt DEF Promise!Collects, Promise!MayCollect, Promise!Next
<1>4. CASE WaitStopped(p) \/ WaitNothing(p)
  <2>1. /\ At(p, "wait") /\ ZombieSlots(p) = {} /\ UNCHANGED <<st, ppid, code>>
        /\ pc' = [pc EXCEPT ![p] = "ret"] /\ want' = [want EXCEPT ![p] = Nil]
    BY <1>4 DEF WaitStopped, WaitNothing, LeaveCall
  <2>2. Life' = Life
    BY <2>1 DEF Life
  <2>3. Asking' = [Asking EXCEPT ![p] = "no"]
    BY <1>1, <2>1 DEF Asking, InWaitpid, Dead, TypeOK
  <2>4. Asking[p] # "no" /\ \A q \in Users : ~Promise!MayCollect(p, q)
    BY <2>1, ScanPromise
  <2> QED
    BY <2>1, <2>2, <2>3, <2>4 DEF Promise!Refuses, Promise!Next
<1>5. CASE WaitNotReady(p)
  BY <1>1, <1>5, Stutters DEF WaitNotReady, TypeOK, InWaitpid
<1>6. CASE WaitPark(p)
  <2>1. /\ st[p] \in {"RUN", "BLOCKED", "STOPPED"} /\ st' = [st EXCEPT ![p] = "BLOCKED"]
        /\ pc[p] = "waitPark" /\ pc' = [pc EXCEPT ![p] = "wait"] /\ UNCHANGED <<ppid, code, want>>
    BY <1>1, <1>6 DEF WaitPark, TypeOK, States, Exists
  <2> QED
    BY <1>1, <2>1, Stutters DEF TypeOK, InWaitpid
<1> QED
  BY <1>2, <1>3, <1>4, <1>5, <1>6 DEF WaitStep

LEMMA SleepStepPromise ==
    ASSUME SingleCore, IndInv, WaitInv, NEW p \in Users, SleepStep(p)
    PROVE  [Promise!Next]_(Promise!vars)
<1>1. /\ Runs(p) /\ TypeOK /\ p \in Procs /\ pc[p] \in {"sleep", "sleepHalt"}
      /\ st[p] \in {"RUN", "BLOCKED", "STOPPED"}
  <2>1. Runs(p) /\ pc[p] \in {"sleep", "sleepHalt"}
    BY DEF SleepStep, SleepEnds, SleepStops, SleepParks, SleepWakes
  <2> QED
    BY <2>1, UserActs DEF Fits
<1>2. /\ ppid' = ppid /\ code' = code /\ want' = want
      /\ \A q \in Users : q # p => pc'[q] = pc[q]
      /\ pc'[p] \in {"ret", "sleep", "sleepHalt", "sleepStopped"}
  BY <1>1 DEF SleepStep, SleepEnds, SleepStops, SleepParks, SleepWakes, TypeOK, Procs
<1>3. \A q \in Procs : st'[q] = st[q] \/ {st[q], st'[q]} \subseteq {"RUN", "BLOCKED", "STOPPED"}
  <2>1. CASE SleepStops(p)
    BY <1>1, <2>1 DEF SleepStops, EnterAndWake, WakesParent
  <2>2. CASE SleepEnds(p) \/ SleepParks(p) \/ SleepWakes(p)
    BY <1>1, <2>2 DEF SleepEnds, SleepParks, SleepWakes, TypeOK
  <2> QED
    BY <2>1, <2>2 DEF SleepStep
<1> QED
  BY <1>1, <1>2, <1>3, Stutters DEF InWaitpid

LEMMA SignalStepPromise ==
    ASSUME SingleCore, IndInv, WaitInv, NEW p \in Users, SignalStep(p)
    PROVE  [Promise!Next]_(Promise!vars)
<1>1. /\ Runs(p) /\ TypeOK /\ p \in Procs /\ pc[p] \in {"ret", "stopped", "sleepStopped"}
      /\ st[p] \in {"RUN", "BLOCKED", "STOPPED"} /\ Exists(p)
  <2>1. Runs(p) /\ pc[p] \in {"ret", "stopped", "sleepStopped"}
    BY DEF SignalStep, ReturnToUser, Terminate, Stop, Resume
  <2> QED
    BY <2>1, UserActs DEF Fits
<1>2. CASE Terminate(p)
  <2>1. Promise!Ends(p)
    BY <1>1, <1>2, Typed, EndsIt DEF Terminate, EnterAndWake, WakesParent, TypeOK
  <2> QED
    BY <2>1 DEF Promise!Next
<1>3. CASE Stop(p)
  BY <1>1, <1>3, Stutters DEF Stop, EnterAndWake, WakesParent, TypeOK, InWaitpid
<1>4. CASE ReturnToUser(p) \/ Resume(p)
  BY <1>1, <1>4, Stutters DEF ReturnToUser, Resume, TypeOK, InWaitpid, Procs
<1> QED
  BY <1>2, <1>3, <1>4 DEF SignalStep

LEMMA KillPromise ==
    ASSUME SingleCore, IndInv, WaitInv, NEW p \in Procs, NEW q \in Procs, NEW sig \in Sigs,
           Kill(p, q, sig)
    PROVE  UNCHANGED Promise!vars
<1>1. /\ TypeOK /\ \A r \in Users : r \in Procs
      /\ UNCHANGED <<ppid, code, want>>
      /\ \A r \in Procs : st'[r] = st[r] \/ (st[r] \in {"BLOCKED", "STOPPED"} /\ st'[r] = "RUN")
      /\ \A r \in Procs : pc'[r] = pc[r] \/ {pc[r], pc'[r]} \subseteq {"user", "ret", "shell"}
  BY Typed DEF Kill, Raise, TypeOK
<1> QED
  BY <1>1, Stutters DEF InWaitpid

LEMMA TickBspPromise ==
    ASSUME SingleCore, IndInv, NEW late \in SUBSET Sleeping, TickBsp(late)
    PROVE  UNCHANGED Promise!vars
<1>1. /\ UNCHANGED <<ppid, code, want, pc>>
      /\ \A r \in Procs : st'[r] = st[r] \/ (st[r] = "BLOCKED" /\ st'[r] = "RUN")
  BY Typed DEF TickBsp, TypeOK
<1> QED
  BY <1>1, Stutters DEF InWaitpid

LEMMA ShellStepPromise ==
    ASSUME SingleCore, IndInv, WaitInv, pc[Shell] # "remove", ShellStep
    PROVE  [Promise!Next]_(Promise!vars)
<1>1. /\ TypeOK /\ Shell \in Procs /\ st[Shell] \in {"RUN", "BLOCKED"}
      /\ \A q \in Users : q \in Procs /\ q # Shell
  BY Typed
<1>2. ASSUME NEW p \in Users, NEW c \in Cpus, SpawnStore(p, c) PROVE Promise!Born(p)
  <2>1. Runs(Shell) /\ num[Shell] \in Nat
    BY <1>1, <1>2 DEF SpawnStore, TypeOK
  <2> QED
    BY <1>1, <1>2, <2>1, Bears DEF SpawnStore
<1>3. CASE KillWakes
  <2>1. st[want[Shell]] = "ZOMBIE"
    BY <1>3 DEF KillWakes, IndInv, Choices
  <2>2. /\ UNCHANGED <<ppid, code>>
        /\ \A q \in Procs : st'[q] = st[q] \/ (st[q] = "BLOCKED" /\ st'[q] = "RUN")
        /\ \A q \in Users : pc'[q] = pc[q] /\ want'[q] = want[q]
    BY <1>1, <1>3, <2>1 DEF KillWakes, EnterAndWake, WakesParent, LeaveCall, TypeOK
  <2> QED
    BY <2>2, Stutters DEF InWaitpid
<1>4. CASE ReapFree
  <2> DEFINE v == want[Shell]
  <2>1. Runs(Shell) /\ pc[Shell] = "reapFree" /\ Release(v, Shell, "reap")
    BY <1>4 DEF ReapFree
  <2>2. /\ v \in Users /\ Life[v] = "exited" /\ Promise!Vanishes(v)
        /\ Asking' = [Asking EXCEPT ![Shell] = "no"]
    BY <1>1, <2>1, LeavesIt
  <2>3. Asking' = Asking
    BY <1>1, <2>2 DEF Asking
  <2>4. ppid[v] \notin Users \/ Life[ppid[v]] # "live"
    BY <1>1, <2>1 DEF WaitInv, Entitled, Life, Exists
  <2> QED
    BY <2>2, <2>3, <2>4 DEF Promise!Discards, Promise!Next
<1>5. CASE \/ SpawnLoad \/ ReapSlot \/ ReapSkip \/ ReapEnd \/ KwaitScan \/ KallScan \/ KsleepEnds
  <2>1. /\ UNCHANGED <<ppid, code, st>>
        /\ \A q \in Users : pc'[q] = pc[q] /\ want'[q] = want[q]
    BY <1>1, <1>5 DEF SpawnLoad, ReapSlot, ReapSkip, ReapEnd, KwaitScan, KallScan, KsleepEnds, TypeOK
  <2> QED
    BY <2>1, Stutters DEF InWaitpid
<1>6. CASE KwaitParks \/ KsleepParks
  <2>1. /\ UNCHANGED <<ppid, code, want>> /\ st' = [st EXCEPT ![Shell] = "BLOCKED"]
        /\ \A q \in Users : pc'[q] = pc[q]
    BY <1>1, <1>6 DEF KwaitParks, KsleepParks, TypeOK
  <2> QED
    BY <1>1, <2>1, Stutters DEF InWaitpid, TypeOK
<1> QED
  BY <1>2, <1>3, <1>4, <1>5, <1>6 DEF ShellStep, ReapStep, KillZombieMove, Promise!Next

LEMMA ShellCommandPromise ==
    ASSUME SingleCore, IndInv, WaitInv, ShellCommand
    PROVE  [Promise!Next]_(Promise!vars)
<1>1. TypeOK /\ Shell \in Procs /\ \A q \in Users : q \in Procs /\ q # Shell
  BY Typed
<1>2. ASSUME NEW p \in Users, KillLive(p) PROVE Promise!Ends(p)
  <2>1. Exists(p)
    BY <1>1, <1>2, FoundExists DEF KillLive
  <2> QED
    BY <1>1, <1>2, <2>1, EndsIt DEF KillLive, TypeOK
<1>3. CASE \/ SpawnCheck \/ ReapBegin \/ CallKwaitAll \/ CallKsleep
           \/ \E p \in Users : KillZombie(p) \/ CallKwait(p)
  <2>1. /\ UNCHANGED <<ppid, code, st>>
        /\ \A q \in Users : pc'[q] = pc[q] /\ want'[q] = want[q]
    BY <1>1, <1>3 DEF SpawnCheck, ReapBegin, CallKwaitAll, CallKsleep, KillZombie, CallKwait, TypeOK
  <2> QED
    BY <2>1, Stutters DEF InWaitpid
<1> QED
  BY <1>2, <1>3 DEF ShellCommand, Promise!Next

\* Only the shell's kill of a zombie begins a removal.
LEMMA NothingRemoved ==
    ASSUME SingleCore, "killzombie" \notin ShellDoes, IndInv, pc[Shell] # "remove", [Next]_vars
    PROVE  pc'[Shell] # "remove"
<1>1. TypeOK /\ Shell \in Procs /\ \A q \in Users : q \in Procs /\ q # Shell
  BY Typed
<1>2. CASE UNCHANGED pc
  BY <1>2
<1>3. ASSUME NEW p \in Users, UserStep(p) PROVE pc'[Shell] # "remove"
  BY <1>1, <1>3 DEF UserStep, Fork, Exit, OtherSyscall, CallSleep, CallWaitpid, TypeOK
<1>4. ASSUME NEW p \in Users, KernelStep(p) PROVE pc'[Shell] # "remove"
  <2>1. CASE ForkStep(p)
    BY <1>1, <2>1 DEF ForkStep, ForkLoad, ForkStore, Append, TypeOK
  <2>2. CASE WaitReap(p)
    BY <1>1, <2>2 DEF WaitReap, Release, IndInv, Choices, AboutToFree, TypeOK
  <2>3. CASE WaitStep(p) /\ ~WaitReap(p)
    BY <1>1, <2>3
    DEF WaitStep, WaitFound, WaitStopped, WaitNothing, LeaveCall, WaitNotReady, WaitPark, TypeOK
  <2>4. CASE SleepStep(p)
    BY <1>1, <2>4 DEF SleepStep, SleepEnds, SleepStops, SleepParks, SleepWakes, TypeOK
  <2>5. CASE SignalStep(p)
    BY <1>1, <2>5 DEF SignalStep, ReturnToUser, Terminate, Stop, Resume, TypeOK
  <2> QED
    BY <1>4, <2>1, <2>2, <2>3, <2>4, <2>5 DEF KernelStep
<1>5. CASE \E p \in Procs, q \in Procs, sig \in Sigs : Kill(p, q, sig)
  BY <1>1, <1>5 DEF Kill, TypeOK
<1>6. CASE ShellStep
  <2>1. CASE ReapFree
    BY <1>1, <2>1 DEF ReapFree, Release, IndInv, Choices, AboutToFree, TypeOK
  <2>2. CASE \E p \in Users, c \in Cpus : SpawnStore(p, c)
    BY <1>1, <2>2 DEF SpawnStore, Append, TypeOK
  <2>3. CASE \/ SpawnLoad \/ KillWakes \/ ReapSlot \/ ReapEnd \/ KwaitScan \/ KallScan
             \/ KwaitParks \/ KsleepEnds
    BY <1>1, <2>3
    DEF SpawnLoad, KillWakes, LeaveCall, ReapSlot, ReapEnd, KwaitScan, KallScan, KwaitParks,
        KsleepEnds, TypeOK
  <2>4. CASE ReapSkip \/ KsleepParks
    BY <1>2, <2>4 DEF ReapSkip, KsleepParks
  <2> QED
    BY <1>6, <2>1, <2>2, <2>3, <2>4 DEF ShellStep, ReapStep, KillZombieMove
<1>7. CASE ShellCommand
  BY <1>1, <1>7
  DEF ShellCommand, SpawnCheck, ReapBegin, CallKwaitAll, CallKsleep, KillLive, KillZombie,
      CallKwait, TypeOK
<1> QED
  BY <1>2, <1>3, <1>4, <1>5, <1>6, <1>7 DEF Next, vars, TickBsp, TickAp

\* Every step of the kernel is one of ExitStatus, or changes nothing that it sees.
LEMMA NextPromise ==
    ASSUME SingleCore, IndInv, WaitInv, pc[Shell] # "remove", [Next]_vars
    PROVE  [Promise!Next]_(Promise!vars)
<1>1. CASE UNCHANGED vars
  BY <1>1, Stutters DEF vars, InWaitpid
<1>2. CASE \E late \in SUBSET Sleeping : TickBsp(late)
  BY <1>2, TickBspPromise
<1>3. CASE \E c \in Aps : TickAp(c)
  BY <1>3 DEF SingleCore
<1>4. ASSUME NEW p \in Users, KernelStep(p) PROVE [Promise!Next]_(Promise!vars)
  BY <1>4, ForkStepPromise, WaitStepPromise, SleepStepPromise, SignalStepPromise DEF KernelStep
<1>5. CASE \E p \in Procs, q \in Procs, sig \in Sigs : Kill(p, q, sig)
  BY <1>5, KillPromise
<1> QED
  BY <1>1, <1>2, <1>3, <1>4, <1>5, UserStepPromise, ShellStepPromise, ShellCommandPromise
  DEF Next

\* The process table implements ExitStatus, as long as nobody kills a zombie from the shell
\* (reap_user_process frees it without asking whose it is): what do_waitpid, SYS_EXIT,
\* destroy_process and reap_zombies do together hands out every status exactly once, to the
\* parent, and drops it only when that parent cannot ask.
THEOREM ExitStatusImplemented ==
    ASSUME SingleCore, "killzombie" \notin ShellDoes PROVE Spec => ExitStatusKept
<1>1. Init => Promise!Init /\ NoRemoval
  BY PromiseInit DEF Init, NoRemoval, Procs
<1>2. IndInv /\ NoRemoval /\ [Next]_vars => NoRemoval'
  BY NothingRemoved DEF NoRemoval
<1>3. IndInv /\ WaitInv /\ NoRemoval /\ [Next]_vars => [Promise!Next]_(Promise!vars)
  BY NextPromise DEF NoRemoval
<1> QED
  BY <1>1, <1>2, <1>3, WaitInvariance, PTL DEF Spec, ExitStatusKept, Promise!Spec

----------------------------------------------------------------------------
(* Any number of cores.  Here two cores can both pass the check of           *)
(* MAX_PROCESSES before either appends, so that process_count stays within   *)
(* the table is a hypothesis; on one core TypeCorrect bounds it.            *)

\* What runs on a core exists and is pinned to it.
OnCore(c) == onCpu[c] # Nil => st[onCpu[c]] # "none" /\ cpu[onCpu[c]] = c
PinInv ==
    /\ onCpu \in [Cpus -> Procs \cup {Nil}] /\ st \in [Procs -> States] /\ cpu \in [Procs -> Cpus]
    /\ \A c \in Cpus : OnCore(c)

\* process_count is a size the table can have.
TableFits == count \in 1..MaxSlots

\* What a scan of the table reads is a process or a hole; the last slot, which `kill` of a zombie
\* remembers between its two halves, is one of the table's.
ScanInv ==
    /\ slot \in [1..MaxSlots -> Procs \cup {Nil}]
    /\ pc \in [Procs -> PcValues] /\ num \in [Procs -> Int]
    /\ pc[Shell] = "remove" => num[Shell] \in 1..MaxSlots

\* A process that exists goes on existing, if only as freed.
Started(s, t) == t \in [Procs -> States] /\ \A p \in Procs : s[p] # "none" => t[p] # "none"

LEMMA PinStays ==
    ASSUME PinInv, onCpu' = onCpu, cpu' = cpu, Started(st, st')
    PROVE  PinInv'
BY NilAssumption DEF PinInv, Started, OnCore

LEMMA WakesStart ==
    ASSUME PinInv, NEW child \in Procs \cup {Nil}, NEW s,
           s \in States \ {"none"} \/ s = st[child], EnterAndWake(child, s)
    PROVE  Started(st, st')
BY DEF PinInv, EnterAndWake, Started, States

LEMMA RaiseStart ==
    ASSUME PinInv, NEW p \in Procs, NEW sig, Raise(p, sig)
    PROVE  Started(st, st')
BY DEF PinInv, Raise, Started, States

LEMMA PinUser ==
    ASSUME PinInv, NEW p \in Users, 
           \/ Fork(p) \/ OtherSyscall(p) \/ CallSleep(p)
           \/ \E w \in Users \cup {Nil}, o \in {"none", "nohang", "untraced"} : CallWaitpid(p, w, o)
           \/ ForkLoad(p) \/ WaitFound(p) \/ WaitStopped(p) \/ WaitNothing(p) \/ WaitNotReady(p)
           \/ SleepEnds(p) \/ ReturnToUser(p) \/ Resume(p)
    PROVE  PinInv'
<1>1. onCpu' = onCpu /\ cpu' = cpu /\ st' = st
  BY DEF Fork, OtherSyscall, CallSleep, CallWaitpid, ForkLoad, WaitFound, WaitStopped, WaitNothing, WaitNotReady,
         SleepEnds, ReturnToUser, Resume, cpuVars
<1> QED
  BY <1>1, PinStays DEF Started, PinInv

LEMMA PinUserSt ==
    ASSUME PinInv, NEW p \in Users, 
           \/ Exit(p) \/ WaitReap(p) \/ WaitPark(p) \/ SleepStops(p) \/ SleepParks(p) \/ SleepWakes(p)
           \/ Terminate(p) \/ Stop(p)
    PROVE  PinInv'
<1>0. p \in Procs
  BY DEF Procs
<1>1. onCpu' = onCpu /\ cpu' = cpu
  BY DEF Exit, WaitReap, WaitPark, SleepStops, SleepParks, SleepWakes, Terminate, Stop, cpuVars
<1>2. CASE Exit(p) \/ Terminate(p) \/ SleepStops(p) \/ Stop(p)
  BY <1>0, <1>1, <1>2, PinStays, WakesStart DEF Exit, Terminate, SleepStops, Stop, States
<1>3. CASE WaitReap(p)
  BY <1>1, <1>3, PinStays DEF WaitReap, Release, Started, PinInv, States
<1>4. CASE WaitPark(p) \/ SleepParks(p) \/ SleepWakes(p)
  BY <1>0, <1>1, <1>4, PinStays DEF WaitPark, SleepParks, SleepWakes, Started, PinInv, States
<1> QED
  BY <1>2, <1>3, <1>4

\* A new process is on no core, so it may be pinned to any.
LEMMA PinAppend ==
    ASSUME PinInv, NEW p, NEW child \in Users, NEW n, NEW c \in Cpus, NEW where, st[child] = "none",
           Append(p, child, n, c, where)
    PROVE  PinInv'
<1>1. /\ onCpu' = onCpu /\ st' = [st EXCEPT ![child] = "RUN"] /\ cpu' = [cpu EXCEPT ![child] = c]
      /\ child \in Procs
  BY DEF Append, cpuVars, Procs
<1> QED
  BY <1>1 DEF PinInv, OnCore, States

LEMMA PinShell ==
    ASSUME PinInv,
           \/ SpawnLoad \/ KillWakes \/ KillZombieMove \/ ReapStep \/ KwaitScan \/ KallScan
           \/ KwaitParks \/ KsleepEnds \/ KsleepParks \/ ShellCommand
    PROVE  PinInv'
<1>0. Shell \in Procs
  BY DEF Procs
<1>1. CASE \/ SpawnLoad \/ ReapSlot \/ ReapSkip \/ ReapEnd \/ KwaitScan \/ KallScan \/ KsleepEnds \/ SpawnCheck
           \/ ReapBegin \/ CallKwaitAll \/ CallKsleep \/ \E p \in Users : KillZombie(p) \/ CallKwait(p)
  <2>1. onCpu' = onCpu /\ cpu' = cpu /\ st' = st
    BY <1>1 DEF SpawnLoad, ReapSlot, ReapSkip, ReapEnd, KwaitScan, KallScan, KsleepEnds, SpawnCheck,
        ReapBegin, CallKwaitAll, CallKsleep, KillZombie, CallKwait, cpuVars
  <2> QED
    BY <2>1, PinStays DEF Started, PinInv
<1>2. CASE KillWakes
  <2>1. onCpu' = onCpu /\ cpu' = cpu
    BY <1>2 DEF KillWakes, cpuVars
  <2>2. Started(st, st')
    BY <1>2 DEF KillWakes, EnterAndWake, Started, PinInv, States
  <2> QED
    BY <2>1, <2>2, PinStays
<1>3. CASE KillZombieMove \/ ReapFree
  BY <1>3, PinStays DEF KillZombieMove, ReapFree, Release, Started, PinInv, States
<1>4. CASE KwaitParks \/ KsleepParks
  BY <1>0, <1>4, PinStays DEF KwaitParks, KsleepParks, Started, PinInv, States, cpuVars
<1>5. CASE \E p \in Users : KillLive(p)
  BY <1>5, PinStays DEF KillLive, Started, PinInv, States, cpuVars, Procs
<1> QED
  BY <1>1, <1>2, <1>3, <1>4, <1>5 DEF ReapStep, ShellCommand

\* A scheduler takes a process that is pinned to its core.
LEMMA PinnedNext ==
    ASSUME PinInv, ScanInv, TableFits, NEW c \in Cpus, NEW s, NEW from, NEW next \in Pick(c, from, s)
    PROVE  slot[next] \in Procs /\ s[slot[next]] = "RUN" /\ cpu[slot[next]] = c
<1>1. next \in 1..count /\ slot[next] # Nil /\ s[slot[next]] = "RUN" /\ cpu[slot[next]] = c
  BY DEF Pick, Ready
<1>2. next \in 1..MaxSlots
  BY <1>1, SlotAssumption DEF TableFits
<1> QED
  BY <1>1, <1>2 DEF ScanInv

LEMMA PinTickAp ==
    ASSUME PinInv, ScanInv, TableFits, NEW c \in Aps, TickAp(c)
    PROVE  PinInv'
<1>1. c \in Cpus /\ st' = st /\ cpu' = cpu
  BY DEF TickAp, Cpus
<1>2. CASE \E next \in Pick(c, scan[c], st) : onCpu' = [onCpu EXCEPT ![c] = slot[next]]
  <2>1. PICK next \in Pick(c, scan[c], st) : onCpu' = [onCpu EXCEPT ![c] = slot[next]]
    BY <1>2
  <2>2. slot[next] \in Procs /\ st[slot[next]] = "RUN" /\ cpu[slot[next]] = c
    BY <1>1, PinnedNext
  <2> QED
    BY <1>1, <2>1, <2>2 DEF PinInv, OnCore
<1>3. CASE onCpu' = [onCpu EXCEPT ![c] = Nil]
  BY <1>1, <1>3 DEF PinInv, OnCore
<1> QED
  BY <1>2, <1>3 DEF TickAp

LEMMA PinTickBsp ==
    ASSUME PinInv, ScanInv, TableFits, NEW late \in SUBSET Sleeping, TickBsp(late)
    PROVE  PinInv'
<1> DEFINE due(p) == p \in Live /\ st[p] = "BLOCKED" /\ wakeAt[p] /\ expired'[p]
           awake == [p \in Procs |-> IF due(p) THEN "RUN" ELSE st[p]]
           cur == CurrentProcess(0)
<1>1. st' = awake /\ cpu' = cpu /\ (onCpu' = onCpu \/ Reschedule(cur, awake))
  BY DEF TickBsp
<1>2. Started(st, awake)
  BY DEF Started, PinInv, States
<1> HIDE DEF awake, cur
<1>3. CASE onCpu' = onCpu
  BY <1>1, <1>2, <1>3, PinStays
<1>4. CASE Reschedule(cur, awake) /\ onCpu' # onCpu
  <2>1. PICK next \in Pick(0, curIdx, awake) : onCpu' = [onCpu EXCEPT ![0] = slot[next]]
    BY <1>4 DEF Reschedule
  <2>2. slot[next] \in Procs /\ awake[slot[next]] = "RUN" /\ cpu[slot[next]] = 0 /\ 0 \in Cpus
    BY PinnedNext DEF Cpus
  <2> QED
    BY <1>1, <1>2, <2>1, <2>2 DEF PinInv, OnCore, Started
<1> QED
  BY <1>1, <1>3, <1>4

LEMMA PinStarts == ASSUME Init PROVE PinInv
  BY NilAssumption DEF Init, PinInv, OnCore, States, Procs, Cpus

LEMMA PinKept ==
    ASSUME PinInv, ScanInv, TableFits, [Next]_vars
    PROVE  PinInv'
<1>1. CASE UNCHANGED vars
  BY <1>1, PinStays DEF vars, cpuVars, Started, PinInv
<1>2. CASE Next
  <2>1. ASSUME NEW p \in Procs, NEW q \in Procs, NEW sig \in Sigs, Kill(p, q, sig) PROVE PinInv'
    BY <2>1, RaiseStart, PinStays DEF Kill, cpuVars
  <2>2. ASSUME NEW p \in Users, NEW child \in Users, ForkStore(p, child) PROVE PinInv'
    BY <2>2, PinAppend DEF ForkStore, Cpus
  <2>3. ASSUME NEW p \in Users, NEW c \in Cpus, SpawnStore(p, c) PROVE PinInv'
    BY <2>3, PinAppend DEF SpawnStore
  <2>4. ASSUME NEW p \in Users, UserStep(p) \/ KernelStep(p) PROVE PinInv'
    BY <2>2, <2>4, PinUser, PinUserSt DEF UserStep, KernelStep, ForkStep, WaitStep, SleepStep, SignalStep
  <2>5. CASE ShellStep \/ ShellCommand
    BY <2>3, <2>5, PinShell DEF ShellStep
  <2> QED
    BY <1>2, <2>1, <2>4, <2>5, PinTickAp, PinTickBsp DEF Next
<1> QED
  BY <1>1, <1>2


\* A step that stores nothing in the table.
LEMMA ScanStays ==
    ASSUME ScanInv, slot' = slot, pc' \in [Procs -> PcValues], num' \in [Procs -> Int],
           pc'[Shell] = "remove" => \/ pc[Shell] = "remove" /\ num'[Shell] = num[Shell]
                                    \/ num'[Shell] \in 1..MaxSlots
    PROVE  ScanInv'
BY DEF ScanInv

LEMMA ScanUser ==
    ASSUME ScanInv, TableFits, NEW p \in Users,
           \/ Fork(p) \/ OtherSyscall(p) \/ CallSleep(p)
           \/ \E w \in Users \cup {Nil}, o \in {"none", "nohang", "untraced"} : CallWaitpid(p, w, o)
           \/ ForkLoad(p) \/ WaitFound(p) \/ WaitStopped(p) \/ WaitNothing(p) \/ WaitNotReady(p)
           \/ SleepEnds(p) \/ ReturnToUser(p) \/ Resume(p)
           \/ Exit(p) \/ WaitPark(p) \/ SleepStops(p) \/ SleepParks(p) \/ SleepWakes(p)
           \/ Terminate(p) \/ Stop(p)
    PROVE  ScanInv'
<1>1. p \in Procs /\ p # Shell /\ Shell \in Procs /\ count \in Int
  BY NilAssumption, SlotAssumption DEF Procs, TableFits
<1>2. /\ slot' = slot
      /\ num' = num \/ num' = [num EXCEPT ![p] = count]
      /\ \E w \in PcValues : pc' = [pc EXCEPT ![p] = w]
  BY DEF Fork, OtherSyscall, CallSleep, CallWaitpid, ForkLoad, WaitFound, WaitStopped, WaitNothing, WaitNotReady,
         SleepEnds, ReturnToUser, Resume, Exit, WaitPark, SleepStops, SleepParks, SleepWakes, Terminate, Stop,
         LeaveCall, PcValues
<1>3. pc' \in [Procs -> PcValues] /\ num' \in [Procs -> Int] /\ pc'[Shell] = pc[Shell] /\ num'[Shell] = num[Shell]
  BY <1>1, <1>2 DEF ScanInv
<1> QED
  BY <1>2, <1>3, ScanStays

LEMMA ScanAppend ==
    ASSUME ScanInv, TableFits', NEW p \in Procs, NEW child \in Users, NEW n \in Int, NEW c,
           NEW where \in PcValues \ {"remove"}, Append(p, child, n, c, where)
    PROVE  ScanInv'
<1>1. child \in Procs /\ child # Shell /\ Shell \in Procs /\ n + 1 \in 1..MaxSlots /\ "user" \in PcValues
  BY NilAssumption DEF Procs, TableFits, Append, PcValues
<1>2. slot' \in [1..MaxSlots -> Procs \cup {Nil}]
  BY <1>1 DEF Append, ScanInv
<1>a. where \in PcValues /\ where # "remove" /\ 0 \in Int
  OBVIOUS
<1>b. pc' = [pc EXCEPT ![p] = where, ![child] = "user"] /\ num' = [num EXCEPT ![p] = 0]
  BY DEF Append
<1>3. pc' \in [Procs -> PcValues] /\ num' \in [Procs -> Int]
  BY <1>1, <1>a, <1>b DEF ScanInv
<1>4. pc'[Shell] = "remove" => pc[Shell] = "remove" /\ num'[Shell] = num[Shell]
  BY <1>1 DEF Append, ScanInv
<1> QED
  BY <1>2, <1>3, <1>4 DEF ScanInv

\* Freeing p forgets where it was.
LEMMA ScanRelease ==
    ASSUME ScanInv, NEW p, NEW self \in Procs, NEW where \in PcValues \ {"remove"}, Release(p, self, where)
    PROVE  /\ pc' \in [Procs -> PcValues] /\ num' \in [Procs -> Int]
           /\ pc'[Shell] = "remove" => pc[Shell] = "remove" /\ num'[Shell] = num[Shell]
<1>1. /\ pc' = [pc EXCEPT ![p] = "none", ![self] = where]
      /\ num' = [num EXCEPT ![p] = 0, ![self] = 0]
      /\ Shell \in Procs /\ "none" \in PcValues
  BY DEF Release, Procs, PcValues
<1>2. \A q \in Procs : /\ pc'[q] = IF q = self THEN where ELSE IF q = p THEN "none" ELSE pc[q]
                       /\ num'[q] = IF q = self \/ q = p THEN 0 ELSE num[q]
  BY <1>1 DEF ScanInv
<1>3. pc' \in [Procs -> PcValues] /\ num' \in [Procs -> Int]
  BY <1>1, <1>2 DEF ScanInv
<1> QED
  BY <1>1, <1>2, <1>3

LEMMA ScanTakeOut ==
    ASSUME ScanInv, TableFits, NEW i, TakeOut(i)
    PROVE  slot' \in [1..MaxSlots -> Procs \cup {Nil}]
BY SlotAssumption DEF ScanInv, TableFits, TakeOut, SwapRemove

LEMMA ScanReap ==
    ASSUME ScanInv, TableFits, NEW p \in Users, WaitReap(p)
    PROVE  ScanInv'
<1>1. p \in Procs /\ "ret" \in PcValues \ {"remove"}
  BY DEF Procs, PcValues
<1> QED
  BY <1>1, ScanTakeOut, ScanRelease DEF WaitReap, ScanInv

LEMMA ScanShell ==
    ASSUME ScanInv, TableFits,
           \/ SpawnLoad \/ KillWakes \/ KillZombieMove \/ ReapStep \/ KwaitScan \/ KallScan
           \/ KwaitParks \/ KsleepEnds \/ KsleepParks \/ ShellCommand
    PROVE  ScanInv'
<1>0. Shell \in Procs /\ count \in Int /\ count \in 1..MaxSlots
  BY SlotAssumption DEF Procs, TableFits
<1>1. CASE \/ ReapSlot \/ ReapEnd \/ KwaitScan \/ KallScan \/ KsleepEnds \/ SpawnCheck
           \/ ReapBegin \/ CallKwaitAll \/ CallKsleep \/ \E p \in Users : CallKwait(p) \/ KillLive(p)
           \/ KillWakes \/ KwaitParks
  <2>0. slot' = slot /\ num' = num
    BY <1>1 DEF ReapSlot, ReapEnd, KwaitScan, KallScan, KsleepEnds, SpawnCheck, ReapBegin, CallKwaitAll, CallKsleep,
        CallKwait, KillLive, KillWakes, KwaitParks
  <2> DEFINE Moves == \E w \in PcValues \ {"remove"} : pc' = [pc EXCEPT ![Shell] = w]
  <2>a. ASSUME \/ ReapSlot \/ ReapEnd \/ KsleepEnds \/ SpawnCheck \/ ReapBegin \/ CallKwaitAll \/ CallKsleep
             \/ \E p \in Users : CallKwait(p) \/ KillLive(p)
        PROVE Moves
    <3>1. \E w \in {"reapFree", "shell", "spawn", "reap", "kall", "ksleep", "kwait", "wakeParent"} :
             pc' = [pc EXCEPT ![Shell] = w]
      BY <2>a DEF ReapSlot, ReapEnd, KsleepEnds, SpawnCheck, ReapBegin, CallKwaitAll, CallKsleep, CallKwait, KillLive
    <3> QED
      BY <3>1 DEF PcValues
  <2>b. ASSUME KwaitScan \/ KallScan \/ KillWakes \/ KwaitParks
        PROVE Moves
    <3>1. \E w \in {"shell", "kwait", "kall", "kwaitPark", "kallPark"} : pc' = [pc EXCEPT ![Shell] = w]
      BY <2>b DEF KwaitScan, KallScan, KillWakes, KwaitParks, LeaveCall
    <3> QED
      BY <3>1 DEF PcValues
  <2>1. slot' = slot /\ num' = num /\ \E w \in PcValues \ {"remove"} : pc' = [pc EXCEPT ![Shell] = w]
    BY <1>1, <2>0, <2>a, <2>b
  <2> QED
    BY <1>0, <2>1, ScanStays DEF ScanInv
<1>2. CASE ReapSkip \/ KsleepParks
  BY <1>2, ScanStays DEF ReapSkip, KsleepParks, ScanInv
<1>3. CASE SpawnLoad
  BY <1>0, <1>3, ScanStays DEF SpawnLoad, ScanInv, PcValues
<1>4. CASE \E p \in Users : KillZombie(p)
  BY <1>0, <1>4, ScanStays DEF KillZombie, ScanInv, PcValues
<1>5. CASE ReapFree
  <2>1. "reap" \in PcValues \ {"remove"}
    BY DEF PcValues
  <2> QED
    BY <1>0, <1>5, <2>1, ScanTakeOut, ScanRelease DEF ReapFree, ScanInv
<1>6. CASE KillZombieMove
  <2>1. "shell" \in PcValues \ {"remove"}
    BY DEF PcValues
  <2>2. slot' \in [1..MaxSlots -> Procs \cup {Nil}]
    BY <1>6 DEF KillZombieMove, ScanInv
  <2> QED
    BY <1>0, <1>6, <2>1, <2>2, ScanRelease DEF KillZombieMove, ScanInv
<1> QED
  BY <1>1, <1>2, <1>3, <1>4, <1>5, <1>6 DEF ReapStep, ShellCommand

LEMMA ScanStarts == ASSUME Init PROVE ScanInv
  BY NilAssumption, SlotAssumption DEF Init, ScanInv, PcValues, Procs

LEMMA ScanKept ==
    ASSUME ScanInv, TableFits, TableFits', [Next]_vars
    PROVE  ScanInv'
<1>1. CASE UNCHANGED vars
  BY <1>1, ScanStays DEF vars, ScanInv
<1>2. CASE Next
  <2>0. {"ret", "shell"} \subseteq PcValues \ {"remove"} /\ Shell \in Procs
    BY DEF PcValues, Procs
  <2>1. ASSUME NEW p \in Procs, NEW q \in Procs, NEW sig \in Sigs, Kill(p, q, sig) PROVE ScanInv'
    <3>1. /\ slot' = slot /\ num' = num
          /\ pc' = [pc EXCEPT ![p] = IF p = Shell THEN "shell" ELSE "ret"]
      BY <2>1 DEF Kill
    <3> QED
      BY <2>0, <3>1, ScanStays DEF ScanInv
  <2>2. ASSUME NEW p \in Users, NEW child \in Users, ForkStore(p, child) PROVE ScanInv'
    <3>1. p \in Procs /\ num[p] \in Int
      BY DEF Procs, ScanInv
    <3> QED
      BY <2>0, <2>2, <3>1, ScanAppend DEF ForkStore
  <2>3. ASSUME NEW p \in Users, NEW c \in Cpus, SpawnStore(p, c) PROVE ScanInv'
    <3>1. num[Shell] \in Int
      BY <2>0 DEF ScanInv
    <3> QED
      BY <2>0, <2>3, <3>1, ScanAppend DEF SpawnStore
  <2>4. ASSUME NEW p \in Users, UserStep(p) \/ KernelStep(p) PROVE ScanInv'
    BY <2>2, <2>4, ScanUser, ScanReap DEF UserStep, KernelStep, ForkStep, WaitStep, SleepStep, SignalStep
  <2>5. CASE ShellStep \/ ShellCommand
    BY <2>3, <2>5, ScanShell DEF ShellStep
  <2>6. ASSUME NEW c \in Aps, TickAp(c) PROVE ScanInv'
    BY <2>6, ScanStays DEF TickAp, ScanInv
  <2>7. ASSUME NEW late \in SUBSET Sleeping, TickBsp(late) PROVE ScanInv'
    BY <2>7, ScanStays DEF TickBsp, ScanInv
  <2> QED
    BY <1>2, <2>1, <2>4, <2>5, <2>6, <2>7 DEF Next
<1> QED
  BY <1>1, <1>2

\* Neither scheduler resumes a process that the other is running (reschedule on the boot processor,
\* sched_tick on the others: each takes only what is pinned to its core), on any number of cores
\* and with ticks anywhere, as long as process_count stays within the table.
THEOREM NoCoreShares == Spec => ([]TableFits => []OneCoreEach)
<1>1. PinInv => OneCoreEach
  BY DEF PinInv, OnCore, OneCoreEach
<1> QED
  BY <1>1, PinStarts, ScanStarts, PinKept, ScanKept, PTL DEF Spec
=============================================================================
