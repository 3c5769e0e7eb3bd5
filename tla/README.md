# NyxOS in TLA+

Specifications of the kernel of this repository, checked with TLC and, where a
theorem says so, proved with TLAPS. NyxOS is a 64-bit monolithic kernel in C: a
preemptive scheduler on one or more cores, ring-3 processes with fork,
copy-on-write and signals, pipes, ext2, TCP/IP and a desktop. A unit test of such a
kernel runs one interleaving; what goes wrong in it takes a tick at the wrong
instruction, a zombie in the wrong slot, or a page shared by the wrong history of
forks and mprotects. These specifications are about those.

Paths below are relative to `src/kernel/` unless they say otherwise.

## Inventory

| Part | State | Operations | Hard because | Must hold | Here |
|---|---|---|---|---|---|
| Process table, scheduler (`proc/process.c`) | `process_table`, `process_count`, `current_idx`, per process `state`, `ppid`, `exit_code`, `waiting_for`, `wake_tick`, `sched_*` | fork, exit, waitpid, spawn, kill, reap, kwait, tick | a tick, another core or a second reaper between two statements; slots move on removal | the table is exact; `current_idx` is who runs; no lost wake-up; each exit status goes to one collector | `Process` |
| Signals (`proc/signal.c`) | `sig_pending`, `sig_handlers`, `sig_mask`, `stopped_reported` | raise, dispatch, stop/continue, terminate, handlers, alarm | raised at a process in any state, delivered much later | a dead process stays dead; a blocked call ends; a task resumes what a handler interrupted | `Process`, `Syscalls` |
| System calls (`core/syscall.c`) | `user_cr3`, `user_rsp`, `blocked_in_kernel` | about 90 calls | calls that block in ring 0 share globals | a call returns to the caller, runnable, on its own stack and page tables | `Process`, `Syscalls` |
| Timer, interrupts (`core/timer.c`, `irq.c`, `isr.c`) | `tick_count` | tick, `sleep` | wrap-around, tick against halt | sleeps end | `Process` |
| SMP (`core/smp.c`, `spinlock.h`) | `cpu_info[]`, `sched_cur`, IPIs | AP tick, shootdown, work queues | real parallelism | one core per process; no old translation survives | `Process` (AP tick), `Tlb` |
| Shell (`core/kernel.c`) | the foreground job | spawn, kill, wait, self-tests | a kernel thread that changes the table with interrupts on | as the table | `Process` (those commands) |
| Page frames (`mm/memory.c`) | bitmap, reference counts, pins | alloc, incref, free | sharers on several cores | counts = entries; nothing leaks | `AddressSpace` |
| Paging (`mm/paging.c`) | page tables | faults, clone, free, protect | count read without the lock; failure half-way | memory of a process is its own | `AddressSpace` |
| mmap (`mm/mmap.c`) | VMA table | map, unmap, protect with splits | splits with a full table; a leader that dies hands the table over | regions disjoint; each call changes its pages only; snapshots have one owner | `Vmas`; `AddressSpace` (one-page regions) |
| Shared libc (`proc/shared_libc.c`) | master frames | load, map, dlopen | unmatched releases | masters never freed, never writable unless mprotect was asked for it | `AddressSpace` (libc) |
| Kernel heap (`mm/heap.c`, `memory.c`, `slab.c`) | free lists | kmalloc, kfree | splitting, late coalescing, two allocators behind one call | blocks tile the heap; nothing given twice; refused only when full | `Kheap` |
| ELF, exec (`proc/elf.c`) | a new address space | load, exec | failure half-way | old image or new one | `Vmas` (exec's commit) |
| Pipes, descriptors (`proc/pipe.c`, `process.c`) | ring buffer, end counts, one reader slot | read, write, close, dup, fork, exit | a reader killed while parked; ends counted on six paths | counts = descriptors; a sleeping reader is woken | `Pipes`; descriptors of files in `Vfs`, of sockets in `Sockets` |
| Threads, futexes (`proc/process.c`) | `tgid`, shared space | clone, futex, leader hand-over | leader dies while threads fault | no lost futex wake; one heap window | `Futex`; `Vmas` (group and hand-over) |
| VFS, procfs (`fs/vfs.c`) | node pool, free stack, `/proc` nodes, descriptors | open, close, dup, unlink, rename, `proc_sync` | a node is an index that five paths give back | no descriptor names a node used for something else; a disk file is saved at its last close | `Vfs` |
| ext2 (`fs/ext2.c`) | bitmaps, inodes, blocks, sector cache | create, mkdir, write, unlink | power fails between two writes, or inside one | what is reachable is allocated; a name changes at once | `Ext2` |
| TCP (`net/tcp.c`) | `conns[]`, retransmission queue | calls, RX, timer | loss, duplication, reordering, timer against RX | bytes once and in order; nothing acknowledged that is not there | `Tcp` |
| Sockets (`net/net.c`, `ip.c`) | `nsocks[]`, loopback ring | socket, listen, connect, accept, close, poll | indexes into tables that others release; tables that are full | sessions do not meet; no handle is lost | `Sockets` |
| Rest of the network (`net/`) | ARP cache, leases | ARP, UDP, DNS, HTTP | request and answer with time-outs | - | not modelled |
| Accounts, drivers, desktop, crypto/TLS, images, doom, userland, tools | - | - | sequential, hardware or third-party | - | not modelled |

Parts meet in four places: the process table (every task, through
`get_current_process`), the frame counts (every address space), the descriptor table
of a process (pipes, files and sockets behind one index), and the tick, which is the
only thing that takes a core away from running code. System calls and faults run with
interrupts masked, so on one core they are atomic except where they halt; with two or more
cores also except for a shootdown, which enables interrupts (`Syscalls`). The shell is a
kernel thread and runs with interrupts on.

## Modules

- `Process`: the table, both schedulers, fork, exit, waitpid, the sleeps, job-control
  and fatal signals, the shell commands, the three ways a dead process is freed.
  `ProcessProps` holds its properties and the inductive invariant; `MCProcess` the
  instances; `Process_proofs` the theorems.
- `ExitStatus`: what exit, waitpid and the reapers promise about a child's status.
  `ProcessProps!ExitStatusKept` says that `Process` implements it.
- `AddressSpace`: frames, page tables, demand-zero and copy-on-write faults, fork's
  clone and its rollback, munmap, mprotect, teardown, the libc pages.
  `AddressSpaceProps`, `MCAddressSpace` and `AddressSpace_proofs` as above.
- `PrivateMemory`: what demand paging and copy-on-write promise: each process has its
  own memory, fork copies it. `AddressSpaceProps!MemoryIsPrivate` is the refinement.

- `Vmas`: the regions of mmap in thread groups. `PageMap` is what mmap, munmap and
  mprotect promise page by page, and `VmasProps!PagesKeepTheirProtection` says that
  `Vmas` implements it. `Memory_proofs` has the theorems.
- `Pipes`: pipes and their descriptors, with `Descriptors_proofs`. `Futex`: the futex and the mutex
  built on it. `Tlb`: the shootdown. `Cores_proofs` has the theorems of both.
- `Syscalls`: the way into the kernel and back, sleeping calls and signal handlers, with
  `Cores_proofs`.
- `Kheap`: kmalloc over the slab and the block list, with `Memory_proofs`, its first part.
- `Vfs`: the node pool, with `Vfs_proofs`. `Ext2`: the driver as a sequence of disk writes; `Namespace` is
  what it promises about names, and `Ext2Props!NamesChangeAtOnce` says so. `Ext2_proofs` has the
  theorems.
- `Tcp`: one connection over a bad network, with `Tcp_proofs`. `Sockets`: many connections over the
  loopback, with `Descriptors_proofs`.
- Each `...Props` has the properties of its module. `MCServices` extends the ten service
  modules above; see Runs.

### Process and the code

A variable stands for the C variable or `process_t` field that its comment names.
`pc[p]` is where `p`'s own kernel code is; `onCpu[c]` is whose context core `c` really
executes, which the code has no variable for, and which `current_idx` and `sched_cur`
are supposed to know. A step is a stretch of code with interrupts masked. It is split
where another core can see the middle (`ForkLoad`/`ForkStore` around
`process_table[process_count++]`, `WaitNotReady`/`WaitPark` around the state change) and,
for the shell, where a tick can land (`KillLive`/`KillWakes`, `KillZombie`/
`KillZombieMove`, `ReapSlot`/`ReapFree`). `Preemptible` says whether such ticks are
taken; the two states are kept apart because the shell's updates are guarded by nothing
but luck in `reap_user_process` and `destroy_process`. Deadlines are abstract: a tick
may expire any of the sleeps (`late`).

A process identity is used once, as pids are. `exec`, threads, handlers, masks and
descriptors are left out; any system call that changes none of this is `OtherSyscall`.

### AddressSpace and the code

`pte[p][v]` is a leaf entry (frame, writable, copy-on-write), `tab[p]` the frame that
stands for the tables below the PML4, `prot[p][v]` the VMA that covers a page. What
happens under `page_lock` is one step; every other access to shared data is its own, so
the count read by the copy-on-write handler (`CowFault`) and the decision taken from it
(`CowKeep`, `CowAlloc`, `CowCopy`, `CowDrop`, `CowMap`) are apart, and so are the shared
entry and its count in fork (`CloneShare`, `CloneRef`). `Parallel` bounds how many tasks
work on spaces at once. Allocation fails when `free` is empty: the handlers then return
(`FaultFails`) and fork rolls back (`ForkFails`, `FreeLeaf`, `FreeTable`, `FreeRoot`,
`ForkUndone`). mprotect takes any page of a program, the libc's included: it bounds the range
(`mmap.c:128`) and asks for no region there.

`TLC` identifies states that differ only in the numbers of frames or in the contents of
frames nobody can read (`StateView`): `alloc_page` takes the lowest free frame and
nothing else looks at the numbers.

### The services and the code

**Vmas.** `table[p]` is `mmap_vmas`, as a set: no code depends on the slot of a region.
`Leader` is `tg_leader`, which falls back on the task itself when its leader is gone;
`HandOver` is the part of `tg_reassign_leader` that moves the table. `taken` and `leaked`
follow the kernel buffers in which a file-backed region keeps its snapshot: fork copies
them, an exec or reaping frees them, clone leaves them with the leader. Addresses are pages. A failed
fork leaves its copies behind (`leaked`), as the code does. A whole call is a step: tasks
of one group are pinned to one core and calls run masked. `GroupCalls` says whether fork
and execve are made by a group of several tasks.

**Pipes.** `pipe[i]` is `pipes[i]` with the bytes reduced to their number; `fds` is
`ufd_inuse`/`ufd_handle`. `ReadRound` is the body of `pipe_read`'s loop, so a reader that
is woken looks again. `TaskKill` leaves the descriptors to `TaskReap`, `TaskExit` closes
them. `lost` records the ends that a failed fork has counted and never gives back.

**Futex.** `lock` is the word in user memory; the user-side loop (`Take`, `Unlock`) and
`do_futex` are interleaved at every instruction that touches it. `Nudge` is a signal: it
makes a sleeper runnable, which then finds `futex_key` still set and sleeps again.

**Tlb.** `Change` and the four steps of `tlb_shootdown` on the side of the caller,
`EnterHandler`, `Invalidate`, `Answer` on the side of the interrupted core. Each core is
taken to hold the old translation of whatever changes. `Finish` covers both ends of the
wait: everybody has answered, or it has timed out (`warned`). `Toggle` lets a core have its
interrupts off for any time.

**Syscalls.** `slot` is `user_rsp`/`user_cr3` of the core's block, `frame`, `stack` and
`root` what `iretq` will load. `kept` is the copy that a sleeping call saves on its stack
and restores. Calls are of four kinds: "short" (never sleeps), "masked" (sleeps and
comes back with interrupts off: waitpid, pipe reads, poll), "open" (comes back with
interrupts on: sleep, futex, a terminal read that was interrupted) and "shootdown" (munmap and
mprotect when there is another core: `tlb_shootdown` enables interrupts while it waits, and
nothing restores the slots after it). `Dispatch` is the
part of `signal_dispatch` that enters a handler, with its one saved context, `Sigreturn` its inverse, `Siglongjmp` the
libc's way out of a handler. `should` is a history variable: the context the task has to
be in. Programs unblock a signal inside its handler only to jump out of it.

**Kheap.** `blocks` is the list of `heap_block_t` by address, `Coalesced` the merging that
`kmalloc` does while it walks, up to the block it takes; `live` is what was given out,
with the magic in its header. Pages that the slab takes stay with it, as in the code.

**Vfs.** `vfs.node` is `nodes[]`, `vfs.free` the stack `free_nodes`, `kids` the children of
ramdisk directories, `pdir`/`pfile` the entries of `/proc/<pid>` (one file stands for the
three). `Synced` is `proc_sync`, which runs on every lookup in `/proc` or listing of the
tree and removes before it adds. A file of the mounted disk has a mirror node while it is
open; `Flushed` writes it back and marks it clean whether that worked or not, as
`flush_mount_node` does. A file may have no room on the disk (`full`, which comes and goes with
`RoomChanges`), and a mirror may be opened without memory for the text it should hold. `last`, `stale`
and `whole` are history: what the disk should say, whether a write-back was refused or wrote a
mirror that was not whole, and whether the mirror is. A refused write leaves the old text: that
`ext2_write_file` may also stop in the middle, after a crash or for a double-indirect file, is left out.

**Ext2.** An operation is computed when it starts (it runs under `ext2_lock`) and `todo`
holds the disk after each of its writes in the order of the code; `DiskWrite` performs the
next, `Crash` throws the rest away and mounts again, which reads the counters from the
disk. A write is one of a block, which the driver sends sector by sector. What an operation
changes of a block lies in one sector, or the block is not yet anyone's, except for an entry
that enters a directory: its header and name may cross a sector, and the entry before it is
shortened in the same write. `CrashInside` is a crash there, and `Torn` what it can leave: a slot
that was free shows the new inode under the name it had before or a part of it, or the scan
stops at a length that is zero and what follows in the block is no longer seen, nor its room. Operations fail half-way where the code does, for want of a block or an inode. The
`Places` of an inode are its blocks in the order of the file and then the indirect block;
`BlockAt` is what is there, for the allocator, for `free_inode_blocks` and for the properties.
Link counts have their 16 bits (`LinkWidth`).

**Tcp.** `conn[e]` is the entry of `conns[]` at each side, `net` every segment ever sent:
any of them may arrive at any time, any number of times, or never. `Receive` is
`tcp_handle_packet_inner` in its order: acknowledgement, close progress, data, FIN, with
the reply; `stored` says whether there was memory for the data. `Send` is `send_segment` with
its two allocations: without memory for the segment nothing goes out and no number is taken,
although the caller has changed the state; without memory for its copy, or room in the queue,
it goes out and is not kept (`unkept`, a history variable). An ACK takes no number, so that one for
which there is no memory is one that the network lost. `Resend` and `GiveUp` are
`tcp_tick_inner`.

**Sockets.** `nsocks`, `conns` and the descriptors of the programs are the three tables;
`ring` is the loopback ring, which drops what does not fit. A poll takes a packet at a
time, drained before the timers run. Of a segment only its kind and whether its
acknowledgement covers everything is kept; `due` says that the entry keeps something for
retransmission. The source port goes around at `EphemeralEnd` (`NextPort`, `net.c:157`);
`dialled`, a history variable, says whether it has. `orphans` are the connections that a full table of sockets, or a second
connect on one socket, has left without a socket. A socket's `mine` is a history variable.

## Runs

| Run | Instance | Shows |
|---|---|---|
| `process_family` | 1 core, 3 processes, table of 4 | table exact, `current_idx` right, no lost wake-up, refinement of `ExitStatus` |
| `process_signals` | 1 core, 2 processes, STOP and CONT, shell kill | types; no lost wake-up with job control; ring-3 code is runnable; the dead stay dead |
| `process_smp` | 2 cores, 2 processes, ticks inside the shell's updates | no process is resumed by both schedulers |
| `process_live` | 1 core, 2 processes, fairness | orphans are reaped, sleeps and waitpid return, nobody starves |
| `cow` | 2 spaces, 1 private and 1 libc page, 7 frames, any mprotect on both | types, counts exact, libc frames never freed and writable only where mprotect was asked for it |
| `cow_family` | 3 spaces, 1 page, 8 frames, mprotect(PROT_WRITE) | writable means private, refinement |
| `services` | see the next table | the properties of the ten services |
| `lost_wakeup` | 2 cores | violated: see below |
| `signal_wait` | 1 core, fairness | violated |
| `mprotect_shared` | 2 spaces, mprotect both ways | violated |
| `libc_mprotect` | 2 spaces, 1 libc page, mprotect(PROT_WRITE) | violated |
| `syscall_returns_elsewhere` | 1 core, 2 tasks, calls that end with interrupts on | violated |

`services` checks ten specifications that share no variable in one run. `subject` is
chosen at the start and says which one a behaviour is about; the variables of the others
stay at their initial values, so the state space is the sum and not the product. Narrow
`Subjects` in the cfg to look at one.

| Subject | Instance | Properties | Bounds |
|---|---|---|---|
| `vmas` | 3 tasks, 3 pages, 3 regions, 2 buffers, 4 calls (fork, clone and execve count) | `RegionsDisjoint`, `SnapshotsOwned`, `PagesKeepTheirProtection` (refinement of `PageMap`) | three pages are a head, a middle and a tail; a split of one region needs three entries, so a table of three also refuses; a leader, a thread and a forked child; also proved |
| `pipes` | 3 tasks, 1 pipe, 2 descriptors, a ring of 1 byte | `RefsExact`, `WakesItsReader` | a task can hold both ends, or one end twice; three tasks are a reader, a writer and a third that inherits; also proved |
| `futex` | 3 threads, 2 rounds, 1 signal | `OneInside`, `SomebodyWakes` | one inside, one asleep, one on the way; also proved |
| `tcp` | 2 bytes, queue of 2, 1 retry | `ReceivedInOrder`, `AcknowledgedIsThere` | two bytes can overtake one another; the server writes, the client closes first, so data and its acknowledgements cross both FINs; memory may run short at any segment; also proved |
| `ext2` | 4 inodes from the root on (2 to 5), 5 blocks, 3 names, 2 entries to a block, 4 operations, 1 crash | `BitmapsExact`, `NamesChangeAtOnce` (refinement of `Namespace`) | inodes and blocks run out; a file reaches its indirect block; a directory fills a block; an entry that is torn has two others before or behind it; also proved |
| `heap` | 12 bytes, 1 slab page of 2 objects, sizes 1 to 3 | `BlocksTile`, `GivenOnce`, `RefusedOnlyWhenFull` | four blocks fit, so a block can be free between two others and merge with both; also proved |
| `tlb` | 2 cores, 3 callers, 2 entries, 2 changes | `OldTranslationsGone` | a core has two callers, one of which waits for the lock while the other is interrupted; also proved |
| `calls` | 2 tasks, 1 of which gets signals, 2 signals of which one is a fault | `ReturnsToItself` | the other signal comes while a handler runs, and while a siglongjmp is on its way to main; also proved |
| `vfs` | 2 processes, pool of 2, 2 descriptors, 2 ramdisk directories, 1 name there, 1 disk file | `PoolExact`, `SavedAtLastClose` | the pool runs out with one process in `/proc` and a file open; a descriptor and its dup; a disk that is full for a while; renames are of a file to itself, those between two files are in the proofs, and in TLC with `DiskNames = {"f", "g"}` (709000 states); also proved |
| `sockets` | 1 client, 1 server, 3 sockets, 3 connections, 2 descriptors, ring of 1, 2 source ports, 3 connects | `SessionsApart`, `HandlesExact` | the two ends of a session and the beginning of a second fill the table of connections; sockets, descriptors and ring run out; the third connect takes the first port again; also proved |

What an instance leaves out on purpose. `SharedReads`, `KillsParked` (pipes), `OpensTwice`,
`RemovesOpen` (vfs), `CutsOff`, `Reuses` (sockets), "open" and "shootdown" in `Kinds` (calls) and
`GroupCalls` (vmas) are constants because the code does not do what it should with them;
see below. `Writers`, `MayCloseFirst` and `RtxQueue` do the same for tcp.

Why the bounds of the other runs are enough for what is asked. Three processes give a grandchild, an
orphan and two siblings, which is every relation that the reapers distinguish; the
table is exactly full then. (A fork that is refused for want of a slot needs more
processes than slots; the proofs cover it, `count <= MaxSlots` is in `TypeOK`.) A removal in the middle of a
table of four moves the last slot over it with the cursor before, at and after the
hole. Two signals are enough to stop and continue; the shell's kill covers the third
way of dying. Three spaces are needed for a frame that is still shared after one
sharer has copied it. With eight frames every space can have its tables and a page of its
own, or one of them runs out of memory, in the fault handler and half-way through a
fork. `MaxRef` is scaled: the code has 255 for up to 512 processes; both runs have
enough for what their spaces can share; only the count of a pinned libc frame, which does
not matter, reaches the top in `cow`. Each process asks for mmap once per
page (`mmap_next` only grows).

Fairness, in `FairSpec` only. A tick that is masked stays latched in the interrupt
controller, so a tick that is possible again and again is taken (strong fairness), and
`tick_count` reaches every deadline. Kernel code of a process that gets the core again
and again moves on. The shell's loop calls the reaper on each pass. No fairness is
assumed for ring-3 code, for exits, signals, or commands. While the shell sits in `wait`
nothing is reaped; the fairness for `ShellStep` and `ReapBegin` says nothing then.

### Where the code does not do what it says

- `lost_wakeup`: `do_waitpid` scans and parks with interrupts masked, which is atomic on
  one core. With the parent on an application processor, the child can exit on the BSP
  after the scan: `wake_waiters` finds the parent still running, and the parent then parks
  beside a zombie for ever. On one core `NoLostWakeup` holds (`process_family`).
- `signal_wait`: `do_waitpid` never looks at pending signals. Woken by one it scans and
  parks again, so not even SIGKILL ends it while the child lives; `signal.c` says it does.
- `mprotect_shared`: a page that is read-only at fork is shared without the copy-on-write
  mark; a later `mprotect(PROT_WRITE)` makes the shared frame writable. The comment in
  `vm_protect_range` describes this outcome as fixed; it is, for marked pages.
- `syscall_returns_elsewhere`: `do_sleep_ms`, `do_futex` and an interrupted terminal read
  leave their loop with interrupts on and restore the core's `user_rsp` and `user_cr3`.
  The `cli` of the return path comes later; a tick in between lets another task's call
  overwrite the slots, and the first returns on the other's stack and page tables.
- `libc_mprotect`: the bound of `do_mprotect` lets the range of the shared libc through, and
  `vm_protect_range` makes its pages writable: one process then writes what all others execute.
  The comment in `mmap.c` names this as what the bound prevents. It prevents it for the kernel's
  half only. `cow` shows what is left: no frame of the libc is ever freed, and nothing but that
  mprotect, or a fork after it, makes an entry writable.

The following were met while modelling. No run is spent on them. TLC shows the first six, with
the property and the instance that are named; the constants named above let it show some of the
others, and the rest is visible in the definitions.

- `page_incref` stops at 255 silently, and `MAX_PROCESSES` is 512. The frame is freed while the
  last sharers still map it (`CountsExact` in `MCAddressSpace` with three spaces, one page and `MaxRef = 2`).
- munmap and mprotect on a machine with two or more cores return like the calls of
  `syscall_returns_elsewhere`: `tlb_shootdown` enables interrupts while it waits for the others
  (`smp.c:97`), so the task can be preempted there, and these calls keep no copy of the slots at all.
  `isr_stubs.asm:270-271` says a simple call "runs cli'd from entry to iretq" (`ReturnsToItself` in
  `SyscallsProps` with `Kinds = {"short", "shootdown"}`).
- A close sets FIN_WAIT1 or LAST_ACK (`tcp.c:481`, `488`) and then asks `send_segment` for the FIN. If
  there is no memory for it (`tcp.c:163`) the state stays, no number is taken, and the next acknowledgement of
  older data counts as one of the FIN: FIN_WAIT2, with a peer that will never see an end, where
  `tcp.c:615-617` says "everything including our FIN is acknowledged" (`FinAcknowledged` in `TcpProps`,
  even with `MaxBytes = 0`).
- A segment for whose copy there is no memory (`tcp.c:198`), or no room in the queue, is sent and
  not kept. If it is lost nobody can send it again; `tcp.h:67-70` says "lost data stays recoverable"
  (`LostIsRecoverable` in `TcpProps`, with `MaxBytes = 1`).
- `flush_mount_node` marks the mirror clean whatever `write_file` returned (`vfs.c:592`), and the
  last close frees it. On a full disk what was written is lost and no call says so; `vfs.c:700` says
  "Persist a mount file's deferred writes at the last close" (`PersistedAtLastClose` in `VfsProps`
  with one process, one descriptor and one disk file). A mirror for whose text there is no
  memory is opened empty (`vfs.c:540-541`), and a write through it replaces the file.
- After 20000 connects the source ports start again (`net.c:157`), and a
  port may still belong to an entry in FIN_WAIT2, whose peer keeps its end. The SYN of the new
  connection then goes to the old entry of the peer (`SourcePortIsFresh` in `SocketsProps` with one
  client, one server, four connections, a ring of two and the two source ports of `services`).
- Pipes: a second reader overwrites `waiter`, so the first is never woken; a reader killed
  while parked is made runnable as a zombie. A fork that fails has counted the ends for
  good. `signal.c` says that a signal makes a blocked pipe read return; the read, and a futex
  wait, loop and sleep again.
- Futex: `worker` in `user/threads.c` is not affected, but the join loop there reads `done`
  twice, once for the comparison and once for the value to sleep on, and can sleep on the
  final value, which nobody will change (`user/threads.c:85` calls the loop race-free).
- TCP: a FIN is taken wherever it starts, which acknowledges lost data before it
  (`tcp.h` keeps unacknowledged segments "so lost data stays recoverable"). A pure ACK that
  completes a handshake or answers a FIN is not sent again unless the peer repeats itself in
  a state that answers. A side
  in FIN_WAIT2 has no timer. A reset is never recognised: it counts as an acknowledgement,
  which can complete a handshake or leave SYN_SENT for ever.
- Sockets: a connection that the timer gives up is released under the socket that keeps its
  index; once the entry is reused that socket reads, writes and closes a stranger's
  connection. An accept that finds no free socket loses the connection. A second connect or
  listen on a socket forgets the first. `SYS_DUP` does not count sockets, and `SYS_DUP2` onto
  one calls `vfs_close`. A server's accept takes any unaccepted connection with its port, which an
  outgoing one could have.
- VFS: a disk file that is removed or renamed while open comes back at its last close, although
  `vfs.c:704` says it must not; a file opened twice has two mirrors and the last close wins.
  `O_TRUNC` is ignored on the disk, and renaming a disk file to itself deletes it.
  Renaming a ramdisk file to a name that exists leaves both entries.
- ext2: removing a directory leaves its inode and blocks in use (`Strays`). After a crash the
  free count lags behind the bitmap, so a write that was let through can fail half-way.
  A crash in mkdir between the entry and the parent's count leaves that count low. A crash
  between the sectors of a new directory entry can hide names of that directory (`CrashInside`);
  nothing in the repository promises otherwise.
- Signals: SIGKILL waits behind a handler that is running, and `do_execve` clears it. A fault's
  signal ignores the mask. A handler that unblocks its own signal loses the saved context.
- mmap: a thread's fork copies its own stale table; see the hazards for the heap window.

## Proofs

`Process_proofs` proves, for every number of processes, every size of the table and
every weight, on one core without ticks inside the shell's updates (`SingleCore`):

- `Invariance`: `IndInv` is an invariant;
- `TypeCorrect`, `CurrentIsRunning`, `TableIsExact`: `TypeOK`, `KnowsItself`,
  `TableExact`;
- `TheDeadStayDead`: the action property `DeadStayDead`.

Why an inductive invariant is needed. `KnowsItself` alone is not inductive: a removal
keeps `current_idx` on the running process only if the slot being removed is not the
running one, which holds because a zombie that the remover chose is not running, which
holds because a zombie never gets the core back and because nothing could run between
the choice and the removal. `IndInv` therefore adds to the types: every process that
exists has exactly one slot and the shell the first (`SlotsExact`); the cursor is on the
running process (`CursorExact`); the places that run with the timer shut out are places
of the running process (`MaskedRun`); what a half-done update remembers is still true
(`RoomLeft`, `Choices`); and where a process is agrees with its state (`PcExact`).

The proof has one lemma per action. Most actions leave the table alone; `QuietUser` and
`QuietShell` reduce them to what they may not disturb. Appending (`AddedSlot`), taking a
slot out (`TakenSlot`) and freeing (`Freeing`) carry the table arguments and are shared by
fork and spawn, and by the three reapers. The assumptions are those of the constants in
`Process` and `SingleCore`; on two cores `TableExact` does fail (see the hazards in
`PROJECT.json`), so the assumption is needed and not a convenience.

Its second half goes on from `IndInv`, under the same assumptions. `WaitInvariance` adds `WaitInv`:
what blocks or stops a process is the call that it is in (`PlaceFits`); whoever is parked in
waitpid, or between its scan and there, can be found by `wake_waiters`, has a child to wait for,
and has been told of each that ended or stopped, except the one whose parent the shell is
about to wake (`WaitersInformed`); and only the parent collects, while the reaper takes nothing
from a live parent (`Entitled`). From it follow `NoWakeupIsLost` (`NoLostWakeup`) and
`RingThreeIsRunnable` (`RingThreeRuns`). The middle part needs the others: a sleep or a stop that
let a process go on BLOCKED would look like a parked waiter. `ExitStatusImplemented` is the
refinement `ExitStatusKept`, action by action. It also assumes that the shell does not kill
zombies: `reap_user_process` frees one without asking whose it is, and its parent then never
gets the status.

Its last part is about any number of cores, with ticks anywhere. `NoCoreShares` proves `OneCoreEach`
from `PinInv`: what runs on a core exists and is pinned to that core, and a process is pinned once,
by whoever appends it. `ScanInv` says that a scan reads only processes and holes. The theorem is
conditional, `[]TableFits => []OneCoreEach`: on two cores a fork and a spawn can both see one free slot
(`process.c:131`, `process.c:242`) and the second then stores past `process_table`. The model shows
this with three users and three slots (`TableFits` fails after ten steps); in `process_smp`
three processes have four slots, and it holds.

`AddressSpace_proofs` is about any number of spaces, pages and frames, with every access to shared
data interleaved. Its invariants build on one another:

- `ShapeInv` (`ShapeInvariance`, `TypeCorrect`): what a space looks like by where the kernel code
  is that works on it, and that a fork builds a space nobody else touches.
- `AskedInv` (`LibcStaysIntact`): an entry of the libc is never marked copy-on-write, and it is
  writable only if its process, or one that it was forked from, has asked mprotect for that, which
  is what `prot` says; so a handler never goes on with one, and no count or store of a handler
  touches a frame of the libc. Nothing is assumed. `LibcInv` adds, for the refinement alone, that
  no entry of the libc is writable when no page can be made so.
- `CountInv` and `KindInv` (`CountsStayExact`): the count of a frame is the number of entries,
  tables, roots and handlers that refer to it, less what fork has shared and not counted yet;
  and a frame is a page of programs, or a table, or held by one handler. The second keeps the
  first true when a step changes two of these at once. Assumed is that a count can reach the
  number of spaces.
- `ReadyInv` and `PrivateInv` (`WritableStaysPrivate`): a writable entry is the only one of its
  frame, and so is the one that a handler has decided to go on with, although it read the count
  before. Assumed besides is `NoReadOnly`: if pages can be made writable, none is mapped or made
  read-only.
- `ViewInv` (`MemoryStaysPrivate`, the refinement): what a handler has copied is still what the
  faulting page says, fork has copied the parent's entries up to the page it is at, and the libc
  reads as it did. The argument for a step is the same nearly everywhere: the frame that it
  writes, if any, is read by nobody (`Unread`), so all contents stay; a step that moves no entry
  of a live space is then invisible (`LocalQuiet`). The steps that are visible are the store, the
  demand-zero page, the end of a copy, munmap, the end of fork and the beginnings and ends of
  processes.

Neither of these two assumptions is a convenience. `MAX_PROCESSES` is 512 and a count stops at 255, and
`CountsExact` fails then; the run `mprotect_shared` shows what read-only
pages do. `cow_family`, which has no libc and no read-only pages, satisfies both.

The second part of `Memory_proofs` is about any number of tasks, pages, buffers and entries.

- `RegionsNeverOverlap` (`RegionsDisjoint`). With the types of the tables it is inductive: a new
  region starts at `top`, above all others; what `Outside` and `Split` leave of a region lies inside
  it; and a table is only ever copied or handed over whole, together with its `top`.
- `SnapshotsStayOwned` (`SnapshotsOwned`). `GroupInv` says that the leader of a thread is there and
  has none itself, `OwnInv` that tasks that are not there have no regions and threads hold no
  snapshots. Without the latter the hand-over could write over a table that owns one.
- `PagesAreAsAsked` is the refinement of `PageMap`. `SpaceInv` says that the tasks of a space are
  exactly those of a group, so they see one table, and as its regions do not overlap it says one
  thing of each page (`MapRight`). Assumed is `GroupCalls = {}`, as in `services`: a thread that
  forks copies its own stale table, and one that calls execve leaves with its group's.

`Tcp_proofs` proves `TcpInvariance` for any number of bytes, retransmissions and segments on a
network that loses, delays, reorders and duplicates. `TcpInv` says of each side what the
segments on the wire tell of it (`Wire`), that it sends the bytes in order and then a FIN (`Stream`),
that it has a beginning of what the peer sent and expects the next (`Expected`), what may
be in its queue (`Queue`), and that it knows of a FIN only after the peer has sent one (`FinSeen`).
`BytesArriveInOrder` (`ReceivedInOrder`) needs no more. `FinsAreSeen` is about a FIN that is on the
wire; one that found no memory is not, and is excepted because TLC finds the peer still in ESTABLISHED then (see above). `KeptIsKept`
says that no acknowledgement clears a byte that the peer has not stored: what was sent is stored,
in the queue, or was never kept. `AcknowledgedIsReceived` (`AcknowledgedIsThere`) is the two
together. None of them assumes anything of memory, of the queue or of the number of bytes.

`Descriptors_proofs` proves `RefsInvariance` and `CountsMatchDescriptors` (`RefsExact`) for any number of
tasks, pipes and descriptors. `RefsInv` adds to the property that a task that is not born has no
descriptors, and that a pipe in use has a count above zero. `SleepersAreWoken` (`WakesItsReader`)
rests on `Parked`, which ties a blocked reader to the `waiter` of an empty pipe with a writer.
Its assumptions, one reader of a pipe at a time and no kill of a task inside `pipe_read`, are
those of `services`; the code loses the sleeper without them (see above).

Its second half proves `SocketInvariance`, `ProgramsDoNotMeet` (`SessionsApart`) and `NothingIsLost`
(`HandlesExact`) for any number of programs, sockets, connections and packets. `SockInv` adds where
the ports of an entry come from (`EntryOK`: a port of a server, or one that the counter has already
passed), so that a new entry has a pair of its own until the counter has been around once
(`FirstRound`; after that the code promises it no more, see above); and that a socket is on an entry that is not
closing and was made for it or accepted (`HeldOK`), so that what the network releases is nobody's
and what `tcp_accept` takes is free. A step of the network on an entry is then one of two kinds: nobody
has the entry (`LooseStep`), or it stays what it is for its socket (`HeldStep`). Assumed is `~CutsOff`: a
connection that the timer gives up is released under its socket (see above), and TLC
finds `SessionsApart` violated with it. Nothing is assumed of `Reuses`.

`Cores_proofs` proves `FutexInvariant`, `MutualExclusion` and `NoWakeupLost` for any set of
threads and any number of rounds and signals. The invariant says that the word
is held exactly while somebody is inside, that a sleeper has its key noted, and that it leaves
behind somebody who is awake: inside, on the way there, or about to wake.

It also proves `ShootdownInvariant` and `NoOldTranslations` (`OldTranslationsGone`) for any
number of cores above one, of callers and of entries. `LockHeld` makes the posted
address that of one caller; `StaleHears` says of each old translation who will still make
its core drop it; `Asked` says that until a wait times out only those are interrupted whom
somebody waits for, so an answer counted down is an answer to the address that is posted.

Its last part proves `ContextsComeBack` (`ReturnsToItself`) for any number of tasks and signals.
`ReturnInv` says that interrupts are masked in the kernel and nobody else gets the core from
where a task has filled the slots to `iretq` (`RunsMasked`), so that they are still its own then
(`SlotsRight`); and that a handler has interrupted one context, which is the one in `sig_saved`
(`HandlersRight`). Assumed is that no call is "open" or a "shootdown". It is what the code gets wrong: with such
calls the property fails, as the run `syscall_returns_elsewhere` shows for the first.

The first part of `Memory_proofs` proves `HeapInvariance`, and from it `TheBlocksTile` (`BlocksTile`), `NothingGivenTwice`
(`GivenOnce`) and `NoFalseRefusal` (`RefusedOnlyWhenFull`), for a heap and requests of any size.
The list of blocks is a function of addresses, and the merging walk of `heap_alloc` a set
of runs, so no induction over the list is needed: the end of a run is a least number (`LeastOf`,
from the well-foundedness of the naturals), every byte is in a block (`Covering`), and a free
block is in a run with one head (`HeadOf`, `HeadIsOuter`). A stretch with room would then be inside
a run with room (`NoRoom`).

`Vfs_proofs` proves `VfsInvariant`, and from it `PoolIsExact` (`PoolExact`) and `SavedWhenClosed`
(`SavedAtLastClose`), for any number of processes, nodes, descriptors, directories and names. `VfsInv`
says that a node is free, at one place of the ramdisk or `/proc`, or adrift, which is a mirror or what
was unlinked while it was open (`Pool`, `Once`); that its count is that of its descriptors
(`Counted`), without which the last close would not be the last; and of the mirrors that they have
what was written last, if they are whole, and are dirty or else the disk has it too, unless it is
marked as stale: it refused a write, or got a mirror that was not whole (`Saved`). It is a predicate of any
state, descriptors and history (`Good`), so that it holds of the states inside a call: between two
steps of `proc_sync` and `close_proc_fds`, which are folds, and in `vfs_open` while the handle has no
descriptor yet. A fold is a function of the steps done (`FoldsExist`), and what each step keeps the
fold keeps (`UpTo`: a least counterexample). `SavedWhenClosed` assumes that no file of the disk is
opened twice at a time, or removed while it is open, as `services` does: a mirror is made for each
open, and the later close wins; `PoolIsExact` assumes nothing. What a full disk or a mirror without
memory loses is excepted in the property itself; the code loses it silently (see above).

`Ext2_proofs` proves `FsInvariant`, and from it `FsTypes`, `BitmapsAreExact` (`BitmapsExact`) and
`NamesAreAtomic` (`NamesChangeAtOnce`, the refinement of `Namespace`), for any names, any numbers of
inodes, blocks and direct and indirect pointers, any operations and crashes. All that is assumed is
what a mount checks: a bitmap is one block.
An operation is a log of disks, so the invariant is about those that are still to come: each of them
is `Sound`, which is what may be there after a crash; each `Moves` the tree by one step of
`Namespace` or not at all; one that `Enters` a name comes from a disk that stays `Sound` when
that entry is torn, and the tree then loses names of one directory or gains the file under
another name (`LostStep`, `NS!TreeTorn`); and until the first crash the last is `Settled`, with nothing lost.
`State` is what all of these are instances of: some inodes have blocks of their own (`Kept`), every
path leads to one of them and no two to the same (`Named`), they and what the operation has in hand
are marked used (`Bits`), and before the first crash nothing else is and the links of the root are
right (`Book`). `Now` says that a log has come so far; each helper of the driver has a lemma that
takes `Now` to `Now`, whatever else the operation has in hand: `AllocBlockStep`, `QuietWrite` for
writes that no path notices, and so on. An operation is a chain of them with one link where the
tree changes: the entry in the parent for create, mkdir and unlink, the inode with its new size for
a write. That a file which grows has enough blocks, so that before the first crash the loop of
`ext2_write_file` never fails half-way, is `Ample`: every block that is mapped takes one from the
places that lack one, and one from the free count. The loops are folds, treated as in `Vfs_proofs`.

Only model-checked: `ServicesTypeOK` as far as the inductive invariants do not contain it, and
liveness, which cannot be proved with this prover.

## Not modelled

Parsing, rendering, drivers and cryptography: no shared state, or hardware the repository
does not describe. Doom, the C compiler under `user/tcc` and other third-party code, which
are most of the lines of the repository. Accounts and login read and write one file in
sequence. In modelled parts: loading of ELF images; alarms; kernel threads other than the
shell; the sbrk heap and stack growth; writable libc segments; the contents of file-backed
mappings; datagram sockets, ARP, DNS and HTTP; shrinking files, double-indirect blocks and
moving directories in ext2 and the ramdisk; the spinlock's own instructions. Each
behaviour of these that looks fragile is a hazard with a note in `PROJECT.json`.

The composition of services with `Process` is not a model of its own: `Pipes`, `Futex` and
`Vmas` have the life cycle of tasks as far as their properties look at it.

## Plan

Models: the sbrk heap and stack growth in `AddressSpace`; liveness of the shootdown (two
cores that shoot at one another with interrupts off) and of pipe readers; a transport
that survives RST.
