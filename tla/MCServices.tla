----------------------------- MODULE MCServices -----------------------------
(***************************************************************************)
(* The services of the kernel that share no state with one another, each   *)
(* checked on its own in one run of TLC: subject says which one a behaviour *)
(* is about, and the others stay where they started.                       *)
(***************************************************************************)
EXTENDS VmasProps, PipesProps, FutexProps, TcpProps, Ext2Props, KheapProps, TlbProps,
        SyscallsProps, VfsProps, SocketsProps

CONSTANT Subjects    \* of "vmas", "pipes", "futex", "tcp", "ext2", "heap", "tlb",
                      \* "calls", "vfs" and "sockets"

VARIABLE subject

servicesVars == <<subject, vmaVars, pipeVars, futexVars, tcpVars, fsVars, heapListVars, tlbVars,
                  callVars, userVars, sockVars>>

ServicesInit ==
    /\ subject \in Subjects
    /\ VmaInit /\ PipeInit /\ FutexInit /\ TcpInit /\ FsInit /\ HeapInit /\ TlbInit
    /\ SyscallsInit /\ VfsInit /\ SockInit
    /\ subject # "calls" => running = CHOOSE t \in Programs : TRUE

\* The step is one of service s, and leaves the variables of the others alone.
Only(s) ==
    /\ subject = s /\ UNCHANGED subject
    /\ s # "vmas" => UNCHANGED vmaVars
    /\ s # "pipes" => UNCHANGED pipeVars
    /\ s # "futex" => UNCHANGED futexVars
    /\ s # "tcp" => UNCHANGED tcpVars
    /\ s # "ext2" => UNCHANGED fsVars
    /\ s # "heap" => UNCHANGED heapListVars
    /\ s # "tlb" => UNCHANGED tlbVars
    /\ s # "calls" => UNCHANGED callVars
    /\ s # "vfs" => UNCHANGED userVars
    /\ s # "sockets" => UNCHANGED sockVars

ServicesNext ==
    \/ Only("vmas") /\ VmaNext
    \/ Only("pipes") /\ PipeNext
    \/ Only("futex") /\ FutexNext
    \/ Only("tcp") /\ TcpNext
    \/ Only("ext2") /\ FsNext
    \/ Only("heap") /\ HeapNext
    \/ Only("tlb") /\ TlbNext
    \/ Only("calls") /\ SyscallsNext
    \/ Only("vfs") /\ VfsNext
    \/ Only("sockets") /\ SockNext

ServicesSpec == ServicesInit /\ [][ServicesNext]_servicesVars

\* The types of the variables of the subject; those of the others do not change.
ServicesTypeOK ==
    /\ subject \in Subjects
    /\ subject = "vmas" => VmasTypeOK
    /\ subject = "pipes" => PipesTypeOK
    /\ subject = "futex" => FutexTypeOK
    /\ subject = "tcp" => TcpTypeOK
    /\ subject = "ext2" => FsTypeOK
    /\ subject = "heap" => HeapTypeOK
    /\ subject = "tlb" => TlbTypeOK
    /\ subject = "calls" => SyscallsTypeOK
    /\ subject = "vfs" => VfsTypeOK
    /\ subject = "sockets" => SockTypeOK
=============================================================================
