SPECIFICATION ServicesSpec
CONSTANTS
    Subjects = {"vmas", "pipes", "futex", "tcp", "ext2", "heap", "tlb", "calls", "vfs", "sockets"}

    Tasks = {1, 2, 3}
    NPages = 3
    MaxVmas = 3
    Prots = {"r", "w"}
    NewProts = {"w"}
    Buffers = {1, 2}
    GroupCalls = {}
    MaxCalls = 4

    Procs = {1, 2, 3}
    NPipes = 1
    NFds = 2
    PipeSize = 1
    SharedReads = FALSE
    KillsParked = FALSE

    Threads = {1, 2, 3}
    Iters = 2
    MaxSignals = 1

    MaxBytes = 2
    RtxQueue = 2
    MaxRetries = 1
    MayCloseFirst = {"client"}
    Writers = {"server"}

    Names = {"a", "b", "c"}
    NInodes = 5
    NBlocks = 5
    NDirect = 2
    PerIndirect = 2
    PerDirBlock = 2
    MaxOps = 4
    MaxCrashes = 1

    HeapSize = 12
    HdrSize = 1
    MinRest = 1
    SlabMax = 1
    SlabPages = {1}
    PerPage = 2
    Requests = {1, 2, 3}

    NCores = 2
    Callers = {1, 2, 3}
    Entries = {"x", "y"}
    MaxChanges = 2

    Programs = {1, 2}
    Catchers = {1}
    Signos = {2, 11}
    Faults = {11}
    Kinds = {"short", "masked"}

    NUsers = 2
    Openers = {1}
    NNodes = 2
    UserFds = 2
    RamDirs = {"root", "sub"}
    MaxKids = 1
    RamNames = {"a"}
    DiskNames = {"f"}
    Texts = {"t"}
    OpensTwice = FALSE
    RemovesOpen = FALSE

    Clients = {"c1"}
    Servers = {"s1"}
    NSocks = 3
    NConns = 3
    SockFds = 2
    Ports = {80}
    EphemeralBase = 100
    EphemeralEnd = 102
    RingLen = 1
    MaxSockets = 3
    MaxConnects = 3
    Reuses = FALSE
    CutsOff = FALSE
INVARIANTS
    ServicesTypeOK
    RegionsDisjoint
    SnapshotsOwned
    RefsExact
    WakesItsReader
    OneInside
    SomebodyWakes
    ReceivedInOrder
    AcknowledgedIsThere
    BitmapsExact
    BlocksTile
    GivenOnce
    RefusedOnlyWhenFull
    OldTranslationsGone
    ReturnsToItself
    PoolExact
    SavedAtLastClose
    SessionsApart
    HandlesExact
PROPERTIES
    PagesKeepTheirProtection
    NamesChangeAtOnce
CHECK_DEADLOCK FALSE
