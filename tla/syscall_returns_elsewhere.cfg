SPECIFICATION SyscallsSpec
CONSTANTS
    Programs = {1, 2}
    Catchers = {}
    Signos = {2}
    Faults = {}
    Kinds = {"short", "open"}
INVARIANT ReturnsToItself
CHECK_DEADLOCK FALSE
