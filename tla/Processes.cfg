CONSTANTS
    p1 = p1
    p2 = p2
    p3 = p3
    Pid <- MCPid
    init = p1
    Group <- MCGroup
    Request <- MCRequest
    Disposition = {"IGN", "HANDLER"}
    MaxEvents = 1
    Sig = {9, 10, 11, 17, 40}
    SIGKILL = 9
    Deadly = {9, 10, 11, 40}
    HwFault = {11}
    Caught = {10, 11, 40}
    Ignored = {17}
    Blocked = {11, 40}
SPECIFICATION MCSpec
INVARIANTS ParentIsThere VforkHolds NothingToReport
INVARIANTS MaskIsRestored NoSleepOnSignal
PROPERTIES DeathIsReported KillIsDelivered
CHECK_DEADLOCK FALSE
