CONSTANTS
    p1 = p1
    p2 = p2
    p3 = p3
    Pid <- MCPid
    init = p1
    Group = {}
    Request <- MCOwnGroup
    Disposition = {"DFL", "IGN", "HANDLER"}
    MaxEvents = 0
    Sig = {9, 10, 11, 17, 40}
    SIGKILL = 9
    Deadly = {9, 10, 11, 40}
    HwFault = {11}
    Caught = {10, 11, 40}
    Ignored = {17}
    Blocked = {}
SPECIFICATION MCSpec
INVARIANT NothingToReport
CHECK_DEADLOCK FALSE
