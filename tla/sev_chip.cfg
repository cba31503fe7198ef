SPECIFICATION FairSpec
CONSTANTS
    primary = primary
    tool = tool
    capture = capture
    sentinel = sentinel
    root = root
    p1 = p1
    p2 = p2
    r1 = r1
    c1 = c1
    Nobody = nobody
    Users = {sentinel, root}
    Superusers = {root}
    CreatesShared = FALSE
    HostHasCerts = TRUE
    Wanted <- HostWanted
    Procs = {primary, tool, capture}
    Threads <- HostThreads
    ProcOf <- HostProcOf
    UserOf <- HostUserOf
    Granted = {primary, tool}
    Bypassing = {capture}
INVARIANTS TypeOK OverlapNeedsUnguarded LockFileDecides
PROPERTIES ChannelComesFree WaitersMove
