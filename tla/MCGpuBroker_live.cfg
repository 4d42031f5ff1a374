SPECIFICATION FairSpec
CONSTANTS
    a = a
    b = b
    a1 = a1
    a2 = a2
    b1 = b1
    c1 = c1
    c2 = c2
    w1 = w1
    Runtimes = {a, b}
    NoRuntime = NoRuntime
    Pids = {}
    NoPid = NoPid
    NoActor = NoActor
    Owner <- MCOwner
    Tracked = {a}
    WithUrl = {}
    MayRelease = {b}
    MayTouch = {a, b}
    Cmds = {c1, c2}
    Dogs = {w1}
    FreeTimeout <- SameTimeout
    PostTime = 0
    KillGrace = 0
    StuckDrainExtra = 1
    StaleGrace = 1
    BusyGrace = 1
    IdleTimeout = 2
    Waits = {1}
    MaxAge = 2
    MaxAcquires = 3
    MaxCrashes = 1
PROPERTIES
    StaleReclaimed
    DrainEnds
    KeptDrainBlocksGrant
    AcquireAnswered
