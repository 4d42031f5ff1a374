SPECIFICATION AgesSpec
CONSTANTS
    a = a
    b = b
    a1 = a1
    b1 = b1
    c1 = c1
    c2 = c2
    Runtimes = {a, b}
    NoRuntime = NoRuntime
    Pids = {a1, b1}
    NoPid = NoPid
    Owner <- MCOwner
    Tracked = {a, b}
    WithUrl = {a, b}
    MayRelease = {a, b}
    MayTouch = {a, b}
    Cmds = {c1, c2}
    Dogs = {}
    FreeTimeout <- SameTimeout
    PostTime = 0
    KillGrace = 0
    StuckDrainExtra = 1
    StaleGrace = 1
    BusyGrace = 1
    IdleTimeout = 2
    Waits = {1}
    MaxAge = 2
    MaxAcquires = 3
    MaxCrashes = 0
PROPERTIES
    YoungDeadKept
