SPECIFICATION Spec
CONSTANTS
    a = a
    b = b
    a1 = a1
    a2 = a2
    b1 = b1
    c1 = c1
    c2 = c2
    w1 = w1
    Runtimes = {a, b}
    NoRuntime = NoRuntime
    Pids = {a1, b1}
    NoPid = NoPid
    NoActor = NoActor
    Owner <- MCOwner
    Tracked = {a, b}
    WithUrl = {a, b}
    MayRelease = {a, b}
    MayTouch = {a, b}
    Cmds = {c1, c2}
    Dogs = {}
    FreeTimeout <- SameTimeout
    PostTime = 0
    KillGrace = 0
    StuckDrainExtra = 1
    StaleGrace = 1
    BusyGrace = 1
    IdleTimeout = 2
    Waits = {1}
    MaxAge = 2
    MaxAcquires = 3
    MaxCrashes = 0
PROPERTIES
    DrainBlocksGrant
SYMMETRY Alike
