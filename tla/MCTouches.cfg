SPECIFICATION FairSpec
CONSTANTS
    h1 = h1
    h2 = h2
    Handlers = {h1, h2}
    NoHandler = NoHandler
    Interval = 2
    CallTime = 3
    IdleTimeout = 15
    MaxStreams = 2
    MaxFaults = 1
INVARIANTS
    TypeOK
    ThrottleExact
    StreamTouched
PROPERTIES
    IdleSeen
