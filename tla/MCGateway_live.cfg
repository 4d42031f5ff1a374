SPECIFICATION FairSpec
CONSTANTS
    get = get
    post = post
    admin = admin
    idler = idler
    prober = prober
    Requests = {get, post}
    Safe = {get}
    Admins = {}
    Idlers = {idler}
    Probers = {prober}
    NoThread = NoThread
    Faults = {"server", "relay", "hang", "broker", "slow"}
    MaxFaults = 1
PROPERTIES
    RequestEnds
    IdleOffloads
    ReleasedAfterStop
