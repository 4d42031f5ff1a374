SPECIFICATION Spec
CONSTANTS
    get = get
    post = post
    admin = admin
    idler = idler
    prober = prober
    Requests = {get}
    Safe = {get}
    Admins = {admin}
    Idlers = {}
    Probers = {prober}
    NoThread = NoThread
    Faults = {}
    MaxFaults = 0
INVARIANTS
    TeardownAlone
