SPECIFICATION Spec
CONSTANTS
    get = get
    post = post
    admin = admin
    idler = idler
    prober = prober
    Requests = {get, post}
    Safe = {get}
    Admins = {admin}
    Idlers = {idler}
    Probers = {}
    NoThread = NoThread
    Faults = {"server", "relay", "start", "ssh", "hang", "broker", "slow"}
    MaxFaults = 2
INVARIANTS
    TypeOK
    TeardownAlone
    AtMostOnce
    OneReply
