SPECIFICATION Spec
CONSTANTS
    g1 = g1
    g2 = g2
    r1 = r1
    r2 = r2
    c1 = c1
    c2 = c2
    p1 = p1
    p2 = p2
    Users = {g1, g2, c1, c2}
    Relays = {r1, r2}
    NoRelay = NoRelay
    Gateways = {g1, g2}
    NoGateway = NoGateway
    Clis = {c1, c2}
    NoCli = NoCli
    Ports = {p1, p2}
    MaxCommands = 2
    MaxCrashes = 0
PROPERTIES
    RetiresOnlyStale
SYMMETRY Alike
CHECK_DEADLOCK FALSE
