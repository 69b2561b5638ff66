SPECIFICATION Spec
CONSTANTS
    p1 = p1
    p2 = p2
    p3 = p3
    u1 = u1
    u2 = u2
    sys = sys
    c1 = c1
    c2 = c2
    c3 = c3
    nil = nil
    Profiles = {p1, p2}
    Unborn = {p2}
    AutoReconnect = {p1}
    Socks = {p1}
    MachineScope = {}
    Owner <- MCOwner
    Actors = {u1, u2, sys}
    System = sys
    Admins = {u1, sys}
    Clients = {u1}
    ClientOps = {"connect", "disconnect", "create", "update"}
    Faults = {"loss", "proxy", "secret", "cleanup"}
    Conns = {c1, c2}
    MaxTries = 1
    MaxQueue = 1
    MaxEvents = 8
    None = nil
SYMMETRY ConnSymmetry
INVARIANTS
    TypeOK
    ProxyBound
    RetryCutsNothing
