SPECIFICATION Spec
CONSTANTS
    p1 = p1
    p2 = p2
    p3 = p3
    u1 = u1
    u2 = u2
    sys = sys
    c1 = c1
    c2 = c2
    c3 = c3
    nil = nil
    Profiles = {p2}
    Unborn = {}
    AutoReconnect = {}
    Socks = {}
    MachineScope = {p2}
    Owner <- MCOwner
    Actors = {u1, u2, sys}
    System = sys
    Admins = {sys}
    Clients = {sys}
    ClientOps = {"machine", "user", "delete"}
    Faults = {"network", "deadline"}
    Conns = {c1, c2, c3}
    MaxTries = 1
    MaxQueue = 1
    MaxEvents = 1
    None = nil
SYMMETRY ConnSymmetry
INVARIANTS
    NoGhostTunnel
    TimerForExisting
PROPERTIES
    MachineLocked
