SPECIFICATION Spec
CONSTANTS
    p1 = p1
    p2 = p2
    n1 = n1
    n2 = n2
    n3 = n3
    u1 = u1
    sys = sys
    r1 = r1
    r2 = r2
    nil = nil
    ProfileIDs <- MCProfiles
    Nonces = {n1, n2}
    Revs = {1}
    Actors = {u1, sys}
    System = sys
    Admins = {sys}
    Clients = {u1, sys}
    Owner <- MCOwner
    MachineScope = {p2}
    Requests = {r1, r2}
    None = nil
SYMMETRY ModeSymmetry
INVARIANTS
    TypeOK
    StoreHealthHonest
CHECK_DEADLOCK FALSE
