SPECIFICATION Spec
CONSTANTS
    p1 = p1
    p2 = p2
    n1 = n1
    n2 = n2
    n3 = n3
    u1 = u1
    sys = sys
    r1 = r1
    r2 = r2
    nil = nil
    ProfileIDs <- MCProfiles
    Nonces = {n1, n2, n3}
    Revs = {1}
    Actors = {sys}
    System = sys
    Admins = {sys}
    Clients = {sys}
    Owner <- MCUnixOwner
    MachineScope = {}
    Requests = {r1, r2}
    None = nil
SYMMETRY UnixSymmetry
INVARIANTS
    CredentialsReachable
    AckedDurable
    NoOrphanSecrets
CHECK_DEADLOCK FALSE
