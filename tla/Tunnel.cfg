SPECIFICATION FairSpec
CONSTANTS
    MaxConns = 1
    First = {"setup", "cancel", "loss", "device", "dtls", "underlay"}
    Second = {}
    Faults <- MCFaults
    Other = other
    None = nil
INVARIANTS
    TypeOK
PROPERTIES
    ImplementsContract
    CallsReturn
    ClosedReleases
CHECK_DEADLOCK FALSE
