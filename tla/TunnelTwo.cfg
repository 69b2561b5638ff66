SPECIFICATION Spec
CONSTANTS
    MaxConns = 2
    First = {"cancel", "loss", "setup"}
    Second = {"cancel"}
    Faults <- MCFaults
    Other = other
    None = nil
INVARIANTS
    ConfigOwnsDevice
    AttemptReleased
CHECK_DEADLOCK FALSE
