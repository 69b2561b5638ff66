SPECIFICATION Spec
CONSTANTS
    MaxConns = 2
    First = {"loss"}
    Second = {}
    Faults <- MCFaults
    Other = other
    None = nil
INVARIANT RefusedWithCause
CHECK_DEADLOCK FALSE
