SPECIFICATION FairSpec
CONSTANTS
    Clients = {c1, c2}
INVARIANTS
    TypeOK
    CloseComplete
PROPERTIES
    HandlersEnd
CHECK_DEADLOCK FALSE
