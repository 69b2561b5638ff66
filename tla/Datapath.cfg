SPECIFICATION FairSpec
CONSTANTS
    Loads = {{"out", "dtls", "loss"}, {"dpd", "loss"}, {"dpd", "dtls"}, {"user", "loss"}, {"dns", "loss"}, {"dns", "split"}}
    NumBuffers = 2
    Cap = 1
    IncludeDomains = {"corp"}
    ExcludeDomains = {"web"}
    OtherDomains = {}
    Addrs = {"a", "b"}
    MaxAnswer = 1
    TTLs = {0, 2}
    MinTTL = 1
    MaxTTL = 1
    MaxRoutes = 1
    HealthCap = 1
INVARIANTS
    TypeOK
    BuffersOwned
    HealthyRoutes
PROPERTIES
    PacketsMove
    PeerLossNoticed
    WorkersStop
CHECK_DEADLOCK FALSE
