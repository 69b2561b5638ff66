SPECIFICATION FairSpec
CONSTANTS
    Crowds = {{"watcher"}, {"tray"}}
    RingSize = 2
    Buf = 1
    MaxRev = 4
    MaxTrayRev = 2
    MaxStatus = 2
    MaxEpoch = 2
    MaxBreaks = 1
INVARIANTS
    TypeOK
    NoGap
    NoMissedChange
    MenuCurrent
PROPERTIES
    NeverBackwards
    CatchesUp
CHECK_DEADLOCK FALSE
