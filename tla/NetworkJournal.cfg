SPECIFICATION Spec
CONSTANTS
    server = server
    include = include
    dynInclude = dynInclude
    dynExclude = dynExclude
    dynExclude2 = dynExclude2
    dns = dns
    Objects <- MCObjects
    Group <- MCGroup
    TunBound = {include, dynInclude}
    Configs <- MCConfigs
    HostRoutes = {server, dynExclude}
INVARIANTS
    TypeOK
    JournalCovers
    NothingLeftBehind
PROPERTIES
    HostRoutesKept
