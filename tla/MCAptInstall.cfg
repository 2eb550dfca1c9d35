SPECIFICATION Spec
CONSTANTS
    a = a
    b = b
    c = c
    None = None
    Pkg <- MCPkg
    Rank <- MCRank
    Ver <- MCVer
    Versions <- MCVersions
    Path <- MCPath
    Requires <- MCRequires
    Files <- MCFiles
    Essential <- MCEssential
    MaxTargets = 1
INVARIANTS
    TypeOK
    RecordsAreTrue
    CallsAreDistinct
    FreshIsComplete
    DownloadsFindSetupIni
