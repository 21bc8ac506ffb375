SPECIFICATION MCSpec
CONSTANTS
    Facts = {fa, fb}
    Roots = {ra, rb}
    NoFile = NoFile
    Foreign = Foreign
    Unmanaged = Unmanaged
    MaxOutside = 1
    MaxFaults = 2
    Bridges = {virbr0, virbr1}
    NoBridge = NoBridge
    MaxNetworks = 2
    MaxBreaks = 2
    Dirs <- MCDirs
    Projects <- MCProjects
    Ancestors <- MCAncestors
    NoState = NoState
    MaxChmods = 2
    MaxStops = 3
    Parallelism = 2
    MaxBroken = 1
    NoReport = NoReport
    Unprobed = Unprobed
    Items = {item}
    Details = {"u"}
    MaxReports = 3
    MaxHandoffs = 1
    NoBatch = NoBatch
    Unreported = Unreported
    ChunkLimit = 3
    StreamLimit = 5
    LineLimit = 2
    TailLimit = 2
    NoLine = NoLine
    Playbooks = {c1, c2}
    Hosts = {h1, h2}
    Domains = {n1, n2}
    ResourceLimit = 2
    MaxLines = 3
    NoCommand = NoCommand
INVARIANTS WorkstationTypeOK  OutputIndependentOfWrites
PROPERTIES SuccessIsLive UninstallIsExact OutcomesAreShown CommandsEnd
\* A command that ended leaves nothing to do.
CHECK_DEADLOCK FALSE
