SPECIFICATION MCSpec
CONSTANTS
    MaxGen = 2
    MaxEvents = 2
    None = None
    Partial = Partial
    Foreign = Foreign
    Mirrors = {m1, m2, m3}
    Outputs = {o1, o2}
    Parallelism = 2
    BuildParallelism = 2
    MaxCommit = 3
    MaxSetbacks = 1
    Charts = {"t", "u"}
    Bootstraps = {"b"}
    Catalogs <- MCCatalogs
    Candidates <- MCCandidates
    MaxReleases = 3
    MaxFetchFaults = 1
    Unfinished = Unfinished
    Images = {app, addon}
    Configured = {addon}
    References = {s1, s2}
    SourcesOf <- MCSourcesOf
    Digests = {d1, d2}
    Contracts = {c1, c2}
    Locations = {l1, l2}
    Satisfactions <- MCSatisfactions
    Unused = Unused
    Undecided = Undecided
    MaxTurns = 2
    app = app
    addon = addon
    s1 = s1
    s2 = s2
    d1 = d1
    d2 = d2
    c1 = c1
    c2 = c2
    Targets = {"a", "b", "c"}
    Missing = "m"
    BakeGraphs <- MCBakeGraphs
    Roots <- MCRoots
    Parents <- MCParents
    Paths <- MCPaths
    ArchiveEntries <- MCArchiveEntries
    MaxEntries = 4
    MaxLayers = 2
    MaxChain = 5
INVARIANTS DeliveryTypeOK  ReceiptIsTrue SuccessIsTrue BudgetIsKept
  SelectsNewest  ImageIsRead
  
CHECK_DEADLOCK FALSE
