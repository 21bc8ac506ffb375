SPECIFICATION MCSpec
CONSTANTS
    Commands = {"apply", "tool"}
    Runs <- MCRuns
    MaxMade = 3
    MaxKeys = 3
    MaxOwner = 2
    None = None
    Broken = Broken
    Procs = {p1, p2}
    Absent = Absent
    Link = Link
    Old = Old
    Alien = Alien
    Target = Target
    MaxSwaps = 1
    Lockers = {l1, l2, l3}
    MaxInodes = 3
    NoFile = NoFile
    Unlocked = Unlocked
    Users = {u1, u2}
    MaxFaults = 3
    Nobody = Nobody
    MaxTears = 2
    MaxTroubles = 2
    Chunks = 3
    PipeRoom = 1
INVARIANTS LocalTypeOK OneHolder  
PROPERTIES NeverRotates ServedIsExact 
CHECK_DEADLOCK FALSE
