CONSTANTS
    r1 = r1
    r2 = r2
    Reqs = {r1}
    Discover = discover
    MaxCards = 2
    MaxEjects = 1
    MaxSuspends = 1
SPECIFICATION Spec
CHECK_DEADLOCK FALSE
INVARIANTS SingleDisk DiskMatchesCard TransfersOwnCard
VIEW Seen
