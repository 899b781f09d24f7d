CONSTANTS
    r1 = r1
    r2 = r2
    Reqs = {r1}
    Discover = discover
    MaxCards = 1
    MaxEjects = 1
    MaxSuspends = 1
SPECIFICATION FairSpec
CHECK_DEADLOCK FALSE
PROPERTIES DiscoverySettles SlotNoticed LiveRequestsComplete
