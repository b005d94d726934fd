SPECIFICATION FairSpec
CONSTANTS
    o1 = o1
    o2 = o2
    o3 = o3
    o4 = o4
    h1 = h1
    h2 = h2
    None = None
    Owners = {o1}
    HostOf <- TwoHosts
    Runs = {r1, r2, r3}
    Blocking = {r3}
    MaxBackground = 1
    Neighbours = FALSE
    MaxCrashes = 0
    MaxStoreFaults = 1
    MaxDrainErrors = 0
    MaxCancels = 1
CHECK_DEADLOCK FALSE
INVARIANT RunsOwned
PROPERTY DeleteKills
