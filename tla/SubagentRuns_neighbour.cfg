SPECIFICATION Spec
CONSTANTS
    o1 = o1
    o2 = o2
    o3 = o3
    o4 = o4
    h1 = h1
    h2 = h2
    None = None
    Owners = {o1, o2}
    HostOf <- TwoHosts
    Runs = {r1}
    Blocking = {}
    MaxBackground = 1
    Neighbours = TRUE
    MaxCrashes = 0
    MaxStoreFaults = 0
    MaxDrainErrors = 0
    MaxCancels = 0
CHECK_DEADLOCK FALSE
PROPERTY LiveRunsAreSpared
