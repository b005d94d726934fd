SPECIFICATION Spec
CONSTANTS
    o1 = o1
    o2 = o2
    o3 = o3
    o4 = o4
    h1 = h1
    h2 = h2
    None = None
    Owners = {o1, o2, o3, o4}
    HostOf <- TwoHosts
    Runs = {r1}
    Blocking = {}
    MaxBackground = 1
    Neighbours = FALSE
    MaxCrashes = 2
    MaxStoreFaults = 1
    MaxDrainErrors = 1
    MaxCancels = 0
SYMMETRY OwnerSymmetry
CHECK_DEADLOCK FALSE
INVARIANT RunsSafe
PROPERTY OutcomeFinal
PROPERTY LiveRunsAreSpared
