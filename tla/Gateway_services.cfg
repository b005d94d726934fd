SPECIFICATION GatewaySpec
CONSTANTS
    Clients = {c1}
    PrimaryMax = 2
    NestedMax = 1
    MaxAttempts = 1
    MaxEvents = 4
    MaxDrops = 3
    MaxRestarts = 1
    Msgs = {m1}
    Writers = {w1, w2}
    Palaces = {p1, p2}
    Unbound = Unbound
    Nobody = Nobody
    ClaimLimit = 2
    MaxFaults = 2
    Starts = {"s1", "s2"}
    Notes = {"n1"}
    MaxDeaths = 1
    MaxErrors = 1
    Turns = {t1, t2}
    MaxEdits = 1
    MaxReloads = 2
    MaxJobs = 1
    Signals = {s1}
    NoEpisode = NoEpisode
    MaxVerdicts = 2
    MinGap = 1
    QueueCap = 2
    MaxInFlight = 1
    MaxRequests = 2
    MaxInner = 3
    MaxEpoch = 2
    MaxConns = 2
    MaxSlots = 2
    MaxSaid = 2
    MaxSpoken = 2
    MaxToolCalls = 2
    MaxBarges = 1
    MaxTrouble = 1
    MaxInputs = 3
INVARIANTS
    GatewayTypeOK MemorySafe ReloadSafe VerdictsSafe RealtimeSafe
PROPERTIES
    ImplementsDelivery ServicesProgress
CHECK_DEADLOCK FALSE
