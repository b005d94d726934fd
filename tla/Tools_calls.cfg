SPECIFICATION ToolsSpec
CONSTANTS
    N = 2
    Kinds = {"task", "safe", "serial", "ask"}
    Verdicts = {"allow", "deny", "confirm", "unparsed"}
    Conc = 1
    Paths = {"a", "b"}
    Bodies = {"x", "y"}
    Large = {}
    Present = {"a"}
    FirstBody = "x"
    MaxRecords = 2
    MaxFaults = 1
    MaxUndos = 2
    Callers = {"k1", "k2"}
    RemoteStop = TRUE
    AutoStart = {"first"}
    MaxSessions = 2
    MaxMcpEdits = 1
    Agent = "gw"
    Adders = {"gw2"}
    Removers = {"ui"}
    Chats = {"c1", "c2"}
    Items = {"i", "j"}
    MaxAsks = 2
    MaxMishaps = 1
    LedgerPaths = {"a"}
    LedgerBodies = {"x", "y"}
    MaxStamp = 5
    MaxFolds = 2
    MaxDeaths = 1
    MaxStarts = 3
    JobCap = 2
    PageBytes = 2
    MaxLog = 3
INVARIANTS
    ToolsTypeOK BatchSettles HonestResponses OnlyApprovedRun GrantsSafe OutlivesSafe
PROPERTIES
    StopHolds FilesSafe StopEnds
CHECK_DEADLOCK FALSE
