SPECIFICATION FairSpec
CONSTANTS
    k1 = k1
    g1 = g1
    g2 = g2
    w1 = w1
    w2 = w2
    t1 = t1
    t2 = t2
    t3 = t3
    a1 = a1
    a2 = a2
    s1 = s1
    None = None
    Loops = {g1}
    Goals = {g1}
    Sessions = {s1}
    SessionOf <- OneSession
    MaxTicksOf <- TickLimits
    Timed = {}
    SkipIfBusy = {}
    Workers = {w1, w2}
    Tasks = {t1}
    Admins = {a1}
    Concurrency = 1
    GoalMaxErrors = 2
    MaxClaims = 1
    MaxEdits = 1
    MaxCrashes = 1
    Two = 1
PROPERTY ClaimsEnd OnlyResumeReopens
