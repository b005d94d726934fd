SPECIFICATION Spec
CONSTANTS
    k1 = k1
    g1 = g1
    g2 = g2
    w1 = w1
    w2 = w2
    t1 = t1
    t2 = t2
    t3 = t3
    a1 = a1
    a2 = a2
    s1 = s1
    None = None
    Loops = {k1, g1}
    Goals = {g1}
    Sessions = {s1}
    SessionOf <- OneSession
    MaxTicksOf <- TickLimits
    Timed = {}
    SkipIfBusy = {k1}
    Workers = {w1, w2}
    Tasks = {t1, t2}
    Admins = {a1, a2}
    Concurrency = 1
    GoalMaxErrors = 2
    MaxClaims = 2
    MaxEdits = 2
    MaxCrashes = 1
    Two = 2
SYMMETRY RowSymmetry
CONSTRAINT OneRow
INVARIANT ClaimIsActive
INVARIANT TicksAccounted
INVARIANT LimitsHold
