SPECIFICATION ConversationSpec
CONSTANTS
    MaxTurns = 4
    DoomThreshold = 2
    EmptyRetries = 1
    PostToolRetries = 1
    JobNudges = 1
    Rejections = 2
    GateMax = 1
    MaxVerdicts = 1
    TailBudget = 2
    LoadMax = 6
    MaxIds = 8
    NoteIds = {2}
    Texts <- SomeTexts
    Media <- SomeMedia
    MaxBranches = 2
    MaxBranchIds = 5
    BranchBudget = 2
    CallIds = {1, 2}
    MaxBlocks = 4
    MaxRows = 3
    MaxEntries = 2
    MaxRewrites = 1
    MaxBroken = 1
INVARIANTS
    ConversationTypeOK LoopSafe CompactionSafe AllReachable WireSound LedgerSafe
PROPERTIES
    GoalAndPinsKept Terminates
CHECK_DEADLOCK FALSE
