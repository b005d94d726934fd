SPECIFICATION RtSpec
CONSTANTS
    MaxConns = 2
    MaxSlots = 2
    MaxSaid = 2
    MaxSpoken = 2
    MaxToolCalls = 2
    MaxBarges = 1
    MaxTrouble = 1
    MaxInputs = 4
INVARIANT UserRowOnce
CHECK_DEADLOCK FALSE
