CONSTANTS
    Options <- MCOptions
    Connections = {"branch", "office"}
    Horizon = 5
    MaxCycles = 4
    MaxTraffic = 1
    MaxDelay = 1
    Wrap = 4
    Tolerance = 1
    IssueAttempts = 3
    IssueTime = 3
    Confirmations = 3
SPECIFICATION Spec
INVARIANTS
    RateIsReal
    IssueEarned
    VirtualEarned
    
PROPERTIES
    BootKept
    CommandMatches
CHECK_DEADLOCK FALSE
