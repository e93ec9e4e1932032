CONSTANTS
    Headers <- GateHeaders
    GenesisLeader = "self"
    GenesisFork = 0
    MaxFork = 2
    MaxHeaders = 2
    Lookahead = 3
    Faults = {"build", "transport", "crash"}
    MaxL1 = 3
    MaxFaults = 1
    Polling = TRUE
SPECIFICATION MCSpec
INVARIANTS
    PauseBlocksProduction
    ForksFollowL1
CHECK_DEADLOCK FALSE
