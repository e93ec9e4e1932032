CONSTANTS
    Headers <- MixedHeaders
    GenesisLeader = "self"
    GenesisFork = 1
    MaxFork = 2
    MaxHeaders = 1
    Lookahead = 1
    Faults = {"build", "transport", "crash"}
    MaxL1 = 3
    MaxFaults = 1
    Polling = TRUE
SPECIFICATION MCFairSpec
PROPERTIES
    CatchesUp
CHECK_DEADLOCK FALSE
