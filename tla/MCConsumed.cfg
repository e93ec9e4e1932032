CONSTANTS
    Headers <- LedHeaders
    GenesisLeader = "self"
    GenesisFork = 1
    MaxFork = 1
    MaxHeaders = 2
    Lookahead = 2
    Faults = {"forkchoice"}
    MaxL1 = 2
    MaxFaults = 1
    Polling = FALSE
SPECIFICATION MCSpec
INVARIANTS
    ConsumedIsCanonical
CHECK_DEADLOCK FALSE
