CONSTANTS
    Headers <- LedHeaders
    GenesisLeader = "self"
    GenesisFork = 1
    MaxFork = 1
    MaxHeaders = 2
    Lookahead = 2
    Faults = {"build", "transport", "forkchoice", "crash"}
    MaxL1 = 4
    MaxFaults = 2
    Polling = FALSE
SPECIFICATION MCSpec
INVARIANTS
    IngestionTypeOK
    QueueMatchesChain
    LookaheadBounded
CHECK_DEADLOCK FALSE
