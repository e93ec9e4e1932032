CONSTANTS
    Headers <- HandoffHeaders
    GenesisLeader = "self"
    GenesisFork = 1
    MaxFork = 1
    MaxHeaders = 2
    Lookahead = 3
    Faults = {"build", "transport", "crash"}
    MaxL1 = 4
    MaxFaults = 1
    Polling = FALSE
SPECIFICATION MCSpec
INVARIANTS
    QueueMatchesChain
    OnlyTheLeaderProduces
CHECK_DEADLOCK FALSE
