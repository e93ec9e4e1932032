CONSTANTS
    Users = {u1}
    Amounts = {2}
    DepositFees = {1}
    BouncebackFees = {0, 1}
    Nonces = {0, 1}
    MaxUnprocessed = 4
    Reserve = 2
    BatchInputs <- MCBatchInputs
    MaxDeposits = 5
    MaxBatches = 2
SPECIFICATION MCSpec
INVARIANTS
    PortalTypeOK
    UnprocessedBounded
    QueueShape
    BounceBackHasRoom
CHECK_DEADLOCK FALSE
