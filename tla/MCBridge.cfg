CONSTANTS
    Users = {u1}
    Amounts = {1}
    DepositFees = {0}
    BouncebackFees = {1}
    WithdrawalFees = {0, 1}
    Nonces = {0, 1, 2}
    MaxUnprocessed = 3
    Reserve = 1
    ZeroAddress = ZeroAddress
    BatchInputs = {}
    MaxDeposits = 3
    MaxBatches = 2
SPECIFICATION MCSpec
INVARIANTS
    BridgeTypeOK
    Solvency
    BounceBacksResolvable
    RequestOrderKept
    BlocksSettleCompletely
    CursorsAgree
PROPERTIES
    EachRequestSettledOnce
CHECK_DEADLOCK FALSE
