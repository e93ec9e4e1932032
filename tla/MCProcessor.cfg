SPECIFICATION ProcessorSpec
CONSTANTS
    Batches <- MCBatches
    MaxUnprocessed = 3
    Reserve = 2
    MaxBatchGas = 2500000
    MaxInFlight = 2
    MaxCachedSlots = 2
    PageSize = 2
    MaxFaults = 3
INVARIANTS
    ProcessorTypeOK
    StoreMatchesPortal
    NonceSlotPairing
    CapacityNeverRaces
PROPERTIES
    PayloadKept
