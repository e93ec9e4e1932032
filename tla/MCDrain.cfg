SPECIFICATION ProcessorFairSpec
CONSTANTS
    Batches <- MCManySlots
    MaxUnprocessed = 2
    Reserve = 1
    MaxBatchGas = 2500000
    MaxInFlight = 1
    MaxCachedSlots = 1
    PageSize = 2
    MaxFaults = 2
PROPERTIES
    PayloadKept
    QueueDrains
