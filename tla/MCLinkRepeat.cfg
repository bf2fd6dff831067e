SPECIFICATION Spec
CONSTANTS
    NSlots = 2
    PartitionSize = 2
    Byte = {0, 1}
    Hash <- MCHash
    FactoryImage <- MCFactoryImage
    U32 = 8
    MaxChunk = 2
    AuthRequired = TRUE
    CacheSize = 2
    UseAuth = TRUE
    Retries = 2
    SequenceModulus = 16
    FirstSequences = {0}
    Operations <- AllOperations
    MaxOperations = 1
    MaxFaults = 0
    MaxClients = 1
INVARIANT
    RetryNeverRepeats
CHECK_DEADLOCK FALSE
