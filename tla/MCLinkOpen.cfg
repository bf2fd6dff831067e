SPECIFICATION Spec
CONSTANTS
    NSlots = 2
    PartitionSize = 2
    Byte = {0, 1}
    Hash <- MCHash
    FactoryImage <- MCFactoryImage
    U32 = 8
    MaxChunk = 2
    AuthRequired = FALSE
    CacheSize = 2
    UseAuth = FALSE
    Retries = 2
    SequenceModulus = 16
    FirstSequences = {0}
    Operations <- AllOperations
    MaxOperations = 2
    MaxFaults = 1
    MaxClients = 1
INVARIANTS
    OnceAndInOrder
    AckIsTrue
CHECK_DEADLOCK FALSE
