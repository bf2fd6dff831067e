SPECIFICATION Spec
CONSTANTS
    NSlots = 2
    PartitionSize = 2
    Byte = {0, 1}
    Hash <- MCHash
    FactoryImage <- MCFactoryImage
    U32 = 8
    MaxChunk = 2
    AuthRequired = TRUE
    CacheSize = 2
    UseAuth = TRUE
    Retries = 2
    SequenceModulus = 16
    FirstSequences = {0, 13}
    Operations <- AllOperations
    MaxOperations = 2
    MaxFaults = 1
    MaxClients = 2
INVARIANTS
    TypeOK
    AckIsTrue
    SessionsAgree
PROPERTIES
    NackIsTrue
    AbortFrees
CHECK_DEADLOCK FALSE
