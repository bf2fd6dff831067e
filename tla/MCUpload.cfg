SPECIFICATION Spec
CONSTANTS
    NSlots = 2
    PartitionSize = 6
    Byte <- MCBytes
    Hash <- MCHash
    FactoryImage <- MCFactoryImage
    U32 = 16
    MaxChunk = 3
    Files <- MCFiles
    ClientChunk = 2
    MaxUpdates = 2
    MaxEdits = 2
INVARIANTS
    AcceptsOneVersion
    UneditedFileFits
CHECK_DEADLOCK FALSE
