SPECIFICATION Spec
CONSTANTS
    NSlots = 3
    PartitionSize = 2
    Byte = {0, 1}
    Hash <- MCHash
    FactoryImage <- MCFactoryImage
    U32 = 8
    MaxChunk = 2
    Offsets = {0}
    Chunks <- MCChunks
    Sizes = {2}
INVARIANTS
    TrialDiscipline
    FallbackExists
