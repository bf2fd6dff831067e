SPECIFICATION FairSpec
CONSTANTS
    NSlots = 2
    PartitionSize = 3
    Byte = {0, 1}
    Hash <- MCHash
    FactoryImage <- MCFactoryImage
    U32 = 8
    MaxChunk = 2
    Offsets = {0, 1, 2, 7}
    Chunks <- MCChunks
    Sizes = {0, 2, 3, 4}
INVARIANTS
    TypeOK
    SessionAgreesWithFlash
    AckedChunksInFlash
    RunningSlotIntact
    TrialDiscipline
    FallbackExists
    AckedRollbackPossible
    ConfirmsWhatRuns
PROPERTIES
    StagedOnlyWhenVerified
    ImplementsAtomicUpdate
    TrialResolves
