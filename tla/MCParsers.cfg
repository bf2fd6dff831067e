SPECIFICATION Spec
CONSTANTS
    Radix = 4
    MAGIC_0 = 2
    MAGIC_1 = 3
    HEADER_SIZE = 5
    CRC_SIZE = 1
    MAX_PAYLOAD = 2
    MaxSegments = 3
    Payloads <- MCPayloads
    protocol_crc32 <- MCCrc
    Lines <- MCLines
INVARIANTS
    FitsBuffer
    DeliversFrames
    ClearFramesArrive
    HostHoldsOneFrame
    ChunksDoNotMatter
    HostDeliversFrames
    HostClearFramesArrive
CHECK_DEADLOCK FALSE
