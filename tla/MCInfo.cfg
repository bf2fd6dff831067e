SPECIFICATION Spec
CONSTANTS
    Capacity = 64
    Devices <- MCDevices
    LegacyDevices <- MCLegacyDevices
INVARIANTS
    SentIfItFits
    ReadsAsReported
    LegacyUnderstood
    VersionWholeOrZero
CHECK_DEADLOCK FALSE
