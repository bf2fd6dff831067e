SPECIFICATION Spec
CONSTANTS
    Ports = {"UART0", "UART1"}
    Configs <- MCConfigs
    NvsFailures = {"OPEN", "GET", "SET", "COMMIT"}
    MaxAttempts = 3
    MaxBoots = 3
INVARIANTS
    DriverOfRunningLink
    ServesAsStarted
    NeverOpenByMistake
    NoCountLost
CHECK_DEADLOCK FALSE
