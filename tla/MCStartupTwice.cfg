SPECIFICATION Spec
CONSTANTS
    Ports = {"UART0", "UART1"}
    Configs <- MCConfigs
    NvsFailures = {}
    MaxAttempts = 2
    MaxBoots = 1
INVARIANTS
    OncePerBoot
CHECK_DEADLOCK FALSE
