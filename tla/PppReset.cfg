SPECIFICATION Spec
CONSTANTS
    InitTimeout = 11
    InitRetries = 2
    InitBackoff = 2
    PowerOnTime = 2
    BootWait = 1
    PppTimeout = 6
    PppLimit = 2
    Settle = 1
    ConnectMax = 8
    MqttLimit = 3
    BackoffBase = 1
    BackoffMax = 4
    StatusInterval = 2
    OobInterval = 3
    Slow = 3
INVARIANT HardResetAfterFailures
