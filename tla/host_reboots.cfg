SPECIFICATION FairSpec
CONSTANTS
    FailuresBeforeReboot = 3
    MaxReboots = 2
    Window = 8
INVARIANTS TypeOK BreakerHolds
PROPERTIES HealthFailsClosed LatchedMinerRebooted
