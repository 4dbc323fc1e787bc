SPECIFICATION Spec
CONSTANTS
    Servers = {"s1", "s2"}
    Leases = {1, 99}
    DiscoverTimeout = 2
    TryAgain = 2
    DiscoverRetries = 2
    LeaseFloor = 17
    IntMax = 40
    MaxAge = 1
    MaxNaks = 1
    MaxSignals = 2
    MaxReadErrors = 1
CHECK_DEADLOCK FALSE
INVARIANTS
    TypeOK
    AddressMatchesState
    LeaseHonoured
PROPERTIES
    FailsOnlyAtBoot
    BootContinues
