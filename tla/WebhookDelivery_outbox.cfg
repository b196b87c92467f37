\* Two events and a test, two overlapping ticks, one crash; the lease outlasts the requests of all three.
SPECIFICATION FairSpec
CONSTANTS
    tick1 = tick1
    tick2 = tick2
    Deliveries = {1, 2, 3}
    Tests = {3}
    Ticks <- MCTicks
    Web = Web
    MaxAttempts = 2
    Backoff <- MCBackoff
    Lease = 4
    Hops = 0
    MaxToggles = 1
    MaxFaults = 1
CHECK_DEADLOCK FALSE
INVARIANTS
    OneSender
    
PROPERTIES
    DisabledForCause
    EveryEventEnds
