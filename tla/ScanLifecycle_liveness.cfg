\* The scheduler alone, with cancels: two sites, two overlapping ticks, one credit, no faults.
SPECIFICATION FairSpec
CONSTANTS
    Sites = {x1, x2}
    Requests = {}
    Ticks = {t1, t2}
    CreditLimit = 1
    MaxScans = 3
    MaxFaults = 0
    None = None
PROPERTIES
    
    DueSitesAdvance
