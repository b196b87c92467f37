\* Two sites, a batch of one, two ticks that overlap, two changes or outages, one fault.
SPECIFICATION FairSpec
CONSTANTS
    s1 = s1
    s2 = s2
    t1 = t1
    t2 = t2
    ExpiryDays = 2
    TlsDays = 1
    Sites = {s1, s2}
    Ticks = {t1, t2}
    Batch = 1
    Zone0 <- MCZone0
    Worlds <- MCWorlds
    Outages <- MCOutages
    MaxDisturbances = 1
    Today = 0
    MaxWatchFaults = 1
PROPERTIES
    
    EverySiteIsMeasured
    ColumnsCatchUp
    NameserversAreTold
