\* Two sites, overlapping web requests and overlapping ticks: the row locks at work.
SPECIFICATION Spec
CONSTANTS
    Sites = {x1, x2}
    Requests = {r1, r2}
    Ticks = {t1, t2}
    CreditLimit = 2
    MaxScans = 2
    MaxFaults = 1
    None = None
SYMMETRY Symmetry
INVARIANTS
    OneUncanceledActiveScanPerSite
    EveryScanIsPaid
