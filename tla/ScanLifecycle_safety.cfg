\* One site, where scans follow each other: three scans, one credit that a refund
\* reopens, and two faults (a failure and the loss of its handler, a stall and a late failure).
SPECIFICATION Spec
CONSTANTS
    Sites = {x1}
    Requests = {r1}
    Ticks = {t1}
    CreditLimit = 1
    MaxScans = 3
    MaxFaults = 2
    None = None
INVARIANTS
    LedgerBalances
    ShownResultIsReal
PROPERTIES
    ImplementsContract
