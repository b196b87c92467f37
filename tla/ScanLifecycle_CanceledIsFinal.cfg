\* What the comment promises, refuted on one site, without faults.
SPECIFICATION Spec
CONSTANTS
    Sites = {x1}
    Requests = {r1}
    Ticks = {t1}
    CreditLimit = 2
    MaxScans = 2
    MaxFaults = 0
    None = None
PROPERTY CanceledIsFinal
