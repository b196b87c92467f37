\* Two pollers, each of whose lists may be old when it comes to the site; one fault.
SPECIFICATION FairSpec
CONSTANTS
    p1 = p1
    p2 = p2
    m1 = m1
    m2 = m2
    m3 = m3
    m4 = m4
    m5 = m5
    m6 = m6
    Pollers = {p1, p2}
    Moments <- MCMoments
    None = None
    Overrun = FALSE
    MaxFaults = 1

    
PROPERTIES
    DownIsConfirmed
    AlertIsCurrent
    ShownStateCatchesUp
