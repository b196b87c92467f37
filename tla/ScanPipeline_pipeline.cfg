\* Two children with two checks each that share a category, two faults.
SPECIFICATION FairSpec
CONSTANTS
    headers = headers
    meta = meta
    vitals = vitals
    render = render
    Checks <- MCChecks
    Owner <- MCOwner
    Category <- MCCategory
    MaxFaults = 2
    NoCheck = NoCheck
INVARIANTS
    
    CountersAddUp
PROPERTIES
    ProgressNeverGoesBack
    CanceledStaysCanceled
    ScanEnds
