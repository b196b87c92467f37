\* Three scans of a site, one edit and one fault; two verifiers and two tokens; two requests and two
\* deliveries, one of which dies; a page with two steps of the bar and three requests.
SPECIFICATION Spec
CONSTANTS
    Callers = {"aggregator"}
    Users = {"u1"}
    Hooks = {"w1"}
    MaxHubFaults = 1
    Titled = {"banner"}
    ActiveIds = {}
    Compliance = {"banner"}
    CriticalIds = {"mail"}
    Results <- MCResults
    Triggers = {"manual", "schedule"}
    Editors = {"e1"}
    Patches <- MCPatches
    MaxScans = 3
    MaxEdits = 1
    Verifiers = {"v1", "v2"}
    MaxTokens = 2
    MaxRecords = 3
    Requests = {"r1", "r2"}
    Limit = 2
    MaxCount = 4
    Deploys = {"d1", "d2"}
    Credits = 3
    MaxLosses = 1
    MaxProgress = 2
    MaxFetches = 3
CHECK_DEADLOCK FALSE
INVARIANTS
    AlertReachesTeam
    MailOncePerEvent
    OwnershipIsProven
    WindowsHold
PROPERTIES
    RegressedWasDismissed
    EndIsShownForGood
