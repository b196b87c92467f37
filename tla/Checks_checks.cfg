SPECIFICATION Spec
CONSTANTS
    ExpiryDays = 2
    TlsDays = 1
    MaxBundles = 2
    MaxMatches = 2
    Texts <- MCTexts
    MaxProjectsPerPlatform = 2
    GlobalProbeBudget = 3
    BaasSites <- MCSites
    Payloads <- MCPayloads
    Pages <- MCPages
    BurstCount = 6
    MaxAttempts = 4
    ResetSamples = 3
    AuthSites <- MCAuthSites
    MaxAuthScans = 2
    UploadProbes <- MCUploads
    MaxUploadForms = 1
CHECK_DEADLOCK FALSE
INVARIANTS
    
    
    
    LimitsHold
    FlowsClearUp
PROPERTIES
    MoreTroubleNeverLooksBetter
