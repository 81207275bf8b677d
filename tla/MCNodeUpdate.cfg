SPECIFICATION FairSpec
CONSTANTS
    MaxVersion = 3
    FirstRelease = 3
    MaxRequests = 2
    MaxImages = 1
    MaxFaults = 1
    StatusFaults = TRUE
    MaxQueue = 1
INVARIANTS
    InstalledIsApproved
    SucceededIsInstalled
PROPERTIES
    NeverDowngraded
    RequestConsumed
