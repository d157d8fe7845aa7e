CONSTANTS
    NumNodes = 3
    NumPolicies = 1
    Priorities <- OnePriority
    SuspectAfter = 1
    OfflineAfter = 2
    FailureThreshold = 2
    RequireOnline = TRUE
    RequirePrewarm = FALSE
    DnsFailover = FALSE
    MaxOutages = 2
    MaxFaults = 0
    MaxRequests = 0
    Rebinding = FALSE
    MaxReleases = 1
SPECIFICATION FairSpec
PROPERTIES FailsOver StatusSettles
CHECK_DEADLOCK FALSE
