CONSTANTS
    NumNodes = 3
    NumPolicies = 1
    Priorities <- TwoPriorities
    SuspectAfter = 1
    OfflineAfter = 2
    FailureThreshold = 2
    RequireOnline = TRUE
    RequirePrewarm = FALSE
    DnsFailover = FALSE
    MaxOutages = 1
    MaxFaults = 1
    MaxRequests = 1
    Rebinding = TRUE
    MaxReleases = 1
SPECIFICATION Spec
INVARIANT SomePrimary
CHECK_DEADLOCK FALSE
