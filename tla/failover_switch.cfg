CONSTANTS
    NumNodes = 3
    NumPolicies = 1
    Priorities <- OnePriority
    SuspectAfter = 1
    OfflineAfter = 2
    FailureThreshold = 2
    RequireOnline = TRUE
    RequirePrewarm = FALSE
    DnsFailover = TRUE
    MaxOutages = 2
    MaxFaults = 1
    MaxRequests = 0
    Rebinding = FALSE
    MaxReleases = 1
SPECIFICATION Spec
INVARIANTS
    TypeOK
    OnePrimary
    PolicyWatchesPrimary
    DnsAtPair
PROPERTY NoRepeatedSwitch
CHECK_DEADLOCK FALSE
