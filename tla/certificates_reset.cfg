SPECIFICATION Spec
PROPERTIES IssuedNeverReset
CONSTANTS
    Workers = {w1}
    Admins = {a1}
    Sites = {s1}
    NoSite = nosite
    Batch = 2
    MaxOrders = 1
    MaxAcme = 1
    MaxDue = 0
    MaxRequests = 2
    MaxFaults = 0
