SPECIFICATION FairSpec
PROPERTIES OrdersEnd
CONSTANTS
    Workers = {w1, w2}
    Admins = {a1, a2}
    Sites = {s1}
    NoSite = nosite
    Batch = 2
    MaxOrders = 2
    MaxAcme = 2
    MaxDue = 1
    MaxRequests = 2
    MaxFaults = 1
