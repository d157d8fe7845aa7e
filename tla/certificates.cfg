SPECIFICATION Spec
INVARIANTS TypeOK OneWorker IssuedOnce RecordStaysUntilChecked IssuedIsClean DefaultIsNewest VersionsNeverClash
SYMMETRY Symmetry
CONSTANTS
    Workers = {w1, w2}
    Admins = {a1, a2}
    Sites = {s1}
    NoSite = nosite
    Batch = 2
    MaxOrders = 3
    MaxAcme = 3
    MaxDue = 1
    MaxRequests = 2
    MaxFaults = 1
