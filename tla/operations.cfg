CONSTANTS
    Nodes = {n1}
    Forms = {f1, f2}
    MaxOps = 2
    MaxEdits = 1
    MaxFaults = 2
SPECIFICATION FairSpec
INVARIANTS
    TypeOK
    AtMostOnce
    RunsAsRequested
    ResultIsReal
PROPERTIES
    ResultStays
    Finishes
