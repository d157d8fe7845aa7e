SPECIFICATION Spec
CONSTANTS
  Nodes = {n1}
  Sites = {s1, s2}
  MaxReleases = 2
  MaxFaults = 0
  MaxOrphans = 0
  TornWrites = FALSE
INVARIANT IdleMeansReconciled
