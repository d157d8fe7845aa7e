SPECIFICATION Spec
CONSTANTS
  Nodes = {n1, n2}
  Sites = {s1}
  MaxReleases = 2
  MaxFaults = 1
  MaxOrphans = 1
  TornWrites = TRUE
SYMMETRY NodeSymmetry
INVARIANTS TypeOK SuccessMeansPassed
CHECK_DEADLOCK FALSE
