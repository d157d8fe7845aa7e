SPECIFICATION FairSpec
CONSTANTS
  Nodes = {n1}
  Sites = {s1, s2}
  MaxReleases = 3
  MaxFaults = 3
  MaxOrphans = 0
  TornWrites = FALSE
INVARIANTS
  StateBackedByFiles
  AckedMeansRecorded
PROPERTIES
  NoDowngrade
  Settles
