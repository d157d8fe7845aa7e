SPECIFICATION Spec
INVARIANT TypeOK
PROPERTIES StrandsOnly MixesOnly Reaches
SYMMETRY Symmetry
CHECK_DEADLOCK FALSE
CONSTANTS
    Nodes = {n1, n2}
    Admins = {a1, a2}
    MaxRequests = 5
    MaxDrops = 1
