SPECIFICATION Spec
INVARIANTS TypeOK DeletedLeavesNothing
PROPERTIES KeepsPromise AgentRecovers
CONSTANTS
    Handlers = {h1, h2}
    MaxPairs = 3
    MaxFaults = 1
