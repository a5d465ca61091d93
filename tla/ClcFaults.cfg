SPECIFICATION Spec
CONSTANTS
    Jobs = {j1, j2}
    None = None
    Actions = {"RUN", "STOP", "DESTROY", "DISABLE", "ENABLE", "CONFIG", "NODE_QUERY", "ACPIREBOOT"}
    Instances = {1}
    Nodes = {1}
    MaxSlot = 2
    NodeSelect = "LAST_ONLY"
    BusyLimit = 1
    Rooms = {TRUE}
    MaxConns = 2
    MaxOsm = 0
    MaxTakeovers = 1
    MaxFaults = 1
    MaxRestarts = 1
CHECK_DEADLOCK FALSE
SYMMETRY JobSymmetry
INVARIANT TypeOK
INVARIANT BusyNoLeak
INVARIANT WalkSafe
PROPERTY KeepsTables
