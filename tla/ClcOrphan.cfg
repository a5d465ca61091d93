SPECIFICATION Spec
CONSTANTS
    Jobs = {j1, j2}
    None = None
    Actions = {"RUN", "DESTROY"}
    Instances = {1}
    Nodes = {1}
    MaxSlot = 1
    NodeSelect = "LAST_ONLY"
    BusyLimit = 1
    Rooms = {TRUE}
    MaxConns = 1
    MaxOsm = 0
    MaxTakeovers = 0
    MaxFaults = 0
    MaxRestarts = 0
CHECK_DEADLOCK FALSE
SYMMETRY JobSymmetry
INVARIANT NoOrphan
