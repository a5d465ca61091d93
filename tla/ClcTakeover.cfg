SPECIFICATION Spec
CONSTANTS
    Jobs = {j1, j2}
    None = None
    Actions = {"RUN"}
    Instances = {1, 2}
    Nodes = {1}
    MaxSlot = 2
    NodeSelect = "LAST_ONLY"
    BusyLimit = 1
    Rooms = {TRUE}
    MaxConns = 2
    MaxOsm = 0
    MaxTakeovers = 1
    MaxFaults = 0
    MaxRestarts = 0
CHECK_DEADLOCK FALSE
SYMMETRY JobSymmetry
INVARIANT StartLimit
