SPECIFICATION FairSpec
CONSTANTS
    Jobs = {j1, j2}
    None = None
    Actions = {"RUN", "FULLREBOOT", "OSM_QUERY", "QUERY"}
    Instances = {1}
    Nodes = {1}
    MaxSlot = 2
    NodeSelect = "ANY"
    BusyLimit = 1
    Rooms = {TRUE, FALSE}
    MaxConns = 1
    MaxOsm = 1
    MaxTakeovers = 0
    MaxFaults = 0
    MaxRestarts = 0
CHECK_DEADLOCK FALSE
PROPERTY JobsEnd
