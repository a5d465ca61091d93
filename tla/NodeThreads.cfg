SPECIFICATION Spec
CONSTANTS
    Threads = {t1, t2, t3}
    Instances = {i1, i2}
    NoInstance = NoInstance
    Actions = {"RUN", "STOP", "ACPIREBOOT", "FULLREBOOT", "DESTROY", "QUERY"}
    ThreadMax = 1
    MaxRestarts = 1
CHECK_DEADLOCK FALSE
SYMMETRY Symmetry
INVARIANT TypeOK
INVARIANT OneAtATime
INVARIANT NoStaleLock
INVARIANT MachineHasDisk
INVARIANT WholeDisk
INVARIANT RunLimit
PROPERTY KeepDisk
