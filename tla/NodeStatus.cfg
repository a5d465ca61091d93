SPECIFICATION Spec
CONSTANTS
    Threads = {t1, t2}
    Instances = {i1}
    NoInstance = NoInstance
    Actions = {"RUN", "QUERY"}
    ThreadMax = 1
    MaxRestarts = 0
CHECK_DEADLOCK FALSE
SYMMETRY Symmetry
INVARIANT StoppedHasRun
