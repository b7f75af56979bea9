\* A prune of orphans beside a removal and a put of the same path.
SPECIFICATION Spec
CONSTANTS
    None = None
    Procs = {p1, p2}
    Paths = {a}
    Contents = {x}
    Passes = {old}
    Versions = {1}
    Commands = {"put", "rm", "pruneOrphans"}
    MaxGen = 1
    MaxFaults = 0
    Exclusive = TRUE
    TidyFirst = TRUE
PROPERTY PrunesOnlyUnreadable
