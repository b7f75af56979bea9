\* Two rotations interrupted at the bundle swap, no bundle prune in between.
SPECIFICATION Spec
CHECK_DEADLOCK FALSE
CONSTANTS
    None = None
    Procs = {p1}
    Paths = {a}
    Contents = {x}
    Passes = {old}
    Versions = {1}
    Commands = {"put", "rekey", "pruneOrphans"}
    MaxGen = 3
    MaxFaults = 2
    Exclusive = TRUE
    TidyFirst = FALSE
INVARIANT SecretsStayReachable
