\* Two processes: secrets are written, moved, removed and pruned concurrently;
\* releases raise the floor; the commands that replace keys or bundles run alone.
SPECIFICATION Spec
CONSTANTS
    None = None
    Procs = {p1, p2}
    Paths = {a, b}
    Contents = {x, y}
    Passes = {old}
    Versions = {1}
    Commands <- SaneCommands
    MaxGen = 2
    MaxFaults = 0
    Exclusive = TRUE
    TidyFirst = TRUE
SYMMETRY TwoProcesses
INVARIANTS IInv
PROPERTIES ImplementsVault OnlyRemovalDeletes FloorFallsOnlyToAnOlderCopy
