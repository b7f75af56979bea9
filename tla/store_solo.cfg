\* One process at a time, every command, kills and failures between any steps.
SPECIFICATION Spec
CONSTANTS
    None = None
    Procs = {p1}
    Paths = {a, b}
    Contents = {x}
    Passes = {old, new}
    Versions = {1}
    Commands <- SaneCommands
    MaxGen = 3
    MaxFaults = 2
    Exclusive = TRUE
    TidyFirst = TRUE
SYMMETRY Interchangeable
INVARIANTS Openable
PROPERTIES ImplementsVault FloorNeverFalls RotationIsComplete OneBundleLeft
