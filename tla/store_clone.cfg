\* One process runs every command while the store is cloned.
SPECIFICATION CloneSpec
CONSTANTS
    None = None
    Procs = {p1}
    Paths = {a, b}
    Contents = {x}
    Passes = {old}
    Versions = {1}
    Commands <- SaneCommands
    MaxGen = 2
    MaxFaults = 0
    Exclusive = TRUE
    TidyFirst = TRUE
INVARIANTS ListingExact
PROPERTIES CloneIsWhole

