\* A desktop window with two stores, one of them still to be made.
SPECIFICATION FairSpec
CHECK_DEADLOCK FALSE
CONSTANTS
    None = None
    Stores = {s1, s2}
    Existing = {s1}
    Sections = {"Store", "Machine", "Release"}
    Envs = {None, s1}
    MaxActions = 2
    MaxBusy = 1
    MaxFailures = 1
INVARIANTS WindowIsOfOneStore
PROPERTIES LoadingEnds SettlesOnTheStore
