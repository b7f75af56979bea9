SPECIFICATION Spec
CONSTANTS
    None = None
    Torn = Torn
    home = home
    dest = dest
    near = near
    a = a
    b = b
    Places <- MCPlaces
    Names = {a, b}
    NameOf <- MCNameOf
    Inside <- MCInside
    Below <- MCBelow
    NoFollow = FALSE
    Contents = {1, 2}
    Secret = {1}
    Modes = {384, 420}
    MaxRuns = 2
    MaxEdits = 2
    MaxFaults = 1
CHECK_DEADLOCK FALSE
INVARIANTS LandsAsStored CandidatesAccounted
PROPERTIES StoresTheFile ReplacesWithConsent GetStaysInside
