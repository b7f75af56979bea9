SPECIFICATION Spec
CONSTANTS
    None = None
    Torn = Torn
    Unknown = Unknown
    k1 = k1
    k2 = k2
    Signers = {k1, k2}
    Targets <- MCTargets
    Tools <- MCTools
    Dists <- MCDists
    Keeps = {0, 1}
    MaxReleases = 2
    MaxFaults = 1
    Quiet = TRUE
CHECK_DEADLOCK FALSE
INVARIANTS FloorIsCarried CompletedReleaseVerifies CompletedReleaseIsConsistent RecordIsTrue OnlyInterruptionsUnsign InstalledIsAdmitted SoundRunsEndWell
PROPERTIES NewestStays
