\* Two starts that may overlap, and two clients.
SPECIFICATION FairSpec
CHECK_DEADLOCK FALSE
CONSTANTS
    None = None
    Agents = {a1, a2}
    Clients = {c1, c2}
    MaxKills = 1
INVARIANTS ReachableUnlessOverlap AnswersWithTheKey
PROPERTIES SilentAfterStop KeyIsReleased
