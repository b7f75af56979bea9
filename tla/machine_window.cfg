\* A set-up machine whose desktop window rotates the store's identity.
SPECIFICATION Spec
CHECK_DEADLOCK FALSE
CONSTANTS
    None = None
    Damaged = Damaged
    Procs = {p1}
    MaxKey = 2
    MaxSecret = 2
    MaxEvents = 0
    Commands = {"bootstrap", "windowRotate", "use"}
INVARIANT KeyOpensThroughout
