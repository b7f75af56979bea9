\* One writer and one more process; kills, failures and outside changes anywhere.
SPECIFICATION Spec
CONSTANTS
    None = None
    Damaged = Damaged
    Procs = {p1, p2}
    MaxKey = 2
    MaxSecret = 3
    MaxEvents = 2
    Commands = {"bootstrap", "force", "forget", "rekeyLocal", "rekeyIdentity",
                "windowBootstrap", "windowRotate", "use", "agent"}
INVARIANTS UndisturbedKeyOpens IInv
PROPERTIES SetUpHeals BreaksOnlyInAWindow
