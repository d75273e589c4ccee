SPECIFICATION Spec
CONSTANTS
    n1 = n1  n2 = n2  a1 = a1  a2 = a2  k1 = k1  k2 = k2  k3 = k3
    Procs = {p1, p2}
    Names = {n1, n2}
    Accounts = {a1, a2}
    Keys = {k1, k2}
    Menu <- RotationMenu
    NoProfile = NoProfile
    NoFile = NoFile
    NoCommand = NoCommand
    Torn = Torn
    MaxFaults = 0
CHECK_DEADLOCK FALSE
PROPERTY RotationIsAtomic
