SPECIFICATION CliSpec
CONSTANTS
    n1 = n1  n2 = n2  a1 = a1  a2 = a2  k1 = k1  k2 = k2
    Procs = {p1, p2, p3, p4}
    Names = {n1, n2}
    Accounts = {a1, a2}
    Keys = {k1, k2}
    Menu <- OperatorMenu
    Public <- HostAndUser
    NoProfile = NoProfile
    NoFile = NoFile
    NoCommand = NoCommand
    Torn = Torn
    NoDigest = NoDigest
    NoTime = NoTime
    Lifetime = 1
    MaxTime = 2
    MaxFaults = 1
CHECK_DEADLOCK FALSE
SYMMETRY ProcSymmetry
INVARIANTS NoTokenIsOrphaned
PROPERTIES RemovedAsPlanned SerialStoreIsABook SuccessIsTrue ReplaceIsExplicit
