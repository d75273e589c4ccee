SPECIFICATION Spec
CONSTANTS
    n1 = n1  a1 = a1  a2 = a2  k1 = k1  k2 = k2
    Procs = {p1, p2, p3}
    Ops = {"databases.remove", "databases.create"}
    Names = {n1}
    Accounts = {a1, a2}
    Keys = {k1}
    Values = {v1}
    HiddenTarget = FALSE
    Lifetime = 1
    MaxTime = 2
    MaxEdits = 1
    InitialProfiles <- OneProfile
    NoProfile = NoProfile
    NoCommand = NoCommand
    NoListing = NoListing
    NoDigest = NoDigest
    NoTime = NoTime
CHECK_DEADLOCK FALSE
SYMMETRY ProcSymmetry
INVARIANTS EffectsWerePlanned DryRunsHaveNoEffect SuccessHasEffect
PROPERTY ImplementsApproval
