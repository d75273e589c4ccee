SPECIFICATION Spec
CONSTANTS
    Inodes = {i1, i2}
    Blocks = {b1, b2}
    Maximum = 2
    Kinds = {"plain"}
    Absent = Absent
    NoFile = NoFile
    CoarseClock = FALSE
    MaxLength = 3
    MaxChanges = 2
CHECK_DEADLOCK FALSE
SYMMETRY FileSymmetry
INVARIANT LocalFilesAreLimited
