SPECIFICATION Spec
CONSTANTS
    Resolutions = {r1, r2}
    Operations <- SmallOperations
    Texts <- SmallTexts
    Binary = Binary
    Paths <- SomePaths
    UploadNames = {"f", "g"}
    Variables = {v1, v2}
    Empty = Empty
    Null = Null
    NoFile = NoFile
    NoToken = NoToken
    Unreadable = Unreadable
    InitialFiles <- FirstFiles
    InitialToken <- Lower
    MaxEdits = 1
CHECK_DEADLOCK FALSE
SYMMETRY ResolutionSymmetry
INVARIANTS SameSafeValuesSameCall SafeValuesDiscloseNothing SecretsAreKnown
