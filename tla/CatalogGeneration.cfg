SPECIFICATION Spec
CONSTANTS
    SELECTED_MODULES <- MCSelected
    ReviewedCandidates <- MCCandidates
    STABLE_MVP_OPERATION_CONTRACTS <- MCContracts
    PROTECTED_INPUT_CONTRACTS <- MCProtected
    EXPECTED_NONCANONICAL_PATHS <- MCNoncanonical
    Source <- MCSource
    Policy <- MCPolicy
    SourceEdits <- MCSourceEdits
    PolicyEdits <- MCPolicyEdits
    CatalogEdits <- MCCatalogEdits
    Null = Null
    Malformed = Malformed
    Rejected = Rejected
    NotJson = NotJson
    NoCatalog = NoCatalog
    MaxEdits = 2
    MaxRuns = 2
CHECK_DEADLOCK FALSE
INVARIANTS
    CommandsAreUnambiguous SecretsAreInventoried RequiredInputsAreSupplied
    RuntimeRunsTrustedPolicy GeneratedCatalogLoads ArtifactsAgree NothingIsDropped
