SPECIFICATION ReportSpec
CONSTANTS
    Schemes = {"https", "http"}
    Hosts = {h1, h2}
    Ports = {2083, 443}
    Locations = {call, other, third}
    Home <- ProfileOrigin
    h1 = h1  h2 = h2
    MaxRepeats = 2
    MaxRedirections = 3
    Characters <- Letters
    REDACTED <- TheMarker
    Texts <- Submitted
    Tokens <- ApiTokens
    Messages <- Echoes
    DataPaths <- Leaves
CHECK_DEADLOCK FALSE
INVARIANTS TypeOK TokenStaysHome NoSecretIsReported
PROPERTY ContentIsSentOnce
