SPECIFICATION ConvSpec
CONSTANTS
    None = None
    Chains <- MCChains
    HeaderNames <- MCHeaderNames
    Keys <- MCKeys
    DefaultHeaders <- MCDefaults
    KnownServices <- MCServices
    KnownRegions <- MCRegions
    LegacyParts <- MCLegacy
    FilesThere <- MCFiles
    Binary <- MCBinary
    Guess <- MCGuess
    Empty <- MCEmpty
    JsonObjects <- MCObjects
    JsonArrays <- MCArrays
    JsonStrings <- MCStrings
    Dumped <- MCDumped
    Unquoted <- MCUnquoted
    PostmanItems <- MCItems
    HarRequests <- MCHars
INVARIANTS
    ConvTypeOK
    GetsWhatItsBaseHas
    SignedForItsHost
    ShownSendsTheSame
    PostmanKeeps
    ImportsSend
    ExportsTellTheRequest
CHECK_DEADLOCK FALSE
