SPECIFICATION Spec
CONSTANTS
    None = None
    Imports <- MCImports
    Wanted <- MCWanted
    FirstDisk <- MCDisk
    Hidden <- MCHidden
    HttpNames <- MCHttpNames
    Bracketed = {}
    Unparsable <- MCUnparsable
    MaxTime = 2
    MaxFaults = 1
INVARIANTS
    UserFilesStay
    EveryRequestSaved
    ExportFindsImports
CHECK_DEADLOCK FALSE
