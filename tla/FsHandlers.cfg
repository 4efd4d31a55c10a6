SPECIFICATION FSFairSpec
CONSTANTS
    Nothing = Nothing
    Dir = Dir
    Bad = Bad
    Files <- MCFiles
    Threads = {t1, t2}
    Ops <- MCOps
    FirstTree <- MCTree
    FirstData <- MCData
    MaxOps = 3
    MaxMishaps = 1
INVARIANTS
    FilesAreWhole
PROPERTIES
    AloneAsSpecified
    ErrorsAreClean
    EveryCommandIsAnswered
CHECK_DEADLOCK FALSE
