\* A text and two files that import each other in any way, or a text, two
\* files and two contexts.  Loading ends.
SPECIFICATION FairSpec
CONSTANTS
    f = f  g = g   n = n
    Paths = {f, g}
    Inputs <- AllInputs
    Depth = 3
    Names = {n}
    NoName = NoName
    NoSource = NoSource
    Conflict = Conflict
INVARIANTS
    ReadyIsWhole
    
PROPERTIES
    FirstDefinitionStays
    LoadEnds
CHECK_DEADLOCK FALSE
