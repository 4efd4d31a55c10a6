\* Files of up to three definitions, with names below, at and above their
\* positions.
SPECIFICATION FairSpec
CONSTANTS
    a = a  b = b  c = c
    Words = {a, b}
    Numbers = {0, 1, 3}
    NoName = NoName
    MaxDefs = 3
    MaxWalk = 4
    Layouts <- MCLayouts
    Positions <- MCPositions
    Comment = Comment
INVARIANTS
    CursorSelectsItsDefinition
    InheritsFromAncestors
PROPERTIES
    SelectionEnds
CHECK_DEADLOCK FALSE
