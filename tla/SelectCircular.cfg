\* Two definitions that extend each other.
SPECIFICATION Spec
CONSTANTS
    a = a  b = b  c = c
    Words = {a, b}
    Numbers = {1}
    NoName = NoName
    MaxDefs = 2
    MaxWalk = 4
    Layouts <- MCLayouts
    Positions <- MCPositions
    Comment = Comment
INVARIANT
    CircularReferenceFound
CHECK_DEADLOCK FALSE
