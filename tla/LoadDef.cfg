\* Texts of up to three mentions of a property, two properties from any
\* sources, and variables that use a property.  A request is sent, reported or
\* raises: the system stops.
SPECIFICATION Spec
CONSTANTS
    Keys = {"k", "h"}
    Values = {"a", "b"}
    Draws = {"d1", "d2"}
    Empty = "empty"
    NoValue = "none"
    Conflict = "conflict"
    Literal = Literal
    NoKey = "nokey"
    Stripped <- Names
    Requests <- AllRequests
INVARIANTS
    SentIsValued
    ReportedIsMissing
    SourcesInOrder
CHECK_DEADLOCK FALSE
