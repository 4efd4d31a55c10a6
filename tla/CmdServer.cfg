\* Three lines of any kind, two pool threads.  The server really stops (end
\* of input) and really blocks (a hung handler), so deadlock is not checked.
SPECIFICATION FairSpec
CONSTANTS
    Workers = {w1, w2}
    N = 3
    IdOf <- MCIdOf
    Kinds = {"invalid", "answer", "raise", "opaque", "endless"}
PROPERTIES
    HungHandlerCostsOneThread
    EofEndsServer
    ImplementsService
CHECK_DEADLOCK FALSE
