\* Three lines of any kind, a pipe that holds one response.  A server that
\* hangs or has died really is stuck, so deadlock is not checked.
SPECIFICATION FairSpec
CONSTANTS
    N = 3
    IdOf <- MCIdOf
    Kinds = {"invalid", "answer", "raise", "opaque", "endless", "long"}
    PipeSize = 1
    MaxNoise = 2
INVARIANT
    AnsweredInOrder
PROPERTIES
    OpenClientIsAnswered
    ImplementsService
CHECK_DEADLOCK FALSE
