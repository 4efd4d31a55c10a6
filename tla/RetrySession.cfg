\* Two requests of one process at the same time; nothing else goes wrong.
SPECIFICATION Spec
CONSTANTS
    r1 = r1  r2 = r2  r3 = r3  p1 = p1  p2 = p2
    NoJar = NoJar
    Requests = {r1, r2, r3}
    Processes = {p1, p2}
    Setups <- OnlyThreads
INVARIANT
    RetryIsThreadSafe
CHECK_DEADLOCK FALSE
