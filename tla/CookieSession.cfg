\* Two requests at once, two processes, or one request after the other.
SPECIFICATION Spec
CONSTANTS
    r1 = r1  r2 = r2  r3 = r3  p1 = p1  p2 = p2
    NoJar = NoJar
    Requests = {r1, r2, r3}
    Processes = {p1, p2}
    Setups <- AllSetups
INVARIANTS
    ClearIsolated
    FileReadable
    NoCookieIsolated
    KeptCookiesSurvive
PROPERTIES
    TornFileDisablesCookies
    CookiesSent
CHECK_DEADLOCK FALSE
