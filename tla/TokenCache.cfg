\* Three requests, at once or one after the other; one may be killed.
\* Requests end, so the system stops.
SPECIFICATION Spec
CONSTANTS
    r1 = r1  r2 = r2  r3 = r3  s1 = s1  s2 = s2
    Requests = {r1, r2, r3}
    Scopes = {s1, s2}
    Setups <- AllSetups
    Life = 2
    MaxTime = 2
    NoToken = NoToken
SYMMETRY Symmetry
INVARIANT
    SpTokensKept
PROPERTIES
    TakesOwnLiveToken
    TornStaysTorn
    AzRunOncePerLife
CHECK_DEADLOCK FALSE
